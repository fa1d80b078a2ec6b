-------------------------- MODULE DecisionRegister --------------------------
(***************************************************************************)
(* What the approval store promises whoever acts on its answers: a request *)
(* is decided once, an expired one is never approved, and nobody decides   *)
(* a request that was not made.                                            *)
(***************************************************************************)
CONSTANTS Ids

VARIABLES
  decision,  \* request -> "none", "open" or its one decision
  late       \* the requests whose deadline has passed

vars == <<decision, late>>

Init == decision = [i \in Ids |-> "none"] /\ late = {}

Make(i) ==
  /\ decision[i] = "none"
  /\ \E first \in {"open", "skipped"} : decision' = [decision EXCEPT ![i] = first]
  /\ UNCHANGED late

Decide(i) ==
  /\ decision[i] = "open" /\ i \notin late
  /\ \E verdict \in {"approved", "rejected"} : decision' = [decision EXCEPT ![i] = verdict]
  /\ UNCHANGED late

\* Deadlines are noticed late and together.
Expire ==
  /\ \E S \in SUBSET {i \in late : decision[i] = "open"} :
       decision' = [i \in Ids |-> IF i \in S THEN "expired" ELSE decision[i]]
  /\ UNCHANGED late

Pass(i) == late' = late \cup {i} /\ UNCHANGED decision

Next == Expire \/ \E i \in Ids : Make(i) \/ Decide(i) \/ Pass(i)

Spec == Init /\ [][Next]_vars
=============================================================================
