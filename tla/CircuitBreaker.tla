--------------------------- MODULE CircuitBreaker ---------------------------
(***************************************************************************)
(* The circuit breaker of internal/reliability/reliability.go and the      *)
(* protocol of its callers: Allow, one request, exactly one Record call.   *)
(* Every caller is a goroutine; a step is one critical section of the      *)
(* breaker's mutex.                                                        *)
(*                                                                         *)
(* What is abstracted: time is the flag `cooled' (cooldown has passed      *)
(* since lastStateChange); failure counts above the threshold are not told *)
(* apart; success and per-category counters are diagnostics.  A refused    *)
(* Allow changes nothing and is no step.                                   *)
(***************************************************************************)
EXTENDS Integers

CONSTANTS
  Callers,    \* goroutines that use the breaker
  Threshold   \* failures in a row that open it

ASSUME ThresholdOK == Threshold \in Nat \ {0}

VARIABLES
  state,         \* CircuitBreaker.state
  failureCount,  \* CircuitBreaker.failureCount, up to Threshold
  cooled,        \* the cooldown since lastStateChange has passed
  pc,            \* callers: idle, requesting, or resolving a caller-side error
  probe          \* history: callers whose request was admitted as the test request

vars == <<state, failureCount, cooled, pc, probe>>

States == {"closed", "open", "half_open"}
PCs    == {"idle", "requesting", "resolving"}

-----------------------------------------------------------------------------
(* The breaker's critical sections.                                         *)

\* The states from which a request is let through, and what that makes of them.
Admits(s) == s = "closed" \/ (s = "open" /\ cooled)
AfterAllow(s) == IF s = "open" THEN "half_open" ELSE s

MoveTo(s) == state' = s /\ cooled' = (cooled /\ s = state)

RecordSuccess_KeepsCount ==                        \* mutant: count survives recovery
  /\ MoveTo("closed")
  /\ UNCHANGED failureCount
RecordSuccess ==
  /\ MoveTo("closed")
  /\ failureCount' = 0

RecordFailure ==
  /\ failureCount' = IF failureCount < Threshold THEN failureCount + 1 ELSE failureCount
  /\ MoveTo(IF \/ state = "half_open"
               \/ state = "closed" /\ failureCount' >= Threshold
            THEN "open" ELSE state)

\* RecordOutcome's look at the state, for an error of the caller's own making.
AfterCallerError_NotCounted(s) == "idle"            \* mutant: the probe is forgotten
AfterCallerError(s) == IF s = "half_open" THEN "resolving" ELSE "idle"

-----------------------------------------------------------------------------
(* A caller.                                                                *)

Leaves(c, next) == /\ pc' = [pc EXCEPT ![c] = next]
                   /\ probe' = IF next = "idle" THEN probe \ {c} ELSE probe

Allow(c) ==
  /\ pc[c] = "idle"
  /\ Admits(state)
  /\ MoveTo(AfterAllow(state))
  /\ pc' = [pc EXCEPT ![c] = "requesting"]
  /\ probe' = IF state = "open" THEN probe \cup {c} ELSE probe
  /\ UNCHANGED failureCount

Succeed(c) == pc[c] = "requesting" /\ RecordSuccess /\ Leaves(c, "idle")

Fail(c) == pc[c] = "requesting" /\ RecordFailure /\ Leaves(c, "idle")

\* RecordOutcome of a validation or authentication error: the state is read
\* under the lock and acted on in a second critical section.
CallerError(c) ==
  /\ pc[c] = "requesting"
  /\ Leaves(c, AfterCallerError(state))
  /\ UNCHANGED <<state, failureCount, cooled>>

Resolve(c) == pc[c] = "resolving" /\ RecordSuccess /\ Leaves(c, "idle")

CooldownPasses ==
  /\ state = "open" /\ ~cooled
  /\ cooled' = TRUE
  /\ UNCHANGED <<state, failureCount, pc, probe>>

\* An operator's Reset.
Reset == RecordSuccess /\ cooled' = FALSE /\ UNCHANGED <<pc, probe>>

\* runJob returns before the runner when the in-flight marker cannot be saved,
\* and records nothing on the breaker that tick consulted.
AdmissionFails(c) ==
  /\ pc[c] = "requesting"
  /\ Leaves(c, "idle")
  /\ UNCHANGED <<state, failureCount, cooled>>

-----------------------------------------------------------------------------
Init ==
  /\ state = "closed"
  /\ failureCount = 0
  /\ cooled = FALSE
  /\ pc = [c \in Callers |-> "idle"]
  /\ probe = {}

Finish(c) == Succeed(c) \/ Fail(c) \/ CallerError(c) \/ Resolve(c)

Next ==
  \/ \E c \in Callers : Allow(c) \/ Finish(c)
  \/ CooldownPasses
  \/ Reset

Spec == Init /\ [][Next]_vars

\* Every admitted request has a deadline, so its caller reaches a Record call.
FairSpec == Spec /\ \A c \in Callers : WF_vars(Finish(c))

\* With the scheduler among the callers.
SchedulerSpec == Init /\ [][Next \/ \E c \in Callers : AdmissionFails(c)]_vars

-----------------------------------------------------------------------------
(* Properties.                                                              *)

\* Every variable holds values of its shape.
TypeOK ==
  /\ state \in States
  /\ failureCount \in 0..Threshold
  /\ cooled \in BOOLEAN
  /\ pc \in [Callers -> PCs]
  /\ probe \in SUBSET Callers

\* A half-open breaker refuses everyone, so someone it already let through must
\* still owe it an outcome: otherwise it is wedged (RecordOutcome's comment).
NoWedge == state = "half_open" => \E c \in Callers : pc[c] # "idle"

\* A closed breaker has its whole failure budget's worth of tolerance left or
\* would be open: recovery wipes the count of the outage it ended.
ClosedIsBelowThreshold == state = "closed" => failureCount < Threshold

\* The breaker never stays half-open: with every admitted request answered,
\* Allow is asked again by someone who may get a different answer.
HalfOpenResolves == state = "half_open" ~> state # "half_open"
=============================================================================
