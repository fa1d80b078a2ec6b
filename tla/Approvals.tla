------------------------------ MODULE Approvals ------------------------------
(***************************************************************************)
(* Human approvals: the store of requests shared by every process          *)
(* (internal/hitl), the operators who decide them, the gates of behaviour  *)
(* trees that run their child under an approval (humanApprovalGateCmd) and *)
(* the workflow steps that wait for one (WorkflowApprovalWait).            *)
(*                                                                         *)
(* Every operation of the store is one transaction under the file's lock:  *)
(* reload, update, prune, save.  A gate makes several of them in a tick,   *)
(* and anything may happen in between.  The gates modelled are the ones    *)
(* the policy holds: a disabled policy and a sandbox run the child without *)
(* a request.  Requests are numbered in the order of their CreatedAt.      *)
(***************************************************************************)
EXTENDS Naturals, Sequences, FiniteSets, SequencesExt, FiniteSetsExt

CONSTANTS
  MaxRequests,  \* bound: requests ever made
  Works,        \* the gated pieces of work: a node with an agent and a task
  PostWorks,    \* those whose gate reviews the child's result (phase "post")
  Runs,         \* runs of trees, each with a blackboard
  Waiters,      \* approval steps of workflows
  Retain        \* hitlMaxStoredTerminal

Ids == 1..MaxRequests
Owners == Works \cup Waiters
ASSUME WorksAreKnown == PostWorks \subseteq Works /\ Works # {}
ASSUME RequestsAreBounded == MaxRequests \in Nat
ASSUME RetainIsPositive == Retain \in Nat \ {0}

VARIABLES
  status,   \* request -> its status, "none" before it is made
  owner,    \* the owners of the requests made, in order
  ended,    \* the decided requests in the order of their UpdatedAt
  dropped,  \* those no longer in the file
  late,     \* the requests past their ExpiresAt
  pc,       \* run -> where its gate stands
  board,    \* run -> its work, and what its blackboard and its tick know
  spent,    \* run -> the requests under which its child has completed
  wait,     \* waiter -> "idle", "waiting" or its answer
  asked     \* waiter -> its request

store == <<status, owner, ended, dropped>>
gates == <<pc, board, spent>>
waiters == <<wait, asked>>
vars == <<store, late, gates, waiters>>

-----------------------------------------------------------------------------
(* The store.                                                               *)

Unresolved == {"pending", "escalated"}
Stored == 1..Len(owner) \ dropped

\* persistRecords: everything unresolved stays, of the rest the newest.
Save(new) ==
  LET settled == {i \in Ids : new[i] \notin Unresolved \cup {"none"}} \ ToSet(ended)
  IN  \E order \in SetToSeqs(settled) :
        /\ status' = new
        /\ ended' = ended \o order
        /\ dropped' = {ended'[k] : k \in {k \in DOMAIN ended' : k + Retain <= Len(ended')}}

\* expireRequests, on all requests or on one.
Expired(S) ==
  [i \in Ids |-> IF i \in S \cap Stored \cap late /\ status[i] \in Unresolved
                 THEN "expired" ELSE status[i]]

Create(o, first) ==
  /\ Len(owner) < MaxRequests
  /\ owner' = Append(owner, o)
  /\ Save([status EXCEPT ![Len(owner) + 1] = first])

Decide_Unpolled(i, verdict) ==                            \* mutant: waits for a poll
  /\ i \in Stored /\ status[i] \in Unresolved
  /\ Save([status EXCEPT ![i] = verdict])
  /\ UNCHANGED <<owner, late, gates, waiters>>
Decide_Anew(i, verdict) ==                                \* mutant: revives a decision
  /\ i \in Stored /\ i \notin late /\ status[i] # "skipped"
  /\ Save([status EXCEPT ![i] = verdict])
  /\ UNCHANGED <<owner, late, gates, waiters>>
Decide(i, verdict) ==
  /\ i \in Stored /\ status[i] \in Unresolved /\ i \notin late
  /\ Save([status EXCEPT ![i] = verdict])
  /\ UNCHANGED <<owner, late, gates, waiters>>

\* By task: its latest request, decided or not; deciding it the same way again
\* changes nothing.
DecideTask(o, verdict) ==
  LET mine == {i \in Stored : owner[i] = o}
  IN  mine # {} /\ Decide(Max(mine), verdict)

\* ListPending and FindPendingByTaskID persist every expiry they see.
Poll ==
  /\ Expired(Stored) # status /\ Save(Expired(Stored))
  /\ UNCHANGED <<owner, late, gates, waiters>>

\* The deadline of a settled request matters to nobody.
Pass(i) ==
  /\ status[i] \in Unresolved /\ i \notin late
  /\ late' = late \cup {i} /\ UNCHANGED <<store, gates, waiters>>

-----------------------------------------------------------------------------
(* The gate of a behaviour tree.                                            *)

Fresh(w) == [work |-> w, req |-> 0, seen |-> "none", since |-> 0, done |-> FALSE]
AnyWork == CHOOSE w \in Works : TRUE
Post(r) == board[r].work \in PostWorks
Go(r, there) == pc' = [pc EXCEPT ![r] = there]
Know(r, req, seen) == board' = [board EXCEPT ![r].req = req, ![r].seen = seen, ![r].since = 0]
Unsee(r) == Know(r, board[r].req, "none")

Begin(r) ==
  /\ pc[r] = "idle" /\ Go(r, "tick")
  /\ \E w \in Works : board' = [board EXCEPT ![r] = Fresh(w)]
  /\ UNCHANGED <<store, late, spent, waiters>>

\* The request of the blackboard, with an expiry that is written first.
Refresh(r) ==
  /\ pc[r] = "tick" /\ board[r].req \in Stored
  /\ Save(Expired({board[r].req})) /\ Know(r, board[r].req, status'[board[r].req])
  /\ Go(r, "gated")
  /\ UNCHANGED <<owner, late, spent, waiters>>

\* None there, or no longer stored: the newest pending request of the same
\* work, left by an earlier run.
Search_Blind(r) ==                                        \* mutant: no deduplication
  /\ pc[r] = "tick" /\ board[r].req \notin Stored
  /\ Save(Expired(Stored)) /\ Go(r, "unasked")
  /\ board' = [board EXCEPT ![r].since = Len(owner)]
  /\ UNCHANGED <<owner, late, spent, waiters>>
Search_AnyWork(r) ==                                      \* mutant: same node name only
  /\ pc[r] = "tick" /\ board[r].req \notin Stored
  /\ Save(Expired(Stored))
  /\ LET open == {i \in Stored : status'[i] = "pending" /\ owner[i] \in Works}
     IN  IF open = {} THEN Go(r, "unasked") /\ board' = [board EXCEPT ![r].since = Len(owner)]
                      ELSE Go(r, "gated") /\ Know(r, Max(open), "pending")
  /\ UNCHANGED <<owner, late, spent, waiters>>
Search(r) ==
  /\ pc[r] = "tick" /\ board[r].req \notin Stored
  /\ Save(Expired(Stored))
  /\ LET open == {i \in Stored : status'[i] = "pending" /\ owner[i] = board[r].work}
     IN  IF open = {} THEN Go(r, "unasked") /\ board' = [board EXCEPT ![r].since = Len(owner)]
                      ELSE Go(r, "gated") /\ Know(r, Max(open), "pending")
  /\ UNCHANGED <<owner, late, spent, waiters>>

\* A reviewing gate runs its child first: it completes, or its code is returned.
RunFirst(r) ==
  /\ pc[r] \in {"gated", "unasked"} /\ Post(r) /\ ~ board[r].done
  /\ \/ board' = [board EXCEPT ![r].done = TRUE] /\ UNCHANGED pc
     \/ Go(r, "tick") /\ Unsee(r)
  /\ UNCHANGED <<store, late, spent, waiters>>

Reviewable(r) == Post(r) => board[r].done

\* The node or the policy of the process may approve at once.
Ask(r) ==
  /\ pc[r] = "unasked" /\ Reviewable(r)
  /\ \E first \in {"pending", "skipped"} :
       Create(board[r].work, first) /\ Know(r, Len(owner'), first)
  /\ Go(r, "gated")
  /\ UNCHANGED <<late, spent, waiters>>

\* A transaction that fails stores nothing and fails the gate; only the failure
\* of Create leaves its place.
GateFails(r) ==
  /\ pc[r] = "unasked" /\ Go(r, "tick") /\ Unsee(r)
  /\ UNCHANGED <<store, late, spent, waiters>>

\* The child has completed under the request: clearRequestState.
Complete(r) ==
  /\ Go(r, "tick")
  /\ spent' = [spent EXCEPT ![r] = @ \cup {board[r].req}]
  /\ board' = [board EXCEPT ![r] = Fresh(@.work)]

\* The status of this tick: run the child, release its result, wait or fail.
Conclude(r) ==
  /\ pc[r] = "gated" /\ Reviewable(r)
  /\ IF board[r].seen \notin {"approved", "skipped"}
     THEN Go(r, "tick") /\ Unsee(r) /\ UNCHANGED spent
     ELSE IF Post(r) THEN Complete(r) ELSE Go(r, "child") /\ Unsee(r) /\ UNCHANGED spent
  /\ UNCHANGED <<store, late, waiters>>

\* The child returns: still running keeps the request for the next tick.
ChildReturns(r) ==
  /\ pc[r] = "child"
  /\ \/ Complete(r)
     \/ Go(r, "tick") /\ UNCHANGED <<board, spent>>
  /\ UNCHANGED <<store, late, waiters>>

\* The run ends, is cancelled or crashes: its blackboard is lost.
End(r) ==
  /\ pc[r] # "idle" /\ Go(r, "idle")
  /\ board' = [board EXCEPT ![r] = Fresh(AnyWork)] /\ spent' = [spent EXCEPT ![r] = {}]
  /\ UNCHANGED <<store, late, waiters>>

-----------------------------------------------------------------------------
(* The approval step of a workflow.                                         *)

\* Approved by the policy, the step stores no request.
StartWait(w) ==
  /\ wait[w] = "idle"
  /\ \/ /\ Create(w, "pending")
        /\ wait' = [wait EXCEPT ![w] = "waiting"]
        /\ asked' = [asked EXCEPT ![w] = Len(owner')]
     \/ wait' = [wait EXCEPT ![w] = "approved"] /\ UNCHANGED <<store, asked>>
  /\ UNCHANGED <<late, gates>>

Answer == [approved |-> "approved", skipped |-> "approved", escalated |-> "escalated",
           rejected |-> "refused", expired |-> "refused", pending |-> "waiting"]

\* One round of WaitForRequest; a request that is no longer stored is an error.
PollWait_Ever(w) ==                                       \* mutant: refresh without expiry
  /\ wait[w] = "waiting"
  /\ wait' = [wait EXCEPT ![w] = IF asked[w] \in Stored THEN Answer[status[asked[w]]] ELSE "lost"]
  /\ UNCHANGED <<store, late, asked, gates>>
PollWait(w) ==
  /\ wait[w] = "waiting"
  /\ IF asked[w] \in Stored
     THEN Save(Expired({asked[w]})) /\ wait' = [wait EXCEPT ![w] = Answer[status'[asked[w]]]]
     ELSE UNCHANGED <<status, ended, dropped>> /\ wait' = [wait EXCEPT ![w] = "lost"]
  /\ UNCHANGED <<owner, late, asked, gates>>

\* Its own deadline, a cancellation or a failing store ends the wait.
GiveUp(w) ==
  /\ wait[w] = "waiting" /\ wait' = [wait EXCEPT ![w] = "lost"]
  /\ UNCHANGED <<store, late, asked, gates>>

-----------------------------------------------------------------------------
Init ==
  /\ status = [i \in Ids |-> "none"] /\ owner = <<>> /\ ended = <<>> /\ dropped = {}
  /\ late = {}
  /\ pc = [r \in Runs |-> "idle"] /\ spent = [r \in Runs |-> {}]
  /\ board = [r \in Runs |-> Fresh(AnyWork)]
  /\ wait = [w \in Waiters |-> "idle"] /\ asked = [w \in Waiters |-> 0]

Operator ==
  \/ \E i \in Ids : \E verdict \in {"approved", "rejected", "escalated"} : Decide(i, verdict)
  \/ \E o \in Owners : \E verdict \in {"approved", "rejected"} : DecideTask(o, verdict)
  \/ Poll

Tick(r) == Refresh(r) \/ Search(r) \/ RunFirst(r) \/ Ask(r) \/ Conclude(r) \/ ChildReturns(r)

Next ==
  \/ Operator
  \/ \E i \in Ids : Pass(i)
  \/ \E r \in Runs : Begin(r) \/ Tick(r) \/ GateFails(r) \/ End(r)
  \/ \E w \in Waiters : StartWait(w) \/ PollWait(w) \/ GiveUp(w)

Spec == Init /\ [][Next]_vars

\* Deadlines pass and a waiter polls; its own deadline is not needed.
FairSpec == Spec /\ (\A w \in Waiters : WF_vars(PollWait(w))) /\ \A i \in Ids : WF_vars(Pass(i))

-----------------------------------------------------------------------------
(* Properties.                                                              *)

Statuses == {"none", "pending", "approved", "rejected", "expired", "skipped", "escalated"}

\* Every variable holds values of its shape.
TypeOK ==
  /\ status \in [Ids -> Statuses] /\ owner \in Seq(Owners) /\ Len(owner) <= MaxRequests
  /\ ended \in Seq(Ids) /\ dropped \subseteq Ids /\ late \subseteq Ids
  /\ pc \in [Runs -> {"idle", "tick", "gated", "unasked", "child"}]
  /\ board \in [Runs -> [work : Works, req : 0..MaxRequests, seen : Statuses,
                         since : 0..MaxRequests, done : BOOLEAN]]
  /\ spent \in [Runs -> SUBSET Ids]
  /\ wait \in [Waiters -> {"idle", "waiting", "approved", "escalated", "refused", "lost"}]
  /\ asked \in [Waiters -> 0..MaxRequests]

\* The store is a register of decisions: each is taken once, before the
\* request's deadline, and keeps its value whatever processes, retries by task
\* and prunings follow (transaction, decideWithContext, expireRequests).
Register == INSTANCE DecisionRegister WITH
  decision <- [i \in Ids |-> IF status[i] \in Unresolved THEN "open" ELSE status[i]]
DecidedOnce == Register!Spec

Grants(i, o) == status[i] \in {"approved", "skipped"} /\ owner[i] = o

\* A gate runs its child, or releases its result, under an approval of that very
\* work that still stands, although it read the status in an earlier step; an
\* approval is good for one completion in a run (humanApprovalGateCmd.Run).
Authorised ==
  \A r \in Runs :
    /\ pc[r] = "child" => Grants(board[r].req, board[r].work) /\ board[r].req \notin spent[r]
    /\ \A i \in spent[r] : Grants(i, board[r].work)

\* What a waiting workflow step was told is what the store says for ever; only
\* an escalation is followed by a decision it no longer hears of.  Retention
\* never takes a request away before it is settled (persistRecords).
AnswersStand ==
  /\ TypeOK
  /\ \A i \in dropped : status[i] \notin Unresolved
  /\ \A w \in Waiters :
       /\ wait[w] = "approved" /\ asked[w] # 0 => Grants(asked[w], w)
       /\ wait[w] = "refused" => status[asked[w]] \in {"rejected", "expired"}

\* A gate asks for an approval only when every earlier request of its work is
\* settled or escalated: what its search found still holds when it creates, and a
\* re-entered gate makes no second request (the deduplication in Run).  Two gates
\* of the same work that search at the same time may both ask.
NoSecondRequest ==
  \A r \in Runs : pc[r] = "unasked" =>
    \A i \in 1..board[r].since : i \in Stored /\ owner[i] = board[r].work => status[i] # "pending"

\* A waiting step is answered although no operator ever looks at its request.
WaitersAreAnswered == \A w \in Waiters : wait[w] = "waiting" ~> wait[w] # "waiting"
=============================================================================
