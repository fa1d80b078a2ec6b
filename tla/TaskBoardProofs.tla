--------------------------- MODULE TaskBoardProofs ---------------------------
(***************************************************************************)
(* An admitted task is one the approval store agrees to, and an operator's *)
(* decision is not moved by a result, nothing runs twice and no claim is   *)
(* forgotten, for any number of tasks, failures and crashes.               *)
(*                                                                         *)
(* Agreement is inductive with two facts: a decision that is not audited   *)
(* keeps its task out of every sprint, and between its audit and the       *)
(* commit that clears the mark the decision cannot change.                 *)
(***************************************************************************)
EXTENDS TaskBoard, FiniteSetTheorems, TLAPS

\* An unaudited decision is still a decision.
DueIsDecided == \A t \in due : status[t] \in {"approved", "rejected"}

\* Whoever holds the mutex holds it for a decision that is marked.
HeldForDue ==
  /\ deciding.stage # "none" => deciding.task \in due
  /\ deciding.stage = "none" => deciding = Idle
  /\ deciding.stage = "clear" => audit[deciding.task] \in {"none", status[deciding.task]}

\* What is dispatched is a task, and has a result when it has ended.
DispatchedIsATask ==
  current # Nothing => current.task \in Tasks /\ current.result \in Results \cup {"running"}

BoardInv == TypeOK /\ DispatchedIsATask /\ DueIsDecided /\ HeldForDue /\ AuditAgrees

\* Values that stand for nothing have the shapes of the variables.
LEMMA EmptyHands ==
  /\ Nothing \in [task : Tasks \cup {NoTask}, result : Results \cup {"none", "running"}]
  /\ Nothing.task = NoTask /\ Nothing.result = "none"
  /\ Idle \in [task : Tasks \cup {NoTask}, stage : {"none", "audit", "clear"}]
  /\ Idle.stage = "none"
  /\ <<>> \in Seq(Tasks) /\ <<>> \in Seq([task : Tasks, result : Results])
BY DEF Nothing, Idle

\* A sequence of claimed tasks is a sequence of tasks.
LEMMA ClaimOrders ==
  ASSUME NEW S \in SUBSET Tasks, NEW order \in SetToSeqs(S)
  PROVE  order \in Seq(Tasks)
<1>1. Cardinality(S) \in Nat
  BY TasksAreFinite, FS_Subset, FS_CardinalityType
<1>2. order \in [1..Cardinality(S) -> S]
  BY DEF SetToSeqs
<1> QED BY <1>1, <1>2

\* What sequences of values of one kind are made of.
LEMMA Parts ==
  ASSUME NEW S, NEW s \in Seq(S)
  PROVE  /\ s # <<>> => Head(s) \in S /\ Tail(s) \in Seq(S)
         /\ \A x \in S : Append(s, x) \in Seq(S)
         /\ \A t \in Seq(S) : s \o t \in Seq(S)
         /\ ToSet(s) \subseteq S
BY DEF ToSet

LEMMA Joined ==
  ASSUME NEW S, NEW s \in Seq(S), NEW t \in Seq(S), NEW k \in 1..Len(s \o t)
  PROVE  \/ k \in 1..Len(s) /\ (s \o t)[k] = s[k]
         \/ k - Len(s) \in 1..Len(t) /\ (s \o t)[k] = t[k - Len(s)]
OBVIOUS

-----------------------------------------------------------------------------
(* What the audit, the decisions and the board can see of a step.           *)

\* The approval store moves; a decided request stays as it is.
AuditMoves ==
  /\ UNCHANGED <<board, deciding, sprint, history>>
  /\ audit' \in [Tasks -> {"none", "open", "skipped", "approved", "rejected", "expired"}]
  /\ overdue' \subseteq Tasks
  /\ \A t \in Tasks :
       /\ audit[t] \in {"approved", "rejected"} => audit'[t] = audit[t]
       /\ audit[t] = "none" /\ status[t] # "pending" => audit'[t] = "none"

LEMMA AuditSteps ==
  ASSUME TypeOK, AuditChanges
  PROVE  AuditMoves
<1> USE DEF TypeOK, AuditMoves, AuditChanges
<1>1. CASE Audit!Expire
  BY <1>1 DEF Audit!Expire
<1>2. ASSUME NEW t \in Tasks, Audit!Decide(t) PROVE AuditMoves
  BY <1>2 DEF Audit!Decide
<1>3. ASSUME NEW t \in Tasks, Audit!Pass(t) PROVE AuditMoves
  BY <1>3 DEF Audit!Pass
<1>4. ASSUME NEW t \in Tasks, status[t] = "pending", Audit!Make(t) PROVE AuditMoves
  BY <1>4 DEF Audit!Make
<1> QED BY <1>1, <1>2, <1>3, <1>4

\* A sprint moves only tasks it has claimed or may claim, and none to "rejected".
SprintMoves ==
  /\ UNCHANGED <<due, audit, overdue>>
  /\ deciding' \in {deciding, Idle} /\ (status' # status => Free)
  /\ status' \in [Tasks -> Statuses]
  /\ \A t \in Tasks : status'[t] # status[t] =>
       \/ status[t] = "in_progress" /\ status'[t] \in Results
       \/ status[t] = "approved" /\ t \notin due /\ status'[t] = "in_progress"
  /\ running' \in BOOLEAN /\ uncertain' \in BOOLEAN /\ batch' \in Seq(Tasks)
  /\ current' \in [task : Tasks \cup {NoTask}, result : Results \cup {"none", "running"}]
  /\ retained' \in Seq([task : Tasks, result : Results])
  /\ executed' \subseteq Tasks /\ lost' \subseteq Tasks

LEMMA SprintSteps ==
  ASSUME TypeOK, DispatchedIsATask, Sprint \/ Crash
  PROVE  SprintMoves /\ DispatchedIsATask'
<1> DEFINE Diagnostic == [task : Tasks, result : Results]
<1> USE NoTaskIsNoTask, EmptyHands
    DEF TypeOK, DispatchedIsATask, SprintMoves, Statuses, Results, approvals, board, sprint, history
<1>1. CASE Reconcile
  <2>1. Head(retained) \in Diagnostic /\ Tail(retained) \in Seq(Diagnostic)
    <3> HIDE DEF Diagnostic
    <3>1. retained \in Seq(Diagnostic) /\ retained # <<>>
      BY <1>1 DEF Reconcile, Diagnostic
    <3> QED BY <3>1, Parts
  <2> QED BY <1>1, <2>1 DEF Reconcile
<1>2. CASE Claim
  <2>1. batch' \in Seq(Tasks)
    BY <1>2, ClaimOrders DEF Claim, Claimable
  <2> QED BY <1>2, <2>1 DEF Claim, Claimable
<1>3. CASE Dispatch
  <2>1. Head(batch) \in Tasks /\ Tail(batch) \in Seq(Tasks)
    BY <1>3 DEF Dispatch
  <2> QED BY <1>3, <2>1 DEF Dispatch
<1>4. CASE ExecutionEnds
  BY <1>4 DEF ExecutionEnds, Ran
<1>5. CASE CommitResult
  <2>1. current \in Diagnostic
    BY <1>5 DEF CommitResult
  <2>2. Append(retained, current) \in Seq(Diagnostic)
    <3> HIDE DEF Diagnostic
    <3>1. retained \in Seq(Diagnostic)
      BY DEF Diagnostic
    <3> QED BY <2>1, <3>1, Parts
  <2>3. retained' \in Seq(Diagnostic)
    BY <1>5, <2>2 DEF CommitResult
  <2>4. /\ status' \in [Tasks -> Statuses] /\ (status' # status => Free)
        /\ \A t \in Tasks : status'[t] # status[t] =>
             status[t] = "in_progress" /\ status'[t] \in Results
    BY <1>5, <2>1 DEF CommitResult
  <2>5. /\ UNCHANGED <<due, audit, overdue, deciding, running, batch, uncertain, executed, lost>>
        /\ current' = Nothing
    BY <1>5 DEF CommitResult
  <2> QED BY <2>3, <2>4, <2>5
<1>6. CASE ReturnUnstarted
  <2> DEFINE returned == [k \in DOMAIN batch |-> [task |-> batch[k], result |-> "approved"]]
  <2>1. returned \in Seq(Diagnostic)
    <3>1. DOMAIN batch = 1..Len(batch) /\ Len(batch) \in Nat
      OBVIOUS
    <3>2. \A k \in 1..Len(batch) : [task |-> batch[k], result |-> "approved"] \in Diagnostic
      OBVIOUS
    <3> QED BY <3>1, <3>2
  <2>2. retained \o returned \in Seq(Diagnostic)
    BY <2>1
  <2> HIDE DEF returned
  <2>3. /\ retained' = retained \o returned \/ UNCHANGED retained
    BY <1>6 DEF ReturnUnstarted, returned
  <2>4. retained' \in Seq(Diagnostic)
    BY <2>2, <2>3
  <2>5. /\ status' \in [Tasks -> Statuses] /\ (status' # status => Free)
        /\ \A t \in Tasks : status'[t] # status[t] =>
             status[t] = "in_progress" /\ status'[t] = "approved"
    <3>1. CASE UNCHANGED status
      BY <3>1
    <3>2. CASE /\ Free /\ \A t \in ToSet(batch) : status[t] = "in_progress"
               /\ status' = [t \in Tasks |-> IF t \in ToSet(batch) THEN "approved" ELSE status[t]]
      BY <3>2
    <3> QED BY <1>6, <3>1, <3>2 DEF ReturnUnstarted
  <2>6. /\ UNCHANGED <<due, audit, overdue, deciding, current, uncertain, executed, lost>>
        /\ batch' = <<>> /\ running' = FALSE
    BY <1>6 DEF ReturnUnstarted
  <2> QED BY <2>4, <2>5, <2>6
<1>7. CASE SprintEnds
  BY <1>7 DEF SprintEnds
<1>8. CASE Panic
  <2>1. current.task \in Tasks /\ ToSet(batch) \subseteq Tasks
    BY <1>8 DEF Panic, ToSet
  <2> QED BY <1>8, <2>1 DEF Panic, Ran
<1>9. CASE Crash
  BY <1>9 DEF Crash, Ran
<1> QED BY <1>1, <1>2, <1>3, <1>4, <1>5, <1>6, <1>7, <1>8, <1>9 DEF Sprint

-----------------------------------------------------------------------------
\* Every step keeps the invariant.
LEMMA BoardStep ==
  ASSUME BoardInv, [Next]_vars
  PROVE  BoardInv'
<1> USE NoTaskIsNoTask, EmptyHands
    DEF BoardInv, DispatchedIsATask, TypeOK, DueIsDecided, HeldForDue, AuditAgrees, Statuses
<1> USE DEF approvals, board, sprint, history, Free
<1>1. CASE AuditChanges
  BY <1>1, AuditSteps DEF AuditMoves
<1>2. ASSUME NEW t \in Tasks, Approve(t) PROVE BoardInv'
  BY <1>2 DEF Approve, CommitDecision, Idle
<1>3. ASSUME NEW t \in Tasks, Reject(t) PROVE BoardInv'
  BY <1>3 DEF Reject, CommitDecision, Idle
<1>4. ASSUME NEW t \in Tasks, ResumeAudit(t) PROVE BoardInv'
  BY <1>4 DEF ResumeAudit
<1>5. CASE AuditDecision
  <2> DEFINE t == deciding.task
  <2>1. t \in due /\ t \in Tasks
    BY <1>5 DEF AuditDecision
  <2>2. /\ deciding' = [task |-> t, stage |-> "clear"]
        /\ UNCHANGED <<board, sprint, history, overdue>>
        /\ audit' \in [Tasks -> {"none", "open", "skipped", "approved", "rejected", "expired"}]
        /\ audit'[t] \in {"none", status[t]}
        /\ \A u \in Tasks \ {t} : audit'[u] = audit[u]
    BY <1>5, <2>1 DEF AuditDecision, Audit!Decide
  <2>3. deciding' \in [task : Tasks \cup {NoTask}, stage : {"none", "audit", "clear"}]
    BY <2>1, <2>2
  <2>4. AuditAgrees'
    BY <2>1, <2>2
  <2> QED BY <2>1, <2>2, <2>3, <2>4
<1>6. CASE ClearDue
  BY <1>6 DEF ClearDue
<1>7. CASE DecisionFails
  BY <1>7 DEF DecisionFails
<1>8. CASE Sprint \/ Crash
  <2>1. SprintMoves /\ DispatchedIsATask'
    BY <1>8, SprintSteps
  <2>2. deciding' \in [task : Tasks \cup {NoTask}, stage : {"none", "audit", "clear"}]
    BY <2>1 DEF SprintMoves
  <2>3. TypeOK'
    BY <2>1, <2>2 DEF SprintMoves
  <2>4. DueIsDecided' /\ AuditAgrees'
    BY <2>1 DEF SprintMoves, Results
  <2>5. HeldForDue'
    <3>1. CASE deciding' = Idle
      BY <3>1
    <3>2. CASE deciding' = deciding /\ status' = status
      BY <2>1, <3>2 DEF SprintMoves
    <3> QED BY <2>1, <3>1, <3>2 DEF SprintMoves
  <2> QED BY <2>1, <2>3, <2>4, <2>5
<1>9. CASE UNCHANGED vars
  BY <1>9 DEF vars
<1> QED BY <1>1, <1>2, <1>3, <1>4, <1>5, <1>6, <1>7, <1>8, <1>9 DEF Next, Decisions

\* A new board has decided nothing.
LEMMA BoardInit == Init => BoardInv
<1>1. Init => TypeOK /\ DispatchedIsATask
  BY NoTaskIsNoTask, EmptyHands DEF Init, Audit!Init, TypeOK, DispatchedIsATask, Statuses
<1>2. Init => DueIsDecided /\ HeldForDue /\ AuditAgrees
  BY EmptyHands DEF Init, Audit!Init, DueIsDecided, HeldForDue, AuditAgrees
<1> QED BY <1>1, <1>2 DEF BoardInv

\* Marks, mutex and audit agree in every reachable state: a decision whose audit
\* failed keeps its task out of every sprint (finishDecisionAudit).
THEOREM BoardInvariant == Spec => []BoardInv
<1>1. Init => BoardInv
  BY BoardInit
<1>2. BoardInv /\ [Next]_vars => BoardInv'
  BY BoardStep
<1> QED BY <1>1, <1>2, PTL DEF Spec

\* A task is admitted only when the approval store agrees (Approve, Reject,
\* ClaimApproved).
THEOREM AdmittedIsAudited == Spec => []AuditAgrees
<1>1. BoardInv => AuditAgrees
  BY DEF BoardInv
<1> QED BY <1>1, BoardInvariant, PTL

\* Neither a result nor its repair moves a task an operator has decided
\* (CommitExecutionBatch).
THEOREM OperatorsDecide == Spec => DecisionsStand
<1> DEFINE Stands ==
      \A t \in Tasks :
        /\ status[t] = "rejected" /\ status'[t] # "rejected" => status'[t] = "approved" /\ t \in due'
        /\ status[t] = "approved" => status'[t] \in {"approved", "rejected", "in_progress"}
<1>1. ASSUME BoardInv, Next PROVE Stands
  <2> USE DEF BoardInv, TypeOK, Statuses, board
  <2>1. CASE AuditChanges
    BY <1>1, <2>1, AuditSteps DEF AuditMoves
  <2>2. ASSUME NEW t \in Tasks, Approve(t) \/ Reject(t) PROVE Stands
    BY <1>1, <2>2 DEF Approve, Reject, CommitDecision
  <2>3. ASSUME UNCHANGED status PROVE Stands
    BY <2>3
  <2>4. CASE Sprint \/ Crash
    BY <1>1, <2>4, SprintSteps DEF SprintMoves, Results
  <2> QED
    BY <1>1, <2>1, <2>2, <2>3, <2>4
    DEF Next, Decisions, ResumeAudit, AuditDecision, ClearDue, DecisionFails
<1>2. ASSUME BoardInv, [Next]_vars PROVE [Stands]_vars
  BY <1>1, <1>2
<1>3. BoardInv /\ [Next]_vars => [Stands]_vars
  BY <1>2
<1> QED BY <1>3, BoardInvariant, PTL DEF Spec, DecisionsStand
-----------------------------------------------------------------------------
(* No replay.  The tasks of a sprint are in one place each -- its batch, its *)
(* execution, a retained result -- so what has run to an end is not          *)
(* dispatched later from another.                                            *)

OnlySprintsHold == ~ running => batch = <<>> /\ current = Nothing

BatchIsFresh ==
  \A i \in 1..Len(batch) :
    /\ batch[i] \notin executed /\ batch[i] # current.task
    /\ \A j \in 1..Len(batch) : batch[i] = batch[j] => i = j
    /\ \A k \in 1..Len(retained) : retained[k].task # batch[i]

RetainedIsOver ==
  \A k \in 1..Len(retained) :
    /\ retained[k].task # current.task
    /\ retained[k].result = "approved" => retained[k].task \notin executed

ApprovedIsFresh ==
  /\ \A t \in executed : status[t] # "approved"
  /\ current.result \in {"running", "approved"} => current.task \notin executed

ReplayInv == OnlySprintsHold /\ BatchIsFresh /\ RetainedIsOver /\ ApprovedIsFresh

\* No step of a sprint puts what has run where it can be dispatched.
LEMMA ReplayStep ==
  ASSUME BoardInv, ReplayInv, [Next]_vars
  PROVE  ReplayInv'
<1> DEFINE Diagnostic == [task : Tasks, result : Results]
<1> USE DEF ReplayInv, OnlySprintsHold, BatchIsFresh, RetainedIsOver, ApprovedIsFresh
<1>1. /\ batch \in Seq(Tasks) /\ retained \in Seq(Diagnostic)
      /\ Len(batch) \in Nat /\ Len(retained) \in Nat
      /\ Nothing.task \notin Tasks /\ Nothing.result = "none"
      /\ \A k \in 1..Len(retained) : retained[k].task \in Tasks
      /\ \A k \in 1..Len(batch) : batch[k] \in Tasks
      /\ status \in [Tasks -> Statuses] /\ executed \subseteq Tasks
  <2>1. batch \in Seq(Tasks) /\ retained \in Seq(Diagnostic)
    BY DEF BoardInv, TypeOK
  <2>2. \A k \in 1..Len(retained) : retained[k] \in Diagnostic
    <3> HIDE DEF Diagnostic
    <3> QED BY <2>1
  <2>3. \A k \in 1..Len(retained) : retained[k].task \in Tasks
    BY <2>2
  <2>4. Nothing.task \notin Tasks /\ Nothing.result = "none"
    BY EmptyHands, NoTaskIsNoTask
  <2>5. Len(batch) \in Nat /\ Len(retained) \in Nat /\ \A k \in 1..Len(batch) : batch[k] \in Tasks
    <3> HIDE DEF Diagnostic
    <3> QED BY <2>1
  <2> QED BY <2>1, <2>3, <2>4, <2>5 DEF BoardInv, TypeOK
<1> HIDE DEF Diagnostic
<1>2. CASE AuditChanges
  BY <1>2 DEF AuditChanges, board, sprint, history
<1>3. ASSUME NEW t \in Tasks, Approve(t) \/ Reject(t) PROVE ReplayInv'
  BY <1>1, <1>3 DEF Approve, Reject, CommitDecision, sprint
<1>4. ASSUME NEW t \in Tasks, ResumeAudit(t) PROVE ReplayInv'
  BY <1>4 DEF ResumeAudit, board, sprint, history
<1>5. CASE AuditDecision \/ ClearDue \/ DecisionFails
  BY <1>5 DEF AuditDecision, ClearDue, DecisionFails, board, sprint, history
<1>6. CASE Reconcile
  <2>1. /\ Len(retained') = Len(retained) - 1 /\ retained # <<>> /\ Len(retained) > 0
        /\ \A k \in 1..Len(retained') : retained'[k] = retained[k + 1] /\ k + 1 \in 1..Len(retained)
        /\ Head(retained) = retained[1]
    BY <1>1, <1>6 DEF Reconcile
  <2>2. /\ status' = [status EXCEPT ![retained[1].task] = retained[1].result]
        /\ UNCHANGED <<running, batch, current, executed>> /\ ~ running
    BY <1>6, <2>1 DEF Reconcile, history
  <2>3. \A t \in executed : status'[t] # "approved"
    BY <1>1, <2>1, <2>2
  <2>4. OnlySprintsHold' /\ BatchIsFresh'
    <3>1. batch' = <<>> /\ Len(batch') = 0 /\ UNCHANGED <<running, batch, current>>
      BY <2>2
    <3> QED BY <3>1
  <2>5. RetainedIsOver'
    <3>1. ASSUME NEW k \in 1..Len(retained')
          PROVE  /\ retained'[k].task # current.task
                 /\ retained'[k].result = "approved" => retained'[k].task \notin executed
      BY <2>1
    <3> QED BY <2>2, <3>1
  <2>6. ApprovedIsFresh'
    BY <2>2, <2>3
  <2> QED BY <2>4, <2>5, <2>6
<1>7. CASE Claim
  <2>1. /\ batch' \in SetToSeqs(Claimable) /\ Cardinality(Claimable) \in Nat
        /\ running' = TRUE /\ retained = <<>> /\ UNCHANGED <<current, retained, executed>>
        /\ status' = [t \in Tasks |-> IF t \in Claimable THEN "in_progress" ELSE status[t]]
        /\ current = Nothing
    BY <1>7, TasksAreFinite, FS_Subset, FS_CardinalityType DEF Claim, Claimable, history
  <2>2. /\ batch' \in [1..Cardinality(Claimable) -> Claimable]
        /\ \A i, j \in 1..Cardinality(Claimable) : i # j => batch'[i] # batch'[j]
    BY <2>1 DEF SetToSeqs
  <2>3. Len(batch') = Cardinality(Claimable)
    BY <2>1, <2>2
  <2>4. \A t \in Claimable : t \in Tasks /\ status[t] = "approved"
    BY DEF Claimable
  <2> QED BY <1>1, <2>1, <2>2, <2>3, <2>4
<1>8. CASE Dispatch
  <2>1. /\ Len(batch') = Len(batch) - 1 /\ Len(batch) > 0 /\ batch # <<>>
        /\ \A k \in 1..Len(batch') : batch'[k] = batch[k + 1] /\ k + 1 \in 1..Len(batch)
        /\ Head(batch) = batch[1]
    BY <1>1, <1>8 DEF Dispatch
  <2>2. /\ current'.task = batch[1] /\ running /\ running' = running
        /\ UNCHANGED <<retained, status, executed>>
    BY <1>8, <2>1 DEF Dispatch, board, history
  <2>3. \A k \in 1..Len(batch') : batch'[k] # batch[1]
    BY <1>1, <2>1
  <2>4. BatchIsFresh'
    BY <1>1, <2>1, <2>2, <2>3
  <2>5. RetainedIsOver' /\ ApprovedIsFresh'
    BY <1>1, <2>1, <2>2
  <2> QED BY <2>2, <2>4, <2>5
<1>9. CASE ExecutionEnds
  <2>1. /\ UNCHANGED <<running, batch, retained, status>> /\ running
        /\ current'.task = current.task
        /\ \/ executed' = executed
           \/ executed' = executed \cup Ran /\ current'.result # "approved"
        /\ current'.result # "running"
    <3>1. current # Nothing
      BY <1>1, <1>9 DEF ExecutionEnds
    <3>2. current \in [task : Tasks \cup {NoTask}, result : Results \cup {"none", "running"}]
      BY DEF BoardInv, TypeOK
    <3> QED BY <1>9, <3>1, <3>2 DEF ExecutionEnds, board
  <2>2. \A t \in Ran : t = current.task /\ status[t] # "approved"
    BY DEF Ran
  <2>3. current.task \notin executed
    BY <1>9 DEF ExecutionEnds
  <2> QED BY <1>1, <2>1, <2>2, <2>3
<1>10. CASE CommitResult
  <2>1. /\ UNCHANGED <<running, batch, executed>> /\ current' = Nothing
        /\ current.task \in Tasks /\ current \in Diagnostic
    <3>1. current \in [task : Tasks \cup {NoTask}, result : Results \cup {"none", "running"}]
      BY DEF BoardInv, TypeOK
    <3>2. current # Nothing
      BY <1>10, EmptyHands DEF CommitResult
    <3> QED BY <1>10, <3>1, <3>2 DEF CommitResult, history, BoardInv, DispatchedIsATask, Diagnostic
  <2>2. CASE /\ status' = [status EXCEPT ![current.task] = current.result]
             /\ UNCHANGED retained
    BY <1>1, <2>1, <2>2
  <2>3. CASE retained' = Append(retained, current) /\ UNCHANGED status
    <3>1. /\ Len(retained') = Len(retained) + 1 /\ retained'[Len(retained) + 1] = current
          /\ \A k \in 1..Len(retained) : retained'[k] = retained[k]
      BY <1>1, <2>1, <2>3
    <3>2. \A k \in 1..Len(retained') : retained'[k].task \in Tasks
      BY <1>1, <2>1, <3>1
    <3> QED BY <1>1, <2>1, <2>3, <3>1, <3>2
  <2> QED BY <1>10, <2>2, <2>3 DEF CommitResult
<1>11. CASE ReturnUnstarted
  <2> DEFINE returned == [k \in DOMAIN batch |-> [task |-> batch[k], result |-> "approved"]]
  <2>1. /\ batch' = <<>> /\ running' = FALSE /\ UNCHANGED <<current, executed>> /\ current = Nothing
    BY <1>11 DEF ReturnUnstarted, history
  <2>2. /\ returned \in Seq(Diagnostic) /\ Len(returned) = Len(batch)
        /\ \A k \in 1..Len(batch) : returned[k].task = batch[k]
    <3>1. \A k \in 1..Len(batch) : [task |-> batch[k], result |-> "approved"] \in Diagnostic
      BY <1>1 DEF Diagnostic, Results
    <3>2. DOMAIN returned = 1..Len(batch) /\ \A k \in 1..Len(batch) : returned[k].task = batch[k]
      BY <1>1
    <3>3. \A k \in 1..Len(batch) : returned[k] \in Diagnostic
      BY <3>1, <3>2
    <3> QED BY <1>1, <3>2, <3>3
  <2> HIDE DEF returned
  <2>3. CASE retained' = retained /\ \A t \in Tasks : status'[t] # status[t] => t \in ToSet(batch)
    <3>1. \A t \in ToSet(batch) : t \notin executed
      BY <1>1 DEF ToSet
    <3> QED BY <1>1, <2>1, <2>3, <3>1
  <2>4. CASE retained' = retained \o returned /\ UNCHANGED status
    <3>1. ASSUME NEW k \in 1..Len(retained')
          PROVE  \/ k \in 1..Len(retained) /\ retained'[k] = retained[k]
                 \/ \E j \in 1..Len(batch) : retained'[k] = returned[j]
      <4> DEFINE joined == retained \o returned
      <4>1. k \in 1..Len(joined)
        BY <2>4
      <4>2. \/ k \in 1..Len(retained) /\ joined[k] = retained[k]
            \/ k - Len(retained) \in 1..Len(returned) /\ joined[k] = returned[k - Len(retained)]
        BY <1>1, <2>2, <4>1, Joined
      <4> HIDE DEF joined
      <4>3. retained' = joined
        BY <2>4 DEF joined
      <4> QED BY <2>2, <4>2, <4>3
    <3>2. ASSUME NEW k \in 1..Len(retained')
          PROVE  /\ retained'[k].task \in Tasks
                 /\ retained'[k].result = "approved" => retained'[k].task \notin executed
      <4>1. CASE k \in 1..Len(retained) /\ retained'[k] = retained[k]
        BY <1>1, <4>1
      <4>2. ASSUME NEW j \in 1..Len(batch), retained'[k] = returned[j]
            PROVE  retained'[k].task = batch[j]
        BY <2>2, <4>2
      <4> QED BY <1>1, <3>1, <4>1, <4>2
    <3>3. RetainedIsOver'
      BY <1>1, <2>1, <3>2
    <3> QED BY <1>1, <2>1, <2>4, <3>3
  <2> QED BY <1>1, <1>11, <2>3, <2>4 DEF ReturnUnstarted, returned
<1>12. CASE SprintEnds
  BY <1>12 DEF SprintEnds, board, history
<1>13. CASE Panic
  BY <1>1, <1>13 DEF Panic, Ran, board
<1>14. CASE Crash
  BY <1>1, <1>14 DEF Crash, Ran, board
<1>15. CASE UNCHANGED vars
  BY <1>15 DEF vars, board, sprint, history
<1> QED
  BY <1>2, <1>3, <1>4, <1>5, <1>6, <1>7, <1>8, <1>9, <1>10, <1>11, <1>12, <1>13, <1>14, <1>15
  DEF Next, Decisions, Sprint

\* The places of a sprint's tasks stay apart.
LEMMA ReplayInvariant == Spec => [](BoardInv /\ ReplayInv)
<1>1. Init => BoardInv /\ ReplayInv
  <2>1. Init => BoardInv
    BY BoardInit
  <2>2. Init => ReplayInv
    BY EmptyHands
    DEF Init, ReplayInv, OnlySprintsHold, BatchIsFresh, RetainedIsOver, ApprovedIsFresh
  <2> QED BY <2>1, <2>2
<1>2. BoardInv /\ ReplayInv /\ [Next]_vars => (BoardInv /\ ReplayInv)'
  BY BoardStep, ReplayStep
<1> QED BY <1>1, <1>2, PTL DEF Spec

\* Work that has run to an end is never dispatched again without a new approval
\* (reconcileSprintCommits, ClaimApproved).
THEOREM NothingRunsTwice == Spec => NoReplay
<1> DEFINE Once == \A t \in executed : current'.task = t => current.task = t
<1>1. ASSUME BoardInv, ReplayInv, Next PROVE Once
  <2>1. NoTask \notin executed /\ Nothing.task = NoTask
    BY <1>1, EmptyHands, NoTaskIsNoTask DEF BoardInv, TypeOK
  <2>2. CASE current'.task = current.task
    BY <2>2
  <2>3. CASE current' = Nothing
    BY <2>1, <2>3
  <2>4. CASE Dispatch
    <3>1. current'.task = batch[1] /\ 1 \in 1..Len(batch)
      BY <1>1, <2>4 DEF Dispatch, BoardInv, TypeOK
    <3> QED BY <1>1, <3>1 DEF ReplayInv, BatchIsFresh
  <2>5. CASE ExecutionEnds
    <3>1. current \in [task : Tasks \cup {NoTask}, result : Results \cup {"none", "running"}]
      BY <1>1 DEF BoardInv, TypeOK
    <3> QED BY <2>5, <3>1 DEF ExecutionEnds
  <2> QED
    BY <1>1, <2>2, <2>3, <2>4, <2>5
    DEF Next, Decisions, Sprint, AuditChanges, Approve, Reject, CommitDecision, ResumeAudit,
        AuditDecision, ClearDue, DecisionFails, Reconcile, Claim, CommitResult, ReturnUnstarted,
        SprintEnds, Panic, Crash, sprint
<1>2. BoardInv /\ ReplayInv /\ [Next]_vars => [Once]_vars
  BY <1>1
<1> QED BY <1>2, ReplayInvariant, PTL DEF Spec, NoReplay

-----------------------------------------------------------------------------
(* No claim is forgotten.  A sprint claims only when the last one has left   *)
(* neither batch nor diagnostics, and queues every task it claims.           *)

\* Every claimed task is in the order of its sprint.
LEMMA ClaimsAreComplete ==
  ASSUME NEW S \in SUBSET Tasks, NEW order \in SetToSeqs(S), NEW t \in S
  PROVE  Len(order) \in Nat /\ \E i \in 1..Len(order) : order[i] = t
<1> DEFINE n == Cardinality(S)
<1>1. IsFiniteSet(S) /\ n \in Nat
  BY TasksAreFinite, FS_Subset, FS_CardinalityType
<1>2. order \in [1..n -> S] /\ \A i, j \in 1..n : i # j => order[i] # order[j]
  BY DEF SetToSeqs
<1>3. order \in Injection(1..n, S)
  BY <1>2 DEF Injection, IsInjective
<1>4. Cardinality(1..n) = n
  BY <1>1, FS_Interval
<1> HIDE DEF n
<1>5. order \in Surjection(1..n, S)
  BY <1>1, <1>3, <1>4, FS_Injection DEF n
<1>6. Len(order) = n
  BY <1>1, <1>2
<1>7. \E i \in 1..n : order[i] = t
  BY <1>5 DEF Surjection
<1> QED BY <1>1, <1>6, <1>7

\* Who will report a claimed task's result, or who has lost it.
Owned(t) ==
  \/ t \in lost
  \/ \E i \in 1..Len(batch) : batch[i] = t
  \/ t = current.task
  \/ \E k \in 1..Len(retained) : retained[k].task = t

OwnedInv == \A t \in Tasks : status[t] = "in_progress" => Owned(t)

\* Whoever gives a claim up hands it on or commits it.
LEMMA OwnedStep ==
  ASSUME BoardInv, OnlySprintsHold, OwnedInv, [Next]_vars
  PROVE  OwnedInv'
<1> DEFINE Diagnostic == [task : Tasks, result : Results]
<1>1. /\ batch \in Seq(Tasks) /\ retained \in Seq(Diagnostic)
      /\ Len(batch) \in Nat /\ Len(retained) \in Nat
      /\ status \in [Tasks -> Statuses]
      /\ current \in [task : Tasks \cup {NoTask}, result : Results \cup {"none", "running"}]
  BY DEF BoardInv, TypeOK
<1> HIDE DEF Diagnostic
<1>2. ASSUME UNCHANGED sprint, \A t \in Tasks : status'[t] = "in_progress" => status[t] = "in_progress" /\ (t \in lost => t \in lost')
      PROVE  OwnedInv'
  BY <1>2 DEF sprint, OwnedInv, Owned
<1>3. CASE AuditChanges \/ AuditDecision \/ ClearDue \/ DecisionFails
  BY <1>2, <1>3 DEF AuditChanges, AuditDecision, ClearDue, DecisionFails, board, history
<1>4. ASSUME NEW u \in Tasks, Approve(u) \/ Reject(u) PROVE OwnedInv'
  <2>1. UNCHANGED sprint /\ status'[u] # "in_progress"
        /\ \A t \in Tasks \ {u} : status'[t] = status[t] /\ (t \in lost => t \in lost')
    BY <1>1, <1>4 DEF Approve, Reject, CommitDecision
  <2> QED BY <1>2, <2>1
<1>5. ASSUME NEW u \in Tasks, ResumeAudit(u) PROVE OwnedInv'
  BY <1>2, <1>5 DEF ResumeAudit, board, history
<1>6. CASE Reconcile
  <2>1. /\ retained # <<>> /\ Head(retained) = retained[1] /\ Len(retained') = Len(retained) - 1
        /\ \A k \in 1..Len(retained') : retained'[k] = retained[k + 1]
        /\ retained[1] \in Diagnostic
    BY <1>1, <1>6 DEF Reconcile
  <2>2. /\ UNCHANGED <<batch, current, lost>>
        /\ status' = [status EXCEPT ![retained[1].task] = retained[1].result]
    BY <1>6, <2>1 DEF Reconcile, history
  <2>3. /\ status'[retained[1].task] # "in_progress"
        /\ \A t \in Tasks \ {retained[1].task} : status'[t] = status[t]
    BY <1>1, <2>1, <2>2 DEF Diagnostic, Results
  <2>4. ASSUME NEW t \in Tasks, t # retained[1].task, NEW k \in 1..Len(retained), retained[k].task = t
        PROVE  \E j \in 1..Len(retained') : retained'[j].task = t
    <3>1. k - 1 \in 1..Len(retained') /\ retained'[k - 1] = retained[k]
      BY <1>1, <2>1, <2>4
    <3> QED BY <2>4, <3>1
  <2> QED BY <2>2, <2>3, <2>4 DEF OwnedInv, Owned
<1>7. CASE Claim
  <2>1. /\ batch' \in SetToSeqs(Claimable) /\ UNCHANGED <<current, retained, lost>>
        /\ status' = [t \in Tasks |-> IF t \in Claimable THEN "in_progress" ELSE status[t]]
        /\ ~ running /\ Claimable \in SUBSET Tasks
    BY <1>7 DEF Claim, Claimable, history
  <2>2. batch = <<>> /\ Len(batch) = 0
    BY <2>1 DEF OnlySprintsHold
  <2>3. ASSUME NEW t \in Claimable PROVE \E i \in 1..Len(batch') : batch'[i] = t
    BY <2>1, ClaimsAreComplete
  <2> QED BY <2>1, <2>2, <2>3 DEF OwnedInv, Owned
<1>8. CASE Dispatch
  <2>1. /\ batch # <<>> /\ Len(batch') = Len(batch) - 1
        /\ \A k \in 1..Len(batch') : batch'[k] = batch[k + 1]
        /\ current'.task = batch[1] /\ current = Nothing /\ UNCHANGED <<status, retained, lost>>
    BY <1>1, <1>8 DEF Dispatch, board, history
  <2>2. ASSUME NEW t \in Tasks, NEW i \in 1..Len(batch), batch[i] = t, t # current'.task
        PROVE  \E j \in 1..Len(batch') : batch'[j] = t
    <3>1. i - 1 \in 1..Len(batch') /\ batch'[i - 1] = batch[i]
      BY <1>1, <2>1, <2>2
    <3> QED BY <2>2, <3>1
  <2>3. current.task \notin Tasks
    BY <2>1, EmptyHands, NoTaskIsNoTask
  <2> QED BY <2>1, <2>2, <2>3 DEF OwnedInv, Owned
<1>9. CASE ExecutionEnds
  BY <1>1, <1>9 DEF ExecutionEnds, board, OwnedInv, Owned
<1>10. CASE CommitResult
  <2>1. /\ UNCHANGED <<batch, lost>> /\ current \in Diagnostic /\ current.task \in Tasks
    <3>1. current # Nothing
      BY <1>10, EmptyHands DEF CommitResult
    <3> QED BY <1>1, <1>10, <3>1 DEF CommitResult, history, BoardInv, DispatchedIsATask, Diagnostic
  <2>2. CASE /\ status' = [status EXCEPT ![current.task] = current.result]
             /\ UNCHANGED retained
    <3>1. /\ status'[current.task] # "in_progress"
          /\ \A t \in Tasks \ {current.task} : status'[t] = status[t]
      BY <1>1, <2>1, <2>2 DEF Diagnostic, Results
    <3> QED BY <2>1, <2>2, <3>1 DEF OwnedInv, Owned
  <2>3. CASE retained' = Append(retained, current) /\ UNCHANGED status
    <3>1. /\ Len(retained') = Len(retained) + 1 /\ retained'[Len(retained) + 1] = current
          /\ \A k \in 1..Len(retained) : retained'[k] = retained[k]
      BY <1>1, <2>1, <2>3
    <3>2. /\ \E k \in 1..Len(retained') : retained'[k].task = current.task
          /\ \A t \in Tasks : (\E k \in 1..Len(retained) : retained[k].task = t) =>
               \E k \in 1..Len(retained') : retained'[k].task = t
      BY <1>1, <3>1
    <3> QED BY <2>1, <2>3, <3>2 DEF OwnedInv, Owned
  <2> QED BY <1>10, <2>2, <2>3 DEF CommitResult
<1>11. CASE ReturnUnstarted
  <2> DEFINE returned == [k \in DOMAIN batch |-> [task |-> batch[k], result |-> "approved"]]
  <2>1. UNCHANGED <<current, lost>>
    BY <1>11 DEF ReturnUnstarted, history
  <2>2. /\ returned \in Seq(Diagnostic) /\ Len(returned) = Len(batch)
        /\ \A k \in 1..Len(batch) : returned[k].task = batch[k]
    <3>1. \A k \in 1..Len(batch) : [task |-> batch[k], result |-> "approved"] \in Diagnostic
      BY <1>1 DEF Diagnostic, Results
    <3>2. DOMAIN returned = 1..Len(batch) /\ \A k \in 1..Len(batch) : returned[k].task = batch[k]
      BY <1>1
    <3>3. \A k \in 1..Len(batch) : returned[k] \in Diagnostic
      BY <3>1, <3>2
    <3> QED BY <1>1, <3>2, <3>3
  <2>3. CASE /\ UNCHANGED retained
             /\ status' = [t \in Tasks |-> IF t \in ToSet(batch) THEN "approved" ELSE status[t]]
    <3>1. \A i \in 1..Len(batch) : batch[i] \in ToSet(batch)
      BY <1>1 DEF ToSet
    <3> QED BY <2>1, <2>3, <3>1 DEF OwnedInv, Owned
  <2>4. CASE retained' = retained \o returned /\ UNCHANGED status
    <3> HIDE DEF returned
    <3>1. /\ Len(retained') = Len(retained) + Len(batch)
          /\ \A k \in 1..Len(retained) : retained'[k] = retained[k]
          /\ \A k \in 1..Len(batch) : retained'[Len(retained) + k] = returned[k]
      <4> DEFINE joined == retained \o returned
      <4>1. retained \in Seq(Diagnostic) /\ returned \in Seq(Diagnostic)
        BY <1>1, <2>2
      <4>2. Len(joined) = Len(retained) + Len(returned)
        BY <4>1
      <4>3. \A k \in 1..Len(retained) : joined[k] = retained[k]
        BY <4>1
      <4>4. \A k \in 1..Len(returned) : joined[Len(retained) + k] = returned[k]
        BY <4>1
      <4>5. retained' = joined
        BY <2>4
      <4> HIDE DEF joined
      <4> QED BY <2>2, <4>2, <4>3, <4>4, <4>5
    <3>2. ASSUME NEW k \in 1..Len(batch)
          PROVE  \E j \in 1..Len(retained') : retained'[j].task = batch[k]
      <4>1. Len(retained) + k \in 1..Len(retained')
        BY <1>1, <3>1
      <4> QED BY <2>2, <3>1, <4>1
    <3>3. ASSUME NEW k \in 1..Len(retained)
          PROVE  \E j \in 1..Len(retained') : retained'[j].task = retained[k].task
      BY <1>1, <3>1
    <3>4. ASSUME NEW t \in Tasks, Owned(t) PROVE Owned(t)'
      <4>1. CASE t \in lost \/ t = current.task
        BY <2>1, <4>1 DEF Owned
      <4>2. CASE \E i \in 1..Len(batch) : batch[i] = t
        BY <3>2, <4>2 DEF Owned
      <4>3. CASE \E k \in 1..Len(retained) : retained[k].task = t
        BY <3>3, <4>3 DEF Owned
      <4> QED BY <3>4, <4>1, <4>2, <4>3 DEF Owned
    <3> QED BY <2>4, <3>4 DEF OwnedInv
  <2> QED BY <1>11, <2>3, <2>4 DEF ReturnUnstarted
<1>12. CASE SprintEnds
  BY <1>12 DEF SprintEnds, board, history, OwnedInv, Owned
<1>13. CASE Panic
  <2>1. \A i \in 1..Len(batch) : batch[i] \in ToSet(batch)
    BY <1>1 DEF ToSet
  <2> QED BY <1>13, <2>1 DEF Panic, board, OwnedInv, Owned
<1>14. CASE Crash
  BY <1>14 DEF Crash, board, OwnedInv, Owned
<1>15. CASE UNCHANGED vars
  BY <1>2, <1>15 DEF vars, board, history
<1> QED
  BY <1>3, <1>4, <1>5, <1>6, <1>7, <1>8, <1>9, <1>10, <1>11, <1>12, <1>13, <1>14, <1>15
  DEF Next, Decisions, Sprint

\* A claimed task has an owner that will report its result, unless a crash or a
\* panic has lost it (ClaimApproved, executeSprintTasks, reconcileSprintCommits).
THEOREM EveryClaimIsOwned == Spec => []ClaimsAreOwned
<1>1. Init => OwnedInv
  BY DEF Init, OwnedInv
<1>2. BoardInv /\ OwnedInv => ClaimsAreOwned
  <2> SUFFICES ASSUME BoardInv, OwnedInv, NEW t \in Tasks, status[t] = "in_progress"
               PROVE  \/ t \in lost \cup ToSet(batch) \/ t = current.task
                      \/ \E k \in DOMAIN retained : retained[k].task = t
    BY DEF BoardInv, ClaimsAreOwned
  <2>1. DOMAIN batch = 1..Len(batch) /\ DOMAIN retained = 1..Len(retained)
    BY DEF BoardInv, TypeOK
  <2>2. \A i \in 1..Len(batch) : batch[i] \in ToSet(batch)
    BY <2>1 DEF ToSet
  <2> QED BY <2>1, <2>2 DEF OwnedInv, Owned
<1>3. ReplayInv => OnlySprintsHold
  BY DEF ReplayInv
<1> QED BY <1>1, <1>2, <1>3, ReplayInvariant, OwnedStep, PTL DEF Spec
=============================================================================
