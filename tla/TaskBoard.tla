------------------------------ MODULE TaskBoard ------------------------------
(***************************************************************************)
(* The dashboard's task board: operators approve and reject tasks          *)
(* (TaskStore.Approve, Reject), a sprint claims all approved ones, runs    *)
(* them one after another and commits each result (ClaimApproved,          *)
(* executeSprintTasks, CommitExecution).  Each commit replaces tasks.json  *)
(* and then publishes the snapshot, so memory and file agree; it may fail, *)
(* and the process may crash between any two steps.                        *)
(*                                                                         *)
(* The approval store appears as the register of decisions it implements   *)
(* (Approvals): decision k of the register is the audit request of task k. *)
(* Sprint executions carry no task id, so that a task's request is made    *)
(* before the task is decided.                                             *)
(***************************************************************************)
EXTENDS Naturals, Sequences, FiniteSets, SequencesExt

CONSTANTS
  Tasks,
  NoTask

ASSUME NoTaskIsNoTask == NoTask \notin Tasks
ASSUME TasksAreFinite == IsFiniteSet(Tasks)

VARIABLES
  status,     \* task -> its status in tasks.json
  due,        \* the tasks whose decision is not yet audited (AuditPending)
  audit,      \* task -> the decision of its approval request
  overdue,    \* the tasks whose request is past its deadline
  deciding,   \* who holds the store's mutex for a decision, and how far it is
  running,    \* sprintState.Running
  batch,      \* the claimed tasks the sprint has not dispatched
  current,    \* the dispatched one and its result, "running" until it ends
  retained,   \* the diagnostics whose commit failed
  uncertain,  \* sprintState.Uncertain
  executed,   \* tasks run to an end since their last approval
  lost        \* tasks whose owner was lost in a crash or a panic

Idle == [task |-> NoTask, stage |-> "none"]
Nothing == [task |-> NoTask, result |-> "none"]

approvals == <<audit, overdue>>
board == <<status, due>>
sprint == <<running, batch, current, retained, uncertain>>
history == <<executed, lost>>
vars == <<board, approvals, deciding, sprint, history>>

-----------------------------------------------------------------------------
(* Operators.                                                               *)

Audit == INSTANCE DecisionRegister WITH Ids <- Tasks, decision <- audit, late <- overdue

\* Requests are made, decided on the approvals page and expire on their own.
AuditChanges ==
  /\ \/ Audit!Expire
     \/ \E t \in Tasks : Audit!Decide(t) \/ Audit!Pass(t) \/ (status[t] = "pending" /\ Audit!Make(t))
  /\ UNCHANGED <<board, deciding, sprint, history>>

Free == deciding = Idle

\* The first commit of a decision; the mutex is held until its audit is done.
CommitDecision(t, verdict) ==
  /\ status' = [status EXCEPT ![t] = verdict] /\ due' = due \cup {t}
  /\ deciding' = [task |-> t, stage |-> "audit"]
  /\ UNCHANGED <<approvals, sprint>>

Approve(t) ==
  /\ Free /\ status[t] \in {"pending", "rejected", "failed"}
  /\ CommitDecision(t, "approved")
  /\ executed' = executed \ {t} /\ lost' = lost \ {t}

Reject(t) ==
  /\ Free /\ status[t] # "rejected"
  /\ CommitDecision(t, "rejected")
  /\ lost' = lost \ {t} /\ UNCHANGED executed

\* Deciding the same way again finishes an audit that failed.
ResumeAudit(t) ==
  /\ Free /\ t \in due /\ deciding' = [task |-> t, stage |-> "audit"]
  /\ UNCHANGED <<board, approvals, sprint, history>>

\* resolveHITLAudit: no request, or one decided the same way, is agreement.
AuditDecision_Ignored ==                                  \* mutant: refusal not returned
  /\ deciding.stage = "audit"
  /\ deciding' = [deciding EXCEPT !.stage = "clear"]
  /\ LET t == deciding.task
     IN  IF audit[t] = "open" /\ t \notin overdue
         THEN Audit!Decide(t) /\ audit'[t] = status[t] ELSE UNCHANGED approvals
  /\ UNCHANGED <<board, sprint, history>>
AuditDecision ==
  /\ deciding.stage = "audit"
  /\ LET t == deciding.task
     IN  \/ /\ audit[t] \in {"none", status[t]}
            /\ deciding' = [deciding EXCEPT !.stage = "clear"] /\ UNCHANGED approvals
         \/ /\ Audit!Decide(t) /\ audit'[t] = status[t]
            /\ deciding' = [deciding EXCEPT !.stage = "clear"]
  /\ UNCHANGED <<board, sprint, history>>

ClearDue ==
  /\ deciding.stage = "clear"
  /\ due' = due \ {deciding.task} /\ deciding' = Idle
  /\ UNCHANGED <<status, approvals, sprint, history>>

\* The request was decided otherwise, or one of the stores failed.
DecisionFails ==
  /\ deciding # Idle /\ deciding' = Idle
  /\ UNCHANGED <<board, approvals, sprint, history>>

-----------------------------------------------------------------------------
(* Sprints.                                                                 *)

\* reconcileSprintCommits: retained results first, in their order; one that the
\* board no longer takes, or uncertainty, keeps admission closed.
Reconcile ==
  /\ ~ running /\ ~ uncertain /\ Free /\ retained # <<>>
  /\ status[Head(retained).task] = "in_progress"
  /\ status' = [status EXCEPT ![Head(retained).task] = Head(retained).result]
  /\ retained' = Tail(retained)
  /\ UNCHANGED <<due, approvals, deciding, running, batch, current, uncertain, history>>

Claimable == {t \in Tasks : status[t] = "approved" /\ t \notin due}

Claim_Forgets ==                                          \* mutant: no reconciliation
  /\ ~ running /\ ~ uncertain /\ Free /\ Claimable # {}
  /\ status' = [t \in Tasks |-> IF t \in Claimable THEN "in_progress" ELSE status[t]]
  /\ batch' \in SetToSeqs(Claimable) /\ running' = TRUE /\ retained' = <<>>
  /\ UNCHANGED <<due, approvals, deciding, current, uncertain, history>>
Claim ==
  /\ ~ running /\ ~ uncertain /\ Free /\ retained = <<>> /\ Claimable # {}
  /\ status' = [t \in Tasks |-> IF t \in Claimable THEN "in_progress" ELSE status[t]]
  /\ batch' \in SetToSeqs(Claimable) /\ running' = TRUE
  /\ UNCHANGED <<due, approvals, deciding, current, retained, uncertain, history>>

\* The next task is run, or skipped by its agent's circuit breaker.
Dispatch ==
  /\ running /\ current = Nothing /\ batch # <<>>
  /\ \E result \in {"running", "approved"} :
       current' = [task |-> Head(batch), result |-> result]
  /\ batch' = Tail(batch)
  /\ UNCHANGED <<board, approvals, deciding, running, retained, uncertain, history>>

\* A run counts for the approval it was claimed under, not for a newer one.
Ran == {current.task} \cap {t \in Tasks : status[t] # "approved"}

\* sprintTaskDisposition: completed, failed, or deferred by a rate limit.
ExecutionEnds ==
  /\ current.result = "running"
  /\ \E result \in {"completed", "failed", "approved"} :
       /\ current' = [current EXCEPT !.result = result]
       /\ executed' = IF result = "approved" THEN executed ELSE executed \cup Ran
       /\ uncertain' \in IF result = "failed" THEN {TRUE, uncertain} ELSE {uncertain}
  /\ UNCHANGED <<board, approvals, deciding, running, batch, retained, lost>>

\* CommitExecution takes the result of a task that is still claimed; otherwise,
\* or when the write fails, the result is retained.
CommitResult_Forced ==                                    \* mutant: any status
  /\ current.task # NoTask /\ current.result # "running" /\ Free
  /\ status' = [status EXCEPT ![current.task] = current.result]
  /\ current' = Nothing
  /\ UNCHANGED <<due, retained, approvals, deciding, running, batch, uncertain, history>>
CommitResult_Requeues ==                                  \* mutant: failed commit is undone
  /\ current.task # NoTask /\ current.result # "running" /\ Free
  /\ status[current.task] = "in_progress"
  /\ \E result \in {current.result, "approved"} : status' = [status EXCEPT ![current.task] = result]
  /\ current' = Nothing
  /\ UNCHANGED <<due, retained, approvals, deciding, running, batch, uncertain, history>>
CommitResult ==
  /\ current.task # NoTask /\ current.result # "running" /\ Free
  /\ \/ /\ status[current.task] = "in_progress"
        /\ status' = [status EXCEPT ![current.task] = current.result] /\ UNCHANGED retained
     \/ retained' = Append(retained, current) /\ UNCHANGED status
  /\ current' = Nothing
  /\ UNCHANGED <<due, approvals, deciding, running, batch, uncertain, history>>

\* The budget has ended: what was not dispatched goes back in one commit, which
\* one task that is no longer claimed makes fail for all of them.
ReturnUnstarted ==
  /\ running /\ current = Nothing /\ batch # <<>> /\ Free
  /\ \/ /\ \A t \in ToSet(batch) : status[t] = "in_progress"
        /\ status' = [t \in Tasks |-> IF t \in ToSet(batch) THEN "approved" ELSE status[t]]
        /\ UNCHANGED retained
     \/ /\ retained' = retained \o [k \in DOMAIN batch |-> [task |-> batch[k], result |-> "approved"]]
        /\ UNCHANGED status
  /\ batch' = <<>> /\ running' = FALSE
  /\ UNCHANGED <<due, approvals, deciding, current, uncertain, history>>

SprintEnds ==
  /\ running /\ current = Nothing /\ batch = <<>> /\ running' = FALSE
  /\ UNCHANGED <<board, approvals, deciding, batch, current, retained, uncertain, history>>

\* A panic in the execution: the rest of the batch stays claimed, admission closed.
Panic ==
  /\ current.result = "running"
  /\ running' = FALSE /\ batch' = <<>> /\ current' = Nothing /\ uncertain' = TRUE
  /\ executed' = executed \cup Ran
  /\ lost' = lost \cup {current.task} \cup ToSet(batch)
  /\ UNCHANGED <<board, approvals, deciding, retained>>

\* Diagnostics die with the process; claims stay in the file.
Crash ==
  /\ deciding' = Idle /\ running' = FALSE /\ batch' = <<>> /\ current' = Nothing
  /\ retained' = <<>> /\ uncertain' = FALSE
  /\ lost' = lost \cup {t \in Tasks : status[t] = "in_progress"}
  /\ executed' = executed \cup Ran
  /\ UNCHANGED <<board, approvals>>

-----------------------------------------------------------------------------
Init ==
  /\ status = [t \in Tasks |-> "pending"] /\ due = {}
  /\ Audit!Init
  /\ deciding = Idle
  /\ running = FALSE /\ batch = <<>> /\ current = Nothing /\ retained = <<>> /\ uncertain = FALSE
  /\ executed = {} /\ lost = {}

Decisions ==
  \/ AuditChanges \/ AuditDecision \/ ClearDue \/ DecisionFails
  \/ \E t \in Tasks : Approve(t) \/ Reject(t) \/ ResumeAudit(t)

Sprint ==
  \/ Reconcile \/ Claim \/ Dispatch \/ ExecutionEnds \/ CommitResult
  \/ ReturnUnstarted \/ SprintEnds \/ Panic

Next == Decisions \/ Sprint \/ Crash

Spec == Init /\ [][Next]_vars

-----------------------------------------------------------------------------
(* Properties.                                                              *)

Statuses == {"pending", "approved", "rejected", "in_progress", "completed", "failed"}
Results == {"completed", "failed", "approved"}

\* Every variable holds values of its shape.
TypeOK ==
  /\ status \in [Tasks -> Statuses] /\ due \subseteq Tasks
  /\ audit \in [Tasks -> {"none", "open", "skipped", "approved", "rejected", "expired"}]
  /\ overdue \subseteq Tasks
  /\ deciding \in [task : Tasks \cup {NoTask}, stage : {"none", "audit", "clear"}]
  /\ running \in BOOLEAN /\ uncertain \in BOOLEAN
  /\ batch \in Seq(Tasks)
  /\ current \in [task : Tasks \cup {NoTask}, result : Results \cup {"none", "running"}]
  /\ retained \in Seq([task : Tasks, result : Results])
  /\ executed \subseteq Tasks /\ lost \subseteq Tasks

\* Work that has run to an end is never dispatched again without a new approval,
\* through failed commits, repairs, panics and restarts
\* (reconcileSprintCommits, ClaimApproved).
NoReplay == [][\A t \in executed : current'.task = t => current.task = t]_vars

\* A claimed task has an owner that will report its result: the batch, the
\* execution or a retained result, unless a crash or a panic has lost it.
ClaimsAreOwned ==
  /\ TypeOK
  /\ \A t \in Tasks : status[t] = "in_progress" =>
       \/ t \in lost \cup ToSet(batch) \/ t = current.task
       \/ \E k \in DOMAIN retained : retained[k].task = t

\* A task is admitted only when the approval store agrees: its request, if it has
\* one, is approved, and a rejected task's is rejected
\* (finishDecisionAudit, AuditPending).
AuditAgrees ==
  \A t \in Tasks \ due :
    /\ status[t] \in {"approved", "in_progress", "completed"} => audit[t] \in {"none", "approved"}
    /\ status[t] = "rejected" => audit[t] \in {"none", "rejected"}

\* What an operator decided while the task was running stands: neither a result
\* nor its repair moves a rejected task, or one approved again
\* (CommitExecutionBatch).
DecisionsStand ==
  [][\A t \in Tasks :
       /\ status[t] = "rejected" /\ status'[t] # "rejected" => status'[t] = "approved" /\ t \in due'
       /\ status[t] = "approved" => status'[t] \in {"approved", "rejected", "in_progress"}]_vars
=============================================================================
