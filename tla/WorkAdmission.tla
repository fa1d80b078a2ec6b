--------------------------- MODULE WorkAdmission ---------------------------
(***************************************************************************)
(* How the dashboard admits work: the restart gate's leases, the           *)
(* concurrency limiter, the worker pool, and the two kinds of requests     *)
(* that go through all three -- agent executions of the HTTP API           *)
(* (executeDashboardAgent) and sprints, which reserve their capacity       *)
(* before they claim tasks (handleSprintExecute, reserveSprint).           *)
(*                                                                         *)
(* A request has two goroutines: its handler (pc) and, once accepted, its  *)
(* callback in the pool (task).  The handler may leave first.              *)
(***************************************************************************)
EXTENDS Naturals, Sequences, FiniteSets

CONSTANTS
  Calls,       \* executions asked for over HTTP
  Sprints,     \* sprints asked for
  Workers,     \* goroutines of the pool
  Slots,       \* capacity of the limiter
  QueueLimit,  \* capacity of the pool's channel
  NoRequest

Requests == Calls \cup Sprints

ASSUME BoundsArePositive == Slots \in Nat \ {0} /\ QueueLimit \in Nat \ {0}
ASSUME RequestsAreDistinct == NoRequest \notin Requests /\ Calls \cap Sprints = {}

VARIABLES
  pc,        \* request -> where its handler stands
  live,      \* the requests whose context is neither cancelled nor expired
  leases,    \* the gate's leases, each released at most once
  sealed,    \* "open", "sealed" while a handoff is attempted, "kept" after it
  sem,       \* occupied slots of the limiter
  active,    \* the limiter's count of owners
  waiting,   \* the limiter's count of waiters
  queue,     \* the pool's channel
  worker,    \* worker -> the request it runs
  counted,   \* the workers the pool counts as active
  pool,      \* "open", "quit", "closed", "returned": progress of Shutdown
  task,      \* request -> where its callback stands
  decision,  \* sprint -> "open", "abort" or "start": what its callback is told
  slotGiven, \* the sprints whose reservation has been released
  desk,      \* the holder of sprintAdmission
  running    \* sprintState.Running

gate == <<leases, sealed>>
limiter == <<sem, active, waiting>>
workers == <<queue, worker, counted, pool>>
sprint == <<decision, slotGiven, desk, running>>
vars == <<pc, live, gate, limiter, workers, task, sprint>>

-----------------------------------------------------------------------------
(* The handler.                                                             *)

At(r, here) == pc[r] = here
Go(r, there) == pc' = [pc EXCEPT ![r] = there]

\* What a refused handler leaves behind: no lease, and for a sprint no desk.
Leave(r) ==
  /\ Go(r, "gone")
  /\ desk' = IF desk = r THEN NoRequest ELSE desk

\* sprintAdmission is a limiter of one; a running sprint is only reported.
TakeDesk(s) ==
  /\ At(s, "idle") /\ desk = NoRequest
  /\ IF running THEN Go(s, "gone") /\ UNCHANGED desk ELSE Go(s, "asking") /\ desk' = s
  /\ UNCHANGED <<live, gate, limiter, workers, task, decision, slotGiven, running>>

\* Acquire of the restart gate.
AcquireLease(r) ==
  /\ At(r, IF r \in Sprints THEN "asking" ELSE "idle")
  /\ IF sealed = "open" THEN Go(r, "leased") /\ leases' = leases \cup {r} /\ UNCHANGED desk
                        ELSE Leave(r) /\ UNCHANGED leases
  /\ UNCHANGED <<live, sealed, limiter, workers, task, decision, slotGiven, running>>

Queue(r) ==
  /\ At(r, "leased")
  /\ IF r \in live THEN Go(r, "waiting") /\ waiting' = waiting + 1 /\ UNCHANGED <<leases, desk>>
                   ELSE Leave(r) /\ leases' = leases \ {r} /\ UNCHANGED waiting
  /\ UNCHANGED <<live, sealed, sem, active, workers, task, decision, slotGiven, running>>

\* The select of AcquireWithContext takes a free slot even when the context
\* has ended meanwhile; the counters follow in a critical section of their own.
TakeSlot(r) ==
  /\ At(r, "waiting") /\ sem < Slots
  /\ Go(r, "slotted") /\ sem' = sem + 1
  /\ UNCHANGED <<live, gate, active, waiting, workers, task, sprint>>

AbandonSlot(r) ==
  /\ At(r, "waiting") /\ r \notin live
  /\ Leave(r) /\ waiting' = waiting - 1 /\ leases' = leases \ {r}
  /\ UNCHANGED <<live, sealed, sem, active, workers, task, decision, slotGiven, running>>

CountSlot(r) ==
  /\ At(r, "slotted")
  /\ Go(r, "submitting") /\ waiting' = waiting - 1 /\ active' = active + 1
  /\ UNCHANGED <<live, gate, sem, workers, task, sprint>>

\* Release of the limiter.
ReleaseSlot ==
  IF active = 0 THEN UNCHANGED <<sem, active>>
  ELSE active' = active - 1 /\ sem' = IF sem > 0 THEN sem - 1 ELSE 0

\* SubmitWithContext holds admission.RLock from here until it returns.
BeginSubmit(r) ==
  /\ At(r, "submitting") /\ r \in live /\ pool = "open"
  /\ Go(r, "parked")
  /\ UNCHANGED <<live, gate, limiter, workers, task, sprint>>

Enqueue(r) ==
  /\ At(r, "parked") /\ Len(queue) < QueueLimit
  /\ Go(r, IF r \in Sprints THEN "deciding" ELSE "awaiting")
  /\ queue' = Append(queue, r)
  /\ task' = [task EXCEPT ![r] = "queued"]
  /\ UNCHANGED <<live, gate, limiter, worker, counted, pool, sprint>>

\* A submission that ends without its task in the queue gives everything back.
SubmitFails(r) ==
  /\ \/ At(r, "submitting") \/ At(r, "parked")
  /\ r \notin live \/ pool # "open"
  /\ Leave(r) /\ ReleaseSlot /\ leases' = leases \ {r}
  /\ UNCHANGED <<live, sealed, waiting, workers, task, decision, slotGiven, running>>

\* The handler of an execution returns with the result, or without it when its
\* context ends first: the callback keeps lease and slot.
Answer(r) ==
  /\ At(r, "awaiting")
  /\ task[r] \in {"answered", "done"} \/ r \notin live
  /\ Go(r, "gone")
  /\ UNCHANGED <<live, gate, limiter, workers, task, sprint>>

\* release of a reservation: a sync.OnceFunc, from the handler or the callback.
ReleaseReservation_Again(s) ==                            \* mutant: not once
  slotGiven' = slotGiven \cup {s} /\ ReleaseSlot /\ leases' = leases \ {s}
ReleaseReservation(s) ==
  IF s \in slotGiven THEN UNCHANGED <<slotGiven, sem, active, leases>>
  ELSE slotGiven' = slotGiven \cup {s} /\ ReleaseSlot /\ leases' = leases \ {s}

\* ClaimApproved admitted tasks: start tells the callback to execute them.
StartSprint(s) ==
  /\ At(s, "deciding")
  /\ decision' = [decision EXCEPT ![s] = "start"] /\ running' = TRUE
  /\ Leave(s)
  /\ UNCHANGED <<live, gate, limiter, workers, task, slotGiven>>

\* It claimed nothing, or failed: the deferred abort.
AbortSprint_Silent(s) ==                                  \* mutant: releases, tells nobody
  /\ At(s, "deciding")
  /\ ReleaseReservation(s)
  /\ Leave(s)
  /\ UNCHANGED <<live, sealed, waiting, workers, task, decision, running>>
AbortSprint(s) ==
  /\ At(s, "deciding")
  /\ decision' = [decision EXCEPT ![s] = "abort"] /\ ReleaseReservation(s)
  /\ Leave(s)
  /\ UNCHANGED <<live, sealed, waiting, workers, task, running>>

-----------------------------------------------------------------------------
(* The pool and the callbacks.                                              *)

Become(r, there) == task' = [task EXCEPT ![r] = there]

\* A worker takes a task from the channel before it counts itself active.
Dequeue(w) ==
  /\ worker[w] = NoRequest /\ queue # <<>>
  /\ worker' = [worker EXCEPT ![w] = Head(queue)] /\ queue' = Tail(queue)
  /\ UNCHANGED <<pc, live, gate, limiter, counted, pool, task, sprint>>

BeginTask(w) ==
  /\ worker[w] # NoRequest /\ w \notin counted
  /\ counted' = counted \cup {w}
  /\ Become(worker[w], "begun")
  /\ UNCHANGED <<pc, live, gate, limiter, queue, worker, pool, sprint>>

\* An execution whose context has ended is not started; a sprint's callback
\* waits for its decision and then runs under a context of its own.
RunTask(r) ==
  /\ task[r] = "begun" /\ (r \in Sprints => decision[r] # "open")
  /\ Become(r, IF (IF r \in Sprints THEN decision[r] = "start" ELSE r \in live)
               THEN "executing" ELSE "ran")
  /\ UNCHANGED <<pc, live, gate, limiter, workers, sprint>>

\* It returns or panics; a sprint clears sprintState.Running on either path.
TaskEnds(r) ==
  /\ task[r] = "executing"
  /\ Become(r, "ran")
  /\ running' = IF r \in Sprints THEN FALSE ELSE running
  /\ UNCHANGED <<pc, live, gate, limiter, workers, decision, slotGiven, desk>>

\* The deferred calls of an execution: slot and result first, then the lease.
SendResult(r) ==
  /\ r \in Calls /\ task[r] = "ran"
  /\ Become(r, "answered") /\ ReleaseSlot
  /\ UNCHANGED <<pc, live, gate, waiting, workers, sprint>>

EndActivity_Never(r) ==                                   \* mutant: only on refusal
  /\ r \in Calls /\ task[r] = "answered"
  /\ Become(r, "done")
  /\ UNCHANGED <<pc, live, gate, limiter, workers, sprint>>
EndActivity(r) ==
  /\ r \in Calls /\ task[r] = "answered"
  /\ Become(r, "done") /\ leases' = leases \ {r}
  /\ UNCHANGED <<pc, live, sealed, limiter, workers, sprint>>

EndSprint(s) ==
  /\ s \in Sprints /\ task[s] = "ran"
  /\ Become(s, "done") /\ ReleaseReservation(s)
  /\ UNCHANGED <<pc, live, sealed, waiting, workers, decision, desk, running>>

WorkerIsFree(w) ==
  /\ worker[w] # NoRequest /\ task[worker[w]] = "done"
  /\ worker' = [worker EXCEPT ![w] = NoRequest] /\ counted' = counted \ {w}
  /\ UNCHANGED <<pc, live, gate, limiter, queue, pool, task, sprint>>

\* Shutdown: wake the submitters, wait for their read locks, close, drain.
Quit ==
  /\ pool = "open" /\ pool' = "quit"
  /\ UNCHANGED <<pc, live, gate, limiter, queue, worker, counted, task, sprint>>

ClosePool_Now ==                                          \* mutant: without admission.Lock
  /\ pool = "quit" /\ pool' = "closed"
  /\ UNCHANGED <<pc, live, gate, limiter, queue, worker, counted, task, sprint>>
ClosePool ==
  /\ pool = "quit" /\ \A r \in Requests : ~ At(r, "parked")
  /\ pool' = "closed"
  /\ UNCHANGED <<pc, live, gate, limiter, queue, worker, counted, task, sprint>>

ShutdownReturns ==
  /\ pool = "closed" /\ queue = <<>> /\ \A w \in Workers : worker[w] = NoRequest
  /\ pool' = "returned"
  /\ UNCHANGED <<pc, live, gate, limiter, queue, worker, counted, task, sprint>>

-----------------------------------------------------------------------------
(* The restart.                                                             *)

\* dashBackgroundBusy, called under the gate's mutex.
BackgroundBusy == counted # {} \/ queue # <<>> \/ active > 0 \/ waiting > 0 \/ running

BeginRestart_NoLeases ==                                  \* mutant: diagnostics alone
  /\ sealed = "open" /\ ~ BackgroundBusy
  /\ sealed' = "sealed"
  /\ UNCHANGED <<pc, live, leases, limiter, workers, task, sprint>>
BeginRestart ==
  /\ sealed = "open" /\ leases = {} /\ ~ BackgroundBusy
  /\ sealed' = "sealed"
  /\ UNCHANGED <<pc, live, leases, limiter, workers, task, sprint>>

\* finish(keep): an accepted or uncertain handoff stays sealed until exit.
FinishRestart ==
  /\ sealed = "sealed" /\ sealed' \in {"open", "kept"}
  /\ UNCHANGED <<pc, live, leases, limiter, workers, task, sprint>>

\* A client disconnects or a deadline passes.
Cancel(r) ==
  /\ r \in live /\ live' = live \ {r}
  /\ UNCHANGED <<pc, gate, limiter, workers, task, sprint>>

-----------------------------------------------------------------------------
Init ==
  /\ pc = [r \in Requests |-> "idle"]
  /\ live = Requests
  /\ leases = {} /\ sealed = "open"
  /\ sem = 0 /\ active = 0 /\ waiting = 0
  /\ queue = <<>> /\ worker = [w \in Workers |-> NoRequest] /\ counted = {} /\ pool = "open"
  /\ task = [r \in Requests |-> "none"]
  /\ decision = [s \in Sprints |-> "open"] /\ slotGiven = {}
  /\ desk = NoRequest /\ running = FALSE

Arrive(r) == IF r \in Sprints THEN TakeDesk(r) ELSE AcquireLease(r)

Handle(r) ==
  \/ r \in Sprints /\ AcquireLease(r)
  \/ Queue(r) \/ TakeSlot(r) \/ AbandonSlot(r) \/ CountSlot(r)
  \/ BeginSubmit(r) \/ Enqueue(r) \/ SubmitFails(r) \/ Answer(r)
  \/ r \in Sprints /\ (StartSprint(r) \/ AbortSprint(r))

Callback(r) == RunTask(r) \/ TaskEnds(r) \/ SendResult(r) \/ EndActivity(r) \/ EndSprint(r)

Work(w) == Dequeue(w) \/ BeginTask(w) \/ WorkerIsFree(w)

Progress ==
  \/ \E r \in Requests : Handle(r) \/ Callback(r)
  \/ \E w \in Workers : Work(w)
  \/ ClosePool \/ ShutdownReturns

Environment ==
  \/ \E r \in Requests : Arrive(r) \/ Cancel(r)
  \/ Quit \/ BeginRestart \/ FinishRestart

Next == Progress \/ Environment

Spec == Init /\ [][Next]_vars

\* Goroutines run on and executions end (their context has a deadline and the
\* runner honours it); nobody has to ask for anything.  Every request is served
\* once, so that some goroutine runs on is enough.
FairSpec == Spec /\ WF_vars(Progress)

-----------------------------------------------------------------------------
(* Properties.                                                              *)

PCs == {"idle", "asking", "leased", "waiting", "slotted", "submitting", "parked",
        "awaiting", "deciding", "gone"}
Tasks == {"none", "queued", "begun", "executing", "ran", "answered", "done"}

\* Every variable holds values of its shape.
TypeOK ==
  /\ pc \in [Requests -> PCs] /\ live \subseteq Requests
  /\ leases \subseteq Requests /\ sealed \in {"open", "sealed", "kept"}
  /\ sem \in 0..Slots /\ active \in Nat /\ waiting \in Nat
  /\ queue \in Seq(Requests) /\ worker \in [Workers -> Requests \cup {NoRequest}]
  /\ counted \subseteq Workers /\ pool \in {"open", "quit", "closed", "returned"}
  /\ task \in [Requests -> Tasks]
  /\ decision \in [Sprints -> {"open", "abort", "start"}] /\ slotGiven \subseteq Sprints
  /\ desk \in Sprints \cup {NoRequest} /\ running \in BOOLEAN

\* From its lease to its last effect a request is under way.
UnderWay(r) ==
  \/ pc[r] \in {"leased", "waiting", "slotted", "submitting", "parked", "awaiting", "deciding"}
       /\ task[r] = "none"
  \/ pc[r] = "deciding"
  \/ task[r] # "none" /\ task[r] # "done" /\ (r \in Sprints => decision[r] # "abort")

\* A process hands itself over to a restart only when nothing is under way in
\* it: no handler past the gate, no accepted callback, no claim of tasks, no
\* execution whose client has left (RestartAdmissionGate, executeDashboardAgent,
\* reserveSprint).  An aborted reservation's callback may still be in the pool.
SealedIsQuiet ==
  sealed # "open" => \A r \in Requests : ~ UnderWay(r)

OwnsSlot(r) ==
  \/ pc[r] \in {"slotted", "submitting", "parked"}
  \/ /\ r \in Calls /\ task[r] \in {"queued", "begun", "executing", "ran"}
  \/ /\ r \in Sprints /\ task[r] # "none" /\ r \notin slotGiven

\* The limiter's three counts are its owners and waiters: no path of a request
\* loses a slot or returns it twice, so at most Slots executions run.
SlotsAreOwned ==
  /\ sem = Cardinality({r \in Requests : OwnsSlot(r)})
  /\ active = Cardinality({r \in Requests : OwnsSlot(r) /\ pc[r] # "slotted"})
  /\ waiting = Cardinality({r \in Requests : pc[r] \in {"waiting", "slotted"}})

\* Nothing is sent on the closed channel, and Shutdown returns only when every
\* accepted callback has run to its end (SubmitWithContext, Shutdown).
ShutdownDrains ==
  /\ pool \in {"closed", "returned"} => \A r \in Requests : ~ At(r, "parked")
  /\ pool = "returned" => \A r \in Requests : task[r] \in {"none", "done"}

\* Every lease is given up, also after cancellations, refusals and a shutdown:
\* the restart is not refused for ever.
LeasesEnd == \A r \in Requests : r \in leases ~> r \notin leases

\* A shutdown that has begun returns.
ShutdownEnds == pool = "quit" ~> pool = "returned"
=============================================================================
