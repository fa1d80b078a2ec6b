------------------------ MODULE WorkAdmissionProofs ------------------------
(***************************************************************************)
(* A restart finds nothing under way, slots are neither lost nor returned  *)
(* twice, and a shutdown drains, for any number of executions, sprints and *)
(* workers, any capacity and any queue.                                    *)
(*                                                                         *)
(* What is under way holds a lease, and a sealed gate has none.  That is   *)
(* inductive only with the path of an accepted request: its callback is    *)
(* in the queue once, or with one worker that has not begun it, so no      *)
(* callback begins a second time after its lease has gone.                 *)
(***************************************************************************)
EXTENDS WorkAdmission, FiniteSetTheorems, TLAPS

\* The shape of the variables the argument is about.
Shape ==
  /\ pc \in [Requests -> PCs] /\ task \in [Requests -> Tasks]
  /\ decision \in [Sprints -> {"open", "abort", "start"}]
  /\ leases \subseteq Requests /\ counted \subseteq Workers
  /\ worker \in [Workers -> Requests \cup {NoRequest}]
  /\ queue \in Seq(Requests)

\* Before its callback is accepted a request has none, and a sprint's decision
\* is open until its handler leaves.
Accepted ==
  \A r \in Requests :
    /\ pc[r] \notin {"awaiting", "deciding", "gone"} => task[r] = "none"
    /\ pc[r] = "deciding" => r \in Sprints
    /\ r \in Sprints /\ pc[r] \notin {"awaiting", "gone"} => decision[r] = "open"
    /\ r \in Sprints /\ task[r] \in {"executing", "ran", "done"} => decision[r] # "open"

\* Workers that have taken a callback and not begun it.
Holds(w) == worker[w] # NoRequest /\ w \notin counted

\* A callback that has not begun is in one place.
BeginsOnce ==
  /\ \A i \in 1..Len(queue) : task[queue[i]] = "queued"
  /\ \A i, j \in 1..Len(queue) : queue[i] = queue[j] => i = j
  /\ \A w \in Workers : Holds(w) => task[worker[w]] = "queued"
  /\ \A w \in Workers, i \in 1..Len(queue) : Holds(w) => worker[w] # queue[i]
  /\ \A v, w \in Workers : Holds(v) /\ Holds(w) /\ worker[v] = worker[w] => v = w

Leased ==
  /\ \A r \in Requests : UnderWay(r) => r \in leases
  /\ sealed # "open" => leases = {}

AdmissionInv == Shape /\ Accepted /\ BeginsOnce /\ Leased

-----------------------------------------------------------------------------
(* What the four parts can see of a step.                                   *)

Holding == {"leased", "waiting", "slotted", "submitting", "parked"}

\* A handler before its callback is accepted, or one that answers its client.
HandlerMoves(r) ==
  /\ UNCHANGED <<sealed, queue, worker, counted, task, decision>>
  /\ \/ pc[r] = "awaiting" /\ Go(r, "gone") /\ UNCHANGED leases
     \/ /\ pc[r] \in {"idle", "asking"} \cup Holding
        /\ \/ Go(r, "gone") /\ leases' \in {leases, leases \ {r}}
           \/ Go(r, "asking") /\ UNCHANGED leases
           \/ Go(r, "leased") /\ leases' = leases \cup {r} /\ sealed = "open"
     \/ /\ pc[r] \in Holding /\ UNCHANGED leases
        /\ \E there \in Holding : Go(r, there)

\* A callback that has begun.
CallbackMoves(r) ==
  /\ UNCHANGED <<pc, sealed, queue, worker, counted, decision>>
  /\ task[r] \in {"begun", "executing", "ran", "answered"}
  /\ r \in Sprints => task[r] # "answered" /\ (task[r] = "begun" => decision[r] # "open")
  /\ \/ Become(r, "executing") /\ UNCHANGED leases
     \/ Become(r, "ran") /\ UNCHANGED leases
     \/ Become(r, "answered") /\ UNCHANGED leases /\ r \notin Sprints
     \/ Become(r, "done") /\ leases' \in {leases, leases \ {r}}

Decides(r) == r \in Sprints /\ (StartSprint(r) \/ AbortSprint(r))

\* Every other step leaves these alone.
Elsewhere ==
  UNCHANGED <<pc, leases, sealed, queue, worker, counted, task, decision>>

\* A handler's step is one of its moves, an acceptance or a decision.
LEMMA HandlerSteps ==
  ASSUME NEW r \in Requests, Arrive(r) \/ Handle(r)
  PROVE  HandlerMoves(r) \/ Decides(r) \/ Enqueue(r)
<1> USE DEF HandlerMoves, Holding, At, Go, Leave, gate, workers, sprint
<1>1. CASE r \in Sprints /\ TakeDesk(r)
  BY <1>1 DEF TakeDesk
<1>2. CASE AcquireLease(r)
  BY <1>2 DEF AcquireLease
<1>3. CASE Queue(r)
  BY <1>3 DEF Queue
<1>4. CASE TakeSlot(r)
  BY <1>4 DEF TakeSlot
<1>5. CASE AbandonSlot(r)
  BY <1>5 DEF AbandonSlot
<1>6. CASE CountSlot(r)
  BY <1>6 DEF CountSlot
<1>7. CASE BeginSubmit(r)
  BY <1>7 DEF BeginSubmit
<1>8. CASE SubmitFails(r)
  BY <1>8 DEF SubmitFails
<1>9. CASE Answer(r)
  BY <1>9 DEF Answer
<1> QED
  BY <1>1, <1>2, <1>3, <1>4, <1>5, <1>6, <1>7, <1>8, <1>9 DEF Arrive, Handle, Decides

\* A callback's step is one of its moves.
LEMMA CallbackSteps ==
  ASSUME NEW r \in Requests, Callback(r)
  PROVE  CallbackMoves(r)
<1> USE RequestsAreDistinct DEF CallbackMoves, Become, gate, workers, sprint
<1>1. CASE RunTask(r)
  BY <1>1 DEF RunTask
<1>2. CASE TaskEnds(r)
  BY <1>2 DEF TaskEnds
<1>3. CASE SendResult(r)
  BY <1>3 DEF SendResult
<1>4. CASE EndActivity(r)
  BY <1>4 DEF EndActivity
<1>5. CASE EndSprint(r)
  BY <1>5 DEF EndSprint, ReleaseReservation
<1> QED BY <1>1, <1>2, <1>3, <1>4, <1>5 DEF Callback

\* Every step is one of these.
LEMMA StepCases ==
  ASSUME [Next]_vars
  PROVE  \/ \E r \in Requests : HandlerMoves(r) \/ Decides(r) \/ Enqueue(r) \/ CallbackMoves(r)
         \/ \E w \in Workers : Dequeue(w) \/ BeginTask(w) \/ WorkerIsFree(w)
         \/ BeginRestart \/ FinishRestart \/ Elsewhere
<1>1. CASE Progress
  <2>1. ASSUME ClosePool \/ ShutdownReturns PROVE Elsewhere
    BY <2>1 DEF ClosePool, ShutdownReturns, Elsewhere, gate, sprint
  <2> QED BY <1>1, <2>1, HandlerSteps, CallbackSteps DEF Progress, Work
<1>2. CASE Environment
  <2>1. ASSUME NEW r \in Requests, Cancel(r) PROVE Elsewhere
    BY <2>1 DEF Cancel, Elsewhere, gate, workers, sprint
  <2>2. ASSUME Quit PROVE Elsewhere
    BY <2>2 DEF Quit, Elsewhere, gate, sprint
  <2> QED BY <1>2, <2>1, <2>2, HandlerSteps DEF Environment
<1>3. CASE UNCHANGED vars
  BY <1>3 DEF vars, gate, workers, sprint, Elsewhere
<1> QED BY <1>1, <1>2, <1>3 DEF Next

-----------------------------------------------------------------------------
\* Every step keeps the shape.
LEMMA ShapeKept ==
  ASSUME Shape, [Next]_vars
  PROVE  Shape'
<1> USE RequestsAreDistinct DEF Shape, PCs, Tasks
<1>1. ASSUME NEW r \in Requests, HandlerMoves(r) PROVE Shape'
  BY <1>1 DEF HandlerMoves, Holding, Go
<1>2. ASSUME NEW r \in Requests, Decides(r) PROVE Shape'
  BY <1>2 DEF Decides, StartSprint, AbortSprint, ReleaseReservation, At, Go, Leave, gate, workers
<1>3. ASSUME NEW r \in Requests, Enqueue(r) PROVE Shape'
  BY <1>3 DEF Enqueue, At, Go, gate, sprint
<1>4. ASSUME NEW r \in Requests, CallbackMoves(r) PROVE Shape'
  BY <1>4 DEF CallbackMoves, Become
<1>5. ASSUME NEW w \in Workers, Dequeue(w) PROVE Shape'
  BY <1>5 DEF Dequeue, gate, sprint
<1>6. ASSUME NEW w \in Workers, BeginTask(w) PROVE Shape'
  BY <1>6 DEF BeginTask, Become, gate, sprint
<1>7. ASSUME NEW w \in Workers, WorkerIsFree(w) PROVE Shape'
  BY <1>7 DEF WorkerIsFree, gate, sprint
<1>8. CASE BeginRestart \/ FinishRestart
  BY <1>8 DEF BeginRestart, FinishRestart, workers, sprint
<1>9. CASE Elsewhere
  BY <1>9 DEF Elsewhere
<1> QED BY StepCases, <1>1, <1>2, <1>3, <1>4, <1>5, <1>6, <1>7, <1>8, <1>9

\* Every step keeps the order of a request's two goroutines.
LEMMA AcceptedKept ==
  ASSUME Shape, Accepted, BeginsOnce, [Next]_vars
  PROVE  Accepted'
<1> USE RequestsAreDistinct DEF Shape, Accepted, BeginsOnce, Holds, PCs, Tasks
<1>1. ASSUME NEW r \in Requests, HandlerMoves(r) PROVE Accepted'
  BY <1>1 DEF HandlerMoves, Holding, Go
<1>2. ASSUME NEW r \in Requests, Decides(r) PROVE Accepted'
  BY <1>2 DEF Decides, StartSprint, AbortSprint, ReleaseReservation, At, Go, Leave, gate, workers
<1>3. ASSUME NEW r \in Requests, Enqueue(r) PROVE Accepted'
  BY <1>3 DEF Enqueue, At, Go, gate, sprint
<1>4. ASSUME NEW r \in Requests, CallbackMoves(r) PROVE Accepted'
  BY <1>4 DEF CallbackMoves, Become
<1>5. ASSUME NEW w \in Workers, Dequeue(w) PROVE Accepted'
  BY <1>5 DEF Dequeue, gate, sprint
<1>6. ASSUME NEW w \in Workers, BeginTask(w) PROVE Accepted'
  BY <1>6 DEF BeginTask, Become, gate, sprint
<1>7. ASSUME NEW w \in Workers, WorkerIsFree(w) PROVE Accepted'
  BY <1>7 DEF WorkerIsFree, gate, sprint
<1>8. CASE BeginRestart \/ FinishRestart
  BY <1>8 DEF BeginRestart, FinishRestart, workers, sprint
<1>9. CASE Elsewhere
  BY <1>9 DEF Elsewhere
<1> QED BY StepCases, <1>1, <1>2, <1>3, <1>4, <1>5, <1>6, <1>7, <1>8, <1>9

\* No step takes the lease of what is under way, or lets a sealed gate have one.
LEMMA LeasedKept ==
  ASSUME Shape, Accepted, BeginsOnce, Leased, [Next]_vars
  PROVE  Leased'
<1> USE RequestsAreDistinct DEF Shape, Leased, Accepted, BeginsOnce, Holds, UnderWay, PCs, Tasks
<1>1. ASSUME NEW r \in Requests, HandlerMoves(r) PROVE Leased'
  BY <1>1 DEF HandlerMoves, Holding, Go
<1>2. ASSUME NEW r \in Requests, Decides(r) PROVE Leased'
  BY <1>2 DEF Decides, StartSprint, AbortSprint, ReleaseReservation, At, Go, Leave, gate, workers
<1>3. ASSUME NEW r \in Requests, Enqueue(r) PROVE Leased'
  BY <1>3 DEF Enqueue, At, Go, gate, sprint
<1>4. ASSUME NEW r \in Requests, CallbackMoves(r) PROVE Leased'
  BY <1>4 DEF CallbackMoves, Become
<1>5. ASSUME NEW w \in Workers, Dequeue(w) PROVE Leased'
  BY <1>5 DEF Dequeue, gate, sprint
<1>6. ASSUME NEW w \in Workers, BeginTask(w) PROVE Leased'
  BY <1>6 DEF BeginTask, Become, gate, sprint
<1>7. ASSUME NEW w \in Workers, WorkerIsFree(w) PROVE Leased'
  BY <1>7 DEF WorkerIsFree, gate, sprint
<1>8. CASE BeginRestart \/ FinishRestart
  BY <1>8 DEF BeginRestart, FinishRestart, workers, sprint
<1>9. CASE Elsewhere
  BY <1>9 DEF Elsewhere
<1> QED BY StepCases, <1>1, <1>2, <1>3, <1>4, <1>5, <1>6, <1>7, <1>8, <1>9

\* No step puts a callback in a second place, or back where it has begun.
LEMMA BeginsOnceKept ==
  ASSUME Shape, Accepted, BeginsOnce, [Next]_vars
  PROVE  BeginsOnce'
<1> USE RequestsAreDistinct DEF BeginsOnce, Holds
<1>1. ASSUME NEW r \in Requests, HandlerMoves(r) PROVE BeginsOnce'
  BY <1>1 DEF HandlerMoves
<1>2. ASSUME NEW r \in Requests, Decides(r) PROVE BeginsOnce'
  BY <1>2 DEF Decides, StartSprint, AbortSprint, workers
<1>3. ASSUME NEW r \in Requests, Enqueue(r) PROVE BeginsOnce'
  <2>1. /\ task[r] = "none" /\ task' = [task EXCEPT ![r] = "queued"]
        /\ queue' = Append(queue, r) /\ UNCHANGED <<worker, counted>>
    BY <1>3 DEF Enqueue, At, Accepted
  <2>2. /\ Len(queue) \in Nat /\ Len(queue') = Len(queue) + 1
        /\ \A i \in 1..Len(queue) : queue[i] \in Requests /\ queue'[i] = queue[i]
        /\ queue'[Len(queue) + 1] = r
    BY <2>1 DEF Shape
  <2>3. \A i \in 1..Len(queue) : queue[i] # r
    BY <2>1
  <2>4. \A w \in Workers : Holds(w) => worker[w] # r /\ worker[w] \in Requests
    BY <2>1 DEF Shape
  <2>5. \A q \in Requests : q # r => task'[q] = task[q]
    BY <2>1 DEF Shape
  <2>6. task'[r] = "queued"
    BY <2>1 DEF Shape
  <2> QED BY <2>1, <2>2, <2>3, <2>4, <2>5, <2>6
<1>4. ASSUME NEW r \in Requests, CallbackMoves(r) PROVE BeginsOnce'
  <2>1. /\ task[r] # "queued" /\ UNCHANGED <<queue, worker, counted>>
        /\ \A q \in Requests : q # r => task'[q] = task[q]
    BY <1>4 DEF CallbackMoves, Become, Shape
  <2>2. \A i \in 1..Len(queue) : queue[i] \in Requests
    BY DEF Shape
  <2>3. \A w \in Workers : Holds(w) => worker[w] \in Requests
    BY DEF Shape
  <2> QED BY <2>1, <2>2, <2>3
<1>5. ASSUME NEW w \in Workers, Dequeue(w) PROVE BeginsOnce'
  <2>1. /\ worker[w] = NoRequest /\ queue # <<>> /\ worker' = [worker EXCEPT ![w] = queue[1]]
        /\ queue' = Tail(queue) /\ UNCHANGED <<task, counted>>
    BY <1>5 DEF Dequeue
  <2>2. /\ Len(queue) \in Nat \ {0} /\ Len(queue') = Len(queue) - 1
        /\ \A i \in 1..Len(queue') : queue'[i] = queue[i + 1] /\ i + 1 \in 1..Len(queue)
        /\ \A i \in 1..Len(queue) : queue[i] \in Requests
    BY <2>1 DEF Shape
  <2>3. \A i \in 1..Len(queue') : queue'[i] # queue[1]
    BY <2>2
  <2>4. /\ worker'[w] = queue[1]
        /\ \A v \in Workers : v # w => worker'[v] = worker[v]
    BY <2>1 DEF Shape
  <2>5. task[queue[1]] = "queued" /\ \A v \in Workers : Holds(v) => worker[v] # queue[1]
    BY <2>2
  <2> QED BY <2>1, <2>2, <2>3, <2>4, <2>5
<1>6. ASSUME NEW w \in Workers, BeginTask(w) PROVE BeginsOnce'
  <2>1. /\ Holds(w) /\ counted' = counted \cup {w} /\ UNCHANGED <<queue, worker>>
        /\ worker[w] \in Requests
        /\ \A q \in Requests : q # worker[w] => task'[q] = task[q]
    BY <1>6 DEF BeginTask, Become, Shape
  <2>2. \A i \in 1..Len(queue) : queue[i] \in Requests
    BY DEF Shape
  <2>3. \A v \in Workers : Holds(v) => worker[v] \in Requests
    BY DEF Shape
  <2> QED BY <2>1, <2>2, <2>3
<1>7. ASSUME NEW w \in Workers, WorkerIsFree(w) PROVE BeginsOnce'
  BY <1>7 DEF WorkerIsFree, Shape
<1>8. CASE BeginRestart \/ FinishRestart
  BY <1>8 DEF BeginRestart, FinishRestart, workers
<1>9. CASE Elsewhere
  BY <1>9 DEF Elsewhere
<1> QED BY StepCases, <1>1, <1>2, <1>3, <1>4, <1>5, <1>6, <1>7, <1>8, <1>9

-----------------------------------------------------------------------------
\* Whatever the interleaving of handlers, callbacks, workers, cancellations, a
\* shutdown and a restart: an accepted callback begins once, and from its lease
\* to its last effect a request has a lease (executeDashboardAgent,
\* reserveSprint, WorkerPool).
THEOREM AdmissionInvariant == Spec => []AdmissionInv
<1>1. Init => AdmissionInv
  BY DEF Init, AdmissionInv, Shape, Accepted, BeginsOnce, Holds, Leased, UnderWay, PCs, Tasks, Requests
<1>2. AdmissionInv /\ [Next]_vars => AdmissionInv'
  BY ShapeKept, AcceptedKept, BeginsOnceKept, LeasedKept DEF AdmissionInv
<1> QED BY <1>1, <1>2, PTL DEF Spec

\* A process hands itself over to a restart only when nothing is under way in
\* it (BeginRestart of the restart gate).
THEOREM RestartsAreQuiet == Spec => []SealedIsQuiet
<1>1. AdmissionInv => SealedIsQuiet
  BY DEF AdmissionInv, Leased, SealedIsQuiet
<1> QED BY <1>1, AdmissionInvariant, PTL

-----------------------------------------------------------------------------
(* The limiter.                                                             *)

\* An accepted callback has not gone back, and a reservation is given back only
\* once it has a callback.
ReservedOnce ==
  /\ slotGiven \subseteq Sprints
  /\ \A r \in Requests :
       /\ pc[r] \in {"awaiting", "deciding"} => task[r] # "none"
       /\ r \in Sprints => task[r] # "answered"
       /\ r \in slotGiven => task[r] # "none"

Owning == {r \in Requests : OwnsSlot(r)}
Counting == {r \in Requests : OwnsSlot(r) /\ pc[r] # "slotted"}
Queueing == {r \in Requests : pc[r] \in {"waiting", "slotted"}}

\* The three counts count three finite sets, of which there are no more owners
\* than slots.
LimiterCounted ==
  /\ IsFiniteSet(Owning) /\ IsFiniteSet(Counting) /\ IsFiniteSet(Queueing)
  /\ sem = Cardinality(Owning) /\ sem <= Slots
  /\ active = Cardinality(Counting) /\ waiting = Cardinality(Queueing)

\* The step is one request's.
StepOf(r) ==
  \A x \in Requests \ {r} :
    pc'[x] = pc[x] /\ task'[x] = task[x] /\ (x \in slotGiven' <=> x \in slotGiven)

\* What a step does to the three sets and their counts.
Rests ==
  /\ Owning' = Owning /\ Counting' = Counting /\ Queueing' = Queueing
  /\ UNCHANGED limiter
Joins(r) ==
  /\ Owning' = Owning /\ Counting' = Counting
  /\ r \notin Queueing /\ Queueing' = Queueing \cup {r}
  /\ UNCHANGED <<sem, active>> /\ waiting' = waiting + 1
LeavesLine(r) ==
  /\ Owning' = Owning /\ Counting' = Counting
  /\ r \in Queueing /\ Queueing' = Queueing \ {r}
  /\ UNCHANGED <<sem, active>> /\ waiting' = waiting - 1
Gets(r) ==
  /\ r \notin Owning /\ Owning' = Owning \cup {r} /\ Counting' = Counting /\ Queueing' = Queueing
  /\ sem < Slots /\ sem' = sem + 1 /\ UNCHANGED <<active, waiting>>
IsCounted(r) ==
  /\ Owning' = Owning
  /\ r \notin Counting /\ Counting' = Counting \cup {r}
  /\ r \in Queueing /\ Queueing' = Queueing \ {r}
  /\ UNCHANGED sem /\ active' = active + 1 /\ waiting' = waiting - 1
GivesBack(r) ==
  /\ r \in Owning /\ Owning' = Owning \ {r}
  /\ r \in Counting /\ Counting' = Counting \ {r}
  /\ Queueing' = Queueing
  /\ ReleaseSlot /\ UNCHANGED waiting
LimiterMoves ==
  Rests \/ \E r \in Requests : Joins(r) \/ LeavesLine(r) \/ Gets(r) \/ IsCounted(r) \/ GivesBack(r)

\* A finite set with one more, or one less.
LEMMA OneMore ==
  ASSUME NEW S, IsFiniteSet(S), NEW x, x \notin S
  PROVE  IsFiniteSet(S \cup {x}) /\ Cardinality(S \cup {x}) = Cardinality(S) + 1
  BY FS_AddElement

\* The other way round; there was at least the one.
LEMMA OneLess ==
  ASSUME NEW S, IsFiniteSet(S), NEW x \in S
  PROVE  /\ IsFiniteSet(S \ {x}) /\ Cardinality(S \ {x}) = Cardinality(S) - 1
         /\ Cardinality(S) \in Nat \ {0}
<1>1. IsFiniteSet(S \ {x}) /\ Cardinality(S \ {x}) = Cardinality(S) - 1
  BY FS_RemoveElement
<1>2. Cardinality(S) \in Nat /\ Cardinality(S \ {x}) \in Nat
  BY <1>1, FS_CardinalityType
<1> QED BY <1>1, <1>2

\* Release finds what it gives back: the counts follow the sets.
LEMMA LimiterCounts ==
  ASSUME LimiterCounted, LimiterMoves
  PROVE  LimiterCounted'
<1>1. /\ IsFiniteSet(Owning) /\ IsFiniteSet(Counting) /\ IsFiniteSet(Queueing)
      /\ sem = Cardinality(Owning) /\ sem <= Slots
      /\ active = Cardinality(Counting) /\ waiting = Cardinality(Queueing)
  BY DEF LimiterCounted
<1>2. sem \in Nat /\ active \in Nat /\ waiting \in Nat /\ Slots \in Nat
  BY <1>1, FS_CardinalityType, BoundsArePositive
<1>3. CASE Rests
  BY <1>1, <1>3 DEF Rests, limiter, LimiterCounted
<1>4. ASSUME NEW r \in Requests, Joins(r) PROVE LimiterCounted'
  BY <1>1, <1>4, OneMore DEF Joins, LimiterCounted
<1>5. ASSUME NEW r \in Requests, LeavesLine(r) PROVE LimiterCounted'
  BY <1>1, <1>5, OneLess DEF LeavesLine, LimiterCounted
<1>6. ASSUME NEW r \in Requests, Gets(r) PROVE LimiterCounted'
  BY <1>1, <1>2, <1>6, OneMore DEF Gets, LimiterCounted
<1>7. ASSUME NEW r \in Requests, IsCounted(r) PROVE LimiterCounted'
  BY <1>1, <1>7, OneMore, OneLess DEF IsCounted, LimiterCounted
<1>8. ASSUME NEW r \in Requests, GivesBack(r) PROVE LimiterCounted'
  BY <1>1, <1>2, <1>8, OneLess DEF GivesBack, ReleaseSlot, LimiterCounted
<1> QED BY <1>3, <1>4, <1>5, <1>6, <1>7, <1>8 DEF LimiterMoves

\* Where the request of the step stands decides what becomes of the sets.
LEMMA RestsIf ==
  ASSUME NEW r \in Requests, StepOf(r), OwnsSlot(r)' <=> OwnsSlot(r),
         pc'[r] = "slotted" <=> pc[r] = "slotted", pc'[r] = "waiting" <=> pc[r] = "waiting",
         UNCHANGED limiter
  PROVE  LimiterMoves
<1>1. \A x \in Requests : OwnsSlot(x)' <=> OwnsSlot(x)
  BY DEF StepOf, OwnsSlot
<1>2. \A x \in Requests : /\ pc'[x] = "slotted" <=> pc[x] = "slotted"
                          /\ pc'[x] = "waiting" <=> pc[x] = "waiting"
  BY DEF StepOf
<1> QED BY <1>1, <1>2 DEF LimiterMoves, Rests, Owning, Counting, Queueing

\* A request that owned a counted slot and no longer does has given it back.
LEMMA GivesBackIf ==
  ASSUME NEW r \in Requests, StepOf(r), OwnsSlot(r), ~ OwnsSlot(r)',
         pc[r] \notin {"waiting", "slotted"}, pc'[r] \notin {"waiting", "slotted"},
         ReleaseSlot, UNCHANGED waiting
  PROVE  LimiterMoves
<1>1. \A x \in Requests \ {r} : OwnsSlot(x)' <=> OwnsSlot(x)
  BY DEF StepOf, OwnsSlot
<1>2. \A x \in Requests \ {r} : pc'[x] = pc[x]
  BY DEF StepOf
<1>3. Owning' = Owning \ {r} /\ Counting' = Counting \ {r} /\ Queueing' = Queueing
  BY <1>1, <1>2 DEF Owning, Counting, Queueing
<1>4. r \in Owning /\ r \in Counting
  BY DEF Owning, Counting
<1> HIDE DEF ReleaseSlot
<1> QED BY <1>3, <1>4 DEF LimiterMoves, GivesBack

\* A handler before its callback is accepted: it owns a slot from the semaphore
\* to the queue.
LEMMA HandlerSlots ==
  ASSUME Shape, Accepted, ReservedOnce, NEW r \in Requests, Arrive(r) \/ Handle(r)
  PROVE  LimiterMoves /\ ReservedOnce'
<1> USE RequestsAreDistinct DEF At, Go, Leave, gate, limiter, workers, sprint
<1>1. CASE r \in Sprints /\ TakeDesk(r)
  <2>1. StepOf(r) /\ UNCHANGED limiter /\ (OwnsSlot(r)' <=> OwnsSlot(r))
        /\ pc[r] = "idle" /\ pc'[r] \in {"gone", "asking"}
    BY <1>1 DEF TakeDesk, Shape, StepOf, OwnsSlot, Accepted
  <2>2. ReservedOnce'
    BY <1>1, <2>1 DEF TakeDesk, Shape, StepOf, ReservedOnce
  <2> QED BY <2>1, <2>2, RestsIf
<1>2. CASE AcquireLease(r)
  <2>1. StepOf(r) /\ UNCHANGED limiter /\ (OwnsSlot(r)' <=> OwnsSlot(r))
        /\ pc[r] \in {"idle", "asking"} /\ pc'[r] \in {"gone", "leased"}
    BY <1>2 DEF AcquireLease, Shape, StepOf, OwnsSlot, Accepted
  <2>2. ReservedOnce'
    BY <1>2, <2>1 DEF AcquireLease, Shape, StepOf, ReservedOnce
  <2> QED BY <2>1, <2>2, RestsIf
<1>3. CASE Queue(r)
  <2>1. /\ UNCHANGED <<sem, active, task, slotGiven>> /\ pc[r] = "leased"
        /\ \/ pc' = [pc EXCEPT ![r] = "waiting"] /\ waiting' = waiting + 1
           \/ pc' = [pc EXCEPT ![r] = "gone"] /\ waiting' = waiting
    BY <1>3 DEF Queue
  <2>2. StepOf(r) /\ (OwnsSlot(r)' <=> OwnsSlot(r)) /\ task[r] = "none"
    BY <2>1 DEF Shape, StepOf, OwnsSlot, Accepted
  <2>3. ReservedOnce'
    BY <2>1, <2>2 DEF Shape, StepOf, ReservedOnce
  <2>4. CASE pc' = [pc EXCEPT ![r] = "waiting"] /\ waiting' = waiting + 1
    <3>1. Joins(r)
      BY <2>1, <2>2, <2>4 DEF Shape, StepOf, OwnsSlot, Owning, Counting, Queueing, Joins
    <3> QED BY <2>3, <3>1 DEF LimiterMoves
  <2>5. CASE pc' = [pc EXCEPT ![r] = "gone"] /\ waiting' = waiting
    BY <2>1, <2>2, <2>3, <2>5, RestsIf DEF Shape
  <2> QED BY <2>1, <2>4, <2>5
<1>4. CASE TakeSlot(r)
  <2>1. /\ UNCHANGED <<active, waiting, task, slotGiven>> /\ pc[r] = "waiting"
        /\ pc' = [pc EXCEPT ![r] = "slotted"] /\ sem' = sem + 1 /\ sem < Slots
    BY <1>4 DEF TakeSlot
  <2>2. StepOf(r) /\ ~ OwnsSlot(r) /\ OwnsSlot(r)' /\ pc'[r] = "slotted"
    BY <2>1 DEF Shape, StepOf, OwnsSlot, Accepted
  <2>3. ReservedOnce'
    BY <2>1, <2>2 DEF Shape, StepOf, ReservedOnce
  <2>4. Gets(r)
    BY <2>1, <2>2 DEF StepOf, OwnsSlot, Owning, Counting, Queueing, Gets
  <2> QED BY <2>3, <2>4 DEF LimiterMoves
<1>5. CASE AbandonSlot(r)
  <2>1. /\ UNCHANGED <<sem, active, task, slotGiven>> /\ pc[r] = "waiting"
        /\ pc' = [pc EXCEPT ![r] = "gone"] /\ waiting' = waiting - 1
    BY <1>5 DEF AbandonSlot
  <2>2. StepOf(r) /\ ~ OwnsSlot(r) /\ ~ OwnsSlot(r)' /\ pc'[r] = "gone"
    BY <2>1 DEF Shape, StepOf, OwnsSlot, Accepted
  <2>3. ReservedOnce'
    BY <2>1, <2>2 DEF Shape, StepOf, ReservedOnce
  <2>4. LeavesLine(r)
    BY <2>1, <2>2 DEF StepOf, OwnsSlot, Owning, Counting, Queueing, LeavesLine
  <2> QED BY <2>3, <2>4 DEF LimiterMoves
<1>6. CASE CountSlot(r)
  <2>1. /\ UNCHANGED <<sem, task, slotGiven>> /\ pc[r] = "slotted"
        /\ pc' = [pc EXCEPT ![r] = "submitting"]
        /\ waiting' = waiting - 1 /\ active' = active + 1
    BY <1>6 DEF CountSlot
  <2>2. StepOf(r) /\ OwnsSlot(r) /\ OwnsSlot(r)' /\ pc'[r] = "submitting"
    BY <2>1 DEF Shape, StepOf, OwnsSlot, Accepted
  <2>3. ReservedOnce'
    BY <2>1, <2>2 DEF Shape, StepOf, ReservedOnce
  <2>4. IsCounted(r)
    BY <2>1, <2>2 DEF StepOf, OwnsSlot, Owning, Counting, Queueing, IsCounted
  <2> QED BY <2>3, <2>4 DEF LimiterMoves
<1>7. CASE BeginSubmit(r)
  <2>1. StepOf(r) /\ UNCHANGED limiter /\ OwnsSlot(r)' /\ OwnsSlot(r)
        /\ pc[r] = "submitting" /\ pc'[r] = "parked"
    BY <1>7 DEF BeginSubmit, Shape, StepOf, OwnsSlot
  <2>2. ReservedOnce'
    BY <1>7, <2>1 DEF BeginSubmit, Shape, StepOf, ReservedOnce
  <2> QED BY <2>1, <2>2, RestsIf
<1>8. CASE Enqueue(r)
  <2>1. /\ UNCHANGED limiter /\ UNCHANGED slotGiven /\ pc[r] = "parked"
        /\ pc' = [pc EXCEPT ![r] = IF r \in Sprints THEN "deciding" ELSE "awaiting"]
        /\ task' = [task EXCEPT ![r] = "queued"]
    BY <1>8 DEF Enqueue
  <2>2. task[r] = "none" /\ r \notin slotGiven
    BY <2>1 DEF Accepted, ReservedOnce
  <2>3. StepOf(r) /\ OwnsSlot(r) /\ OwnsSlot(r)' /\ pc'[r] \in {"deciding", "awaiting"}
    BY <2>1, <2>2 DEF Shape, StepOf, OwnsSlot, Requests
  <2>4. ReservedOnce'
    BY <2>1, <2>3 DEF Shape, StepOf, ReservedOnce
  <2> QED BY <2>1, <2>3, <2>4, RestsIf
<1>9. CASE SubmitFails(r)
  <2>1. /\ UNCHANGED <<waiting, task, slotGiven>> /\ pc[r] \in {"submitting", "parked"}
        /\ pc' = [pc EXCEPT ![r] = "gone"] /\ ReleaseSlot
    BY <1>9 DEF SubmitFails
  <2>2. StepOf(r) /\ OwnsSlot(r) /\ ~ OwnsSlot(r)' /\ pc'[r] = "gone"
    BY <2>1 DEF Shape, StepOf, OwnsSlot, Accepted
  <2>3. ReservedOnce'
    BY <2>1, <2>2 DEF Shape, StepOf, ReservedOnce
  <2> QED BY <2>1, <2>2, <2>3, GivesBackIf
<1>10. CASE Answer(r)
  <2>1. StepOf(r) /\ UNCHANGED limiter /\ (OwnsSlot(r)' <=> OwnsSlot(r))
        /\ pc[r] = "awaiting" /\ pc'[r] = "gone"
    BY <1>10 DEF Answer, Shape, StepOf, OwnsSlot
  <2>2. ReservedOnce'
    BY <1>10, <2>1 DEF Answer, Shape, StepOf, ReservedOnce
  <2> QED BY <2>1, <2>2, RestsIf
<1>11. CASE r \in Sprints /\ StartSprint(r)
  <2>1. StepOf(r) /\ UNCHANGED limiter /\ (OwnsSlot(r)' <=> OwnsSlot(r))
        /\ pc[r] = "deciding" /\ pc'[r] = "gone"
    BY <1>11 DEF StartSprint, Shape, StepOf, OwnsSlot
  <2>2. ReservedOnce'
    BY <1>11, <2>1 DEF StartSprint, Shape, StepOf, ReservedOnce
  <2> QED BY <2>1, <2>2, RestsIf
<1>12. CASE r \in Sprints /\ AbortSprint(r)
  <2>1. /\ UNCHANGED <<waiting, task>> /\ pc[r] = "deciding" /\ task[r] # "none"
        /\ pc' = [pc EXCEPT ![r] = "gone"] /\ ReleaseReservation(r)
    BY <1>12 DEF AbortSprint, ReservedOnce
  <2>2. CASE r \in slotGiven
    <3>1. StepOf(r) /\ UNCHANGED limiter /\ (OwnsSlot(r)' <=> OwnsSlot(r)) /\ pc'[r] = "gone"
      BY <2>1, <2>2 DEF ReleaseReservation, Shape, StepOf, OwnsSlot
    <3>2. ReservedOnce'
      BY <2>1, <2>2, <3>1 DEF ReleaseReservation, Shape, StepOf, ReservedOnce
    <3> QED BY <2>1, <3>1, <3>2, RestsIf
  <2>3. CASE r \notin slotGiven
    <3>1. ReleaseSlot /\ slotGiven' = slotGiven \cup {r}
      BY <2>1, <2>3 DEF ReleaseReservation
    <3>2. StepOf(r) /\ OwnsSlot(r) /\ ~ OwnsSlot(r)' /\ pc'[r] = "gone"
      BY <1>12, <2>1, <2>3, <3>1 DEF Shape, StepOf, OwnsSlot
    <3>3. ReservedOnce'
      BY <1>12, <2>1, <3>1, <3>2 DEF Shape, StepOf, ReservedOnce
    <3> QED BY <2>1, <3>1, <3>2, <3>3, GivesBackIf
  <2> QED BY <2>2, <2>3
<1> QED
  BY <1>1, <1>2, <1>3, <1>4, <1>5, <1>6, <1>7, <1>8, <1>9, <1>10, <1>11, <1>12 DEF Arrive, Handle

\* A callback gives its slot back once: an execution's when it answers, a sprint's
\* unless its handler has aborted it.
LEMMA CallbackSlots ==
  ASSUME Shape, Accepted, ReservedOnce, NEW r \in Requests, Callback(r)
  PROVE  LimiterMoves /\ ReservedOnce'
<1> USE RequestsAreDistinct DEF Become, gate, limiter, workers, sprint
<1>1. CASE RunTask(r) \/ TaskEnds(r)
  <2>1. /\ UNCHANGED <<pc, limiter, slotGiven>> /\ task[r] \in {"begun", "executing"}
        /\ \E there \in {"executing", "ran"} : task' = [task EXCEPT ![r] = there]
    BY <1>1 DEF RunTask, TaskEnds
  <2>2. StepOf(r) /\ (OwnsSlot(r)' <=> OwnsSlot(r)) /\ task'[r] \in {"executing", "ran"}
    BY <2>1 DEF Shape, StepOf, OwnsSlot
  <2>3. ReservedOnce'
    BY <2>1, <2>2 DEF StepOf, ReservedOnce
  <2> QED BY <2>1, <2>2, <2>3, RestsIf
<1>2. CASE SendResult(r)
  <2>1. /\ UNCHANGED <<pc, waiting, slotGiven>> /\ r \in Calls /\ task[r] = "ran"
        /\ task' = [task EXCEPT ![r] = "answered"] /\ ReleaseSlot
    BY <1>2 DEF SendResult
  <2>2. pc[r] \in {"awaiting", "deciding", "gone"}
    BY <2>1 DEF Accepted, Shape, PCs
  <2>3. StepOf(r) /\ OwnsSlot(r) /\ ~ OwnsSlot(r)' /\ task'[r] = "answered"
    BY <2>1, <2>2 DEF Shape, StepOf, OwnsSlot
  <2>4. ReservedOnce'
    BY <2>1, <2>3 DEF StepOf, ReservedOnce
  <2> QED BY <2>1, <2>2, <2>3, <2>4, GivesBackIf
<1>3. CASE EndActivity(r)
  <2>1. /\ UNCHANGED <<pc, limiter, slotGiven>> /\ r \in Calls /\ task[r] = "answered"
        /\ task' = [task EXCEPT ![r] = "done"]
    BY <1>3 DEF EndActivity
  <2>2. StepOf(r) /\ (OwnsSlot(r)' <=> OwnsSlot(r)) /\ task'[r] = "done"
    BY <2>1 DEF Shape, StepOf, OwnsSlot
  <2>3. ReservedOnce'
    BY <2>1, <2>2 DEF StepOf, ReservedOnce
  <2> QED BY <2>1, <2>2, <2>3, RestsIf
<1>4. CASE EndSprint(r)
  <2>1. /\ UNCHANGED <<pc, waiting>> /\ r \in Sprints /\ task[r] = "ran"
        /\ task' = [task EXCEPT ![r] = "done"] /\ ReleaseReservation(r)
    BY <1>4 DEF EndSprint
  <2>2. pc[r] \in {"awaiting", "deciding", "gone"} /\ task'[r] = "done"
    BY <2>1 DEF Accepted, Shape, PCs
  <2>3. CASE r \in slotGiven
    <3>1. StepOf(r) /\ UNCHANGED limiter /\ (OwnsSlot(r)' <=> OwnsSlot(r))
      BY <2>1, <2>2, <2>3 DEF ReleaseReservation, Shape, StepOf, OwnsSlot
    <3>2. ReservedOnce'
      BY <2>1, <2>2, <2>3, <3>1 DEF ReleaseReservation, StepOf, ReservedOnce
    <3> QED BY <2>1, <3>1, <3>2, RestsIf
  <2>4. CASE r \notin slotGiven
    <3>1. ReleaseSlot /\ slotGiven' = slotGiven \cup {r}
      BY <2>1, <2>4 DEF ReleaseReservation
    <3>2. StepOf(r) /\ OwnsSlot(r) /\ ~ OwnsSlot(r)'
      BY <2>1, <2>2, <2>4, <3>1 DEF Shape, StepOf, OwnsSlot
    <3>3. ReservedOnce'
      BY <2>1, <2>2, <3>1, <3>2 DEF StepOf, ReservedOnce
    <3> QED BY <2>1, <2>2, <3>1, <3>2, <3>3, GivesBackIf
  <2> QED BY <2>3, <2>4
<1> QED
  BY <1>1, <1>2, <1>3, <1>4 DEF Callback

\* No other step touches a slot.
LEMMA OtherSlots ==
  ASSUME Shape, BeginsOnce, ReservedOnce,
         \/ \E w \in Workers : Work(w)
         \/ ClosePool \/ ShutdownReturns \/ Quit \/ BeginRestart \/ FinishRestart
         \/ \E r \in Requests : Cancel(r)
         \/ UNCHANGED vars
  PROVE  LimiterMoves /\ ReservedOnce'
<1>1. ASSUME UNCHANGED <<pc, limiter, task, slotGiven>> PROVE LimiterMoves /\ ReservedOnce'
  BY <1>1 DEF LimiterMoves, Rests, Owning, Counting, Queueing, OwnsSlot, ReservedOnce
<1>2. ASSUME NEW w \in Workers, BeginTask(w) PROVE LimiterMoves /\ ReservedOnce'
  <2>1. PICK r \in Requests :
          /\ task[r] = "queued" /\ UNCHANGED <<pc, limiter, slotGiven>>
          /\ task' = [task EXCEPT ![r] = "begun"]
    BY <1>2 DEF BeginTask, Become, Shape, BeginsOnce, Holds, sprint
  <2>2. StepOf(r) /\ (OwnsSlot(r)' <=> OwnsSlot(r)) /\ task'[r] = "begun"
    BY <2>1 DEF Shape, StepOf, OwnsSlot
  <2>3. ReservedOnce'
    BY <2>1, <2>2 DEF StepOf, ReservedOnce
  <2> QED BY <2>1, <2>2, <2>3, RestsIf
<1>3. ASSUME NEW w \in Workers, Dequeue(w) \/ WorkerIsFree(w)
      PROVE  UNCHANGED <<pc, limiter, task, slotGiven>>
  BY <1>3 DEF Dequeue, WorkerIsFree, sprint
<1>4. ASSUME ClosePool \/ ShutdownReturns \/ Quit \/ BeginRestart \/ FinishRestart
      PROVE  UNCHANGED <<pc, limiter, task, slotGiven>>
  BY <1>4 DEF ClosePool, ShutdownReturns, Quit, BeginRestart, FinishRestart, sprint
<1>5. ASSUME NEW r \in Requests, Cancel(r) PROVE UNCHANGED <<pc, limiter, task, slotGiven>>
  BY <1>5 DEF Cancel, sprint
<1>6. ASSUME UNCHANGED vars PROVE UNCHANGED <<pc, limiter, task, slotGiven>>
  BY <1>6 DEF vars, sprint
<1> QED
  BY <1>1, <1>2, <1>3, <1>4, <1>5, <1>6 DEF Work

\* Every step keeps the counts.
LEMMA SlotsKept ==
  ASSUME AdmissionInv, ReservedOnce, LimiterCounted, [Next]_vars
  PROVE  ReservedOnce' /\ LimiterCounted'
<1>1. LimiterMoves /\ ReservedOnce'
  BY HandlerSlots, CallbackSlots, OtherSlots DEF AdmissionInv, Next, Progress, Environment
<1> QED BY <1>1, LimiterCounts

-----------------------------------------------------------------------------
(* The pool.                                                                *)

\* An accepted callback that has not run to its end is in the channel or at a
\* worker, and a pool that has returned has neither.
PoolInv ==
  /\ pool \in {"open", "quit", "closed", "returned"}
  /\ \A r \in Requests : task[r] \notin {"none", "done"} =>
       (\E i \in 1..Len(queue) : queue[i] = r) \/ (\E w \in Workers : worker[w] = r)
  /\ pool \in {"closed", "returned"} => \A r \in Requests : pc[r] # "parked"
  /\ pool = "returned" => queue = <<>> /\ \A w \in Workers : worker[w] = NoRequest

\* Every step keeps accepted callbacks where a worker will run them, and lets a
\* pool close only behind the last submitter.
LEMMA PoolKept ==
  ASSUME AdmissionInv, PoolInv, [Next]_vars
  PROVE  PoolInv'
<1> USE RequestsAreDistinct DEF At, Go, gate, limiter, sprint
<1>1. Shape /\ Accepted /\ BeginsOnce
  BY DEF AdmissionInv
<1>2. ASSUME UNCHANGED <<queue, worker, pool, task>>,
             \A r \in Requests : pc'[r] = "parked" => pc[r] = "parked" \/ pool = "open"
      PROVE  PoolInv'
  BY <1>2 DEF PoolInv
<1>3. ASSUME NEW r \in Requests, Arrive(r) \/ Handle(r), ~ Enqueue(r) PROVE PoolInv'
  <2>1. UNCHANGED <<queue, worker, pool, task>>
    BY <1>3 DEF Arrive, Handle, TakeDesk, AcquireLease, Queue, TakeSlot, AbandonSlot, CountSlot,
                BeginSubmit, SubmitFails, Answer, StartSprint, AbortSprint, workers
  <2>2. ASSUME NEW x \in Requests, pc'[x] = "parked" PROVE pc[x] = "parked" \/ pool = "open"
    BY <1>1, <1>3, <2>2
    DEF Arrive, Handle, TakeDesk, AcquireLease, Queue, TakeSlot, AbandonSlot, CountSlot,
        BeginSubmit, SubmitFails, Answer, StartSprint, AbortSprint, Leave, Shape
  <2> QED BY <1>2, <2>1, <2>2
<1>4. ASSUME NEW r \in Requests, Enqueue(r) PROVE PoolInv'
  <2>1. /\ pc[r] = "parked" /\ UNCHANGED <<worker, pool>>
        /\ queue' = Append(queue, r) /\ task' = [task EXCEPT ![r] = "queued"]
        /\ \A x \in Requests : pc'[x] = "parked" => pc[x] = "parked"
    BY <1>1, <1>4 DEF Enqueue, Shape
  <2>2. pool \in {"open", "quit"}
    BY <2>1 DEF PoolInv
  <2>3. /\ Len(queue') = Len(queue) + 1 /\ Len(queue) \in Nat /\ queue'[Len(queue) + 1] = r
        /\ \A i \in 1..Len(queue) : queue'[i] = queue[i]
    BY <1>1, <2>1 DEF Shape
  <2>4. \A x \in Requests \ {r} : task'[x] = task[x]
    BY <1>1, <2>1 DEF Shape
  <2>5. ASSUME NEW x \in Requests, task'[x] \notin {"none", "done"}
        PROVE  (\E i \in 1..Len(queue') : queue'[i] = x) \/ (\E w \in Workers : worker'[w] = x)
    <3>1. CASE x = r
      BY <2>3, <3>1
    <3>2. CASE x # r
      <4>1. (\E i \in 1..Len(queue) : queue[i] = x) \/ (\E w \in Workers : worker[w] = x)
        BY <2>4, <2>5, <3>2 DEF PoolInv
      <4> QED BY <2>1, <2>3, <4>1
    <3> QED BY <3>1, <3>2
  <2> QED BY <2>1, <2>2, <2>5 DEF PoolInv
<1>5. ASSUME NEW r \in Requests, Callback(r) PROVE PoolInv'
  <2>1. CallbackMoves(r)
    BY <1>5, CallbackSteps
  <2>2. /\ UNCHANGED <<pc, queue, worker>> /\ task[r] \notin {"none", "done"}
        /\ \A x \in Requests \ {r} : task'[x] = task[x]
    BY <1>1, <2>1 DEF CallbackMoves, Become, Shape
  <2>3. UNCHANGED pool
    BY <1>5 DEF Callback, RunTask, TaskEnds, SendResult, EndActivity, EndSprint, workers
  <2> QED BY <2>2, <2>3 DEF PoolInv
<1>6. ASSUME NEW w \in Workers, Dequeue(w) PROVE PoolInv'
  <2>1. /\ worker[w] = NoRequest /\ queue # <<>> /\ worker' = [worker EXCEPT ![w] = queue[1]]
        /\ queue' = Tail(queue) /\ UNCHANGED <<pc, task, pool>>
    BY <1>6 DEF Dequeue
  <2>2. /\ Len(queue) \in Nat \ {0} /\ Len(queue') = Len(queue) - 1
        /\ \A i \in 1..Len(queue') : queue'[i] = queue[i + 1]
    BY <1>1, <2>1 DEF Shape
  <2>3. worker'[w] = queue[1] /\ \A v \in Workers \ {w} : worker'[v] = worker[v]
    BY <1>1, <2>1 DEF Shape
  <2>4. ASSUME NEW x \in Requests, task[x] \notin {"none", "done"}
        PROVE  (\E i \in 1..Len(queue') : queue'[i] = x) \/ (\E v \in Workers : worker'[v] = x)
    <3>1. CASE \E v \in Workers : worker[v] = x
      BY <2>1, <2>3, <3>1
    <3>2. ASSUME NEW i \in 1..Len(queue), queue[i] = x
          PROVE  (\E k \in 1..Len(queue') : queue'[k] = x) \/ (\E v \in Workers : worker'[v] = x)
      <4>1. CASE i = 1
        BY <2>3, <3>2, <4>1
      <4>2. CASE i # 1
        <5>1. i - 1 \in 1..Len(queue') /\ queue'[i - 1] = x
          BY <2>2, <3>2, <4>2
        <5> QED BY <5>1
      <4> QED BY <4>1, <4>2
    <3> QED BY <2>4, <3>1, <3>2 DEF PoolInv
  <2> QED BY <2>1, <2>4 DEF PoolInv
<1>7. ASSUME NEW w \in Workers, BeginTask(w) PROVE PoolInv'
  <2>1. /\ worker[w] \in Requests /\ task[worker[w]] = "queued"
        /\ UNCHANGED <<pc, queue, worker, pool>>
        /\ \A x \in Requests \ {worker[w]} : task'[x] = task[x]
    BY <1>1, <1>7 DEF BeginTask, Become, Shape, BeginsOnce, Holds
  <2> QED BY <2>1 DEF PoolInv
<1>8. ASSUME NEW w \in Workers, WorkerIsFree(w) PROVE PoolInv'
  <2>1. /\ worker[w] # NoRequest /\ task[worker[w]] = "done" /\ UNCHANGED <<pc, queue, task, pool>>
        /\ \A v \in Workers \ {w} : worker'[v] = worker[v]
    BY <1>1, <1>8 DEF WorkerIsFree, Shape
  <2>2. pool # "returned"
    BY <2>1 DEF PoolInv
  <2> QED BY <2>1, <2>2 DEF PoolInv
<1>9. CASE ClosePool \/ ShutdownReturns \/ Quit
  BY <1>9 DEF ClosePool, ShutdownReturns, Quit, PoolInv
<1>10. ASSUME \/ BeginRestart \/ FinishRestart \/ UNCHANGED vars
              \/ \E r \in Requests : Cancel(r)
       PROVE  PoolInv'
  <2>1. UNCHANGED <<pc, queue, worker, pool, task>>
    BY <1>10 DEF BeginRestart, FinishRestart, Cancel, vars, workers
  <2> QED BY <1>2, <2>1
<1> QED
  BY <1>3, <1>4, <1>5, <1>6, <1>7, <1>8, <1>9, <1>10 DEF Next, Progress, Environment, Work

-----------------------------------------------------------------------------
\* Slots and callbacks, in every reachable state.
LEMMA LimiterAndPool == Spec => [](ReservedOnce /\ LimiterCounted /\ PoolInv)
<1>1. Init => ReservedOnce /\ LimiterCounted /\ PoolInv
  <2> SUFFICES ASSUME Init PROVE ReservedOnce /\ LimiterCounted /\ PoolInv
    OBVIOUS
  <2>1. Owning = {} /\ Counting = {} /\ Queueing = {}
    BY RequestsAreDistinct DEF Init, Owning, Counting, Queueing, OwnsSlot, Requests
  <2>2. ReservedOnce
    BY DEF Init, ReservedOnce
  <2>3. LimiterCounted
    BY <2>1, FS_EmptySet, BoundsArePositive DEF Init, LimiterCounted
  <2>4. PoolInv
    BY DEF Init, PoolInv
  <2> QED BY <2>2, <2>3, <2>4
<1>2. /\ AdmissionInv /\ [Next]_vars /\ ReservedOnce /\ LimiterCounted /\ PoolInv
      => ReservedOnce' /\ LimiterCounted' /\ PoolInv'
  BY SlotsKept, PoolKept
<1> QED BY <1>1, <1>2, AdmissionInvariant, PTL DEF Spec

\* What is left of the shape.
RestOfShape ==
  /\ live \subseteq Requests /\ sealed \in {"open", "sealed", "kept"}
  /\ desk \in Sprints \cup {NoRequest} /\ running \in BOOLEAN

\* Contexts only end, and only sprints sit at the desk.
LEMMA RestOfShapeKept == RestOfShape /\ [Next]_vars => RestOfShape'
<1> SUFFICES ASSUME RestOfShape, [Next]_vars PROVE RestOfShape'
  OBVIOUS
<1> USE DEF RestOfShape, gate, sprint
<1>1. ASSUME NEW r \in Requests, Arrive(r) PROVE RestOfShape'
  BY <1>1 DEF Arrive, TakeDesk, AcquireLease, Leave
<1>2. ASSUME NEW r \in Requests, Handle(r) PROVE RestOfShape'
  BY <1>2 DEF Handle, AcquireLease, Queue, TakeSlot, AbandonSlot, CountSlot, BeginSubmit, Enqueue,
              SubmitFails, Answer, StartSprint, AbortSprint, Leave
<1>3. ASSUME NEW r \in Requests, Callback(r) PROVE RestOfShape'
  BY <1>3 DEF Callback, RunTask, TaskEnds, SendResult, EndActivity, EndSprint
<1>4. ASSUME NEW w \in Workers, Work(w) PROVE RestOfShape'
  BY <1>4 DEF Work, Dequeue, BeginTask, WorkerIsFree
<1>5. ASSUME ClosePool \/ ShutdownReturns \/ Quit \/ BeginRestart \/ FinishRestart
      PROVE  RestOfShape'
  BY <1>5 DEF ClosePool, ShutdownReturns, Quit, BeginRestart, FinishRestart
<1>6. ASSUME NEW r \in Requests, Cancel(r) PROVE RestOfShape'
  BY <1>6 DEF Cancel
<1>7. CASE UNCHANGED vars
  BY <1>7 DEF vars
<1> QED
  BY <1>1, <1>2, <1>3, <1>4, <1>5, <1>6, <1>7 DEF Next, Progress, Environment

\* Every variable keeps its shape; in particular no more slots are taken than
\* there are, and no count falls below zero.
THEOREM TypeCorrect == Spec => []TypeOK
<1>1. Init => RestOfShape
  BY DEF Init, RestOfShape
<1>2. AdmissionInv /\ ReservedOnce /\ LimiterCounted /\ PoolInv /\ RestOfShape => TypeOK
  <2> SUFFICES ASSUME AdmissionInv, ReservedOnce, LimiterCounted, PoolInv, RestOfShape
               PROVE  TypeOK
    OBVIOUS
  <2>1. sem \in Nat /\ active \in Nat /\ waiting \in Nat
    BY FS_CardinalityType DEF LimiterCounted
  <2>2. sem \in 0..Slots
    BY <2>1, BoundsArePositive DEF LimiterCounted
  <2> QED BY <2>1, <2>2 DEF AdmissionInv, Shape, ReservedOnce, PoolInv, RestOfShape, TypeOK
<1> QED BY <1>1, <1>2, RestOfShapeKept, AdmissionInvariant, LimiterAndPool, PTL DEF Spec

\* The limiter's counts are its owners and waiters: a slot is neither lost nor
\* returned twice, on any path of a handler or callback (AcquireWithContext,
\* Release, reserveSprint, executeDashboardAgent).
THEOREM SlotsReturn == Spec => []SlotsAreOwned
<1>1. LimiterCounted => SlotsAreOwned
  BY DEF LimiterCounted, SlotsAreOwned, Owning, Counting, Queueing
<1> QED BY <1>1, LimiterAndPool, PTL

\* A pool closes behind its last submitter and returns when every accepted
\* callback has run to its end (SubmitWithContext, Shutdown).
THEOREM ShutdownsDrain == Spec => []ShutdownDrains
<1>1. PoolInv => ShutdownDrains
  <2> SUFFICES ASSUME PoolInv, pool = "returned", NEW r \in Requests
               PROVE  task[r] \in {"none", "done"}
    BY DEF PoolInv, ShutdownDrains, At
  <2>1. queue = <<>> /\ \A w \in Workers : worker[w] = NoRequest
    BY DEF PoolInv
  <2>2. Len(queue) = 0
    BY <2>1
  <2> QED BY <2>1, <2>2, RequestsAreDistinct DEF PoolInv
<1> QED BY <1>1, LimiterAndPool, PTL
============================================================================
