-------------------------- MODULE SchedulerProofs --------------------------
(***************************************************************************)
(* Proofs about Scheduler, for every number of agents, slots, workers and  *)
(* faults: IInv is inductive, and what it implies.                         *)
(***************************************************************************)
EXTENDS Scheduler, FiniteSetTheorems, TLAPS

-----------------------------------------------------------------------------
(* Tables and lanes.                                                        *)

\* Marking, holding and finishing a job leave its kind (runJob, ResolveRecovery).
SameKind(j, i) == j.manual = i.manual /\ j.schedule = i.schedule

\* An entry that replaces entry i and adds no recurring job: gone, a manual run
\* without an interval (RunNow), or a job of the same kind.
AddsNone(j, i) == \/ j = NoJob
                  \/ j.manual /\ j.schedule = "on_demand"
                  \/ i # NoJob /\ SameKind(j, i)

\* A field update through a job pointer (runJob) keeps the table's shape.
LEMMA UpdateTable ==
  ASSUME NEW t \in Table, NEW a \in Agents, NEW k \in Slots, NEW j,
         t[a][k] # NoJob => j \in Job
  PROVE  Update(t, a, k, j) \in Table
  BY DEF Update, Table, Lane

\* Replacing one entry keeps the table's shape.
LEMMA PutTable ==
  ASSUME NEW t \in Table, NEW a \in Agents, NEW k \in Slots, NEW j \in Job \cup {NoJob}
  PROVE  [t EXCEPT ![a][k] = j] \in Table
  BY DEF Table, Lane

\* The table of a fresh process is a table.
LEMMA EmptyIsTable == EmptyTable \in Table
  BY DEF EmptyTable, EmptyLane, Table, Lane

\* Schedule and RunNow build jobs.
LEMMA NewJobs == ManualJob \in Job /\ \A sched \in Schedules : NewJob(sched) \in Job
  BY DEF ManualJob, NewJob, Job, Schedules

\* What reconciliation may do to a lane: claims and holds survive, and none appears.
Survives(j, i) == /\ j # NoJob => /\ j.hold => i # NoJob /\ i.hold
                                  /\ j.inFlight => i # NoJob /\ i.inFlight
                  /\ i # NoJob => /\ i.hold => j # NoJob /\ j.hold
                                  /\ i.inFlight => j # NoJob /\ j.inFlight

\* applyJobSchedule keeps a job a job, and its flags.
LEMMA AdoptJob ==
  ASSUME NEW j \in Job, NEW sched, NEW same \in BOOLEAN
  PROVE  /\ Adopt(j, sched, same) \in Job
         /\ Adopt(j, sched, same).manual = j.manual
         /\ Adopt(j, sched, same).hold = j.hold
         /\ Adopt(j, sched, same).inFlight = j.inFlight
  BY DEF Adopt, Job, Schedules

\* ReconcileWithRegistry keeps a lane well formed, keeps it single, and keeps
\* every claim and hold, with no others.
LEMMA ReconciledLane ==
  ASSUME NEW lane \in Lane, NEW sched \in YAML, NEW fresh \in SUBSET Slots,
         \A k \in fresh : lane[k] = NoJob,
         OneOfEachKind(lane),
         NEW out \in ReconcileLane(lane, sched, fresh)
  PROVE  /\ out \in Lane
         /\ OneOfEachKind(out)
         /\ \A k \in Slots : Survives(lane[k], out[k])
<1> DEFINE live   == {k \in Slots : lane[k] # NoJob}
           owners == Owners(lane)
           plain  == {k \in live : ~lane[k].manual /\ ~lane[k].inFlight}
<1>1. CASE \E k \in live : lane[k].hold
  <2>1. out = [k \in Slots |-> IF k \in live THEN [lane[k] EXCEPT !.active = FALSE] ELSE NoJob]
    BY <1>1 DEF ReconcileLane
  <2>2. \A k \in live : lane[k] \in Job
    BY DEF Lane
  <2>3. \A j \in Job : LET i == [j EXCEPT !.active = FALSE]
                       IN  i \in Job /\ i.hold = j.hold /\ i.inFlight = j.inFlight /\ i.manual = j.manual
    BY DEF Job
  <2> QED BY <2>1, <2>2, <2>3, ConstantsOK DEF Lane, OneOfEachKind, Recurring, Survives
<1>2. CASE ~(\E k \in live : lane[k].hold) /\ sched \in {"absent", "on_demand"}
  <2>1. out = [k \in Slots |-> IF k \in plain THEN NoJob ELSE lane[k]]
    BY <1>2 DEF ReconcileLane
  <2> QED BY <2>1, <1>2 DEF Lane, OneOfEachKind, Recurring, Survives
<1>3. CASE /\ ~(\E k \in live : lane[k].hold) /\ sched \notin {"absent", "on_demand"}
           /\ owners \cup plain # {}
  <2>1. PICK same \in BOOLEAN, keep \in SUBSET (owners \cup plain) :
          /\ keep # {}
          /\ out = [k \in Slots |-> IF k \in (owners \cup plain) \ keep THEN NoJob
                                    ELSE IF k \in plain THEN Adopt(lane[k], sched, same)
                                    ELSE lane[k]]
    BY <1>3 DEF ReconcileLane
  <2>2. \A k, l \in owners \cup plain : k = l
    BY DEF OneOfEachKind, Recurring, Owners
  <2>3. keep = owners \cup plain
    BY <2>1, <2>2
  <2>4. \A k \in plain : lane[k] \in Job
    BY DEF Lane
  <2> QED BY <2>1, <2>3, <2>4, <1>3, AdoptJob, ConstantsOK DEF Lane, OneOfEachKind, Recurring, Survives
<1>4. CASE /\ ~(\E k \in live : lane[k].hold) /\ sched = "every"
           /\ owners \cup plain = {}
  <2>1. PICK k \in fresh : out = [lane EXCEPT ![k] = NewJob(sched)]
    BY <1>4 DEF ReconcileLane
  <2>2. \A l \in Slots : Recurring(lane, l) => lane[l].manual
    BY <1>4 DEF Recurring, Owners
  <2>3. ~NewJob(sched).hold /\ ~NewJob(sched).inFlight /\ ~NewJob(sched).manual
    BY DEF NewJob
  <2> QED BY <2>1, <2>2, <2>3, <1>4, NewJobs DEF Lane, OneOfEachKind, Recurring, Survives, Schedules
<1>5. CASE /\ ~(\E k \in live : lane[k].hold) /\ sched = "unset"
           /\ owners \cup plain = {}
  <2>1. out = lane
    BY <1>5 DEF ReconcileLane
  <2> QED BY <2>1 DEF Survives
<1> QED BY <1>1, <1>2, <1>3, <1>4, <1>5 DEF YAML, Registered, Schedules

\* ReconcileWithRegistry on a whole table: lane by lane.
LEMMA ReconciledTable ==
  ASSUME TypeOK,
         NEW t \in Table, NEW fresh \in [Agents -> SUBSET Slots],
         \A a \in Agents : \A k \in fresh[a] : t[a][k] = NoJob,
         \A a \in Agents : OneOfEachKind(t[a]),
         NEW u \in Reconciled(t, fresh)
  PROVE  /\ u \in Table
         /\ \A a \in Agents : OneOfEachKind(u[a])
         /\ \A a \in Agents, k \in Slots : Survives(t[a][k], u[a][k])
<1>1. CASE u = t
  BY <1>1 DEF Survives
<1>2. CASE u # t
  <2>1. \A a \in Agents : u[a] \in ReconcileLane(t[a], registry[a], fresh[a])
    BY <1>2 DEF Reconciled
  <2>2. DOMAIN u = Agents /\ u = [a \in Agents |-> u[a]]
    BY <1>2 DEF Reconciled
  <2>3. ASSUME NEW a \in Agents
        PROVE  /\ u[a] \in Lane /\ OneOfEachKind(u[a])
               /\ \A k \in Slots : Survives(t[a][k], u[a][k])
    <3>1. t[a] \in Lane /\ registry[a] \in YAML /\ fresh[a] \in SUBSET Slots
      BY DEF Table, TypeOK
    <3> QED BY <2>1, <3>1, ReconciledLane
  <2> QED BY <2>2, <2>3 DEF Table
<1> QED BY <1>1, <1>2

\* loadState keeps the shape, turns every in-flight marker into a hold and keeps holds.
LEMMA LoadedTable ==
  ASSUME NEW t \in Table
  PROVE  /\ Load(t) \in Table
         /\ \A a \in Agents : OneOfEachKind(t[a]) => OneOfEachKind(Load(t)[a])
         /\ \A a \in Agents, k \in Slots :
              /\ Load(t)[a][k] = NoJob <=> t[a][k] = NoJob
              /\ t[a][k] # NoJob /\ (t[a][k].hold \/ t[a][k].inFlight) => Load(t)[a][k].hold
              /\ Load(t)[a][k] # NoJob => ~Load(t)[a][k].inFlight
<1> DEFINE Loaded(j) == IF j.inFlight
                        THEN [j EXCEPT !.inFlight = FALSE, !.hold = TRUE, !.active = FALSE]
                        ELSE [j EXCEPT !.active = j.active /\ ~j.hold]
<1>1. \A j \in Job : /\ Loaded(j) \in Job /\ Loaded(j) # NoJob
                     /\ SameKind(Loaded(j), j)
                     /\ j.hold \/ j.inFlight => Loaded(j).hold
                     /\ ~Loaded(j).inFlight
  BY ConstantsOK DEF Job, SameKind
<1>2. \A a \in Agents, k \in Slots : t[a][k] # NoJob => t[a][k] \in Job
  BY DEF Table, Lane
<1>3. \A a \in Agents, k \in Slots :
        Load(t)[a][k] = IF t[a][k] = NoJob THEN NoJob ELSE Loaded(t[a][k])
  BY DEF Load
<1> HIDE DEF Loaded
<1>4. Load(t) \in Table
  <2>1. Load(t) = [a \in Agents |-> [k \in Slots |-> Load(t)[a][k]]]
    BY DEF Load
  <2>2. \A a \in Agents, k \in Slots : Load(t)[a][k] \in Job \cup {NoJob}
    BY <1>1, <1>2, <1>3
  <2> QED BY <2>1, <2>2 DEF Table, Lane
<1>5. \A a \in Agents : OneOfEachKind(t[a]) => OneOfEachKind(Load(t)[a])
  BY <1>1, <1>2, <1>3 DEF OneOfEachKind, Recurring, SameKind
<1> QED BY <1>1, <1>2, <1>3, <1>4, <1>5

-----------------------------------------------------------------------------
(* Types.                                                                   *)

\* Free slots are slots, and free.
LEMMA FreshAllType ==
  /\ FreshAll \in [Agents -> SUBSET Slots]
  /\ \A a \in Agents : \A k \in FreshAll[a] : jobs[a][k] = NoJob
  BY DEF FreshAll, Fresh

\* The pairs an action leaves to the file.
LEMMA SaveType ==
  ASSUME TypeOK, NEW t \in Table, Saved(t) \/ SaveFailed
  PROVE  disk' \in Table /\ faults' \in 0..MaxFaults
  BY ConstantsOK DEF Saved, SaveFailed, TypeOK

\* NewScheduler leaves tables: loaded, reconciled, and saved or not.
LEMMA RestartTable ==
  ASSUME TypeOK, OnlyReactivatedForkOnDisk,
         NEW u \in Reconciled(Load(disk), [a \in Agents |-> {k \in Slots : disk[a][k] = NoJob}])
  PROVE  /\ u \in Table
         /\ \A a \in Agents : OneOfEachKind(u[a])
         /\ \A a \in Agents, k \in Slots :
              disk[a][k] # NoJob /\ (disk[a][k].hold \/ disk[a][k].inFlight)
                => u[a][k] # NoJob /\ u[a][k].hold
         /\ \A a \in Agents, k \in Slots : u[a][k] # NoJob => ~u[a][k].inFlight
<1> DEFINE fresh == [a \in Agents |-> {k \in Slots : disk[a][k] = NoJob}]
<1>1. disk \in Table
  BY DEF TypeOK
<1>2. /\ Load(disk) \in Table
      /\ \A a \in Agents : OneOfEachKind(Load(disk)[a])
      /\ \A a \in Agents : \A k \in fresh[a] : Load(disk)[a][k] = NoJob
  BY <1>1, LoadedTable DEF OnlyReactivatedForkOnDisk
<1>3. fresh \in [Agents -> SUBSET Slots]
  OBVIOUS
<1>4. /\ u \in Table
      /\ \A a \in Agents : OneOfEachKind(u[a])
      /\ \A a \in Agents, k \in Slots : Survives(Load(disk)[a][k], u[a][k])
  BY <1>2, <1>3, ReconciledTable
<1> QED BY <1>1, <1>4, LoadedTable DEF Survives

WorkerType == [pc : WorkerPC, agent : Agents \cup {NoAgent}, slot : Slots \cup {NoSlot},
               manual : BOOLEAN, clean : BOOLEAN]

\* What a step of worker w does to the workers.
LEMMA WorkerMoves ==
  ASSUME TypeOK, PointersOK, NEW w \in Workers, WorkerStep(w)
  PROVE  /\ Busy(w) /\ workers[w].agent \in Agents /\ workers[w].slot \in Slots
         /\ \E f \in WorkerType :
              /\ workers' = [workers EXCEPT ![w] = f]
              /\ f = FreeWorker \/ /\ f.pc # "free"
                                   /\ f.agent = workers[w].agent /\ f.slot = workers[w].slot
         /\ UNCHANGED <<registry, caller, phase, sealed>>
<1>1. Busy(w) /\ workers[w].agent \in Agents /\ workers[w].slot \in Slots
  BY DEF WorkerStep, Lookup, Dispatch, RunnerReturns, Settle, SettleManual, Report, WorkerPanics,
         Close, Release, Busy, PointersOK
<1>2. workers[w] \in WorkerType
  BY DEF TypeOK, WorkerType
<1>3. \A pc \in WorkerPC \ {"free"}, clean \in BOOLEAN :
        LET f == [workers[w] EXCEPT !.pc = pc]
            g == [workers[w] EXCEPT !.pc = pc, !.clean = clean]
        IN  /\ f \in WorkerType /\ f.pc # "free" /\ f.agent = workers[w].agent /\ f.slot = workers[w].slot
            /\ g \in WorkerType /\ g.pc # "free" /\ g.agent = workers[w].agent /\ g.slot = workers[w].slot
  BY <1>2 DEF WorkerType
<1>4. workers \in [Workers -> WorkerType]
  BY DEF TypeOK, WorkerType
<1>5. \A pc \in WorkerPC \ {"free"} : GoTo(w, pc) => workers' = [workers EXCEPT ![w] = [workers[w] EXCEPT !.pc = pc]]
  BY <1>4 DEF GoTo
<1>6. FreeWorker \in WorkerType
  BY DEF FreeWorker, WorkerType, WorkerPC
<1>7. CASE RunnerReturns(w)
  <2>1. PICK clean \in BOOLEAN : workers' = [workers EXCEPT ![w] = [workers[w] EXCEPT !.pc = "returned", !.clean = clean]]
    BY <1>7, <1>4 DEF RunnerReturns
  <2> QED BY <1>1, <1>3, <1>7, <2>1 DEF RunnerReturns, WorkerPC
<1>8. CASE Release(w)
  BY <1>1, <1>6, <1>8 DEF Release
<1>9. CASE \E pc \in WorkerPC \ {"free"} : GoTo(w, pc)
  <2>1. PICK pc \in WorkerPC \ {"free"} : workers' = [workers EXCEPT ![w] = [workers[w] EXCEPT !.pc = pc]]
    BY <1>5, <1>9
  <2>2. UNCHANGED <<registry, caller, phase, sealed>>
    BY DEF WorkerStep, Lookup, Dispatch, RunnerReturns, Settle, SettleManual, Report, WorkerPanics,
         Close, Release
  <2> QED BY <1>1, <1>3, <2>1, <2>2
<1> QED BY <1>7, <1>8, <1>9
        DEF WorkerStep, Lookup, Dispatch, Settle, SettleManual, Report, WorkerPanics,
            Close, AfterLookup, WorkerPC

-----------------------------------------------------------------------------
(* A worker and the entry it points at.                                     *)

Entry(w) == jobs[workers[w].agent][workers[w].slot]
Place(w) == <<workers[w].agent, workers[w].slot>>
Claims(f) == f.pc \in {"admitted", "ready", "running", "returned"}
Runs(f)   == f.pc \in {"running", "returned"}

\* What the invariant says of a busy worker (tick, RunNow).
LEMMA WorkerFacts ==
  ASSUME IInv, NEW w \in Workers, Busy(w)
  PROVE  /\ workers[w].agent \in Agents /\ workers[w].slot \in Slots
         /\ Up /\ ~sealed
         /\ Entry(w) \in Job \cup {NoJob}
         /\ Claims(workers[w]) => Entry(w) # NoJob /\ Entry(w).inFlight
         /\ Place(w) \in unsettled => (Entry(w) # NoJob /\ Entry(w).hold) \/ Runs(workers[w])
<1>1. workers[w].agent \in Agents /\ workers[w].slot \in Slots
  BY DEF IInv, PointersOK
<1>2. Up /\ ~sealed
  BY DEF IInv, LaneOwnership, SealedIsIdle, Up
<1>3. Entry(w) \in Job \cup {NoJob}
  BY <1>1 DEF IInv, TypeOK, Table, Lane, Entry
<1>4. Claims(workers[w]) => Entry(w) # NoJob /\ Entry(w).inFlight
  BY DEF IInv, ClaimIsInFlight, Claims, Entry
<1>5. ASSUME Place(w) \in unsettled
      PROVE  (Entry(w) # NoJob /\ Entry(w).hold) \/ Runs(workers[w])
  <2>1. \/ Entry(w) # NoJob /\ Entry(w).hold
        \/ \E v \in Workers : Executing(v) /\ workers[v].agent = workers[w].agent
    BY <1>2, <1>5 DEF IInv, UnsettledIsOwned, Place, Entry
  <2>2. \A v \in Workers : Executing(v) /\ workers[v].agent = workers[w].agent => v = w
    BY DEF IInv, LaneOwnership, Executing, Busy
  <2> QED BY <2>1, <2>2 DEF Executing, Runs
<1> QED BY <1>1, <1>2, <1>3, <1>4, <1>5

\* All a step of worker w does to the tables: its own entry becomes j.
StepOf(w, j) ==
  /\ j \in Job \cup {NoJob}
  /\ jobs' = [jobs EXCEPT ![workers[w].agent][workers[w].slot] = j]
  /\ AddsNone(j, Entry(w))
  /\ (disk' = disk /\ unsettled' \subseteq unsettled) \/ disk' = jobs'
  /\ faults' \in 0..MaxFaults
  /\ unsettled' \subseteq unsettled \cup {Place(w)}
  /\ Place(w) \in unsettled' => j # NoJob /\ (j.hold \/ Runs(workers'[w]))
  /\ Claims(workers'[w]) => j # NoJob /\ j.inFlight

\* A step that leaves the table alone leaves the worker's entry alone.
LEMMA SameEntry ==
  ASSUME IInv, NEW w \in Workers, Busy(w), UNCHANGED jobs
  PROVE  jobs' = [jobs EXCEPT ![workers[w].agent][workers[w].slot] = Entry(w)]
  BY WorkerFacts DEF IInv, TypeOK, Table, Lane, Entry

\* A field update through a worker's job pointer replaces that entry only.
LEMMA UpdateIsPut ==
  ASSUME IInv, NEW w \in Workers, Busy(w), NEW j,
         jobs' = Update(jobs, workers[w].agent, workers[w].slot, j)
  PROVE  jobs' = [jobs EXCEPT ![workers[w].agent][workers[w].slot] =
                    IF Entry(w) = NoJob THEN NoJob ELSE j]
  BY WorkerFacts DEF IInv, TypeOK, Table, Lane, Entry, Update

\* Marking, holding and finishing keep an entry a job.
LEMMA MarkedJobs ==
  ASSUME NEW j \in Job
  PROVE  /\ \A b \in BOOLEAN : LET i == [j EXCEPT !.inFlight = b]
            IN  i \in Job /\ SameKind(i, j) /\ i.hold = j.hold /\ i.inFlight = b
         /\ LET i == [j EXCEPT !.hold = TRUE, !.active = FALSE]
            IN  i \in Job /\ SameKind(i, j) /\ i.hold /\ i.inFlight = j.inFlight
         /\ LET i == [j EXCEPT !.inFlight = FALSE, !.due = FALSE, !.hold = TRUE, !.active = FALSE]
            IN  i \in Job /\ SameKind(i, j) /\ i.hold
         /\ LET i == [j EXCEPT !.inFlight = FALSE, !.due = FALSE]
            IN  i \in Job /\ SameKind(i, j) /\ i.hold = j.hold
         /\ j # NoJob
  BY ConstantsOK DEF Job, SameKind

\* Each step of a worker (runJob, RunNow) replaces at most the entry of its own job,
\* and the new entry carries the claim or the hold the invariant asks for.
LEMMA WorkerEntry ==
  ASSUME IInv, NEW w \in Workers, WorkerStep(w)
  PROVE  \E j : StepOf(w, j)
<1> DEFINE a == workers[w].agent
           k == workers[w].slot
<1>1. Busy(w) /\ a \in Agents /\ k \in Slots
  BY WorkerMoves DEF IInv
<1>2. /\ Up /\ ~sealed
      /\ Entry(w) \in Job \cup {NoJob}
      /\ Claims(workers[w]) => Entry(w) # NoJob /\ Entry(w).inFlight
      /\ Place(w) \in unsettled => (Entry(w) # NoJob /\ Entry(w).hold) \/ Runs(workers[w])
  BY <1>1, WorkerFacts
<1>3. Entry(w) = jobs[a][k] /\ Place(w) = <<a, k>>
  BY DEF Entry, Place
<1>4. faults \in 0..MaxFaults /\ MaxFaults \in Nat
  BY ConstantsOK DEF IInv, TypeOK
<1>5. \A t : Saved(t) \/ SaveFailed => (disk' = t \/ disk' = disk) /\ faults' \in 0..MaxFaults
  BY <1>4 DEF Saved, SaveFailed
<1>6. workers \in [Workers -> WorkerType]
  BY DEF IInv, TypeOK, WorkerType
<1>7. \A pc : GoTo(w, pc) => workers'[w].pc = pc
  BY <1>6 DEF GoTo, WorkerType
<1>8. CASE Lookup(w)
  <2>1. jobs' = [jobs EXCEPT ![a][k] = Entry(w)]
    BY <1>1, <1>8, SameEntry DEF Lookup
  <2>2. Claims(workers[w]) /\ ~Runs(workers[w]) /\ ~Runs(workers'[w])
    BY <1>7, <1>8 DEF Lookup, Claims, Runs, AfterLookup
  <2>3. disk' = disk /\ faults' = faults /\ unsettled' = unsettled
    BY <1>8 DEF Lookup
  <2>4. StepOf(w, Entry(w))
    BY <1>2, <1>4, <2>1, <2>2, <2>3 DEF StepOf, AddsNone, SameKind
  <2> QED BY <2>4
<1>9. CASE Dispatch(w)
  <2>1. Claims(workers[w]) /\ ~Runs(workers[w])
    BY <1>9 DEF Dispatch, Claims, Runs
  <2>2. Entry(w) \in Job /\ Entry(w).inFlight
    BY <1>2, <2>1
  <2>3. CASE /\ jobs' = Update(jobs, a, k, [jobs[a][k] EXCEPT !.inFlight = TRUE])
             /\ Saved(jobs')
             /\ GoTo(w, "running")
             /\ unsettled' = unsettled \cup {<<a, k>>}
    <3> DEFINE j == [Entry(w) EXCEPT !.inFlight = TRUE]
    <3>1. j \in Job /\ SameKind(j, Entry(w)) /\ j.inFlight /\ j # NoJob /\ Entry(w) # NoJob
      BY <2>2, MarkedJobs
    <3>2. jobs' = [jobs EXCEPT ![a][k] = j]
      BY <1>1, <1>3, <2>3, <3>1, UpdateIsPut
    <3>3. Runs(workers'[w])
      BY <1>7, <2>3 DEF Runs
    <3>4. disk' = jobs' /\ faults' \in 0..MaxFaults
      BY <1>5, <2>3 DEF Saved
    <3> HIDE DEF j
    <3>5. StepOf(w, j)
      BY <1>3, <2>3, <3>1, <3>2, <3>3, <3>4 DEF StepOf, AddsNone, SameKind
    <3> QED BY <3>5
  <2>4. CASE /\ IF AdmissionHeld(a) THEN UNCHANGED <<disk, faults>> ELSE SaveFailed
             /\ jobs' = Update(jobs, a, k, [jobs[a][k] EXCEPT !.inFlight = FALSE])
             /\ GoTo(w, "closing")
             /\ UNCHANGED unsettled
    <3> DEFINE j == [Entry(w) EXCEPT !.inFlight = FALSE]
    <3>1. j \in Job /\ SameKind(j, Entry(w)) /\ j.hold = Entry(w).hold /\ j # NoJob /\ Entry(w) # NoJob
      BY <2>2, MarkedJobs
    <3>2. jobs' = [jobs EXCEPT ![a][k] = j]
      BY <1>1, <1>3, <2>4, <3>1, UpdateIsPut
    <3>3. ~Claims(workers'[w])
      BY <1>7, <2>4 DEF Claims
    <3>4. disk' = disk /\ faults' \in 0..MaxFaults
      BY <1>4, <2>4 DEF SaveFailed
    <3> HIDE DEF j
    <3>5. StepOf(w, j)
      BY <1>2, <2>1, <2>4, <3>1, <3>2, <3>3, <3>4 DEF StepOf, AddsNone, SameKind
    <3> QED BY <3>5
  <2> QED BY <1>9, <2>3, <2>4 DEF Dispatch
<1>10. CASE RunnerReturns(w)
  <2>1. jobs' = [jobs EXCEPT ![a][k] = Entry(w)]
    BY <1>1, <1>10, SameEntry DEF RunnerReturns
  <2>2. Claims(workers[w])
    BY <1>10 DEF RunnerReturns, Claims
  <2>3. Runs(workers'[w])
    BY <1>6, <1>10 DEF RunnerReturns, Runs, WorkerType
  <2>4. disk' = disk /\ faults' = faults /\ unsettled' = unsettled
    BY <1>10 DEF RunnerReturns
  <2>5. StepOf(w, Entry(w))
    BY <1>2, <1>4, <2>1, <2>2, <2>3, <2>4 DEF StepOf, AddsNone, SameKind
  <2> QED BY <2>5
<1>11. CASE Settle(w)
  <2> DEFINE held == [Entry(w) EXCEPT !.inFlight = FALSE, !.due = FALSE,
                                      !.hold = TRUE, !.active = FALSE]
             ended == [Entry(w) EXCEPT !.inFlight = FALSE, !.due = FALSE]
             done == IF workers[w].clean THEN ended ELSE held
  <2>1. Entry(w) \in Job /\ Entry(w) # NoJob
    BY <1>2, <1>11 DEF Settle, Claims
  <2>2. /\ held \in Job /\ SameKind(held, Entry(w)) /\ held.hold /\ held # NoJob
        /\ ended \in Job /\ SameKind(ended, Entry(w)) /\ ended # NoJob
    BY <2>1, MarkedJobs
  <2>3. GoTo(w, "settled")
    BY <1>11 DEF Settle
  <2>4. ~Claims(workers'[w])
    BY <1>7, <2>3 DEF Claims
  <2>5. \/ /\ jobs' = Update(jobs, a, k, done)
           /\ Saved(jobs')
           /\ unsettled' = IF workers[w].clean THEN unsettled \ {<<a, k>>} ELSE unsettled
        \/ jobs' = Update(jobs, a, k, held) /\ SaveFailed /\ UNCHANGED unsettled
    BY <1>3, <1>11 DEF Settle
  <2> HIDE DEF held, ended
  <2>6. CASE /\ jobs' = Update(jobs, a, k, done)
             /\ Saved(jobs')
             /\ unsettled' = IF workers[w].clean THEN unsettled \ {<<a, k>>} ELSE unsettled
    <3>1. jobs' = [jobs EXCEPT ![a][k] = done]
      BY <1>1, <2>1, <2>6, UpdateIsPut
    <3>2. disk' = jobs' /\ faults' \in 0..MaxFaults
      BY <1>5, <2>6 DEF Saved
    <3>3. StepOf(w, done)
      BY <1>3, <2>1, <2>2, <2>4, <2>6, <3>1, <3>2 DEF StepOf, AddsNone, SameKind
    <3> QED BY <3>3
  <2>7. CASE jobs' = Update(jobs, a, k, held) /\ SaveFailed /\ UNCHANGED unsettled
    <3>1. jobs' = [jobs EXCEPT ![a][k] = held]
      BY <1>1, <2>1, <2>7, UpdateIsPut
    <3>2. disk' = disk /\ faults' \in 0..MaxFaults
      BY <1>4, <2>7 DEF SaveFailed
    <3>3. StepOf(w, held)
      BY <1>3, <2>1, <2>2, <2>4, <2>7, <3>1, <3>2 DEF StepOf, AddsNone, SameKind
    <3> QED BY <3>3
  <2> QED BY <2>5, <2>6, <2>7
<1>12. CASE SettleManual(w)
  <2> DEFINE held == [ManualJob EXCEPT !.inFlight = FALSE, !.hold = TRUE]
             done == IF workers[w].clean THEN NoJob ELSE held
  <2>1. held \in Job /\ held.manual /\ held.schedule = "on_demand" /\ held.hold /\ held # NoJob
    BY NewJobs, ConstantsOK DEF Job, ManualJob
  <2>2. GoTo(w, "releasing")
    BY <1>12 DEF SettleManual
  <2>3. ~Claims(workers'[w])
    BY <1>7, <2>2 DEF Claims
  <2>4. \/ /\ jobs' = [jobs EXCEPT ![a][k] = done]
           /\ Saved(jobs')
           /\ unsettled' = IF workers[w].clean THEN unsettled \ {<<a, k>>} ELSE unsettled
        \/ jobs' = [jobs EXCEPT ![a][k] = held] /\ SaveFailed /\ UNCHANGED unsettled
    BY <1>12 DEF SettleManual
  <2> HIDE DEF held
  <2>5. CASE /\ jobs' = [jobs EXCEPT ![a][k] = done]
             /\ Saved(jobs')
             /\ unsettled' = IF workers[w].clean THEN unsettled \ {<<a, k>>} ELSE unsettled
    <3>1. disk' = jobs' /\ faults' \in 0..MaxFaults
      BY <1>5, <2>5 DEF Saved
    <3>2. StepOf(w, done)
      BY <1>3, <2>1, <2>3, <2>5, <3>1 DEF StepOf, AddsNone, SameKind
    <3> QED BY <3>2
  <2>6. CASE jobs' = [jobs EXCEPT ![a][k] = held] /\ SaveFailed /\ UNCHANGED unsettled
    <3>1. disk' = disk /\ faults' \in 0..MaxFaults
      BY <1>4, <2>6 DEF SaveFailed
    <3>2. StepOf(w, held)
      BY <1>3, <2>1, <2>3, <2>6, <3>1 DEF StepOf, AddsNone, SameKind
    <3> QED BY <3>2
  <2> QED BY <2>4, <2>5, <2>6
<1>13. CASE Report(w) \/ WorkerPanics(w)
  <2> DEFINE held == [Entry(w) EXCEPT !.hold = TRUE, !.active = FALSE]
  <2>1. GoTo(w, "closing") /\ disk' = disk /\ faults' = faults /\ unsettled' = unsettled
    BY <1>13 DEF Report, WorkerPanics
  <2>2. ~Claims(workers'[w])
    BY <1>7, <2>1 DEF Claims
  <2>3. CASE Report(w) /\ UNCHANGED jobs
    <3>1. jobs' = [jobs EXCEPT ![a][k] = Entry(w)]
      BY <1>1, <2>3, SameEntry
    <3>2. ~Runs(workers[w])
      BY <2>3 DEF Report, Runs
    <3>3. StepOf(w, Entry(w))
      BY <1>2, <1>4, <2>1, <2>2, <3>1, <3>2 DEF StepOf, AddsNone, SameKind
    <3> QED BY <3>3
  <2>4. CASE jobs' = Update(jobs, a, k, held)
    <3> DEFINE j == IF Entry(w) = NoJob THEN NoJob ELSE held
    <3>1. jobs' = [jobs EXCEPT ![a][k] = j]
      BY <1>1, <2>4, UpdateIsPut
    <3>2. ASSUME Entry(w) # NoJob
          PROVE  held \in Job /\ SameKind(held, Entry(w)) /\ held.hold /\ held # NoJob
      <4>1. Entry(w) \in Job
        BY <1>2, <3>2
      <4> QED BY <4>1, MarkedJobs
    <3>3. Place(w) \in unsettled => Entry(w) # NoJob
      BY <1>2 DEF Runs, Claims
    <3> HIDE DEF held
    <3>4. StepOf(w, j)
      BY <1>4, <2>1, <2>2, <3>1, <3>2, <3>3 DEF StepOf, AddsNone, SameKind
    <3> QED BY <3>4
  <2> QED BY <1>3, <1>13, <2>3, <2>4 DEF Report, WorkerPanics
<1>14. CASE Close(w)
  <2> DEFINE closed == [Entry(w) EXCEPT !.inFlight = FALSE]
             j == IF Entry(w) = NoJob THEN NoJob ELSE closed
  <2>1. /\ GoTo(w, "releasing") /\ unsettled' = unsettled /\ ~Runs(workers[w])
        /\ jobs' = Update(jobs, a, k, closed)
        /\ (disk' = jobs' \/ disk' = disk) /\ faults' \in 0..MaxFaults
    BY <1>3, <1>5, <1>14 DEF Close, SaveAttempt, Runs
  <2>2. ~Claims(workers'[w])
    BY <1>7, <2>1 DEF Claims
  <2>3. jobs' = [jobs EXCEPT ![a][k] = j]
    BY <1>1, <2>1, UpdateIsPut
  <2>4. Entry(w) # NoJob => closed \in Job /\ SameKind(closed, Entry(w))
                            /\ closed.hold = Entry(w).hold /\ closed # NoJob
    BY <1>2, MarkedJobs
  <2> HIDE DEF closed
  <2>5. StepOf(w, j)
    BY <1>2, <2>1, <2>2, <2>3, <2>4 DEF StepOf, AddsNone, SameKind
  <2> QED BY <2>5
<1>15. CASE Release(w)
  <2>1. jobs' = [jobs EXCEPT ![a][k] = Entry(w)]
    BY <1>1, <1>15, SameEntry DEF Release
  <2>2. ~Runs(workers[w]) /\ ~Claims(workers'[w])
    BY <1>6, <1>15 DEF Release, Runs, Claims, FreeWorker
  <2>3. disk' = disk /\ faults' = faults /\ unsettled' = unsettled
    BY <1>15 DEF Release
  <2>4. StepOf(w, Entry(w))
    BY <1>2, <1>4, <2>1, <2>2, <2>3 DEF StepOf, AddsNone, SameKind
  <2> QED BY <2>4
<1> QED BY <1>8, <1>9, <1>10, <1>11, <1>12, <1>13, <1>14, <1>15 DEF WorkerStep

-----------------------------------------------------------------------------
(* IInv is inductive.                                                       *)

\* A table that was saved holds the evidence that memory holds.
LEMMA SavedEvidence ==
  ASSUME Up', ~sealed', disk' = jobs', UnsettledIsOwned', ClaimIsInFlight'
  PROVE  DurableEvidence'
<1> SUFFICES ASSUME NEW u \in unsettled'
             PROVE  LET j == jobs'[u[1]][u[2]] IN j # NoJob /\ (j.inFlight \/ j.hold)
  BY DEF DurableEvidence
<1>1. CASE jobs'[u[1]][u[2]] # NoJob /\ jobs'[u[1]][u[2]].hold
  BY <1>1
<1>2. CASE \E w \in Workers : /\ workers'[w].pc \in {"running", "returned"}
                              /\ workers'[w].agent = u[1] /\ workers'[w].slot = u[2]
  BY <1>2 DEF ClaimIsInFlight
<1> QED BY <1>1, <1>2 DEF UnsettledIsOwned, Executing

\* A worker's step keeps the invariant.
LEMMA WorkerInv ==
  ASSUME IInv, NEW w \in Workers, WorkerStep(w)
  PROVE  IInv'
<1> DEFINE a == workers[w].agent
           k == workers[w].slot
<1>1. Busy(w) /\ a \in Agents /\ k \in Slots
  BY WorkerMoves DEF IInv
<1>2. PICK f \in WorkerType :
        /\ workers' = [workers EXCEPT ![w] = f]
        /\ f = FreeWorker \/ (f.pc # "free" /\ f.agent = a /\ f.slot = k)
  BY WorkerMoves DEF IInv
<1>3. UNCHANGED <<registry, caller, phase, sealed>>
  BY WorkerMoves DEF IInv
<1>4. PICK j : StepOf(w, j)
  BY WorkerEntry
<1>5. \/ activeAgents' = activeAgents
      \/ activeAgents' = activeAgents \ {a} /\ f = FreeWorker
  BY <1>2 DEF WorkerStep, Lookup, Dispatch, RunnerReturns, Settle, SettleManual, Report,
              WorkerPanics, Close, Release, IInv, TypeOK
<1>6. Up /\ ~sealed /\ Up' /\ ~sealed'
  BY <1>1, <1>3, WorkerFacts DEF Up
<1>7. /\ workers \in [Workers -> WorkerType] /\ jobs \in Table /\ disk \in Table
      /\ unsettled \in SUBSET (Agents \X Slots)
  BY DEF IInv, TypeOK, WorkerType
<1>8. /\ workers'[w] = f
      /\ \A v \in Workers : v # w => workers'[v] = workers[v]
      /\ \A v \in Workers : v # w /\ Busy(v) => workers[v].agent # a
  BY <1>1, <1>2, <1>7 DEF IInv, LaneOwnership
<1>9. /\ jobs' \in Table
      /\ jobs'[a][k] = j
      /\ \A b \in Agents, l \in Slots : b # a \/ l # k => jobs'[b][l] = jobs[b][l]
  BY <1>1, <1>4, <1>7, PutTable DEF StepOf, Table, Lane
<1>10. TypeOK'
  <2>1. workers' \in [Workers -> WorkerType]
    BY <1>2, <1>7
  <2>2. disk' \in Table /\ faults' \in 0..MaxFaults
    BY <1>4, <1>7, <1>9 DEF StepOf
  <2>3. unsettled' \in SUBSET (Agents \X Slots)
    BY <1>1, <1>4, <1>7 DEF StepOf, Place
  <2>4. activeAgents' \in SUBSET Agents
    BY <1>5 DEF IInv, TypeOK
  <2> QED BY <1>3, <1>9, <2>1, <2>2, <2>3, <2>4 DEF IInv, TypeOK, WorkerType
<1>11. PointersOK'
  <2>1. ASSUME NEW v \in Workers
        PROVE  IF workers'[v].pc # "free" THEN workers'[v].agent \in Agents /\ workers'[v].slot \in Slots
                                          ELSE workers'[v] = FreeWorker
    <3>1. CASE v = w
      <4>1. workers'[v] = f /\ FreeWorker.pc = "free"
        BY <1>8, <3>1 DEF FreeWorker
      <4>2. CASE f = FreeWorker
        BY <4>1, <4>2
      <4>3. CASE f.pc # "free" /\ f.agent = a /\ f.slot = k
        BY <1>1, <4>1, <4>3
      <4> QED BY <1>2, <4>2, <4>3
    <3>2. CASE v # w
      BY <1>8, <3>2 DEF IInv, PointersOK, Busy
    <3> QED BY <3>1, <3>2
  <2>2. caller' = caller /\ phase' = phase
    BY <1>3
  <2> QED BY <2>1, <2>2 DEF IInv, PointersOK, Busy, Up
<1>12. LaneOwnership'
  <2>1. IsFiniteSet(activeAgents') /\ Cardinality(activeAgents') <= MaxConcurrent
    <3>1. IsFiniteSet(activeAgents) /\ Cardinality(activeAgents) <= MaxConcurrent
      BY DEF IInv, LaneOwnership
    <3>2. activeAgents' \subseteq activeAgents
      BY <1>5
    <3>3. IsFiniteSet(activeAgents') /\ Cardinality(activeAgents') <= Cardinality(activeAgents)
      BY <3>1, <3>2, FS_Subset
    <3>4. Cardinality(activeAgents) \in Nat /\ Cardinality(activeAgents') \in Nat
      BY <3>1, <3>3, FS_CardinalityType
    <3> QED BY <3>1, <3>3, <3>4, ConstantsOK
  <2>2. \A v \in Workers : Busy(v)' => workers'[v].agent \in activeAgents'
    BY <1>1, <1>2, <1>5, <1>8 DEF IInv, LaneOwnership, Busy, FreeWorker
  <2>3. \A u, v \in Workers : Busy(u)' /\ Busy(v)' /\ u # v => workers'[u].agent # workers'[v].agent
    BY <1>1, <1>2, <1>8 DEF IInv, LaneOwnership, Busy, FreeWorker
  <2>4. phase' \notin {"down", "drained"}
    BY <1>1, <1>3 DEF IInv, LaneOwnership
  <2> QED BY <2>1, <2>2, <2>3, <2>4 DEF LaneOwnership
<1>13. SealedIsIdle'
  BY <1>6 DEF SealedIsIdle
<1>14. ClaimIsInFlight'
  <2> SUFFICES ASSUME NEW v \in Workers, Claims(workers'[v])
               PROVE  LET i == jobs'[workers'[v].agent][workers'[v].slot] IN i # NoJob /\ i.inFlight
    BY DEF ClaimIsInFlight, Claims
  <2>1. CASE v = w
    BY <1>2, <1>4, <1>8, <1>9, <2>1 DEF StepOf, Claims, FreeWorker
  <2>2. CASE v # w
    <3>1. /\ workers'[v] = workers[v] /\ Busy(v) /\ workers[v].agent # a
          /\ workers[v].agent \in Agents /\ workers[v].slot \in Slots
      BY <1>8, <2>2 DEF Claims, Busy, IInv, PointersOK
    <3> QED BY <1>9, <3>1 DEF IInv, ClaimIsInFlight, Claims
  <2> QED BY <2>1, <2>2
<1>15. OnlyReactivatedFork'
  <2> SUFFICES ASSUME NEW b \in Agents PROVE OneOfEachKind(jobs'[b])
    BY DEF OnlyReactivatedFork
  <2>1. \A l \in Slots : Recurring(jobs'[b], l) =>
          Recurring(jobs[b], l) /\ jobs'[b][l].manual = jobs[b][l].manual
    BY <1>4, <1>9 DEF StepOf, AddsNone, SameKind, Recurring, Entry
  <2> QED BY <2>1 DEF OneOfEachKind, IInv, OnlyReactivatedFork
<1>16. OnlyReactivatedForkOnDisk'
  BY <1>4, <1>15 DEF StepOf, OnlyReactivatedFork, OnlyReactivatedForkOnDisk, IInv
<1>17. UnsettledIsOwned'
  <2> SUFFICES ASSUME NEW u \in unsettled'
               PROVE  \/ jobs'[u[1]][u[2]] # NoJob /\ jobs'[u[1]][u[2]].hold
                      \/ \E v \in Workers : Runs(workers'[v]) /\ workers'[v].agent = u[1]
                                                             /\ workers'[v].slot = u[2]
    BY DEF UnsettledIsOwned, Executing, Runs
  <2>1. CASE u = <<a, k>>
    <3>1. j # NoJob /\ (j.hold \/ Runs(f))
      BY <1>4, <1>8, <2>1 DEF StepOf, Place
    <3>2. Runs(f) => f.agent = a /\ f.slot = k
      BY <1>2 DEF Runs, FreeWorker
    <3> QED BY <1>8, <1>9, <2>1, <3>1, <3>2
  <2>2. CASE u # <<a, k>>
    <3>1. u \in unsettled /\ u \in Agents \X Slots
      BY <1>4, <1>7, <2>2 DEF StepOf, Place
    <3>2. u[1] \in Agents /\ u[2] \in Slots /\ (u[1] # a \/ u[2] # k)
      BY <2>2, <3>1
    <3>3. jobs'[u[1]][u[2]] = jobs[u[1]][u[2]]
      BY <1>9, <3>2
    <3>4. CASE jobs[u[1]][u[2]] # NoJob /\ jobs[u[1]][u[2]].hold
      BY <3>3, <3>4
    <3>5. CASE \E v \in Workers : Executing(v) /\ workers[v].agent = u[1] /\ workers[v].slot = u[2]
      <4>1. PICK v \in Workers : Executing(v) /\ workers[v].agent = u[1] /\ workers[v].slot = u[2]
        BY <3>5
      <4>2. v # w
        BY <3>2, <4>1
      <4> QED BY <1>8, <4>1, <4>2 DEF Executing, Runs
    <3> QED BY <1>6, <3>1, <3>4, <3>5 DEF IInv, UnsettledIsOwned
  <2> QED BY <2>1, <2>2
<1>18. DurableEvidence'
  <2>1. CASE disk' = disk /\ unsettled' \subseteq unsettled
    BY <2>1 DEF IInv, DurableEvidence
  <2>2. CASE disk' = jobs'
    BY <1>6, <1>14, <1>17, <2>2, SavedEvidence
  <2> QED BY <1>4, <2>1, <2>2 DEF StepOf
<1> QED BY <1>10, <1>11, <1>12, <1>13, <1>14, <1>15, <1>16, <1>17, <1>18 DEF IInv

-----------------------------------------------------------------------------
(* Steps that touch no table, and steps that touch only tables.             *)

\* A step that changes neither tables nor workers keeps the invariant.
LEMMA FrameInv ==
  ASSUME IInv,
         UNCHANGED <<jobs, disk, activeAgents, workers, sealed, unsettled, faults>>,
         registry' \in [Agents -> YAML],
         caller' \in [pc : {"idle", "checked", "stored"}, agent : Agents \cup {NoAgent},
                      schedule : Schedules],
         caller'.pc # "idle" => Up' /\ caller'.agent \in Agents,
         phase' \in {"down", "created", "running", "stopping", "drained"},
         Up' <=> Up,
         phase' \in {"down", "drained"} => \A w \in Workers : ~Busy(w)
  PROVE  IInv'
<1>1. TypeOK'
  BY DEF IInv, TypeOK
<1>2. PointersOK' /\ LaneOwnership'
  BY DEF IInv, PointersOK, LaneOwnership, Busy, Up
<1>3. SealedIsIdle' /\ ClaimIsInFlight'
  BY DEF IInv, SealedIsIdle, ClaimIsInFlight, Busy, EmptyTable, EmptyLane
<1>4. OnlyReactivatedFork' /\ OnlyReactivatedForkOnDisk'
  BY DEF IInv, OnlyReactivatedFork, OnlyReactivatedForkOnDisk
<1>5. UnsettledIsOwned' /\ DurableEvidence'
  BY DEF IInv, UnsettledIsOwned, DurableEvidence, Executing, Up
<1> QED BY <1>1, <1>2, <1>3, <1>4, <1>5 DEF IInv

\* A step of the operator on the tables keeps the invariant if claims and holds survive it.
LEMMA TableInv ==
  ASSUME IInv, ~sealed, Up,
         UNCHANGED <<activeAgents, workers, phase, sealed>>,
         registry' = registry,
         caller' = caller \/ caller' = IdleCaller,
         jobs' \in Table, \A a \in Agents : OneOfEachKind(jobs'[a]),
         faults' \in 0..MaxFaults,
         disk' = disk \/ disk' = jobs',
         unsettled' \subseteq unsettled,
         \A a \in Agents, k \in Slots :
           <<a, k>> \in unsettled' /\ jobs[a][k] # NoJob /\ jobs[a][k].hold
             => jobs'[a][k] # NoJob /\ jobs'[a][k].hold,
         \A w \in Workers : Claims(workers[w]) =>
           LET j == jobs'[workers[w].agent][workers[w].slot] IN j # NoJob /\ j.inFlight
  PROVE  IInv'
<1>1. TypeOK'
  <2>1. caller' \in [pc : {"idle", "checked", "stored"}, agent : Agents \cup {NoAgent},
                      schedule : Schedules]
    BY DEF IInv, TypeOK, IdleCaller, Schedules
  <2> QED BY <2>1 DEF IInv, TypeOK
<1>2. PointersOK' /\ LaneOwnership'
  BY DEF IInv, PointersOK, LaneOwnership, Busy, IdleCaller, Up
<1>3. SealedIsIdle' /\ ClaimIsInFlight'
  BY DEF SealedIsIdle, ClaimIsInFlight, Claims, Up
<1>4. OnlyReactivatedFork' /\ OnlyReactivatedForkOnDisk'
  BY DEF IInv, OnlyReactivatedFork, OnlyReactivatedForkOnDisk
<1>5. UnsettledIsOwned'
  <2> SUFFICES ASSUME Up, NEW u \in unsettled'
               PROVE  \/ jobs'[u[1]][u[2]] # NoJob /\ jobs'[u[1]][u[2]].hold
                      \/ \E v \in Workers : Executing(v) /\ workers[v].agent = u[1] /\ workers[v].slot = u[2]
    BY DEF UnsettledIsOwned, Executing, Up
  <2>1. u \in unsettled /\ u \in Agents \X Slots
    BY DEF IInv, TypeOK
  <2>2. u[1] \in Agents /\ u[2] \in Slots /\ u = <<u[1], u[2]>>
    BY <2>1
  <2>3. \/ jobs[u[1]][u[2]] # NoJob /\ jobs[u[1]][u[2]].hold
        \/ \E v \in Workers : Executing(v) /\ workers[v].agent = u[1] /\ workers[v].slot = u[2]
    BY <2>1 DEF IInv, UnsettledIsOwned
  <2> QED BY <2>2, <2>3
<1>6. DurableEvidence'
  <2>1. CASE disk' = disk
    BY <2>1 DEF IInv, DurableEvidence
  <2>2. CASE disk' = jobs'
    BY <1>3, <1>5, <2>2, SavedEvidence DEF Up
  <2> QED BY <2>1, <2>2
<1> QED BY <1>1, <1>2, <1>3, <1>4, <1>5, <1>6 DEF IInv

\* What a save attempt leaves in the file.
LEMMA AttemptFile ==
  ASSUME IInv, NEW t \in Table, SaveAttempt(t)
  PROVE  (disk' = disk \/ disk' = t) /\ faults' \in 0..MaxFaults
  BY ConstantsOK DEF SaveAttempt, Saved, SaveFailed, IInv, TypeOK

\* Claims stand in the table of a process that is up.
LEMMA ClaimFacts ==
  ASSUME IInv, NEW w \in Workers, Claims(workers[w])
  PROVE  /\ workers[w].agent \in activeAgents
         /\ workers[w].agent \in Agents /\ workers[w].slot \in Slots
         /\ Entry(w) # NoJob /\ Entry(w).inFlight
<1>1. Busy(w)
  BY DEF Claims, Busy
<1> QED BY <1>1, WorkerFacts DEF IInv, LaneOwnership

\* No execution of an idle, unheld agent is unsettled.
LEMMA IdleIsSettled ==
  ASSUME IInv, Up, NEW a \in Agents, ~AdmissionHeld(a), a \notin activeAgents, NEW k \in Slots
  PROVE  <<a, k>> \notin unsettled
<1> SUFFICES ASSUME <<a, k>> \in unsettled PROVE FALSE
  OBVIOUS
<1>1. \/ jobs[a][k] # NoJob /\ jobs[a][k].hold
      \/ \E v \in Workers : Executing(v) /\ workers[v].agent = a
  BY DEF IInv, UnsettledIsOwned, AdmissionHeld
<1>2. \A v \in Workers : Executing(v) => workers[v].agent \in activeAgents
  BY DEF IInv, LaneOwnership, Executing, Busy
<1> QED BY <1>1, <1>2 DEF AdmissionHeld, Held

-----------------------------------------------------------------------------
(* The operator's actions.                                                  *)

\* ReconcileWithRegistry keeps the invariant.
LEMMA ReconcileInv ==
  ASSUME IInv, Reconcile
  PROVE  IInv'
<1>1. PICK t \in Reconciled(jobs, FreshAll) : jobs' = t /\ SaveAttempt(t)
  BY DEF Reconcile
<1>2. /\ t \in Table /\ \A a \in Agents : OneOfEachKind(t[a])
      /\ \A a \in Agents, k \in Slots : Survives(jobs[a][k], t[a][k])
  BY FreshAllType, ReconciledTable DEF IInv, TypeOK, OnlyReactivatedFork
<1>3. (disk' = disk \/ disk' = t) /\ faults' \in 0..MaxFaults
  BY <1>1, <1>2, AttemptFile
<1>4. /\ UNCHANGED <<registry, activeAgents, workers, caller, phase, sealed, unsettled>>
      /\ ~sealed /\ Up
  BY DEF Reconcile, MayReconcile, Up
<1>5. \A w \in Workers : Claims(workers[w]) =>
        LET j == jobs'[workers[w].agent][workers[w].slot] IN j # NoJob /\ j.inFlight
  BY <1>1, <1>2, ClaimFacts DEF Survives, Entry
<1> QED BY <1>1, <1>2, <1>3, <1>4, <1>5, TableInv DEF Survives

\* Schedule on an agent that is neither held nor active leaves a single job.
LEMMA ScheduledLane ==
  ASSUME IInv, NEW a \in Agents, NEW sched \in Schedules, NEW out \in Scheduled(a, sched)
  PROVE  out \in Lane /\ OneOfEachKind(out)
<1> DEFINE live == {k \in Slots : jobs[a][k] # NoJob}
<1>1. jobs[a] \in Lane
  BY DEF IInv, TypeOK, Table
<1>2. CASE out = EmptyLane
  BY <1>2 DEF EmptyLane, Lane, OneOfEachKind, Recurring
<1>3. CASE \E k \in Slots, j \in Job : out = [EmptyLane EXCEPT ![k] = j]
  BY <1>3 DEF EmptyLane, Lane, OneOfEachKind, Recurring
<1>4. \A j \in Job, same \in BOOLEAN : Rescheduled(j, sched, same) \in Job
  BY DEF Rescheduled, Job
<1>5. \A k \in live : jobs[a][k] \in Job /\ k \in Slots
  BY <1>1 DEF Lane
<1>6. Best(jobs[a], live) \subseteq live
  BY DEF Best
<1>7. CASE sched = "on_demand"
  BY <1>2, <1>7 DEF Scheduled
<1>8. CASE sched # "on_demand" /\ live = {}
  <2>1. out \in {[EmptyLane EXCEPT ![k] = NewJob(sched)] : k \in Fresh(a)}
    BY <1>8 DEF Scheduled
  <2> QED BY <1>3, <2>1, NewJobs DEF Fresh
<1>9. CASE sched # "on_demand" /\ live # {}
  <2>1. out \in {[EmptyLane EXCEPT ![k] = Rescheduled(jobs[a][k], sched, same)] :
                   k \in Best(jobs[a], live), same \in BOOLEAN}
    BY <1>9 DEF Scheduled
  <2> HIDE DEF live
  <2>2. PICK k \in Best(jobs[a], live), same \in BOOLEAN :
          out = [EmptyLane EXCEPT ![k] = Rescheduled(jobs[a][k], sched, same)]
    BY <2>1
  <2>3. k \in Slots /\ Rescheduled(jobs[a][k], sched, same) \in Job
    BY <1>4, <1>5, <1>6
  <2> QED BY <1>3, <2>2, <2>3
<1> QED BY <1>7, <1>8, <1>9

\* Schedule's commit keeps the invariant.
LEMMA ScheduleCommitInv ==
  ASSUME IInv, ScheduleCommit
  PROVE  IInv'
<1> DEFINE a == caller.agent
<1>1. /\ a \in Agents /\ caller.schedule \in Schedules
      /\ caller' = IdleCaller
      /\ UNCHANGED <<registry, activeAgents, workers, phase, sealed, unsettled>>
  BY DEF ScheduleCommit, IInv, PointersOK, TypeOK
<1>2. CASE AdmissionHeld(a) \/ a \in activeAgents
  <2>1. UNCHANGED <<jobs, disk, faults>>
    BY <1>2 DEF ScheduleCommit
  <2>2. caller'.pc = "idle" /\ caller' \in [pc : {"idle", "checked", "stored"},
                                           agent : Agents \cup {NoAgent}, schedule : Schedules]
    BY <1>1 DEF IdleCaller, Schedules
  <2>3. registry' \in [Agents -> YAML] /\ phase' \in {"down", "created", "running", "stopping", "drained"}
    BY <1>1 DEF IInv, TypeOK
  <2>4. phase' \in {"down", "drained"} => \A w \in Workers : ~Busy(w)
    BY <1>1 DEF IInv, LaneOwnership
  <2> HIDE DEF a
  <2> QED BY <1>1, <2>1, <2>2, <2>3, <2>4, FrameInv DEF Up
<1>3. CASE ~AdmissionHeld(a) /\ a \notin activeAgents
  <2>1. PICK lane \in Scheduled(a, caller.schedule) :
          jobs' = [jobs EXCEPT ![a] = lane] /\ SaveAttempt(jobs')
    BY <1>3 DEF ScheduleCommit
  <2>2. lane \in Lane /\ OneOfEachKind(lane)
    BY <1>1, <2>1, ScheduledLane
  <2>3. /\ jobs' \in Table /\ \A b \in Agents : OneOfEachKind(jobs'[b])
        /\ \A b \in Agents : b # a => jobs'[b] = jobs[b]
    BY <1>1, <2>1, <2>2 DEF IInv, TypeOK, Table, OnlyReactivatedFork
  <2>4. Up /\ ~sealed
    BY <1>3 DEF AdmissionHeld, ScheduleCommit, IInv, PointersOK
  <2>5. (disk' = disk \/ disk' = jobs') /\ faults' \in 0..MaxFaults
    BY <2>1, <2>3, AttemptFile
  <2>6. \A k \in Slots : <<a, k>> \notin unsettled
    BY <1>1, <1>3, <2>4, IdleIsSettled
  <2>7. \A b \in Agents, k \in Slots :
          <<b, k>> \in unsettled' /\ jobs[b][k] # NoJob /\ jobs[b][k].hold
            => jobs'[b][k] # NoJob /\ jobs'[b][k].hold
    BY <1>1, <2>3, <2>6
  <2>8. \A w \in Workers : Claims(workers[w]) =>
          LET j == jobs'[workers[w].agent][workers[w].slot] IN j # NoJob /\ j.inFlight
    BY <1>3, <2>3, ClaimFacts DEF Entry
  <2> HIDE DEF a
  <2> QED BY <1>1, <2>3, <2>4, <2>5, <2>7, <2>8, TableInv
<1> QED BY <1>2, <1>3

\* An entry that is put in place of an entry.
LEMMA PutFacts ==
  ASSUME IInv, NEW a \in Agents, NEW k \in Slots, NEW j \in Job \cup {NoJob},
         jobs' = [jobs EXCEPT ![a][k] = j]
  PROVE  /\ jobs' \in Table
         /\ jobs'[a][k] = j
         /\ \A b \in Agents, l \in Slots : b # a \/ l # k => jobs'[b][l] = jobs[b][l]
         /\ AddsNone(j, jobs[a][k]) => \A b \in Agents : OneOfEachKind(jobs'[b])
<1>1. /\ jobs' \in Table
      /\ jobs'[a][k] = j
      /\ \A b \in Agents, l \in Slots : b # a \/ l # k => jobs'[b][l] = jobs[b][l]
  BY PutTable DEF IInv, TypeOK, Table, Lane
<1>2. ASSUME AddsNone(j, jobs[a][k]), NEW b \in Agents
      PROVE  OneOfEachKind(jobs'[b])
  <2>1. \A l \in Slots : Recurring(jobs'[b], l) =>
          Recurring(jobs[b], l) /\ jobs'[b][l].manual = jobs[b][l].manual
    BY <1>1, <1>2 DEF Recurring, AddsNone, SameKind
  <2> QED BY <2>1 DEF OneOfEachKind, IInv, OnlyReactivatedFork
<1> QED BY <1>1, <1>2

\* RemoveJob keeps the invariant.
LEMMA RemoveJobInv ==
  ASSUME IInv, NEW a \in Agents, NEW k \in Slots, RemoveJob(a, k)
  PROVE  IInv'
<1>1. /\ Up /\ jobs[a][k] # NoJob /\ ~jobs[a][k].hold /\ ~jobs[a][k].inFlight
      /\ jobs' = [jobs EXCEPT ![a][k] = NoJob]
      /\ SaveAttempt(jobs')
      /\ UNCHANGED <<registry, activeAgents, workers, caller, phase, sealed, unsettled>>
  BY DEF RemoveJob, Exists, Removable
<1>2. /\ jobs' \in Table /\ \A b \in Agents : OneOfEachKind(jobs'[b])
      /\ \A b \in Agents, l \in Slots : b # a \/ l # k => jobs'[b][l] = jobs[b][l]
  BY <1>1, PutFacts DEF AddsNone
<1>3. (disk' = disk \/ disk' = jobs') /\ faults' \in 0..MaxFaults
  BY <1>1, <1>2, AttemptFile
<1>4. ~sealed
  BY <1>1 DEF IInv, SealedIsIdle, EmptyTable, EmptyLane
<1>5. \A w \in Workers : Claims(workers[w]) =>
        LET j == jobs'[workers[w].agent][workers[w].slot] IN j # NoJob /\ j.inFlight
  BY <1>1, <1>2, ClaimFacts DEF Entry
<1>6. \A b \in Agents, l \in Slots :
        <<b, l>> \in unsettled' /\ jobs[b][l] # NoJob /\ jobs[b][l].hold
          => jobs'[b][l] # NoJob /\ jobs'[b][l].hold
  BY <1>1, <1>2
<1> QED BY <1>1, <1>2, <1>3, <1>4, <1>5, <1>6, TableInv

\* ResolveRecovery keeps the invariant.
LEMMA ResolveRecoveryInv ==
  ASSUME IInv, NEW a \in Agents, NEW k \in Slots, ResolveRecovery(a, k)
  PROVE  IInv'
<1> DEFINE j == [jobs[a][k] EXCEPT !.hold = FALSE,
                                   !.active = jobs[a][k].schedule # "on_demand",
                                   !.due = ~(jobs[a][k].schedule # "on_demand")]
<1>1. /\ Up /\ jobs[a][k] # NoJob /\ a \notin activeAgents
      /\ Saved(jobs')
      /\ unsettled' = unsettled \ {<<a, k>>}
      /\ UNCHANGED <<registry, activeAgents, workers, caller, phase, sealed>>
  BY DEF ResolveRecovery, Exists
<1>2. jobs[a][k] \in Job
  BY <1>1 DEF IInv, TypeOK, Table, Lane
<1>3. j \in Job /\ SameKind(j, jobs[a][k])
  BY <1>2 DEF Job, SameKind
<1>4. jobs' = [jobs EXCEPT ![a][k] = j]
  BY <1>1, <1>2 DEF ResolveRecovery, IInv, TypeOK, Table, Lane
<1> HIDE DEF j
<1>5. /\ jobs' \in Table /\ \A b \in Agents : OneOfEachKind(jobs'[b])
      /\ \A b \in Agents, l \in Slots : b # a \/ l # k => jobs'[b][l] = jobs[b][l]
  <2>1. AddsNone(j, jobs[a][k])
    BY <1>1, <1>3 DEF AddsNone
  <2>2. j \in Job \cup {NoJob}
    BY <1>3
  <2>3. jobs' \in Table
    BY <1>4, <2>2, PutFacts
  <2>4. \A b \in Agents, l \in Slots : b # a \/ l # k => jobs'[b][l] = jobs[b][l]
    BY <1>4, <2>2, PutFacts
  <2>5. \A b \in Agents : OneOfEachKind(jobs'[b])
    BY <1>4, <2>1, <2>2, PutFacts
  <2> QED BY <2>3, <2>4, <2>5
<1>6. disk' = jobs' /\ faults' \in 0..MaxFaults
  BY <1>1 DEF Saved, IInv, TypeOK
<1>7. ~sealed
  BY <1>1 DEF IInv, SealedIsIdle, EmptyTable, EmptyLane
<1>8. \A w \in Workers : Claims(workers[w]) =>
        LET i == jobs'[workers[w].agent][workers[w].slot] IN i # NoJob /\ i.inFlight
  BY <1>1, <1>5, ClaimFacts DEF Entry
<1>9. \A b \in Agents, l \in Slots :
        <<b, l>> \in unsettled' /\ jobs[b][l] # NoJob /\ jobs[b][l].hold
          => jobs'[b][l] # NoJob /\ jobs'[b][l].hold
  BY <1>1, <1>5
<1> QED BY <1>1, <1>5, <1>6, <1>7, <1>8, <1>9, TableInv

\* The passing of NextRun keeps the invariant.
LEMMA SlotComesDueInv ==
  ASSUME IInv, NEW a \in Agents, NEW k \in Slots, SlotComesDue(a, k)
  PROVE  IInv'
<1> DEFINE j == [jobs[a][k] EXCEPT !.due = TRUE]
<1>1. /\ jobs[a][k] # NoJob
      /\ UNCHANGED <<registry, disk, activeAgents, workers, caller, phase, sealed, unsettled, faults>>
  BY DEF SlotComesDue, Exists
<1>2. jobs[a][k] \in Job
  BY <1>1 DEF IInv, TypeOK, Table, Lane
<1>3. /\ j \in Job /\ j # NoJob
      /\ SameKind(j, jobs[a][k]) /\ j.hold = jobs[a][k].hold /\ j.inFlight = jobs[a][k].inFlight
  BY <1>2, ConstantsOK DEF Job, SameKind
<1>4. jobs' = [jobs EXCEPT ![a][k] = j]
  BY <1>1, <1>2 DEF SlotComesDue, IInv, TypeOK, Table, Lane
<1> HIDE DEF j
<1>5. /\ jobs' \in Table /\ \A b \in Agents : OneOfEachKind(jobs'[b])
      /\ jobs'[a][k] = j
      /\ \A b \in Agents, l \in Slots : b # a \/ l # k => jobs'[b][l] = jobs[b][l]
  <2>1. AddsNone(j, jobs[a][k])
    BY <1>1, <1>3 DEF AddsNone
  <2>2. /\ jobs' \in Table /\ \A b \in Agents : OneOfEachKind(jobs'[b])
        /\ \A b \in Agents, l \in Slots : b # a \/ l # k => jobs'[b][l] = jobs[b][l]
    BY <1>3, <1>4, <2>1, PutFacts
  <2>3. jobs'[a][k] = j
    BY <1>4 DEF IInv, TypeOK, Table, Lane
  <2> QED BY <2>2, <2>3
<1>6. faults' \in 0..MaxFaults /\ disk' = disk
  BY <1>1 DEF IInv, TypeOK
<1>7. ~sealed /\ Up
  BY <1>1 DEF IInv, SealedIsIdle, EmptyTable, EmptyLane
<1>8. \A w \in Workers : Claims(workers[w]) =>
        LET i == jobs'[workers[w].agent][workers[w].slot] IN i # NoJob /\ i.inFlight
  BY <1>3, <1>5, ClaimFacts DEF Entry
<1>9. \A b \in Agents, l \in Slots :
        <<b, l>> \in unsettled' /\ jobs[b][l] # NoJob /\ jobs[b][l].hold
          => jobs'[b][l] # NoJob /\ jobs'[b][l].hold
  BY <1>3, <1>5
<1> QED BY <1>1, <1>5, <1>6, <1>7, <1>8, <1>9, TableInv

-----------------------------------------------------------------------------
(* Admission.                                                               *)

\* An admission of an idle lane keeps the invariant.
LEMMA AdmitInv ==
  ASSUME IInv, NEW a \in Agents, NEW k \in Slots, NEW w \in Workers, NEW j \in Job,
         NEW f \in WorkerType,
         phase \notin {"down", "drained"}, ~AdmissionHeld(a), LaneFree(a), ~Busy(w),
         f.agent = a, f.slot = k, f.pc \in {"admitted", "running"},
         j.inFlight, AddsNone(j, jobs[a][k]),
         jobs' = [jobs EXCEPT ![a][k] = j],
         workers' = [workers EXCEPT ![w] = f],
         activeAgents' = activeAgents \cup {a},
         UNCHANGED <<registry, caller, phase, sealed>>,
         faults' \in 0..MaxFaults,
         \/ disk' = disk /\ unsettled' = unsettled
         \/ disk' = jobs' /\ unsettled' = unsettled \cup {<<a, k>>} /\ f.pc = "running"
  PROVE  IInv'
<1>1. /\ jobs' \in Table
      /\ \A b \in Agents, l \in Slots : b # a \/ l # k => jobs'[b][l] = jobs[b][l]
      /\ \A b \in Agents : OneOfEachKind(jobs'[b])
  <2>1. jobs' = [jobs EXCEPT ![a][k] = j] /\ j \in Job \cup {NoJob}
    OBVIOUS
  <2>2. /\ jobs' \in Table
        /\ \A b \in Agents, l \in Slots : b # a \/ l # k => jobs'[b][l] = jobs[b][l]
    BY PutTable DEF IInv, TypeOK, Table, Lane
  <2>3. \A b \in Agents : OneOfEachKind(jobs'[b])
    BY <2>1, PutFacts
  <2> QED BY <2>2, <2>3
<1>2. jobs'[a][k] = j /\ j # NoJob
  BY ConstantsOK DEF IInv, TypeOK, Table, Lane
<1>3. workers \in [Workers -> WorkerType]
  BY DEF IInv, TypeOK, WorkerType
<1>4. /\ workers'[w] = f
      /\ \A v \in Workers : v # w => workers'[v] = workers[v]
  BY <1>3
<1>5. \A v \in Workers : Busy(v) => workers[v].agent \in activeAgents /\ workers[v].agent # a
  BY DEF IInv, LaneOwnership, LaneFree
<1>6. Up /\ ~sealed /\ Up' /\ ~sealed'
  BY DEF Up, AdmissionHeld
<1>7. f.pc # "free" /\ Claims(f)
  BY DEF Claims
<1>8. TypeOK'
  <2>1. workers' \in [Workers -> WorkerType]
    BY <1>3
  <2>2. disk' \in Table /\ unsettled' \in SUBSET (Agents \X Slots) /\ activeAgents' \in SUBSET Agents
    <3>1. disk' \in Table /\ activeAgents' \in SUBSET Agents
      BY <1>1 DEF IInv, TypeOK
    <3>2. unsettled \in SUBSET (Agents \X Slots) /\ <<a, k>> \in Agents \X Slots
      BY DEF IInv, TypeOK
    <3> QED BY <3>1, <3>2
  <2> QED BY <1>1, <2>1, <2>2 DEF IInv, TypeOK, WorkerType
<1>9. PointersOK'
  <2>1. ASSUME NEW v \in Workers
        PROVE  IF workers'[v].pc # "free" THEN workers'[v].agent \in Agents /\ workers'[v].slot \in Slots
                                          ELSE workers'[v] = FreeWorker
    <3>1. CASE v = w
      BY <1>4, <1>7, <3>1
    <3>2. CASE v # w
      BY <1>4, <3>2 DEF IInv, PointersOK, Busy
    <3> QED BY <3>1, <3>2
  <2> QED BY <2>1 DEF IInv, PointersOK, Busy, Up
<1>10. LaneOwnership'
  <2>1. IsFiniteSet(activeAgents') /\ Cardinality(activeAgents') <= MaxConcurrent
    <3>1. IsFiniteSet(activeAgents) /\ Cardinality(activeAgents) \in Nat
      BY FS_CardinalityType DEF IInv, LaneOwnership
    <3>2. Cardinality(activeAgents') = Cardinality(activeAgents) + 1 /\ IsFiniteSet(activeAgents')
      BY <3>1, FS_AddElement DEF LaneFree
    <3>3. Cardinality(activeAgents) < MaxConcurrent /\ MaxConcurrent \in Int
      BY ConstantsOK DEF LaneFree
    <3> QED BY <3>1, <3>2, <3>3
  <2>2. \A v \in Workers : workers'[v].pc # "free" => workers'[v].agent \in activeAgents'
    BY <1>4, <1>5 DEF Busy
  <2>3. \A u, v \in Workers : workers'[u].pc # "free" /\ workers'[v].pc # "free" /\ u # v
                             => workers'[u].agent # workers'[v].agent
    BY <1>4, <1>5 DEF IInv, LaneOwnership, Busy
  <2> QED BY <2>1, <2>2, <2>3 DEF LaneOwnership, Busy
<1>11. SealedIsIdle'
  BY <1>6 DEF SealedIsIdle
<1>12. ClaimIsInFlight'
  <2> SUFFICES ASSUME NEW v \in Workers, Claims(workers'[v])
               PROVE  LET i == jobs'[workers'[v].agent][workers'[v].slot] IN i # NoJob /\ i.inFlight
    BY DEF ClaimIsInFlight, Claims
  <2>1. CASE v = w
    BY <1>2, <1>4, <2>1
  <2>2. CASE v # w
    <3>1. /\ workers'[v] = workers[v] /\ Busy(v) /\ workers[v].agent # a
          /\ workers[v].agent \in Agents /\ workers[v].slot \in Slots
      BY <1>4, <1>5, <2>2 DEF Claims, Busy, IInv, PointersOK
    <3> QED BY <1>1, <3>1 DEF IInv, ClaimIsInFlight, Claims
  <2> QED BY <2>1, <2>2
<1>13. OnlyReactivatedFork' /\ OnlyReactivatedForkOnDisk'
  BY <1>1 DEF IInv, OnlyReactivatedFork, OnlyReactivatedForkOnDisk
<1>14. UnsettledIsOwned'
  <2> SUFFICES ASSUME NEW u \in unsettled'
               PROVE  \/ jobs'[u[1]][u[2]] # NoJob /\ jobs'[u[1]][u[2]].hold
                      \/ \E v \in Workers : Runs(workers'[v]) /\ workers'[v].agent = u[1]
                                                             /\ workers'[v].slot = u[2]
    BY DEF UnsettledIsOwned, Executing, Runs
  <2>1. CASE u \in unsettled
    <3>1. u \in Agents \X Slots
      BY <2>1 DEF IInv, TypeOK
    <3>2. u[1] \in Agents /\ u[2] \in Slots /\ u = <<u[1], u[2]>>
      BY <3>1
    <3>3. u[1] # a
      BY <1>6, <2>1, <3>2, IdleIsSettled DEF LaneFree
    <3>4. jobs'[u[1]][u[2]] = jobs[u[1]][u[2]]
      BY <1>1, <3>2, <3>3
    <3>5. CASE jobs[u[1]][u[2]] # NoJob /\ jobs[u[1]][u[2]].hold
      BY <3>4, <3>5
    <3>6. CASE \E v \in Workers : Executing(v) /\ workers[v].agent = u[1] /\ workers[v].slot = u[2]
      <4>1. PICK v \in Workers : Executing(v) /\ workers[v].agent = u[1] /\ workers[v].slot = u[2]
        BY <3>6
      <4>2. v # w
        BY <4>1 DEF Executing, Busy
      <4> QED BY <1>4, <4>1, <4>2 DEF Executing, Runs
    <3> QED BY <1>6, <2>1, <3>5, <3>6 DEF IInv, UnsettledIsOwned
  <2>2. CASE u \notin unsettled
    <3>1. u = <<a, k>> /\ f.pc = "running"
      BY <2>2
    <3> QED BY <1>4, <3>1 DEF Runs
  <2> QED BY <2>1, <2>2
<1>15. DurableEvidence'
  <2>1. CASE disk' = disk /\ unsettled' = unsettled
    BY <2>1 DEF IInv, DurableEvidence
  <2>2. CASE disk' = jobs'
    BY <1>6, <1>12, <1>14, <2>2, SavedEvidence
  <2> QED BY <2>1, <2>2
<1> QED BY <1>8, <1>9, <1>10, <1>11, <1>12, <1>13, <1>14, <1>15 DEF IInv

\* RunNow keeps the invariant.
LEMMA RunNowInv ==
  ASSUME IInv, NEW a \in Agents, NEW k \in Slots, NEW w \in Workers, RunNow(a, k, w)
  PROVE  IInv'
<1> DEFINE f == [pc |-> "running", agent |-> a, slot |-> k, manual |-> TRUE, clean |-> FALSE]
<1>1. f \in WorkerType /\ f.agent = a /\ f.slot = k /\ f.pc = "running"
  BY DEF WorkerType, WorkerPC
<1>2. ManualJob \in Job /\ ManualJob.inFlight /\ AddsNone(ManualJob, jobs[a][k])
  BY NewJobs DEF ManualJob, AddsNone
<1>3. phase \notin {"down", "drained"}
  BY DEF RunNow, Up
<1>4. disk' = jobs' /\ faults' \in 0..MaxFaults
  BY DEF RunNow, Saved, IInv, TypeOK
<1> QED BY <1>1, <1>2, <1>3, <1>4, AdmitInv DEF RunNow

\* tick keeps the invariant.
LEMMA TickInv ==
  ASSUME IInv, NEW a \in Agents, NEW k \in Slots, NEW w \in Workers, Tick(a, k, w)
  PROVE  IInv'
<1> DEFINE f == [pc |-> "admitted", agent |-> a, slot |-> k, manual |-> FALSE, clean |-> FALSE]
           j == [jobs[a][k] EXCEPT !.inFlight = TRUE]
<1>1. f \in WorkerType /\ f.agent = a /\ f.slot = k /\ f.pc = "admitted"
  BY DEF WorkerType, WorkerPC
<1>2. jobs[a][k] # NoJob /\ jobs[a][k] \in Job
  BY DEF Tick, Exists, IInv, TypeOK, Table, Lane
<1>3. j \in Job /\ SameKind(j, jobs[a][k]) /\ j.inFlight
  BY <1>2 DEF Job, SameKind
<1>4. jobs' = [jobs EXCEPT ![a][k] = j]
  BY <1>2 DEF Tick, IInv, TypeOK, Table, Lane
<1>5. AddsNone(j, jobs[a][k])
  BY <1>2, <1>3 DEF AddsNone
<1>6. phase \notin {"down", "drained"}
  BY DEF Tick
<1>7. disk' = disk /\ unsettled' = unsettled /\ faults' \in 0..MaxFaults
  BY DEF Tick, IInv, TypeOK
<1> HIDE DEF j
<1> QED BY <1>1, <1>3, <1>4, <1>5, <1>6, <1>7, AdmitInv DEF Tick

-----------------------------------------------------------------------------
(* The process.                                                             *)

\* A crash or an exit keeps the invariant: the file holds the evidence.
LEMMA MemoryLostInv ==
  ASSUME IInv, MemoryLost, faults' \in 0..MaxFaults
  PROVE  IInv'
<1>1. /\ phase' = "down" /\ jobs' = EmptyTable /\ activeAgents' = {} /\ sealed' = FALSE
      /\ workers' = [w \in Workers |-> FreeWorker] /\ caller' = IdleCaller
      /\ UNCHANGED <<registry, disk, unsettled>>
  BY DEF MemoryLost
<1>2. /\ workers' \in [Workers -> WorkerType]
      /\ \A w \in Workers : workers'[w] = FreeWorker /\ workers'[w].pc = "free"
  BY <1>1 DEF FreeWorker, WorkerType, WorkerPC
<1>3. TypeOK'
  <2>1. caller' \in [pc : {"idle", "checked", "stored"}, agent : Agents \cup {NoAgent},
                     schedule : Schedules]
    BY <1>1 DEF IdleCaller, Schedules
  <2> QED BY <1>1, <1>2, <2>1, EmptyIsTable DEF IInv, TypeOK, WorkerType
<1>4. PointersOK'
  BY <1>1, <1>2 DEF PointersOK, Busy, IdleCaller
<1>5. LaneOwnership'
  <2>1. IsFiniteSet({}) /\ Cardinality({}) = 0
    BY FS_EmptySet
  <2> QED BY <1>1, <1>2, <2>1, ConstantsOK DEF LaneOwnership, Busy
<1>6. SealedIsIdle' /\ UnsettledIsOwned'
  BY <1>1, <1>2 DEF SealedIsIdle, UnsettledIsOwned, Up, Busy
<1>7. ClaimIsInFlight'
  BY <1>2 DEF ClaimIsInFlight
<1>8. OnlyReactivatedFork' /\ OnlyReactivatedForkOnDisk'
  BY <1>1 DEF OnlyReactivatedFork, OnlyReactivatedForkOnDisk, IInv, EmptyTable, EmptyLane, OneOfEachKind, Recurring
<1>9. DurableEvidence'
  BY <1>1 DEF IInv, DurableEvidence
<1> QED BY <1>3, <1>4, <1>5, <1>6, <1>7, <1>8, <1>9 DEF IInv

\* NewScheduler keeps the invariant: what the file marks in flight is held.
LEMMA RestartInv ==
  ASSUME IInv, Restart
  PROVE  IInv'
<1>1. /\ phase = "down" /\ phase' = "created"
      /\ UNCHANGED <<registry, activeAgents, workers, caller, unsettled>>
      /\ \A w \in Workers : workers[w].pc = "free"
  BY DEF Restart, IInv, LaneOwnership, Busy
<1>2. CASE /\ sealed' = FALSE
           /\ \E t \in Reconciled(Load(disk), [a \in Agents |-> {k \in Slots : disk[a][k] = NoJob}]) :
                jobs' = t /\ SaveAttempt(t)
  <2>1. /\ jobs' \in Table
        /\ \A a \in Agents : OneOfEachKind(jobs'[a])
        /\ \A a \in Agents, k \in Slots :
             disk[a][k] # NoJob /\ (disk[a][k].hold \/ disk[a][k].inFlight)
               => jobs'[a][k] # NoJob /\ jobs'[a][k].hold
        /\ SaveAttempt(jobs')
    BY <1>2, RestartTable DEF IInv
  <2>2. (disk' = disk \/ disk' = jobs') /\ faults' \in 0..MaxFaults
    BY <2>1, AttemptFile
  <2>3. TypeOK'
    BY <1>1, <1>2, <2>1, <2>2 DEF IInv, TypeOK
  <2>4. PointersOK' /\ LaneOwnership'
    BY <1>1 DEF IInv, PointersOK, LaneOwnership, Busy, Up
  <2>5. SealedIsIdle' /\ ClaimIsInFlight'
    BY <1>1, <1>2 DEF SealedIsIdle, ClaimIsInFlight, Up
  <2>6. OnlyReactivatedFork' /\ OnlyReactivatedForkOnDisk'
    BY <2>1, <2>2 DEF IInv, OnlyReactivatedFork, OnlyReactivatedForkOnDisk
  <2>7. UnsettledIsOwned'
    <3> SUFFICES ASSUME NEW u \in unsettled'
                 PROVE  jobs'[u[1]][u[2]] # NoJob /\ jobs'[u[1]][u[2]].hold
      BY DEF UnsettledIsOwned
    <3>1. u \in unsettled /\ u \in Agents \X Slots
      BY <1>1 DEF IInv, TypeOK
    <3>2. LET j == disk[u[1]][u[2]] IN j # NoJob /\ (j.inFlight \/ j.hold)
      BY <3>1 DEF IInv, DurableEvidence
    <3> QED BY <2>1, <3>1, <3>2
  <2>8. DurableEvidence'
    <3>1. CASE disk' = disk
      BY <1>1, <3>1 DEF IInv, DurableEvidence
    <3>2. CASE disk' = jobs'
      BY <1>1, <1>2, <2>5, <2>7, <3>2, SavedEvidence DEF Up
    <3> QED BY <2>2, <3>1, <3>2
  <2> QED BY <2>3, <2>4, <2>5, <2>6, <2>7, <2>8 DEF IInv
<1>3. CASE /\ faults < MaxFaults /\ faults' = faults + 1
           /\ sealed' = TRUE /\ UNCHANGED <<jobs, disk>>
  <2>1. TypeOK'
    BY <1>1, <1>3, ConstantsOK DEF IInv, TypeOK
  <2>2. PointersOK' /\ LaneOwnership'
    BY <1>1 DEF IInv, PointersOK, LaneOwnership, Busy, Up
  <2>3. SealedIsIdle' /\ ClaimIsInFlight'
    BY <1>1, <1>3 DEF IInv, SealedIsIdle, ClaimIsInFlight, Busy, Up, EmptyTable, EmptyLane
  <2>4. OnlyReactivatedFork' /\ OnlyReactivatedForkOnDisk'
    BY <1>3 DEF IInv, OnlyReactivatedFork, OnlyReactivatedForkOnDisk
  <2>5. UnsettledIsOwned' /\ DurableEvidence'
    BY <1>1, <1>3 DEF IInv, UnsettledIsOwned, DurableEvidence
  <2> QED BY <2>1, <2>2, <2>3, <2>4, <2>5 DEF IInv
<1> QED BY <1>2, <1>3 DEF Restart

\* Registry edits, Schedule's first two sections, Start, Stop and Drain keep the invariant.
LEMMA FrameStepsInv ==
  ASSUME IInv,
         \/ \E a \in Agents, sched \in Edits : EditRegistry(a, sched)
         \/ \E a \in Agents, sched \in Requests : ScheduleCheck(a, sched)
         \/ ScheduleUpdateYAML \/ Start \/ Stop \/ Drain
         \/ UNCHANGED vars
  PROVE  IInv'
<1>1. UNCHANGED <<jobs, disk, activeAgents, workers, sealed, unsettled, faults>>
  BY DEF EditRegistry, ScheduleCheck, ScheduleUpdateYAML, Start, Stop, Drain, vars
<1>2. /\ registry \in [Agents -> YAML] /\ Edits \subseteq YAML /\ Schedules \subseteq YAML
      /\ Requests \subseteq Schedules /\ caller.schedule \in Schedules
  BY ConstantsOK DEF IInv, TypeOK, YAML, Registered
<1>3. registry' \in [Agents -> YAML]
  BY <1>2 DEF EditRegistry, ScheduleCheck, ScheduleUpdateYAML, Start, Stop, Drain, vars
<1>4. /\ caller' \in [pc : {"idle", "checked", "stored"}, agent : Agents \cup {NoAgent},
                      schedule : Schedules]
      /\ caller'.pc # "idle" => Up' /\ caller'.agent \in Agents
  <2>1. CASE UNCHANGED <<caller, phase>>
    BY <2>1 DEF IInv, TypeOK, PointersOK, Up
  <2>2. CASE \E a \in Agents, sched \in Requests : ScheduleCheck(a, sched)
    BY <1>2, <2>2 DEF ScheduleCheck, Up
  <2>3. CASE ScheduleUpdateYAML
    BY <2>3 DEF ScheduleUpdateYAML, IdleCaller, Schedules, IInv, TypeOK, PointersOK, Up
  <2>4. CASE Start \/ Stop \/ Drain
    BY <2>4 DEF Start, Stop, Drain, IInv, TypeOK, PointersOK, Up
  <2> QED BY <2>1, <2>2, <2>3, <2>4 DEF EditRegistry, vars
<1>5. /\ phase' \in {"down", "created", "running", "stopping", "drained"}
      /\ Up' <=> Up
      /\ phase' \in {"down", "drained"} => \A w \in Workers : ~Busy(w)
  BY DEF EditRegistry, ScheduleCheck, ScheduleUpdateYAML, Start, Stop, Drain, vars, Up,
         IInv, TypeOK, LaneOwnership
<1> QED BY <1>1, <1>3, <1>4, <1>5, FrameInv

\* The invariant holds before the first start.
LEMMA InitInv == Init => IInv
<1> SUFFICES ASSUME Init PROVE IInv
  OBVIOUS
<1>1. \A w \in Workers : workers[w] = FreeWorker /\ FreeWorker.pc = "free"
  BY DEF Init, FreeWorker
<1>2. TypeOK
  <2>1. workers \in [Workers -> WorkerType]
    BY DEF Init, FreeWorker, WorkerType, WorkerPC
  <2>2. caller \in [pc : {"idle", "checked", "stored"}, agent : Agents \cup {NoAgent},
                    schedule : Schedules]
    BY DEF Init, IdleCaller, Schedules
  <2>3. registry \in [Agents -> YAML]
    BY DEF Init, YAML, Registered
  <2>4. faults \in 0..MaxFaults
    BY ConstantsOK DEF Init
  <2> QED BY <2>1, <2>2, <2>3, <2>4, EmptyIsTable DEF Init, TypeOK, WorkerType
<1>3. PointersOK
  BY <1>1 DEF Init, PointersOK, Busy, IdleCaller
<1>4. LaneOwnership
  <2>1. IsFiniteSet({}) /\ Cardinality({}) = 0
    BY FS_EmptySet
  <2> QED BY <1>1, <2>1, ConstantsOK DEF Init, LaneOwnership, Busy
<1>5. SealedIsIdle /\ ClaimIsInFlight
  BY <1>1 DEF Init, SealedIsIdle, ClaimIsInFlight, Busy
<1>6. OnlyReactivatedFork /\ OnlyReactivatedForkOnDisk
  BY DEF Init, OnlyReactivatedFork, OnlyReactivatedForkOnDisk, EmptyTable, EmptyLane, OneOfEachKind, Recurring
<1>7. UnsettledIsOwned /\ DurableEvidence
  BY DEF Init, UnsettledIsOwned, DurableEvidence
<1> QED BY <1>2, <1>3, <1>4, <1>5, <1>6, <1>7 DEF IInv

\* Every step keeps the invariant.
LEMMA NextInv == IInv /\ [Next]_vars => IInv'
<1> SUFFICES ASSUME IInv, [Next]_vars PROVE IInv'
  OBVIOUS
<1>1. CASE Operator
  BY <1>1, FrameStepsInv, ScheduleCommitInv, RemoveJobInv, ResolveRecoveryInv DEF Operator
<1>2. CASE Admission
  BY <1>2, RunNowInv, TickInv, SlotComesDueInv DEF Admission
<1>3. CASE \E w \in Workers : WorkerStep(w)
  BY <1>3, WorkerInv
<1>4. CASE Process
  <2>1. CASE Exit \/ Crash
    <3>1. MemoryLost /\ faults' \in 0..MaxFaults
      BY <2>1, ConstantsOK DEF Exit, Crash, IInv, TypeOK
    <3> QED BY <3>1, MemoryLostInv
  <2> QED BY <1>4, <2>1, ReconcileInv, RestartInv, FrameStepsInv DEF Process
<1>5. CASE UNCHANGED vars
  BY <1>5, FrameStepsInv
<1> QED BY <1>1, <1>2, <1>3, <1>4, <1>5 DEF Next

\* The strengthened invariant holds in every reachable state.
THEOREM Inductive == Spec => []IInv
  BY InitInv, NextInv, PTL DEF Spec

-----------------------------------------------------------------------------
(* What follows.                                                            *)

\* Type correctness of the scheduler's state.
THEOREM TypeCorrect == Spec => []TypeOK
<1>1. IInv => TypeOK
  BY DEF IInv
<1> QED BY <1>1, Inductive, PTL

\* A dispatched execution whose end was not recorded is marked in
\* scheduler-jobs.json whatever failed since (runJob's save before dispatch).
THEOREM EvidenceSurvives == Spec => []DurableEvidence
<1>1. IInv => DurableEvidence
  BY DEF IInv
<1> QED BY <1>1, Inductive, PTL

\* It is running or held in every process that could read its file (loadState).
THEOREM UnsettledOwned == Spec => []UnsettledIsOwned
<1>1. IInv => UnsettledIsOwned
  BY DEF IInv
<1> QED BY <1>1, Inductive, PTL

\* Edits, Schedule's dedup and ReconcileWithRegistry leave an agent at most one
\* recurring job that is not Manual, and at most one that is: two only when
\* Schedule gave a resolved manual job an interval.
THEOREM ForksAreReactivated == Spec => []OnlyReactivatedFork
<1>1. IInv => OnlyReactivatedFork
  BY DEF IInv
<1> QED BY <1>1, Inductive, PTL

\* One execution per agent, at most MaxConcurrent in all, none after Stop.
THEOREM LanesExclude == Spec => []LaneExclusion
<1>1. IInv => LaneExclusion
  <2> SUFFICES ASSUME IInv PROVE LaneExclusion
    OBVIOUS
  <2> DEFINE B == {w \in Workers : Busy(w)}
             lane == [w \in B |-> workers[w].agent]
  <2>1. IsFiniteSet(activeAgents) /\ Cardinality(activeAgents) <= MaxConcurrent
    BY DEF IInv, LaneOwnership
  <2>2. lane \in Injection(B, activeAgents)
    <3>1. lane \in [B -> activeAgents]
      BY DEF IInv, LaneOwnership
    <3>2. \A v, w \in B : lane[v] = lane[w] => v = w
      BY DEF IInv, LaneOwnership
    <3> HIDE DEF B, lane
    <3> QED BY <3>1, <3>2 DEF Injection, IsInjective
  <2>3. IsFiniteSet(B) /\ Cardinality(B) <= Cardinality(activeAgents)
    <3> HIDE DEF B, lane
    <3> QED BY <2>1, <2>2, FS_Injection
  <2>4. Cardinality(B) \in Nat /\ Cardinality(activeAgents) \in Nat
    BY <2>1, <2>3, FS_CardinalityType
  <2>5. Cardinality(B) <= MaxConcurrent
    BY <2>1, <2>3, <2>4, ConstantsOK
  <2> QED BY <2>5 DEF LaneExclusion, IInv, LaneOwnership
<1> QED BY <1>1, Inductive, PTL

Replays == \E w \in Workers, k \in Slots :
             /\ workers[w].pc # "running" /\ workers'[w].pc = "running"
             /\ <<workers'[w].agent, k>> \in unsettled

\* runJob's dispatch replays nothing.
LEMMA DispatchIsNoReplay ==
  ASSUME IInv, NEW w \in Workers, WorkerStep(w)
  PROVE  ~Replays
<1>1. PICK f \in WorkerType :
        /\ workers' = [workers EXCEPT ![w] = f]
        /\ f = FreeWorker \/ (f.pc # "free" /\ f.agent = workers[w].agent)
  BY WorkerMoves DEF IInv
<1>2. workers'[w] = f /\ \A v \in Workers : v # w => workers'[v] = workers[v]
  BY <1>1 DEF IInv, TypeOK
<1> SUFFICES ASSUME NEW k \in Slots, workers[w].pc # "running", f.pc = "running",
                    <<f.agent, k>> \in unsettled
             PROVE  FALSE
  BY <1>2 DEF Replays
<1>3. Dispatch(w)
  BY <1>2 DEF WorkerStep, Lookup, AfterLookup, RunnerReturns, Settle, SettleManual, Report, WorkerPanics,
         Close, Release, GoTo, FreeWorker, IInv, TypeOK
<1>4. f.agent = workers[w].agent
  BY <1>1 DEF FreeWorker
<1>5. workers[w].pc = "ready" /\ ~AdmissionHeld(workers[w].agent)
  BY <1>2, <1>3 DEF Dispatch, GoTo, IInv, TypeOK
<1>6. Busy(w) /\ Up /\ ~sealed
  BY <1>5, WorkerFacts DEF Busy
<1>7. \/ jobs[f.agent][k] # NoJob /\ jobs[f.agent][k].hold
      \/ \E v \in Workers : Executing(v) /\ workers[v].agent = f.agent
  BY <1>6 DEF IInv, UnsettledIsOwned
<1>8. \A v \in Workers : Executing(v) /\ workers[v].agent = f.agent => v = w
  BY <1>4, <1>6 DEF IInv, LaneOwnership, Executing, Busy
<1> QED BY <1>4, <1>5, <1>7, <1>8 DEF AdmissionHeld, Held, Executing

\* No runner is called for an agent with an execution whose end is unknown.
THEOREM NothingIsReplayed == Spec => NoReplay
<1>1. IInv /\ [Next]_vars => ~Replays
  <2> SUFFICES ASSUME IInv, [Next]_vars PROVE ~Replays
    OBVIOUS
  <2>1. CASE UNCHANGED workers
    BY <2>1 DEF Replays
  <2>2. CASE MemoryLost
    BY <2>2 DEF MemoryLost, Replays, FreeWorker
  <2>3. CASE \E w \in Workers : WorkerStep(w)
    BY <2>3, DispatchIsNoReplay
  <2>4. CASE \E a \in Agents, k \in Slots, w \in Workers : Tick(a, k, w)
    <3>1. PICK a \in Agents, k \in Slots, w \in Workers : Tick(a, k, w)
      BY <2>4
    <3>2. \A v \in Workers : IF v = w THEN workers'[v].pc = "admitted" ELSE workers'[v] = workers[v]
      BY <3>1 DEF Tick, IInv, TypeOK
    <3> QED BY <3>2 DEF Replays
  <2>5. CASE \E a \in Agents, k \in Slots, w \in Workers : RunNow(a, k, w)
    <3>1. PICK a \in Agents, k \in Slots, w \in Workers : RunNow(a, k, w)
      BY <2>5
    <3>2. \A l \in Slots : <<a, l>> \notin unsettled
      BY <3>1, IdleIsSettled DEF RunNow, LaneFree
    <3>3. /\ workers'[w].agent = a
          /\ \A v \in Workers : v # w => workers'[v] = workers[v]
      BY <3>1 DEF RunNow, IInv, TypeOK
    <3> QED BY <3>2, <3>3 DEF Replays
  <2> QED BY <2>1, <2>2, <2>3, <2>4, <2>5
          DEF Next, Operator, Admission, Process, EditRegistry, ScheduleCheck, ScheduleUpdateYAML,
              ScheduleCommit, RemoveJob, ResolveRecovery, SlotComesDue, Reconcile, Start, Stop, Drain,
              Exit, Crash, Restart, vars
<1>2. ~Replays => \A w \in Workers :
        workers[w].pc # "running" /\ workers'[w].pc = "running"
          => \A k \in Slots : <<workers'[w].agent, k>> \notin unsettled
  BY DEF Replays
<1> QED BY <1>1, <1>2, Inductive, PTL DEF Spec, NoReplay

-----------------------------------------------------------------------------
(* Holds and in-flight markers: who may set them, and who clears them.      *)

Marked(t, a, k) == t[a][k] # NoJob /\ t[a][k].inFlight
At(w, a, k) == Busy(w) /\ workers[w].agent = a /\ workers[w].slot = k

\* A worker that still has a claim was admitted to a lane without holds, and
\* nobody else sets one there.
ClaimedLaneIsUnheld == \A w \in Workers : Claims(workers[w]) => ~Held(jobs, workers[w].agent)

\* A worker that only has its lane left to release has cleared its marker.
ReleasingIsDone ==
  \A w \in Workers : workers[w].pc = "releasing" => ~Marked(jobs, workers[w].agent, workers[w].slot)

\* Without faults a marker in the file has a worker that will still save.
MarksAreWorked ==
  faults = 0 => \A a \in Agents, k \in Slots :
    Marked(disk, a, k) => \E w \in Workers : At(w, a, k) /\ workers[w].pc # "releasing"

Tidy == ClaimedLaneIsUnheld /\ NoStrandedJob /\ ReleasingIsDone /\ MarksAreWorked

\* A step keeps the holds of the table, but for the one the operator resolves.
HoldsKept ==
  \A a \in Agents, k \in Slots :
    Holds(jobs, a, k) /\ phase' # "down" => Holds(jobs', a, k) \/ ResolveRecovery(a, k)

\* Where the table is saved every marker in the file is one of a worker that
\* has not cleared it.
LEMMA SavedMarks ==
  ASSUME NoStrandedJob', ReleasingIsDone', disk' = jobs'
  PROVE  MarksAreWorked'
<1> SUFFICES ASSUME NEW a \in Agents, NEW k \in Slots, Marked(jobs', a, k)
             PROVE  \E w \in Workers : At(w, a, k)' /\ workers'[w].pc # "releasing"
  BY DEF MarksAreWorked
<1>1. PICK w \in Workers : At(w, a, k)'
  BY DEF NoStrandedJob, Marked, At
<1> QED BY <1>1 DEF ReleasingIsDone, At

\* A change of the table that marks and holds nothing new, with the workers as
\* they were, keeps the markers tidy.
LEMMA TableTidy ==
  ASSUME IInv, Tidy, workers' = workers,
         faults' = 0 => faults = 0,
         disk' = disk \/ disk' = jobs' \/ faults' # 0,
         \A a \in Agents, k \in Slots : Marked(jobs', a, k) => Marked(jobs, a, k),
         \A a \in Agents : Held(jobs', a) => Held(jobs, a) \/ a \notin activeAgents
  PROVE  Tidy'
<1>1. ClaimedLaneIsUnheld'
  BY ClaimFacts DEF Tidy, ClaimedLaneIsUnheld
<1>2. NoStrandedJob'
  BY DEF Tidy, NoStrandedJob, Marked, Busy
<1>3. ReleasingIsDone'
  <2> SUFFICES ASSUME NEW w \in Workers, workers[w].pc = "releasing"
               PROVE  ~Marked(jobs', workers[w].agent, workers[w].slot)
    BY DEF ReleasingIsDone
  <2>1. workers[w].agent \in Agents /\ workers[w].slot \in Slots
    BY DEF IInv, PointersOK, Busy
  <2> QED BY <2>1 DEF Tidy, ReleasingIsDone
<1>4. MarksAreWorked'
  <2>1. CASE disk' = disk
    BY <2>1 DEF Tidy, MarksAreWorked, At, Busy
  <2>2. CASE disk' = jobs'
    BY <1>2, <1>3, <2>2, SavedMarks
  <2>3. CASE faults' # 0
    BY <2>3 DEF MarksAreWorked
  <2> QED BY <2>1, <2>2, <2>3
<1> QED BY <1>1, <1>2, <1>3, <1>4 DEF Tidy

\* Faults are only counted up.
LEMMA SaveFaults ==
  ASSUME IInv, NEW t, SaveAttempt(t)
  PROVE  (faults' = 0 => faults = 0) /\ (disk' = t \/ faults' # 0)
  BY ConstantsOK DEF SaveAttempt, Saved, SaveFailed, IInv, TypeOK

\* ReconcileWithRegistry neither marks nor holds, and lifts no hold.
LEMMA ReconcileTidy == ASSUME IInv, Tidy, Reconcile PROVE Tidy' /\ HoldsKept
<1>1. PICK t \in Reconciled(jobs, FreshAll) : jobs' = t /\ SaveAttempt(t)
  BY DEF Reconcile
<1>2. \A a \in Agents, k \in Slots : Survives(jobs[a][k], t[a][k])
  BY FreshAllType, ReconciledTable DEF IInv, TypeOK, OnlyReactivatedFork
<1>3. /\ \A a \in Agents, k \in Slots : Marked(jobs', a, k) => Marked(jobs, a, k)
      /\ \A a \in Agents, k \in Slots : Holds(jobs', a, k) <=> Holds(jobs, a, k)
  BY <1>1, <1>2 DEF Survives, Marked, Holds
<1>4. \A a \in Agents : Held(jobs', a) => Held(jobs, a)
  BY <1>3 DEF Held, Holds
<1>5. workers' = workers
  BY DEF Reconcile
<1>6. (faults' = 0 => faults = 0) /\ (disk' = jobs' \/ faults' # 0)
  BY <1>1, SaveFaults
<1> QED BY <1>3, <1>4, <1>5, <1>6, TableTidy DEF HoldsKept

\* Schedule keeps a job as it was marked, in a lane that is not held.
LEMMA ScheduleCommitTidy == ASSUME IInv, Tidy, ScheduleCommit PROVE Tidy' /\ HoldsKept
<1> DEFINE a == caller.agent
<1>1. a \in Agents /\ caller.schedule \in Schedules /\ workers' = workers
  BY DEF ScheduleCommit, IInv, PointersOK, TypeOK
<1>2. CASE AdmissionHeld(a) \/ a \in activeAgents
  <2>1. UNCHANGED <<jobs, disk, faults>>
    BY <1>2 DEF ScheduleCommit
  <2> QED BY <1>1, <2>1, TableTidy DEF HoldsKept
<1>3. CASE ~AdmissionHeld(a) /\ a \notin activeAgents
  <2>1. PICK lane \in Scheduled(a, caller.schedule) :
          jobs' = [jobs EXCEPT ![a] = lane] /\ SaveAttempt(jobs')
    BY <1>3 DEF ScheduleCommit
  <2>2. jobs'[a] = lane /\ \A b \in Agents : b # a => jobs'[b] = jobs[b]
    BY <1>1, <2>1 DEF IInv, TypeOK, Table
  <2>3. \A k \in Slots : lane[k] # NoJob /\ lane[k].inFlight =>
          jobs[a][k] # NoJob /\ jobs[a][k].inFlight
    <3>1. jobs[a] \in Lane
      BY <1>1 DEF IInv, TypeOK, Table
    <3>2. \A k \in Slots, sched \in Schedules, same \in BOOLEAN : jobs[a][k] # NoJob =>
            Rescheduled(jobs[a][k], sched, same).inFlight = jobs[a][k].inFlight
      BY <3>1 DEF Rescheduled, Lane, Job
    <3>3. \A sched \in Schedules : ~NewJob(sched).inFlight
      BY DEF NewJob
    <3> DEFINE live == {k \in Slots : jobs[a][k] # NoJob}
    <3>4. Best(jobs[a], live) \subseteq live
      BY DEF Best
    <3>5. CASE lane = EmptyLane
      BY <3>5 DEF EmptyLane
    <3>6. CASE \E k \in Slots : lane = [EmptyLane EXCEPT ![k] = NewJob(caller.schedule)]
      BY <1>1, <3>3, <3>6 DEF EmptyLane
    <3>7. CASE \E k \in Best(jobs[a], live), same \in BOOLEAN :
                 lane = [EmptyLane EXCEPT ![k] = Rescheduled(jobs[a][k], caller.schedule, same)]
      BY <1>1, <3>2, <3>4, <3>7 DEF EmptyLane
    <3>8. lane = EmptyLane
          \/ (\E k \in Slots : lane = [EmptyLane EXCEPT ![k] = NewJob(caller.schedule)])
          \/ (\E k \in Best(jobs[a], live), same \in BOOLEAN :
                lane = [EmptyLane EXCEPT ![k] = Rescheduled(jobs[a][k], caller.schedule, same)])
      BY <2>1 DEF Scheduled, Fresh
    <3> QED BY <3>5, <3>6, <3>7, <3>8
  <2>4. \A b \in Agents, k \in Slots : Marked(jobs', b, k) => Marked(jobs, b, k)
    BY <2>2, <2>3 DEF Marked
  <2>5. \A b \in Agents : Held(jobs', b) => Held(jobs, b) \/ b \notin activeAgents
    BY <1>3, <2>2 DEF Held
  <2>6. (faults' = 0 => faults = 0) /\ (disk' = jobs' \/ faults' # 0)
    BY <2>1, SaveFaults
  <2>7. \A b \in Agents, k \in Slots : Holds(jobs, b, k) => Holds(jobs', b, k)
    BY <1>3, <2>2 DEF Holds, AdmissionHeld, Held
  <2> QED BY <1>1, <2>4, <2>5, <2>6, <2>7, TableTidy DEF HoldsKept
<1> QED BY <1>2, <1>3

\* RemoveJob takes neither a held job nor one in flight.
LEMMA RemoveJobTidy ==
  ASSUME IInv, Tidy, NEW a \in Agents, NEW k \in Slots, RemoveJob(a, k)
  PROVE  Tidy' /\ HoldsKept
<1>1. /\ ~jobs[a][k].hold /\ jobs' = [jobs EXCEPT ![a][k] = NoJob]
      /\ SaveAttempt(jobs') /\ workers' = workers
  BY DEF RemoveJob, Exists, Removable
<1>2. /\ jobs'[a][k] = NoJob
      /\ \A b \in Agents, l \in Slots : b # a \/ l # k => jobs'[b][l] = jobs[b][l]
  BY <1>1 DEF IInv, TypeOK, Table, Lane
<1>3. \A b \in Agents, l \in Slots : Marked(jobs', b, l) => Marked(jobs, b, l)
  BY <1>2 DEF Marked
<1>4. \A b \in Agents : Held(jobs', b) => Held(jobs, b)
  BY <1>2 DEF Held
<1>5. (faults' = 0 => faults = 0) /\ (disk' = jobs' \/ faults' # 0)
  BY <1>1, SaveFaults
<1>6. \A b \in Agents, l \in Slots : Holds(jobs, b, l) => Holds(jobs', b, l)
  BY <1>1, <1>2 DEF Holds
<1> QED BY <1>1, <1>3, <1>4, <1>5, <1>6, TableTidy DEF HoldsKept

\* ResolveRecovery lifts the hold it was asked to lift, and no other.
LEMMA ResolveRecoveryTidy ==
  ASSUME IInv, Tidy, NEW a \in Agents, NEW k \in Slots, ResolveRecovery(a, k)
  PROVE  Tidy' /\ HoldsKept
<1> DEFINE j == [jobs[a][k] EXCEPT !.hold = FALSE,
                                   !.active = jobs[a][k].schedule # "on_demand",
                                   !.due = ~(jobs[a][k].schedule # "on_demand")]
<1>1. jobs[a][k] # NoJob /\ Saved(jobs') /\ workers' = workers
  BY DEF ResolveRecovery, Exists
<1>2. jobs[a][k] \in Job
  BY <1>1 DEF IInv, TypeOK, Table, Lane
<1>3. j \in Job /\ j.inFlight = jobs[a][k].inFlight /\ ~j.hold
  BY <1>2 DEF Job
<1>4. jobs' = [jobs EXCEPT ![a][k] = j]
  BY <1>1, <1>2 DEF ResolveRecovery, IInv, TypeOK, Table, Lane
<1> HIDE DEF j
<1>5. jobs'[a][k] = j /\ \A b \in Agents, l \in Slots : b # a \/ l # k => jobs'[b][l] = jobs[b][l]
  BY <1>3, <1>4 DEF IInv, TypeOK, Table, Lane
<1>6. \A b \in Agents, l \in Slots : Marked(jobs', b, l) => Marked(jobs, b, l)
  BY <1>1, <1>3, <1>5 DEF Marked
<1>7. \A b \in Agents : Held(jobs', b) => Held(jobs, b)
  BY <1>3, <1>5 DEF Held
<1>8. disk' = jobs' /\ faults' = faults
  BY <1>1 DEF Saved
<1>9. \A b \in Agents, l \in Slots : Holds(jobs, b, l) => Holds(jobs', b, l) \/ ResolveRecovery(b, l)
  BY <1>5 DEF Holds
<1> QED BY <1>1, <1>6, <1>7, <1>8, <1>9, TableTidy DEF HoldsKept

\* The passing of NextRun touches no marker.
LEMMA SlotComesDueTidy ==
  ASSUME IInv, Tidy, NEW a \in Agents, NEW k \in Slots, SlotComesDue(a, k)
  PROVE  Tidy' /\ HoldsKept
<1> DEFINE j == [jobs[a][k] EXCEPT !.due = TRUE]
<1>1. jobs[a][k] # NoJob /\ UNCHANGED <<disk, workers, faults>>
  BY DEF SlotComesDue, Exists
<1>2. jobs[a][k] \in Job
  BY <1>1 DEF IInv, TypeOK, Table, Lane
<1>3. /\ j \in Job /\ j # NoJob
      /\ j.hold = jobs[a][k].hold /\ j.inFlight = jobs[a][k].inFlight
  BY <1>2, ConstantsOK DEF Job
<1>4. jobs' = [jobs EXCEPT ![a][k] = j]
  BY <1>1, <1>2 DEF SlotComesDue, IInv, TypeOK, Table, Lane
<1> HIDE DEF j
<1>5. jobs'[a][k] = j /\ \A b \in Agents, l \in Slots : b # a \/ l # k => jobs'[b][l] = jobs[b][l]
  BY <1>3, <1>4 DEF IInv, TypeOK, Table, Lane
<1>6. \A b \in Agents, l \in Slots : /\ Marked(jobs', b, l) => Marked(jobs, b, l)
                                     /\ Holds(jobs', b, l) <=> Holds(jobs, b, l)
  BY <1>1, <1>3, <1>5 DEF Marked, Holds
<1>7. \A b \in Agents : Held(jobs', b) => Held(jobs, b)
  BY <1>6 DEF Held, Holds
<1> QED BY <1>1, <1>6, <1>7, TableTidy DEF HoldsKept

-----------------------------------------------------------------------------
(* Admissions and the worker.                                               *)

\* An admission marks the entry of the new worker, in a lane without holds.
LEMMA AdmitTidy ==
  ASSUME IInv, Tidy, NEW a \in Agents, NEW k \in Slots, NEW w \in Workers, NEW j \in Job,
         NEW f \in WorkerType,
         ~AdmissionHeld(a), LaneFree(a), ~Busy(w),
         f.agent = a, f.slot = k, f.pc \in {"admitted", "running"}, ~j.hold,
         jobs' = [jobs EXCEPT ![a][k] = j],
         workers' = [workers EXCEPT ![w] = f],
         faults' = faults, disk' = disk \/ disk' = jobs'
  PROVE  Tidy' /\ HoldsKept
<1>1. /\ jobs'[a][k] = j
      /\ \A b \in Agents, l \in Slots : b # a \/ l # k => jobs'[b][l] = jobs[b][l]
  BY DEF IInv, TypeOK, Table, Lane
<1>2. /\ workers'[w] = f /\ f.pc # "free" /\ f.pc # "releasing"
      /\ \A v \in Workers : v # w => workers'[v] = workers[v]
  BY DEF IInv, TypeOK, WorkerType
<1>3. \A v \in Workers : Busy(v) => v # w /\ workers[v].agent # a
                                    /\ workers[v].agent \in Agents /\ workers[v].slot \in Slots
  BY DEF IInv, LaneOwnership, LaneFree, PointersOK
<1>4. \A b \in Agents : Held(jobs', b) => Held(jobs, b)
  BY <1>1 DEF Held
<1>5. ClaimedLaneIsUnheld'
  <2> SUFFICES ASSUME NEW v \in Workers, Claims(workers'[v]) PROVE ~Held(jobs', workers'[v].agent)
    BY DEF ClaimedLaneIsUnheld
  <2>1. CASE v = w
    BY <1>2, <1>4, <2>1 DEF AdmissionHeld
  <2>2. CASE v # w
    <3>1. workers'[v] = workers[v] /\ Claims(workers[v]) /\ workers[v].agent \in Agents
      BY <1>2, <1>3, <2>2 DEF Claims, Busy
    <3> QED BY <1>4, <3>1 DEF Tidy, ClaimedLaneIsUnheld
  <2> QED BY <2>1, <2>2
<1>6. NoStrandedJob'
  <2> SUFFICES ASSUME NEW b \in Agents, NEW l \in Slots, Marked(jobs', b, l)
               PROVE  \E v \in Workers : workers'[v].pc # "free" /\ workers'[v].agent = b /\ workers'[v].slot = l
    BY DEF NoStrandedJob, Marked, Busy
  <2>1. CASE b = a /\ l = k
    BY <1>2, <2>1
  <2>2. CASE ~(b = a /\ l = k)
    <3>1. PICK v \in Workers : At(v, b, l)
      BY <1>1, <2>2 DEF Tidy, NoStrandedJob, Marked, At
    <3> QED BY <1>2, <1>3, <3>1 DEF At, Busy
  <2> QED BY <2>1, <2>2
<1>7. ReleasingIsDone'
  <2> SUFFICES ASSUME NEW v \in Workers, workers'[v].pc = "releasing"
               PROVE  ~Marked(jobs', workers'[v].agent, workers'[v].slot)
    BY DEF ReleasingIsDone
  <2>1. v # w /\ workers'[v] = workers[v] /\ Busy(v)
    BY <1>2 DEF Busy
  <2> QED BY <1>1, <1>3, <2>1 DEF Tidy, ReleasingIsDone, Marked
<1>8. MarksAreWorked'
  <2>1. CASE disk' = disk
    <3> SUFFICES ASSUME faults = 0, NEW b \in Agents, NEW l \in Slots, Marked(disk, b, l)
                 PROVE  \E v \in Workers : At(v, b, l)' /\ workers'[v].pc # "releasing"
      BY <2>1 DEF MarksAreWorked
    <3>1. PICK v \in Workers : At(v, b, l) /\ workers[v].pc # "releasing"
      BY DEF Tidy, MarksAreWorked
    <3> QED BY <1>2, <1>3, <3>1 DEF At, Busy
  <2>2. CASE disk' = jobs'
    BY <1>6, <1>7, <2>2, SavedMarks
  <2> QED BY <2>1, <2>2
<1>9. HoldsKept
  <2> SUFFICES ASSUME NEW b \in Agents, NEW l \in Slots, Holds(jobs, b, l) PROVE Holds(jobs', b, l)
    BY DEF HoldsKept
  <2>1. b # a
    BY DEF AdmissionHeld, Held, Holds
  <2> QED BY <1>1, <2>1 DEF Holds
<1> QED BY <1>5, <1>6, <1>7, <1>8, <1>9 DEF Tidy

\* RunNow admits into an unheld lane, with a new entry.
LEMMA RunNowTidy ==
  ASSUME IInv, Tidy, NEW a \in Agents, NEW k \in Slots, NEW w \in Workers, RunNow(a, k, w)
  PROVE  Tidy' /\ HoldsKept
<1> DEFINE f == [pc |-> "running", agent |-> a, slot |-> k, manual |-> TRUE, clean |-> FALSE]
<1>1. f \in WorkerType /\ f.agent = a /\ f.slot = k /\ f.pc = "running"
  BY DEF WorkerType, WorkerPC
<1>2. ManualJob \in Job /\ ~ManualJob.hold
  BY NewJobs DEF ManualJob
<1>3. disk' = jobs' /\ faults' = faults
  BY DEF RunNow, Saved
<1>4. /\ ~AdmissionHeld(a) /\ LaneFree(a) /\ ~Busy(w)
      /\ jobs' = [jobs EXCEPT ![a][k] = ManualJob] /\ workers' = [workers EXCEPT ![w] = f]
  BY DEF RunNow
<1> HIDE DEF f
<1> QED BY <1>1, <1>2, <1>3, <1>4, AdmitTidy

\* tick admits into an unheld lane.
LEMMA TickTidy ==
  ASSUME IInv, Tidy, NEW a \in Agents, NEW k \in Slots, NEW w \in Workers, Tick(a, k, w)
  PROVE  Tidy' /\ HoldsKept
<1> DEFINE f == [pc |-> "admitted", agent |-> a, slot |-> k, manual |-> FALSE, clean |-> FALSE]
           j == [jobs[a][k] EXCEPT !.inFlight = TRUE]
<1>1. f \in WorkerType /\ f.agent = a /\ f.slot = k /\ f.pc = "admitted"
  BY DEF WorkerType, WorkerPC
<1>2. jobs[a][k] # NoJob /\ jobs[a][k] \in Job
  BY DEF Tick, Exists, IInv, TypeOK, Table, Lane
<1>3. ~jobs[a][k].hold
  BY <1>2 DEF Tick, AdmissionHeld, Held
<1>4. j \in Job /\ ~j.hold
  BY <1>2, <1>3 DEF Job
<1>5. jobs' = [jobs EXCEPT ![a][k] = j]
  BY <1>2 DEF Tick, IInv, TypeOK, Table, Lane
<1>6. ~AdmissionHeld(a) /\ LaneFree(a) /\ ~Busy(w) /\ workers' = [workers EXCEPT ![w] = f]
      /\ disk' = disk /\ faults' = faults
  BY DEF Tick
<1> HIDE DEF f, j
<1> QED BY <1>1, <1>4, <1>5, <1>6, AdmitTidy

\* What a step of worker w leaves in its entry and in the file.
TidyStep(w, j) ==
  /\ j \in Job \cup {NoJob}
  /\ jobs' = [jobs EXCEPT ![workers[w].agent][workers[w].slot] = j]
  /\ j # NoJob /\ j.inFlight => workers'[w].pc \notin {"releasing", "free"}
  /\ Entry(w) # NoJob /\ Entry(w).hold => j # NoJob /\ j.hold
  /\ Claims(workers'[w]) => Claims(workers[w]) /\ (j # NoJob => ~j.hold)
  /\ faults' = 0 => faults = 0
  /\ \/ disk' = jobs' \/ faults' # 0
     \/ disk' = disk /\ (workers[w].pc = "releasing" \/ workers'[w].pc \notin {"releasing", "free"})

\* Each step of a worker clears its marker before it comes to the release, and
\* takes no hold away.
LEMMA WorkerTidyEntry ==
  ASSUME IInv, Tidy, NEW w \in Workers, WorkerStep(w)
  PROVE  \E j : TidyStep(w, j)
<1> DEFINE a == workers[w].agent
           k == workers[w].slot
<1>1. Busy(w) /\ a \in Agents /\ k \in Slots
  BY WorkerMoves DEF IInv
<1>2. /\ Entry(w) \in Job \cup {NoJob}
      /\ Claims(workers[w]) => Entry(w) # NoJob /\ Entry(w).inFlight /\ ~Entry(w).hold
  <2>1. Claims(workers[w]) /\ Entry(w) # NoJob => ~Entry(w).hold
    BY <1>1 DEF Tidy, ClaimedLaneIsUnheld, Held, Entry
  <2> QED BY <1>1, <2>1, WorkerFacts
<1>3. Entry(w) = jobs[a][k]
  BY DEF Entry
<1>4. faults \in Nat /\ \A t : /\ Saved(t) => disk' = t /\ faults' = faults
                               /\ SaveFailed => disk' = disk /\ faults' # 0
  BY ConstantsOK DEF IInv, TypeOK, Saved, SaveFailed
<1>5. workers \in [Workers -> WorkerType]
  BY DEF IInv, TypeOK, WorkerType
<1>6. \A pc : GoTo(w, pc) => workers'[w].pc = pc
  BY <1>5 DEF GoTo, WorkerType
<1>7. CASE Lookup(w)
  <2>1. jobs' = [jobs EXCEPT ![a][k] = Entry(w)]
    BY <1>1, <1>7, SameEntry DEF Lookup
  <2>2. Claims(workers[w]) /\ workers'[w].pc \in {"closing", "ready"}
    BY <1>6, <1>7 DEF Lookup, Claims, AfterLookup
  <2>3. disk' = disk /\ faults' = faults
    BY <1>7 DEF Lookup
  <2> WITNESS Entry(w)
  <2> QED BY <1>2, <2>1, <2>2, <2>3 DEF TidyStep
<1>8. CASE Dispatch(w)
  <2>1. Claims(workers[w])
    BY <1>8 DEF Dispatch, Claims
  <2>2. Entry(w) \in Job /\ ~Entry(w).hold /\ Entry(w) # NoJob
    BY <1>2, <2>1
  <2>3. ASSUME NEW b \in BOOLEAN, jobs' = Update(jobs, a, k, [jobs[a][k] EXCEPT !.inFlight = b])
        PROVE  LET j == [Entry(w) EXCEPT !.inFlight = b]
               IN  j \in Job /\ ~j.hold /\ j.inFlight = b /\ jobs' = [jobs EXCEPT ![a][k] = j]
    <3> DEFINE j == [Entry(w) EXCEPT !.inFlight = b]
    <3>1. j \in Job /\ j.hold = Entry(w).hold /\ j.inFlight = b
      BY <2>2 DEF Job
    <3>2. jobs' = [jobs EXCEPT ![a][k] = j]
      BY <1>1, <1>3, <2>2, <2>3, UpdateIsPut
    <3> QED BY <2>2, <3>1, <3>2
  <2>4. CASE /\ jobs' = Update(jobs, a, k, [jobs[a][k] EXCEPT !.inFlight = TRUE])
             /\ Saved(jobs') /\ GoTo(w, "running")
    <3>1. PICK j : j \in Job /\ ~j.hold /\ jobs' = [jobs EXCEPT ![a][k] = j]
      BY <2>3, <2>4
    <3>2. TidyStep(w, j)
      BY <1>4, <1>6, <2>1, <2>2, <2>4, <3>1 DEF TidyStep
    <3> QED BY <3>2
  <2>5. CASE /\ IF AdmissionHeld(a) THEN UNCHANGED <<disk, faults>> ELSE SaveFailed
             /\ jobs' = Update(jobs, a, k, [jobs[a][k] EXCEPT !.inFlight = FALSE])
             /\ GoTo(w, "closing")
    <3>1. PICK j : j \in Job /\ ~j.hold /\ jobs' = [jobs EXCEPT ![a][k] = j]
      BY <2>3, <2>5
    <3>2. workers'[w].pc = "closing" /\ disk' = disk /\ (faults' = 0 => faults = 0)
      BY <1>4, <1>6, <2>5
    <3>3. TidyStep(w, j)
      BY <2>2, <3>1, <3>2 DEF TidyStep, Claims
    <3> QED BY <3>3
  <2> QED BY <1>8, <2>4, <2>5 DEF Dispatch
<1>9. CASE RunnerReturns(w)
  <2>1. jobs' = [jobs EXCEPT ![a][k] = Entry(w)]
    BY <1>1, <1>9, SameEntry DEF RunnerReturns
  <2>2. Claims(workers[w]) /\ workers'[w].pc = "returned"
    BY <1>5, <1>9 DEF RunnerReturns, Claims, WorkerType
  <2>3. disk' = disk /\ faults' = faults
    BY <1>9 DEF RunnerReturns
  <2> WITNESS Entry(w)
  <2> QED BY <1>2, <2>1, <2>2, <2>3 DEF TidyStep
<1>10. CASE Settle(w)
  <2> DEFINE held == [Entry(w) EXCEPT !.inFlight = FALSE, !.due = FALSE,
                                      !.hold = TRUE, !.active = FALSE]
             ended == [Entry(w) EXCEPT !.inFlight = FALSE, !.due = FALSE]
             done == IF workers[w].clean THEN ended ELSE held
  <2>1. Entry(w) \in Job /\ Entry(w) # NoJob /\ ~Entry(w).hold
    BY <1>2, <1>10 DEF Settle, Claims
  <2>2. held \in Job /\ ended \in Job
    BY <2>1, MarkedJobs
  <2>3. workers'[w].pc = "settled"
    BY <1>6, <1>10 DEF Settle
  <2>4. \/ jobs' = Update(jobs, a, k, done) /\ Saved(jobs')
        \/ jobs' = Update(jobs, a, k, held) /\ SaveFailed
    BY <1>3, <1>10 DEF Settle
  <2> HIDE DEF held, ended
  <2>5. PICK j \in Job : jobs' = [jobs EXCEPT ![a][k] = j]
    BY <1>1, <2>1, <2>2, <2>4, UpdateIsPut
  <2>6. TidyStep(w, j)
    BY <1>4, <2>1, <2>3, <2>4, <2>5 DEF TidyStep, Claims
  <2> QED BY <2>6
<1>11. CASE SettleManual(w)
  <2> DEFINE held == [ManualJob EXCEPT !.inFlight = FALSE, !.hold = TRUE]
             done == IF workers[w].clean THEN NoJob ELSE held
  <2>1. held \in Job /\ ~held.inFlight
    BY NewJobs DEF Job, ManualJob
  <2>2. workers'[w].pc = "releasing" /\ ~Entry(w).hold
    BY <1>2, <1>6, <1>11 DEF SettleManual, Claims
  <2>3. \/ jobs' = [jobs EXCEPT ![a][k] = done] /\ Saved(jobs')
        \/ jobs' = [jobs EXCEPT ![a][k] = held] /\ SaveFailed
    BY <1>11 DEF SettleManual
  <2> HIDE DEF held
  <2>4. PICK j \in {NoJob, held} : jobs' = [jobs EXCEPT ![a][k] = j]
    BY <2>3
  <2>5. TidyStep(w, j)
    BY <1>4, <2>1, <2>2, <2>3, <2>4 DEF TidyStep, Claims
  <2> QED BY <2>5
<1>12. CASE Report(w) \/ WorkerPanics(w)
  <2> DEFINE held == [Entry(w) EXCEPT !.hold = TRUE, !.active = FALSE]
             j == IF Entry(w) = NoJob THEN NoJob ELSE held
  <2>1. workers'[w].pc = "closing" /\ disk' = disk /\ faults' = faults
    BY <1>6, <1>12 DEF Report, WorkerPanics
  <2>2. CASE UNCHANGED jobs
    <3>1. jobs' = [jobs EXCEPT ![a][k] = Entry(w)]
      BY <1>1, <2>2, SameEntry
    <3> WITNESS Entry(w)
    <3> QED BY <1>2, <2>1, <3>1 DEF TidyStep, Claims
  <2>3. CASE jobs' = Update(jobs, a, k, held)
    <3>1. jobs' = [jobs EXCEPT ![a][k] = j]
      BY <1>1, <2>3, UpdateIsPut
    <3>2. Entry(w) # NoJob => held \in Job /\ held.hold /\ held # NoJob
      <4>1. Entry(w) # NoJob => Entry(w) \in Job
        BY <1>2
      <4> QED BY <4>1, MarkedJobs
    <3> HIDE DEF held
    <3>3. TidyStep(w, j)
      BY <2>1, <3>1, <3>2 DEF TidyStep, Claims
    <3> QED BY <3>3
  <2> QED BY <1>3, <1>12, <2>2, <2>3 DEF Report, WorkerPanics
<1>13. CASE Close(w)
  <2> DEFINE closed == [Entry(w) EXCEPT !.inFlight = FALSE]
             j == IF Entry(w) = NoJob THEN NoJob ELSE closed
  <2>1. workers'[w].pc = "releasing" /\ jobs' = Update(jobs, a, k, closed) /\ SaveAttempt(jobs')
    BY <1>3, <1>6, <1>13 DEF Close
  <2>2. jobs' = [jobs EXCEPT ![a][k] = j]
    BY <1>1, <2>1, UpdateIsPut
  <2>3. Entry(w) # NoJob => closed \in Job /\ closed.hold = Entry(w).hold /\ ~closed.inFlight
                            /\ closed # NoJob
    BY <1>2, MarkedJobs
  <2> HIDE DEF closed
  <2>4. TidyStep(w, j)
    BY <1>4, <2>1, <2>2, <2>3 DEF TidyStep, Claims, SaveAttempt
  <2> QED BY <2>4
<1>14. CASE Release(w)
  <2>1. jobs' = [jobs EXCEPT ![a][k] = Entry(w)]
    BY <1>1, <1>14, SameEntry DEF Release
  <2>2. workers[w].pc = "releasing" /\ ~(Entry(w) # NoJob /\ Entry(w).inFlight)
    BY <1>14 DEF Release, Tidy, ReleasingIsDone, Marked, Entry
  <2>3. workers'[w].pc = "free"
    BY <1>5, <1>14 DEF Release, FreeWorker
  <2>4. disk' = disk /\ faults' = faults
    BY <1>14 DEF Release
  <2> WITNESS Entry(w)
  <2> QED BY <1>2, <2>1, <2>2, <2>3, <2>4 DEF TidyStep, Claims
<1> QED BY <1>7, <1>8, <1>9, <1>10, <1>11, <1>12, <1>13, <1>14 DEF WorkerStep

\* A worker's step keeps the markers tidy and every hold in place.
LEMMA WorkerTidy ==
  ASSUME IInv, Tidy, NEW w \in Workers, WorkerStep(w)
  PROVE  Tidy' /\ HoldsKept
<1> DEFINE a == workers[w].agent
           k == workers[w].slot
<1>1. Busy(w) /\ a \in Agents /\ k \in Slots
  BY WorkerMoves DEF IInv
<1>2. PICK f \in WorkerType :
        /\ workers' = [workers EXCEPT ![w] = f]
        /\ f = FreeWorker \/ (f.pc # "free" /\ f.agent = a /\ f.slot = k)
  BY WorkerMoves DEF IInv
<1>3. PICK j : TidyStep(w, j)
  BY WorkerTidyEntry
<1>4. /\ workers'[w] = f
      /\ \A v \in Workers : v # w => workers'[v] = workers[v]
      /\ \A v \in Workers : v # w /\ Busy(v) => workers[v].agent # a
  BY <1>1, <1>2 DEF IInv, TypeOK, WorkerType, LaneOwnership
<1>5. /\ jobs'[a][k] = j
      /\ \A b \in Agents, l \in Slots : b # a \/ l # k => jobs'[b][l] = jobs[b][l]
  BY <1>1, <1>3 DEF TidyStep, IInv, TypeOK, Table, Lane
<1>6. \A v \in Workers : Busy(v) => workers[v].agent \in Agents /\ workers[v].slot \in Slots
  BY DEF IInv, PointersOK
<1>7. ClaimedLaneIsUnheld'
  <2> SUFFICES ASSUME NEW v \in Workers, Claims(workers'[v]) PROVE ~Held(jobs', workers'[v].agent)
    BY DEF ClaimedLaneIsUnheld
  <2>1. CASE v = w
    <3>1. f.agent = a /\ Claims(workers[w]) /\ (j # NoJob => ~j.hold)
      BY <1>2, <1>3, <1>4, <2>1 DEF TidyStep, Claims, FreeWorker
    <3>2. ~Held(jobs, a)
      BY <3>1 DEF Tidy, ClaimedLaneIsUnheld
    <3>3. ~Held(jobs', a)
      BY <1>1, <1>5, <3>1, <3>2 DEF Held
    <3> QED BY <1>4, <2>1, <3>1, <3>3
  <2>2. CASE v # w
    <3>1. /\ workers'[v] = workers[v] /\ Claims(workers[v]) /\ workers[v].agent # a
          /\ workers[v].agent \in Agents
      BY <1>4, <1>6, <2>2 DEF Claims, Busy
    <3>2. ~Held(jobs, workers[v].agent)
      BY <3>1 DEF Tidy, ClaimedLaneIsUnheld
    <3> QED BY <1>5, <3>1, <3>2 DEF Held
  <2> QED BY <2>1, <2>2
<1>8. NoStrandedJob'
  <2> SUFFICES ASSUME NEW b \in Agents, NEW l \in Slots, Marked(jobs', b, l)
               PROVE  \E v \in Workers : workers'[v].pc # "free" /\ workers'[v].agent = b /\ workers'[v].slot = l
    BY DEF NoStrandedJob, Marked, Busy
  <2>1. CASE b = a /\ l = k
    BY <1>2, <1>3, <1>4, <1>5, <2>1 DEF TidyStep, Marked, FreeWorker
  <2>2. CASE ~(b = a /\ l = k)
    <3>1. PICK v \in Workers : At(v, b, l)
      BY <1>5, <2>2 DEF Tidy, NoStrandedJob, Marked, At
    <3> QED BY <1>4, <2>2, <3>1 DEF At, Busy
  <2> QED BY <2>1, <2>2
<1>9. ReleasingIsDone'
  <2> SUFFICES ASSUME NEW v \in Workers, workers'[v].pc = "releasing"
               PROVE  ~Marked(jobs', workers'[v].agent, workers'[v].slot)
    BY DEF ReleasingIsDone
  <2>1. CASE v = w
    BY <1>2, <1>3, <1>4, <1>5, <2>1 DEF TidyStep, Marked, FreeWorker
  <2>2. CASE v # w
    <3>1. /\ workers'[v] = workers[v] /\ Busy(v) /\ workers[v].agent # a
          /\ workers[v].agent \in Agents /\ workers[v].slot \in Slots
      BY <1>4, <1>6, <2>2 DEF Busy
    <3> QED BY <1>5, <3>1 DEF Tidy, ReleasingIsDone, Marked
  <2> QED BY <2>1, <2>2
<1>10. MarksAreWorked'
  <2>1. CASE disk' = jobs'
    BY <1>8, <1>9, <2>1, SavedMarks
  <2>2. CASE faults' # 0
    BY <2>2 DEF MarksAreWorked
  <2>3. CASE disk' = disk /\ (workers[w].pc = "releasing" \/ workers'[w].pc \notin {"releasing", "free"})
    <3> SUFFICES ASSUME faults' = 0, NEW b \in Agents, NEW l \in Slots, Marked(disk, b, l)
                 PROVE  \E v \in Workers : At(v, b, l)' /\ workers'[v].pc # "releasing"
      BY <2>3 DEF MarksAreWorked
    <3>1. PICK v \in Workers : At(v, b, l) /\ workers[v].pc # "releasing"
      BY <1>3 DEF TidyStep, Tidy, MarksAreWorked
    <3>2. CASE v = w
      <4>1. f.pc \notin {"releasing", "free"} /\ f.agent = b /\ f.slot = l
        BY <1>2, <1>4, <2>3, <3>1, <3>2 DEF At, FreeWorker
      <4> QED BY <1>4, <4>1 DEF At, Busy
    <3>3. CASE v # w
      BY <1>4, <3>1, <3>3 DEF At, Busy
    <3> QED BY <3>2, <3>3
  <2> QED BY <1>3, <2>1, <2>2, <2>3 DEF TidyStep
<1>11. HoldsKept
  <2> SUFFICES ASSUME NEW b \in Agents, NEW l \in Slots, Holds(jobs, b, l) PROVE Holds(jobs', b, l)
    BY DEF HoldsKept
  <2> QED BY <1>3, <1>5 DEF TidyStep, Holds, Entry
<1> QED BY <1>7, <1>8, <1>9, <1>10, <1>11 DEF Tidy

-----------------------------------------------------------------------------
(* The process, and what follows.                                           *)

\* Before a process ends without a fault its file has no marker left; after a
\* crash there was a fault.
LEMMA MemoryLostTidy ==
  ASSUME IInv, Tidy, Exit \/ Crash
  PROVE  Tidy' /\ HoldsKept
<1>1. /\ phase' = "down" /\ jobs' = EmptyTable /\ disk' = disk
      /\ \A w \in Workers : workers'[w].pc = "free"
  BY DEF Exit, Crash, MemoryLost, FreeWorker
<1>2. faults' = 0 => faults = 0 /\ \A w \in Workers : ~Busy(w)
  BY ConstantsOK DEF Exit, Crash, IInv, TypeOK, LaneOwnership
<1>3. ClaimedLaneIsUnheld' /\ ReleasingIsDone'
  BY <1>1 DEF ClaimedLaneIsUnheld, ReleasingIsDone, Claims
<1>4. NoStrandedJob'
  BY <1>1 DEF NoStrandedJob, EmptyTable, EmptyLane
<1>5. MarksAreWorked'
  BY <1>1, <1>2 DEF Tidy, MarksAreWorked, At
<1> QED BY <1>1, <1>3, <1>4, <1>5 DEF Tidy, HoldsKept

\* A new process starts without a marker: the interrupted are held.
LEMMA RestartTidy ==
  ASSUME IInv, Tidy, Restart
  PROVE  Tidy' /\ HoldsKept
<1>1. phase = "down" /\ UNCHANGED <<workers, activeAgents>> /\ \A w \in Workers : workers[w].pc = "free"
  BY DEF Restart, IInv, LaneOwnership, Busy
<1>2. jobs = EmptyTable
  BY <1>1 DEF IInv, SealedIsIdle, Up
<1>3. HoldsKept
  BY <1>2 DEF HoldsKept, Holds, EmptyTable, EmptyLane
<1>4. CASE \E t \in Reconciled(Load(disk), [a \in Agents |-> {k \in Slots : disk[a][k] = NoJob}]) :
             jobs' = t /\ SaveAttempt(t)
  <2>1. \A a \in Agents, k \in Slots : ~Marked(jobs', a, k)
    BY <1>4, RestartTable DEF IInv, Marked
  <2>2. (faults' = 0 => faults = 0) /\ (disk' = jobs' \/ faults' # 0)
    BY <1>4, SaveFaults
  <2>3. ClaimedLaneIsUnheld' /\ ReleasingIsDone'
    BY <1>1 DEF ClaimedLaneIsUnheld, ReleasingIsDone, Claims
  <2>4. NoStrandedJob'
    BY <2>1 DEF NoStrandedJob, Marked
  <2>5. MarksAreWorked'
    BY <2>1, <2>2 DEF MarksAreWorked
  <2> QED BY <1>3, <2>3, <2>4, <2>5 DEF Tidy
<1>5. CASE faults' = faults + 1 /\ UNCHANGED <<jobs, disk>>
  <2>1. faults' # 0
    BY <1>5, ConstantsOK DEF IInv, TypeOK
  <2> QED BY <1>1, <1>3, <1>5, <2>1, TableTidy
<1> QED BY <1>4, <1>5 DEF Restart

\* Every step keeps the markers tidy, and lifts no hold that was not resolved.
LEMMA NextTidy ==
  ASSUME IInv, Tidy, [Next]_vars
  PROVE  Tidy' /\ HoldsKept
<1>1. CASE UNCHANGED <<jobs, disk, workers, faults>>
  BY <1>1, TableTidy DEF HoldsKept, Holds
<1>2. CASE Operator
  BY <1>1, <1>2, ScheduleCommitTidy, RemoveJobTidy, ResolveRecoveryTidy
  DEF Operator, EditRegistry, ScheduleCheck, ScheduleUpdateYAML
<1>3. CASE Admission
  BY <1>3, RunNowTidy, TickTidy, SlotComesDueTidy DEF Admission
<1>4. CASE \E w \in Workers : WorkerStep(w)
  BY <1>4, WorkerTidy
<1>5. CASE Process
  BY <1>1, <1>5, ReconcileTidy, MemoryLostTidy, RestartTidy DEF Process, Start, Stop, Drain
<1>6. CASE UNCHANGED vars
  BY <1>1, <1>6 DEF vars
<1> QED BY <1>2, <1>3, <1>4, <1>5, <1>6 DEF Next

\* The holds and markers of every reachable state are tidy.
THEOREM MarkersAreTidy == Spec => []Tidy
<1>1. Init => Tidy
  <2> SUFFICES ASSUME Init PROVE Tidy
    OBVIOUS
  <2>1. \A w \in Workers : workers[w].pc = "free"
    BY DEF Init, FreeWorker
  <2>2. \A a \in Agents, k \in Slots : jobs[a][k] = NoJob /\ disk[a][k] = NoJob
    BY DEF Init, EmptyTable, EmptyLane
  <2> QED BY <2>1, <2>2
          DEF Tidy, ClaimedLaneIsUnheld, Claims, NoStrandedJob, ReleasingIsDone, MarksAreWorked, Marked
<1>2. Tidy /\ IInv /\ [Next]_vars => Tidy'
  BY NextTidy
<1> QED BY <1>1, <1>2, Inductive, PTL DEF Spec

\* A job in flight always has a worker that will clear its marker: it never
\* drops out of the schedule (runJob's deferred calls, RunNow, releaseAgent).
THEOREM NothingIsStranded == Spec => []NoStrandedJob
<1>1. Tidy => NoStrandedJob
  BY DEF Tidy
<1> QED BY <1>1, MarkersAreTidy, PTL

\* A drained Stop leaves no marker in scheduler-jobs.json, if every save worked.
THEOREM StopIsClean == Spec => []GracefulStopIsClean
<1>1. IInv /\ Tidy => GracefulStopIsClean
  BY DEF IInv, LaneOwnership, Tidy, MarksAreWorked, Marked, At, GracefulStopIsClean
<1> QED BY <1>1, Inductive, MarkersAreTidy, PTL

\* In a process that lives only the operator's ResolveRecovery lifts a hold.
THEOREM HoldsStick == Spec => HoldIsSticky
<1>1. IInv /\ Tidy /\ [Next]_vars =>
        [\A a \in Agents, k \in Slots :
           Holds(jobs, a, k) /\ phase' # "down" =>
             \/ Holds(jobs', a, k)
             \/ ResolveRecovery(a, k)]_vars
  BY NextTidy DEF HoldsKept
<1> QED BY <1>1, Inductive, MarkersAreTidy, PTL DEF Spec, HoldIsSticky
=============================================================================
