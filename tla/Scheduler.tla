----------------------------- MODULE Scheduler -----------------------------
(***************************************************************************)
(* The agent scheduler of internal/agent/scheduler.go with a durable job   *)
(* table (FileJobStore): one daemon process, its tick loop, the goroutines *)
(* it admits, manual RunNow callers, the operator's calls, failed saves,   *)
(* crashes and restarts.                                                   *)
(*                                                                         *)
(* The job table is a lane per agent: jobs[a][k] is the job of agent a     *)
(* whose id is k.  Job ids are minted from the clock and never reused; a   *)
(* slot is free only when no job, in memory or on disk, and no worker      *)
(* still points at it.                                                     *)
(*                                                                         *)
(* What is abstracted: schedule strings are "on_demand" or "every" (any    *)
(* recurring one), NextRun is the flag `due' (zero or past), run counts,   *)
(* last-run times and ids (the tie-break of betterScheduledJob) are a      *)
(* nondeterministic choice, a runner's outcome is the flag `clean' (no     *)
(* terminal error, no panic, history recorded).  A circuit breaker that    *)
(* refuses a tick is a tick that does not admit that job.                  *)
(***************************************************************************)
EXTENDS Integers, FiniteSets

CONSTANTS
  Agents,         \* agent names
  Slots,          \* job ids of one agent
  Workers,        \* goroutine identities
  MaxConcurrent,  \* SchedulerConfig.MaxConcurrent after clamping
  MaxFaults,      \* bound: failed saves, unreadable loads and crashes together
  Edits,          \* bound: what the registry YAML may be edited to
  Requests,       \* bound: what Schedule may be asked for
  NoJob,          \* a free slot
  NoAgent,        \* a free worker
  NoSlot

Schedules  == {"on_demand", "every"}
Registered == Schedules \cup {"unset"}          \* "": registered, no schedule
YAML       == Registered \cup {"absent"}

Job == [schedule : Schedules, due : BOOLEAN, active : BOOLEAN,
        inFlight : BOOLEAN, hold : BOOLEAN, manual : BOOLEAN]

ASSUME ConstantsOK ==
  /\ MaxConcurrent \in 1..12
  /\ MaxFaults \in Nat
  /\ Edits \subseteq YAML /\ Requests \subseteq Schedules
  /\ IsFiniteSet(Agents)
  /\ NoJob \notin Job /\ NoAgent \notin Agents /\ NoSlot \notin Slots

VARIABLES
  registry,      \* agent definitions: the schedule the YAML asks for
  jobs,          \* Scheduler.jobs, in memory
  disk,          \* scheduler-jobs.json
  activeAgents,  \* Scheduler.activeAgents
  workers,       \* admitted goroutines and RunNow callers
  caller,        \* the one Schedule call in progress
  phase,         \* the process: down, created, running, stopping, drained
  sealed,        \* Scheduler.recoveryErr # nil
  unsettled,     \* history: jobs whose dispatched execution has no recorded end
  faults

vars == <<registry, jobs, disk, activeAgents, workers, caller, phase, sealed,
          unsettled, faults>>

FreeWorker == [pc |-> "free", agent |-> NoAgent, slot |-> NoSlot,
               manual |-> FALSE, clean |-> FALSE]
IdleCaller == [pc |-> "idle", agent |-> NoAgent, schedule |-> "on_demand"]
EmptyLane  == [k \in Slots |-> NoJob]
EmptyTable == [a \in Agents |-> EmptyLane]

WorkerPC == {"free", "admitted", "ready", "running", "returned", "settled",
             "closing", "releasing"}

Lane  == [Slots -> Job \cup {NoJob}]
Table == [Agents -> Lane]

-----------------------------------------------------------------------------
(* State predicates.                                                        *)

Up       == phase # "down"
Busy(w)  == workers[w].pc # "free"
Executing(w) == workers[w].pc \in {"running", "returned"}

Exists(t, a, k) == t[a][k] # NoJob

\* recoveryAdmissionErrorLocked, for a readable table
Held(t, a) == \E k \in Slots : t[a][k] # NoJob /\ t[a][k].hold

AdmissionHeld_SealOnly(a) == sealed                  \* mutant: holds admit work
AdmissionHeld(a) == sealed \/ Held(jobs, a)

LaneFree_AnyAgent(a) == Cardinality(activeAgents) < MaxConcurrent   \* mutant
LaneFree(a) == a \notin activeAgents /\ Cardinality(activeAgents) < MaxConcurrent

Fresh(a) == {k \in Slots : /\ jobs[a][k] = NoJob
                           /\ disk[a][k] = NoJob
                           /\ \A w \in Workers : ~(workers[w].agent = a /\ workers[w].slot = k)}

\* Bound: a manual run leaves a slot for the job reconciliation may create.
SpareSlot(a, k) == \/ \E l \in Slots : jobs[a][l] # NoJob /\ ~jobs[a][l].manual
                   \/ Fresh(a) \ {k} # {}

NewJob(sched) == [schedule |-> sched, due |-> FALSE, active |-> TRUE,
                  inFlight |-> FALSE, hold |-> FALSE, manual |-> FALSE]

ManualJob == [schedule |-> "on_demand", due |-> TRUE, active |-> FALSE,
              inFlight |-> TRUE, hold |-> FALSE, manual |-> TRUE]

\* A field update through a job pointer: the job may have left the table.
Update(t, a, k, j) == IF t[a][k] = NoJob THEN t ELSE [t EXCEPT ![a][k] = j]

-----------------------------------------------------------------------------
(* saveStateLocked: the file is replaced atomically or not at all.          *)

Saved(t) == disk' = t /\ UNCHANGED faults

SaveFailed == /\ faults < MaxFaults
              /\ faults' = faults + 1
              /\ UNCHANGED disk

\* A save whose error the caller drops or only reports.
SaveAttempt_Skipped(t) == UNCHANGED <<disk, faults>>   \* mutant: bookkeeping not saved
SaveAttempt(t) == Saved(t) \/ SaveFailed

-----------------------------------------------------------------------------
(* ReconcileWithRegistry on the lane of one agent: the set of lanes the     *)
(* visit of its jobs, in any order, may leave.                              *)

\* applyJobSchedule: another recurring schedule moves NextRun, the same keeps it.
Adopt(j, sched, same) ==
  IF sched = "every"
  THEN [j EXCEPT !.schedule = sched, !.active = TRUE, !.due = j.due /\ same]
  ELSE [j EXCEPT !.active = TRUE]

Best(lane, ks) ==
  {k \in ks : \A l \in ks : lane[l].active => lane[k].active}

\* Jobs reconciliation leaves alone because they are executing.
Owners_None(lane) == {}                               \* mutant: no in-flight entry
Owners(lane) == {k \in Slots : lane[k] # NoJob /\ ~lane[k].manual /\ lane[k].inFlight}

ReconcileLane(lane, sched, fresh) ==
  LET live   == {k \in Slots : lane[k] # NoJob}
      owners == Owners(lane)
      plain  == {k \in live : ~lane[k].manual /\ ~lane[k].inFlight}
  IN  IF \E k \in live : lane[k].hold
      THEN {[k \in Slots |-> IF k \in live THEN [lane[k] EXCEPT !.active = FALSE]
                                           ELSE NoJob]}
      ELSE IF sched \in {"absent", "on_demand"}
      THEN {[k \in Slots |-> IF k \in plain THEN NoJob ELSE lane[k]]}
      ELSE IF owners \cup plain # {}
      THEN \* duplicates collapse; with a live owner, in either order
           {[k \in Slots |->
               IF k \in (owners \cup plain) \ keep THEN NoJob
               ELSE IF k \in plain THEN Adopt(lane[k], sched, same) ELSE lane[k]] :
             same \in BOOLEAN,
             keep \in {s \in SUBSET (owners \cup plain) :
                         /\ s # {}
                         /\ plain = {} => s = owners
                         /\ owners = {} => Cardinality(s) = 1}}
      ELSE IF sched = "every"
      THEN {[lane EXCEPT ![k] = NewJob(sched)] : k \in fresh}
      ELSE {lane}

\* An empty registry aborts; so does an unreadable table.
Reconciled(t, fresh) ==
  IF \A a \in Agents : registry[a] = "absent" THEN {t}
  ELSE {u \in [Agents -> UNION {ReconcileLane(t[a], registry[a], fresh[a]) : a \in Agents}] :
          \A a \in Agents : u[a] \in ReconcileLane(t[a], registry[a], fresh[a])}

FreshAll == [a \in Agents |-> Fresh(a)]

MayReconcile == phase \in {"running", "stopping"} /\ ~sealed

Reconcile ==
  /\ MayReconcile
  /\ \E t \in Reconciled(jobs, FreshAll) :
       /\ jobs' = t
       /\ SaveAttempt(t)
  /\ UNCHANGED <<registry, activeAgents, workers, caller, phase, sealed, unsettled>>

\* Agent YAML created, edited or deleted, and picked up by ReloadFromDisk.
EditRegistry(a, sched) ==
  /\ sched # registry[a]
  /\ registry' = [registry EXCEPT ![a] = sched]
  /\ UNCHANGED <<jobs, disk, activeAgents, workers, caller, phase, sealed,
                 unsettled, faults>>

-----------------------------------------------------------------------------
(* Schedule: checked under the read lock, the YAML updated outside it,      *)
(* checked again and committed under the write lock.                        *)

ScheduleCheck(a, sched) ==
  /\ Up
  /\ caller.pc = "idle"
  /\ ~AdmissionHeld(a) /\ a \notin activeAgents
  /\ caller' = [pc |-> "checked", agent |-> a, schedule |-> sched]
  /\ UNCHANGED <<registry, jobs, disk, activeAgents, workers, phase, sealed,
                 unsettled, faults>>

ScheduleUpdateYAML ==
  /\ caller.pc = "checked"
  /\ IF registry[caller.agent] = "absent"
     THEN caller' = IdleCaller /\ UNCHANGED registry
     ELSE /\ registry' = [registry EXCEPT ![caller.agent] = caller.schedule]
          /\ caller' = [caller EXCEPT !.pc = "stored"]
  /\ UNCHANGED <<jobs, disk, activeAgents, workers, phase, sealed, unsettled, faults>>

Rescheduled(j, sched, same) ==
  [j EXCEPT !.schedule = sched, !.active = TRUE,
            !.due = j.due /\ j.schedule = sched /\ same]

\* The lanes Schedule may commit: everything dropped, or one job kept or made.
Scheduled(a, sched) ==
  LET live == {k \in Slots : jobs[a][k] # NoJob}
  IN  IF sched = "on_demand" THEN {EmptyLane}
      ELSE IF live = {} THEN {[EmptyLane EXCEPT ![k] = NewJob(sched)] : k \in Fresh(a)}
      ELSE {[EmptyLane EXCEPT ![k] = Rescheduled(jobs[a][k], sched, same)] :
              k \in Best(jobs[a], live), same \in BOOLEAN}

ScheduleCommit ==
  /\ caller.pc = "stored"
  /\ caller' = IdleCaller
  /\ IF AdmissionHeld(caller.agent) \/ caller.agent \in activeAgents
     THEN UNCHANGED <<jobs, disk, faults>>
     ELSE \E lane \in Scheduled(caller.agent, caller.schedule) :
            /\ jobs' = [jobs EXCEPT ![caller.agent] = lane]
            /\ SaveAttempt(jobs')
  /\ UNCHANGED <<registry, activeAgents, workers, phase, sealed, unsettled>>

Removable_InFlight(j) == ~j.hold                      \* mutant
Removable_Held(j) == ~j.inFlight                      \* mutant
Removable(j) == ~j.hold /\ ~j.inFlight

RemoveJob(a, k) ==
  /\ Up
  /\ Exists(jobs, a, k) /\ Removable(jobs[a][k])
  /\ jobs' = [jobs EXCEPT ![a][k] = NoJob]
  /\ SaveAttempt(jobs')
  /\ UNCHANGED <<registry, activeAgents, workers, caller, phase, sealed, unsettled>>

\* A failed save restores the hold, so the call changes nothing.
ResolveRecovery(a, k) ==
  /\ Up
  /\ Exists(jobs, a, k) /\ jobs[a][k].hold /\ ~jobs[a][k].inFlight
  /\ a \notin activeAgents
  /\ LET recurring == jobs[a][k].schedule # "on_demand"
     IN  jobs' = [jobs EXCEPT ![a][k].hold = FALSE,
                              ![a][k].active = recurring,
                              ![a][k].due = ~recurring]
  /\ Saved(jobs')
  /\ unsettled' = unsettled \ {<<a, k>>}
  /\ UNCHANGED <<registry, activeAgents, workers, caller, phase, sealed>>

-----------------------------------------------------------------------------
(* Admission.                                                               *)

\* RunNow: the durable marker first; a failed save refuses the run.  The
\* registry was asked before the lock and the agent may be gone by now.
RunNow(a, k, w) ==
  /\ Up /\ phase \notin {"stopping", "drained"}
  /\ ~AdmissionHeld(a)
  /\ LaneFree(a)
  /\ ~Busy(w)
  /\ k \in Fresh(a) /\ SpareSlot(a, k)
  /\ jobs' = [jobs EXCEPT ![a][k] = ManualJob]
  /\ Saved(jobs')
  /\ activeAgents' = activeAgents \cup {a}
  /\ workers' = [workers EXCEPT ![w] = [pc |-> "running", agent |-> a, slot |-> k,
                                        manual |-> TRUE, clean |-> FALSE]]
  /\ unsettled' = unsettled \cup {<<a, k>>}
  /\ UNCHANGED <<registry, caller, phase, sealed>>

\* One admission of tick; a tick that admits several is several of these.
Tick(a, k, w) ==
  /\ phase = "running"
  /\ ~AdmissionHeld(a)
  /\ Exists(jobs, a, k)
  /\ jobs[a][k].active /\ ~jobs[a][k].inFlight /\ jobs[a][k].due
  /\ LaneFree(a)
  /\ ~Busy(w)
  /\ activeAgents' = activeAgents \cup {a}
  /\ jobs' = [jobs EXCEPT ![a][k].inFlight = TRUE]
  /\ workers' = [workers EXCEPT ![w] = [pc |-> "admitted", agent |-> a, slot |-> k,
                                        manual |-> FALSE, clean |-> FALSE]]
  /\ UNCHANGED <<registry, disk, caller, phase, sealed, unsettled, faults>>

\* NextRun passes.
SlotComesDue(a, k) ==
  /\ Exists(jobs, a, k) /\ ~jobs[a][k].due
  /\ jobs' = [jobs EXCEPT ![a][k].due = TRUE]
  /\ UNCHANGED <<registry, disk, activeAgents, workers, caller, phase, sealed,
                 unsettled, faults>>

-----------------------------------------------------------------------------
(* A worker: runJob and its deferred calls, or the rest of RunNow.          *)

GoTo(w, pc) == workers' = [workers EXCEPT ![w].pc = pc]

\* reg.Get at the start of runJob.
AfterLookup_SkipClose(a) == IF registry[a] = "absent" THEN "releasing" ELSE "ready"  \* mutant
AfterLookup(a) == IF registry[a] = "absent" THEN "closing" ELSE "ready"

Lookup(w) ==
  /\ workers[w].pc = "admitted"
  /\ GoTo(w, AfterLookup(workers[w].agent))
  /\ UNCHANGED <<registry, jobs, disk, activeAgents, caller, phase, sealed,
                 unsettled, faults>>

\* The in-flight marker is persisted before the runner is called, or nothing runs.
Dispatch(w) ==
  /\ workers[w].pc = "ready"
  /\ LET a == workers[w].agent
         k == workers[w].slot
         Mark(b) == Update(jobs, a, k, [jobs[a][k] EXCEPT !.inFlight = b])
     IN  \/ /\ ~AdmissionHeld(a)
            /\ jobs' = Mark(TRUE)
            /\ Saved(jobs')
            /\ GoTo(w, "running")
            /\ unsettled' = unsettled \cup {<<a, k>>}
         \/ /\ IF AdmissionHeld(a) THEN UNCHANGED <<disk, faults>> ELSE SaveFailed
            /\ jobs' = Mark(FALSE)
            /\ GoTo(w, "closing")
            /\ UNCHANGED unsettled
  /\ UNCHANGED <<registry, activeAgents, caller, phase, sealed>>

\* The runner returns or panics, and history is recorded or not.
RunnerReturns(w) ==
  /\ workers[w].pc = "running"
  /\ \E clean \in BOOLEAN :
       workers' = [workers EXCEPT ![w].pc = "returned", ![w].clean = clean]
  /\ UNCHANGED <<registry, jobs, disk, activeAgents, caller, phase, sealed,
                 unsettled, faults>>

\* runJob's last critical section.
Settle(w) ==
  /\ workers[w].pc = "returned" /\ ~workers[w].manual
  /\ LET a == workers[w].agent
         k == workers[w].slot
         held == [jobs[a][k] EXCEPT !.inFlight = FALSE, !.due = FALSE,
                                    !.hold = TRUE, !.active = FALSE]
         done == IF workers[w].clean
                 THEN [jobs[a][k] EXCEPT !.inFlight = FALSE, !.due = FALSE]
                 ELSE held
     IN  \/ /\ jobs' = Update(jobs, a, k, done)
            /\ Saved(jobs')
            /\ unsettled' = IF workers[w].clean THEN unsettled \ {<<a, k>>} ELSE unsettled
         \/ /\ jobs' = Update(jobs, a, k, held)
            /\ SaveFailed
            /\ UNCHANGED unsettled
  /\ GoTo(w, "settled")
  /\ UNCHANGED <<registry, activeAgents, caller, phase, sealed>>

\* RunNow's deferred bookkeeping.
SettleManual(w) ==
  /\ workers[w].pc = "returned" /\ workers[w].manual
  /\ LET a == workers[w].agent
         k == workers[w].slot
         held == [ManualJob EXCEPT !.inFlight = FALSE, !.hold = TRUE]
     IN  \/ /\ jobs' = [jobs EXCEPT ![a][k] = IF workers[w].clean THEN NoJob ELSE held]
            /\ Saved(jobs')
            /\ unsettled' = IF workers[w].clean THEN unsettled \ {<<a, k>>} ELSE unsettled
         \/ /\ jobs' = [jobs EXCEPT ![a][k] = held]
            /\ SaveFailed
            /\ UNCHANGED unsettled
  /\ GoTo(w, "releasing")
  /\ UNCHANGED <<registry, activeAgents, caller, phase, sealed>>

\* Events, feedback and the breaker report: done, or a panic that holds the job.
Report(w) ==
  /\ workers[w].pc = "settled"
  /\ GoTo(w, "closing")
  /\ LET a == workers[w].agent
         k == workers[w].slot
     IN  \/ UNCHANGED jobs
         \/ jobs' = Update(jobs, a, k, [jobs[a][k] EXCEPT !.hold = TRUE, !.active = FALSE])
  /\ UNCHANGED <<registry, disk, activeAgents, caller, phase, sealed, unsettled, faults>>

\* A panic in runJob's bookkeeping before its last critical section.
WorkerPanics(w) ==
  /\ workers[w].pc = "returned" /\ ~workers[w].manual
  /\ GoTo(w, "closing")
  /\ LET a == workers[w].agent
         k == workers[w].slot
     IN  jobs' = Update(jobs, a, k, [jobs[a][k] EXCEPT !.hold = TRUE, !.active = FALSE])
  /\ UNCHANGED <<registry, disk, activeAgents, caller, phase, sealed, unsettled, faults>>

\* The deferred InFlight = false and save; its error is dropped.
Close(w) ==
  /\ workers[w].pc = "closing"
  /\ LET a == workers[w].agent
         k == workers[w].slot
     IN  jobs' = Update(jobs, a, k, [jobs[a][k] EXCEPT !.inFlight = FALSE])
  /\ SaveAttempt(jobs')
  /\ GoTo(w, "releasing")
  /\ UNCHANGED <<registry, activeAgents, caller, phase, sealed, unsettled>>

\* releaseAgent, WaitGroup.Done included.
Release_StopHoldsLock(w) ==                            \* mutant: Stop waits under mu
  /\ workers[w].pc = "releasing" /\ phase # "stopping"
  /\ activeAgents' = activeAgents \ {workers[w].agent}
  /\ workers' = [workers EXCEPT ![w] = FreeWorker]
  /\ UNCHANGED <<registry, jobs, disk, caller, phase, sealed, unsettled, faults>>

Release_ScheduledOnly(w) ==                            \* mutant: RunNow keeps its lane
  /\ workers[w].pc = "releasing"
  /\ activeAgents' = IF workers[w].manual THEN activeAgents
                     ELSE activeAgents \ {workers[w].agent}
  /\ workers' = [workers EXCEPT ![w] = FreeWorker]
  /\ UNCHANGED <<registry, jobs, disk, caller, phase, sealed, unsettled, faults>>

Release(w) ==
  /\ workers[w].pc = "releasing"
  /\ activeAgents' = activeAgents \ {workers[w].agent}
  /\ workers' = [workers EXCEPT ![w] = FreeWorker]
  /\ UNCHANGED <<registry, jobs, disk, caller, phase, sealed, unsettled, faults>>

-----------------------------------------------------------------------------
(* The process.                                                             *)

Start ==
  /\ phase = "created"
  /\ phase' = "running"
  /\ UNCHANGED <<registry, jobs, disk, activeAgents, workers, caller, sealed,
                 unsettled, faults>>

Stop ==
  /\ phase \in {"created", "running"}
  /\ phase' = "stopping"
  /\ UNCHANGED <<registry, jobs, disk, activeAgents, workers, caller, sealed,
                 unsettled, faults>>

\* workers.Wait returns.
Drain ==
  /\ phase = "stopping"
  /\ \A w \in Workers : ~Busy(w)
  /\ phase' = "drained"
  /\ UNCHANGED <<registry, jobs, disk, activeAgents, workers, caller, sealed,
                 unsettled, faults>>

MemoryLost ==
  /\ phase' = "down"
  /\ jobs' = EmptyTable
  /\ activeAgents' = {}
  /\ workers' = [w \in Workers |-> FreeWorker]
  /\ caller' = IdleCaller
  /\ sealed' = FALSE
  /\ UNCHANGED <<registry, disk, unsettled>>

Exit == phase = "drained" /\ MemoryLost /\ UNCHANGED faults

Crash == Up /\ faults < MaxFaults /\ MemoryLost /\ faults' = faults + 1

Load_ClearsInFlight(t) ==                              \* mutant: rerun after a crash
  [a \in Agents |-> [k \in Slots |->
     IF t[a][k] = NoJob THEN NoJob ELSE [t[a][k] EXCEPT !.inFlight = FALSE]]]

\* loadState: interrupted executions are held, held jobs are inactive.
Load(t) ==
  [a \in Agents |-> [k \in Slots |->
     IF t[a][k] = NoJob THEN NoJob
     ELSE IF t[a][k].inFlight
     THEN [t[a][k] EXCEPT !.inFlight = FALSE, !.hold = TRUE, !.active = FALSE]
     ELSE [t[a][k] EXCEPT !.active = t[a][k].active /\ ~t[a][k].hold]]]

\* NewScheduler: loadState, then ReconcileWithRegistry.
Restart ==
  /\ phase = "down"
  /\ phase' = "created"
  /\ \/ /\ sealed' = FALSE
        /\ \E t \in Reconciled(Load(disk), [a \in Agents |-> {k \in Slots : disk[a][k] = NoJob}]) :
             /\ jobs' = t
             /\ SaveAttempt(t)
     \/ /\ faults < MaxFaults          \* the file cannot be read
        /\ faults' = faults + 1
        /\ sealed' = TRUE
        /\ UNCHANGED <<jobs, disk>>
  /\ UNCHANGED <<registry, activeAgents, workers, caller, unsettled>>

-----------------------------------------------------------------------------
Init ==
  /\ registry \in [Agents -> Schedules]
  /\ jobs = EmptyTable
  /\ disk = EmptyTable
  /\ activeAgents = {}
  /\ workers = [w \in Workers |-> FreeWorker]
  /\ caller = IdleCaller
  /\ phase = "down"
  /\ sealed = FALSE
  /\ unsettled = {}
  /\ faults = 0

WorkerStep(w) ==
  \/ Lookup(w) \/ Dispatch(w) \/ RunnerReturns(w) \/ Settle(w) \/ SettleManual(w)
  \/ Report(w) \/ WorkerPanics(w) \/ Close(w) \/ Release(w)

Operator ==
  \/ \E a \in Agents, sched \in Edits : EditRegistry(a, sched)
  \/ \E a \in Agents, sched \in Requests : ScheduleCheck(a, sched)
  \/ ScheduleUpdateYAML
  \/ ScheduleCommit
  \/ \E a \in Agents, k \in Slots : RemoveJob(a, k)
  \/ \E a \in Agents, k \in Slots : ResolveRecovery(a, k)

Admission ==
  \/ \E a \in Agents, k \in Slots, w \in Workers : RunNow(a, k, w)
  \/ \E a \in Agents, k \in Slots, w \in Workers : Tick(a, k, w)
  \/ \E a \in Agents, k \in Slots : SlotComesDue(a, k)

Process == Reconcile \/ Start \/ Stop \/ Drain \/ Exit \/ Crash \/ Restart

Next == Operator \/ Admission \/ (\E w \in Workers : WorkerStep(w)) \/ Process

Spec == Init /\ [][Next]_vars

\* Admitted goroutines keep running, runners honour RunContext.Context, and
\* Stop waits; nobody has to schedule, run or resolve anything.
FairSpec ==
  /\ Spec
  /\ \A w \in Workers : WF_vars(WorkerStep(w))
  /\ WF_vars(Drain)

-----------------------------------------------------------------------------
(* Properties.                                                              *)

\* Every variable holds values of its shape.
TypeOK ==
  /\ registry \in [Agents -> YAML]
  /\ jobs \in Table
  /\ disk \in Table
  /\ activeAgents \in SUBSET Agents
  /\ workers \in [Workers -> [pc : WorkerPC, agent : Agents \cup {NoAgent},
                              slot : Slots \cup {NoSlot},
                              manual : BOOLEAN, clean : BOOLEAN]]
  /\ caller \in [pc : {"idle", "checked", "stored"}, agent : Agents \cup {NoAgent},
                 schedule : Schedules]
  /\ phase \in {"down", "created", "running", "stopping", "drained"}
  /\ sealed \in BOOLEAN
  /\ unsettled \in SUBSET (Agents \X Slots)
  /\ faults \in 0..MaxFaults

\* Scheduled and manual executions share one lane per agent and one capacity;
\* Stop returns only when none is left (RunNow, tick, releaseAgent, Stop).
LaneExclusion ==
  /\ \A v, w \in Workers : Busy(v) /\ Busy(w) /\ v # w => workers[v].agent # workers[w].agent
  /\ Cardinality({w \in Workers : Busy(w)}) <= MaxConcurrent
  /\ phase \in {"down", "drained"} => \A w \in Workers : ~Busy(w)

\* An execution that was dispatched and has no recorded end is marked in the
\* file, whatever saves failed since: a restart at any moment finds it
\* (runJob's save before dispatch, loadState).
DurableEvidence ==
  \A u \in unsettled :
    LET j == disk[u[1]][u[2]] IN j # NoJob /\ (j.inFlight \/ j.hold)

\* In a process that could read its file, such an execution is either still
\* running or held for the operator (loadState, runJob, RunNow's deferred save).
UnsettledIsOwned ==
  Up /\ ~sealed =>
    \A u \in unsettled :
      \/ jobs[u[1]][u[2]] # NoJob /\ jobs[u[1]][u[2]].hold
      \/ \E w \in Workers : Executing(w) /\ workers[w].agent = u[1] /\ workers[w].slot = u[2]

\* No runner is called for an agent with an execution whose end is unknown:
\* neither restart, reconciliation, scheduling nor RunNow replays it.
NoReplay ==
  [][\A w \in Workers :
       workers[w].pc # "running" /\ workers'[w].pc = "running"
         => \A k \in Slots : <<workers'[w].agent, k>> \notin unsettled]_vars

Holds(t, a, k) == t[a][k] # NoJob /\ t[a][k].hold

\* While the process lives, only ResolveRecovery lifts a hold: registry edits,
\* reconciliation, Schedule and RemoveJob leave it in place.
HoldIsSticky ==
  [][\A a \in Agents, k \in Slots :
       Holds(jobs, a, k) /\ phase' # "down" =>
         \/ Holds(jobs', a, k)
         \/ ResolveRecovery(a, k)]_vars

\* A job is never left in flight without a worker: it would never come due
\* again, could not be removed and would block restarts (AnyInFlight).
NoStrandedJob ==
  \A a \in Agents, k \in Slots :
    jobs[a][k] # NoJob /\ jobs[a][k].inFlight
      => \E w \in Workers : Busy(w) /\ workers[w].agent = a /\ workers[w].slot = k

\* Jobs of the registry's, and jobs with an interval whoever made them.
Recurring(lane, k) ==
  lane[k] # NoJob /\ (~lane[k].manual \/ lane[k].schedule # "on_demand")

OneOfEachKind(lane) ==
  \A k, l \in Slots : Recurring(lane, k) /\ Recurring(lane, l) /\ k # l
                      => ~(lane[k].manual <=> lane[l].manual)

\* No order of edits, dedup and reconciliation gives an agent two recurring jobs
\* (Schedule, ReconcileWithRegistry), but in one way: Schedule gave a resolved
\* manual job an interval and left it Manual, so that reconciliation passes it
\* over and makes a job beside it.  There is never a second one of either kind.
OnlyReactivatedFork == \A a \in Agents : OneOfEachKind(jobs[a])

\* Stop, drained without a failed save, leaves no in-flight marker: the next
\* start holds nothing.
GracefulStopIsClean ==
  phase = "drained" /\ faults = 0 =>
    \A a \in Agents, k \in Slots : disk[a][k] # NoJob => ~disk[a][k].inFlight

\* Stop returns, provided runners return (Stop, releaseAgent, WaitGroup).
StopReturns == phase = "stopping" ~> phase # "stopping"

\* Every admission gives its lane back, on every error path of the worker.
LaneIsReleased == \A a \in Agents : a \in activeAgents ~> a \notin activeAgents

-----------------------------------------------------------------------------
(* The inductive invariant: what the properties above rest on.              *)

\* Workers and the Schedule call point at agents and slots.
PointersOK ==
  /\ \A w \in Workers : IF Busy(w) THEN workers[w].agent \in Agents /\ workers[w].slot \in Slots
                                   ELSE workers[w] = FreeWorker
  /\ caller.pc # "idle" => Up /\ caller.agent \in Agents

\* activeAgents is what the workers hold.
LaneOwnership ==
  /\ \A w \in Workers : Busy(w) => workers[w].agent \in activeAgents
  /\ IsFiniteSet(activeAgents) /\ Cardinality(activeAgents) <= MaxConcurrent
  /\ \A v, w \in Workers : Busy(v) /\ Busy(w) /\ v # w => workers[v].agent # workers[w].agent
  /\ phase \in {"down", "drained"} => \A w \in Workers : ~Busy(w)

\* Behind an unreadable file, or in no process, nothing is scheduled and nothing runs.
SealedIsIdle == sealed \/ ~Up => jobs = EmptyTable /\ \A w \in Workers : ~Busy(w)

\* Until a worker gives its claim up, its job is in the table and in flight.
ClaimIsInFlight ==
  \A w \in Workers :
    workers[w].pc \in {"admitted", "ready", "running", "returned"} =>
      LET j == jobs[workers[w].agent][workers[w].slot] IN j # NoJob /\ j.inFlight

\* OnlyReactivatedFork for the table a restart will load.
OnlyReactivatedForkOnDisk == \A a \in Agents : OneOfEachKind(disk[a])

IInv ==
  /\ TypeOK
  /\ PointersOK
  /\ LaneOwnership
  /\ SealedIsIdle
  /\ ClaimIsInFlight
  /\ OnlyReactivatedFork
  /\ OnlyReactivatedForkOnDisk
  /\ UnsettledIsOwned
  /\ DurableEvidence
=============================================================================
