# Verification of bt-agent-platform

TLA+ models of the concurrent and durable parts of bt-agent-platform, the TLC
runs that check them on small instances, and TLAPS proofs that hold for every
size.  The modules live side by side in this directory; `PROJECT.json` lists
components, runs, mutants, the map from definitions to source lines, hazards and
theorems.

    tlc -workers 2 -config MCScheduler.cfg Scheduler
    tlapm SchedulerProofs.tla

## 1. The system

A bt-agent daemon owns a **scheduler** that runs behaviour-tree **agents**: YAML
definitions in a registry directory, executed by a **runner** on the **engine**.
Dashboards, command-line programs and MCP clients are separate processes on the
same host; they share state with the daemon through JSON files under
`~/.go-bt-evolve`, replaced by atomic rename and, in most cases, guarded by a
sidecar file lock.  Outcomes feed circuit breakers, a dead-letter queue, an event
bus, history, and the feedback that the gardener uses to evolve trees.

| Component | State | Operations | Interacts with | Hard behaviours |
|---|---|---|---|---|
| scheduler (`internal/agent/scheduler.go`, `jobstore.go`) | job table in memory and on disk, active agents, recovery error, worker goroutines | tick, runJob, RunNow, Schedule, RemoveJob, ReconcileWithRegistry, ResolveRecovery, Start, Stop, loadState | registry, runner, breaker, history, other processes editing the table | goroutines against registry edits, failed saves, crash between dispatch and settlement |
| registry (`registry.go`, `catalog.go`) | definitions in memory and YAML files | Create, Get, UpdateSchedule, Delete, ReloadFromDisk | scheduler, dashboard | edits by several processes |
| circuit breaker (`reliability.go`, `scheduler_cb.go`) | state, counters, opened-at; snapshot file | Allow, RecordSuccess, RecordFailure, RecordOutcome, Reset, RestoreState, Load, Save | scheduler, webhook publisher, LLM adapters, auction | a probe that is never reported, late answers, restart |
| dead-letter queue (`dead_letter.go`) | entries with recovery hold and replay claim, file | Push, PushExecutionFailure, RequeueWithError, ReplayWithError, ResolveReplayRecovery, Purge, Reload | webhook publisher, scheduler, dashboard | two processes replaying one entry, crash during a replay, full queue |
| file lock (`reliability.go`) | sidecar inode | acquire, release | every shared JSON store | unlink racing open |
| work admission (`restart_admission.go`, limiter and pool of `reliability.go`, `execution_admission.go`, `sprint_admission.go`) | leases and seal, slots, queue and workers | Acquire, AcquireWithContext, SubmitWithContext, Shutdown, BeginRestart, reserveSprint | HTTP handlers, sprints, drift restarts | answers that leave before their work, a shutdown or restart between two steps |
| deploy drift (`deploy_drift.go`, `rebuild.go`, `restart_control.go`) | binaries and backups, backoff, adoption stamps, requests between daemons | DriftWatchOnce, RebuildBinaries, RequestOwnedRestart, serveRestartControl | git, systemd, restart gates | two watchers in bt-agent's process, broken builds, lost replies, uncertain handoffs |
| event bus, agent router (`reliability.go`, `heartbeat*.go`, `weighted_router.go`, `queue.go`) | subscribers, node table | Publish, Route, Heartbeat | engine, dashboard | full buffers, nested read locks |
| execution error algebra (`errors.go`, `execution_persistence.go`) | - | merge, classify | scheduler, engine | which error survives several failures |
| approvals (`internal/hitl`, `engine/hitl_gate.go`) | requests with status and deadline, file | Create, Decide, Expire, Wait | engine, dashboard | decision racing expiry, restart while waiting |
| blackboard (`internal/blackboard`) | scoped keys, versions, TTL | Set, Get, CAS, watch, persist | engine, agents | expiry during use |
| A2A (`internal/a2a`) | tasks, bids | send, get, cancel, auction | remote agents | late bids, cancel racing completion |
| task board (`internal/dashboard/tasks.go`, `cmd/bt-dashboard/sprint_execution.go`) | tasks with status and pending audit, the running sprint | Approve, Reject, ClaimApproved, CommitExecution, repair | approvals, work admission | decisions while a task runs, results that cannot be written, crash between claim and commit |
| engine (`internal/engine`) | blackboard, tree state | composite ticks, actions | everything | memory composites, parallel aborts |
| gardener, evolution, evaluator, benchmark | trees, archives, baselines | evaluate, mutate, promote | engine | idle gate racing executions; otherwise numeric |
| goap | world state, goal store | plan, execute | engine | none concurrent |
| knowledge, persona, research, doormate | JSON documents | upsert, prune | engine | lost updates between processes |
| llm, fusion | adapters, fallback chain | generate | breaker | one probe per breaker |
| security | sessions, throttle buckets | login, validate, expire | dashboard | boundaries of windows |
| config, api, tracing, audit, util, domains, blocks, factory | - | parsing, schemas, literals | - | none |


### Which behaviours are hard, and what makes each part correct

The work of this platform is *effectful*: a run posts messages, edits files, spends
money.  Most of its reliability code therefore answers one question: after a crash, a
failed save or a late answer, may this work be executed again?  The properties below
are aimed there.

- **Scheduler.** An execution whose end was not recorded is never forgotten
  (`DurableEvidence`), never run again behind the operator's back (`NoReplay`,
  `HoldIsSticky`), and always owned by a worker or held (`UnsettledIsOwned`).  Manual
  and scheduled runs share one lane per agent and one capacity (`LaneExclusion`); a
  lane is given back on every error path (`LaneIsReleased`, `NoStrandedJob`); registry
  edits fork a recurring job in one way only, beside a manual job that `Schedule` reused
  (`OnlyReactivatedFork`); Stop returns (`StopReturns`) and leaves a
  table that the next start need not hold (`GracefulStopIsClean`).
- **Circuit breaker.** Half-open admits nobody, so its probe must always be owed by
  someone (`NoWedge`) and be answered (`HalfOpenResolves`); recovery wipes the count
  (`ClosedIsBelowThreshold`).  Across processes, a save must not replace what
  another store knows (`WinnersPersist`: a winner's entry is the auction's last, or went
  with a file that some save could not read and wrote over), nor a restart revive a
  probe nobody owes (`NoRestoredWedge`).
- **Shared files.** One holder at a time although the sidecar that is locked is also
  unlinked (`MutualExclusion`); no update is lost (`Atomic`); waiters
  are not starved as a group (`SomeoneEnters`).
- **Dead letters.** Work that may have acted stays held (`ActedIsHeld`); a replay
  keeps its claim to the end (`OwnerKeepsClaim`); nothing is executed that may have
  been done (`NeverTwice`); attempts stay within budget (`ReplayBudget`); a requeue is
  found (`RequeuedIsTaken`).
- **Work admission.** A process hands itself over to a restart only when nothing is
  under way in it (`SealedIsQuiet`), although handlers leave before their work.  Slots
  and leases come back once on every path (`SlotsAreOwned`, `LeasesEnd`).  Submit and
  Shutdown race without a send on a closed channel, a lost task (`ShutdownDrains`) or a
  deadlock (`ShutdownEnds`).
- **Approvals.** A request is decided once, before its deadline (`DecidedOnce`); a gate
  acts only on a decision about its own work that still stands (`Authorised`) and does
  not ask twice (`NoSecondRequest`); what a workflow step was told stays true although
  decided requests are pruned (`AnswersStand`), and it is told something
  (`WaitersAreAnswered`).
- **Task board.** Work that has run is not dispatched again without a new approval
  (`NoReplay`), every claim has an owner or is known to be lost (`ClaimsAreOwned`), a
  task is admitted only when the approval store agrees (`AuditAgrees`), and a late
  result does not overrule an operator (`DecisionsStand`).
- **Deploy drift.** No unit with a gate is restarted under its work (`HandoffIsQuiet`);
  a seal has one owner and is not left behind (`SealsAreOwned`); as long as passes of
  bt-agent's two watchers have not overlapped, it hands over to a binary it has tested
  (`HandsOverTested`); a head recorded as built is the one installed
  (`BuiltIsInstalled`, which fails when they overlap); a broken commit is rebuilt a bounded number
  of times (`AttemptsAreCapped`, which fails).

## 2. The plan

Every module a theorem is about is free of recursion, takes its sizes as constants
with named assumptions, has one action per operation, and states its invariants as
conjunctions of named parts.

| Order | Modules | Abstract specification | Proofs |
|---|---|---|---|
| 1 (done) | `Scheduler` | - | type correctness, `IInv`, evidence, ownership, lanes, single job, no replay, no stranded job, sticky holds, clean stop |
| 2 (done) | `CircuitBreaker`, `BreakerStore` | - | `NoWedge`, `ClosedIsBelowThreshold`, `WinnersPersist`, `NoRestoredWedge` |
| 3 (done) | `FileLock`, `SharedJSON`, `SharedDocument` | `SharedDocument`: atomic updates | mutual exclusion, no lost update, refinement |
| 4 (done) | `DeadLetterQueue` (uses the atomicity shown in 3) | - | held, claimed, never twice, within budget |
| 5 (done) | `WorkAdmission`: restart gate, limiter, pool, executions and sprints | - | `SealedIsQuiet`, `SlotsAreOwned`, `ShutdownDrains` |
| 6 (done) | `Approvals`, `DecisionRegister`: the store, gates and workflow waits | `DecisionRegister`: one decision per request | authority, answers, searches, refinement |
| 7 (done) | `TaskBoard` (uses the register of 6 as the approval store) | - | audit, decisions, claims, no replay |
| 8 (done) | `DriftRestart`, `RebuildStorm`: watchers, rebuilds, owned restarts | - | quiet handoffs, owned seals, tested binaries (`DriftRestartProofs`) |
| 9 | `JobTable`: the job file edited by daemon, dashboard and command line; the guard against an empty overwrite (`sawNonEmpty`) | `SharedDocument` per agent | no clobbered hold |
| 10 | `ErrorAlgebra`, `GoapPlanner`, `AgentRouter`: pure operators against reference definitions | reachability for the planner | lattice laws of the merge |

`Scheduler` and `DeadLetterQueue` treat a locked file transaction as one step; what
entitles them to it is `SharedJSON` implementing `SharedDocument`.  `BreakerStore`
cannot do so, because it reads each breaker's memory while it holds the lock, and
therefore models its save in steps.  `TaskBoard` sees the approval store as the register that
`Approvals` implements, and `WorkAdmission` is the inside of one unit whose gate
`DriftRestart` uses.

## 3. How the modules correspond to the code

Definitions keep the code's names where possible; `PROJECT.json` maps each to its
lines.  A definition called `Name_Variant` is a deliberately wrong version of `Name`,
used to confirm that a property notices the bug; it is not part of a specification.

### Scheduler

| Model | Code |
|---|---|
| `registry` | the schedule in an agent's YAML, `absent` when there is none |
| `jobs`, `disk` | `Scheduler.jobs` and `scheduler-jobs.json` |
| `activeAgents`, `sealed` | the fields `activeAgents` and `recoveryErr` |
| `workers` | goroutines of `runJob`, callers of `RunNow`, with a program counter |
| `caller` | one `Schedule` call, between its two checks |
| `phase` | down, created (after `NewScheduler`), running, stopping (`Stop` waits), drained |
| `unsettled` | history: dispatched executions without a recorded end |

One step is one critical section of the scheduler's mutex, or what happens between
two.  `tick` admits one job per step; a tick that admits several is several steps,
which allows more interleavings than the code.  The worker goes `admitted` →
(`Lookup`) → `ready` → (`Dispatch`: marker saved, or nothing runs) → `running` →
`returned` → (`Settle`) → `settled` → (`Report`) → `closing` → (`Close`: deferred
clear and save) → `releasing` → free; a manual run enters at `running` and settles in
`SettleManual`.  Panics of the runner are an unclean return; panics of the
bookkeeping are `WorkerPanics` and a branch of `Report`.

Every save may fail; because files are replaced by rename, a failed save leaves the
old file.  `Restart` is `loadState` followed by `ReconcileWithRegistry`, which may run
before the registry has changed, or long after.  Reconciliation is a *set* of possible
lanes, because the code walks a Go map: which duplicate survives depends on its order.

Abstractions: schedules other than on-demand are one; `NextRun` is "due or not"; run
counts and times, which break ties between duplicates, are a free choice; run history
and events are the flag `clean`.  The branch of `Dispatch` for an agent that became
held after admission cannot be reached (the lane excludes it) and is kept because the
code has it.  A bookkeeping panic after settlement puts a hold on the job in memory
which a failed last save and a crash lose: no property promises otherwise, since the
execution's end is recorded by then.

Things found while modelling and worth knowing: `ReconcileWithRegistry` could delete
the owner of a running execution if two jobs of an agent that are not manual were in
flight; `OnlyReactivatedFork` is what rules that out, so it is part of the proof.  `Schedule`
edits the YAML before its second check, so a refused call may still have changed the
schedule.  `RunNow` and `ResolveRecovery` have no callers in the
binaries, only in tests; they are modelled as an operator's calls.

### CircuitBreaker and BreakerStore

`CircuitBreaker` is one breaker and any number of goroutines that call `Allow`, and on
success exactly one `Record…`.  A step is one critical section; `RecordOutcome` takes
two (`CallerError` reads the state, `Resolve` acts on it).  Time is the flag `cooled`.
`SchedulerSpec` adds what the scheduler does on one error path, `AdmissionFails`: to
leave without recording.

`BreakerStore` is the snapshot file with its three kinds of store.  `Save` is
`SaveBegin` (lock, read; `blind` when the file cannot be read or parsed, which `Save`
ignores), then per tracked breaker `ReadStatus` and `ReadFailures`
(two critical sections of that breaker, so a request may be recorded between them),
then `Publish` (rename, unlock) or `SaveFails`.  `Load` and its treatment of
half-open is `Loaded`/`Restored`, taken at `CrashAndLoad`, where it may also fail to
read the file.  The history `dropped` holds the keys that a blind save wrote over and
no save has put back.  Its
specification is `StoreSpec`, named apart from the breaker's because
`CircuitBreakerProofs` extends both modules.

### FileLock, SharedJSON, SharedDocument

`FileLock` is `AcquireFileLockWithContext` system call by system call: open with
`O_CREATE`, non-blocking flock, compare the locked inode with the one under the path,
unlink, close.  A caller may cancel while it waits, call `release` twice, and die
anywhere.  `SharedJSON` puts a read-modify-write on top and is shown to implement
`SharedDocument`, whose only step is an atomic update; the refinement mapping is the
document itself.  Errors of system calls leave the loop like `Cancel`.

### DeadLetterQueue

Processes share `disk`; `run` is the replay a process has admitted, `todo` what is
left of its scan, `effect` what the work behind an entry has really done, `notes` what
operators have found out.  `Admit` writes the claim before `Dispatch` calls the
executor; `Settle` records the outcome if the claim is still its own, or fails to save
and leaves it.  The replay executor lives in the daemon only; other processes requeue,
purge and resolve.  `Inspect` is the operator's obligation of ADR-280: a decision is
based on evidence gathered while the claim's owner is quiet.  Notes are never
consumed, so a decision may arrive late, twice, or after the entry has been released,
requeued and claimed anew.  `ReplayInFlight` decides nothing on its own and is left
out; the webhook publisher's queue without a file is not modelled.

### WorkAdmission

| Model | Code |
|---|---|
| `pc` | the handler goroutine of a request: `executeDashboardAgent` or `handleSprintExecute` |
| `task` | its callback in the pool |
| `leases`, `sealed` | `RestartAdmissionGate.active` and `sealed`; "kept" after a handoff |
| `sem`, `active`, `waiting` | the limiter's semaphore and its two counters |
| `queue`, `worker`, `counted`, `pool` | the pool's channel, its goroutines, `activeWorkers`, `Shutdown` |
| `decision`, `slotGiven` | the reservation's `decision` channel and its once-only `release` |
| `desk`, `running` | `sprintAdmission` and `sprintState.Running` |

A request passes gate, limiter and pool, each in steps: a slot is taken before it is
counted, a task is dequeued before its worker is counted, and a context may end
anywhere.  `SubmitFails` covers the refusals before and during the wait for room.  A
cancelled context only refuses what has not begun; the callback keeps slot and lease.
`Shutdown` is `Quit` (wakes submitters), `ClosePool` (under the write lock, hence after
every parked submitter) and `ShutdownReturns`.  `TryAcquire` is not used on these paths.

### Approvals and DecisionRegister

`Approvals` has one step per transaction of the store: reload, change, `Save`, which
appends what was decided to the order of decisions and drops all but the newest
`Retain` of them.  Requests are numbered by creation.  A gate (`humanApprovalGateCmd`)
makes several transactions in a tick -- `Refresh` or `Search`, then `Ask` -- and acts on
what it read later, in `Conclude`; a "post" gate runs its child first.  `End` loses the
blackboard, as a crash or a cancelled run does.  A workflow step is `StartWait`,
`PollWait`, `GiveUp`.  `DecisionRegister` says what the store promises to whoever reads
it; `DecidedOnce` is the refinement, mapping pending and escalated to "open".

### TaskBoard

`status` and `due` are `tasks.json` (`AuditPending` is `due`).  A decision is three
steps under the store's mutex: commit, audit in the approval store, clear the mark; each
may fail or be the last before a crash, and deciding again resumes.  A sprint is
`Claim`, then `Dispatch`, `ExecutionEnds`, `CommitResult` per task, `ReturnUnstarted`
when its budget has ended, `SprintEnds`.  What cannot be committed is `retained` and
repaired by `Reconcile` before the next claim.  `executed` and `lost` are history: what
has run to an end since its approval, and what a crash or panic left claimed.

### DriftRestart and RebuildStorm

bt-agent has two watchers in one process, the periodic one and the scheduler's idle
hook (`FleetWatchers`), each with a `RebuildBackoff` of its own; the other units have
one each.  A watcher runs `DriftWatchOnce` in steps: `Tick`, `Materialize`, for every
binary `Build`, `Backup` and `Swap`, then `Smoke`, `Recheck` and its own restart or, in
bt-agent, the siblings first.  Each step of a rebuild may fail (`RebuildFails`) and
leaves what the steps before it have done; so may a rollback (`RollBack`).  `new` is the
intermediate of a build, one for each process and binary as its name bears the pid, so
that bt-agent's watchers share it.  `crossed` is history: passes of two watchers of
this process of bt-agent have overlapped.  The delay of a backoff is left to chance: it
ends between some two ticks, and the ticks it blocks change nothing.  The owner's side of a request is `Serve`, `VerifyArtifact`,
`OwnerRestarts`; a client may give up at any time.  Handing over to systemd has three
ends: accepted, proven rejected, uncertain.  `Adopt` and `Crash` replace the process
with what is on disk.  `starts` says of each commit, once for all, whether its binary
survives the smoke test.  `RebuildStorm` adds the number of rebuilds of one head by one
process.

## 4. The runs

| Run | Instance | What it shows |
|---|---|---|
| `sched` | 1 agent, 2 job ids, 2 workers, capacity 2, 2 faults, the agent scheduled, taken off its schedule and deleted | under failed saves, unreadable loads, crashes and restarts, no execution with unknown end is lost or replayed, holds stay, lanes exclude and are released, a job is neither stranded nor forked but in the known way, Stop returns and leaves a clean table |
| `breaker` | 3 callers, threshold 2 | the probe is always owed and always answered |
| `breaker_leak` | the same with the scheduler's error path | a violation: the breaker is half-open for ever |
| `breaker_store` | daemon, dashboard, auction, 1 fault: crash, failed read or failed write | winners' entries persist unless a save could not read the file, restored breakers are not wedged |
| `shared_json` | 3 callers, 4 inodes, 2 updates | mutual exclusion, refinement of atomic updates, progress |
| `dlq` | daemon and dashboard, 2 entries, queue of 1, budget 2, 6 claims, 2 faults | held, claimed, never twice, within budget, and requeued entries are found, although queues overflow and decisions come late |
| `work_admission` | 1 execution, 2 sprints, 2 slots, 1 worker, queue of 1 | restarts find nothing under way; slots, leases and the shutdown end, whoever leaves |
| `approvals` | 2 requests, a "pre" and a "post" gate in 2 runs, 1 waiter, 1 decision retained | decisions, gates and waits under expiry, pruning, retries and crashes; refinement of the register |
| `task_board` | 2 tasks | audits, decisions, claims and results under failed commits, panics and crashes |
| `drift` | bt-agent with its two watchers, a sibling with its own, 1 commit that starts or not, 1 attempt | quiet handoffs and owned seals although the watchers' passes overlap; tested binaries as long as they do not |
| `drift_overlap` | bt-agent alone, two watchers, 2 commits, 1 attempt | a violation: one watcher installs the other's build of an older head and marks the newer one built |
| `drift_storm` | bt-agent alone, two watchers, 1 commit, 2 attempts | a violation: a commit that builds and does not start is rebuilt without limit |

**Bounds.** A fault is a failed save, a crash or a load that cannot be read; two let a
failed save be followed by a crash, or a crash by an unreadable file, the combinations
the recovery code distinguishes.  With one agent, deleting it empties the registry,
which stops reconciliation; the branch that drops a deleted agent's job is then reached
through an on-demand schedule, which shares it.  Two job ids hold a recurring job and a
duplicate or manual one.  Lanes of different agents interact only through the capacity,
which is slack here; a capacity that binds, several agents, and an agent with no
schedule at all (`""`) are covered by the theorems of section 6, which prove all eight
safety properties of this run for every value of the constants.  Three callers of a breaker are a probe, a late answer and a failure.  Four
inodes are one more than three callers can have open, so a fresh one always exists.
Six claims in `dlq` are more than two entries can draw, so that running out of claims
never stops the scan; a queue of one makes the second arrival evict the first, or be
refused when the first is held, and the theorems of section 6 hold for every size.  In
`work_admission` two of three requests fit the limiter and one fits the queue behind
one worker, so that each can be full while another request wants it; sprints meet at
the desk and an execution passes beside them.  In `approvals` a second request of the
same work, or of the other, meets the first while one decision is retained and the
other dropped; two runs of one gate race.  Two tasks on the board make an order, a batch that is
cut short and a retained result beside a live one.  Two watchers in
`drift` are the number that bt-agent has; one commit lets HEAD pass the running
revision during any step of either and be broken, and one attempt makes
the first failure the one that blocks a head until the process is replaced (the retry
below the limit is met in `drift_storm`, and in the proofs).  Two commits in `drift_overlap` put two heads
into one rebuild; two attempts in `drift_storm` separate the first failure from the
last.  The theorems of section 6 hold for every number of commits, attempts, siblings
and watchers.
`MaxFaults`, `MaxClaims`, `MaxRequests`, `MaxHead`, `Edits` and
`Requests` are the only bounds that the code does not have; `SpareSlot` reserves a job
id, which the clock never lacks.

Symmetry is used only in `drift` and `drift_overlap` (the two watchers of bt-agent),
which have no liveness property.  Deadlock is checked everywhere except in `work_admission`, where
every request has been served in the end.

**Fairness.** Weak fairness of every scheduler worker's next step: an admitted goroutine
is scheduled by the Go runtime and runners are given a deadline through
`RunContext.Context`; weak fairness of `Drain`, which is `WaitGroup.Wait` returning.
Nothing forces a tick, a manual run or an operator's call.  For the breaker, weak
fairness of a caller that owes a record; nobody is forced to call.  For the lock,
fairness of each caller's own next system call, and the promise is conditional: *if*
callers eventually stop cancelling and dying.  For the dead letters, weak fairness of
the daemon's scan as a whole, not of each of its steps: the ticker fires again after a
panic or an error.  For the admission of work, that some goroutine of a handler, a
callback, a worker or the shutdown runs on; new requests, disconnections and restarts
are not forced.  For approvals, that deadlines pass and a waiter polls, which it does
on a ticker; operators may do nothing.

## 5. Disagreements between code and comments

- `runJob` returns without recording after its marker could not be saved; the breaker
  that `tick` had moved to half-open stays there until an operator resets it, which
  the comment at `reliability.go:131` warns of (`breaker_leak`).
- `RebuildBackoff` "permanently blocks further attempts once MaxAttempts is reached"
  (`rebuild.go:215`), but `DriftWatchOnce` records a success when the build ends and a
  failure when the smoke test of that build fails, which resets the count to one: a
  commit that builds and does not start is rebuilt, swapped in and rolled back as long
  as it is HEAD (`drift_storm`).
- `RebuildBinaries` names its intermediate by the pid, so that "each writer renames its
  own complete build" (`rebuild.go:102`), but bt-agent's two watchers (`main.go:592`,
  `main.go:739`) are writers in one process.  When their passes overlap, one may rename
  the other's build of an older HEAD into place and mark its own head built;
  `DriftWatchOnce` then skips the rebuild, since "the binaries on disk come from it"
  (`deploy_drift.go:334-335`), and adopts a binary that is still behind
  (`drift_overlap`).

Without a run, noted while modelling:

- The defect of `breaker_leak`, a probe taken and not reported, also exists at
  `cmd/bt-dashboard/main.go:1768`, `webhook_publisher.go:250` and, for a child that is
  still running, `reliability_decorators.go:106`.
- A success that arrives late closes an open breaker, though the type's comment says
  that a single test request does; `RecordOutcome` checks for half-open and acts in two
  critical sections, so a caller-side error can close a breaker that opened in between.
- `Save` of the breaker store says it preserves entries other processes track, but
  writes back every breaker in memory, those loaded at boot included.
- The same comment says a save "cannot clobber a winner breaker that opened after this
  store loaded", but `Save` ignores a failed read as it does a corrupt file and then
  writes only its own breakers: a read error followed by a successful write drops every
  entry of the other stores until they save again.  `WinnersPersist` says exactly this.
- `RunNow` admissions are "never a recurring job" (`scheduler.go:61`) and "must not
  become a registry-created recurring job" (`scheduler.go:683`), but `Schedule` gives a
  resolved one an interval without clearing `Manual`.  It then fires as a recurring job,
  and because reconciliation passes it over, the next registry edit creates a second one
  for the same agent.  `OnlyReactivatedFork` states that this is the only fork.
- The answer to a requeue in `tools.go:2373` promises a replay that further requeues
  before the next scan cancel, by using up the attempts.

## 6. The proofs

`tlapm` checks every theorem for all values of the constants, from the named
assumptions in the modules: placeholders are distinct from real values, bounds are
numbers, sets of agents and of entries are finite, executors are processes, works
exist and the gated ones are among them.  One theorem, `BudgetIsKept`, has a hypothesis
besides: there is one replay executor, as in the deployment, where only the daemon
starts one.  Every safety invariant and every action property that a run checks is
proved, and so are the two refinements.

- **`SchedulerProofs`.** None of the interesting invariants is inductive alone.
  `DurableEvidence` needs to know that whoever writes the table has the evidence in
  memory (`UnsettledIsOwned`), which needs that a worker's job is in the table and in
  flight as long as it runs (`ClaimIsInFlight`), which reconciliation preserves only
  because it never faces two in-flight jobs that are not manual (`OnlyReactivatedFork`,
  and `OnlyReactivatedForkOnDisk` for what a restart loads) and because no two workers share an
  agent (`LaneOwnership`).  Behind an unreadable file the table in memory is empty
  (`SealedIsIdle`), and nothing may be saved.  `IInv` is the conjunction; the lemmas
  follow the actions, with reconciliation reduced to facts about one lane.
  `NothingIsReplayed` is an action property from the same invariant: an agent that is
  admitted holds no unsettled execution.
  A second layer, `Tidy`, says where markers and holds may be found: a worker with a
  claim was admitted to a lane without a hold, and no step sets one beside it, so
  settling a manual job drops none; a marker in memory has a worker that has not come
  to its release; and unless a fault occurred, a marker in the file has a worker that
  will still save.  From it follow `NothingIsStranded`, `StopIsClean` -- when the last
  worker has gone there is nobody left to account for a marker -- and `HoldsStick`.
- **`CircuitBreakerProofs`.** `NoWedge` and `ClosedIsBelowThreshold` for any number of
  callers and any threshold: half-open is entered by a caller that then requests, and
  nobody who requests while half-open leaves without moving it.  For the stores,
  `StoreInv`: a store tracks keys of its own only (`MemoryIsOwned`), a save holds the
  lock from reading to renaming (`SaveIsLocked`), and for what the store does not track
  it carries the entry that is still in the file, or none when it could not read it
  (`OverlayIsTracked`), although requests may be admitted on new keys meanwhile.  Hence `WinnersAreKept`; `RestoredIsNotWedged`
  follows request by request.
- **`SharedJSONProofs`.** The lock's invariant ties flocks to descriptors
  (`FlockOwnership`) and whoever is inside to the file under the path
  (`InsideIsLive`); exclusion follows.  A copy is current while its owner is inside,
  so every write is an update of the present document: `UpdatesAreAtomic` is the
  refinement theorem, each step an abstract update or a stutter.
- **`WorkAdmissionProofs`.** A sealed gate has no lease and what is under way has one
  (`Leased`).  That alone is not inductive: a callback that began a second time after its
  lease was released would be under way without one.  `BeginsOnce` rules it out -- an
  accepted callback is in the queue once, or with one worker that has not begun it --
  and `Accepted` orders a request's two goroutines.  The lemmas first reduce every step
  to what these parts can see of it.  The limiter's counters are the cardinalities of
  the requests that own a slot and of those that wait for one (`LimiterCounted`), and a
  request reserves once (`ReservedOnce`), so every release finds what it gives back:
  `SlotsReturn`.  `PoolInv` accounts for every accepted callback, in the channel or at a
  worker, which is what `ShutdownsDrain` needs of a pool that has been shut down.
- **`ApprovalsProofs`.** To the store every step is one of five moves (`StoreMoves`): it
  rests, a deadline passes, records expire, a request is made, a decision is taken;
  each but the first two ends in the same save, which prunes.  Whatever the move, owners
  stay, a settled status is never altered and only a new request becomes pending
  (`Persists`).  What a gate, a search or a waiter has read is
  compared with what the store may have become since (`GateOK`, `SearchOK`, `WaitOK`);
  what a search adopts, the newest request it found, is one of those it found
  (`NewestIsOne`).  `StoreDecidesOnce` is the refinement of `DecisionRegister`.
- **`TaskBoardProofs`.** `AuditAgrees` is inductive with the facts that an unaudited
  decision keeps its task out of every sprint (`DueIsDecided`) and that between audit
  and clearing nobody else decides (`HeldForDue`).  `DecisionsStand` follows for each
  step; `NoReplay` needs that batch, execution and retained results are disjoint and
  that nothing executed waits in any of them as approved (`ReplayInv`).
  `EveryClaimIsOwned` needs that a sprint claims only when the one before it has left
  neither a batch nor retained results, and that it queues every task it claims
  (`ClaimsAreComplete`).
- **`DriftRestartProofs`.** For any fleet.  A handoff is quiet because it owns the seal
  and a sealed unit has no work, and every owner either hands the seal on or opens it
  (`OneOwner`, from which `SealsAreOwned` follows); neither depends on how bt-agent's
  watchers meet.  `HandsOverTested` is about the time before two of their passes have
  overlapped: then one watcher at most is at work and it adopts no head older than one
  the others have marked built (`AloneOK`), a head that some watcher has marked built
  is on bt-agent's disk (`DiskOK`, from each watcher's own marks, `MarkOK`), and the
  binary that the rollback of another watcher's pass would restore is no older either
  (`LastOK`).  No sibling's watcher and no step of the sweep replaces bt-agent's binary
  (`TargetsOK`); the shapes need that a rebuild begins below the limit of attempts
  (`AttemptsOK`).  The assumption is that a watcher of bt-agent is not itself the name
  of a unit (`WatchersAssumption`), besides the shapes of the constants.
- **`DeadLetterProofs`.** `ActedIsHeld`, `OwnerKeepsClaim` and `NeverTwice` together
  with: replays run under distinct claims that have been drawn (`RunsAreClaimed`),
  numbers in the file are old (`ClaimsAreDrawn`), and a note says the truth as long as
  its claim is in the file (`NotesAreTrue`).  The last is why comparing the claim in
  `ResolveReplayRecovery` is enough against late decisions.  `BudgetIsKept`: each call of
  the executor is paid for by an attempt of a requeue (`AttemptsCover`), one of which is
  unused as long as the entry is ready, in the scan's list or admitted.  Two executors
  would each work from a ready list of their own, hence the hypothesis.

Checked by TLC only: the liveness properties (`StopReturns`, `LaneIsReleased`,
`HalfOpenResolves`, `SomeoneEnters`, `RequeuedIsTaken`, `LeasesEnd`, `ShutdownEnds`,
`WaitersAreAnswered`), since the prover handles neither fairness nor ENABLED.

## 7. Not modelled

- Of the scheduler: the nil and read-only stores, and job tables edited by other
  processes, with them the guard against empty overwrites, which never bites while one
  process owns the file.
- Of the drift: targets without a unit, watchers without the opt-ins, revisions with
  identical trees, and an intermediate that two builds write at the same time (a build
  is one step, so the second replaces the first).
- Of the dashboard: creating and listing tasks, the phases of the workflow orchestrator,
  which run in sequence, and the pages.
- The event bus, heartbeats, the agent router and the file task queue; the blackboard;
  A2A; GOAP; the error algebra: each is small or a pure function, and comes after the
  parts above in the plan because nothing durable or irreversible depends on its
  interleavings.
- The behaviour tree engine's actions, the gardener, evolution, evaluation and
  benchmarks: their control is sequential and their results come from models,
  subprocesses and numeric search.
- Model adapters, prompts, tools, parsing, wiring, the user interface and the scripts.
