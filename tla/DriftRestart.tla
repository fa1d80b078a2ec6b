---------------------------- MODULE DriftRestart ----------------------------
(***************************************************************************)
(* Deploy drift: the daemons rebuild their own binaries when HEAD moves     *)
(* past the revision they run, and restart to adopt them                    *)
(* (internal/agent/deploy_drift.go, rebuild.go, restart_control.go, and the *)
(* admission gate of internal/reliability/restart_admission.go).            *)
(*                                                                          *)
(* bt-agent runs several watchers in one process -- the periodic one and    *)
(* the idle hook of its scheduler -- each with a RebuildBackoff of its own, *)
(* and nothing keeps their passes apart.  Each rebuilds the whole fleet and *)
(* asks the owners of the other units to restart themselves; the other      *)
(* units have one watcher, which rebuilds their own binary only.            *)
(* A revision is a commit number; a binary is the revision it was built     *)
(* from.  Both opt-ins (AutoRebuild, AutoRestart) are on.                   *)
(***************************************************************************)
EXTENDS Integers, Sequences, SequencesExt

CONSTANTS Sweep,        \* DefaultRebuildTargets: the units in their order, bt-agent first
          FleetWatchers,\* the watchers of bt-agent: StartDriftWatcher's and OnCycleIdle's
          MaxHead,      \* bound: commits that land
          MaxAttempts   \* RebuildBackoff.MaxAttempts

ASSUME SweepAssumption == Sweep \in Seq(ToSet(Sweep)) /\ Sweep # <<>> /\ IsInjective(Sweep)
ASSUME BoundsAssumption == MaxHead \in Nat /\ MaxAttempts \in Nat \ {0}

Fleet    == Head(Sweep)
Siblings == ToSet(Tail(Sweep))
Units    == ToSet(Sweep)
Watchers == FleetWatchers \cup Siblings
Revs     == 0 .. MaxHead
NoRev    == -1

ASSUME WatchersAssumption == FleetWatchers \cap Units = {}

\* The unit whose process runs a watcher.
Unit(w) == IF w \in FleetWatchers THEN Fleet ELSE w

VARIABLES head,     \* HEAD of the repository
          starts,   \* per revision: does its binary survive --version
          disk,     \* per unit: the binary at its path
          prev,     \* per unit: <bin>.previous
          new,      \* per process and target: the intermediate <bin>.new.<pid>
          stamp,    \* per unit: the adoption stamp
          running,  \* per unit: the revision its process runs
          work,     \* per unit: an execution holds a lease
          sealed,   \* per unit: admission is sealed for a restart
          handoff,  \* per unit: systemd may have been asked to restart it
          backoff,  \* per watcher: its RebuildBackoff
          pc, seen, tree, todo, \* per watcher: the step of DriftWatchOnce, its head, the checkout, the targets left
          ask,      \* per sibling: the restart requests its owner serves, by the watcher that sent them
          crossed   \* history: passes of two watchers of this process of bt-agent have overlapped

binaries == <<disk, prev, new, stamp>>
watcher  == <<pc, seen, tree, todo, backoff, crossed>>
process  == <<running, work, sealed, handoff>>
vars     == <<head, starts, binaries, watcher, process, ask>>

Answers == {"accepted", "refused"}  \* no other answer is told apart by the client
NoAsk   == [status |-> "none", rev |-> 0]
Fresh   == [head |-> NoRev, attempts |-> 0, built |-> FALSE]

TypeOK ==
  /\ head \in Revs /\ starts \in [Revs -> BOOLEAN]
  /\ disk \in [Units -> Revs] /\ prev \in [Units -> Revs] /\ stamp \in [Units -> Revs \cup {NoRev}]
  /\ new \in [Units -> [Units -> Revs \cup {NoRev}]]
  /\ running \in [Units -> Revs]
  /\ work \in [Units -> BOOLEAN] /\ sealed \in [Units -> BOOLEAN]
  /\ handoff \in [Units -> BOOLEAN]
  /\ backoff \in [Watchers -> [head: Revs \cup {NoRev}, attempts: 0 .. MaxAttempts, built: BOOLEAN]]
  /\ pc \in [Watchers -> {"idle", "materialize", "build", "backup", "swap", "smoke", "recheck", "sweep", "await", "self"}]
  /\ seen \in [Watchers -> Revs] /\ tree \in [Watchers -> Revs]
  /\ \A w \in Watchers : ToSet(todo[w]) \subseteq Units
  /\ ask \in [Siblings -> [FleetWatchers ->
              [status: {"none", "sent", "verifying", "restarting"} \cup Answers, rev: Revs]]]
  /\ crossed \in BOOLEAN

-----------------------------------------------------------------------------
(* The repository and the executions. *)

\* A commit lands; its binaries may not start.
Commit ==
  /\ head < MaxHead
  /\ head' = head + 1
  /\ UNCHANGED <<starts, binaries, watcher, process, ask>>

\* A process whose binary cannot start is restarted by systemd over and over.
Up(u) == starts[running[u]]

\* dashAnyInFlight and Gardener.AnyInFlight count a sealed gate; the scheduler of bt-agent has no gate.
Busy(u) == work[u] \/ sealed[u]

Acquire(u) ==
  /\ Up(u) /\ ~work[u] /\ ~sealed[u]
  /\ work' = [work EXCEPT ![u] = TRUE]
  /\ UNCHANGED <<head, starts, binaries, watcher, running, sealed, handoff, ask>>

Release(u) ==
  /\ work[u]
  /\ work' = [work EXCEPT ![u] = FALSE]
  /\ UNCHANGED <<head, starts, binaries, watcher, running, sealed, handoff, ask>>

-----------------------------------------------------------------------------
(* RebuildBackoff *)

\* Below the limit the delay since the last failure ends at some time; the ticks
\* before that are blocked, and a blocked tick changes nothing.
Allow(b) == b.head # head \/ b.attempts < MaxAttempts

Allowed(b) == IF b.head = head THEN b ELSE [Fresh EXCEPT !.head = head]

RecordFailure(b, h) ==
  LET n == IF b.head = h THEN b.attempts + 1 ELSE 1
  IN  [head |-> h, attempts |-> n, built |-> FALSE]

RecordSuccess(h) == [head |-> h, attempts |-> 0, built |-> TRUE]

-----------------------------------------------------------------------------
(* DriftWatchOnce: detection and rebuild *)

\* DriftWatchOnce returns, and with it its local state.
Return(w) ==
  /\ pc'   = [pc EXCEPT ![w] = "idle"]
  /\ seen' = [seen EXCEPT ![w] = 0]
  /\ tree' = [tree EXCEPT ![w] = 0]
  /\ todo' = [todo EXCEPT ![w] = <<>>]

Targets(w) == IF w \in FleetWatchers THEN Sweep ELSE <<w>>

\* A pass of the watcher begins; the other watchers of its process may be in one.
Begin(w, step) ==
  /\ seen' = [seen EXCEPT ![w] = head]
  /\ pc' = [pc EXCEPT ![w] = step]
  /\ crossed' = (crossed \/ (w \in FleetWatchers /\ \E v \in FleetWatchers \ {w} : pc[v] # "idle"))

\* A tick finds the process behind HEAD.  A head already built goes straight
\* to adoption; else the backoff and then the executions may hold the rebuild
\* (a tick the backoff blocks changes nothing).
Tick(w) ==
  LET b == backoff[w] IN
  /\ pc[w] = "idle" /\ Up(Unit(w)) /\ head # running[Unit(w)]
  /\ \/ /\ b.built /\ b.head = head
        /\ Begin(w, "smoke")
        /\ UNCHANGED <<backoff, todo>>
     \/ /\ ~(b.built /\ b.head = head)
        /\ Allow(b)
        /\ backoff' = [backoff EXCEPT ![w] = Allowed(b)]
        /\ IF Busy(Unit(w))
           THEN UNCHANGED <<seen, pc, todo, crossed>>
           ELSE /\ Begin(w, "materialize")
                /\ todo' = [todo EXCEPT ![w] = Targets(w)]
  /\ UNCHANGED <<head, starts, binaries, tree, process, ask>>

\* RebuildBinaries checks out HEAD, which may have moved since the tick read it.
Materialize(w) ==
  /\ pc[w] = "materialize"
  /\ tree' = [tree EXCEPT ![w] = head]
  /\ pc' = [pc EXCEPT ![w] = "build"]
  /\ UNCHANGED <<head, starts, binaries, seen, todo, backoff, crossed, process, ask>>

\* The next target is built into the intermediate, which bears the pid: the
\* watchers of one process share it.
Build(w) ==
  /\ pc[w] = "build"
  /\ new' = [new EXCEPT ![Unit(w)][Head(todo[w])] = tree[w]]
  /\ pc' = [pc EXCEPT ![w] = "backup"]
  /\ UNCHANGED <<head, starts, disk, prev, stamp, seen, tree, todo, backoff, crossed, process, ask>>

\* The installed binary is copied to <bin>.previous.
Backup(w) ==
  LET t == Head(todo[w]) IN
  /\ pc[w] = "backup"
  /\ prev' = [prev EXCEPT ![t] = disk[t]]
  /\ pc' = [pc EXCEPT ![w] = "swap"]
  /\ UNCHANGED <<head, starts, disk, new, stamp, seen, tree, todo, backoff, crossed, process, ask>>

\* The intermediate, whoever built it, is renamed over the binary; the last
\* target ends the rebuild.
Swap(w) ==
  LET t == Head(todo[w])
      n == new[Unit(w)][t]
  IN
  /\ pc[w] = "swap" /\ n # NoRev
  /\ disk' = [disk EXCEPT ![t] = n]
  /\ new'  = [new EXCEPT ![Unit(w)][t] = NoRev]
  /\ todo' = [todo EXCEPT ![w] = Tail(@)]
  /\ IF Len(todo[w]) = 1
     THEN /\ pc' = [pc EXCEPT ![w] = "smoke"]
          /\ tree' = [tree EXCEPT ![w] = 0]
          /\ backoff' = [backoff EXCEPT ![w] = RecordSuccess(seen[w])]
     ELSE /\ pc' = [pc EXCEPT ![w] = "build"]
          /\ UNCHANGED <<tree, backoff>>
  /\ UNCHANGED <<head, starts, prev, stamp, seen, crossed, process, ask>>

\* The checkout, a build, a backup or a rename fails; a rename must, when
\* another watcher took the intermediate.  The intermediate is removed, whoever
\* built it; later targets are left untouched, and earlier ones stay swapped.
RebuildFails(w) ==
  /\ \/ pc[w] = "materialize" /\ UNCHANGED new
     \/ /\ pc[w] \in {"build", "backup", "swap"}
        /\ new' = [new EXCEPT ![Unit(w)][Head(todo[w])] = NoRev]
  /\ Return(w)
  /\ backoff' = [backoff EXCEPT ![w] = RecordFailure(@, seen[w])]
  /\ UNCHANGED <<head, starts, disk, prev, stamp, crossed, process, ask>>

\* <bin>.previous is restored, or that fails too.
RollBack(u) == \/ disk' = [disk EXCEPT ![u] = prev[u]]
               \/ UNCHANGED disk

\* --version of a binary that starts may still not end in time.
Passes(w) == /\ starts[disk[Unit(w)]]
             /\ pc' = [pc EXCEPT ![w] = "recheck"]
             /\ UNCHANGED <<disk, seen, tree, todo, backoff>>

\* mutant
Smoke_KeepsMark(w) ==
  /\ pc[w] = "smoke"
  /\ Passes(w) \/ (Return(w) /\ RollBack(Unit(w)) /\ UNCHANGED backoff)
  /\ UNCHANGED <<head, starts, prev, new, stamp, crossed, process, ask>>

\* The daemon's own binary runs --version; on a failure the swap is rolled
\* back, and the built mark is cleared whether or not that succeeds.
Smoke(w) ==
  /\ pc[w] = "smoke"
  /\ \/ Passes(w)
     \/ /\ Return(w)
        /\ RollBack(Unit(w))
        /\ backoff' = [backoff EXCEPT ![w] = RecordFailure(@, seen[w])]
  /\ UNCHANGED <<head, starts, prev, new, stamp, crossed, process, ask>>

\* Work that began during the rebuild defers the restart.  A sibling seals its
\* own admission here; bt-agent, which has no gate, turns to the siblings.
Recheck(w) ==
  /\ pc[w] = "recheck"
  /\ IF Busy(Unit(w))
     THEN Return(w) /\ UNCHANGED sealed
     ELSE IF w \in FleetWatchers
     THEN /\ pc' = [pc EXCEPT ![w] = "sweep"]
          /\ todo' = [todo EXCEPT ![w] = Tail(Sweep)]
          /\ UNCHANGED <<seen, tree, sealed>>
     ELSE /\ pc' = [pc EXCEPT ![w] = "self"]
          /\ sealed' = [sealed EXCEPT ![w] = TRUE]
          /\ UNCHANGED <<seen, tree, todo>>
  /\ UNCHANGED <<head, starts, binaries, backoff, crossed, running, work, handoff, ask>>

-----------------------------------------------------------------------------
(* DriftWatchOnce of bt-agent: the siblings *)

NextSibling(w) == todo' = [todo EXCEPT ![w] = Tail(@)]

Sweeping(w) == w \in FleetWatchers /\ pc[w] = "sweep" /\ todo[w] # <<>>

\* A sibling that already adopted the head, or whose owner cannot be reached, is passed over.
PassSibling(w) ==
  LET t == Head(todo[w]) IN
  /\ Sweeping(w)
  /\ stamp[t] = seen[w] \/ starts[disk[t]]
  /\ NextSibling(w)
  /\ UNCHANGED <<head, starts, binaries, pc, seen, tree, backoff, crossed, process, ask>>

\* A sibling's binary fails its smoke test: its swap is rolled back, the built mark stays.
RollBackSibling(w) ==
  LET t == Head(todo[w]) IN
  /\ Sweeping(w)
  /\ stamp[t] # seen[w]
  /\ RollBack(t)
  /\ NextSibling(w)
  /\ UNCHANGED <<head, starts, prev, new, stamp, pc, seen, tree, backoff, crossed, process, ask>>

\* RequestOwnedRestart sends the revision to the sibling's owner.
AskSibling(w) ==
  LET t == Head(todo[w]) IN
  /\ Sweeping(w)
  /\ stamp[t] # seen[w] /\ starts[disk[t]] /\ Up(t)
  /\ ask[t][w] = NoAsk
  /\ ask' = [ask EXCEPT ![t][w] = [status |-> "sent", rev |-> seen[w]]]
  /\ pc' = [pc EXCEPT ![w] = "await"]
  /\ UNCHANGED <<head, starts, binaries, seen, tree, todo, backoff, crossed, process>>

\* The owner's answer: only an acceptance is stamped.
SiblingAnswers(w) ==
  LET t == Head(todo[w]) IN
  /\ w \in FleetWatchers /\ pc[w] = "await" /\ ask[t][w].status \in Answers
  /\ stamp' = IF ask[t][w].status = "accepted" THEN [stamp EXCEPT ![t] = seen[w]] ELSE stamp
  /\ ask' = [ask EXCEPT ![t][w] = NoAsk]
  /\ pc' = [pc EXCEPT ![w] = "sweep"]
  /\ NextSibling(w)
  /\ UNCHANGED <<head, starts, disk, prev, new, seen, tree, backoff, crossed, process>>

\* The answer does not come in time, or is lost; the owner goes on without its client.
GiveUpOnSibling(w) ==
  LET t == Head(todo[w]) IN
  /\ w \in FleetWatchers /\ pc[w] = "await"
  /\ ask' = IF ask[t][w].status \in Answers THEN [ask EXCEPT ![t][w] = NoAsk] ELSE ask
  /\ pc' = [pc EXCEPT ![w] = "sweep"]
  /\ NextSibling(w)
  /\ UNCHANGED <<head, starts, binaries, seen, tree, backoff, crossed, process>>

EndSweep(w) ==
  /\ pc[w] = "sweep" /\ todo[w] = <<>>
  /\ pc' = [pc EXCEPT ![w] = "self"]
  /\ UNCHANGED <<head, starts, binaries, seen, tree, todo, backoff, crossed, process, ask>>

-----------------------------------------------------------------------------
(* serveRestartControl: the owner's side, a request of watcher w *)

Status(t, w, s) == ask' = [ask EXCEPT ![t][w].status = s]

\* The answer to a client that has left is dropped.
Answer(t, w, s) ==
  IF pc[w] = "await" /\ Head(todo[w]) = t THEN Status(t, w, s)
  ELSE ask' = [ask EXCEPT ![t][w] = NoAsk]

\* The owner answers for what it runs, refuses while it works, is sealed for
\* another request or cannot tell that it is the unit's process, or seals its
\* admission.
Serve(t, w) ==
  /\ ask[t][w].status = "sent"
  /\ \/ running[t] = ask[t][w].rev /\ Answer(t, w, "accepted") /\ UNCHANGED sealed
     \/ Answer(t, w, "refused") /\ UNCHANGED sealed
     \/ /\ running[t] # ask[t][w].rev /\ ~Busy(t)
        /\ Status(t, w, "verifying")
        /\ sealed' = [sealed EXCEPT ![t] = TRUE]
  /\ UNCHANGED <<head, starts, binaries, watcher, running, work, handoff>>

\* mutant
VerifyArtifact_StaysSealed(t, w) ==
  /\ ask[t][w].status = "verifying"
  /\ \/ disk[t] = ask[t][w].rev /\ starts[disk[t]] /\ Status(t, w, "restarting")
     \/ Answer(t, w, "refused")
  /\ UNCHANGED <<head, starts, binaries, watcher, process>>

\* The installed binary must be of the requested revision; else, or when its
\* --version does not end in time, admission reopens.
VerifyArtifact(t, w) ==
  /\ ask[t][w].status = "verifying"
  /\ \/ /\ disk[t] = ask[t][w].rev /\ starts[disk[t]]
        /\ Status(t, w, "restarting") /\ UNCHANGED sealed
     \/ /\ Answer(t, w, "refused")
        /\ sealed' = [sealed EXCEPT ![t] = FALSE]
  /\ UNCHANGED <<head, starts, binaries, watcher, running, work, handoff>>

HandOff(u) == handoff' = [handoff EXCEPT ![u] = TRUE]

\* mutant
OwnerRestarts_Reopens(t, w) ==
  /\ ask[t][w].status = "restarting"
  /\ \/ Answer(t, w, "accepted") /\ HandOff(t) /\ UNCHANGED sealed
     \/ /\ Answer(t, w, "refused") /\ sealed' = [sealed EXCEPT ![t] = FALSE]
        /\ UNCHANGED handoff \/ HandOff(t)
  /\ UNCHANGED <<head, starts, binaries, watcher, running, work>>

\* The call of systemctl: accepted, proven rejected (admission reopens), or
\* failed after it started, when systemd may or may not have taken it.
OwnerRestarts(t, w) ==
  /\ ask[t][w].status = "restarting"
  /\ \/ Answer(t, w, "accepted") /\ HandOff(t) /\ UNCHANGED sealed
     \/ Answer(t, w, "refused") /\ UNCHANGED handoff /\ sealed' = [sealed EXCEPT ![t] = FALSE]
     \/ Answer(t, w, "refused") /\ HandOff(t) /\ UNCHANGED sealed
  /\ UNCHANGED <<head, starts, binaries, watcher, running, work>>

-----------------------------------------------------------------------------
(* The restart itself *)

\* driftRestartFn of the watcher's own unit, and the finish callback of its guard.
RestartSelf(w) ==
  LET u == Unit(w) IN
  /\ pc[w] = "self"
  /\ Return(w)
  /\ \/ /\ HandOff(u)
        /\ stamp' = [stamp EXCEPT ![u] = seen[w]]
        /\ UNCHANGED sealed
     \/ /\ sealed' = [sealed EXCEPT ![u] = FALSE]
        /\ UNCHANGED <<handoff, stamp>>
     \/ /\ HandOff(u)
        /\ UNCHANGED <<sealed, stamp>>
  /\ UNCHANGED <<head, starts, disk, prev, new, backoff, crossed, running, work, ask>>

\* A process is replaced by one of the binary on disk: its watchers begin
\* anew, and a new pid names new intermediates.
Reboot(u) ==
  LET Anew(f, v) == [w \in Watchers |-> IF Unit(w) = u THEN v ELSE f[w]] IN
  /\ running' = [running EXCEPT ![u] = disk[u]]
  /\ work'    = [work EXCEPT ![u] = FALSE]
  /\ sealed'  = [sealed EXCEPT ![u] = FALSE]
  /\ handoff' = [handoff EXCEPT ![u] = FALSE]
  /\ pc'      = Anew(pc, "idle")
  /\ seen'    = Anew(seen, 0)
  /\ tree'    = Anew(tree, 0)
  /\ todo'    = Anew(todo, <<>>)
  /\ backoff' = Anew(backoff, Fresh)
  /\ new'     = [new EXCEPT ![u] = [t \in Units |-> NoRev]]
  /\ crossed' = (crossed /\ u # Fleet)
  /\ ask'     = [t \in Siblings |-> [w \in FleetWatchers |->
                   IF t = u \/ (u = Fleet /\ ask[t][w].status \in Answers) THEN NoAsk ELSE ask[t][w]]]
  /\ UNCHANGED <<head, starts, disk, prev, stamp>>

\* systemd took the request (nothing obliges it to, when the call failed).
Adopt(u) == handoff[u] /\ Reboot(u)

\* A process dies, or cannot start, and systemd starts it again.
Crash(u) == Reboot(u)

-----------------------------------------------------------------------------
Init ==
  /\ head = 0
  /\ starts \in {s \in [Revs -> BOOLEAN] : s[0]}
  /\ disk = [u \in Units |-> 0] /\ prev = [u \in Units |-> 0]
  /\ new = [u \in Units |-> [t \in Units |-> NoRev]]
  /\ stamp = [u \in Units |-> NoRev]
  /\ running = [u \in Units |-> 0]
  /\ work = [u \in Units |-> FALSE] /\ sealed = [u \in Units |-> FALSE]
  /\ handoff = [u \in Units |-> FALSE]
  /\ backoff = [w \in Watchers |-> Fresh]
  /\ pc = [w \in Watchers |-> "idle"] /\ seen = [w \in Watchers |-> 0] /\ tree = [w \in Watchers |-> 0]
  /\ todo = [w \in Watchers |-> <<>>]
  /\ ask = [t \in Siblings |-> [w \in FleetWatchers |-> NoAsk]]
  /\ crossed = FALSE

Next ==
  \/ Commit
  \/ \E u \in Units : Acquire(u) \/ Release(u) \/ Adopt(u) \/ Crash(u)
  \/ \E w \in Watchers : \/ Tick(w) \/ Materialize(w) \/ Build(w) \/ Backup(w)
                         \/ Swap(w) \/ RebuildFails(w) \/ Smoke(w) \/ Recheck(w) \/ RestartSelf(w)
  \/ \E w \in FleetWatchers : \/ PassSibling(w) \/ RollBackSibling(w) \/ AskSibling(w)
                              \/ SiblingAnswers(w) \/ GiveUpOnSibling(w) \/ EndSweep(w)
  \/ \E t \in Siblings, w \in FleetWatchers :
       Serve(t, w) \/ VerifyArtifact(t, w) \/ OwnerRestarts(t, w)

Spec == Init /\ [][Next]_vars

-----------------------------------------------------------------------------
\* A unit with a gate is never restarted under its own work: from the moment
\* systemd may have been asked until the process ends, admission is sealed and
\* no execution holds a lease -- also when the outcome of the call is unknown
\* or the client that asked has left.
HandoffIsQuiet == \A u \in Siblings : handoff[u] => sealed[u] /\ ~work[u]

\* A seal has exactly one owner -- the unit's own watcher, a request being
\* served, or a handoff that may have been accepted -- so a proven rejection
\* never leaves a process that admits nothing, and the watcher and the
\* requests of bt-agent's two watchers never hold the seal together.
SealsAreOwned ==
  /\ TypeOK
  /\ \A u \in Siblings :
       LET serving == {w \in FleetWatchers : ask[u][w].status \in {"verifying", "restarting"}}
           owners  == {<<"request", w>> : w \in serving}
                        \cup {<<"watcher", w>> : w \in {x \in {u} : pc[x] = "self"}}
                        \cup {<<"handoff", w>> : w \in {x \in {u} : handoff[x]}}
       IN  IF sealed[u] THEN \E o \in owners : owners = {o} ELSE owners = {}

\* As long as the passes of bt-agent's watchers have not overlapped in this
\* process, what a watcher tested is what its restart adopts: past its smoke
\* test the binary on disk starts and is no older than the head it set out to
\* adopt, however builds failed, were rolled back by either watcher -- also
\* behind the back of the other's built mark -- and were skipped because the
\* watcher's own backoff had marked the head built.
HandsOverTested ==
  ~crossed => \A w \in FleetWatchers :
    pc[w] \in {"recheck", "sweep", "await", "self"} => starts[disk[Fleet]] /\ disk[Fleet] >= seen[w]

\* "A head the backoff already recorded as built needs no rebuild -- the
\* binaries on disk come from it; only adoption may still be pending"
\* (DriftWatchOnce), of bt-agent's own binary.  Overlapping passes break it.
BuiltIsInstalled ==
  \A w \in FleetWatchers :
    pc[w] = "idle" /\ backoff[w].built /\ backoff[w].head = head => disk[Fleet] = head
=============================================================================
