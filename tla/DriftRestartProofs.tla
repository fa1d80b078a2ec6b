-------------------------- MODULE DriftRestartProofs --------------------------
(***************************************************************************)
(* Quiet handoffs, owned seals and tested binaries, for any fleet, any     *)
(* number of watchers of bt-agent, of commits and any limit of attempts.   *)
(*                                                                         *)
(* A handoff is quiet because it is an owner of the seal and a sealed unit *)
(* has no work.  bt-agent hands over to what it tested as long as passes   *)
(* of its watchers have not overlapped: then one watcher at most is at     *)
(* work, a head some watcher has marked built is on disk, and the binary   *)
(* that a rollback would restore is no older than it either.               *)
(***************************************************************************)
EXTENDS DriftRestart, SequenceTheorems, TLAPS

WatcherOwns(u)    == pc[u] = "self"
RequestOwns(u, w) == ask[u][w].status \in {"verifying", "restarting"}
HandoffOwns(u)    == handoff[u]

\* SealsAreOwned, without its shapes and without sets.
OneOwner(u) ==
  /\ sealed[u] <=> WatcherOwns(u) \/ (\E w \in FleetWatchers : RequestOwns(u, w)) \/ HandoffOwns(u)
  /\ ~ (WatcherOwns(u) /\ HandoffOwns(u))
  /\ \A w \in FleetWatchers : RequestOwns(u, w) =>
       /\ ~ WatcherOwns(u) /\ ~ HandoffOwns(u)
       /\ \A v \in FleetWatchers : RequestOwns(u, v) => v = w

\* Admission is sealed only when there is no work, and admits none.
SealInv == \A u \in Siblings : OneOwner(u) /\ (sealed[u] => ~ work[u])

\* The shapes, with their sets named.
Memory   == [head : Revs \cup {NoRev}, attempts : 0 .. MaxAttempts, built : BOOLEAN]
Building == {"materialize", "build", "backup", "swap"}
Tested   == {"recheck", "sweep", "await", "self"}
Steps    == {"idle", "smoke"} \cup Building \cup Tested
Statuses == {"none", "sent", "verifying", "restarting"} \cup Answers
Requests == [status : Statuses, rev : Revs]
Stamps   == Revs \cup {NoRev}

RepositoryTypes == /\ head \in Revs /\ starts \in [Revs -> BOOLEAN]
                   /\ disk \in [Units -> Revs] /\ prev \in [Units -> Revs] /\ stamp \in [Units -> Stamps]
                   /\ new \in [Units -> [Units -> Stamps]]
ProcessTypes == /\ running \in [Units -> Revs] /\ work \in [Units -> BOOLEAN]
                /\ sealed \in [Units -> BOOLEAN] /\ handoff \in [Units -> BOOLEAN]
WatcherTypes == /\ backoff \in [Watchers -> Memory] /\ pc \in [Watchers -> Steps]
                /\ seen \in [Watchers -> Revs] /\ tree \in [Watchers -> Revs]
                /\ todo \in [Watchers -> Seq(Units)] /\ crossed \in BOOLEAN
AskTypes == ask \in [Siblings -> [FleetWatchers -> Requests]]

Types == RepositoryTypes /\ ProcessTypes /\ WatcherTypes /\ AskTypes

\* The watchers: a rebuild begins below the limit of attempts, a sibling builds nothing
\* but itself, the sweep visits siblings.
AttemptsOK == \A w \in Watchers :
  /\ backoff[w].built => backoff[w].attempts = 0
  /\ pc[w] \in Building \cup {"smoke"} => backoff[w].attempts < MaxAttempts

TargetsOK == \A w \in Watchers :
  /\ pc[w] \in Building => todo[w] # <<>> /\ (w \in FleetWatchers \/ todo[w] = <<w>>)
  /\ pc[w] \in {"sweep", "await"} => w \in FleetWatchers /\ todo[w] \in Seq(Siblings)
  /\ pc[w] = "await" => todo[w] # <<>>

WatchersOK == AttemptsOK /\ TargetsOK

\* A watcher of bt-agent: the head it adopts, the checkout and its built mark.
MarkOK(w) ==
  /\ seen[w] <= head /\ backoff[w].head <= head
  /\ pc[w] \in Building => ~ backoff[w].built
  /\ pc[w] \in {"smoke"} \cup Tested => backoff[w].built /\ backoff[w].head = seen[w]
  /\ pc[w] = "materialize" => todo[w] = Sweep
  /\ pc[w] \in {"build", "backup", "swap"} => tree[w] >= seen[w]

MarksOK == \A w \in FleetWatchers : MarkOK(w)

\* The watcher has marked HEAD built; its pass has replaced bt-agent's binary,
\* or has backed it up.
Live(w)     == backoff[w].built /\ backoff[w].head = head
Swapped(w)  == \/ pc[w] \in {"smoke"} \cup Tested
               \/ pc[w] \in {"build", "backup", "swap"} /\ todo[w] # Sweep
BackedUp(w) == Swapped(w) \/ pc[w] = "swap"

\* What is on disk, against what the watcher rebuilds or has marked built.
DiskOK(w) ==
  /\ pc[w] = "idle" /\ Live(w) => disk[Fleet] >= head
  /\ Swapped(w) => disk[Fleet] >= seen[w]
  /\ pc[w] \in Tested => starts[disk[Fleet]]
  /\ pc[w] \in {"backup", "swap"} => new[Fleet][Head(todo[w])] = tree[w]

\* While one watcher is at work the others are not, and it adopts no head
\* older than one they have marked built.
AloneOK(v, w) ==
  pc[w] # "idle" => pc[v] = "idle" /\ (Live(v) => seen[w] >= head)

\* A rollback restores no binary older than a head that another watcher has marked built.
LastOK(v, w) == (BackedUp(w) \/ Live(w)) /\ Live(v) => prev[Fleet] >= head

UncrossedOK == ~ crossed =>
  /\ \A w \in FleetWatchers : DiskOK(w)
  /\ \A w \in FleetWatchers, v \in FleetWatchers : v # w => AloneOK(v, w) /\ LastOK(v, w)

FleetInv == MarksOK /\ UncrossedOK

DriftInv == Types /\ WatchersOK /\ SealInv /\ FleetInv

-----------------------------------------------------------------------------
\* A sequence is one over any set that holds its members.
LEMMA SeqOfMembers ==
  ASSUME NEW S, NEW T, NEW s \in Seq(T), \A i \in 1..Len(s) : s[i] \in S
  PROVE  s \in Seq(S)
<1>1. PICK n \in Nat : s \in [1..n -> T]
  BY SeqDef
<1>2. Len(s) = n
  BY <1>1
<1>3. s \in [1..n -> S]
  BY <1>1, <1>2
<1> QED BY <1>3, SeqDef

\* bt-agent comes first and only once.
LEMMA FleetIsFirst ==
  /\ Fleet \in Units /\ Fleet \notin Siblings /\ Siblings \subseteq Units
  /\ \A u \in Units : u = Fleet \/ u \in Siblings
  /\ Sweep \in Seq(Units) /\ Tail(Sweep) \in Seq(Units) /\ Sweep # <<>>
  /\ Tail(Sweep) \in Seq(Siblings)
<1>1. /\ Sweep \in Seq(Units) /\ Sweep # <<>> /\ Len(Sweep) \in Nat \ {0}
      /\ DOMAIN Sweep = 1..Len(Sweep)
  BY SweepAssumption DEF Units
<1>2. /\ Tail(Sweep) \in Seq(Units) /\ Len(Tail(Sweep)) = Len(Sweep) - 1
      /\ DOMAIN Tail(Sweep) = 1..(Len(Sweep) - 1)
      /\ \A i \in 1..(Len(Sweep) - 1) : Tail(Sweep)[i] = Sweep[i + 1]
  BY <1>1
<1>3. Fleet = Sweep[1] /\ Fleet \in Units
  BY <1>1 DEF Fleet, Units, ToSet
<1>4. \A i \in 1..(Len(Sweep) - 1) : Sweep[i + 1] # Sweep[1] /\ Sweep[i + 1] \in Units
  BY <1>1, SweepAssumption DEF IsInjective, Units, ToSet
<1>5. \A u \in Siblings : \E i \in 1..(Len(Sweep) - 1) : u = Sweep[i + 1]
  BY <1>2 DEF Siblings, ToSet
<1>6. ASSUME NEW u \in Units, u # Fleet PROVE u \in Siblings
  <2>1. PICK i \in 1..Len(Sweep) : u = Sweep[i]
    BY <1>1 DEF Units, ToSet
  <2>2. i - 1 \in 1..(Len(Sweep) - 1) /\ Tail(Sweep)[i - 1] = u
    BY <1>1, <1>2, <1>3, <1>6, <2>1
  <2> QED BY <1>2, <2>2 DEF Siblings, ToSet
<1>7. Tail(Sweep) \in Seq(Siblings)
  <2>1. \A i \in 1..(Len(Sweep) - 1) : Tail(Sweep)[i] \in Siblings
    BY <1>2 DEF Siblings, ToSet
  <2> QED BY <1>2, <2>1, SeqOfMembers
<1> QED BY <1>1, <1>2, <1>3, <1>4, <1>5, <1>6, <1>7

\* What a list of targets that is not empty is made of.
LEMMA Targeted ==
  ASSUME NEW S, NEW s \in Seq(S), s # <<>>
  PROVE  Head(s) \in S /\ Tail(s) \in Seq(S) /\ (Len(s) # 1 => Tail(s) # <<>>)
<1>1. Len(s) \in Nat /\ Len(s) # 0 /\ Head(s) = s[1] /\ s[1] \in S
  OBVIOUS
<1>2. Tail(s) \in Seq(S) /\ Len(Tail(s)) = Len(s) - 1
  BY <1>1
<1>3. Len(<<>>) = 0
  OBVIOUS
<1> QED BY <1>1, <1>2, <1>3

\* A list of one target.
LEMMA OneTarget ==
  ASSUME NEW S, NEW e \in S
  PROVE  <<e>> \in Seq(S) /\ Len(<<e>>) = 1 /\ Head(<<e>>) = e /\ <<e>> # <<>> /\ Tail(<<e>>) = <<>>
OBVIOUS

\* The elements of a list of targets are units.
LEMMA InUnits == \A s \in Seq(Units) : ToSet(s) \subseteq Units
BY DEF ToSet

\* A watcher of bt-agent runs in its process; any other unit is its own watcher.
LEMMA WatchersAre ==
  /\ \A w \in Watchers : Unit(w) \in Units /\ (w \notin FleetWatchers => w \in Siblings)
  /\ \A w \in FleetWatchers : w \in Watchers /\ Unit(w) = Fleet
  /\ \A w \in Siblings : w \in Watchers /\ w \notin FleetWatchers /\ Unit(w) = w /\ w # Fleet
BY FleetIsFirst, WatchersAssumption DEF Watchers, Unit

\* The named sets are those of TypeOK.
LEMMA TypesAreShapes == Types => TypeOK
BY InUnits DEF Types, RepositoryTypes, ProcessTypes, WatcherTypes, AskTypes, TypeOK,
   Memory, Steps, Building, Tested, Statuses, Requests, Stamps

\* The seal has one owner.
LEMMA OwnersAreOne ==
  ASSUME Types, SealInv
  PROVE  SealsAreOwned
<1> SUFFICES ASSUME NEW u \in Siblings
             PROVE  LET serving == {w \in FleetWatchers : ask[u][w].status \in {"verifying", "restarting"}}
                        owners  == {<<"request", w>> : w \in serving}
                                     \cup {<<"watcher", w>> : w \in {x \in {u} : pc[x] = "self"}}
                                     \cup {<<"handoff", w>> : w \in {x \in {u} : handoff[x]}}
                    IN  IF sealed[u] THEN \E o \in owners : owners = {o} ELSE owners = {}
  BY TypesAreShapes DEF SealsAreOwned
<1> DEFINE serving == {w \in FleetWatchers : ask[u][w].status \in {"verifying", "restarting"}}
           watching == {x \in {u} : pc[x] = "self"}
           handing == {x \in {u} : handoff[x]}
           owners == {<<"request", w>> : w \in serving} \cup {<<"watcher", w>> : w \in watching}
                       \cup {<<"handoff", w>> : w \in handing}
<1>1. OneOwner(u)
  BY DEF SealInv
<1>2. CASE WatcherOwns(u)
  <2>1. serving = {} /\ watching = {u} /\ handing = {} /\ sealed[u]
    BY <1>1, <1>2 DEF OneOwner, WatcherOwns, RequestOwns, HandoffOwns
  <2>2. owners = {<<"watcher", u>>}
    BY <2>1
  <2> QED BY <2>1, <2>2
<1>3. ASSUME NEW v \in FleetWatchers, RequestOwns(u, v)
      PROVE  sealed[u] /\ owners = {<<"request", v>>}
  <2>1. serving = {v} /\ watching = {} /\ handing = {} /\ sealed[u]
    BY <1>1, <1>3 DEF OneOwner, WatcherOwns, RequestOwns, HandoffOwns
  <2> QED BY <2>1
<1>4. CASE HandoffOwns(u)
  <2>1. serving = {} /\ watching = {} /\ handing = {u} /\ sealed[u]
    BY <1>1, <1>4 DEF OneOwner, WatcherOwns, RequestOwns, HandoffOwns
  <2>2. owners = {<<"handoff", u>>}
    BY <2>1
  <2> QED BY <2>1, <2>2
<1>5. CASE ~ WatcherOwns(u) /\ ~ HandoffOwns(u) /\ \A w \in FleetWatchers : ~ RequestOwns(u, w)
  <2>1. serving = {} /\ watching = {} /\ handing = {} /\ ~ sealed[u]
    BY <1>1, <1>5 DEF OneOwner, WatcherOwns, RequestOwns, HandoffOwns
  <2> QED BY <2>1
<1> QED BY <1>2, <1>3, <1>4, <1>5

-----------------------------------------------------------------------------
\* What RebuildBackoff remembers keeps its shape.
LEMMA BackoffShapes ==
  /\ Fresh \in Memory /\ 0 \in Revs
  /\ \A h \in Revs : RecordSuccess(h) \in Memory
  /\ \A h \in Revs, b \in Memory : b.attempts < MaxAttempts => RecordFailure(b, h) \in Memory
  /\ \A b \in Memory : head \in Revs => Allowed(b) \in Memory
<1>1. Fresh \in Memory /\ 0 \in Revs /\ \A h \in Revs : RecordSuccess(h) \in Memory
  BY BoundsAssumption DEF Fresh, Memory, Revs, NoRev, RecordSuccess
<1>2. ASSUME NEW h \in Revs, NEW b \in Memory, b.attempts < MaxAttempts
      PROVE  RecordFailure(b, h) \in Memory
  <2>1. b.attempts \in 0 .. MaxAttempts /\ b.attempts + 1 \in 0 .. MaxAttempts /\ 1 \in 0 .. MaxAttempts
    BY <1>2, BoundsAssumption DEF Memory
  <2>2. \A n \in 0 .. MaxAttempts :
          [head |-> h, attempts |-> n, built |-> FALSE] \in Memory
    BY DEF Memory
  <2> QED BY <2>1, <2>2 DEF RecordFailure
<1>3. \A b \in Memory : head \in Revs => Allowed(b) \in Memory
  <2> SUFFICES ASSUME NEW b \in Memory, head \in Revs PROVE Allowed(b) \in Memory
    OBVIOUS
  <2>1. \A c \in Memory : [c EXCEPT !.head = head] \in Memory
    BY DEF Memory
  <2> QED BY <1>1, <2>1 DEF Allowed
<1> QED BY <1>1, <1>2, <1>3

\* What an owner is asked keeps its shape.
LEMMA RequestShapes ==
  /\ NoAsk \in Requests
  /\ \A r \in Revs : [status |-> "sent", rev |-> r] \in Requests
  /\ \A q \in Requests, st \in Statuses : [q EXCEPT !.status = st] \in Requests
BY BoundsAssumption DEF Requests, Statuses, NoAsk, Revs

-----------------------------------------------------------------------------
\* DriftWatchOnce returns: its local state keeps its shape.
LEMMA ReturnShapes ==
  ASSUME NEW w \in Watchers, WatcherTypes, Return(w)
  PROVE  /\ pc' \in [Watchers -> Steps] /\ seen' \in [Watchers -> Revs] /\ tree' \in [Watchers -> Revs]
         /\ todo' \in [Watchers -> Seq(Units)]
<1>1. <<>> \in Seq(Units) /\ "idle" \in Steps /\ 0 \in Revs
  BY BackoffShapes DEF Steps
<1> QED BY <1>1 DEF Return, WatcherTypes

\* The targets of a watcher are units.
LEMMA TargetsAreUnits == \A w \in Watchers : Targets(w) \in Seq(Units)
BY FleetIsFirst, WatchersAre, OneTarget DEF Targets

\* The target at hand is a unit; a sibling's watcher builds itself.
LEMMA TheTarget ==
  ASSUME Types, WatchersOK, NEW w \in Watchers, pc[w] \in Building
  PROVE  /\ Head(todo[w]) \in Units /\ Tail(todo[w]) \in Seq(Units)
         /\ w \notin FleetWatchers => Head(todo[w]) = w /\ Len(todo[w]) = 1
         /\ Len(todo[w]) # 1 => Tail(todo[w]) # <<>>
<1>1. todo[w] \in Seq(Units) /\ todo[w] # <<>>
  BY DEF Types, WatcherTypes, WatchersOK, TargetsOK
<1>2. w \notin FleetWatchers => todo[w] = <<w>>
  BY DEF WatchersOK, TargetsOK
<1> QED BY <1>1, <1>2, Targeted, OneTarget, WatchersAre

\* Every step keeps the shapes of the repository's and the units' binaries.
LEMMA RepositoryKept ==
  ASSUME Types, WatchersOK, Next
  PROVE  RepositoryTypes'
<1> USE FleetIsFirst, WatchersAre DEF Types, RepositoryTypes, WatcherTypes, Stamps, binaries
<1>1. CASE Commit
  BY <1>1, BoundsAssumption DEF Commit, Revs
<1>2. ASSUME NEW w \in Watchers, NEW t \in Units, NEW s \in Stamps,
             new' = [new EXCEPT ![Unit(w)][t] = s]
      PROVE  new' \in [Units -> [Units -> Stamps]]
  <2> DEFINE row == [new[Unit(w)] EXCEPT ![t] = s]
  <2>1. row \in [Units -> Stamps]
    OBVIOUS
  <2>2. new' = [new EXCEPT ![Unit(w)] = row]
    BY <1>2
  <2> HIDE DEF row
  <2> QED BY <2>1, <2>2
<1>3. ASSUME NEW w \in Watchers, Build(w) PROVE RepositoryTypes'
  <2>1. Head(todo[w]) \in Units
    BY <1>3, TheTarget DEF Build, Building
  <2> QED BY <1>2, <1>3, <2>1 DEF Build
<1>4. ASSUME NEW w \in Watchers, Backup(w) PROVE RepositoryTypes'
  <2>1. Head(todo[w]) \in Units
    BY <1>4, TheTarget DEF Backup, Building
  <2> QED BY <1>4, <2>1 DEF Backup
<1>5. ASSUME NEW w \in Watchers, Swap(w) PROVE RepositoryTypes'
  <2>1. Head(todo[w]) \in Units
    BY <1>5, TheTarget DEF Swap, Building
  <2>2. new[Unit(w)][Head(todo[w])] \in Revs
    BY <1>5, <2>1 DEF Swap
  <2>3. /\ disk' = [disk EXCEPT ![Head(todo[w])] = new[Unit(w)][Head(todo[w])]]
        /\ new' = [new EXCEPT ![Unit(w)][Head(todo[w])] = NoRev]
        /\ UNCHANGED <<head, starts, prev, stamp>>
    BY <1>5 DEF Swap
  <2> QED BY <1>2, <2>1, <2>2, <2>3
<1>6. ASSUME NEW w \in Watchers, RebuildFails(w) PROVE RepositoryTypes'
  <2>1. CASE UNCHANGED new
    BY <1>6, <2>1 DEF RebuildFails
  <2>2. CASE pc[w] \in {"build", "backup", "swap"} /\ new' = [new EXCEPT ![Unit(w)][Head(todo[w])] = NoRev]
    <3>1. Head(todo[w]) \in Units
      BY <2>2, TheTarget DEF Building
    <3> QED BY <1>2, <1>6, <2>2, <3>1 DEF RebuildFails
  <2> QED BY <1>6, <2>1, <2>2 DEF RebuildFails
<1>7. ASSUME NEW w \in Watchers, Smoke(w) PROVE RepositoryTypes'
  BY <1>7 DEF Smoke, Passes, RollBack
<1>8. ASSUME NEW w \in Watchers, RestartSelf(w) PROVE RepositoryTypes'
  BY <1>8 DEF RestartSelf
<1>9. ASSUME NEW w \in FleetWatchers, RollBackSibling(w) PROVE RepositoryTypes'
  BY <1>9 DEF RollBackSibling, RollBack
<1>10. ASSUME NEW w \in FleetWatchers, SiblingAnswers(w) PROVE RepositoryTypes'
  BY <1>10 DEF SiblingAnswers
<1>11. ASSUME NEW u \in Units, Reboot(u) PROVE RepositoryTypes'
  BY <1>11 DEF Reboot
<1>12. CASE UNCHANGED <<head, starts, binaries>>
  BY <1>12
<1>13. ASSUME ~ Commit, \A u \in Units : ~ Reboot(u),
              \A w \in FleetWatchers : ~ RollBackSibling(w) /\ ~ SiblingAnswers(w),
              \A w \in Watchers : ~ Build(w) /\ ~ Backup(w) /\ ~ Swap(w) /\ ~ RebuildFails(w)
                                   /\ ~ Smoke(w) /\ ~ RestartSelf(w)
       PROVE  UNCHANGED <<head, starts, binaries>>
  BY <1>13 DEF Next, Acquire, Release, Adopt, Crash, Tick, Materialize,
     Recheck, PassSibling, AskSibling, GiveUpOnSibling, EndSweep, Serve, VerifyArtifact, OwnerRestarts
<1> QED BY <1>1, <1>3, <1>4, <1>5, <1>6, <1>7, <1>8, <1>9, <1>10, <1>11, <1>12, <1>13

\* Every step keeps the shapes of the processes.
LEMMA ProcessKept ==
  ASSUME Types, Next
  PROVE  ProcessTypes'
<1> USE FleetIsFirst, WatchersAre DEF Types, ProcessTypes, RepositoryTypes, process, HandOff
<1>1. ASSUME NEW u \in Units, Acquire(u) PROVE ProcessTypes'
  BY <1>1 DEF Acquire
<1>2. ASSUME NEW u \in Units, Release(u) PROVE ProcessTypes'
  BY <1>2 DEF Release
<1>3. ASSUME NEW u \in Units, Reboot(u) PROVE ProcessTypes'
  BY <1>3 DEF Reboot
<1>5. ASSUME NEW w \in Watchers, Recheck(w) PROVE ProcessTypes'
  BY <1>5 DEF Recheck
<1>6. ASSUME NEW w \in Watchers, RestartSelf(w) PROVE ProcessTypes'
  BY <1>6 DEF RestartSelf
<1>7. ASSUME NEW t \in Siblings, NEW w \in FleetWatchers, Serve(t, w) PROVE ProcessTypes'
  BY <1>7 DEF Serve
<1>8. ASSUME NEW t \in Siblings, NEW w \in FleetWatchers, VerifyArtifact(t, w) PROVE ProcessTypes'
  BY <1>8 DEF VerifyArtifact
<1>9. ASSUME NEW t \in Siblings, NEW w \in FleetWatchers, OwnerRestarts(t, w) PROVE ProcessTypes'
  BY <1>9 DEF OwnerRestarts
<1>10. ASSUME \A u \in Units : ~ Acquire(u) /\ ~ Release(u) /\ ~ Reboot(u),
              \A w \in Watchers : ~ Recheck(w) /\ ~ RestartSelf(w),
              \A t \in Siblings, w \in FleetWatchers : ~ Serve(t, w) /\ ~ VerifyArtifact(t, w) /\ ~ OwnerRestarts(t, w)
       PROVE  UNCHANGED process
  BY <1>10 DEF Next, Adopt, Crash, Commit, Tick, Materialize, Build, Backup, Swap, RebuildFails, Smoke,
     PassSibling, RollBackSibling, AskSibling, SiblingAnswers, GiveUpOnSibling, EndSweep
<1>11. CASE UNCHANGED process
  BY <1>11
<1> QED BY <1>1, <1>2, <1>3, <1>5, <1>6, <1>7, <1>8, <1>9, <1>10, <1>11

\* A request changes.
LEMMA OneRequest ==
  ASSUME AskTypes, NEW t \in Siblings, NEW w \in FleetWatchers, NEW q \in Requests,
         ask' = [ask EXCEPT ![t][w] = q]
  PROVE  AskTypes' /\ ask'[t][w] = q
<1> DEFINE row == [ask[t] EXCEPT ![w] = q]
<1>1. row \in [FleetWatchers -> Requests] /\ row[w] = q
  BY DEF AskTypes
<1>2. ask' = [ask EXCEPT ![t] = row]
  OBVIOUS
<1> HIDE DEF row
<1> QED BY <1>1, <1>2 DEF AskTypes

\* The others do not.
LEMMA OtherRequests ==
  ASSUME AskTypes, NEW t \in Siblings, NEW w \in FleetWatchers, NEW q \in Requests,
         ask' = [ask EXCEPT ![t][w] = q],
         NEW x \in Siblings, NEW v \in FleetWatchers, x # t \/ v # w
  PROVE  ask'[x][v] = ask[x][v]
<1>1. CASE x # t
  BY <1>1 DEF AskTypes
<1>2. CASE x = t
  <2>1. v # w
    BY <1>2
  <2> QED BY <1>2, <2>1 DEF AskTypes
<1> QED BY <1>1, <1>2

\* A new status.
LEMMA StatusIs ==
  ASSUME AskTypes, NEW t \in Siblings, NEW w \in FleetWatchers, NEW st \in Statuses, Status(t, w, st)
  PROVE  /\ AskTypes'
         /\ ask'[t][w].status = st
         /\ \A x \in Siblings, v \in FleetWatchers : x # t \/ v # w => ask'[x][v] = ask[x][v]
<1>1. [ask[t][w] EXCEPT !.status = st] \in Requests /\ [ask[t][w] EXCEPT !.status = st].status = st
  <2>1. ask[t][w] \in Requests
    BY DEF AskTypes
  <2> QED BY <2>1, RequestShapes DEF Requests
<1>2. PICK q \in Requests : q.status = st /\ ask' = [ask EXCEPT ![t][w] = q]
  BY <1>1 DEF Status
<1>3. ask'[t][w] = q /\ AskTypes'
  BY <1>2, OneRequest
<1>4. \A x \in Siblings, v \in FleetWatchers : x # t \/ v # w => ask'[x][v] = ask[x][v]
  BY <1>2, OtherRequests
<1> QED BY <1>2, <1>3, <1>4

\* The answer reaches its client, or is dropped.
LEMMA AnswerIs ==
  ASSUME AskTypes, NEW t \in Siblings, NEW w \in FleetWatchers, NEW st \in Answers, Answer(t, w, st)
  PROVE  /\ AskTypes'
         /\ ask'[t][w].status \in Answers \cup {"none"}
         /\ \A x \in Siblings, v \in FleetWatchers : x # t \/ v # w => ask'[x][v] = ask[x][v]
<1>1. CASE Status(t, w, st)
  <2>1. st \in Statuses
    BY DEF Statuses
  <2> QED BY <1>1, <2>1, StatusIs
<1>2. CASE ask' = [ask EXCEPT ![t][w] = NoAsk]
  <2>1. NoAsk \in Requests /\ NoAsk.status = "none"
    BY RequestShapes DEF NoAsk
  <2>2. AskTypes' /\ ask'[t][w] = NoAsk
    BY <1>2, <2>1, OneRequest
  <2>3. \A x \in Siblings, v \in FleetWatchers : x # t \/ v # w => ask'[x][v] = ask[x][v]
    BY <1>2, <2>1, OtherRequests
  <2> QED BY <2>1, <2>2, <2>3
<1> QED BY <1>1, <1>2 DEF Answer

\* Every step keeps the shapes of the requests.
LEMMA AskKept ==
  ASSUME Types, WatchersOK, Next
  PROVE  AskTypes'
<1> USE FleetIsFirst, WatchersAre, RequestShapes DEF Types, RepositoryTypes, WatcherTypes
<1>1. ASSUME NEW u \in Units, Reboot(u) PROVE AskTypes'
  BY <1>1 DEF Reboot, AskTypes
<1>2. ASSUME NEW w \in FleetWatchers, pc[w] \in {"sweep", "await"}, todo[w] # <<>>
      PROVE  Head(todo[w]) \in Siblings
  BY <1>2, Targeted DEF WatchersOK, TargetsOK
<1>3. ASSUME NEW w \in FleetWatchers, AskSibling(w) PROVE AskTypes'
  BY <1>2, <1>3, OneRequest DEF AskSibling, Sweeping
<1>4. ASSUME NEW w \in FleetWatchers, SiblingAnswers(w) PROVE AskTypes'
  BY <1>2, <1>4, OneRequest DEF SiblingAnswers, WatchersOK, TargetsOK
<1>5. ASSUME NEW w \in FleetWatchers, GiveUpOnSibling(w) PROVE AskTypes'
  <2>1. ask' = ask \/ ask' = [ask EXCEPT ![Head(todo[w])][w] = NoAsk]
    BY <1>5 DEF GiveUpOnSibling
  <2>2. ask' = ask => AskTypes'
    BY DEF AskTypes
  <2> QED BY <1>2, <1>5, <2>1, <2>2, OneRequest DEF GiveUpOnSibling, WatchersOK, TargetsOK
<1>6. ASSUME NEW t \in Siblings, NEW w \in FleetWatchers, Serve(t, w) PROVE AskTypes'
  BY <1>6, StatusIs, AnswerIs DEF Serve, Statuses, Answers
<1>7. ASSUME NEW t \in Siblings, NEW w \in FleetWatchers, VerifyArtifact(t, w) PROVE AskTypes'
  BY <1>7, StatusIs, AnswerIs DEF VerifyArtifact, Statuses, Answers
<1>8. ASSUME NEW t \in Siblings, NEW w \in FleetWatchers, OwnerRestarts(t, w) PROVE AskTypes'
  BY <1>8, AnswerIs DEF OwnerRestarts, Answers
<1>9. ASSUME \A w \in FleetWatchers : ~ AskSibling(w) /\ ~ SiblingAnswers(w) /\ ~ GiveUpOnSibling(w),
             \A u \in Units : ~ Reboot(u),
             \A t \in Siblings, w \in FleetWatchers : ~ Serve(t, w) /\ ~ VerifyArtifact(t, w) /\ ~ OwnerRestarts(t, w)
      PROVE  UNCHANGED ask
  BY <1>9 DEF Next, Adopt, Crash, Commit, Acquire, Release, Tick, Materialize, Build, Backup, Swap,
     RebuildFails, Smoke, Recheck, RestartSelf, PassSibling, RollBackSibling, EndSweep
<1>10. CASE UNCHANGED ask
  BY <1>10 DEF AskTypes
<1> QED BY <1>1, <1>3, <1>4, <1>5, <1>6, <1>7, <1>8, <1>9, <1>10

\* A rebuild that may still fail has an attempt left.
LEMMA BelowTheLimit ==
  ASSUME Types, WatchersOK, NEW w \in Watchers, pc[w] \in Building \cup {"smoke"}
  PROVE  backoff[w].attempts < MaxAttempts /\ RecordFailure(backoff[w], seen[w]) \in Memory
BY BackoffShapes DEF WatchersOK, AttemptsOK, Types, WatcherTypes

\* Every step keeps the shapes of the watchers.
LEMMA WatcherKept ==
  ASSUME Types, WatchersOK, Next
  PROVE  WatcherTypes'
<1> USE DEF Types, RepositoryTypes, WatcherTypes, watcher
<1>a. /\ Steps = {"idle", "smoke", "materialize", "build", "backup", "swap", "recheck", "sweep", "await", "self"}
      /\ \A w \in FleetWatchers : w \in Watchers
  BY WatchersAre DEF Steps, Building, Tested
<1>1. ASSUME NEW u \in Units, Reboot(u) PROVE WatcherTypes'
  <2>1. <<>> \in Seq(Units) /\ "idle" \in Steps
    BY <1>a
  <2> QED BY <1>1, <2>1, BackoffShapes DEF Reboot
<1>3. ASSUME NEW w \in Watchers, Tick(w) PROVE WatcherTypes'
  <2>1. Allowed(backoff[w]) \in Memory /\ Targets(w) \in Seq(Units)
    BY TargetsAreUnits, BackoffShapes
  <2>2. /\ pc' = pc \/ \E x \in {"smoke", "materialize"} : pc' = [pc EXCEPT ![w] = x]
        /\ seen' = seen \/ seen' = [seen EXCEPT ![w] = head]
        /\ todo' = todo \/ todo' = [todo EXCEPT ![w] = Targets(w)]
        /\ backoff' = backoff \/ backoff' = [backoff EXCEPT ![w] = Allowed(backoff[w])]
        /\ tree' = tree /\ crossed' \in BOOLEAN
    BY <1>3 DEF Tick, Begin
  <2>3. pc' \in [Watchers -> Steps]
    BY <1>a, <2>2
  <2>4. seen' \in [Watchers -> Revs] /\ tree' \in [Watchers -> Revs]
    BY <2>2, BackoffShapes
  <2>5. todo' \in [Watchers -> Seq(Units)]
    BY <2>1, <2>2
  <2>6. backoff' \in [Watchers -> Memory]
    BY <2>1, <2>2
  <2> QED BY <2>2, <2>3, <2>4, <2>5, <2>6
<1>4. ASSUME NEW w \in Watchers, Materialize(w) \/ Build(w) \/ Backup(w) PROVE WatcherTypes'
  <2>1. \/ /\ tree' = tree \/ tree' = [tree EXCEPT ![w] = head]
        /\ \E x \in Steps : pc' = [pc EXCEPT ![w] = x]
        /\ UNCHANGED <<seen, todo, backoff, crossed>>
    BY <1>4, <1>a DEF Materialize, Build, Backup
  <2> QED BY <2>1
<1>5. ASSUME NEW w \in Watchers, Swap(w) PROVE WatcherTypes'
  <2>1. Tail(todo[w]) \in Seq(Units) /\ RecordSuccess(seen[w]) \in Memory
    BY <1>5, TheTarget, BackoffShapes DEF Swap, Building
  <2>2. /\ pc' = [pc EXCEPT ![w] = "build"] \/ pc' = [pc EXCEPT ![w] = "smoke"]
        /\ tree' = tree \/ tree' = [tree EXCEPT ![w] = 0]
        /\ todo' = [todo EXCEPT ![w] = Tail(todo[w])]
        /\ backoff' = backoff \/ backoff' = [backoff EXCEPT ![w] = RecordSuccess(seen[w])]
        /\ seen' = seen /\ crossed' = crossed
    BY <1>5 DEF Swap
  <2>3. pc' \in [Watchers -> Steps]
    BY <1>a, <2>2
  <2>4. seen' \in [Watchers -> Revs] /\ tree' \in [Watchers -> Revs]
    BY <2>2, BackoffShapes
  <2>5. todo' \in [Watchers -> Seq(Units)]
    BY <2>1, <2>2
  <2>6. backoff' \in [Watchers -> Memory]
    BY <2>1, <2>2
  <2> QED BY <2>2, <2>3, <2>4, <2>5, <2>6
<1>6. ASSUME NEW w \in Watchers, RebuildFails(w) PROVE WatcherTypes'
  <2>1. RecordFailure(backoff[w], seen[w]) \in Memory
    BY <1>6, BelowTheLimit DEF RebuildFails, Building
  <2>2. Return(w) /\ backoff' = [backoff EXCEPT ![w] = RecordFailure(backoff[w], seen[w])] /\ crossed' = crossed
    BY <1>6 DEF RebuildFails
  <2> QED BY <2>1, <2>2, ReturnShapes
<1>7. ASSUME NEW w \in Watchers, Smoke(w) PROVE WatcherTypes'
  <2>1. RecordFailure(backoff[w], seen[w]) \in Memory
    BY <1>7, BelowTheLimit DEF Smoke
  <2>2. CASE Passes(w)
    BY <1>7, <1>a, <2>2 DEF Smoke, Passes
  <2>3. CASE ~ Passes(w)
    <3>1. Return(w) /\ backoff' = [backoff EXCEPT ![w] = RecordFailure(backoff[w], seen[w])] /\ crossed' = crossed
      BY <1>7, <2>3 DEF Smoke
    <3> QED BY <2>1, <3>1, ReturnShapes
  <2> QED BY <2>2, <2>3
<1>8. ASSUME NEW w \in Watchers, Recheck(w) PROVE WatcherTypes'
  <2>1. CASE Return(w)
    BY <1>8, <2>1, ReturnShapes DEF Recheck
  <2>2. CASE ~ Return(w)
    <3>1. /\ \E x \in Steps : pc' = [pc EXCEPT ![w] = x]
          /\ todo' = todo \/ todo' = [todo EXCEPT ![w] = Tail(Sweep)]
          /\ UNCHANGED <<seen, tree, backoff, crossed>>
      BY <1>8, <1>a, <2>2 DEF Recheck
    <3>2. Tail(Sweep) \in Seq(Units)
      BY FleetIsFirst
    <3> QED BY <3>1, <3>2
  <2> QED BY <2>1, <2>2
<1>9. ASSUME NEW w \in Watchers, RestartSelf(w) PROVE WatcherTypes'
  BY <1>9, ReturnShapes DEF RestartSelf
<1>10. ASSUME NEW w \in FleetWatchers, todo[w] # <<>> PROVE Tail(todo[w]) \in Seq(Units)
  BY <1>a, <1>10, Targeted
<1>11. ASSUME NEW w \in FleetWatchers, PassSibling(w) \/ RollBackSibling(w) PROVE WatcherTypes'
  <2>1. Tail(todo[w]) \in Seq(Units)
    BY <1>10, <1>11 DEF PassSibling, RollBackSibling, Sweeping
  <2>2. todo' = [todo EXCEPT ![w] = Tail(todo[w])] /\ UNCHANGED <<pc, seen, tree, backoff, crossed>>
    BY <1>11 DEF PassSibling, RollBackSibling, NextSibling
  <2> QED BY <1>a, <2>1, <2>2
<1>12. ASSUME NEW w \in FleetWatchers, SiblingAnswers(w) \/ GiveUpOnSibling(w) PROVE WatcherTypes'
  <2>1. todo[w] # <<>>
    BY <1>a, <1>12 DEF SiblingAnswers, GiveUpOnSibling, WatchersOK, TargetsOK
  <2>2. /\ pc' = [pc EXCEPT ![w] = "sweep"] /\ todo' = [todo EXCEPT ![w] = Tail(todo[w])]
        /\ UNCHANGED <<seen, tree, backoff, crossed>>
    BY <1>12 DEF SiblingAnswers, GiveUpOnSibling, NextSibling
  <2> QED BY <1>a, <1>10, <2>1, <2>2
<1>13. ASSUME NEW w \in FleetWatchers, AskSibling(w) \/ EndSweep(w) PROVE WatcherTypes'
  <2>1. (\E x \in Steps : pc' = [pc EXCEPT ![w] = x]) /\ UNCHANGED <<seen, tree, todo, backoff, crossed>>
    BY <1>a, <1>13 DEF AskSibling, EndSweep
  <2> QED BY <1>a, <2>1
<1>14. CASE UNCHANGED watcher
  BY <1>14
<1>15. ASSUME \A u \in Units : ~ Reboot(u),
              \A w \in Watchers : /\ ~ Tick(w) /\ ~ Materialize(w) /\ ~ Build(w) /\ ~ Backup(w)
                                  /\ ~ Swap(w) /\ ~ RebuildFails(w) /\ ~ Smoke(w) /\ ~ Recheck(w) /\ ~ RestartSelf(w),
              \A w \in FleetWatchers : /\ ~ PassSibling(w) /\ ~ RollBackSibling(w) /\ ~ SiblingAnswers(w)
                                       /\ ~ GiveUpOnSibling(w) /\ ~ AskSibling(w) /\ ~ EndSweep(w)
       PROVE  UNCHANGED watcher
  BY <1>15 DEF Next, Adopt, Crash, Commit, Acquire, Release, Serve, VerifyArtifact, OwnerRestarts
<1> QED BY <1>1, <1>3, <1>4, <1>5, <1>6, <1>7, <1>8, <1>9, <1>11, <1>12, <1>13, <1>14, <1>15

\* Every step keeps what a watcher has left to build or to visit.
LEMMA TargetsKept ==
  ASSUME Types, WatchersOK, Next
  PROVE  TargetsOK'
<1> USE FleetIsFirst, WatchersAre DEF Types, WatcherTypes, watcher, Building
<1>1. ASSUME NEW w \in Watchers, \A x \in Watchers \ {w} : pc'[x] = pc[x] /\ todo'[x] = todo[x],
             /\ pc'[w] \in Building => todo'[w] # <<>> /\ (w \in FleetWatchers \/ todo'[w] = <<w>>)
             /\ pc'[w] \in {"sweep", "await"} => w \in FleetWatchers /\ todo'[w] \in Seq(Siblings)
             /\ pc'[w] = "await" => todo'[w] # <<>>
      PROVE  TargetsOK'
  BY <1>1 DEF TargetsOK, WatchersOK
<1>3. ASSUME NEW u \in Units, Reboot(u) PROVE TargetsOK'
  BY <1>3 DEF Reboot, TargetsOK, WatchersOK
<1>4. ASSUME NEW w \in Watchers, Tick(w) PROVE TargetsOK'
  <2>1. Targets(w) # <<>> /\ (w \in FleetWatchers \/ Targets(w) = <<w>>)
    BY OneTarget DEF Targets
  <2>2. \A x \in Watchers \ {w} : pc'[x] = pc[x] /\ todo'[x] = todo[x]
    BY <1>4 DEF Tick, Begin
  <2>3. \/ pc'[w] \in {"smoke", "idle"}
        \/ pc'[w] = "materialize" /\ todo'[w] = Targets(w)
    BY <1>4 DEF Tick, Begin
  <2> QED BY <1>1, <2>1, <2>2, <2>3
<1>5. ASSUME NEW w \in Watchers, Materialize(w) \/ Build(w) \/ Backup(w) PROVE TargetsOK'
  <2>1. \A x \in Watchers \ {w} : pc'[x] = pc[x] /\ todo'[x] = todo[x]
    BY <1>5 DEF Materialize, Build, Backup
  <2>2. pc[w] \in Building /\ pc'[w] \in {"build", "backup", "swap"} /\ todo'[w] = todo[w]
    BY <1>5 DEF Materialize, Build, Backup
  <2> QED BY <1>1, <2>1, <2>2 DEF TargetsOK, WatchersOK
<1>6. ASSUME NEW w \in Watchers, Swap(w) PROVE TargetsOK'
  <2>1. \A x \in Watchers \ {w} : pc'[x] = pc[x] /\ todo'[x] = todo[x]
    BY <1>6 DEF Swap
  <2>2. CASE Len(todo[w]) = 1
    <3>1. pc'[w] = "smoke"
      BY <1>6, <2>2 DEF Swap
    <3> QED BY <1>1, <2>1, <3>1
  <2>3. CASE Len(todo[w]) # 1
    <3>1. pc'[w] = "build" /\ todo'[w] = Tail(todo[w])
      BY <1>6, <2>3 DEF Swap
    <3>2. w \in FleetWatchers /\ Tail(todo[w]) # <<>>
      BY <1>6, <2>3, TheTarget DEF Swap
    <3> QED BY <1>1, <2>1, <3>1, <3>2
  <2> QED BY <2>2, <2>3
<1>7. ASSUME NEW w \in Watchers, Return(w) PROVE TargetsOK'
  <2>1. \A x \in Watchers \ {w} : pc'[x] = pc[x] /\ todo'[x] = todo[x]
    BY <1>7 DEF Return
  <2>2. pc'[w] = "idle"
    BY <1>7 DEF Return
  <2> QED BY <1>1, <2>1, <2>2
<1>8. ASSUME NEW w \in Watchers, Smoke(w), ~ Return(w) PROVE TargetsOK'
  <2>1. \A x \in Watchers \ {w} : pc'[x] = pc[x] /\ todo'[x] = todo[x]
    BY <1>8 DEF Smoke, Passes
  <2>2. pc'[w] = "recheck"
    BY <1>8 DEF Smoke, Passes
  <2> QED BY <1>1, <2>1, <2>2
<1>9. ASSUME NEW w \in Watchers, Recheck(w), ~ Return(w) PROVE TargetsOK'
  <2>1. \A x \in Watchers \ {w} : pc'[x] = pc[x] /\ todo'[x] = todo[x]
    BY <1>9 DEF Recheck
  <2>2. \/ pc'[w] = "self"
        \/ pc'[w] = "sweep" /\ w \in FleetWatchers /\ todo'[w] = Tail(Sweep)
    BY <1>9 DEF Recheck
  <2> QED BY <1>1, <2>1, <2>2
<1>10. ASSUME NEW w \in FleetWatchers,
              PassSibling(w) \/ RollBackSibling(w) \/ SiblingAnswers(w) \/ GiveUpOnSibling(w) \/ EndSweep(w)
       PROVE  TargetsOK'
  <2>1. \A x \in Watchers \ {w} : pc'[x] = pc[x] /\ todo'[x] = todo[x]
    BY <1>10 DEF PassSibling, RollBackSibling, SiblingAnswers, GiveUpOnSibling, EndSweep, NextSibling
  <2>2. CASE EndSweep(w)
    <3>1. pc'[w] = "self"
      BY <2>2 DEF EndSweep
    <3> QED BY <1>1, <2>1, <3>1
  <2>3. CASE ~ EndSweep(w)
    <3>1. pc[w] \in {"sweep", "await"} /\ todo[w] # <<>> /\ pc'[w] = "sweep" /\ todo'[w] = Tail(todo[w])
      BY <1>10, <2>3 DEF PassSibling, RollBackSibling, SiblingAnswers, GiveUpOnSibling, NextSibling, Sweeping,
         TargetsOK, WatchersOK
    <3>2. todo[w] \in Seq(Siblings)
      BY <3>1 DEF TargetsOK, WatchersOK
    <3>3. todo'[w] \in Seq(Siblings)
      BY <3>1, <3>2, Targeted
    <3> QED BY <1>1, <2>1, <3>1, <3>3
  <2> QED BY <2>2, <2>3
<1>11. ASSUME NEW w \in FleetWatchers, AskSibling(w) PROVE TargetsOK'
  <2>1. \A x \in Watchers \ {w} : pc'[x] = pc[x] /\ todo'[x] = todo[x]
    BY <1>11 DEF AskSibling
  <2>2. pc[w] = "sweep" /\ todo[w] # <<>> /\ pc'[w] = "await" /\ todo'[w] = todo[w]
    BY <1>11 DEF AskSibling, Sweeping
  <2> QED BY <1>1, <2>1, <2>2 DEF TargetsOK, WatchersOK
<1>12. ASSUME \A u \in Units : ~ Reboot(u),
              \A w \in Watchers : /\ ~ Tick(w) /\ ~ Materialize(w) /\ ~ Build(w) /\ ~ Backup(w)
                                  /\ ~ Swap(w) /\ ~ Return(w) /\ ~ Smoke(w) /\ ~ Recheck(w),
              \A w \in FleetWatchers : /\ ~ PassSibling(w) /\ ~ RollBackSibling(w) /\ ~ SiblingAnswers(w)
                                       /\ ~ GiveUpOnSibling(w) /\ ~ AskSibling(w) /\ ~ EndSweep(w)
       PROVE  UNCHANGED <<pc, todo>>
  BY <1>12 DEF Next, Adopt, Crash, Commit, Acquire, Release, Serve, VerifyArtifact, OwnerRestarts,
     RebuildFails, RestartSelf
<1>13. CASE UNCHANGED <<pc, todo>>
  BY <1>13 DEF TargetsOK, WatchersOK
<1> QED BY <1>3, <1>4, <1>5, <1>6, <1>7, <1>8, <1>9, <1>10, <1>11, <1>12, <1>13

\* Every step keeps the watchers below the limit.
LEMMA AttemptsKept ==
  ASSUME Types, AttemptsOK, Next
  PROVE  AttemptsOK'
<1> USE FleetIsFirst, WatchersAre, BoundsAssumption DEF Types, WatcherTypes, Building
<1>1. ASSUME NEW w \in Watchers, \A x \in Watchers \ {w} : pc'[x] = pc[x] /\ backoff'[x] = backoff[x],
             backoff'[w].built => backoff'[w].attempts = 0,
             pc'[w] \in Building \cup {"smoke"} => backoff'[w].attempts < MaxAttempts
      PROVE  AttemptsOK'
  BY <1>1 DEF AttemptsOK
<1>2. ASSUME NEW u \in Units, Reboot(u) PROVE AttemptsOK'
  BY <1>2 DEF Reboot, Fresh, AttemptsOK
<1>4. ASSUME NEW w \in Watchers, Tick(w) PROVE AttemptsOK'
  <2>1. \A x \in Watchers \ {w} : pc'[x] = pc[x] /\ backoff'[x] = backoff[x]
    BY <1>4 DEF Tick, Begin
  <2>2. CASE backoff[w].built /\ backoff[w].head = head
    <3>1. backoff' = backoff /\ backoff[w].attempts = 0
      BY <1>4, <2>2 DEF Tick, AttemptsOK
    <3>2. 0 < MaxAttempts
      OBVIOUS
    <3> QED BY <1>1, <2>1, <2>2, <3>1, <3>2
  <2>3. CASE ~ (backoff[w].built /\ backoff[w].head = head)
    <3>1. Allow(backoff[w]) /\ backoff'[w] = Allowed(backoff[w])
      BY <1>4, <2>3 DEF Tick
    <3>2. backoff'[w].attempts < MaxAttempts /\ (backoff'[w].built => backoff'[w].attempts = 0)
      <4>1. CASE backoff[w].head = head
        BY <3>1, <4>1 DEF Allow, Allowed, AttemptsOK
      <4>2. CASE backoff[w].head # head
        <5>1. backoff'[w].attempts = 0 /\ ~ backoff'[w].built
          BY <3>1, <4>2 DEF Allowed, Fresh
        <5> QED BY <5>1
      <4> QED BY <4>1, <4>2
    <3> QED BY <1>1, <2>1, <3>2
  <2> QED BY <2>2, <2>3
<1>5. ASSUME NEW w \in Watchers, Materialize(w) \/ Build(w) \/ Backup(w) PROVE AttemptsOK'
  <2>1. (\A x \in Watchers \ {w} : pc'[x] = pc[x]) /\ pc[w] \in Building /\ backoff' = backoff
    BY <1>5 DEF Materialize, Build, Backup
  <2> QED BY <1>1, <2>1 DEF AttemptsOK
<1>6. ASSUME NEW w \in Watchers, Swap(w) PROVE AttemptsOK'
  <2>1. \A x \in Watchers \ {w} : pc'[x] = pc[x] /\ backoff'[x] = backoff[x]
    BY <1>6 DEF Swap
  <2>2. CASE Len(todo[w]) = 1
    <3>1. backoff'[w] = RecordSuccess(seen[w])
      BY <1>6, <2>2 DEF Swap
    <3>2. backoff'[w].attempts = 0
      BY <3>1 DEF RecordSuccess
    <3> QED BY <1>1, <2>1, <3>2
  <2>3. CASE Len(todo[w]) # 1
    <3>1. backoff' = backoff /\ pc[w] \in Building
      BY <1>6, <2>3 DEF Swap
    <3> QED BY <1>1, <2>1, <3>1 DEF AttemptsOK
  <2> QED BY <2>2, <2>3
<1>7. ASSUME NEW w \in Watchers, Return(w), backoff' = backoff \/ backoff' = [backoff EXCEPT ![w] = RecordFailure(@, seen[w])]
      PROVE  AttemptsOK'
  <2>1. ~ RecordFailure(backoff[w], seen[w]).built
    BY DEF RecordFailure
  <2>2. (\A x \in Watchers \ {w} : pc'[x] = pc[x] /\ backoff'[x] = backoff[x]) /\ pc'[w] = "idle"
    BY <1>7 DEF Return
  <2> QED BY <1>1, <1>7, <2>1, <2>2 DEF AttemptsOK
<1>8. ASSUME NEW w \in Watchers, RebuildFails(w) PROVE AttemptsOK'
  BY <1>7, <1>8 DEF RebuildFails
<1>9. ASSUME NEW w \in Watchers, Smoke(w) PROVE AttemptsOK'
  <2>1. CASE Passes(w)
    BY <1>1, <2>1 DEF Passes, AttemptsOK
  <2> QED BY <1>7, <1>9, <2>1 DEF Smoke
<1>10. ASSUME NEW w \in Watchers, Recheck(w) PROVE AttemptsOK'
  <2>1. CASE Return(w)
    BY <1>7, <1>10, <2>1 DEF Recheck
  <2>2. CASE ~ Return(w)
    <3>1. backoff' = backoff /\ pc'[w] \in {"self", "sweep"} /\ \A x \in Watchers \ {w} : pc'[x] = pc[x]
      BY <1>10, <2>2 DEF Recheck
    <3> QED BY <1>1, <3>1 DEF AttemptsOK
  <2> QED BY <2>1, <2>2
<1>11. ASSUME NEW w \in Watchers, RestartSelf(w) PROVE AttemptsOK'
  BY <1>7, <1>11 DEF RestartSelf
<1>12. ASSUME NEW w \in FleetWatchers,
              \/ PassSibling(w) \/ RollBackSibling(w) \/ AskSibling(w)
              \/ SiblingAnswers(w) \/ GiveUpOnSibling(w) \/ EndSweep(w)
       PROVE  AttemptsOK'
  <2>1. backoff' = backoff /\ pc'[w] \in {"sweep", "await", "self"} /\ \A x \in Watchers \ {w} : pc'[x] = pc[x]
    BY <1>12 DEF PassSibling, RollBackSibling, AskSibling, SiblingAnswers, GiveUpOnSibling, EndSweep, Sweeping
  <2> QED BY <1>1, <2>1 DEF AttemptsOK
<1>13. ASSUME \A u \in Units : ~ Reboot(u),
              \A w \in Watchers : /\ ~ Tick(w) /\ ~ Materialize(w) /\ ~ Build(w) /\ ~ Backup(w)
                                  /\ ~ Swap(w) /\ ~ RebuildFails(w) /\ ~ Smoke(w) /\ ~ Recheck(w) /\ ~ RestartSelf(w),
              \A w \in FleetWatchers : /\ ~ PassSibling(w) /\ ~ RollBackSibling(w) /\ ~ SiblingAnswers(w)
                                       /\ ~ GiveUpOnSibling(w) /\ ~ AskSibling(w) /\ ~ EndSweep(w)
       PROVE  UNCHANGED <<pc, backoff>>
  BY <1>13 DEF Next, Adopt, Crash, Commit, Acquire, Release, Serve, VerifyArtifact, OwnerRestarts, watcher
<1>14. CASE UNCHANGED <<pc, backoff>>
  BY <1>14 DEF AttemptsOK
<1> QED BY <1>2, <1>4, <1>5, <1>6, <1>8, <1>9, <1>10, <1>11, <1>12, <1>13, <1>14

\* A step that leaves every seal and its owners alone.
LEMMA SealUnread ==
  ASSUME SealInv,
         \A u \in Siblings : /\ WatcherOwns(u)' <=> WatcherOwns(u)
                             /\ HandoffOwns(u)' <=> HandoffOwns(u)
                             /\ \A w \in FleetWatchers : RequestOwns(u, w)' <=> RequestOwns(u, w)
                             /\ sealed'[u] <=> sealed[u]
                             /\ sealed[u] => ~ work'[u]
  PROVE  SealInv'
BY DEF SealInv, OneOwner

\* A step that is about one unit.
LEMMA SealOfOne ==
  ASSUME SealInv, NEW t \in Siblings,
         \A u \in Siblings \ {t} : /\ WatcherOwns(u)' <=> WatcherOwns(u)
                                   /\ HandoffOwns(u)' <=> HandoffOwns(u)
                                   /\ \A w \in FleetWatchers : RequestOwns(u, w)' <=> RequestOwns(u, w)
                                   /\ sealed'[u] <=> sealed[u]
                                   /\ work'[u] <=> work[u],
         OneOwner(t)' /\ (sealed'[t] => ~ work'[t])
  PROVE  SealInv'
BY DEF SealInv, OneOwner

\* Every step leaves each seal with its one owner.
LEMMA SealKept ==
  ASSUME Types, WatchersOK, SealInv, Next
  PROVE  SealInv'
<1> USE WatchersAre DEF Types, WatcherTypes, ProcessTypes
<1>1. ASSUME NEW u \in Units, Acquire(u) PROVE SealInv'
  <2>1. \A x \in Siblings : sealed[x] => ~ work'[x]
    BY <1>1, FleetIsFirst DEF Acquire, SealInv
  <2> QED BY <1>1, <2>1, SealUnread DEF Acquire, watcher, WatcherOwns, RequestOwns, HandoffOwns
<1>2. ASSUME NEW u \in Units, Release(u) PROVE SealInv'
  <2>1. \A x \in Siblings : sealed[x] => ~ work'[x]
    BY <1>2, FleetIsFirst DEF Release, SealInv
  <2> QED BY <1>2, <2>1, SealUnread DEF Release, watcher, WatcherOwns, RequestOwns, HandoffOwns
<1>3. ASSUME NEW u \in Units, Reboot(u) PROVE SealInv'
  <2>1. \A x \in Siblings, w \in FleetWatchers :
          ask'[x][w] = IF x = u \/ (u = Fleet /\ ask[x][w].status \in Answers) THEN NoAsk ELSE ask[x][w]
    BY <1>3 DEF Reboot
  <2>2. \A x \in Siblings, w \in FleetWatchers : x # u => (RequestOwns(x, w)' <=> RequestOwns(x, w))
    <3>1. NoAsk.status = "none"
      BY DEF NoAsk
    <3> SUFFICES ASSUME NEW x \in Siblings, NEW w \in FleetWatchers, x # u
                 PROVE  RequestOwns(x, w)' <=> RequestOwns(x, w)
      OBVIOUS
    <3>2. CASE u = Fleet /\ ask[x][w].status \in Answers
      <4>1. ask'[x][w].status = "none"
        BY <2>1, <3>1, <3>2
      <4> QED BY <3>2, <4>1 DEF RequestOwns, Answers
    <3>3. CASE ~ (u = Fleet /\ ask[x][w].status \in Answers)
      <4>1. ask'[x][w] = ask[x][w]
        BY <2>1, <3>3
      <4> QED BY <4>1 DEF RequestOwns
    <3> QED BY <3>2, <3>3
  <2>3. \A x \in Siblings : x # u => pc'[x] = pc[x] /\ sealed'[x] = sealed[x] /\ handoff'[x] = handoff[x] /\ work'[x] = work[x]
    BY <1>3, FleetIsFirst DEF Reboot
  <2>4. CASE u \in Siblings
    <3>1. pc'[u] = "idle" /\ ~ sealed'[u] /\ ~ handoff'[u] /\ ~ work'[u]
      BY <1>3, <2>4 DEF Reboot
    <3>2. \A w \in FleetWatchers : ~ RequestOwns(u, w)'
      BY <2>1, <2>4 DEF RequestOwns, NoAsk
    <3>3. OneOwner(u)'
      BY <3>1, <3>2 DEF OneOwner, WatcherOwns, HandoffOwns
    <3>4. \A x \in Siblings \ {u} : /\ WatcherOwns(x)' <=> WatcherOwns(x)
                                    /\ HandoffOwns(x)' <=> HandoffOwns(x)
      BY <2>3 DEF WatcherOwns, HandoffOwns
    <3> QED BY <2>2, <2>3, <2>4, <3>1, <3>3, <3>4, SealOfOne
  <2>5. CASE u \notin Siblings
    <3>1. \A x \in Siblings : /\ WatcherOwns(x)' <=> WatcherOwns(x)
                              /\ HandoffOwns(x)' <=> HandoffOwns(x)
                              /\ sealed'[x] = sealed[x] /\ work'[x] = work[x]
      BY <2>3, <2>5 DEF WatcherOwns, HandoffOwns
    <3>2. \A x \in Siblings, w \in FleetWatchers : RequestOwns(x, w)' <=> RequestOwns(x, w)
      BY <2>2, <2>5
    <3>3. \A x \in Siblings : sealed[x] => ~ work'[x]
      BY <3>1 DEF SealInv
    <3> QED BY <3>1, <3>2, <3>3, SealUnread
  <2> QED BY <2>4, <2>5
<1>4. ASSUME UNCHANGED <<sealed, work, handoff>>, \A x \in Siblings : pc'[x] = "self" <=> pc[x] = "self",
             \A x \in Siblings, w \in FleetWatchers : RequestOwns(x, w)' <=> RequestOwns(x, w)
      PROVE  SealInv'
  <2>1. \A x \in Siblings : sealed[x] => ~ work'[x]
    BY <1>4 DEF SealInv
  <2> QED BY <1>4, <2>1, SealUnread DEF WatcherOwns, HandoffOwns
<1>5. ASSUME UNCHANGED <<sealed, work, handoff, ask>>, \A x \in Siblings : pc'[x] = "self" <=> pc[x] = "self"
      PROVE  SealInv'
  BY <1>4, <1>5 DEF RequestOwns
<1>6. ASSUME NEW w \in Watchers, Tick(w) \/ Materialize(w) \/ Build(w) \/ Backup(w) \/ Swap(w)
      PROVE  SealInv'
  <2>1. \/ pc[w] # "self" /\ pc'[w] # "self" /\ \A x \in Watchers : x # w => pc'[x] = pc[x]
        \/ pc' = pc
    BY <1>6 DEF Tick, Begin, Materialize, Build, Backup, Swap
  <2>2. UNCHANGED <<sealed, work, handoff, ask>>
    BY <1>6 DEF Tick, Materialize, Build, Backup, Swap, process
  <2> QED BY <1>5, <2>1, <2>2
<1>7. ASSUME NEW w \in Watchers, RebuildFails(w) \/ Smoke(w) PROVE SealInv'
  <2>1. pc[w] # "self" /\ pc'[w] # "self" /\ (\A x \in Watchers : x # w => pc'[x] = pc[x])
    BY <1>7 DEF RebuildFails, Smoke, Passes, Return
  <2>2. UNCHANGED <<sealed, work, handoff, ask>>
    BY <1>7 DEF RebuildFails, Smoke, process
  <2> QED BY <1>5, <2>1, <2>2
<1>8. ASSUME NEW w \in Watchers, Recheck(w) PROVE SealInv'
  <2>1. pc[w] = "recheck" /\ (\A x \in Watchers : x # w => pc'[x] = pc[x]) /\ UNCHANGED <<work, handoff, ask>>
    BY <1>8 DEF Recheck, Return
  <2>2. CASE Busy(Unit(w)) \/ w \in FleetWatchers
    <3>1. UNCHANGED sealed /\ (w \in Siblings => pc'[w] = "idle")
      BY <1>8, <2>2 DEF Recheck, Return
    <3> QED BY <1>5, <2>1, <3>1
  <2>3. CASE ~ Busy(Unit(w)) /\ w \notin FleetWatchers
    <3>1. w \in Siblings /\ pc'[w] = "self" /\ sealed' = [sealed EXCEPT ![w] = TRUE] /\ ~ sealed[w] /\ ~ work[w]
      BY <1>8, <2>3 DEF Recheck, Busy
    <3>2. OneOwner(w)
      BY <3>1 DEF SealInv
    <3>3. /\ sealed'[w] /\ ~ work'[w] /\ WatcherOwns(w)' /\ ~ HandoffOwns(w)'
          /\ \A v \in FleetWatchers : ~ RequestOwns(w, v)'
      BY <2>1, <3>1, <3>2, FleetIsFirst DEF OneOwner, WatcherOwns, HandoffOwns, RequestOwns
    <3>4. OneOwner(w)'
      BY <3>3 DEF OneOwner
    <3>5. \A u \in Siblings \ {w} : /\ WatcherOwns(u)' <=> WatcherOwns(u)
                                    /\ HandoffOwns(u)' <=> HandoffOwns(u)
                                    /\ \A v \in FleetWatchers : RequestOwns(u, v)' <=> RequestOwns(u, v)
                                    /\ sealed'[u] <=> sealed[u]
                                    /\ work'[u] <=> work[u]
      BY <2>1, <3>1, FleetIsFirst DEF WatcherOwns, HandoffOwns, RequestOwns
    <3> QED BY <3>1, <3>3, <3>4, <3>5, SealOfOne
  <2> QED BY <2>2, <2>3
<1>9. ASSUME NEW w \in Watchers, RestartSelf(w) PROVE SealInv'
  <2>1. pc[w] = "self" /\ pc'[w] = "idle" /\ (\A x \in Watchers : x # w => pc'[x] = pc[x]) /\ UNCHANGED <<work, ask>>
    BY <1>9 DEF RestartSelf, Return
  <2>2. \/ handoff' = [handoff EXCEPT ![Unit(w)] = TRUE] /\ UNCHANGED sealed
        \/ sealed' = [sealed EXCEPT ![Unit(w)] = FALSE] /\ UNCHANGED handoff
    BY <1>9 DEF RestartSelf, HandOff
  <2>3. CASE w \in FleetWatchers
    <3>1. \A u \in Siblings : /\ WatcherOwns(u)' <=> WatcherOwns(u)
                              /\ HandoffOwns(u)' <=> HandoffOwns(u)
                              /\ \A v \in FleetWatchers : RequestOwns(u, v)' <=> RequestOwns(u, v)
                              /\ sealed'[u] <=> sealed[u]
                              /\ sealed[u] => ~ work'[u]
      BY <2>1, <2>2, <2>3, FleetIsFirst DEF WatcherOwns, HandoffOwns, RequestOwns, SealInv
    <3> QED BY <3>1, SealUnread
  <2>4. CASE w \notin FleetWatchers
    <3>1. w \in Siblings /\ Unit(w) = w /\ WatcherOwns(w) /\ OneOwner(w) /\ sealed[w] /\ ~ work[w]
      BY <2>1, <2>4 DEF SealInv, WatcherOwns, OneOwner
    <3>2. ~ handoff[w] /\ (\A v \in FleetWatchers : ~ RequestOwns(w, v)) /\ ~ WatcherOwns(w)' /\ ~ work'[w]
      BY <2>1, <3>1 DEF WatcherOwns, OneOwner, HandoffOwns
    <3>3. \A v \in FleetWatchers : ~ RequestOwns(w, v)'
      BY <2>1, <3>2 DEF RequestOwns
    <3>4. HandoffOwns(w)' <=> sealed'[w]
      BY <2>2, <3>1, <3>2, FleetIsFirst DEF HandoffOwns
    <3>5. OneOwner(w)'
      BY <3>2, <3>3, <3>4 DEF OneOwner
    <3>6. \A u \in Siblings \ {w} : /\ WatcherOwns(u)' <=> WatcherOwns(u)
                                    /\ HandoffOwns(u)' <=> HandoffOwns(u)
                                    /\ \A v \in FleetWatchers : RequestOwns(u, v)' <=> RequestOwns(u, v)
                                    /\ sealed'[u] <=> sealed[u]
                                    /\ work'[u] <=> work[u]
      BY <2>1, <2>2, <3>1, FleetIsFirst DEF WatcherOwns, HandoffOwns, RequestOwns
    <3> QED BY <3>1, <3>2, <3>5, <3>6, SealOfOne
  <2> QED BY <2>3, <2>4
<1>10. CASE Commit
  BY <1>5, <1>10 DEF Commit, process, watcher
<1>11. ASSUME NEW w \in FleetWatchers, PassSibling(w) \/ RollBackSibling(w) \/ EndSweep(w) PROVE SealInv'
  <2>1. UNCHANGED <<sealed, work, handoff, ask>> /\ \A x \in Siblings : pc'[x] = pc[x]
    BY <1>11 DEF PassSibling, RollBackSibling, EndSweep, process
  <2> QED BY <1>5, <2>1
<1>12. ASSUME NEW w \in FleetWatchers, AskSibling(w) \/ SiblingAnswers(w) \/ GiveUpOnSibling(w) PROVE SealInv'
  <2>1. UNCHANGED <<sealed, work, handoff>> /\ \A x \in Siblings : pc'[x] = pc[x]
    BY <1>12 DEF AskSibling, SiblingAnswers, GiveUpOnSibling, process
  <2>2. Head(todo[w]) \in Siblings
    <3>1. pc[w] \in {"sweep", "await"} /\ w \in Watchers
      BY <1>12 DEF AskSibling, SiblingAnswers, GiveUpOnSibling, Sweeping
    <3>2. todo[w] \in Seq(Siblings) /\ todo[w] # <<>>
      BY <1>12, <3>1 DEF WatchersOK, TargetsOK, AskSibling, Sweeping, SiblingAnswers, GiveUpOnSibling
    <3> QED BY <3>2, Targeted
  <2>3. \/ ask' = ask
        \/ \E q \in Requests : /\ ask' = [ask EXCEPT ![Head(todo[w])][w] = q] /\ q.status \in {"none", "sent"}
                               /\ ask[Head(todo[w])][w].status \in Answers \cup {"none"}
    <3>1. NoAsk \in Requests /\ NoAsk.status = "none"
      BY RequestShapes DEF NoAsk
    <3>2. CASE AskSibling(w)
      <4> DEFINE q == [status |-> "sent", rev |-> seen[w]]
      <4>1. q \in Requests /\ q.status = "sent"
        BY RequestShapes
      <4>2. ask' = [ask EXCEPT ![Head(todo[w])][w] = q] /\ ask[Head(todo[w])][w] = NoAsk
        BY <3>2 DEF AskSibling
      <4> QED BY <3>1, <4>1, <4>2
    <3>3. CASE SiblingAnswers(w)
      BY <3>1, <3>3 DEF SiblingAnswers
    <3>4. CASE GiveUpOnSibling(w)
      BY <3>1, <3>4 DEF GiveUpOnSibling
    <3> QED BY <1>12, <3>2, <3>3, <3>4
  <2>4. CASE ask' = ask
    BY <1>4, <2>1, <2>4 DEF RequestOwns
  <2>5. ASSUME NEW q \in Requests, ask' = [ask EXCEPT ![Head(todo[w])][w] = q], q.status \in {"none", "sent"},
               ask[Head(todo[w])][w].status \in Answers \cup {"none"}
        PROVE  SealInv'
    <3>1. ask'[Head(todo[w])][w] = q
      BY <2>2, <2>5, OneRequest
    <3>2. \A x \in Siblings, v \in FleetWatchers : x # Head(todo[w]) \/ v # w => ask'[x][v] = ask[x][v]
      BY <2>2, <2>5, OtherRequests
    <3>3. \A x \in Siblings, v \in FleetWatchers : RequestOwns(x, v)' <=> RequestOwns(x, v)
      BY <2>5, <3>1, <3>2 DEF RequestOwns, Answers
    <3> QED BY <1>4, <2>1, <3>3
  <2> QED BY <2>3, <2>4, <2>5
<1>13. ASSUME NEW t \in Siblings, NEW w \in FleetWatchers, UNCHANGED <<pc, work>>,
              \A x \in Siblings, v \in FleetWatchers : x # t \/ v # w => ask'[x][v] = ask[x][v],
              \A u \in Siblings \ {t} : sealed'[u] = sealed[u] /\ handoff'[u] = handoff[u],
              OneOwner(t)', sealed'[t] => ~ work[t]
       PROVE  SealInv'
  <2>1. \A u \in Siblings \ {t} : /\ WatcherOwns(u)' <=> WatcherOwns(u)
                                  /\ HandoffOwns(u)' <=> HandoffOwns(u)
                                  /\ \A v \in FleetWatchers : RequestOwns(u, v)' <=> RequestOwns(u, v)
                                  /\ sealed'[u] <=> sealed[u]
                                  /\ work'[u] <=> work[u]
    BY <1>13 DEF WatcherOwns, HandoffOwns, RequestOwns
  <2> QED BY <1>13, <2>1, SealOfOne
<1>14. ASSUME NEW t \in Siblings, NEW w \in FleetWatchers, Serve(t, w) PROVE SealInv'
  <2>1. ask[t][w].status = "sent" /\ UNCHANGED <<pc, work, handoff>> /\ AskTypes
    BY <1>14 DEF Serve, watcher
  <2>2. /\ \A x \in Siblings, v \in FleetWatchers : x # t \/ v # w => ask'[x][v] = ask[x][v]
        /\ \/ ask'[t][w].status \in Answers \cup {"none"} /\ UNCHANGED sealed
           \/ ask'[t][w].status = "verifying" /\ ~ Busy(t) /\ sealed' = [sealed EXCEPT ![t] = TRUE]
    BY <1>14, <2>1, StatusIs, AnswerIs DEF Serve, Statuses, Answers
  <2>3. CASE ask'[t][w].status \in Answers \cup {"none"} /\ UNCHANGED sealed
    <3>1. \A x \in Siblings, v \in FleetWatchers : RequestOwns(x, v)' <=> RequestOwns(x, v)
      BY <2>1, <2>2, <2>3 DEF RequestOwns, Answers
    <3> QED BY <1>4, <2>1, <2>3, <3>1
  <2>4. CASE ask'[t][w].status = "verifying" /\ ~ Busy(t) /\ sealed' = [sealed EXCEPT ![t] = TRUE]
    <3>1. ~ sealed[t] /\ ~ work[t] /\ OneOwner(t) /\ sealed'[t] /\ t \in Units
      BY <2>4, FleetIsFirst DEF Busy, SealInv
    <3>2. ~ WatcherOwns(t) /\ ~ HandoffOwns(t) /\ \A v \in FleetWatchers : ~ RequestOwns(t, v)
      BY <3>1 DEF OneOwner
    <3>3. /\ ~ WatcherOwns(t)' /\ ~ HandoffOwns(t)' /\ RequestOwns(t, w)'
          /\ \A v \in FleetWatchers : v # w => ~ RequestOwns(t, v)'
      BY <2>1, <2>2, <2>4, <3>2 DEF WatcherOwns, HandoffOwns, RequestOwns
    <3>4. OneOwner(t)'
      BY <3>1, <3>3 DEF OneOwner
    <3> QED BY <1>13, <2>1, <2>2, <2>4, <3>1, <3>4, FleetIsFirst
  <2> QED BY <2>2, <2>3, <2>4
<1>15. ASSUME NEW t \in Siblings, NEW w \in FleetWatchers, RequestOwns(t, w)
       PROVE  /\ sealed[t] /\ ~ work[t] /\ ~ WatcherOwns(t) /\ ~ HandoffOwns(t)
              /\ \A v \in FleetWatchers : v # w => ~ RequestOwns(t, v)
  BY <1>15 DEF SealInv, OneOwner
<1>16. ASSUME NEW t \in Siblings, NEW w \in FleetWatchers, RequestOwns(t, w), UNCHANGED <<pc, work>>,
              \A x \in Siblings, v \in FleetWatchers : x # t \/ v # w => ask'[x][v] = ask[x][v],
              ask'[t][w].status \in Answers \cup {"none"},
              \/ sealed' = [sealed EXCEPT ![t] = FALSE] /\ UNCHANGED handoff
              \/ handoff' = [handoff EXCEPT ![t] = TRUE] /\ UNCHANGED sealed
       PROVE  SealInv'
  <2>1. ~ WatcherOwns(t)' /\ \A v \in FleetWatchers : ~ RequestOwns(t, v)'
    BY <1>15, <1>16 DEF WatcherOwns, RequestOwns, Answers
  <2>2. t \in Units /\ ~ handoff[t] /\ sealed[t]
    BY <1>15, <1>16, FleetIsFirst DEF HandoffOwns
  <2>3. HandoffOwns(t)' <=> sealed'[t]
    BY <1>16, <2>2 DEF HandoffOwns
  <2>4. OneOwner(t)'
    BY <2>1, <2>3 DEF OneOwner
  <2>5. \A u \in Siblings \ {t} : sealed'[u] = sealed[u] /\ handoff'[u] = handoff[u]
    BY <1>16, FleetIsFirst
  <2> QED BY <1>13, <1>15, <1>16, <2>4, <2>5
<1>17. ASSUME NEW t \in Siblings, NEW w \in FleetWatchers, VerifyArtifact(t, w) PROVE SealInv'
  <2>1. RequestOwns(t, w) /\ UNCHANGED <<pc, work, handoff>> /\ AskTypes
    BY <1>17 DEF VerifyArtifact, watcher, RequestOwns
  <2>2. /\ \A x \in Siblings, v \in FleetWatchers : x # t \/ v # w => ask'[x][v] = ask[x][v]
        /\ \/ ask'[t][w].status = "restarting" /\ UNCHANGED sealed
           \/ ask'[t][w].status \in Answers \cup {"none"} /\ sealed' = [sealed EXCEPT ![t] = FALSE]
    BY <1>17, <2>1, StatusIs, AnswerIs DEF VerifyArtifact, Statuses, Answers
  <2>3. CASE ask'[t][w].status = "restarting" /\ UNCHANGED sealed
    <3>1. \A x \in Siblings, v \in FleetWatchers : RequestOwns(x, v)' <=> RequestOwns(x, v)
      BY <2>1, <2>2, <2>3 DEF RequestOwns
    <3> QED BY <1>4, <2>1, <2>3, <3>1
  <2>4. CASE ask'[t][w].status \in Answers \cup {"none"} /\ sealed' = [sealed EXCEPT ![t] = FALSE]
    BY <1>16, <2>1, <2>2, <2>4
  <2> QED BY <2>2, <2>3, <2>4
<1>18. ASSUME NEW t \in Siblings, NEW w \in FleetWatchers, OwnerRestarts(t, w) PROVE SealInv'
  <2>1. RequestOwns(t, w) /\ UNCHANGED <<pc, work>> /\ AskTypes
    BY <1>18 DEF OwnerRestarts, watcher, RequestOwns
  <2>2. /\ \A x \in Siblings, v \in FleetWatchers : x # t \/ v # w => ask'[x][v] = ask[x][v]
        /\ ask'[t][w].status \in Answers \cup {"none"}
    BY <1>18, <2>1, AnswerIs DEF OwnerRestarts, Answers
  <2>3. \/ sealed' = [sealed EXCEPT ![t] = FALSE] /\ UNCHANGED handoff
        \/ handoff' = [handoff EXCEPT ![t] = TRUE] /\ UNCHANGED sealed
    BY <1>18 DEF OwnerRestarts, HandOff
  <2> QED BY <1>16, <2>1, <2>2, <2>3
<1> QED BY <1>1, <1>2, <1>3, <1>6, <1>7, <1>8, <1>9, <1>10, <1>11, <1>12, <1>14, <1>17, <1>18 DEF Next, Adopt, Crash

-----------------------------------------------------------------------------
\* What the fleet's invariant reads of a watcher, and of the binaries.
Same(w)   == /\ pc'[w] = pc[w] /\ seen'[w] = seen[w] /\ tree'[w] = tree[w]
             /\ todo'[w] = todo[w] /\ backoff'[w] = backoff[w]
SameFiles == disk'[Fleet] = disk[Fleet] /\ prev'[Fleet] = prev[Fleet] /\ new'[Fleet] = new[Fleet]

\* A step of somebody else.
LEMMA FleetUnread ==
  ASSUME FleetInv, UNCHANGED <<head, starts, crossed>>, SameFiles, \A w \in FleetWatchers : Same(w)
  PROVE  FleetInv'
<1>1. \A w \in FleetWatchers : MarkOK(w)' /\ (DiskOK(w)' <=> DiskOK(w))
  BY DEF FleetInv, MarksOK, MarkOK, DiskOK, Live, Swapped, Same, SameFiles
<1>2. \A w \in FleetWatchers, v \in FleetWatchers : (AloneOK(v, w)' <=> AloneOK(v, w)) /\ (LastOK(v, w)' <=> LastOK(v, w))
  BY DEF AloneOK, LastOK, BackedUp, Swapped, Live, Same, SameFiles
<1> QED BY <1>1, <1>2 DEF FleetInv, MarksOK, UncrossedOK

\* A step of one watcher of bt-agent.
LEMMA FleetOfOne ==
  ASSUME FleetInv, NEW w \in FleetWatchers, UNCHANGED <<head, starts>>,
         \A v \in FleetWatchers \ {w} : Same(v),
         MarkOK(w)',
         ~ crossed' => /\ ~ crossed /\ DiskOK(w)'
                       /\ \A v \in FleetWatchers \ {w} : DiskOK(v)' /\ AloneOK(v, w)' /\ AloneOK(w, v)'
                       /\ \A v \in FleetWatchers, x \in FleetWatchers : v # x => LastOK(v, x)'
  PROVE  FleetInv'
<1>1. \A v \in FleetWatchers \ {w} : MarkOK(v)'
  BY DEF FleetInv, MarksOK, MarkOK, Same
<1>2. ASSUME ~ crossed', NEW x \in FleetWatchers, NEW v \in FleetWatchers, v # x
      PROVE  AloneOK(v, x)'
  <2>1. CASE v # w /\ x # w
    <3>1. AloneOK(v, x)
      BY <1>2 DEF FleetInv, UncrossedOK
    <3> QED BY <2>1, <3>1 DEF AloneOK, Live, Same
  <2> QED BY <1>2, <2>1
<1> QED BY <1>1, <1>2 DEF FleetInv, MarksOK, UncrossedOK

\* While passes have not overlapped, a watcher at work is the only one.
LEMMA TheOthersIdle ==
  ASSUME FleetInv, ~ crossed, NEW w \in FleetWatchers, pc[w] # "idle", NEW v \in FleetWatchers \ {w}
  PROVE  /\ pc[v] = "idle" /\ DiskOK(w) /\ DiskOK(v) /\ AloneOK(v, w)
         /\ LastOK(v, w) /\ LastOK(w, v)
BY DEF FleetInv, UncrossedOK, AloneOK

\* The numbers are integers.
LEMMA FleetNumbers ==
  ASSUME Types, NEW w \in FleetWatchers
  PROVE  /\ head \in Int /\ 0 <= head /\ seen[w] \in Int /\ tree[w] \in Int /\ backoff[w].head \in Int
         /\ disk[Fleet] \in Int /\ prev[Fleet] \in Int
BY FleetIsFirst, WatchersAre, BoundsAssumption DEF Types, RepositoryTypes, WatcherTypes, Memory, Revs, NoRev

\* The pass of a watcher ends, and no binary changes.
LEMMA FleetReturns ==
  ASSUME Types, FleetInv, NEW w \in FleetWatchers, Return(w), UNCHANGED <<head, starts, crossed, backoff>>,
         SameFiles, pc[w] \in Tested
  PROVE  FleetInv'
<1> USE DEF Types, WatcherTypes, Tested
<1>1. pc'[w] = "idle" /\ seen'[w] = 0 /\ w \in Watchers
  BY WatchersAre DEF Return
<1>2. \A v \in FleetWatchers \ {w} : Same(v)
  BY WatchersAre DEF Return, Same
<1>3. MarkOK(w)'
  BY <1>1, FleetNumbers DEF FleetInv, MarksOK, MarkOK, Building
<1>4. ASSUME ~ crossed
      PROVE  /\ DiskOK(w)'
             /\ \A v \in FleetWatchers \ {w} : DiskOK(v)' /\ AloneOK(v, w)' /\ AloneOK(w, v)'
             /\ \A v \in FleetWatchers, x \in FleetWatchers : v # x => LastOK(v, x)'
  <2>1. DiskOK(w)'
    <3>1. Live(w) => head = seen[w]
      BY DEF FleetInv, MarksOK, MarkOK, Live
    <3>2. disk[Fleet] >= seen[w]
      BY <1>4 DEF FleetInv, UncrossedOK, DiskOK, Swapped
    <3> QED BY <1>1, <3>1, <3>2 DEF DiskOK, Swapped, Live, SameFiles
  <2>2. \A v \in FleetWatchers \ {w} : pc'[v] = "idle" /\ DiskOK(v)'
    BY <1>2, <1>4, TheOthersIdle DEF DiskOK, Swapped, Live, Same, SameFiles
  <2>3. \A v \in FleetWatchers \ {w} : AloneOK(v, w)' /\ AloneOK(w, v)'
    BY <1>1, <2>2 DEF AloneOK
  <2>4. ASSUME NEW v \in FleetWatchers, NEW x \in FleetWatchers, v # x PROVE LastOK(v, x)'
    <3>1. LastOK(v, x)
      BY <1>4, <2>4 DEF FleetInv, UncrossedOK
    <3>2. (Live(v)' <=> Live(v)) /\ (Live(x)' <=> Live(x)) /\ (BackedUp(x)' => BackedUp(x)) /\ prev'[Fleet] = prev[Fleet]
      BY <1>1, <1>2 DEF Live, BackedUp, Swapped, Same, SameFiles
    <3> QED BY <3>1, <3>2 DEF LastOK
  <2> QED BY <2>1, <2>2, <2>3, <2>4
<1> QED BY <1>2, <1>3, <1>4, FleetOfOne

\* A pass goes on past its smoke test, and no binary changes.
LEMMA FleetGoesOn ==
  ASSUME Types, FleetInv, NEW w \in FleetWatchers, UNCHANGED <<head, starts, crossed, backoff, seen, tree>>,
         SameFiles, \A v \in FleetWatchers \ {w} : Same(v),
         pc[w] \in Tested \/ (pc[w] = "smoke" /\ starts[disk[Fleet]]), pc'[w] \in Tested
  PROVE  FleetInv'
<1> USE DEF Tested
<1>1. pc[w] # "idle"
  OBVIOUS
<1>2. MarkOK(w)'
  BY DEF FleetInv, MarksOK, MarkOK, Building
<1>3. ASSUME ~ crossed
      PROVE  /\ DiskOK(w)'
             /\ \A v \in FleetWatchers \ {w} : DiskOK(v)' /\ AloneOK(v, w)' /\ AloneOK(w, v)'
             /\ \A v \in FleetWatchers, x \in FleetWatchers : v # x => LastOK(v, x)'
  <2>1. DiskOK(w)'
    BY <1>3 DEF FleetInv, UncrossedOK, DiskOK, Swapped, Live, SameFiles
  <2>2. \A v \in FleetWatchers \ {w} : pc'[v] = "idle" /\ DiskOK(v)'
    BY <1>1, <1>3, TheOthersIdle DEF DiskOK, Swapped, Live, Same, SameFiles
  <2>3. \A v \in FleetWatchers \ {w} : AloneOK(v, w)' /\ AloneOK(w, v)'
    BY <1>1, <1>3, <2>2, TheOthersIdle DEF AloneOK, Live
  <2>4. ASSUME NEW v \in FleetWatchers, NEW x \in FleetWatchers, v # x PROVE LastOK(v, x)'
    <3>1. LastOK(v, x)
      BY <1>3, <2>4 DEF FleetInv, UncrossedOK
    <3>2. (Live(v)' <=> Live(v)) /\ (Live(x)' <=> Live(x)) /\ (BackedUp(x)' => BackedUp(x)) /\ prev'[Fleet] = prev[Fleet]
      BY DEF Live, BackedUp, Swapped, Same, SameFiles
    <3> QED BY <3>1, <3>2 DEF LastOK
  <2> QED BY <2>1, <2>2, <2>3, <2>4
<1> QED BY <1>2, <1>3, FleetOfOne

\* A pass begins, or a busy tick only moves the backoff to HEAD.
LEMMA FleetTicks ==
  ASSUME Types, FleetInv, NEW w \in FleetWatchers, Tick(w)
  PROVE  FleetInv'
<1> USE DEF Types, WatcherTypes
<1>1. w \in Watchers /\ pc[w] = "idle" /\ UNCHANGED <<head, starts, disk, prev, new, tree>>
  BY WatchersAre DEF Tick, binaries
<1>2. \A v \in FleetWatchers \ {w} : Same(v)
  BY WatchersAre DEF Tick, Begin, Same
<1>3. \/ /\ Live(w) /\ Begin(w, "smoke") /\ backoff' = backoff
      \/ /\ ~ Live(w) /\ backoff' = [backoff EXCEPT ![w] = Allowed(backoff[w])]
         /\ \/ UNCHANGED <<seen, pc, todo, crossed>>
            \/ Begin(w, "materialize") /\ todo' = [todo EXCEPT ![w] = Sweep]
  BY <1>1 DEF Tick, Targets, Live
<1>4. \A step : Begin(w, step) =>
        /\ pc'[w] = step /\ seen'[w] = head
        /\ ~ crossed' => ~ crossed /\ \A v \in FleetWatchers \ {w} : pc'[v] = "idle"
  BY <1>1, <1>2 DEF Begin, Same
<1>5. Allowed(backoff[w]).head = head /\ (~ Live(w) => ~ Allowed(backoff[w]).built)
  <2>1. [Fresh EXCEPT !.head = head].head = head /\ ~ [Fresh EXCEPT !.head = head].built
    BY DEF Fresh
  <2> QED BY <2>1 DEF Allowed, Live
<1>6. SameFiles
  BY <1>1 DEF SameFiles
<1>7. ~ crossed => DiskOK(w) /\ \A v \in FleetWatchers \ {w} : DiskOK(v)' /\ AloneOK(w, v) /\ LastOK(v, w)
  BY <1>1, <1>2 DEF FleetInv, UncrossedOK, DiskOK, Swapped, Live, Same
<1>8. CASE Live(w) /\ Begin(w, "smoke") /\ backoff' = backoff
  <2>1. pc'[w] = "smoke" /\ seen'[w] = head
    BY <1>4, <1>8
  <2>2. MarkOK(w)'
    BY <1>1, <1>8, <2>1, FleetNumbers DEF MarkOK, Live, Tested, Building
  <2>3. ASSUME ~ crossed'
        PROVE  /\ ~ crossed /\ DiskOK(w)'
               /\ \A v \in FleetWatchers \ {w} : DiskOK(v)' /\ AloneOK(v, w)' /\ AloneOK(w, v)'
               /\ \A v \in FleetWatchers, x \in FleetWatchers : v # x => LastOK(v, x)'
    <3>1. ~ crossed /\ \A v \in FleetWatchers \ {w} : pc'[v] = "idle"
      BY <1>4, <1>8, <2>3
    <3>2. DiskOK(w)'
      BY <1>1, <1>7, <1>8, <2>1, <3>1 DEF DiskOK, Swapped, Tested
    <3>3. \A v \in FleetWatchers \ {w} : AloneOK(v, w)' /\ AloneOK(w, v)'
      BY <1>1, <2>1, <3>1, FleetNumbers DEF AloneOK
    <3>4. ASSUME NEW v \in FleetWatchers, NEW x \in FleetWatchers, v # x PROVE LastOK(v, x)'
      <4>1. LastOK(v, x)
        BY <3>1, <3>4 DEF FleetInv, UncrossedOK
      <4>2. Live(v)' <=> Live(v)
        BY <1>1, <1>8 DEF Live
      <4>3. x = w => Live(x)
        BY <1>8
      <4>4. x # w => ((BackedUp(x)' \/ Live(x)') <=> (BackedUp(x) \/ Live(x)))
        BY <1>1, <1>2 DEF BackedUp, Swapped, Live, Same
      <4> QED BY <1>1, <4>1, <4>2, <4>3, <4>4 DEF LastOK
    <3> QED BY <1>7, <3>1, <3>2, <3>3, <3>4
  <2> QED BY <1>1, <1>2, <2>2, <2>3, FleetOfOne
<1>9. ASSUME ~ Live(w), backoff' = [backoff EXCEPT ![w] = Allowed(backoff[w])],
             \/ UNCHANGED <<seen, pc, todo, crossed>>
             \/ Begin(w, "materialize") /\ todo' = [todo EXCEPT ![w] = Sweep]
      PROVE  FleetInv'
  <2>1. backoff'[w].head = head /\ ~ backoff'[w].built /\ ~ Live(w)'
    BY <1>1, <1>5, <1>9 DEF Live
  <2>2. \/ pc'[w] = "idle" /\ seen'[w] = seen[w] /\ crossed' = crossed
        \/ pc'[w] = "materialize" /\ seen'[w] = head /\ todo'[w] = Sweep
    BY <1>1, <1>4, <1>9
  <2>3. MarkOK(w)'
    <3>1. seen[w] <= head
      BY DEF FleetInv, MarksOK, MarkOK
    <3> QED BY <1>1, <2>1, <2>2, <3>1, FleetNumbers DEF MarkOK, Tested
  <2>4. ASSUME ~ crossed'
        PROVE  /\ ~ crossed /\ DiskOK(w)'
               /\ \A v \in FleetWatchers \ {w} : DiskOK(v)' /\ AloneOK(v, w)' /\ AloneOK(w, v)'
               /\ \A v \in FleetWatchers, x \in FleetWatchers : v # x => LastOK(v, x)'
    <3>1. ~ crossed /\ (pc'[w] # "idle" => seen'[w] = head /\ \A v \in FleetWatchers \ {w} : pc'[v] = "idle")
      BY <1>4, <1>9, <1>1, <2>4
    <3>2. DiskOK(w)' /\ ~ BackedUp(w)'
      BY <2>1, <2>2 DEF DiskOK, Swapped, BackedUp, Tested
    <3>3. \A v \in FleetWatchers \ {w} : AloneOK(v, w)' /\ AloneOK(w, v)'
      <4>1. \A v \in FleetWatchers \ {w} : AloneOK(v, w)'
        BY <1>1, <3>1, FleetNumbers DEF AloneOK
      <4>2. \A v \in FleetWatchers \ {w} : AloneOK(w, v)'
        BY <1>2, <1>7, <2>1, <2>2, <3>1 DEF AloneOK, Same
      <4> QED BY <4>1, <4>2
    <3>4. ASSUME NEW v \in FleetWatchers, NEW x \in FleetWatchers, v # x PROVE LastOK(v, x)'
      <4>1. LastOK(v, x)
        BY <3>1, <3>4 DEF FleetInv, UncrossedOK
      <4>2. CASE v = w \/ x = w
        BY <2>1, <3>2, <4>2 DEF LastOK
      <4>3. CASE v # w /\ x # w
        BY <1>1, <1>2, <4>1, <4>3 DEF LastOK, BackedUp, Swapped, Live, Same
      <4> QED BY <4>2, <4>3
    <3> QED BY <1>7, <3>1, <3>2, <3>3, <3>4
  <2> QED BY <1>1, <1>2, <2>3, <2>4, FleetOfOne
<1> QED BY <1>3, <1>8, <1>9

\* HEAD is checked out, a target is built, or the binary is backed up.
LEMMA FleetBuilds ==
  ASSUME Types, WatchersOK, FleetInv, NEW w \in FleetWatchers, Materialize(w) \/ Build(w) \/ Backup(w)
  PROVE  FleetInv'
<1> USE DEF Types, WatcherTypes, RepositoryTypes
<1>1. w \in Watchers /\ pc[w] # "idle" /\ ~ Live(w)
      /\ UNCHANGED <<head, starts, disk, crossed, seen, todo, backoff>>
  <2>1. w \in Watchers /\ pc[w] \in Building
    BY WatchersAre DEF Materialize, Build, Backup, Building
  <2> QED BY <2>1 DEF FleetInv, MarksOK, MarkOK, Live, Building, Materialize, Build, Backup, binaries
<1>2. \A v \in FleetWatchers \ {w} : Same(v)
  BY WatchersAre DEF Materialize, Build, Backup, Same
<1>3. MarkOK(w)'
  <2>1. CASE Materialize(w)
    <3>1. pc'[w] = "build" /\ tree'[w] = head /\ pc[w] = "materialize"
      BY <1>1, <2>1 DEF Materialize
    <3> QED BY <1>1, <3>1 DEF FleetInv, MarksOK, MarkOK, Building, Tested
  <2>2. CASE Build(w) \/ Backup(w)
    <3>1. pc'[w] \in {"backup", "swap"} /\ tree'[w] = tree[w] /\ pc[w] \in {"build", "backup"}
      BY <1>1, <2>2 DEF Build, Backup
    <3> QED BY <1>1, <3>1 DEF FleetInv, MarksOK, MarkOK, Building, Tested
  <2> QED BY <2>1, <2>2
<1>4. Head(todo[w]) \in Units
  BY <1>1, TheTarget DEF Materialize, Build, Backup, Building
<1>5. pc[w] = "materialize" => todo[w] = Sweep
  BY DEF FleetInv, MarksOK, MarkOK
<1>6. prev'[Fleet] \in {prev[Fleet], disk[Fleet]}
  <2>1. prev' = prev \/ prev' = [prev EXCEPT ![Head(todo[w])] = disk[Head(todo[w])]]
    BY DEF Materialize, Build, Backup, binaries
  <2> QED BY <2>1, <1>4, FleetIsFirst
<1>7. ASSUME ~ crossed
      PROVE  /\ DiskOK(w)'
             /\ \A v \in FleetWatchers \ {w} : DiskOK(v)' /\ AloneOK(v, w)' /\ AloneOK(w, v)'
             /\ \A v \in FleetWatchers, x \in FleetWatchers : v # x => LastOK(v, x)'
  <2>1. DiskOK(w) /\ \A v \in FleetWatchers \ {w} : pc[v] = "idle" /\ DiskOK(v) /\ AloneOK(v, w)
    BY <1>1, <1>7, TheOthersIdle DEF FleetInv, UncrossedOK
  <2>2. Swapped(w)' => Swapped(w)
    BY <1>1, <1>5 DEF Swapped, Materialize, Build, Backup, Tested
  <2>3. pc'[w] \in {"build", "backup", "swap"}
    BY <1>1 DEF Materialize, Build, Backup
  <2>4. pc'[w] \in {"backup", "swap"} => new'[Fleet][Head(todo[w])] = tree'[w]
    <3>1. CASE Materialize(w)
      BY <1>1, <3>1 DEF Materialize
    <3>2. CASE Build(w)
      <4>1. new' = [new EXCEPT ![Fleet][Head(todo[w])] = tree[w]] /\ tree' = tree
        BY <3>2, WatchersAre DEF Build
      <4>2. Fleet \in Units
        BY FleetIsFirst
      <4> QED BY <1>4, <4>1, <4>2
    <3>3. CASE Backup(w)
      BY <2>1, <3>3 DEF Backup, DiskOK
    <3> QED BY <3>1, <3>2, <3>3
  <2>5. DiskOK(w)'
    BY <1>1, <2>1, <2>2, <2>3, <2>4 DEF DiskOK, Tested
  <2>6. \A v \in FleetWatchers \ {w} : DiskOK(v)' /\ AloneOK(v, w)' /\ AloneOK(w, v)'
    <3> SUFFICES ASSUME NEW v \in FleetWatchers \ {w} PROVE DiskOK(v)' /\ AloneOK(v, w)' /\ AloneOK(w, v)'
      OBVIOUS
    <3>1. pc'[v] = "idle" /\ (Live(v)' <=> Live(v))
      BY <1>1, <1>2, <2>1 DEF Same, Live
    <3>2. AloneOK(w, v)'
      BY <3>1 DEF AloneOK
    <3>3. AloneOK(v, w)'
      BY <1>1, <2>1, <3>1 DEF AloneOK
    <3>4. DiskOK(v)'
      BY <1>1, <2>1, <3>1 DEF DiskOK, Swapped, Tested
    <3> QED BY <3>2, <3>3, <3>4
  <2>7. ASSUME NEW v \in FleetWatchers, NEW x \in FleetWatchers, v # x PROVE LastOK(v, x)'
    <3>1. Live(v)' <=> Live(v)
      BY <1>1 DEF Live
    <3>2. CASE v = w
      BY <1>1, <3>1, <3>2 DEF LastOK
    <3>3. CASE v # w
      <4>1. Live(v) => disk[Fleet] >= head
        BY <2>1, <3>3 DEF DiskOK
      <4>2. LastOK(v, x)
        BY <1>7, <2>7 DEF FleetInv, UncrossedOK
      <4>3. CASE prev'[Fleet] = disk[Fleet]
        BY <1>1, <3>1, <4>1, <4>3 DEF LastOK
      <4>4. CASE prev'[Fleet] = prev[Fleet] /\ (BackedUp(x)' \/ Live(x)' => BackedUp(x) \/ Live(x))
        BY <1>1, <3>1, <4>2, <4>4 DEF LastOK
      <4>5. CASE prev'[Fleet] = prev[Fleet] /\ ~ (BackedUp(x)' \/ Live(x)' => BackedUp(x) \/ Live(x))
        <5>1. Live(x)' <=> Live(x)
          BY <1>1 DEF Live
        <5>2. x = w
          BY <1>2, <4>5, <1>1, <5>1 DEF BackedUp, Swapped, Same
        <5>3. pc'[w] = "swap" /\ pc[w] # "swap" /\ ~ Swapped(w)
          BY <2>2, <4>5, <5>1, <5>2 DEF BackedUp
        <5>4. Backup(w) /\ todo[w] = Sweep
          BY <1>1, <5>3 DEF Materialize, Build, Backup, Swapped
        <5>5. prev' = [prev EXCEPT ![Fleet] = disk[Fleet]]
          BY <5>4 DEF Backup, Fleet
        <5> QED BY <4>3, <5>5, FleetIsFirst
      <4> QED BY <1>6, <4>3, <4>4, <4>5
    <3> QED BY <3>2, <3>3
  <2> QED BY <2>5, <2>6, <2>7
<1> QED BY <1>1, <1>2, <1>3, <1>7, FleetOfOne

\* A target is swapped in.
LEMMA FleetSwaps ==
  ASSUME Types, WatchersOK, FleetInv, NEW w \in FleetWatchers, Swap(w)
  PROVE  FleetInv'
<1> USE DEF Types, WatcherTypes, RepositoryTypes
<1> DEFINE t == Head(todo[w])
<1>1. w \in Watchers /\ pc[w] = "swap" /\ UNCHANGED <<head, starts, prev, crossed, seen>>
  BY WatchersAre DEF Swap
<1>2. \A v \in FleetWatchers \ {w} : Same(v)
  BY WatchersAre DEF Swap, Same
<1>3. t \in Units
  BY <1>1, TheTarget DEF Building
<1>4. disk' = [disk EXCEPT ![t] = new[Fleet][t]]
  BY WatchersAre DEF Swap
<1>5. \/ /\ pc'[w] = "smoke" /\ backoff'[w] = RecordSuccess(seen[w])
         /\ backoff'[w].head = seen[w] /\ backoff'[w].built
      \/ pc'[w] = "build" /\ tree'[w] = tree[w] /\ backoff'[w] = backoff[w]
  <2>1. RecordSuccess(seen[w]).head = seen[w] /\ RecordSuccess(seen[w]).built
    BY DEF RecordSuccess
  <2> QED BY <1>1, <2>1 DEF Swap
<1>6. MarkOK(w)'
  <2>1. MarkOK(w)
    BY DEF FleetInv, MarksOK
  <2> QED BY <1>1, <1>5, <2>1 DEF MarkOK, Building, Tested
<1>7. ASSUME ~ crossed
      PROVE  /\ DiskOK(w)'
             /\ \A v \in FleetWatchers \ {w} : DiskOK(v)' /\ AloneOK(v, w)' /\ AloneOK(w, v)'
             /\ \A v \in FleetWatchers, x \in FleetWatchers : v # x => LastOK(v, x)'
  <2>1. DiskOK(w) /\ \A v \in FleetWatchers \ {w} : pc[v] = "idle" /\ DiskOK(v) /\ AloneOK(v, w) /\ LastOK(v, w)
    BY <1>1, <1>7, TheOthersIdle DEF FleetInv, UncrossedOK
  <2>2. disk'[Fleet] >= seen[w] /\ (disk'[Fleet] = disk[Fleet] \/ disk'[Fleet] = tree[w])
    <3>1. CASE t = Fleet
      <4>1. new[Fleet][t] = tree[w] /\ tree[w] >= seen[w]
        BY <1>1, <2>1 DEF DiskOK, FleetInv, MarksOK, MarkOK
      <4> QED BY <1>3, <1>4, <3>1, <4>1
    <3>2. CASE t # Fleet
      <4>1. todo[w] # Sweep
        BY <3>2 DEF Fleet
      <4> QED BY <1>1, <1>3, <1>4, <2>1, <3>2, <4>1, FleetIsFirst DEF DiskOK, Swapped
    <3> QED BY <3>1, <3>2
  <2>3. DiskOK(w)'
    BY <1>1, <1>5, <2>2 DEF DiskOK, Tested
  <2>4. \A v \in FleetWatchers \ {w} : DiskOK(v)' /\ AloneOK(v, w)' /\ AloneOK(w, v)'
    <3> SUFFICES ASSUME NEW v \in FleetWatchers \ {w} PROVE DiskOK(v)' /\ AloneOK(v, w)' /\ AloneOK(w, v)'
      OBVIOUS
    <3>1. pc'[v] = "idle" /\ (Live(v)' <=> Live(v))
      BY <1>1, <1>2, <2>1 DEF Same, Live
    <3>2. AloneOK(w, v)'
      BY <3>1 DEF AloneOK
    <3>3. AloneOK(v, w)' /\ (Live(v) => seen[w] >= head)
      BY <1>1, <2>1, <3>1 DEF AloneOK
    <3>4. DiskOK(v)'
      <4>1. Live(v) => disk'[Fleet] >= head
        <5>1. disk'[Fleet] \in Int /\ seen[w] \in Int /\ head \in Int
          BY <2>2, FleetNumbers
        <5> QED BY <2>2, <3>3, <5>1
      <4> QED BY <1>1, <3>1, <4>1 DEF DiskOK, Swapped, Tested
    <3> QED BY <3>2, <3>3, <3>4
  <2>5. ASSUME NEW v \in FleetWatchers, NEW x \in FleetWatchers, v # x PROVE LastOK(v, x)'
    <3>1. \A z \in FleetWatchers \ {w} : (Live(z)' <=> Live(z)) /\ ~ BackedUp(z)'
      BY <1>1, <1>2, <2>1 DEF Live, Same, BackedUp, Swapped, Tested
    <3>2. BackedUp(w)
      BY <1>1 DEF BackedUp
    <3>3. CASE v # w /\ x = w
      BY <1>1, <2>1, <3>1, <3>2, <3>3 DEF LastOK
    <3>4. CASE v = w /\ x # w
      <4>1. LastOK(x, w)
        BY <2>1, <3>4
      <4> QED BY <1>1, <3>1, <3>2, <3>4, <4>1 DEF LastOK
    <3>5. CASE v # w /\ x # w
      <4>1. LastOK(v, w)
        BY <2>1, <3>5
      <4> QED BY <1>1, <3>1, <3>2, <3>5, <4>1 DEF LastOK
    <3> QED BY <2>5, <3>3, <3>4, <3>5
  <2> QED BY <2>3, <2>4, <2>5
<1> QED BY <1>1, <1>2, <1>6, <1>7, FleetOfOne

\* A rebuild fails, or the smoke test does and the swap is rolled back.
LEMMA FleetFails ==
  ASSUME Types, WatchersOK, FleetInv, NEW w \in FleetWatchers, Return(w), UNCHANGED <<head, starts, crossed>>,
         backoff' = [backoff EXCEPT ![w] = RecordFailure(@, seen[w])], prev'[Fleet] = prev[Fleet],
         \/ pc[w] \in Building /\ disk'[Fleet] = disk[Fleet]
         \/ pc[w] = "smoke" /\ (disk'[Fleet] = disk[Fleet] \/ disk'[Fleet] = prev[Fleet])
  PROVE  FleetInv'
<1> USE DEF Types, WatcherTypes
<1>1. w \in Watchers /\ pc'[w] = "idle" /\ seen'[w] = 0 /\ pc[w] # "idle"
  BY WatchersAre DEF Return, Building
<1>2. \A v \in FleetWatchers \ {w} : Same(v)
  BY WatchersAre DEF Return, Same
<1>3. backoff'[w].head = seen[w] /\ ~ backoff'[w].built
  BY <1>1 DEF RecordFailure
<1>4. MarkOK(w)'
  <2>1. seen[w] <= head
    BY DEF FleetInv, MarksOK, MarkOK
  <2> QED BY <1>1, <1>3, <2>1, FleetNumbers DEF MarkOK, Building, Tested
<1>5. ASSUME ~ crossed
      PROVE  /\ DiskOK(w)'
             /\ \A v \in FleetWatchers \ {w} : DiskOK(v)' /\ AloneOK(v, w)' /\ AloneOK(w, v)'
             /\ \A v \in FleetWatchers, x \in FleetWatchers : v # x => LastOK(v, x)'
  <2>1. \A v \in FleetWatchers \ {w} : pc[v] = "idle" /\ DiskOK(v) /\ LastOK(v, w)
    BY <1>1, <1>5, TheOthersIdle
  <2>2. DiskOK(w)'
    BY <1>1, <1>3 DEF DiskOK, Live, Swapped, Tested
  <2>3. ASSUME NEW v \in FleetWatchers \ {w} PROVE DiskOK(v)' /\ AloneOK(v, w)' /\ AloneOK(w, v)'
    <3>1. pc'[v] = "idle" /\ (Live(v)' <=> Live(v))
      BY <1>2, <2>1 DEF Same, Live
    <3>2. Live(v) => disk'[Fleet] >= head
      <4>1. Live(v) => disk[Fleet] >= head
        BY <2>1 DEF DiskOK
      <4>2. pc[w] = "smoke" /\ Live(v) => prev[Fleet] >= head
        BY <2>1 DEF LastOK, BackedUp, Swapped
      <4> QED BY <4>1, <4>2
    <3> QED BY <1>1, <3>1, <3>2 DEF AloneOK, DiskOK, Swapped, Tested
  <2>4. ASSUME NEW v \in FleetWatchers, NEW x \in FleetWatchers, v # x PROVE LastOK(v, x)'
    <3>1. LastOK(v, x)
      BY <1>5, <2>4 DEF FleetInv, UncrossedOK
    <3>2. ~ Live(w)' /\ ~ BackedUp(w)'
      BY <1>1, <1>3 DEF Live, BackedUp, Swapped, Tested
    <3>3. CASE v = w \/ x = w
      BY <3>2, <3>3 DEF LastOK
    <3>4. CASE v # w /\ x # w
      BY <1>2, <3>1, <3>4 DEF LastOK, BackedUp, Swapped, Live, Same
    <3> QED BY <3>3, <3>4
  <2> QED BY <2>2, <2>3, <2>4
<1> QED BY <1>1, <1>2, <1>4, <1>5, FleetOfOne

\* HEAD moves: no head is marked built any more.
LEMMA FleetCommits ==
  ASSUME Types, FleetInv, Commit
  PROVE  FleetInv'
<1>1. head' = head + 1 /\ UNCHANGED <<starts, binaries, watcher>>
  BY DEF Commit
<1>2. \A w \in FleetWatchers : MarkOK(w)' /\ ~ Live(w)'
  <2> SUFFICES ASSUME NEW w \in FleetWatchers PROVE MarkOK(w)' /\ ~ Live(w)'
    OBVIOUS
  <2>1. MarkOK(w) /\ seen[w] \in Int /\ backoff[w].head \in Int /\ head \in Int
    BY FleetNumbers DEF FleetInv, MarksOK
  <2>2. seen[w] <= head + 1 /\ backoff[w].head <= head + 1 /\ backoff[w].head # head + 1
    BY <2>1 DEF MarkOK
  <2> QED BY <1>1, <2>1, <2>2 DEF MarkOK, Live, watcher
<1>3. \A w \in FleetWatchers : DiskOK(w) => DiskOK(w)'
  BY <1>1, <1>2 DEF DiskOK, Swapped, watcher, binaries
<1>4. \A w \in FleetWatchers, v \in FleetWatchers : AloneOK(v, w) => AloneOK(v, w)'
  BY <1>1, <1>2 DEF AloneOK, watcher
<1>5. \A w \in FleetWatchers, v \in FleetWatchers : LastOK(v, w)'
  BY <1>2 DEF LastOK
<1> QED BY <1>1, <1>2, <1>3, <1>4, <1>5 DEF FleetInv, MarksOK, UncrossedOK, watcher

\* A process is replaced: the watchers of bt-agent begin anew, or it is another unit's.
LEMMA FleetReboots ==
  ASSUME Types, FleetInv, NEW u \in Units, Reboot(u)
  PROVE  FleetInv'
<1>1. CASE u = Fleet
  <2>1. \A w \in FleetWatchers : pc'[w] = "idle" /\ seen'[w] = 0 /\ backoff'[w] = Fresh
    BY <1>1, WatchersAre DEF Reboot
  <2>2. Fresh.head = NoRev /\ ~ Fresh.built
    BY DEF Fresh
  <2>3. UNCHANGED head /\ head \in Int /\ 0 <= head
    BY BoundsAssumption DEF Reboot, Types, RepositoryTypes, Revs
  <2>4. \A w \in FleetWatchers : MarkOK(w)' /\ ~ Live(w)' /\ DiskOK(w)'
    BY <2>1, <2>2, <2>3 DEF MarkOK, Live, DiskOK, Swapped, Building, Tested, NoRev
  <2>5. \A w \in FleetWatchers, v \in FleetWatchers : AloneOK(v, w)' /\ LastOK(v, w)'
    BY <2>1, <2>4 DEF AloneOK, LastOK
  <2> QED BY <2>4, <2>5 DEF FleetInv, MarksOK, UncrossedOK
<1>2. CASE u # Fleet
  <2>1. \A w \in FleetWatchers : Same(w)
    BY <1>2, WatchersAre DEF Reboot, Same
  <2>2. UNCHANGED <<head, starts>> /\ SameFiles /\ (crossed' <=> crossed)
    BY <1>2, FleetIsFirst DEF Reboot, SameFiles, Types, RepositoryTypes
  <2>3. crossed' = crossed
    BY <1>2, <2>2 DEF Reboot, Types, WatcherTypes
  <2> QED BY <2>1, <2>2, <2>3, FleetUnread
<1> QED BY <1>1, <1>2

\* The watcher of another unit touches that unit only.
LEMMA SiblingsWatch ==
  ASSUME Types, WatchersOK, FleetInv, NEW w \in Siblings,
         \/ Tick(w) \/ Materialize(w) \/ Build(w) \/ Backup(w)
         \/ Swap(w) \/ RebuildFails(w) \/ Smoke(w) \/ Recheck(w) \/ RestartSelf(w)
  PROVE  FleetInv'
<1>1. w \in Watchers /\ w \in Units /\ w # Fleet /\ Unit(w) = w /\ w \notin FleetWatchers /\ Fleet \in Units
  BY WatchersAre, FleetIsFirst
<1>2. \A v \in FleetWatchers : v # w /\ v \in Watchers
  BY <1>1, WatchersAre
<1>3. \A v \in FleetWatchers : Same(v)
  BY <1>1, <1>2 DEF Same, Types, WatcherTypes, Tick, Begin, Materialize, Build, Backup, Swap,
     RebuildFails, Return, Smoke, Passes, Recheck, RestartSelf
<1>4. UNCHANGED <<head, starts>> /\ crossed' = crossed
  <2>1. CASE Tick(w)
    BY <1>1, <2>1 DEF Tick, Begin, Types, WatcherTypes
  <2> QED BY <2>1 DEF Materialize, Build, Backup, Swap, RebuildFails, Smoke, Recheck, RestartSelf
<1>5. pc[w] \in Building => Head(todo[w]) = w
  BY <1>1, TheTarget
<1>6. SameFiles
  <2> USE <1>1, <1>5 DEF SameFiles, Types, RepositoryTypes, binaries, Building
  <2>1. CASE Tick(w) \/ Materialize(w) \/ Recheck(w) \/ RestartSelf(w)
    BY <2>1 DEF Tick, Materialize, Recheck, RestartSelf
  <2>2. CASE Build(w) \/ Backup(w)
    BY <2>2 DEF Build, Backup
  <2>3. CASE Swap(w)
    BY <2>3 DEF Swap
  <2>4. CASE RebuildFails(w)
    BY <2>4 DEF RebuildFails
  <2>5. CASE Smoke(w)
    BY <2>5 DEF Smoke, Passes, RollBack
  <2> QED BY <2>1, <2>2, <2>3, <2>4, <2>5
<1> QED BY <1>3, <1>4, <1>6, FleetUnread

\* bt-agent turns to the siblings, or goes through them.
LEMMA FleetSweeps ==
  ASSUME Types, WatchersOK, FleetInv, NEW w \in FleetWatchers,
         \/ PassSibling(w) \/ RollBackSibling(w) \/ AskSibling(w) \/ SiblingAnswers(w)
         \/ GiveUpOnSibling(w) \/ EndSweep(w)
  PROVE  FleetInv'
<1> USE DEF Types, WatcherTypes, RepositoryTypes
<1>1. /\ pc[w] \in {"sweep", "await"} /\ pc'[w] \in Tested /\ w \in Watchers
      /\ UNCHANGED <<head, starts, crossed, backoff, seen, tree>>
  BY WatchersAre DEF PassSibling, RollBackSibling, AskSibling, SiblingAnswers, GiveUpOnSibling, EndSweep,
     Sweeping, Tested, binaries
<1>2. \A v \in FleetWatchers \ {w} : Same(v)
  BY WatchersAre DEF PassSibling, RollBackSibling, AskSibling, SiblingAnswers, GiveUpOnSibling, EndSweep,
     NextSibling, Same
<1>3. SameFiles
  <2>1. CASE RollBackSibling(w)
    <3>1. Head(todo[w]) \in Siblings
      BY <1>1, <2>1, Targeted DEF RollBackSibling, Sweeping, WatchersOK, TargetsOK
    <3> QED BY <2>1, <3>1, FleetIsFirst DEF RollBackSibling, RollBack, SameFiles
  <2> QED BY <2>1 DEF PassSibling, AskSibling, SiblingAnswers, GiveUpOnSibling, EndSweep, SameFiles, binaries
<1> QED BY <1>1, <1>2, <1>3, FleetGoesOn DEF Tested

\* Every step keeps bt-agent's handover tested.
LEMMA FleetKept ==
  ASSUME Types, WatchersOK, FleetInv, Next
  PROVE  FleetInv'
<1>1. ASSUME NEW w \in FleetWatchers, RebuildFails(w) PROVE FleetInv'
  BY <1>1, FleetFails DEF RebuildFails, Building
<1>2. ASSUME NEW w \in FleetWatchers, Smoke(w) PROVE FleetInv'
  <2> USE WatchersAre, FleetIsFirst DEF Types, WatcherTypes, RepositoryTypes
  <2>1. UNCHANGED <<head, starts, crossed>> /\ pc[w] = "smoke" /\ prev' = prev /\ new' = new /\ Unit(w) = Fleet
    BY <1>2 DEF Smoke
  <2>2. CASE Passes(w)
    <3>1. SameFiles /\ UNCHANGED <<seen, tree, backoff>> /\ starts[disk[Fleet]] /\ pc'[w] \in Tested
      BY <2>1, <2>2 DEF Passes, SameFiles, Tested
    <3>2. \A v \in FleetWatchers \ {w} : Same(v)
      BY <2>2 DEF Passes, Same
    <3> QED BY <2>1, <3>1, <3>2, FleetGoesOn
  <2>3. CASE ~ Passes(w)
    <3>1. Return(w) /\ RollBack(Fleet) /\ backoff' = [backoff EXCEPT ![w] = RecordFailure(@, seen[w])]
      BY <1>2, <2>1, <2>3 DEF Smoke
    <3>2. disk'[Fleet] = disk[Fleet] \/ disk'[Fleet] = prev[Fleet]
      BY <3>1 DEF RollBack
    <3> QED BY <2>1, <3>1, <3>2, FleetFails
  <2> QED BY <2>2, <2>3
<1>3. ASSUME NEW w \in FleetWatchers, Recheck(w) PROVE FleetInv'
  <2>1. UNCHANGED <<head, starts, crossed, backoff>> /\ SameFiles /\ pc[w] = "recheck"
    BY <1>3 DEF Recheck, SameFiles, binaries
  <2>2. CASE Return(w)
    BY <2>1, <2>2, FleetReturns DEF Tested
  <2>3. CASE ~ Return(w)
    <3>1. /\ pc' = [pc EXCEPT ![w] = "sweep"] /\ todo' = [todo EXCEPT ![w] = Tail(Sweep)]
          /\ UNCHANGED <<seen, tree>>
      BY <1>3, <2>3 DEF Recheck
    <3>2. (\A v \in FleetWatchers \ {w} : Same(v)) /\ pc'[w] \in Tested
      BY <2>1, <3>1, WatchersAre DEF Same, Tested, Types, WatcherTypes
    <3> QED BY <2>1, <3>1, <3>2, FleetGoesOn DEF Tested
  <2> QED BY <2>2, <2>3
<1>4. ASSUME NEW w \in FleetWatchers, RestartSelf(w) PROVE FleetInv'
  <2>1. UNCHANGED <<head, starts, crossed, backoff>> /\ SameFiles /\ pc[w] = "self" /\ Return(w)
    BY <1>4 DEF RestartSelf, SameFiles
  <2> QED BY <2>1, FleetReturns DEF Tested
<1>5. ASSUME UNCHANGED <<head, starts, binaries, watcher>> PROVE FleetInv'
  BY <1>5, FleetUnread DEF watcher, binaries, Same, SameFiles
<1>6. ASSUME NEW u \in Units, Acquire(u) \/ Release(u) PROVE FleetInv'
  BY <1>5, <1>6 DEF Acquire, Release
<1>7. ASSUME NEW t \in Siblings, NEW w \in FleetWatchers, Serve(t, w) \/ VerifyArtifact(t, w) \/ OwnerRestarts(t, w)
      PROVE  FleetInv'
  BY <1>5, <1>7 DEF Serve, VerifyArtifact, OwnerRestarts
<1>8. ASSUME NEW w \in Watchers,
             \/ Tick(w) \/ Materialize(w) \/ Build(w) \/ Backup(w)
             \/ Swap(w) \/ RebuildFails(w) \/ Smoke(w) \/ Recheck(w) \/ RestartSelf(w)
      PROVE  FleetInv'
  <2>1. CASE w \in FleetWatchers
    BY <1>1, <1>2, <1>3, <1>4, <1>8, <2>1, FleetTicks, FleetBuilds, FleetSwaps
  <2>2. CASE w \notin FleetWatchers
    BY <1>8, <2>2, WatchersAre, SiblingsWatch
  <2> QED BY <2>1, <2>2
<1> QED BY <1>6, <1>7, <1>8, FleetCommits, FleetReboots, FleetSweeps DEF Next, Adopt, Crash

-----------------------------------------------------------------------------
\* The invariant holds at first.
LEMMA DriftInit == Init => DriftInv
<1> SUFFICES ASSUME Init PROVE DriftInv
  OBVIOUS
<1>1. Types
  <2>1. 0 \in Revs /\ Fresh \in Memory /\ NoAsk \in Requests /\ NoRev \in Stamps /\ 0 \in Stamps
    BY BackoffShapes, RequestShapes DEF Stamps
  <2>2. RepositoryTypes
    BY <2>1 DEF Init, RepositoryTypes
  <2>3. ProcessTypes /\ AskTypes
    BY <2>1 DEF Init, ProcessTypes, AskTypes
  <2>4. WatcherTypes
    <3>1. <<>> \in Seq(Units) /\ "idle" \in Steps
      BY DEF Steps
    <3> QED BY <2>1, <3>1 DEF Init, WatcherTypes
  <2> QED BY <2>2, <2>3, <2>4 DEF Types
<1>2. WatchersOK
  BY FleetIsFirst, BoundsAssumption DEF Init, WatchersOK, AttemptsOK, TargetsOK, Fresh, Building
<1>3. SealInv
  BY FleetIsFirst, WatchersAre DEF Init, SealInv, OneOwner, WatcherOwns, RequestOwns, HandoffOwns, NoAsk
<1>4. FleetInv
  <2>1. \A w \in FleetWatchers : /\ pc[w] = "idle" /\ seen[w] = 0 /\ ~ backoff[w].built
                                 /\ backoff[w].head = NoRev /\ head = 0
    BY WatchersAre DEF Init, Fresh
  <2>2. \A w \in FleetWatchers : MarkOK(w) /\ DiskOK(w) /\ ~ Live(w)
    BY <2>1 DEF MarkOK, DiskOK, Live, Swapped, Building, Tested, NoRev
  <2> QED BY <2>1, <2>2 DEF FleetInv, MarksOK, UncrossedOK, AloneOK, LastOK
<1> QED BY <1>1, <1>2, <1>3, <1>4 DEF DriftInv

\* The invariant is inductive.
LEMMA DriftNext == DriftInv /\ [Next]_vars => DriftInv'
<1>1. ASSUME DriftInv, Next PROVE DriftInv'
  <2>1. Types'
    BY <1>1, RepositoryKept, ProcessKept, WatcherKept, AskKept DEF DriftInv, Types
  <2> QED BY <1>1, <2>1, AttemptsKept, TargetsKept, SealKept, FleetKept DEF DriftInv, WatchersOK
<1>2. ASSUME DriftInv, UNCHANGED vars PROVE DriftInv'
  BY <1>2 DEF DriftInv, Types, RepositoryTypes, ProcessTypes, WatcherTypes, AskTypes, WatchersOK,
     AttemptsOK, TargetsOK, SealInv, OneOwner, WatcherOwns, RequestOwns, HandoffOwns, FleetInv, MarksOK,
     MarkOK, UncrossedOK, DiskOK, AloneOK, LastOK, BackedUp, Swapped, Live, vars, binaries, watcher, process
<1> QED BY <1>1, <1>2

\* The inductive invariant holds in every state of every fleet, whose bt-agent
\* may run any number of watchers: the shapes, a rebuild below its limit, one
\* owner per seal; and, as long as passes of bt-agent's watchers have not
\* overlapped, what is on its disk against what they have marked built
\* (DriftWatchOnce, RebuildBackoff, restorePreviousBinary).
THEOREM DriftInvariant == Spec => []DriftInv
BY DriftInit, DriftNext, PTL DEF Spec

\* A unit with a gate is sealed and has no work from the moment systemd may
\* have been asked to restart it (serveRestartControl, DriftWatchOnce).
THEOREM HandoffsAreQuiet == Spec => []HandoffIsQuiet
<1>1. DriftInv => HandoffIsQuiet
  BY DEF DriftInv, SealInv, OneOwner, HandoffOwns, HandoffIsQuiet
<1> QED BY <1>1, DriftInvariant, PTL

\* The seal of a unit's RestartAdmissionGate has one owner, or there is none
\* and admission is open.
THEOREM SealsHaveOneOwner == Spec => []SealsAreOwned
<1>1. DriftInv => SealsAreOwned
  BY OwnersAreOne DEF DriftInv
<1> QED BY <1>1, DriftInvariant, PTL

\* As long as passes of bt-agent's watchers have not overlapped in its process,
\* a watcher past its smoke test hands over to a binary that starts and is not
\* older than the HEAD it adopts, whatever the other watchers rebuilt, failed
\* and rolled back before its pass (DriftWatchOnce, RebuildBackoff.BuiltHead).
THEOREM HandoverIsTested == Spec => []HandsOverTested
<1>1. DriftInv => HandsOverTested
  BY DEF DriftInv, FleetInv, UncrossedOK, DiskOK, Swapped, Tested, HandsOverTested
<1> QED BY <1>1, DriftInvariant, PTL
=============================================================================
