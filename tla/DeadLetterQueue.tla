-------------------------- MODULE DeadLetterQueue --------------------------
(***************************************************************************)
(* The dead-letter queue of internal/reliability/dead_letter.go: failed    *)
(* work in a file shared by the daemon, which replays it, and by others    *)
(* (dashboard, tool servers), which requeue and purge.                     *)
(*                                                                         *)
(* transact reads the file, changes it and replaces it under the sidecar   *)
(* lock: one step, by SharedJSON.  A transaction that fails changes        *)
(* nothing; where its caller goes on all the same the failure is modelled, *)
(* elsewhere it is the call that did not happen.                           *)
(*                                                                         *)
(* Abstracted: the three marks of a held entry are set and cleared         *)
(* together, but for ReplayInFlight, which decides nothing alone, so an    *)
(* entry is held when it has a claim; a process's copy of the queue is     *)
(* what it read last, and only the list of a replay scan outlives a call.  *)
(***************************************************************************)
EXTENDS Integers, FiniteSets

CONSTANTS
  Procs,
  Executors,             \* the processes with a replay executor: the daemon
  Ids, NoId,
  MaxDeadLetterEntries,
  MaxReplayAttempts,
  PushAttempts,          \* the attempts an entry may arrive with
  MaxClaims,             \* bound: claims drawn
  MaxFaults              \* bound: crashes and failed saves

ASSUME IdsOK == IsFiniteSet(Ids) /\ NoId \notin Ids
ASSUME ExecutorsOK == Executors \subseteq Procs
ASSUME BoundsOK == MaxDeadLetterEntries \in Nat \ {0} /\ MaxReplayAttempts \in Nat
                   /\ MaxClaims \in Nat /\ MaxFaults \in Nat
ASSUME PushAttemptsOK == PushAttempts \subseteq Nat

NoClaim == 0
Idle == [stage |-> "idle", id |-> NoId, claim |-> NoClaim]

VARIABLES
  disk,     \* id -> its entry in the file
  born,     \* id -> its place in the order of insertion, 0 before it
  claims,   \* claims drawn so far; a claim is its number
  run,      \* process -> the replay it has admitted
  todo,     \* process -> ids its scan has found ready and not yet tried
  effect,   \* what the work behind an id has done: nothing, something perhaps, or all
  execs,    \* id -> how often the executor was called for it
  notes,    \* what operators found out about held entries
  faults

vars == <<disk, born, claims, run, todo, effect, execs, notes, faults>>

Held(id) == disk[id].claim # NoClaim

With(id, e) == [i \in DOMAIN disk \cup {id} |-> IF i = id THEN e ELSE disk[i]]
Only(ids) == [i \in ids |-> disk[i]]
Without(id) == Only(DOMAIN disk \ {id})

Expendable_Any(id) == TRUE                      \* mutant: claims are not spared
Expendable(id) == ~ Held(id)

-----------------------------------------------------------------------------
(* Insertion and maintenance, in any process.                               *)

\* The oldest entry that may go.
Oldest(id) ==
  /\ id \in DOMAIN disk /\ Expendable(id)
  /\ \A i \in DOMAIN disk : Expendable(i) => born[id] =< born[i]

Evicted(ids) ==
  IF Cardinality(DOMAIN disk) < MaxDeadLetterEntries THEN ids = DOMAIN disk
  ELSE \E id \in DOMAIN disk : Oldest(id) /\ ids = DOMAIN disk \ {id}

\* A terminal failure may have acted: it arrives held.
Push(id, attempts, terminal) ==
  /\ born[id] = 0
  /\ claims' = IF terminal THEN claims + 1 ELSE claims
  /\ claims' =< MaxClaims
  /\ \E ids \in SUBSET DOMAIN disk :
       /\ Evicted(ids)
       /\ disk' = [i \in ids \cup {id} |->
                     IF i # id THEN disk[i]
                     ELSE [attempts |-> attempts, requeued |-> FALSE, abandoned |-> FALSE,
                           claim |-> IF terminal THEN claims' ELSE NoClaim]]
  /\ born' = [born EXCEPT ![id] = Cardinality({i \in Ids : born[i] # 0}) + 1]
  /\ effect' = [effect EXCEPT ![id] = IF terminal THEN "maybe" ELSE "none"]
  /\ UNCHANGED <<run, todo, execs, notes, faults>>

Spent_OneMore(id) == disk[id].attempts > MaxReplayAttempts       \* mutant: off by one
Spent(id) == disk[id].attempts >= MaxReplayAttempts

Requeue(id) ==
  /\ id \in DOMAIN disk /\ ~ Held(id) /\ ~ disk[id].abandoned
  /\ disk' = IF Spent(id) THEN [disk EXCEPT ![id].abandoned = TRUE]
             ELSE [disk EXCEPT ![id].attempts = @ + 1, ![id].requeued = TRUE]
  /\ UNCHANGED <<born, claims, run, todo, effect, execs, notes, faults>>

Purge ==
  /\ disk' = Only({id \in DOMAIN disk : ~ Expendable(id)})
  /\ UNCHANGED <<born, claims, run, todo, effect, execs, notes, faults>>

-----------------------------------------------------------------------------
(* Replay, in a process with an executor.                                   *)

Ready_NotLast(id) ==                             \* mutant: the last attempt is not made
  disk[id].requeued /\ ~ Spent(id) /\ ~ disk[id].abandoned /\ ~ Held(id)
Ready(id) == disk[id].requeued /\ ~ disk[id].abandoned /\ ~ Held(id)

Scan(p) ==
  /\ p \in Executors /\ run[p] = Idle /\ todo[p] = {}
  /\ todo' = [todo EXCEPT ![p] = {id \in DOMAIN disk : Ready(id)}]
  /\ UNCHANGED <<disk, born, claims, run, effect, execs, notes, faults>>

Refused(id) == IF id \notin DOMAIN disk THEN TRUE ELSE Held(id) \/ disk[id].abandoned

\* The claim is in the file before the executor is called.  The scan goes on
\* after an error; nothing is admitted then.
Admit(p, id) ==
  /\ run[p] = Idle /\ id \in todo[p]
  /\ todo' = [todo EXCEPT ![p] = @ \ {id}]
  /\ \/ Refused(id) /\ UNCHANGED <<disk, claims, run, faults>>
     \/ ~ Refused(id) /\ faults < MaxFaults /\ faults' = faults + 1
        /\ UNCHANGED <<disk, claims, run>>
     \/ /\ ~ Refused(id) /\ claims < MaxClaims
        /\ claims' = claims + 1
        /\ disk' = [disk EXCEPT ![id].claim = claims']
        /\ run' = [run EXCEPT ![p] = [stage |-> "admitted", id |-> id, claim |-> claims']]
        /\ UNCHANGED faults
  /\ UNCHANGED <<born, effect, execs, notes>>

\* The executor is called; from here on the work may have acted.
Dispatch(p) ==
  /\ run[p].stage = "admitted"
  /\ run' = [run EXCEPT ![p].stage = "running"]
  /\ effect' = [effect EXCEPT ![run[p].id] = "maybe"]
  /\ execs' = [execs EXCEPT ![run[p].id] = @ + 1]
  /\ UNCHANGED <<disk, born, claims, todo, notes, faults>>

\* What is recorded of an entry whose replay failed.  A terminal error (a panic
\* among them) keeps the claim.
AfterFailure_Releases(e, outcome) ==             \* mutant: every failure releases
  [e EXCEPT !.requeued = FALSE, !.claim = NoClaim]
AfterFailure(e, outcome) ==
  IF outcome = "terminal" THEN [e EXCEPT !.requeued = FALSE]
  ELSE [e EXCEPT !.requeued = FALSE, !.claim = NoClaim,
                 !.abandoned = @ \/ e.attempts >= MaxReplayAttempts]

StillOurs(p) ==
  IF run[p].id \notin DOMAIN disk THEN FALSE ELSE disk[run[p].id].claim = run[p].claim

Record(p, outcome) ==
  disk' = IF ~ StillOurs(p) THEN disk
          ELSE IF outcome = "ok" THEN Without(run[p].id)
          ELSE With(run[p].id, AfterFailure(disk[run[p].id], outcome))

Effects == [ok |-> "done", retry |-> "none", terminal |-> "maybe"]

\* The executor returns and its outcome is recorded, or the save fails and the
\* claim stays.
Settle(p, outcome) ==
  /\ run[p].stage = "running"
  /\ effect' = [effect EXCEPT ![run[p].id] = Effects[outcome]]
  /\ \/ Record(p, outcome) /\ UNCHANGED faults
     \/ faults < MaxFaults /\ faults' = faults + 1 /\ UNCHANGED disk
  /\ run' = [run EXCEPT ![p] = Idle]
  /\ UNCHANGED <<born, claims, todo, execs, notes>>

Crash(p) ==
  /\ faults < MaxFaults /\ faults' = faults + 1
  /\ run' = [run EXCEPT ![p] = Idle]
  /\ todo' = [todo EXCEPT ![p] = {}]
  /\ UNCHANGED <<disk, born, claims, effect, execs, notes>>

-----------------------------------------------------------------------------
(* Recovery.                                                                *)

\* An operator makes sure that the owner of a claim is quiet and finds out
\* whether the work was done.
Inspect(id) ==
  /\ id \in DOMAIN disk /\ Held(id)
  /\ \A p \in Procs : run[p].claim # disk[id].claim
  /\ \E done \in BOOLEAN :
       /\ effect[id] = "maybe" \/ done = (effect[id] = "done")
       /\ effect' = [effect EXCEPT ![id] = IF done THEN "done" ELSE "none"]
       /\ notes' = notes \cup {[id |-> id, claim |-> disk[id].claim, completed |-> done]}
  /\ UNCHANGED <<disk, born, claims, run, todo, execs, faults>>

Concerns_AnyClaim(note) == Held(note.id)         \* mutant: the claim is not compared
Concerns(note) == Held(note.id) /\ disk[note.id].claim = note.claim

\* At any later time, in any process, perhaps more than once.
ResolveReplayRecovery(p, note) ==
  /\ run[p].id # note.id
  /\ note.id \in DOMAIN disk /\ Concerns(note)
  /\ disk' = IF note.completed THEN Without(note.id)
             ELSE [disk EXCEPT ![note.id].claim = NoClaim, ![note.id].requeued = FALSE]
  /\ UNCHANGED <<born, claims, run, todo, effect, execs, notes, faults>>

-----------------------------------------------------------------------------
Init ==
  /\ disk = [id \in {} |-> 0]
  /\ born = [id \in Ids |-> 0]
  /\ claims = 0
  /\ run = [p \in Procs |-> Idle]
  /\ todo = [p \in Procs |-> {}]
  /\ effect = [id \in Ids |-> "none"]
  /\ execs = [id \in Ids |-> 0]
  /\ notes = {}
  /\ faults = 0

Outcomes == {"ok", "retry", "terminal"}

Replay(p) ==
  \/ Scan(p) \/ Dispatch(p)
  \/ \E id \in Ids : Admit(p, id)
  \/ \E outcome \in Outcomes : Settle(p, outcome)

Next ==
  \/ \E id \in Ids, attempts \in PushAttempts, terminal \in BOOLEAN : Push(id, attempts, terminal)
  \/ \E id \in Ids : Requeue(id) \/ Inspect(id)
  \/ Purge
  \/ \E p \in Procs : Replay(p) \/ Crash(p) \/ \E note \in notes : ResolveReplayRecovery(p, note)

Spec == Init /\ [][Next]_vars

\* The daemon's ticker keeps scanning (a panic is recovered per tick) and its
\* executor is called with a deadline.
FairSpec == Spec /\ \A p \in Executors : WF_vars(Replay(p))

-----------------------------------------------------------------------------
(* Properties.                                                              *)

Entry == [attempts : (0..MaxReplayAttempts) \cup PushAttempts,
          requeued : BOOLEAN, abandoned : BOOLEAN, claim : 0..MaxClaims]

Stages == {"idle", "admitted", "running"}

\* Every variable holds values of its shape: requeues never count past the budget.
TypeOK ==
  /\ DOMAIN disk \subseteq Ids
  /\ \A id \in DOMAIN disk : disk[id] \in Entry
  /\ born \in [Ids -> Nat]
  /\ claims \in 0..MaxClaims
  /\ run \in [Procs -> [stage : Stages, id : Ids \cup {NoId}, claim : 0..MaxClaims]]
  /\ todo \in [Procs -> SUBSET Ids]
  /\ effect \in [Ids -> {"none", "maybe", "done"}]
  /\ execs \in [Ids -> Nat]
  /\ notes \subseteq [id : Ids, claim : 1..MaxClaims, completed : BOOLEAN]
  /\ faults \in 0..MaxFaults

\* Work that may have acted, or has, is held as long as it is in the file: no
\* failed save, crash, purge, eviction, sibling or late decision releases it.
ActedIsHeld == \A id \in DOMAIN disk : effect[id] # "none" => Held(id)

\* A replay finds its own claim when it comes to record its outcome.
OwnerKeepsClaim == \A p \in Procs : run[p] # Idle => StillOurs(p)

\* The executor is never called for work that may already have been done: the
\* promise of durable claims ("neither permits retry").
NeverTwice ==
  [][\A p \in Procs : run[p].stage = "admitted" /\ run'[p].stage = "running"
                        => effect[run[p].id] = "none"]_vars

\* However failures, crashes, decisions and impatient requeues interleave, an
\* entry is replayed at most MaxReplayAttempts times by the one daemon.
ReplayBudget == \A id \in Ids : execs[id] =< MaxReplayAttempts

\* What was requeued is replayed, abandoned, held or gone at some time: the scan
\* misses nothing that is stamped in the file by another process.
RequeuedIsTaken ==
  \A id \in Ids :
    (id \in DOMAIN disk /\ disk[id].requeued)
      ~> IF id \notin DOMAIN disk THEN TRUE
         ELSE ~ disk[id].requeued \/ disk[id].abandoned \/ Held(id)

-----------------------------------------------------------------------------
(* The inductive invariant behind ActedIsHeld, OwnerKeepsClaim, NeverTwice.  *)

\* A replay is admitted before it acts, under a claim of its own.
RunsAreClaimed ==
  /\ \A p \in Procs :
       \/ run[p] = Idle
       \/ /\ run[p].stage # "idle" /\ run[p].id \in Ids /\ run[p].claim \in 1..claims
          /\ run[p].stage = "admitted" => effect[run[p].id] = "none"
  /\ \A p, q \in Procs : run[p].claim = run[q].claim => p = q \/ run[p] = Idle

\* Claims in the file and in notes have been drawn, and an entry not yet
\* inserted has no effect.
ClaimsAreDrawn ==
  /\ \A id \in DOMAIN disk : disk[id].claim =< claims /\ born[id] # 0
  /\ \A note \in notes : note.claim =< claims

\* A note is about a claim whose owner is quiet, and says what is true as long
\* as the claim is in the file.
NotesAreTrue ==
  \A note \in notes :
    /\ \A p \in Procs : run[p].claim # note.claim
    /\ note.id \in DOMAIN disk /\ disk[note.id].claim = note.claim
         => effect[note.id] = IF note.completed THEN "done" ELSE "none"

IInv == TypeOK /\ ActedIsHeld /\ OwnerKeepsClaim /\ RunsAreClaimed /\ ClaimsAreDrawn /\ NotesAreTrue
=============================================================================
