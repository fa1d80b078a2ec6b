-------------------------- MODULE DeadLetterProofs --------------------------
(***************************************************************************)
(* Proofs about the dead-letter queue, for any number of processes, ids,   *)
(* claims and faults, and any capacity.                                    *)
(*                                                                         *)
(* The invariant says that every admitted replay has a claim of its own,   *)
(* which stays in the file until the replay records its outcome; that work *)
(* which may have acted is held; and that what an operator noted about a   *)
(* claim remains true while the claim is in the file.  Together: an entry  *)
(* is unheld only if nothing was done for it.                              *)
(***************************************************************************)
EXTENDS DeadLetterQueue, FiniteSetTheorems, TLAPS

\* Attempts are counted in natural numbers.
LEMMA AttemptsAreNat == \A n \in (0..MaxReplayAttempts) \cup PushAttempts : n \in Nat
  BY BoundsOK, PushAttemptsOK

\* An admitted replay finds its entry, held under its own claim, and shares it
\* with no other replay.
LEMMA RunFacts ==
  ASSUME IInv, NEW p \in Procs, run[p] # Idle
  PROVE  /\ run[p].id \in DOMAIN disk /\ run[p].id \in Ids
         /\ disk[run[p].id].claim = run[p].claim
         /\ run[p].claim \in 1..claims
         /\ Held(run[p].id)
         /\ \A q \in Procs \ {p} : run[q] # Idle => run[q].id # run[p].id
<1>1. run[p].claim \in 1..claims /\ run[p].id \in Ids
  BY DEF IInv, RunsAreClaimed
<1>2. run[p].id \in DOMAIN disk /\ disk[run[p].id].claim = run[p].claim
  BY DEF IInv, OwnerKeepsClaim, StillOurs
<1>3. ASSUME NEW q \in Procs, q # p, run[q] # Idle, run[q].id = run[p].id
      PROVE  FALSE
  <2>1. disk[run[q].id].claim = run[q].claim
    BY <1>3 DEF IInv, OwnerKeepsClaim, StillOurs
  <2>2. run[p].claim = run[q].claim
    BY <1>2, <1>3, <2>1
  <2> QED
    BY <1>3, <2>2 DEF IInv, RunsAreClaimed
<1> QED
  BY <1>1, <1>2, <1>3 DEF Held, NoClaim

\* Initially the file is empty.
LEMMA InitInv == Init => IInv
<1> SUFFICES ASSUME Init PROVE IInv
  OBVIOUS
<1>1. disk = [id \in {} |-> 0] /\ DOMAIN disk = {}
  BY DEF Init
<1>2. \A p \in Procs : run[p] = Idle
  BY DEF Init
<1>3. TypeOK
  <2>1. run \in [Procs -> [stage : Stages, id : Ids \cup {NoId}, claim : 0..MaxClaims]]
    BY BoundsOK DEF Init, Idle, Stages, NoClaim
  <2>2. claims \in 0..MaxClaims /\ faults \in 0..MaxFaults
    BY BoundsOK DEF Init
  <2>3. born \in [Ids -> Nat] /\ execs \in [Ids -> Nat] /\ effect \in [Ids -> {"none", "maybe", "done"}]
    BY DEF Init
  <2>4. todo \in [Procs -> SUBSET Ids] /\ notes = {}
    BY DEF Init
  <2> QED
    BY <1>1, <2>1, <2>2, <2>3, <2>4 DEF TypeOK
<1>4. ActedIsHeld
  BY <1>1 DEF ActedIsHeld
<1>5. OwnerKeepsClaim
  BY <1>2 DEF OwnerKeepsClaim
<1>6. RunsAreClaimed
  BY <1>2 DEF RunsAreClaimed
<1>7. ClaimsAreDrawn /\ NotesAreTrue
  BY <1>1 DEF Init, ClaimsAreDrawn, NotesAreTrue
<1> QED
  BY <1>3, <1>4, <1>5, <1>6, <1>7 DEF IInv

-----------------------------------------------------------------------------
\* Insertion keeps the invariant: what is evicted to make room is not held, and
\* a terminal failure enters under a new claim.
LEMMA PushInv ==
  ASSUME IInv, NEW id \in Ids, NEW attempts \in PushAttempts, NEW terminal \in BOOLEAN,
         Push(id, attempts, terminal)
  PROVE  IInv'
<1> DEFINE new == [attempts |-> attempts, requeued |-> FALSE, abandoned |-> FALSE,
                   claim |-> IF terminal THEN claims' ELSE NoClaim]
<1>1. claims \in 0..MaxClaims /\ claims' \in 0..MaxClaims /\ claims =< claims'
      /\ (terminal => claims' = claims + 1)
  BY BoundsOK DEF Push, IInv, TypeOK
<1>2. new \in Entry /\ (terminal => new.claim = claims + 1) /\ (~ terminal => new.claim = 0)
  <2>1. (IF terminal THEN claims' ELSE NoClaim) \in 0..MaxClaims
    BY <1>1, BoundsOK DEF NoClaim
  <2>2. attempts \in (0..MaxReplayAttempts) \cup PushAttempts
    OBVIOUS
  <2> QED
    BY <1>1, <2>1, <2>2 DEF Entry, NoClaim
<1>3. id \notin DOMAIN disk
  BY DEF Push, IInv, ClaimsAreDrawn
<1>4. PICK ids \in SUBSET DOMAIN disk :
        /\ Evicted(ids)
        /\ disk' = [i \in ids \cup {id} |-> IF i # id THEN disk[i] ELSE new]
  BY DEF Push
<1>5. \A i \in DOMAIN disk : Held(i) => i \in ids
  BY <1>4 DEF Evicted, Oldest, Expendable
<1>6. DOMAIN disk' = ids \cup {id} /\ disk'[id] = new /\ \A i \in ids : disk'[i] = disk[i] /\ i # id
  BY <1>3, <1>4
<1>7. effect' = [effect EXCEPT ![id] = IF terminal THEN "maybe" ELSE "none"]
      /\ UNCHANGED <<run, todo, execs, notes, faults>>
  BY DEF Push
<1>8. \A i \in Ids : i # id => effect'[i] = effect[i]
  BY <1>7 DEF IInv, TypeOK
<1>9. effect'[id] = IF terminal THEN "maybe" ELSE "none"
  BY <1>7 DEF IInv, TypeOK
<1>10. born' \in [Ids -> Nat] /\ born'[id] # 0 /\ \A i \in Ids : i # id => born'[i] = born[i]
  <2>1. IsFiniteSet({i \in Ids : born[i] # 0})
    BY FS_Subset, IdsOK
  <2>2. Cardinality({i \in Ids : born[i] # 0}) \in Nat
    BY <2>1, FS_CardinalityType
  <2> QED
    BY <2>2 DEF Push, IInv, TypeOK
<1>11. TypeOK'
  BY <1>1, <1>2, <1>6, <1>7, <1>10 DEF IInv, TypeOK
<1>12. ActedIsHeld'
  BY <1>1, <1>2, <1>6, <1>8, <1>9 DEF IInv, TypeOK, ActedIsHeld, Held, NoClaim
<1>13. \A p \in Procs : run[p] # Idle => run[p].id \in ids
  BY <1>5, RunFacts
<1>14. OwnerKeepsClaim'
  BY <1>6, <1>7, <1>13, RunFacts DEF OwnerKeepsClaim, StillOurs
<1>15. RunsAreClaimed'
  BY <1>1, <1>6, <1>7, <1>8, <1>13 DEF IInv, TypeOK, RunsAreClaimed
<1>16. ClaimsAreDrawn'
  <2>1. ASSUME NEW i \in DOMAIN disk' PROVE disk'[i].claim =< claims' /\ born'[i] # 0
    <3>1. CASE i = id
      BY <1>1, <1>2, <1>6, <1>10, <3>1
    <3>2. CASE i # id
      BY <1>1, <1>6, <1>10, <2>1, <3>2 DEF IInv, TypeOK, ClaimsAreDrawn, Entry
    <3> QED
      BY <3>1, <3>2
  <2>2. ASSUME NEW note \in notes' PROVE note.claim =< claims'
    BY <1>1, <1>7, <2>2 DEF IInv, TypeOK, ClaimsAreDrawn
  <2> QED
    BY <2>1, <2>2 DEF ClaimsAreDrawn
<1>17. NotesAreTrue'
  <2> SUFFICES ASSUME NEW note \in notes
               PROVE  /\ \A p \in Procs : run[p].claim # note.claim
                      /\ note.id \in DOMAIN disk' /\ disk'[note.id].claim = note.claim
                           => effect'[note.id] = IF note.completed THEN "done" ELSE "none"
    BY <1>7 DEF NotesAreTrue
  <2>1. note.claim \in 1..claims /\ note.id \in Ids
    BY <1>1 DEF IInv, TypeOK, ClaimsAreDrawn
  <2>2. new.claim # note.claim
    BY <1>1, <1>2, <2>1
  <2>3. CASE note.id = id
    BY <1>6, <2>2, <2>3 DEF IInv, NotesAreTrue
  <2>4. CASE note.id # id
    BY <1>6, <1>8, <2>1, <2>4 DEF IInv, NotesAreTrue
  <2> QED
    BY <2>3, <2>4
<1> QED
  BY <1>11, <1>12, <1>14, <1>15, <1>16, <1>17 DEF IInv

\* A change of the file that keeps every held entry's claim, claims nothing and
\* adds nothing keeps the invariant.
LEMMA MaintenanceInv ==
  ASSUME IInv, UNCHANGED <<born, claims, run, todo, effect, execs, notes, faults>>,
         DOMAIN disk' \subseteq DOMAIN disk,
         \A i \in DOMAIN disk : Held(i) => i \in DOMAIN disk',
         \A i \in DOMAIN disk' : disk'[i] \in Entry /\ disk'[i].claim = disk[i].claim
  PROVE  IInv'
<1>1. TypeOK'
  BY DEF IInv, TypeOK
<1>2. ActedIsHeld'
  BY DEF IInv, ActedIsHeld, Held
<1>3. OwnerKeepsClaim'
  BY RunFacts DEF OwnerKeepsClaim, StillOurs
<1>4. RunsAreClaimed'
  BY DEF IInv, RunsAreClaimed
<1>5. ClaimsAreDrawn'
  BY DEF IInv, ClaimsAreDrawn
<1>6. NotesAreTrue'
  BY DEF IInv, NotesAreTrue
<1> QED
  BY <1>1, <1>2, <1>3, <1>4, <1>5, <1>6 DEF IInv

\* Requeueing touches an unheld entry and counts within the budget.
LEMMA RequeueInv ==
  ASSUME IInv, NEW id \in Ids, Requeue(id)
  PROVE  IInv'
<1>1. id \in DOMAIN disk /\ disk[id] \in Entry
  BY DEF Requeue, IInv, TypeOK
<1>2. DOMAIN disk' = DOMAIN disk /\ \A i \in DOMAIN disk : i # id => disk'[i] = disk[i]
  BY DEF Requeue
<1>3. CASE Spent(id)
  <2>1. disk'[id] = [disk[id] EXCEPT !.abandoned = TRUE]
    BY <1>1, <1>3 DEF Requeue
  <2>2. disk'[id] \in Entry /\ disk'[id].claim = disk[id].claim
    BY <1>1, <2>1 DEF Entry
  <2> QED
    BY <1>2, <2>2, MaintenanceInv DEF Requeue, IInv, TypeOK
<1>4. CASE ~ Spent(id)
  <2>1. disk'[id] = [disk[id] EXCEPT !.attempts = @ + 1, !.requeued = TRUE]
    BY <1>1, <1>4 DEF Requeue
  <2>2. disk[id].attempts + 1 \in 0..MaxReplayAttempts
    <3>1. disk[id].attempts \in (0..MaxReplayAttempts) \cup PushAttempts
      BY <1>1 DEF Entry
    <3>2. disk[id].attempts \in Nat
      BY <3>1, AttemptsAreNat
    <3>3. ~ (disk[id].attempts >= MaxReplayAttempts)
      BY <1>4 DEF Spent
    <3> QED
      BY <3>2, <3>3, BoundsOK
  <2>3. disk'[id] \in Entry /\ disk'[id].claim = disk[id].claim
    BY <1>1, <2>1, <2>2 DEF Entry
  <2> QED
    BY <1>2, <2>3, MaintenanceInv DEF Requeue, IInv, TypeOK
<1> QED
  BY <1>3, <1>4

\* A purge spares held entries.
LEMMA PurgeInv == ASSUME IInv, Purge PROVE IInv'
  BY MaintenanceInv DEF Purge, Only, Expendable, IInv, TypeOK

-----------------------------------------------------------------------------
\* An entry is admitted only unheld, hence without effect, and under a new
\* claim.
LEMMA AdmitInv ==
  ASSUME IInv, NEW p \in Procs, NEW id \in Ids, Admit(p, id)
  PROVE  IInv'
<1>1. todo' \in [Procs -> SUBSET Ids] /\ UNCHANGED <<born, effect, execs, notes>>
  BY DEF Admit, IInv, TypeOK
<1>2. CASE UNCHANGED <<disk, claims, run>> /\ faults' \in 0..MaxFaults
  <2>1. TypeOK'
    BY <1>1, <1>2 DEF IInv, TypeOK
  <2> QED
    BY <1>1, <1>2, <2>1
    DEF IInv, ActedIsHeld, Held, OwnerKeepsClaim, StillOurs, RunsAreClaimed, ClaimsAreDrawn, NotesAreTrue
<1>3. CASE /\ ~ Refused(id) /\ claims < MaxClaims
           /\ claims' = claims + 1
           /\ disk' = [disk EXCEPT ![id].claim = claims']
           /\ run' = [run EXCEPT ![p] = [stage |-> "admitted", id |-> id, claim |-> claims']]
           /\ UNCHANGED faults
  <2>1. id \in DOMAIN disk /\ ~ Held(id) /\ disk[id] \in Entry /\ effect[id] = "none"
    BY <1>3 DEF Refused, IInv, TypeOK, ActedIsHeld
  <2>2. claims \in 0..MaxClaims /\ claims' \in 1..MaxClaims /\ claims' > claims
    BY <1>3, BoundsOK DEF IInv, TypeOK
  <2>3. DOMAIN disk' = DOMAIN disk /\ (\A i \in DOMAIN disk : i # id => disk'[i] = disk[i])
    BY <1>3
  <2>4. disk'[id] = [disk[id] EXCEPT !.claim = claims']
    BY <1>3, <2>1
  <2>5. disk'[id] \in Entry /\ disk'[id].claim = claims'
    BY <2>1, <2>2, <2>4 DEF Entry
  <2>6. run'[p] = [stage |-> "admitted", id |-> id, claim |-> claims']
        /\ \A q \in Procs : q # p => run'[q] = run[q]
    BY <1>3 DEF IInv, TypeOK
  <2>7. TypeOK'
    <3>1. run' \in [Procs -> [stage : Stages, id : Ids \cup {NoId}, claim : 0..MaxClaims]]
      BY <1>3, <2>2 DEF IInv, TypeOK, Stages
    <3> QED
      BY <1>1, <1>3, <2>2, <2>3, <2>5, <3>1 DEF IInv, TypeOK
  <2>8. ActedIsHeld'
    BY <1>1, <2>2, <2>3, <2>5 DEF IInv, ActedIsHeld, Held, NoClaim
  <2>9. \A q \in Procs : run[q] # Idle => run[q].id # id
    BY <2>1, RunFacts
  <2>10. OwnerKeepsClaim'
    BY <2>1, <2>3, <2>5, <2>6, <2>9, RunFacts DEF OwnerKeepsClaim, StillOurs
  <2>11. RunsAreClaimed'
    <3>1. ASSUME NEW q \in Procs, run'[q] # Idle
          PROVE  /\ run'[q].stage # "idle" /\ run'[q].id \in Ids /\ run'[q].claim \in 1..claims'
                 /\ run'[q].stage = "admitted" => effect'[run'[q].id] = "none"
      <4>1. CASE q = p
        BY <1>1, <2>1, <2>2, <2>6, <4>1
      <4>2. CASE q # p
        BY <1>1, <2>2, <2>6, <3>1, <4>2 DEF IInv, RunsAreClaimed
      <4> QED
        BY <4>1, <4>2
    <3>2. \A q \in Procs : q # p => run'[q].claim # claims'
      <4> SUFFICES ASSUME NEW q \in Procs, q # p PROVE run[q].claim # claims'
        BY <2>6
      <4>1. run[q].claim \in 0..claims
        BY <2>2 DEF IInv, RunsAreClaimed, Idle, NoClaim
      <4> QED
        BY <2>2, <4>1
    <3>3. ASSUME NEW q1 \in Procs, NEW q2 \in Procs, run'[q1].claim = run'[q2].claim
          PROVE  q1 = q2 \/ run'[q1] = Idle
      <4>1. CASE q1 = p \/ q2 = p
        BY <2>6, <3>2, <3>3, <4>1
      <4>2. CASE q1 # p /\ q2 # p
        BY <2>6, <3>3, <4>2 DEF IInv, RunsAreClaimed
      <4> QED
        BY <4>1, <4>2
    <3> QED
      BY <3>1, <3>3 DEF RunsAreClaimed
  <2>12. ClaimsAreDrawn'
    <3>1. ASSUME NEW i \in DOMAIN disk' PROVE disk'[i].claim =< claims' /\ born'[i] # 0
      <4>1. CASE i = id
        BY <1>1, <2>1, <2>2, <2>5, <4>1 DEF IInv, ClaimsAreDrawn
      <4>2. CASE i # id
        BY <1>1, <2>2, <2>3, <3>1, <4>2 DEF IInv, TypeOK, Entry, ClaimsAreDrawn
      <4> QED
        BY <4>1, <4>2
    <3>2. ASSUME NEW note \in notes' PROVE note.claim =< claims'
      BY <1>1, <2>2, <3>2 DEF IInv, TypeOK, ClaimsAreDrawn
    <3> QED
      BY <3>1, <3>2 DEF ClaimsAreDrawn
  <2>13. NotesAreTrue'
    <3>1. \A note \in notes : note.claim # claims'
      BY <2>2 DEF IInv, TypeOK, ClaimsAreDrawn
    <3> QED
      BY <1>1, <2>3, <2>5, <2>6, <3>1 DEF IInv, NotesAreTrue
  <2> QED
    BY <2>7, <2>8, <2>10, <2>11, <2>12, <2>13 DEF IInv
<1>4. ASSUME faults < MaxFaults, faults' = faults + 1 PROVE faults' \in 0..MaxFaults
  BY <1>4, BoundsOK DEF IInv, TypeOK
<1>5. UNCHANGED faults => faults' \in 0..MaxFaults
  BY DEF IInv, TypeOK
<1> QED
  BY <1>2, <1>3, <1>4, <1>5 DEF Admit

\* Once the executor is called the work may have acted; its entry is held.
LEMMA DispatchInv ==
  ASSUME IInv, NEW p \in Procs, Dispatch(p)
  PROVE  IInv'
<1>1. run[p].stage = "admitted" /\ run[p] # Idle
  BY DEF Dispatch, Idle
<1> DEFINE id == run[p].id
<1>2. id \in Ids /\ id \in DOMAIN disk /\ disk[id].claim = run[p].claim /\ Held(id)
      /\ \A q \in Procs \ {p} : run[q] # Idle => run[q].id # id
  BY <1>1, RunFacts
<1>3. run'[p] = [run[p] EXCEPT !.stage = "running"] /\ \A q \in Procs : q # p => run'[q] = run[q]
  BY DEF Dispatch, IInv, TypeOK
<1>4. \A i \in Ids : i # id => effect'[i] = effect[i]
  BY DEF Dispatch, IInv, TypeOK
<1>5. run'[p].stage = "running" /\ run'[p].id = id /\ run'[p].claim = run[p].claim /\ run'[p] # Idle
  <2>1. run[p] \in [stage : Stages, id : Ids \cup {NoId}, claim : 0..MaxClaims]
    BY DEF IInv, TypeOK
  <2> QED
    BY <1>3, <2>1 DEF Idle
<1>6. UNCHANGED <<disk, born, claims, todo, notes, faults>>
  BY DEF Dispatch
<1>7. TypeOK'
  <2>1. run' \in [Procs -> [stage : Stages, id : Ids \cup {NoId}, claim : 0..MaxClaims]]
    BY DEF Dispatch, IInv, TypeOK, Stages
  <2>2. effect' \in [Ids -> {"none", "maybe", "done"}] /\ execs' \in [Ids -> Nat]
    BY <1>2 DEF Dispatch, IInv, TypeOK
  <2> QED
    BY <1>6, <2>1, <2>2 DEF IInv, TypeOK
<1>8. ActedIsHeld'
  BY <1>2, <1>4, <1>6 DEF IInv, TypeOK, ActedIsHeld, Held
<1>9. OwnerKeepsClaim'
  <2> SUFFICES ASSUME NEW q \in Procs, run'[q] # Idle
               PROVE  run'[q].id \in DOMAIN disk /\ disk[run'[q].id].claim = run'[q].claim
    BY <1>6 DEF OwnerKeepsClaim, StillOurs
  <2>1. CASE q = p
    BY <1>2, <1>5, <2>1
  <2>2. CASE q # p
    BY <1>3, <2>2, RunFacts
  <2> QED
    BY <2>1, <2>2
<1>10. RunsAreClaimed'
  <2>1. ASSUME NEW q \in Procs, run'[q] # Idle
        PROVE  /\ run'[q].stage # "idle" /\ run'[q].id \in Ids /\ run'[q].claim \in 1..claims'
               /\ run'[q].stage = "admitted" => effect'[run'[q].id] = "none"
    <3>1. CASE q = p
      BY <1>1, <1>2, <1>5, <1>6, <3>1 DEF IInv, RunsAreClaimed
    <3>2. CASE q # p
      BY <1>2, <1>3, <1>4, <1>6, <2>1, <3>2 DEF IInv, RunsAreClaimed
    <3> QED
      BY <3>1, <3>2
  <2>2. \A q \in Procs : run'[q].claim = run[q].claim /\ (run[q] = Idle => run'[q] = Idle)
    BY <1>1, <1>3, <1>5
  <2>3. \A q1, q2 \in Procs : run[q1].claim = run[q2].claim => q1 = q2 \/ run[q1] = Idle
    BY DEF IInv, RunsAreClaimed
  <2>4. \A q1, q2 \in Procs : run'[q1].claim = run'[q2].claim => q1 = q2 \/ run'[q1] = Idle
    BY <2>2, <2>3
  <2> QED
    BY <2>1, <2>4 DEF RunsAreClaimed
<1>11. ClaimsAreDrawn'
  BY <1>6 DEF IInv, ClaimsAreDrawn
<1>12. NotesAreTrue'
  <2> SUFFICES ASSUME NEW note \in notes
               PROVE  /\ \A q \in Procs : run'[q].claim # note.claim
                      /\ note.id \in DOMAIN disk /\ disk[note.id].claim = note.claim
                           => effect'[note.id] = IF note.completed THEN "done" ELSE "none"
    BY <1>6 DEF NotesAreTrue
  <2>1. note.id \in Ids /\ \A q \in Procs : run[q].claim # note.claim
    BY DEF IInv, TypeOK, NotesAreTrue
  <2>2. \A q \in Procs : run'[q].claim # note.claim
    BY <1>3, <1>5, <2>1
  <2>3. note.id \in DOMAIN disk /\ disk[note.id].claim = note.claim
          => note.id # id /\ effect[note.id] = IF note.completed THEN "done" ELSE "none"
    BY <1>2, <2>1 DEF IInv, NotesAreTrue
  <2> QED
    BY <1>4, <2>1, <2>2, <2>3
<1> QED
  BY <1>7, <1>8, <1>9, <1>10, <1>11, <1>12 DEF IInv

\* A replay ends, with or without a change of its own entry that leaves what
\* may have acted held: the other replays, notes and entries are not touched.
LEMMA EndOfRun ==
  ASSUME IInv, NEW p \in Procs, run[p] # Idle, NEW result \in {"none", "maybe", "done"},
         effect' = [effect EXCEPT ![run[p].id] = result],
         run' = [run EXCEPT ![p] = Idle],
         UNCHANGED <<born, claims, todo, execs, notes>>, faults' \in 0..MaxFaults,
         DOMAIN disk' \subseteq DOMAIN disk, DOMAIN disk \ {run[p].id} \subseteq DOMAIN disk',
         \A i \in DOMAIN disk' : i # run[p].id => disk'[i] = disk[i],
         run[p].id \in DOMAIN disk' =>
           /\ disk'[run[p].id] \in Entry
           /\ \/ disk'[run[p].id].claim = run[p].claim
              \/ disk'[run[p].id].claim = NoClaim /\ result = "none"
  PROVE  IInv'
<1> DEFINE id == run[p].id
<1>1. id \in Ids /\ id \in DOMAIN disk /\ disk[id].claim = run[p].claim
      /\ run[p].claim \in 1..claims
  BY RunFacts
<1>2. \A q \in Procs : q # p => run'[q] = run[q] /\ (run[q] # Idle => run[q].id # id)
  BY RunFacts DEF IInv, TypeOK
<1>3. run'[p] = Idle
  BY DEF IInv, TypeOK
<1>4. effect'[id] = result /\ \A i \in Ids : i # id => effect'[i] = effect[i]
  BY <1>1 DEF IInv, TypeOK
<1>5. TypeOK'
  <2>1. Idle \in [stage : Stages, id : Ids \cup {NoId}, claim : 0..MaxClaims]
    BY BoundsOK DEF Idle, Stages, NoClaim
  <2>2. run' \in [Procs -> [stage : Stages, id : Ids \cup {NoId}, claim : 0..MaxClaims]]
    BY <2>1 DEF IInv, TypeOK
  <2>3. effect' \in [Ids -> {"none", "maybe", "done"}]
    BY DEF IInv, TypeOK
  <2>4. DOMAIN disk' \subseteq Ids /\ \A i \in DOMAIN disk' : disk'[i] \in Entry
    BY DEF IInv, TypeOK
  <2> QED
    BY <2>2, <2>3, <2>4 DEF IInv, TypeOK
<1>6. ActedIsHeld'
  <2> SUFFICES ASSUME NEW i \in DOMAIN disk', effect'[i] # "none"
               PROVE  disk'[i].claim # NoClaim
    BY DEF ActedIsHeld, Held
  <2>1. CASE i = id
    BY <1>1, <1>4, <2>1 DEF IInv, TypeOK, NoClaim
  <2>2. CASE i # id
    BY <1>4, <2>2 DEF IInv, TypeOK, ActedIsHeld, Held
  <2> QED
    BY <2>1, <2>2
<1>7. OwnerKeepsClaim'
  <2> SUFFICES ASSUME NEW q \in Procs, run'[q] # Idle
               PROVE  run'[q].id \in DOMAIN disk' /\ disk'[run'[q].id].claim = run'[q].claim
    BY DEF OwnerKeepsClaim, StillOurs
  <2>1. q # p /\ run'[q] = run[q] /\ run[q].id # id
    BY <1>2, <1>3
  <2>2. run[q].id \in DOMAIN disk /\ disk[run[q].id].claim = run[q].claim
    BY <2>1, RunFacts
  <2> QED
    BY <2>1, <2>2
<1>8. RunsAreClaimed'
  <2>1. ASSUME NEW q \in Procs, run'[q] # Idle
        PROVE  /\ run'[q].stage # "idle" /\ run'[q].id \in Ids /\ run'[q].claim \in 1..claims'
               /\ run'[q].stage = "admitted" => effect'[run'[q].id] = "none"
    BY <1>2, <1>3, <1>4, <2>1 DEF IInv, RunsAreClaimed
  <2>2. ASSUME NEW q1 \in Procs, NEW q2 \in Procs, run'[q1].claim = run'[q2].claim
        PROVE  q1 = q2 \/ run'[q1] = Idle
    <3>1. CASE q1 = p
      BY <1>3, <3>1
    <3>2. CASE q1 # p /\ q2 # p
      BY <1>2, <2>2, <3>2 DEF IInv, RunsAreClaimed
    <3>3. CASE q1 # p /\ q2 = p
      <4> SUFFICES ASSUME run[q1] # Idle PROVE FALSE
        BY <1>2, <3>3
      <4>1. run[q1].claim \in 1..claims /\ run[q1].claim = NoClaim
        BY <1>2, <1>3, <2>2, <3>3, RunFacts DEF Idle
      <4> QED
        BY <4>1 DEF NoClaim
    <3> QED
      BY <3>1, <3>2, <3>3
  <2> QED
    BY <2>1, <2>2 DEF RunsAreClaimed
<1>9. ClaimsAreDrawn'
  <2>1. ASSUME NEW i \in DOMAIN disk' PROVE disk'[i].claim =< claims /\ born[i] # 0
    <3>1. CASE i = id
      <4>1. claims \in Nat
        BY BoundsOK DEF IInv, TypeOK
      <4> QED
        BY <1>1, <3>1, <4>1 DEF IInv, ClaimsAreDrawn, NoClaim
    <3>2. CASE i # id
      BY <2>1, <3>2 DEF IInv, ClaimsAreDrawn
    <3> QED
      BY <3>1, <3>2
  <2> QED
    BY <2>1 DEF IInv, ClaimsAreDrawn
<1>10. NotesAreTrue'
  <2> SUFFICES ASSUME NEW note \in notes
               PROVE  /\ \A q \in Procs : run'[q].claim # note.claim
                      /\ note.id \in DOMAIN disk' /\ disk'[note.id].claim = note.claim
                           => effect'[note.id] = IF note.completed THEN "done" ELSE "none"
    BY DEF NotesAreTrue
  <2>1. note.id \in Ids /\ note.claim \in 1..MaxClaims /\ \A q \in Procs : run[q].claim # note.claim
    BY DEF IInv, TypeOK, NotesAreTrue
  <2>2. note.claim # NoClaim
    BY <2>1 DEF NoClaim
  <2>3. \A q \in Procs : run'[q].claim # note.claim
    BY <1>2, <1>3, <2>1, <2>2 DEF Idle
  <2>4. CASE note.id = id
    BY <2>1, <2>2, <2>3, <2>4
  <2>5. CASE note.id # id
    BY <1>4, <2>1, <2>3, <2>5 DEF IInv, NotesAreTrue
  <2> QED
    BY <2>4, <2>5
<1> QED
  BY <1>5, <1>6, <1>7, <1>8, <1>9, <1>10 DEF IInv

\* The outcome is recorded, or the save fails and the claim stays.
LEMMA SettleInv ==
  ASSUME IInv, NEW p \in Procs, NEW outcome \in Outcomes, Settle(p, outcome)
  PROVE  IInv'
<1> DEFINE id == run[p].id
<1>1. run[p].stage = "running" /\ run[p] # Idle
  BY DEF Settle, Idle
<1>2. id \in DOMAIN disk /\ disk[id].claim = run[p].claim /\ disk[id] \in Entry
  BY <1>1, RunFacts DEF IInv, TypeOK
<1>3. Effects[outcome] \in {"none", "maybe", "done"} /\ (outcome = "retry" => Effects[outcome] = "none")
  BY DEF Effects, Outcomes
<1>4. faults' \in 0..MaxFaults
  BY BoundsOK DEF Settle, IInv, TypeOK
<1>5. CASE UNCHANGED disk
  BY <1>1, <1>2, <1>3, <1>4, <1>5, EndOfRun DEF Settle, IInv, TypeOK
<1>6. CASE Record(p, outcome)
  <2>1. StillOurs(p)
    BY <1>2 DEF StillOurs
  <2>2. CASE outcome = "ok"
    <3>1. disk' = [i \in DOMAIN disk \ {id} |-> disk[i]]
      BY <1>6, <2>1, <2>2 DEF Record, Without, Only
    <3>2. \A i \in DOMAIN disk' : disk'[i] = disk[i] /\ i # id
      BY <3>1
    <3>3. DOMAIN disk' = DOMAIN disk \ {id}
      BY <3>1
    <3> QED
      BY <1>1, <1>3, <1>4, <3>2, <3>3, EndOfRun DEF Settle
  <2>3. CASE outcome # "ok"
    <3>1. disk' = [i \in DOMAIN disk \cup {id} |->
                     IF i = id THEN AfterFailure(disk[id], outcome) ELSE disk[i]]
      BY <1>6, <2>1, <2>3 DEF Record, With
    <3>2. DOMAIN disk' = DOMAIN disk /\ disk'[id] = AfterFailure(disk[id], outcome)
          /\ \A i \in DOMAIN disk : i # id => disk'[i] = disk[i]
      BY <1>2, <3>1
    <3>3. CASE outcome = "terminal"
      <4>1. disk'[id] = [disk[id] EXCEPT !.requeued = FALSE]
        BY <3>2, <3>3 DEF AfterFailure
      <4>2. disk'[id] \in Entry /\ disk'[id].claim = run[p].claim
        BY <1>2, <4>1 DEF Entry
      <4> QED
        BY <1>1, <1>3, <1>4, <3>2, <4>2, EndOfRun DEF Settle
    <3>4. CASE outcome = "retry"
      <4> DEFINE spent == disk[id].attempts >= MaxReplayAttempts
      <4>1. disk'[id] = [disk[id] EXCEPT !.requeued = FALSE, !.claim = NoClaim,
                                         !.abandoned = @ \/ spent]
        BY <3>2, <3>4 DEF AfterFailure
      <4>2. (disk[id].abandoned \/ spent) \in BOOLEAN
        OBVIOUS
      <4> HIDE DEF spent
      <4>3. NoClaim \in 0..MaxClaims
        BY BoundsOK DEF NoClaim
      <4>4. disk'[id] \in Entry /\ disk'[id].claim = NoClaim
        BY <1>2, <4>1, <4>2, <4>3 DEF Entry
      <4> QED
        BY <1>1, <1>3, <1>4, <3>2, <3>4, <4>4, EndOfRun DEF Settle
    <3> QED
      BY <2>3, <3>3, <3>4 DEF Outcomes
  <2> QED
    BY <2>2, <2>3
<1> QED
  BY <1>5, <1>6 DEF Settle

\* A crash loses the replay and the scan, not the claim.
LEMMA CrashInv ==
  ASSUME IInv, NEW p \in Procs, Crash(p)
  PROVE  IInv'
<1>1. run'[p] = Idle /\ \A q \in Procs : q # p => run'[q] = run[q]
  BY DEF Crash, IInv, TypeOK
<1>2. UNCHANGED <<disk, born, claims, effect, execs, notes>> /\ faults' \in 0..MaxFaults
  BY BoundsOK DEF Crash, IInv, TypeOK
<1>3. TypeOK'
  <2>1. Idle \in [stage : Stages, id : Ids \cup {NoId}, claim : 0..MaxClaims]
    BY BoundsOK DEF Idle, Stages, NoClaim
  <2>2. run' \in [Procs -> [stage : Stages, id : Ids \cup {NoId}, claim : 0..MaxClaims]]
    BY <2>1 DEF Crash, IInv, TypeOK
  <2>3. todo' \in [Procs -> SUBSET Ids]
    BY DEF Crash, IInv, TypeOK
  <2> QED
    BY <1>2, <2>2, <2>3 DEF IInv, TypeOK
<1>4. ActedIsHeld' /\ ClaimsAreDrawn'
  BY <1>2 DEF IInv, ActedIsHeld, Held, ClaimsAreDrawn
<1>5. OwnerKeepsClaim'
  <2> SUFFICES ASSUME NEW q \in Procs, run'[q] # Idle
               PROVE  run'[q].id \in DOMAIN disk /\ disk[run'[q].id].claim = run'[q].claim
    BY <1>2 DEF OwnerKeepsClaim, StillOurs
  <2> QED
    BY <1>1, RunFacts
<1>6. RunsAreClaimed'
  <2>1. ASSUME NEW q \in Procs, run'[q] # Idle
        PROVE  /\ run'[q].stage # "idle" /\ run'[q].id \in Ids /\ run'[q].claim \in 1..claims'
               /\ run'[q].stage = "admitted" => effect'[run'[q].id] = "none"
    BY <1>1, <1>2, <2>1 DEF IInv, RunsAreClaimed
  <2>2. ASSUME NEW q1 \in Procs, NEW q2 \in Procs, run'[q1].claim = run'[q2].claim,
               run'[q1] # Idle
        PROVE  q1 = q2
    <3>1. q1 # p /\ run[q1].claim \in 1..claims /\ run[q1] = run'[q1]
      BY <1>1, <2>2, RunFacts
    <3>2. CASE q2 = p
      BY <1>1, <2>2, <3>1, <3>2 DEF Idle, NoClaim
    <3>3. CASE q2 # p
      BY <1>1, <2>2, <3>1, <3>3 DEF IInv, RunsAreClaimed
    <3> QED
      BY <3>2, <3>3
  <2> QED
    BY <2>1, <2>2 DEF RunsAreClaimed
<1>7. NotesAreTrue'
  <2>1. \A note \in notes : note.claim # NoClaim
    BY DEF IInv, TypeOK, NoClaim
  <2> QED
    BY <1>1, <1>2, <2>1 DEF IInv, NotesAreTrue, Idle
<1> QED
  BY <1>3, <1>4, <1>5, <1>6, <1>7 DEF IInv

-----------------------------------------------------------------------------
\* An inspection settles what the work of a quiet claim has done, and what is
\* noted about it.
LEMMA InspectInv ==
  ASSUME IInv, NEW id \in Ids, Inspect(id)
  PROVE  IInv'
<1>1. id \in DOMAIN disk /\ Held(id) /\ \A q \in Procs : run[q].claim # disk[id].claim
  BY DEF Inspect
<1>2. PICK done \in BOOLEAN :
        /\ effect[id] = "maybe" \/ done = (effect[id] = "done")
        /\ effect' = [effect EXCEPT ![id] = IF done THEN "done" ELSE "none"]
        /\ notes' = notes \cup {[id |-> id, claim |-> disk[id].claim, completed |-> done]}
  BY DEF Inspect
<1>3. UNCHANGED <<disk, born, claims, run, todo, execs, faults>>
  BY DEF Inspect
<1>4. effect'[id] = (IF done THEN "done" ELSE "none")
      /\ \A i \in Ids : i # id => effect'[i] = effect[i]
  BY <1>2 DEF IInv, TypeOK
<1>5. disk[id].claim \in 1..MaxClaims /\ disk[id].claim =< claims
  BY <1>1, BoundsOK DEF IInv, TypeOK, Entry, Held, NoClaim, ClaimsAreDrawn
<1>6. \A q \in Procs : run[q] # Idle => run[q].id # id
  BY <1>1, RunFacts
<1>7. TypeOK'
  <2>1. effect' \in [Ids -> {"none", "maybe", "done"}]
    BY <1>2 DEF IInv, TypeOK
  <2>2. notes' \subseteq [id : Ids, claim : 1..MaxClaims, completed : BOOLEAN]
    BY <1>2, <1>5 DEF IInv, TypeOK
  <2> QED
    BY <1>3, <2>1, <2>2 DEF IInv, TypeOK
<1>8. ActedIsHeld'
  BY <1>1, <1>3, <1>4 DEF IInv, TypeOK, ActedIsHeld, Held
<1>9. OwnerKeepsClaim'
  BY <1>3 DEF IInv, OwnerKeepsClaim, StillOurs
<1>10. RunsAreClaimed'
  BY <1>3, <1>4, <1>6 DEF IInv, RunsAreClaimed
<1>11. ClaimsAreDrawn'
  BY <1>2, <1>3, <1>5 DEF IInv, ClaimsAreDrawn
<1>12. NotesAreTrue'
  <2> SUFFICES ASSUME NEW note \in notes'
               PROVE  /\ \A q \in Procs : run[q].claim # note.claim
                      /\ note.id \in DOMAIN disk /\ disk[note.id].claim = note.claim
                           => effect'[note.id] = IF note.completed THEN "done" ELSE "none"
    BY <1>3 DEF NotesAreTrue
  <2>1. CASE note = [id |-> id, claim |-> disk[id].claim, completed |-> done]
    BY <1>1, <1>4, <2>1
  <2>2. CASE note \in notes
    <3>1. /\ note.id \in Ids /\ note.completed \in BOOLEAN
          /\ \A q \in Procs : run[q].claim # note.claim
          /\ note.id \in DOMAIN disk /\ disk[note.id].claim = note.claim
               => effect[note.id] = IF note.completed THEN "done" ELSE "none"
      BY <2>2 DEF IInv, TypeOK, NotesAreTrue
    <3>2. CASE note.id = id
      BY <1>2, <1>4, <3>1, <3>2
    <3>3. CASE note.id # id
      BY <1>4, <3>1, <3>3
    <3> QED
      BY <3>1, <3>2, <3>3
  <2> QED
    BY <1>2, <2>1, <2>2
<1> QED
  BY <1>7, <1>8, <1>9, <1>10, <1>11, <1>12 DEF IInv

\* A decision about the claim in the file is right whenever it arrives: the
\* work is done and the entry goes, or nothing was done and it is released.
LEMMA ResolveInv ==
  ASSUME IInv, NEW p \in Procs, NEW note \in notes, ResolveReplayRecovery(p, note)
  PROVE  IInv'
<1> DEFINE id == note.id
<1>1. id \in DOMAIN disk /\ disk[id].claim = note.claim
      /\ UNCHANGED <<born, claims, run, todo, effect, execs, notes, faults>>
  BY DEF ResolveReplayRecovery, Concerns
<1>2. (\A q \in Procs : run[q].claim # note.claim)
      /\ effect[id] = IF note.completed THEN "done" ELSE "none"
  BY <1>1 DEF IInv, NotesAreTrue
<1>3. \A q \in Procs : run[q] # Idle => run[q].id # id
  BY <1>1, <1>2, RunFacts
<1>4. /\ DOMAIN disk' \subseteq DOMAIN disk /\ DOMAIN disk \ {id} \subseteq DOMAIN disk'
      /\ \A i \in DOMAIN disk' : i # id => disk'[i] = disk[i]
      /\ id \in DOMAIN disk' =>
           disk'[id] \in Entry /\ disk'[id].claim = NoClaim /\ effect[id] = "none"
  <2>1. CASE note.completed
    <3>1. disk' = [i \in DOMAIN disk \ {id} |-> disk[i]]
      BY <2>1 DEF ResolveReplayRecovery, Without, Only
    <3> QED
      BY <3>1
  <2>2. CASE ~ note.completed
    <3>1. disk' = [disk EXCEPT ![id].claim = NoClaim, ![id].requeued = FALSE]
      BY <2>2 DEF ResolveReplayRecovery
    <3>2. DOMAIN disk' = DOMAIN disk /\ \A i \in DOMAIN disk : i # id => disk'[i] = disk[i]
      BY <3>1
    <3>3. disk'[id] = [disk[id] EXCEPT !.claim = NoClaim, !.requeued = FALSE]
      BY <1>1, <3>1
    <3>4. NoClaim \in 0..MaxClaims /\ disk[id] \in Entry
      BY <1>1, BoundsOK DEF NoClaim, IInv, TypeOK
    <3>5. disk'[id] \in Entry /\ disk'[id].claim = NoClaim
      BY <3>3, <3>4 DEF Entry
    <3> QED
      BY <1>2, <2>2, <3>2, <3>5
  <2> QED
    BY <2>1, <2>2
<1>5. TypeOK'
  <2>1. DOMAIN disk' \subseteq Ids /\ \A i \in DOMAIN disk' : disk'[i] \in Entry
    BY <1>4 DEF IInv, TypeOK
  <2> QED
    BY <1>1, <2>1 DEF IInv, TypeOK
<1>6. ActedIsHeld'
  BY <1>1, <1>4 DEF IInv, ActedIsHeld, Held
<1>7. OwnerKeepsClaim'
  <2> SUFFICES ASSUME NEW q \in Procs, run[q] # Idle
               PROVE  run[q].id \in DOMAIN disk' /\ disk'[run[q].id].claim = run[q].claim
    BY <1>1 DEF OwnerKeepsClaim, StillOurs
  <2> QED
    BY <1>3, <1>4, RunFacts
<1>8. RunsAreClaimed'
  BY <1>1 DEF IInv, RunsAreClaimed
<1>9. ClaimsAreDrawn'
  <2>1. claims \in Nat
    BY BoundsOK DEF IInv, TypeOK
  <2> QED
    BY <1>1, <1>4, <2>1 DEF IInv, ClaimsAreDrawn, NoClaim
<1>10. NotesAreTrue'
  <2>1. \A n \in notes : n.claim # NoClaim
    BY DEF IInv, TypeOK, NoClaim
  <2> QED
    BY <1>1, <1>4, <2>1 DEF IInv, NotesAreTrue
<1> QED
  BY <1>5, <1>6, <1>7, <1>8, <1>9, <1>10 DEF IInv

-----------------------------------------------------------------------------
\* A scan only reads.
LEMMA ScanInv == ASSUME IInv, NEW p \in Procs, Scan(p) PROVE IInv'
<1>1. todo' \in [Procs -> SUBSET Ids] /\ UNCHANGED <<disk, born, claims, run, effect, execs, notes, faults>>
  BY DEF Scan, IInv, TypeOK
<1> QED
  BY <1>1
  DEF IInv, TypeOK, ActedIsHeld, Held, OwnerKeepsClaim, StillOurs, RunsAreClaimed, ClaimsAreDrawn, NotesAreTrue

\* Every step keeps the invariant.
LEMMA NextInv == IInv /\ [Next]_vars => IInv'
<1>1. ASSUME IInv, UNCHANGED vars PROVE IInv'
  BY <1>1
  DEF vars, IInv, TypeOK, ActedIsHeld, Held, OwnerKeepsClaim, StillOurs, RunsAreClaimed, ClaimsAreDrawn, NotesAreTrue
<1> QED
  BY <1>1, PushInv, RequeueInv, InspectInv, PurgeInv, ScanInv, DispatchInv, AdmitInv, SettleInv,
     CrashInv, ResolveInv DEF Next, Replay

\* In every reachable state the claims in the file, the replays in progress and
\* what the work has done agree.
THEOREM QueueInvariant == Spec => []IInv
  BY InitInv, NextInv, PTL DEF Spec

\* Work that may have acted stays held: crashes, failed saves, purges,
\* evictions, siblings and late decisions do not release it.
THEOREM ActedStaysHeld == Spec => []ActedIsHeld
<1>1. IInv => ActedIsHeld
  BY DEF IInv
<1> QED
  BY <1>1, QueueInvariant, PTL

\* No one takes a claim from a replay in progress.
THEOREM OwnersKeepClaims == Spec => []OwnerKeepsClaim
<1>1. IInv => OwnerKeepsClaim
  BY DEF IInv
<1> QED
  BY <1>1, QueueInvariant, PTL

\* The executor is called only for work that has had no effect yet.
THEOREM NoSecondExecution == Spec => NeverTwice
<1>1. IInv => [\A p \in Procs : run[p].stage = "admitted" /\ run'[p].stage = "running"
                   => effect[run[p].id] = "none"]_vars
  BY DEF IInv, RunsAreClaimed, Idle
<1> QED
  BY <1>1, QueueInvariant, PTL DEF NeverTwice

-----------------------------------------------------------------------------
(* The budget of replays, where one process has an executor.                *)

OneExecutor == \A p, q \in Executors : p = q

\* A replay is paid for by the requeue that stamped the entry: an attempt which
\* is not yet used is left as long as the entry is ready, found by the scan, or
\* admitted.  What the scan has found keeps its stamp until it is tried.
AttemptsCover ==
  /\ \A id \in Ids : execs[id] =< MaxReplayAttempts /\ (born[id] = 0 => execs[id] = 0)
  /\ \A id \in DOMAIN disk :
       /\ execs[id] =< disk[id].attempts
       /\ disk[id].requeued =>
            /\ disk[id].attempts =< MaxReplayAttempts
            /\ Held(id) \/ execs[id] < disk[id].attempts
  /\ \A p \in Procs : run[p].stage = "admitted" =>
       execs[run[p].id] < disk[run[p].id].attempts /\ disk[run[p].id].attempts =< MaxReplayAttempts
  /\ \A p \in Procs : \A id \in todo[p] :
       /\ p \in Executors /\ born[id] # 0
       /\ id \in DOMAIN disk => disk[id].requeued /\ ~ Held(id)

\* Insertion brings an id for the first time, with no call of the executor.
LEMMA PushCovers ==
  ASSUME IInv, AttemptsCover, NEW id \in Ids, NEW attempts \in PushAttempts,
         NEW terminal \in BOOLEAN, Push(id, attempts, terminal)
  PROVE  AttemptsCover'
<1> DEFINE new == [attempts |-> attempts, requeued |-> FALSE, abandoned |-> FALSE,
                   claim |-> IF terminal THEN claims' ELSE NoClaim]
<1>1. id \notin DOMAIN disk /\ born[id] = 0 /\ execs[id] = 0
  BY DEF Push, IInv, ClaimsAreDrawn, AttemptsCover
<1>2. PICK ids \in SUBSET DOMAIN disk :
        disk' = [i \in ids \cup {id} |-> IF i # id THEN disk[i] ELSE new]
  BY DEF Push
<1>3. DOMAIN disk' = ids \cup {id} /\ disk'[id] = new
      /\ \A i \in ids : disk'[i] = disk[i] /\ i \in DOMAIN disk /\ i # id
  BY <1>1, <1>2
<1>4. UNCHANGED <<run, todo, execs>>
  BY DEF Push
<1>5. born' = [born EXCEPT ![id] = Cardinality({i \in Ids : born[i] # 0}) + 1]
  BY DEF Push
<1>6. born'[id] # 0 /\ \A i \in Ids : i # id => born'[i] = born[i]
  <2>1. IsFiniteSet({i \in Ids : born[i] # 0})
    BY FS_Subset, IdsOK
  <2>2. Cardinality({i \in Ids : born[i] # 0}) \in Nat
    BY <2>1, FS_CardinalityType
  <2> QED
    BY <1>5, <2>2 DEF IInv, TypeOK
<1>7. \A i \in Ids : execs[i] =< MaxReplayAttempts /\ (born'[i] = 0 => execs[i] = 0)
  BY <1>6 DEF AttemptsCover
<1>8. ASSUME NEW i \in DOMAIN disk'
      PROVE  /\ execs[i] =< disk'[i].attempts
             /\ disk'[i].requeued =>
                  /\ disk'[i].attempts =< MaxReplayAttempts
                  /\ disk'[i].claim # NoClaim \/ execs[i] < disk'[i].attempts
  <2>1. CASE i = id
    <3>1. 0 =< attempts
      BY PushAttemptsOK
    <3> QED
      BY <1>1, <1>3, <2>1, <3>1
  <2>2. CASE i # id
    BY <1>3, <2>2 DEF AttemptsCover, Held
  <2> QED
    BY <2>1, <2>2
<1>9. ASSUME NEW p \in Procs, run[p].stage = "admitted"
      PROVE  execs[run[p].id] < disk'[run[p].id].attempts
             /\ disk'[run[p].id].attempts =< MaxReplayAttempts
  <2>1. run[p] # Idle
    BY <1>9 DEF Idle
  <2>2. run[p].id \in DOMAIN disk /\ Held(run[p].id)
    BY <2>1, RunFacts
  <2>3. IInv'
    BY PushInv
  <2>4. run[p].id \in DOMAIN disk'
    BY <1>4, <2>1, <2>3 DEF IInv, OwnerKeepsClaim, StillOurs
  <2>5. disk'[run[p].id] = disk[run[p].id]
    BY <1>1, <1>3, <2>2, <2>4
  <2> QED
    BY <1>9, <2>5 DEF AttemptsCover
<1>10. ASSUME NEW p \in Procs, NEW i \in todo[p]
       PROVE  /\ p \in Executors /\ born'[i] # 0
              /\ i \in DOMAIN disk' => disk'[i].requeued /\ disk'[i].claim = NoClaim
  <2>1. i \in Ids /\ born[i] # 0 /\ i # id /\ p \in Executors
        /\ (i \in DOMAIN disk => disk[i].requeued /\ disk[i].claim = NoClaim)
    BY <1>1, <1>10 DEF IInv, TypeOK, AttemptsCover, Held
  <2> QED
    BY <1>3, <1>6, <2>1
<1> QED
  BY <1>4, <1>7, <1>8, <1>9, <1>10 DEF AttemptsCover, Held

\* The other changes of the file that are not a replay's own: entries go, or
\* keep their claim and are stamped for one attempt more.
LEMMA FileCovers ==
  ASSUME IInv, IInv', AttemptsCover, UNCHANGED <<born, run, todo, execs>>,
         DOMAIN disk' \subseteq DOMAIN disk,
         \A i \in DOMAIN disk' :
           \/ /\ disk'[i].attempts = disk[i].attempts
              /\ disk'[i].requeued = disk[i].requeued /\ disk'[i].claim = disk[i].claim
           \/ /\ ~ Held(i) /\ disk'[i].claim = NoClaim /\ disk'[i].requeued
              /\ disk'[i].attempts = disk[i].attempts + 1
              /\ disk'[i].attempts =< MaxReplayAttempts
           \/ /\ Held(i) /\ ~ disk'[i].requeued /\ disk'[i].attempts = disk[i].attempts
              /\ \A p \in Procs : run[p] # Idle => run[p].id # i
  PROVE  AttemptsCover'
<1>1. \A i \in DOMAIN disk : i \in Ids /\ disk[i].attempts \in Nat /\ execs[i] \in Nat
  BY AttemptsAreNat DEF IInv, TypeOK, Entry
<1>2. \A i \in DOMAIN disk' :
        /\ execs[i] =< disk'[i].attempts
        /\ disk'[i].requeued =>
             /\ disk'[i].attempts =< MaxReplayAttempts
             /\ disk'[i].claim # NoClaim \/ execs[i] < disk'[i].attempts
  BY <1>1 DEF AttemptsCover, Held
<1>3. ASSUME NEW p \in Procs, run[p].stage = "admitted"
      PROVE  execs[run[p].id] < disk'[run[p].id].attempts
             /\ disk'[run[p].id].attempts =< MaxReplayAttempts
  <2>1. run[p] # Idle
    BY <1>3 DEF Idle
  <2>2. run[p].id \in DOMAIN disk /\ Held(run[p].id) /\ run[p].id \in DOMAIN disk'
    BY <2>1, RunFacts DEF IInv, OwnerKeepsClaim, StillOurs
  <2> QED
    BY <1>3, <2>1, <2>2 DEF AttemptsCover
<1>4. \A p \in Procs : \A i \in todo[p] :
        /\ p \in Executors /\ born[i] # 0
        /\ i \in DOMAIN disk' => disk'[i].requeued /\ disk'[i].claim = NoClaim
  BY DEF AttemptsCover, Held
<1>5. \A i \in Ids : execs[i] =< MaxReplayAttempts /\ (born[i] = 0 => execs[i] = 0)
  BY DEF AttemptsCover
<1> QED
  BY <1>2, <1>3, <1>4, <1>5 DEF AttemptsCover, Held

\* A requeue stamps the entry within the budget, or abandons it.
LEMMA RequeueCovers ==
  ASSUME IInv, AttemptsCover, NEW id \in Ids, Requeue(id)
  PROVE  AttemptsCover'
<1>1. id \in DOMAIN disk /\ disk[id] \in Entry /\ ~ Held(id) /\ disk[id].claim = NoClaim
      /\ UNCHANGED <<born, run, todo, execs>>
  BY DEF Requeue, IInv, TypeOK, Held
<1>2. DOMAIN disk' = DOMAIN disk /\ \A i \in DOMAIN disk : i # id => disk'[i] = disk[i]
  BY DEF Requeue
<1>3. IInv'
  BY RequeueInv
<1>4. CASE Spent(id)
  <2>1. disk'[id] = [disk[id] EXCEPT !.abandoned = TRUE]
    BY <1>1, <1>4 DEF Requeue
  <2>2. disk'[id].attempts = disk[id].attempts /\ disk'[id].requeued = disk[id].requeued
        /\ disk'[id].claim = disk[id].claim
    BY <1>1, <2>1 DEF Entry
  <2> QED
    BY <1>1, <1>2, <1>3, <2>2, FileCovers
<1>5. CASE ~ Spent(id)
  <2>1. disk'[id] = [disk[id] EXCEPT !.attempts = @ + 1, !.requeued = TRUE]
    BY <1>1, <1>5 DEF Requeue
  <2>2. disk'[id].attempts = disk[id].attempts + 1 /\ disk'[id].requeued
        /\ disk'[id].claim = NoClaim
    BY <1>1, <2>1 DEF Entry
  <2>3. disk[id].attempts \in Nat /\ ~ (disk[id].attempts >= MaxReplayAttempts)
    BY <1>1, <1>5, AttemptsAreNat DEF Entry, Spent
  <2>4. disk'[id].attempts =< MaxReplayAttempts
    BY <2>2, <2>3, BoundsOK
  <2> QED
    BY <1>1, <1>2, <1>3, <2>2, <2>4, FileCovers
<1> QED
  BY <1>4, <1>5

\* A purge only removes.
LEMMA PurgeCovers == ASSUME IInv, AttemptsCover, Purge PROVE AttemptsCover'
<1>1. IInv'
  BY PurgeInv
<1> QED
  BY <1>1, FileCovers DEF Purge, Only

\* A decision takes the stamp away with the claim.
LEMMA ResolveCovers ==
  ASSUME IInv, AttemptsCover, NEW p \in Procs, NEW note \in notes, ResolveReplayRecovery(p, note)
  PROVE  AttemptsCover'
<1> DEFINE id == note.id
<1>1. id \in DOMAIN disk /\ Held(id) /\ disk[id].claim = note.claim /\ disk[id] \in Entry
      /\ UNCHANGED <<born, run, todo, execs>>
  BY DEF ResolveReplayRecovery, Concerns, IInv, TypeOK
<1>2. \A q \in Procs : run[q] # Idle => run[q].id # id
  BY <1>1, RunFacts DEF IInv, NotesAreTrue
<1>3. IInv'
  BY ResolveInv
<1>4. CASE note.completed
  <2>1. disk' = [i \in DOMAIN disk \ {id} |-> disk[i]]
    BY <1>4 DEF ResolveReplayRecovery, Without, Only
  <2>2. DOMAIN disk' \subseteq DOMAIN disk /\ \A i \in DOMAIN disk' : disk'[i] = disk[i]
    BY <2>1
  <2> QED
    BY <1>1, <1>3, <2>2, FileCovers
<1>5. CASE ~ note.completed
  <2>1. disk' = [disk EXCEPT ![id].claim = NoClaim, ![id].requeued = FALSE]
    BY <1>5 DEF ResolveReplayRecovery
  <2>2. DOMAIN disk' = DOMAIN disk /\ \A i \in DOMAIN disk : i # id => disk'[i] = disk[i]
    BY <2>1
  <2>3. disk'[id] = [disk[id] EXCEPT !.claim = NoClaim, !.requeued = FALSE]
    BY <1>1, <2>1
  <2>4. ~ disk'[id].requeued /\ disk'[id].attempts = disk[id].attempts
    BY <1>1, <2>3 DEF Entry
  <2> QED
    BY <1>1, <1>2, <1>3, <2>2, <2>4, FileCovers
<1> QED
  BY <1>4, <1>5

-----------------------------------------------------------------------------
\* A scan finds what is stamped and not held.
LEMMA ScanCovers ==
  ASSUME IInv, AttemptsCover, NEW p \in Procs, Scan(p)
  PROVE  AttemptsCover'
<1>1. p \in Executors /\ UNCHANGED <<disk, born, run, execs>>
      /\ todo' = [todo EXCEPT ![p] = {id \in DOMAIN disk : Ready(id)}]
  BY DEF Scan
<1>2. todo'[p] = {id \in DOMAIN disk : Ready(id)} /\ \A q \in Procs : q # p => todo'[q] = todo[q]
  BY <1>1 DEF IInv, TypeOK
<1>3. ASSUME NEW q \in Procs, NEW id \in todo'[q]
      PROVE  /\ q \in Executors /\ born[id] # 0
             /\ id \in DOMAIN disk => disk[id].requeued /\ ~ Held(id)
  <2>1. CASE q = p
    BY <1>1, <1>2, <1>3, <2>1 DEF Ready, IInv, ClaimsAreDrawn
  <2>2. CASE q # p
    BY <1>2, <1>3, <2>2 DEF AttemptsCover
  <2> QED
    BY <2>1, <2>2
<1> QED
  BY <1>1, <1>3 DEF AttemptsCover, Held

\* An entry is admitted with its stamp, and leaves the list of the only process
\* that could have found it.
LEMMA AdmitCovers ==
  ASSUME OneExecutor, IInv, AttemptsCover, NEW p \in Procs, NEW id \in Ids, Admit(p, id)
  PROVE  AttemptsCover'
<1>1. id \in todo[p] /\ UNCHANGED <<born, execs>> /\ todo' = [todo EXCEPT ![p] = @ \ {id}]
  BY DEF Admit
<1>2. todo'[p] = todo[p] \ {id} /\ \A q \in Procs : q # p => todo'[q] = todo[q]
  BY <1>1 DEF IInv, TypeOK
<1>3. CASE UNCHANGED <<disk, run>>
  <2>1. \A q \in Procs : todo'[q] \subseteq todo[q]
    BY <1>2
  <2> QED
    BY <1>1, <1>3, <2>1 DEF AttemptsCover, Held
<1>4. CASE /\ ~ Refused(id) /\ claims' = claims + 1
           /\ disk' = [disk EXCEPT ![id].claim = claims']
           /\ run' = [run EXCEPT ![p] = [stage |-> "admitted", id |-> id, claim |-> claims']]
  <2>1. id \in DOMAIN disk /\ disk[id] \in Entry /\ ~ Held(id) /\ disk[id].requeued
        /\ p \in Executors
    BY <1>1, <1>4 DEF Refused, AttemptsCover, IInv, TypeOK
  <2>2. claims \in Nat /\ claims' # NoClaim
    BY <1>4, BoundsOK DEF IInv, TypeOK, NoClaim
  <2>3. DOMAIN disk' = DOMAIN disk /\ \A i \in DOMAIN disk : i # id => disk'[i] = disk[i]
    BY <1>4
  <2>4. disk'[id] = [disk[id] EXCEPT !.claim = claims']
    BY <1>4, <2>1
  <2>5. disk'[id].attempts = disk[id].attempts /\ disk'[id].requeued = disk[id].requeued
        /\ disk'[id].claim = claims'
    BY <2>1, <2>4 DEF Entry
  <2>6. run'[p] = [stage |-> "admitted", id |-> id, claim |-> claims']
        /\ \A q \in Procs : q # p => run'[q] = run[q]
    BY <1>4 DEF IInv, TypeOK
  <2>7. \A i \in Ids : execs[i] =< MaxReplayAttempts /\ (born[i] = 0 => execs[i] = 0)
    BY DEF AttemptsCover
  <2>8. \A i \in DOMAIN disk' :
          /\ execs[i] =< disk'[i].attempts
          /\ disk'[i].requeued =>
               /\ disk'[i].attempts =< MaxReplayAttempts
               /\ disk'[i].claim # NoClaim \/ execs[i] < disk'[i].attempts
    BY <2>2, <2>3, <2>5 DEF AttemptsCover, Held
  <2>9. ASSUME NEW q \in Procs, run'[q].stage = "admitted"
        PROVE  execs[run'[q].id] < disk'[run'[q].id].attempts
               /\ disk'[run'[q].id].attempts =< MaxReplayAttempts
    <3>1. CASE q = p
      BY <2>1, <2>5, <2>6, <3>1 DEF AttemptsCover
    <3>2. CASE q # p
      <4>1. run[q].stage = "admitted" /\ run'[q] = run[q] /\ run[q] # Idle
        BY <2>6, <2>9, <3>2 DEF Idle
      <4>2. run[q].id \in DOMAIN disk /\ run[q].id # id
        BY <2>1, <4>1, RunFacts
      <4> QED
        BY <2>3, <4>1, <4>2 DEF AttemptsCover
    <3> QED
      BY <3>1, <3>2
  <2>10. ASSUME NEW q \in Procs, NEW i \in todo'[q]
         PROVE  /\ q \in Executors /\ born[i] # 0
                /\ i \in DOMAIN disk' => disk'[i].requeued /\ disk'[i].claim = NoClaim
    <3>1. i \in todo[q] /\ q \in Executors
      BY <1>2, <2>10 DEF AttemptsCover
    <3>2. q = p
      BY <2>1, <3>1 DEF OneExecutor
    <3>3. i # id
      BY <1>2, <2>10, <3>2
    <3> QED
      BY <2>3, <3>1, <3>3 DEF AttemptsCover, Held
  <2> QED
    BY <1>1, <2>7, <2>8, <2>9, <2>10 DEF AttemptsCover, Held
<1> QED
  BY <1>3, <1>4 DEF Admit

\* A call of the executor uses the attempt up.
LEMMA DispatchCovers ==
  ASSUME IInv, AttemptsCover, NEW p \in Procs, Dispatch(p)
  PROVE  AttemptsCover'
<1>1. run[p].stage = "admitted" /\ run[p] # Idle /\ UNCHANGED <<disk, born, todo>>
  BY DEF Dispatch, Idle
<1>2. PICK id \in Ids : id = run[p].id
  BY <1>1, RunFacts
<1>3. id \in DOMAIN disk /\ Held(id) /\ \A q \in Procs \ {p} : run[q] # Idle => run[q].id # id
  BY <1>1, <1>2, RunFacts
<1>4. execs[id] < disk[id].attempts /\ disk[id].attempts =< MaxReplayAttempts
  BY <1>1, <1>2 DEF AttemptsCover
<1>5. execs[id] \in Nat /\ disk[id].attempts \in Nat /\ born[id] # 0
  BY <1>3, AttemptsAreNat DEF IInv, TypeOK, Entry, ClaimsAreDrawn
<1>6. execs'[id] = execs[id] + 1 /\ \A i \in Ids : i # id => execs'[i] = execs[i]
  BY <1>2 DEF Dispatch, IInv, TypeOK
<1>7. execs'[id] =< disk[id].attempts /\ execs'[id] =< MaxReplayAttempts
  BY <1>4, <1>5, <1>6, BoundsOK
<1>8. run'[p].stage = "running" /\ \A q \in Procs : q # p => run'[q] = run[q]
  <2>1. run[p] \in [stage : Stages, id : Ids \cup {NoId}, claim : 0..MaxClaims]
    BY DEF IInv, TypeOK
  <2> QED
    BY <2>1 DEF Dispatch, IInv, TypeOK
<1>9. \A i \in Ids : execs'[i] =< MaxReplayAttempts /\ (born[i] = 0 => execs'[i] = 0)
  BY <1>5, <1>6, <1>7 DEF AttemptsCover
<1>10. \A i \in DOMAIN disk :
         /\ execs'[i] =< disk[i].attempts
         /\ disk[i].requeued =>
              /\ disk[i].attempts =< MaxReplayAttempts
              /\ disk[i].claim # NoClaim \/ execs'[i] < disk[i].attempts
  <2> SUFFICES ASSUME NEW i \in DOMAIN disk
               PROVE  /\ execs'[i] =< disk[i].attempts
                      /\ disk[i].requeued =>
                           /\ disk[i].attempts =< MaxReplayAttempts
                           /\ disk[i].claim # NoClaim \/ execs'[i] < disk[i].attempts
    OBVIOUS
  <2>1. CASE i = id
    BY <1>3, <1>4, <1>7, <2>1 DEF Held
  <2>2. CASE i # id
    BY <1>6, <2>2 DEF AttemptsCover, IInv, TypeOK, Held
  <2> QED
    BY <2>1, <2>2
<1>11. ASSUME NEW q \in Procs, run'[q].stage = "admitted"
       PROVE  execs'[run'[q].id] < disk[run'[q].id].attempts
              /\ disk[run'[q].id].attempts =< MaxReplayAttempts
  <2>1. q # p /\ run'[q] = run[q] /\ run[q].stage = "admitted" /\ run[q] # Idle
    BY <1>8, <1>11 DEF Idle
  <2>2. run[q].id \in Ids /\ run[q].id # id
    BY <1>3, <2>1, RunFacts
  <2> QED
    BY <1>6, <2>1, <2>2 DEF AttemptsCover
<1>12. \A q \in Procs : \A i \in todo[q] :
         /\ q \in Executors /\ born[i] # 0
         /\ i \in DOMAIN disk => disk[i].requeued /\ disk[i].claim = NoClaim
  BY DEF AttemptsCover, Held
<1> QED
  BY <1>1, <1>9, <1>10, <1>11, <1>12 DEF AttemptsCover, Held

\* A replay ends, recorded, unsaved or lost in a crash: its entry is gone, is
\* as it was and held, or has lost its stamp.
LEMMA EndCovers ==
  ASSUME IInv, AttemptsCover, NEW p \in Procs, UNCHANGED <<born, execs>>,
         run' = [run EXCEPT ![p] = Idle],
         \A q \in Procs : todo'[q] \subseteq todo[q],
         DOMAIN disk' \subseteq DOMAIN disk,
         \A q \in Procs : q # p /\ run[q] # Idle => run[q].id \in DOMAIN disk',
         \A i \in DOMAIN disk' :
           \/ disk'[i] = disk[i]
           \/ /\ run[p] # Idle /\ i = run[p].id
              /\ disk'[i].attempts = disk[i].attempts /\ ~ disk'[i].requeued
  PROVE  AttemptsCover'
<1>1. run'[p] = Idle /\ \A q \in Procs : q # p => run'[q] = run[q]
  BY DEF IInv, TypeOK
<1>2. \A i \in Ids : execs[i] =< MaxReplayAttempts /\ (born[i] = 0 => execs[i] = 0)
  BY DEF AttemptsCover
<1>3. \A i \in DOMAIN disk' :
        /\ execs[i] =< disk'[i].attempts
        /\ disk'[i].requeued =>
             /\ disk'[i].attempts =< MaxReplayAttempts
             /\ disk'[i].claim # NoClaim \/ execs[i] < disk'[i].attempts
  BY DEF AttemptsCover, Held
<1>4. ASSUME NEW q \in Procs, run'[q].stage = "admitted"
      PROVE  execs[run'[q].id] < disk'[run'[q].id].attempts
             /\ disk'[run'[q].id].attempts =< MaxReplayAttempts
  <2>1. q # p /\ run'[q] = run[q] /\ run[q].stage = "admitted" /\ run[q] # Idle
    BY <1>1, <1>4 DEF Idle
  <2>2. run[q].id \in DOMAIN disk' /\ (run[p] # Idle => run[q].id # run[p].id)
    BY <2>1, RunFacts
  <2>3. disk'[run[q].id] = disk[run[q].id]
    BY <2>2
  <2> QED
    BY <2>1, <2>3 DEF AttemptsCover
<1>5. ASSUME NEW q \in Procs, NEW i \in todo'[q]
      PROVE  /\ q \in Executors /\ born[i] # 0
             /\ i \in DOMAIN disk' => disk'[i].requeued /\ disk'[i].claim = NoClaim
  <2>1. i \in todo[q] /\ q \in Executors /\ born[i] # 0
        /\ (i \in DOMAIN disk => disk[i].requeued /\ ~ Held(i))
    BY <1>5 DEF AttemptsCover
  <2>2. run[p] # Idle => Held(run[p].id) /\ run[p].id \in DOMAIN disk
    BY RunFacts
  <2> QED
    BY <2>1, <2>2 DEF Held
<1> QED
  BY <1>2, <1>3, <1>4, <1>5 DEF AttemptsCover, Held

\* The outcome is recorded, or not saved.
LEMMA SettleCovers ==
  ASSUME IInv, AttemptsCover, NEW p \in Procs, NEW outcome \in Outcomes, Settle(p, outcome)
  PROVE  AttemptsCover'
<1> DEFINE id == run[p].id
<1>1. run[p] # Idle /\ run' = [run EXCEPT ![p] = Idle] /\ UNCHANGED <<born, execs, todo>>
  BY DEF Settle, Idle
<1>2. id \in DOMAIN disk /\ disk[id].claim = run[p].claim /\ disk[id] \in Entry
  BY <1>1, RunFacts DEF IInv, TypeOK
<1>3. \A q \in Procs : q # p /\ run[q] # Idle => run[q].id \in DOMAIN disk /\ run[q].id # id
  BY <1>1, RunFacts
<1>4. CASE UNCHANGED disk
  BY <1>1, <1>3, <1>4, EndCovers
<1>5. CASE Record(p, outcome)
  <2>1. StillOurs(p)
    BY <1>2 DEF StillOurs
  <2>2. CASE outcome = "ok"
    <3>1. disk' = [i \in DOMAIN disk \ {id} |-> disk[i]]
      BY <1>5, <2>1, <2>2 DEF Record, Without, Only
    <3>2. DOMAIN disk' = DOMAIN disk \ {id} /\ \A i \in DOMAIN disk' : disk'[i] = disk[i]
      BY <3>1
    <3> QED
      BY <1>1, <1>3, <3>2, EndCovers
  <2>3. CASE outcome # "ok"
    <3>1. disk' = [i \in DOMAIN disk \cup {id} |->
                     IF i = id THEN AfterFailure(disk[id], outcome) ELSE disk[i]]
      BY <1>5, <2>1, <2>3 DEF Record, With
    <3>2. DOMAIN disk' = DOMAIN disk /\ disk'[id] = AfterFailure(disk[id], outcome)
          /\ \A i \in DOMAIN disk : i # id => disk'[i] = disk[i]
      BY <1>2, <3>1
    <3>3. AfterFailure(disk[id], outcome).attempts = disk[id].attempts
          /\ ~ AfterFailure(disk[id], outcome).requeued
      BY <1>2 DEF AfterFailure, Entry
    <3> QED
      BY <1>1, <1>3, <3>2, <3>3, EndCovers
  <2> QED
    BY <2>2, <2>3
<1> QED
  BY <1>4, <1>5 DEF Settle

\* A crash leaves what was admitted held.
LEMMA CrashCovers ==
  ASSUME IInv, AttemptsCover, NEW p \in Procs, Crash(p)
  PROVE  AttemptsCover'
<1>1. run' = [run EXCEPT ![p] = Idle] /\ UNCHANGED <<disk, born, execs>>
  BY DEF Crash
<1>2. \A q \in Procs : todo'[q] \subseteq todo[q]
  BY DEF Crash, IInv, TypeOK
<1>3. \A q \in Procs : run[q] # Idle => run[q].id \in DOMAIN disk
  BY RunFacts
<1> QED
  BY <1>1, <1>2, <1>3, EndCovers

\* Every step leaves the calls covered by requeues.
LEMMA NextCovers ==
  ASSUME OneExecutor, IInv, AttemptsCover, [Next]_vars
  PROVE  AttemptsCover'
<1>1. ASSUME NEW id \in Ids, Inspect(id) PROVE AttemptsCover'
  BY <1>1 DEF Inspect, AttemptsCover, Held
<1>2. ASSUME UNCHANGED vars PROVE AttemptsCover'
  BY <1>2 DEF vars, AttemptsCover, Held
<1> QED
  BY <1>1, <1>2, PushCovers, RequeueCovers, PurgeCovers, ScanCovers, AdmitCovers, DispatchCovers,
     SettleCovers, CrashCovers, ResolveCovers DEF Next, Replay

\* With one process that replays, however failures, crashes, failed saves,
\* decisions and impatient requeues interleave, the executor is called at most
\* MaxReplayAttempts times for an entry.
THEOREM BudgetIsKept ==
  ASSUME OneExecutor
  PROVE  Spec => []ReplayBudget
<1>1. Init => AttemptsCover
  <2> SUFFICES ASSUME Init PROVE AttemptsCover
    OBVIOUS
  <2>1. DOMAIN disk = {} /\ (\A p \in Procs : run[p].stage = "idle" /\ todo[p] = {})
        /\ (\A id \in Ids : execs[id] = 0)
    BY DEF Init, Idle
  <2> QED
    BY <2>1, BoundsOK DEF AttemptsCover
<1>2. AttemptsCover /\ IInv /\ [Next]_vars => AttemptsCover'
  BY NextCovers
<1>3. AttemptsCover => ReplayBudget
  BY DEF AttemptsCover, ReplayBudget
<1> QED
  BY <1>1, <1>2, <1>3, QueueInvariant, PTL DEF Spec
=============================================================================
