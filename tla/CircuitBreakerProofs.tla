------------------------ MODULE CircuitBreakerProofs ------------------------
(***************************************************************************)
(* Proofs about CircuitBreaker, for any number of callers and any          *)
(* threshold: a half-open breaker is never left without someone who owes   *)
(* it an outcome, and a closed one is below its threshold.  And about      *)
(* BreakerStore, for any stores and keys: the winners' entries of the      *)
(* shared file are the auction's, or gone with a file that a save could    *)
(* not read, and no restart wedges a breaker.                              *)
(***************************************************************************)
EXTENDS CircuitBreaker, BreakerStore, TLAPS

BreakerInv == TypeOK /\ NoWedge /\ ClosedIsBelowThreshold

\* Every step is one of the breaker's critical sections.
LEMMA TypesKept ==
  ASSUME TypeOK, [Next]_vars
  PROVE  TypeOK'
<1>1. ASSUME NEW c \in Callers, Allow(c) PROVE TypeOK'
  BY <1>1, ThresholdOK DEF TypeOK, Allow, Admits, AfterAllow, MoveTo, States, PCs
<1>2. ASSUME NEW c \in Callers, Finish(c) PROVE TypeOK'
  <2>1. CASE Succeed(c)
    BY <2>1, ThresholdOK DEF TypeOK, Succeed, RecordSuccess, MoveTo, Leaves, States, PCs
  <2>2. CASE Fail(c)
    <3>1. failureCount' \in 0..Threshold
      BY <2>2, ThresholdOK DEF TypeOK, Fail, RecordFailure
    <3>2. state' \in States /\ cooled' \in BOOLEAN
      BY <2>2 DEF TypeOK, Fail, RecordFailure, MoveTo, States
    <3>3. pc' \in [Callers -> PCs] /\ probe' \in SUBSET Callers
      BY <2>2 DEF TypeOK, Fail, Leaves, PCs
    <3> QED BY <3>1, <3>2, <3>3 DEF TypeOK
  <2>3. CASE CallerError(c)
    BY <2>3 DEF TypeOK, CallerError, AfterCallerError, Leaves, PCs
  <2>4. CASE Resolve(c)
    BY <2>4, ThresholdOK DEF TypeOK, Resolve, RecordSuccess, MoveTo, Leaves, States, PCs
  <2> QED BY <1>2, <2>1, <2>2, <2>3, <2>4 DEF Finish
<1>3. CASE CooldownPasses
  BY <1>3 DEF TypeOK, CooldownPasses
<1>4. CASE Reset
  BY <1>4, ThresholdOK DEF TypeOK, Reset, RecordSuccess, MoveTo, States
<1>5. CASE UNCHANGED vars
  BY <1>5 DEF TypeOK, vars
<1> QED BY <1>1, <1>2, <1>3, <1>4, <1>5 DEF Next

\* Nobody leaves a half-open breaker half-open: Finish(c) ends c's request, so
\* what remains half-open was not touched and still has its debtor.
LEMMA DebtKept ==
  ASSUME TypeOK, NoWedge, [Next]_vars
  PROVE  NoWedge'
<1> SUFFICES ASSUME state' = "half_open" PROVE \E c \in Callers : pc'[c] # "idle"
  BY DEF NoWedge
<1>1. ASSUME NEW c \in Callers, Allow(c) PROVE pc'[c] # "idle"
  BY <1>1 DEF Allow, TypeOK
<1>2. ASSUME NEW c \in Callers, Finish(c) PROVE pc'[c] # "idle"
  <2>1. CASE CallerError(c)
    BY <2>1 DEF CallerError, AfterCallerError, Leaves, TypeOK
  <2>2. CASE Succeed(c) \/ Resolve(c)
    BY <2>2 DEF Succeed, Resolve, RecordSuccess, MoveTo
  <2>3. CASE Fail(c)
    BY <2>3 DEF Fail, RecordFailure, MoveTo
  <2> QED BY <1>2, <2>1, <2>2, <2>3 DEF Finish
<1>3. CASE CooldownPasses
  BY <1>3 DEF CooldownPasses, NoWedge
<1>4. CASE Reset
  BY <1>4 DEF Reset, RecordSuccess, MoveTo
<1>5. CASE UNCHANGED vars
  BY <1>5 DEF vars, NoWedge
<1> QED BY <1>1, <1>2, <1>3, <1>4, <1>5 DEF Next

\* Whatever closes the breaker empties the count; whatever fills it opens it.
LEMMA BudgetKept ==
  ASSUME TypeOK, ClosedIsBelowThreshold, [Next]_vars
  PROVE  ClosedIsBelowThreshold'
<1> SUFFICES ASSUME state' = "closed" PROVE failureCount' < Threshold
  BY DEF ClosedIsBelowThreshold
<1> USE ThresholdOK
<1>1. ASSUME NEW c \in Callers, Allow(c) PROVE failureCount' < Threshold
  BY <1>1 DEF Allow, Admits, AfterAllow, MoveTo, ClosedIsBelowThreshold
<1>2. ASSUME NEW c \in Callers, Finish(c) PROVE failureCount' < Threshold
  <2>1. CASE CallerError(c)
    BY <2>1 DEF CallerError, ClosedIsBelowThreshold
  <2>2. CASE Succeed(c) \/ Resolve(c)
    BY <2>2 DEF Succeed, Resolve, RecordSuccess
  <2>3. CASE Fail(c)
    BY <2>3 DEF Fail, RecordFailure, MoveTo, TypeOK
  <2> QED BY <1>2, <2>1, <2>2, <2>3 DEF Finish
<1>3. CASE CooldownPasses
  BY <1>3 DEF CooldownPasses
<1>4. CASE Reset
  BY <1>4 DEF Reset, RecordSuccess
<1>5. CASE UNCHANGED vars
  BY <1>5 DEF vars, ClosedIsBelowThreshold
<1> QED BY <1>1, <1>2, <1>3, <1>4, <1>5 DEF Next

\* The breaker's invariant holds in every reachable state.
THEOREM BreakerInvariant == Spec => []BreakerInv
<1>1. Init => BreakerInv
  <2> SUFFICES ASSUME Init PROVE BreakerInv
    OBVIOUS
  <2>1. TypeOK
    <3>1. pc \in [Callers -> PCs]
      BY DEF Init, PCs
    <3>2. failureCount \in 0..Threshold
      BY ThresholdOK DEF Init
    <3> QED BY <3>1, <3>2 DEF Init, TypeOK, States
  <2>2. NoWedge /\ ClosedIsBelowThreshold
    BY ThresholdOK DEF Init, NoWedge, ClosedIsBelowThreshold
  <2> QED BY <2>1, <2>2 DEF BreakerInv
<1>2. BreakerInv /\ [Next]_vars => BreakerInv'
  BY TypesKept, DebtKept, BudgetKept DEF BreakerInv
<1> QED BY <1>1, <1>2, PTL DEF Spec

\* No half-open breaker is wedged as long as every caller records once
\* (RecordOutcome's comment), for any number of concurrent callers.
THEOREM NeverWedged == Spec => []NoWedge
<1>1. BreakerInv => NoWedge
  BY DEF BreakerInv
<1> QED BY <1>1, BreakerInvariant, PTL

\* A closed breaker never carries a full count of failures (RecordSuccess).
THEOREM ClosedHasBudget == Spec => []ClosedIsBelowThreshold
<1>1. BreakerInv => ClosedIsBelowThreshold
  BY DEF BreakerInv
<1> QED BY <1>1, BreakerInvariant, PTL

-----------------------------------------------------------------------------
(* The stores and their file.                                               *)

\* A store tracks only keys that it owns: Load skips the others (ownsKey) and
\* its callers ask for their own.
MemoryIsOwned == \A s \in Stores, k \in Keys : mem[s][k] # Nothing => Owns(s, k)

\* Allowed creates the breaker it admits a request on.
RequestsAreTracked == \A s \in Stores : requests[s] \subseteq Tracked(s)

\* Save reads, merges and renames under the file's lock.
SaveIsLocked == \A s \in Stores : saver[s].pc = "reading" => lock = s

\* Save overlays tracked breakers and nothing else on what it read: for every
\* other key it carries the entry that is in the file, or, when it could not read
\* the file, none.
OverlayIsTracked ==
  \A s \in Stores : saver[s].pc = "reading" =>
    /\ saver[s].todo \subseteq Tracked(s)
    /\ saver[s].key # Nothing =>
         saver[s].key \in Tracked(s) /\ saver[s].merged[saver[s].key] \in Breaker
    /\ \A k \in Keys \ Tracked(s) :
         saver[s].merged[k] = IF saver[s].blind THEN Nothing ELSE file[k]

StoreInv == /\ NoRestoredWedge /\ MemoryIsOwned /\ RequestsAreTracked
            /\ SaveIsLocked /\ OverlayIsTracked /\ WinnersPersist

\* A tracked key has a breaker.
LEMMA TrackedIsBreaker ==
  ASSUME StoreTypeOK, NEW s \in Stores, NEW k \in Tracked(s)
  PROVE  mem[s][k] \in Breaker /\ k \in Keys
BY DEF StoreTypeOK, Tracked, Entry

\* A breaker that Allowed creates or probes is one.
LEMMA GetIsBreaker ==
  ASSUME StoreTypeOK, NEW s \in Stores, NEW k \in Keys
  PROVE  Get(s, k) \in Breaker
BY StoresOK DEF StoreTypeOK, Get, Entry, Fresh, Breaker, BreakerStates

\* A recorded failure never leaves a breaker half-open (recordFailure).
LEMMA FailedIsSettled ==
  ASSUME NEW br \in Breaker
  PROVE  Failed(br) \in Breaker /\ Failed(br).state # "half_open"
BY StoresOK DEF Failed, Breaker, BreakerStates

\* Nor does Load (its treatment of a persisted half-open).
LEMMA RestoredIsSettled ==
  ASSUME NEW br \in Breaker
  PROVE  Restored(br) \in Breaker /\ Restored(br).state # "half_open"
BY DEF Restored, Breaker, BreakerStates

\* The keys a store's callers use are its own.
LEMMA UsedIsOwned ==
  ASSUME NEW s \in Stores, NEW k \in Uses(s)
  PROVE  Owns(s, k) /\ k \in Keys
BY StoresOK DEF Uses, Owns, Keys

LEMMA NothingIsApart == Nothing \notin Breaker /\ Nothing \notin Keys /\ Nothing \notin Stores
BY NothingOK

\* Every step of a store keeps the shapes.
LEMMA StoreTypesKept ==
  ASSUME StoreTypeOK, RequestsAreTracked, OverlayIsTracked, [StoreNext]_storeVars
  PROVE  StoreTypeOK'
<1> USE StoresOK, NothingIsApart
<1> CASE UNCHANGED storeVars
  BY DEF storeVars, StoreTypeOK
<1> SUFFICES ASSUME NEW s \in Stores,
                    \/ \E k \in Keys : Allowed(s, k) \/ Record(s, k) \/ ReadStatus(s, k)
                    \/ \E blind \in BOOLEAN : SaveBegin(s, blind)
                    \/ ReadFailures(s) \/ Publish(s) \/ SaveFails(s)
                    \/ CrashAndLoad(s)
             PROVE  StoreTypeOK'
  BY DEF StoreNext
<1> DEFINE Saver == [pc : {"idle", "owed", "reading"}, merged : [Keys -> Entry],
                     todo : SUBSET Keys, key : Keys \cup {Nothing}, blind : BOOLEAN]
<1>0. NoSave \in Saver
  BY DEF NoSave, Down, Entry
<1>1. ASSUME NEW k \in Keys, Allowed(s, k) PROVE StoreTypeOK'
  <2>1. [Get(s, k) EXCEPT !.state = IF @ = "open" THEN "half_open" ELSE @] \in Breaker
    BY GetIsBreaker DEF Breaker, BreakerStates
  <2> QED BY <1>1, <2>1 DEF Allowed, StoreTypeOK, Entry
<1>2. ASSUME NEW k \in Keys, Record(s, k) PROVE StoreTypeOK'
  <2>1. k \in Tracked(s)
    BY <1>2 DEF Record, RequestsAreTracked
  <2>2. PICK br \in {Fresh, Failed(mem[s][k])} : mem' = [mem EXCEPT ![s][k] = br]
    BY <1>2 DEF Record
  <2>3. br \in Breaker
    BY <2>1, <2>2, TrackedIsBreaker, FailedIsSettled DEF Fresh, Breaker, BreakerStates
  <2>4. mem' \in [Stores -> [Keys -> Entry]] /\ requests' \in [Stores -> SUBSET Keys]
    BY <1>2, <2>2, <2>3 DEF Record, StoreTypeOK, Entry
  <2>5. saver' \in [Stores -> Saver]
    <3> DEFINE sv == [saver[s] EXCEPT !.pc = IF @ = "idle" THEN "owed" ELSE @]
    <3>1. sv \in Saver
      <4>1. saver[s] \in Saver
        BY DEF StoreTypeOK
      <4>2. CASE saver[s].pc = "idle"
        BY <4>1, <4>2
      <4>3. CASE saver[s].pc # "idle"
        BY <4>1, <4>3
      <4> QED BY <4>2, <4>3
    <3>2. saver' = [saver EXCEPT ![s] = sv]
      BY <1>2 DEF Record, StoreTypeOK
    <3> HIDE DEF sv
    <3> QED BY <3>1, <3>2 DEF StoreTypeOK
  <2> QED BY <1>2, <2>4, <2>5 DEF Record, StoreTypeOK
<1>3. ASSUME NEW blind \in BOOLEAN, SaveBegin(s, blind) PROVE StoreTypeOK'
  <2>1. saver' \in [Stores -> Saver]
    BY <1>3 DEF SaveBegin, StoreTypeOK, Tracked, Down, Entry
  <2> QED BY <1>3, <2>1 DEF SaveBegin, StoreTypeOK
<1>4. ASSUME NEW k \in Keys, ReadStatus(s, k) PROVE StoreTypeOK'
  <2>1. mem[s][k] \in Breaker
    BY <1>4, TrackedIsBreaker DEF ReadStatus, OverlayIsTracked
  <2>2. [state |-> mem[s][k].state, failures |-> 0] \in Entry
    BY <2>1 DEF Entry, Breaker
  <2>3. saver' \in [Stores -> Saver]
    <3> DEFINE st == [state |-> mem[s][k].state, failures |-> 0]
               sv == [saver[s] EXCEPT !.key = k, !.merged = [saver[s].merged EXCEPT ![k] = st]]
    <3>0. saver[s] \in Saver
      BY DEF StoreTypeOK
    <3>1. sv \in Saver
      <4>1. [saver[s].merged EXCEPT ![k] = st] \in [Keys -> Entry]
        BY <2>2, <3>0
      <4> HIDE DEF st
      <4> QED BY <3>0, <4>1
    <3>2. saver' = [saver EXCEPT ![s] = sv]
      BY <1>4, <3>0 DEF ReadStatus, StoreTypeOK
    <3> HIDE DEF sv
    <3> QED BY <3>1, <3>2 DEF StoreTypeOK
  <2> QED BY <1>4, <2>3 DEF ReadStatus, StoreTypeOK
<1>5. CASE ReadFailures(s)
  <2> DEFINE key == saver[s].key
  <2>1. mem[s][key] \in Breaker /\ key \in Keys /\ saver[s].merged[key] \in Breaker
    BY <1>5, TrackedIsBreaker DEF ReadFailures, OverlayIsTracked
  <2>2. [saver[s].merged[key] EXCEPT !.failures = mem[s][key].failures] \in Entry
    BY <2>1 DEF Entry, Breaker
  <2>3. saver' \in [Stores -> Saver]
    <3> DEFINE br == [saver[s].merged[key] EXCEPT !.failures = mem[s][key].failures]
               sv == [saver[s] EXCEPT !.key = Nothing, !.todo = @ \ {key},
                                      !.merged = [saver[s].merged EXCEPT ![key] = br]]
    <3>0. saver[s] \in Saver
      BY DEF StoreTypeOK
    <3>1. sv \in Saver
      <4>1. [saver[s].merged EXCEPT ![key] = br] \in [Keys -> Entry]
        BY <2>1, <2>2, <3>0
      <4> HIDE DEF br
      <4> QED BY <3>0, <4>1
    <3>2. saver' = [saver EXCEPT ![s] = sv]
      BY <1>5, <3>0 DEF ReadFailures, StoreTypeOK
    <3> HIDE DEF sv
    <3> QED BY <3>1, <3>2 DEF StoreTypeOK
  <2> QED BY <1>5, <2>3 DEF ReadFailures, StoreTypeOK
<1>6. CASE Publish(s)
  <2>1. saver' \in [Stores -> Saver]
    BY <1>6, <1>0 DEF Publish, StoreTypeOK
  <2>2. file' \in [Keys -> Entry] /\ published' \in [Keys -> Entry]
    BY <1>6 DEF Publish, Merged, StoreTypeOK
  <2> QED BY <1>6, <2>1, <2>2 DEF Publish, StoreTypeOK
<1>7. CASE SaveFails(s)
  <2>1. saver' \in [Stores -> Saver]
    BY <1>7, <1>0 DEF SaveFails, StoreTypeOK
  <2> QED BY <1>7, <2>1 DEF SaveFails, StoreTypeOK
<1>8. CASE CrashAndLoad(s)
  <2>1. saver' \in [Stores -> Saver]
    BY <1>8, <1>0 DEF CrashAndLoad, StoreTypeOK
  <2>2. Loaded(s) \in [Keys -> Entry]
    BY RestoredIsSettled DEF Loaded, StoreTypeOK, Entry
  <2>3. PICK restored \in {Loaded(s), Down} : mem' = [mem EXCEPT ![s] = restored]
    BY <1>8 DEF CrashAndLoad
  <2>4. restored \in [Keys -> Entry]
    BY <2>2 DEF Down, Entry
  <2>5. mem' \in [Stores -> [Keys -> Entry]]
    BY <2>3, <2>4 DEF StoreTypeOK
  <2> QED BY <1>8, <2>1, <2>5 DEF CrashAndLoad, StoreTypeOK
<1> QED BY <1>1, <1>2, <1>3, <1>4, <1>5, <1>6, <1>7, <1>8

\* What a store tracks and whom it admitted: a request is admitted on a tracked
\* breaker of the store's own, a recorded outcome ends the test, and a restart
\* loads own keys with nobody half-open.
LEMMA MemoryKept ==
  ASSUME StoreTypeOK, StoreInv, [StoreNext]_storeVars
  PROVE  /\ \A s \in Stores, k \in Keys :
              mem'[s][k] # Nothing /\ mem'[s][k].state = "half_open" => k \in requests'[s]
         /\ MemoryIsOwned' /\ RequestsAreTracked'
<1> SUFFICES ASSUME NEW t \in Stores, NEW j \in Keys
             PROVE  /\ mem'[t][j] # Nothing /\ mem'[t][j].state = "half_open"
                         => j \in requests'[t]
                    /\ mem'[t][j] # Nothing => Owns(t, j)
                    /\ j \in requests'[t] => mem'[t][j] # Nothing
  <2>1. StoreTypeOK'
    BY StoreTypesKept DEF StoreInv
  <2> QED BY <2>1 DEF MemoryIsOwned, RequestsAreTracked, Tracked, Owns, StoreTypeOK
<1>0. /\ mem[t][j] # Nothing /\ mem[t][j].state = "half_open" => j \in requests[t]
      /\ mem[t][j] # Nothing => Owns(t, j)
      /\ j \in requests[t] => mem[t][j] # Nothing
  BY DEF StoreInv, NoRestoredWedge, MemoryIsOwned, RequestsAreTracked, Tracked
<1> CASE UNCHANGED <<mem, requests>>
  BY <1>0
<1> SUFFICES ASSUME NEW s \in Stores,
                    (\E k \in Keys : Allowed(s, k) \/ Record(s, k)) \/ CrashAndLoad(s)
             PROVE  /\ mem'[t][j] # Nothing /\ mem'[t][j].state = "half_open"
                         => j \in requests'[t]
                    /\ mem'[t][j] # Nothing => Owns(t, j)
                    /\ j \in requests'[t] => mem'[t][j] # Nothing
  BY DEF StoreNext, storeVars, SaveBegin, ReadStatus, ReadFailures, Publish, SaveFails
<1>1. ASSUME NEW k \in Keys, Allowed(s, k), t = s, j = k
      PROVE  Owns(t, j) /\ j \in requests'[t] /\ mem'[t][j] # Nothing
  <2>1. [Get(s, k) EXCEPT !.state = IF @ = "open" THEN "half_open" ELSE @] \in Breaker
    BY GetIsBreaker DEF Breaker, BreakerStates
  <2> QED BY <1>1, <2>1, UsedIsOwned, NothingIsApart DEF Allowed, StoreTypeOK
<1>2. ASSUME NEW k \in Keys, Record(s, k), t = s, j = k
      PROVE  Owns(t, j) /\ j \notin requests'[t] /\ mem'[t][j].state # "half_open"
  <2>1. k \in Tracked(s) /\ mem[s][k] \in Breaker
    BY <1>2, TrackedIsBreaker DEF Record, StoreInv, RequestsAreTracked
  <2>2. PICK br \in {Fresh, Failed(mem[s][k])} : mem' = [mem EXCEPT ![s][k] = br]
    BY <1>2 DEF Record
  <2>3. br.state # "half_open"
    BY <2>1, <2>2, FailedIsSettled DEF Fresh
  <2>4. Owns(t, j)
    BY <1>0, <1>2, <2>1 DEF Tracked
  <2> QED BY <1>2, <2>2, <2>3, <2>4 DEF Record, StoreTypeOK
<1>3. ASSUME NEW k \in Keys, Allowed(s, k) \/ Record(s, k), t # s \/ j # k
      PROVE  mem'[t][j] = mem[t][j] /\ (j \in requests'[t] <=> j \in requests[t])
  BY <1>3 DEF Allowed, Record, StoreTypeOK
<1>4. CASE CrashAndLoad(s) /\ t = s
  <2>1. j \notin requests'[t] /\ mem'[t][j] \in {Loaded(s)[j], Nothing}
    <3>1. PICK restored \in {Loaded(s), Down} : mem' = [mem EXCEPT ![s] = restored]
      BY <1>4 DEF CrashAndLoad
    <3>2. mem'[t] = restored
      BY <1>4, <3>1 DEF StoreTypeOK
    <3> QED BY <1>4, <3>2 DEF CrashAndLoad, StoreTypeOK, Down
  <2>2. file[j] # Nothing => file[j] \in Breaker
    BY DEF StoreTypeOK, Entry
  <2>3. Loaded(s)[j] # Nothing => Owns(s, j) /\ Loaded(s)[j].state # "half_open"
    BY <2>2, RestoredIsSettled DEF Loaded
  <2> QED BY <1>4, <2>1, <2>3
<1>5. CASE CrashAndLoad(s) /\ t # s
  BY <1>0, <1>5 DEF CrashAndLoad, StoreTypeOK
<1> QED BY <1>0, <1>1, <1>2, <1>3, <1>4, <1>5

\* A save in progress holds the lock, so the file stays what it read; what the
\* store meanwhile tracks anew it does not overlay, and nothing is untracked.
LEMMA OverlayKept ==
  ASSUME StoreTypeOK, StoreInv, [StoreNext]_storeVars
  PROVE  SaveIsLocked' /\ OverlayIsTracked'
<1> DEFINE Reads(t) == saver[t].pc = "reading"
           Overlay(t) ==
             /\ saver[t].todo \subseteq Tracked(t)
             /\ saver[t].key # Nothing =>
                  saver[t].key \in Tracked(t) /\ saver[t].merged[saver[t].key] \in Breaker
             /\ \A k \in Keys \ Tracked(t) :
                  saver[t].merged[k] = IF saver[t].blind THEN Nothing ELSE file[k]
<1> SUFFICES ASSUME NEW t \in Stores, Reads(t)' PROVE lock' = t /\ Overlay(t)'
  BY DEF SaveIsLocked, OverlayIsTracked
<1>0. \A u \in Stores : Reads(u) => lock = u /\ Overlay(u)
  BY DEF StoreInv, SaveIsLocked, OverlayIsTracked
<1> USE NothingIsApart
<1> CASE UNCHANGED storeVars
  BY <1>0 DEF storeVars, Tracked
<1> SUFFICES ASSUME NEW s \in Stores,
                    \/ \E k \in Keys : Allowed(s, k) \/ Record(s, k) \/ ReadStatus(s, k)
                    \/ \E blind \in BOOLEAN : SaveBegin(s, blind)
                    \/ ReadFailures(s) \/ Publish(s) \/ SaveFails(s)
                    \/ CrashAndLoad(s)
             PROVE  lock' = t /\ Overlay(t)'
  BY DEF StoreNext
<1>a. t # s => saver'[t] = saver[t] /\ mem'[t] = mem[t]
  BY DEF Allowed, Record, SaveBegin, ReadStatus, ReadFailures, Publish, SaveFails,
         CrashAndLoad, StoreTypeOK
<1>1. CASE t # s
  <2>1. Reads(t) /\ lock = t /\ Overlay(t)
    BY <1>0, <1>1, <1>a
  <2>2. lock' = t /\ file' = file
    BY <1>0, <1>1, <2>1 DEF Allowed, Record, SaveBegin, ReadStatus, ReadFailures, Publish,
       SaveFails, CrashAndLoad
  <2> QED BY <1>1, <1>a, <2>1, <2>2 DEF Tracked
<1>2. ASSUME NEW k \in Keys, Allowed(s, k) \/ Record(s, k), t = s PROVE lock' = t /\ Overlay(t)'
  <2>1. /\ saver'[t].pc = saver[t].pc \/ saver'[t].pc = "owed"
        /\ saver'[t].todo = saver[t].todo /\ saver'[t].key = saver[t].key
        /\ saver'[t].merged = saver[t].merged /\ saver'[t].blind = saver[t].blind
    BY <1>2 DEF Allowed, Record, StoreTypeOK
  <2>2. Reads(t) /\ lock = t /\ Overlay(t)
    BY <1>0, <2>1
  <2>3. \A j \in Keys : mem[t][j] # Nothing => mem'[t][j] # Nothing
    <3>1. MemoryIsOwned' /\ RequestsAreTracked'
      BY MemoryKept
    <3>2. CASE Allowed(s, k)
      <4>1. k \in requests'[s]
        BY <3>2 DEF Allowed, StoreTypeOK
      <4>2. mem'[s][k] # Nothing
        BY <3>1, <4>1 DEF RequestsAreTracked, Tracked
      <4> QED BY <1>2, <3>2, <4>2 DEF Allowed, StoreTypeOK
    <3>3. CASE Record(s, k)
      <4>1. PICK br \in {Fresh, Failed(mem[s][k])} : mem' = [mem EXCEPT ![s][k] = br]
        BY <3>3 DEF Record
      <4>2. k \in Tracked(s)
        BY <3>3 DEF Record, StoreInv, RequestsAreTracked
      <4>3. br \in Breaker
        BY <4>1, <4>2, TrackedIsBreaker, FailedIsSettled, StoresOK DEF Fresh, Breaker, BreakerStates
      <4> QED BY <1>2, <4>1, <4>3 DEF StoreTypeOK
    <3> QED BY <1>2, <3>2, <3>3
  <2>4. lock' = lock /\ file' = file
    BY <1>2 DEF Allowed, Record
  <2> QED BY <2>1, <2>2, <2>3, <2>4 DEF Tracked
<1>3. ASSUME NEW blind \in BOOLEAN, SaveBegin(s, blind), t = s PROVE lock' = t /\ Overlay(t)'
  BY <1>3 DEF SaveBegin, StoreTypeOK, Tracked, Down
<1>4. ASSUME NEW k \in Keys, ReadStatus(s, k), t = s PROVE lock' = t /\ Overlay(t)'
  <2>1. Reads(t) /\ lock = t /\ Overlay(t) /\ k \in Tracked(t)
    BY <1>0, <1>4 DEF ReadStatus
  <2>2. mem[t][k] \in Breaker
    BY <2>1, TrackedIsBreaker
  <2>3. /\ saver'[t].todo = saver[t].todo /\ saver'[t].key = k
        /\ saver'[t].blind = saver[t].blind
        /\ saver'[t].merged = [saver[t].merged EXCEPT ![k] =
                                  [state |-> mem[t][k].state, failures |-> 0]]
    <3> DEFINE st == [state |-> mem[t][k].state, failures |-> 0]
               sv == [saver[s] EXCEPT !.key = k, !.merged = [saver[s].merged EXCEPT ![k] = st]]
    <3>0. saver[s] \in [pc : {"idle", "owed", "reading"}, merged : [Keys -> Entry],
                        todo : SUBSET Keys, key : Keys \cup {Nothing}, blind : BOOLEAN]
      BY DEF StoreTypeOK
    <3>1. saver' = [saver EXCEPT ![s] = sv]
      BY <1>4, <3>0 DEF ReadStatus, StoreTypeOK
    <3>2. /\ sv.todo = saver[t].todo /\ sv.key = k /\ sv.blind = saver[t].blind
          /\ sv.merged = [saver[t].merged EXCEPT ![k] = st]
      BY <1>4, <3>0
    <3> HIDE DEF sv, st
    <3>3. saver'[t] = sv
      BY <1>4, <3>1 DEF StoreTypeOK
    <3> QED BY <3>2, <3>3 DEF st
  <2>4. [state |-> mem[t][k].state, failures |-> 0] \in Breaker
    BY <2>2, StoresOK DEF Breaker
  <2>5. saver[t].merged \in [Keys -> Entry]
    BY DEF StoreTypeOK
  <2>6. saver'[t].merged[k] \in Breaker /\ \A j \in Keys \ Tracked(t) :
           saver'[t].merged[j] = saver[t].merged[j]
    BY <2>1, <2>3, <2>4, <2>5
  <2>7. UNCHANGED <<file, lock, mem>>
    BY <1>4 DEF ReadStatus
  <2> QED BY <2>1, <2>3, <2>6, <2>7 DEF Tracked
<1>5. CASE ReadFailures(s) /\ t = s
  <2> DEFINE k == saver[t].key
  <2>1. Reads(t) /\ lock = t /\ Overlay(t) /\ k \in Tracked(t)
    BY <1>0, <1>5 DEF ReadFailures
  <2>2. /\ saver'[t].todo = saver[t].todo \ {k} /\ saver'[t].key = Nothing
        /\ saver'[t].blind = saver[t].blind
        /\ \A j \in Keys \ {k} : saver'[t].merged[j] = saver[t].merged[j]
    BY <1>5 DEF ReadFailures, StoreTypeOK
  <2>3. UNCHANGED <<file, lock, mem>>
    BY <1>5 DEF ReadFailures
  <2> QED BY <2>1, <2>2, <2>3 DEF Tracked
<1>6. CASE (Publish(s) \/ SaveFails(s) \/ CrashAndLoad(s)) /\ t = s
  BY <1>6 DEF Publish, SaveFails, CrashAndLoad, NoSave, StoreTypeOK
<1> QED BY <1>1, <1>2, <1>3, <1>4, <1>5, <1>6

\* Only a save changes the file or what was published or lost: the auction's
\* publishes what it overlays; for the rest a save carries what it read, or drops
\* it when it read nothing, and only the auction tracks a winner's key.
LEMMA WinnersKept ==
  ASSUME StoreTypeOK, StoreInv, [StoreNext]_storeVars
  PROVE  WinnersPersist'
<1> SUFFICES ASSUME NEW k \in WinnerKeys
             PROVE  file'[k] = IF k \in dropped' THEN Nothing ELSE published'[k]
  BY DEF WinnersPersist
<1>0. file[k] = (IF k \in dropped THEN Nothing ELSE published[k]) /\ k \in Keys
  BY DEF StoreInv, WinnersPersist, Keys
<1>1. CASE UNCHANGED <<file, published, dropped>>
  BY <1>0, <1>1
<1>2. ASSUME NEW s \in Stores, Publish(s)
      PROVE  file'[k] = IF k \in dropped' THEN Nothing ELSE published'[k]
  <2>1. file'[k] = saver[s].merged[k]
    BY <1>2 DEF Publish, Merged
  <2>2. CASE k \in Uses(s) \cap Tracked(s)
    <3>1. k \notin dropped' /\ published'[k] = saver[s].merged[k]
      BY <1>0, <1>2, <2>2 DEF Publish
    <3> QED BY <2>1, <3>1
  <2>3. CASE k \notin Uses(s) \cap Tracked(s)
    <3>1. k \notin Tracked(s)
      BY <1>0, <2>3 DEF StoreInv, MemoryIsOwned, Tracked, Owns, Uses
    <3>2. saver[s].merged[k] = IF saver[s].blind THEN Nothing ELSE file[k]
      BY <1>0, <1>2, <3>1 DEF Publish, StoreInv, OverlayIsTracked
    <3>3. published'[k] = published[k]
      BY <1>0, <1>2, <2>3 DEF Publish
    <3>4. k \in dropped' <=> saver[s].blind \/ k \in dropped
      BY <1>0, <1>2, <2>3 DEF Publish, StoreTypeOK
    <3> QED BY <1>0, <2>1, <3>2, <3>3, <3>4
  <2> QED BY <2>2, <2>3
<1> QED BY <1>1, <1>2 DEF StoreNext, storeVars, Allowed, Record, SaveBegin, ReadStatus,
             ReadFailures, SaveFails, CrashAndLoad

\* The stores' memories, their saves and the file agree in every reachable state.
THEOREM StoreInvariant == StoreSpec => []StoreInv
<1>1. StoreInit => StoreInv
  <2> SUFFICES ASSUME StoreInit PROVE StoreInv
    OBVIOUS
  <2>1. StoreTypeOK
    BY StoresOK DEF StoreInit, StoreTypeOK, Down, NoSave, Entry
  <2> QED BY <2>1 DEF StoreInit, StoreInv, NoRestoredWedge, MemoryIsOwned, RequestsAreTracked,
       SaveIsLocked, OverlayIsTracked, WinnersPersist, Down, NoSave, Tracked, Keys
<1>2. StoreInv /\ [StoreNext]_storeVars => StoreInv'
  <2> SUFFICES ASSUME StoreInv, [StoreNext]_storeVars PROVE StoreInv'
    OBVIOUS
  <2>1. StoreTypeOK
    BY DEF StoreInv, NoRestoredWedge
  <2>2. StoreTypeOK'
    BY <2>1, StoreTypesKept DEF StoreInv
  <2>3. NoRestoredWedge'
    BY <2>1, <2>2, MemoryKept DEF NoRestoredWedge
  <2> QED BY <2>1, <2>3, MemoryKept, OverlayKept, WinnersKept DEF StoreInv
<1> QED BY <1>1, <1>2, PTL DEF StoreSpec

\* No save or restart of a daemon or a dashboard replaces a winner's entry
\* (Save's merge, Load's ownsKey), for any stores and keys: it is the auction's
\* last, or missing since a save that wrote over a file it could not read.
THEOREM WinnersAreKept == StoreSpec => []WinnersPersist
<1>1. StoreInv => WinnersPersist
  BY DEF StoreInv
<1> QED BY <1>1, StoreInvariant, PTL

\* A half-open breaker has its test request in the same process: Load restores
\* a persisted half-open as open.
THEOREM RestoredIsNotWedged == StoreSpec => []NoRestoredWedge
<1>1. StoreInv => NoRestoredWedge
  BY DEF StoreInv
<1> QED BY <1>1, StoreInvariant, PTL
=============================================================================
