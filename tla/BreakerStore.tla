---------------------------- MODULE BreakerStore ----------------------------
(***************************************************************************)
(* circuit_breakers.json, shared by three stores of                        *)
(* internal/agent/scheduler_cb.go: the daemon's and the dashboard's, which *)
(* own the agents' keys, and the auction's, which owns the winners' keys.  *)
(* Every store runs breakers of its own in memory, restores them at start  *)
(* and saves all of them after every recorded outcome, merging into the    *)
(* file under its lock.                                                    *)
(*                                                                         *)
(* What is abstracted: the last failure's time; the cooldown, which may    *)
(* have passed whenever a request asks; a store has at most one request    *)
(* per key in flight.  Saves and loads are by stores, so a process that    *)
(* holds two of them is two of them here.                                  *)
(***************************************************************************)
EXTENDS Integers

CONSTANTS
  AgentStores,   \* stores without a key prefix: daemon, dashboard
  WinnerStores,  \* stores that own the prefix a2a.auction.winner.
  AgentKeys,
  WinnerKeys,
  FailureThreshold, \* AgentCircuitBreakerOptions.Threshold
  MaxFaults,     \* bound on crashes, failed reads and failed writes together
  Nothing

Stores == AgentStores \cup WinnerStores
Keys   == AgentKeys \cup WinnerKeys

ASSUME StoresOK ==
  /\ FailureThreshold \in Nat \ {0} /\ MaxFaults \in Nat
  /\ AgentStores \cap WinnerStores = {} /\ AgentKeys \cap WinnerKeys = {}

BreakerStates == {"closed", "open", "half_open"}
Breaker == [state : BreakerStates, failures : 0..FailureThreshold]
Entry   == Breaker \cup {Nothing}

ASSUME NothingOK == Nothing \notin Breaker \cup Keys \cup Stores

VARIABLES
  file,       \* breakers by key
  lock,       \* the store that holds the file lock
  mem,        \* store -> key -> breaker, or Nothing when not tracked
  requests,   \* store -> keys with an admitted request
  saver,      \* store -> its Save call
  published,  \* history: what the stores that use the key saved last
  dropped,    \* history: keys lost to a save that could not read the file, not saved since
  faults

storeVars == <<file, lock, mem, requests, saver, published, dropped, faults>>

Fresh == [state |-> "closed", failures |-> 0]
Down  == [k \in Keys |-> Nothing]
NoSave == [pc |-> "idle", merged |-> Down, todo |-> {}, key |-> Nothing, blind |-> FALSE]

\* Keys whose outcomes a store records: the names its callers pass.
Uses(s) == IF s \in WinnerStores THEN WinnerKeys ELSE AgentKeys

\* ownsKey
Owns_Everything(s, k) == TRUE                      \* mutant: Load absorbs foreign keys
Owns(s, k) == IF s \in WinnerStores THEN k \in WinnerKeys ELSE k \notin WinnerKeys

Tracked(s) == {k \in Keys : mem[s][k] # Nothing}

-----------------------------------------------------------------------------
(* Requests (CircuitBreaker, one caller at a time).                         *)

Get(s, k) == IF mem[s][k] = Nothing THEN Fresh ELSE mem[s][k]

Allowed(s, k) ==
  /\ k \in Uses(s) \ requests[s]
  /\ Get(s, k).state # "half_open"
  /\ mem' = [mem EXCEPT ![s][k] =
       [Get(s, k) EXCEPT !.state = IF @ = "open" THEN "half_open" ELSE @]]
  /\ requests' = [requests EXCEPT ![s] = @ \cup {k}]
  /\ UNCHANGED <<file, lock, saver, published, dropped, faults>>

Failed(b) ==
  LET n == IF b.failures < FailureThreshold THEN b.failures + 1 ELSE b.failures
  IN  [state |-> IF b.state = "half_open" \/ (b.state = "closed" /\ n >= FailureThreshold)
                 THEN "open" ELSE b.state,
       failures |-> n]

\* The outcome is recorded, a success as a fresh breaker; Save follows when no save of the store is running.
Record(s, k) ==
  /\ k \in requests[s]
  /\ \E b \in {Fresh, Failed(mem[s][k])} : mem' = [mem EXCEPT ![s][k] = b]
  /\ requests' = [requests EXCEPT ![s] = @ \ {k}]
  /\ saver' = [saver EXCEPT ![s].pc = IF @ = "idle" THEN "owed" ELSE @]
  /\ UNCHANGED <<file, lock, published, dropped, faults>>

-----------------------------------------------------------------------------
(* Save: lock, read the file, overlay every tracked breaker, rename, unlock.*)

\* blind: the file could not be read or parsed, and the merge starts from nothing.
SaveBegin(s, blind) ==
  /\ saver[s].pc = "owed" /\ lock = Nothing
  /\ blind => faults < MaxFaults
  /\ faults' = IF blind THEN faults + 1 ELSE faults
  /\ lock' = s
  /\ saver' = [saver EXCEPT ![s] =
       [pc |-> "reading", merged |-> IF blind THEN Down ELSE file,
        todo |-> Tracked(s), key |-> Nothing, blind |-> blind]]
  /\ UNCHANGED <<file, mem, requests, published, dropped>>

\* cb.State() and cb.FailureCount() are two critical sections of the breaker.
ReadStatus(s, k) ==
  /\ saver[s].pc = "reading" /\ saver[s].key = Nothing /\ k \in saver[s].todo
  /\ saver' = [saver EXCEPT ![s].key = k,
                            ![s].merged[k] = [state |-> mem[s][k].state, failures |-> 0]]
  /\ UNCHANGED <<file, lock, mem, requests, published, dropped, faults>>

ReadFailures(s) ==
  /\ saver[s].pc = "reading" /\ saver[s].key # Nothing
  /\ LET k == saver[s].key
     IN  saver' = [saver EXCEPT ![s].key = Nothing,
                                ![s].todo = @ \ {k},
                                ![s].merged[k].failures = mem[s][k].failures]
  /\ UNCHANGED <<file, lock, mem, requests, published, dropped, faults>>

Merged(s) == saver[s].merged

Publish(s) ==
  /\ saver[s].pc = "reading" /\ saver[s].todo = {}
  /\ file' = Merged(s)
  /\ LET saved == Uses(s) \cap Tracked(s)
     IN  /\ published' = [k \in Keys |-> IF k \in saved THEN saver[s].merged[k] ELSE published[k]]
         /\ dropped' = (IF saver[s].blind THEN Keys ELSE dropped) \ saved
  /\ lock' = Nothing
  /\ saver' = [saver EXCEPT ![s] = NoSave]
  /\ UNCHANGED <<mem, requests, faults>>

\* The temporary file cannot be written or renamed: a warning is logged.
SaveFails(s) ==
  /\ saver[s].pc = "reading" /\ saver[s].todo = {}
  /\ faults < MaxFaults
  /\ faults' = faults + 1
  /\ lock' = Nothing
  /\ saver' = [saver EXCEPT ![s] = NoSave]
  /\ UNCHANGED <<file, mem, requests, published, dropped>>

-----------------------------------------------------------------------------
(* Start-up and crash.                                                      *)

Restored_Verbatim(b) == b                          \* mutant: half-open restored
Restored(b) == IF b.state = "half_open" THEN [b EXCEPT !.state = "open"] ELSE b

Loaded(s) == [k \in Keys |-> IF file[k] # Nothing /\ Owns(s, k)
                             THEN Restored(file[k]) ELSE Nothing]

\* The process of store s dies and is started again; the kernel drops its lock.
\* A Load that cannot read the file leaves the store empty: a warning is logged.
CrashAndLoad(s) ==
  /\ faults < MaxFaults
  /\ faults' = faults + 1
  /\ \E restored \in {Loaded(s), Down} : mem' = [mem EXCEPT ![s] = restored]
  /\ requests' = [requests EXCEPT ![s] = {}]
  /\ saver' = [saver EXCEPT ![s] = NoSave]
  /\ lock' = IF lock = s THEN Nothing ELSE lock
  /\ UNCHANGED <<file, published, dropped>>

StoreInit ==
  /\ file = Down
  /\ lock = Nothing
  /\ mem = [s \in Stores |-> Down]
  /\ requests = [s \in Stores |-> {}]
  /\ saver = [s \in Stores |-> NoSave]
  /\ published = Down
  /\ dropped = {}
  /\ faults = 0

StoreNext ==
  \E s \in Stores :
    \/ \E k \in Keys : Allowed(s, k) \/ Record(s, k) \/ ReadStatus(s, k)
    \/ \E blind \in BOOLEAN : SaveBegin(s, blind)
    \/ ReadFailures(s) \/ Publish(s) \/ SaveFails(s)
    \/ CrashAndLoad(s)

StoreSpec == StoreInit /\ [][StoreNext]_storeVars

-----------------------------------------------------------------------------
(* Properties.                                                              *)

\* Every variable holds values of its shape.
StoreTypeOK ==
  /\ file \in [Keys -> Entry] /\ published \in [Keys -> Entry]
  /\ lock \in Stores \cup {Nothing}
  /\ mem \in [Stores -> [Keys -> Entry]]
  /\ requests \in [Stores -> SUBSET Keys]
  /\ saver \in [Stores -> [pc : {"idle", "owed", "reading"}, merged : [Keys -> Entry],
                           todo : SUBSET Keys, key : Keys \cup {Nothing}, blind : BOOLEAN]]
  /\ dropped \in SUBSET Keys
  /\ faults \in 0..MaxFaults

\* A winner's entry is what the auction saved last: no save or restart of the
\* daemon or the dashboard clobbers it (Save's merge, Load's ownsKey).  The one
\* way to lose it is a save, of any store, that could not read or parse the file
\* and yet wrote it (Save ignores both errors): the entry is then missing, never
\* another one, and the auction's next save puts it back.
WinnersPersist ==
  \A k \in WinnerKeys : file[k] = IF k \in dropped THEN Nothing ELSE published[k]

\* A half-open breaker has its test request in this process: Load restores a
\* persisted half-open as open, or it would refuse everyone for ever.
NoRestoredWedge ==
  /\ StoreTypeOK
  /\ \A s \in Stores, k \in Keys :
       mem[s][k] # Nothing /\ mem[s][k].state = "half_open" => k \in requests[s]
=============================================================================
