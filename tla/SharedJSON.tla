----------------------------- MODULE SharedJSON -----------------------------
(***************************************************************************)
(* UpdateSharedJSON of internal/reliability/shared_json.go on top of       *)
(* FileLock: read the file, compute the update, replace the file           *)
(* atomically, all under the sidecar lock.  The dead-letter queue, the job *)
(* store and the breaker snapshot follow the same discipline.              *)
(*                                                                         *)
(* The content of a file is the set of updates that went into it; a write  *)
(* replaces it by what its caller read, with one update added.             *)
(***************************************************************************)
EXTENDS FileLock

CONSTANT Updates

VARIABLES
  document,  \* the file
  copy       \* caller -> the content it has read: none or one

vars == <<path, fd, owner, pc, document, copy>>

-----------------------------------------------------------------------------
Read(p) ==
  /\ pc[p] = "critical" /\ copy[p] = {}
  /\ copy' = [copy EXCEPT ![p] = {document}]
  /\ UNCHANGED <<path, fd, owner, pc, document>>

\* SaveJSONAtomic renames the new file into place, or fails and changes nothing.
Save(p) ==
  /\ pc[p] = "critical"
  /\ \E seen \in copy[p] : \E u \in Updates \ seen : document' = seen \cup {u}
  /\ copy' = [copy EXCEPT ![p] = {}]
  /\ UNCHANGED <<path, fd, owner, pc>>

\* The lock's own steps; a caller may release after any error of the transaction.
Kept_Always(p) == copy[p]                     \* mutant: the cached copy outlives the lock
Kept(p) == IF pc'[p] = "critical" THEN copy[p] ELSE {}

LockStep ==
  /\ LockNext
  /\ copy' = [p \in Procs |-> Kept(p)]
  /\ UNCHANGED document

Init == LockInit /\ document = {} /\ copy = [p \in Procs |-> {}]

Next == LockStep \/ \E p \in Procs : Read(p) \/ Save(p)

Spec == Init /\ [][Next]_vars

\* Who has started to acquire goes on, and releases what it holds.
FairSpec == Spec /\ \A p \in Procs : WF_vars(LockStep /\ Steady(p))

-----------------------------------------------------------------------------
(* Properties.                                                              *)

\* Every variable holds values of its shape.
TypeOK ==
  /\ LockTypeOK
  /\ document \in SUBSET Updates
  /\ copy \in [Procs -> SUBSET SUBSET Updates]

\* What a transaction read is what the file holds until it writes or gives up:
\* nothing is written from a copy that went stale.
CopyIsCurrent ==
  \A p \in Procs : copy[p] \subseteq {document} /\ (copy[p] # {} => pc[p] = "critical")

\* If callers stop cancelling and dying, and there is always someone who waits,
\* the lock is taken again and again: retries on unlinked sidecars do not chase
\* each other for ever.
SomeoneEnters ==
  <>[][\A p \in Procs : ~ Cancel(p) /\ ~ Die(p)]_vars
    => ([]<>(\E p \in Procs : pc[p] = "trying") => []<>(\E p \in Procs : pc[p] = "critical"))

\* Every execution is one of atomic updates none of which is lost.
Abstract == INSTANCE SharedDocument WITH document <- document, Updates <- Updates
Atomic == Abstract!Spec
=============================================================================
