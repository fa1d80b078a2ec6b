-------------------------- MODULE SharedJSONProofs --------------------------
(***************************************************************************)
(* Proofs about the sidecar lock (FileLock) and the transactions it guards *)
(* (SharedJSON), for any set of callers, inodes and updates.               *)
(*                                                                         *)
(* Mutual exclusion follows from LockInv: whoever is inside has the flock  *)
(* of the file that stands under the path, and a flock has one owner.      *)
(* That a transaction's copy is current then follows, since only the       *)
(* caller inside writes; and so every write is an atomic update.           *)
(***************************************************************************)
EXTENDS SharedJSON, TLAPS

\* Initially nobody has the sidecar open.
LEMMA LockInitInv == LockInit => LockInv
  BY NonesOK
  DEF LockInit, LockInv, LockTypeOK, FlockOwnership, OpenWhereUsed, InsideIsLive, Holding, PCs

\* close(2) frees exactly the flock of the descriptor: whoever closes leaves
\* the others' locks as they were.
LEMMA ClosedInv ==
  ASSUME LockInv, NEW p \in Procs, Closed(p), NEW next \in {"idle", "trying"},
         Goto(p, next), UNCHANGED path
  PROVE  LockInv'
<1> USE NonesOK DEF LockInv
<1>1. LockTypeOK'
  BY DEF Closed, Goto, LockTypeOK, PCs
<1>2. FlockOwnership'
  <2>1. ASSUME NEW q \in Procs, Holding(q)'
        PROVE  (fd[q] \in Inodes /\ owner[fd[q]] = q)'
    <3>1. q # p /\ Holding(q)
      BY <2>1 DEF Goto, Holding, LockTypeOK, PCs
    <3> QED
      BY <3>1 DEF FlockOwnership, Closed, Goto, LockTypeOK
  <2>2. ASSUME NEW i \in Inodes, NEW q \in Procs, owner'[i] = q
        PROVE  Holding(q)' /\ fd'[q] = i
    <3>1. q # p /\ owner[i] = q
      BY <2>2 DEF Closed
    <3>2. Holding(q) /\ fd[q] = i
      BY <3>1 DEF FlockOwnership
    <3> QED
      BY <3>1, <3>2 DEF Closed, Goto, LockTypeOK, Holding
  <2> QED
    BY <2>1, <2>2 DEF FlockOwnership
<1>3. OpenWhereUsed'
  BY DEF OpenWhereUsed, Closed, Goto, LockTypeOK, PCs
<1>4. InsideIsLive'
  BY DEF InsideIsLive, Closed, Goto, LockTypeOK, PCs
<1> QED
  BY <1>1, <1>2, <1>3, <1>4

\* A step that moves a caller between places where it holds nothing, or
\* between places where it holds its lock, keeps the invariant.
LEMMA GotoInv ==
  ASSUME LockInv, NEW p \in Procs, NEW next \in PCs, Goto(p, next),
         UNCHANGED <<path, fd, owner>>,
         Holding(p) <=> next \in {"locked", "critical", "unlinked"},
         pc[p] \in {"idle", "trying"} <=> next \in {"idle", "trying"},
         next = "critical" => path = fd[p]
  PROVE  LockInv'
<1>1. LockTypeOK'
  BY DEF LockInv, LockTypeOK, Goto
<1>2. \A q \in Procs : Holding(q)' <=> Holding(q)
  BY DEF LockInv, LockTypeOK, Goto, Holding
<1>3. FlockOwnership'
  BY <1>2 DEF LockInv, FlockOwnership
<1>4. OpenWhereUsed'
  BY DEF LockInv, LockTypeOK, OpenWhereUsed, Goto
<1>5. InsideIsLive'
  BY DEF LockInv, LockTypeOK, InsideIsLive, Goto
<1> QED
  BY <1>1, <1>3, <1>4, <1>5 DEF LockInv

\* Opening a sidecar: if none stands under the path the new one is an inode
\* nobody has open, hence nobody has locked.
LEMMA OpenInv ==
  ASSUME LockInv, NEW p \in Procs, Open(p)
  PROVE  LockInv'
<1> USE NonesOK DEF LockInv
<1>1. pc[p] = "trying" /\ Goto(p, "opened") /\ UNCHANGED owner
      /\ path' \in Inodes /\ fd' = [fd EXCEPT ![p] = path']
  BY DEF Open, LockTypeOK
<1>2. path # NoInode => path' = path
  BY DEF Open
<1>3. LockTypeOK'
  BY <1>1 DEF Goto, LockTypeOK, PCs
<1>4. \A q \in Procs : Holding(q)' => q # p /\ Holding(q)
  BY <1>1 DEF Goto, Holding, LockTypeOK
<1>5. ~ Holding(p)
  BY <1>1 DEF Holding
<1>6. FlockOwnership'
  <2>1. ASSUME NEW q \in Procs, Holding(q)'
        PROVE  (fd[q] \in Inodes /\ owner[fd[q]] = q)'
    BY <1>1, <1>4, <2>1 DEF FlockOwnership, LockTypeOK
  <2>2. ASSUME NEW i \in Inodes, NEW q \in Procs, owner'[i] = q
        PROVE  Holding(q)' /\ fd'[q] = i
    <3>1. Holding(q) /\ fd[q] = i /\ q # p
      BY <1>1, <1>5, <2>2 DEF FlockOwnership
    <3> QED
      BY <3>1, <1>1 DEF Goto, Holding, LockTypeOK
  <2> QED
    BY <2>1, <2>2 DEF FlockOwnership
<1>7. OpenWhereUsed'
  BY <1>1 DEF OpenWhereUsed, Goto, LockTypeOK
<1>8. InsideIsLive'
  <2> SUFFICES ASSUME NEW q \in Procs, pc'[q] = "critical"
               PROVE  path' = fd'[q]
    BY DEF InsideIsLive
  <2>1. q # p /\ pc[q] = "critical"
    BY <1>1 DEF Goto, LockTypeOK
  <2>2. path = fd[q] /\ fd[q] \in Inodes
    BY <2>1 DEF InsideIsLive, OpenWhereUsed
  <2> QED
    BY <1>1, <1>2, <2>1, <2>2 DEF LockTypeOK
<1> QED
  BY <1>3, <1>6, <1>7, <1>8

\* Taking a flock that nobody holds.
LEMMA FlockInv ==
  ASSUME LockInv, NEW p \in Procs, Flock(p)
  PROVE  LockInv'
<1> USE NonesOK DEF LockInv
<1>1. CASE owner[fd[p]] # NoProc
  BY <1>1, ClosedInv DEF Flock
<1>2. CASE owner[fd[p]] = NoProc
  <2>1. pc[p] = "opened" /\ Goto(p, "locked") /\ UNCHANGED <<fd, path>>
        /\ owner' = [owner EXCEPT ![fd[p]] = p] /\ fd[p] \in Inodes
    BY <1>2 DEF Flock, OpenWhereUsed
  <2>2. LockTypeOK'
    BY <2>1 DEF Goto, LockTypeOK, PCs
  <2>3. ~ Holding(p)
    BY <2>1 DEF Holding
  <2>4. FlockOwnership'
    <3>1. ASSUME NEW q \in Procs, Holding(q)'
          PROVE  (fd[q] \in Inodes /\ owner[fd[q]] = q)'
      <4>1. CASE q = p
        BY <2>1, <4>1 DEF LockTypeOK
      <4>2. CASE q # p
        <5>1. Holding(q)
          BY <2>1, <3>1, <4>2 DEF Goto, Holding, LockTypeOK
        <5>2. fd[q] \in Inodes /\ owner[fd[q]] = q /\ fd[q] # fd[p]
          BY <1>2, <5>1 DEF FlockOwnership
        <5> QED
          BY <2>1, <5>2 DEF LockTypeOK
      <4> QED
        BY <4>1, <4>2
    <3>2. ASSUME NEW i \in Inodes, NEW q \in Procs, owner'[i] = q
          PROVE  Holding(q)' /\ fd'[q] = i
      <4>1. CASE i = fd[p]
        BY <2>1, <3>2, <4>1 DEF Goto, Holding, LockTypeOK
      <4>2. CASE i # fd[p]
        <5>1. Holding(q) /\ fd[q] = i /\ q # p
          BY <2>1, <2>3, <3>2, <4>2 DEF FlockOwnership, LockTypeOK
        <5> QED
          BY <5>1, <2>1 DEF Goto, Holding, LockTypeOK
      <4> QED
        BY <4>1, <4>2
    <3> QED
      BY <3>1, <3>2 DEF FlockOwnership
  <2>5. OpenWhereUsed'
    BY <2>1 DEF OpenWhereUsed, Goto, LockTypeOK
  <2>6. InsideIsLive'
    BY <2>1 DEF InsideIsLive, Goto, LockTypeOK
  <2> QED
    BY <2>2, <2>4, <2>5, <2>6
<1> QED
  BY <1>1, <1>2

\* Unlinking the sidecar: the caller inside has locked the file under the
\* path, and nobody else is inside whose lock the path could stand for.
LEMMA UnlinkInv ==
  ASSUME LockInv, NEW p \in Procs, Unlink(p)
  PROVE  LockInv'
<1> USE NonesOK DEF LockInv
<1>1. pc[p] = "critical" /\ Goto(p, "unlinked") /\ UNCHANGED <<fd, owner>>
      /\ path' \in {path, NoInode}
  BY DEF Unlink
<1>2. LockTypeOK'
  BY <1>1 DEF Goto, LockTypeOK, PCs
<1>3. \A q \in Procs : Holding(q)' <=> Holding(q)
  BY <1>1 DEF Goto, Holding, LockTypeOK
<1>4. FlockOwnership'
  BY <1>1, <1>3 DEF FlockOwnership
<1>5. OpenWhereUsed'
  BY <1>1 DEF OpenWhereUsed, Goto, LockTypeOK
<1>6. InsideIsLive'
  <2> SUFFICES ASSUME NEW q \in Procs, pc'[q] = "critical"
               PROVE  FALSE
    BY DEF InsideIsLive
  <2>1. q # p /\ pc[q] = "critical"
    BY <1>1 DEF Goto, LockTypeOK
  <2>2. fd[q] = path /\ fd[p] = path
    BY <1>1, <2>1 DEF InsideIsLive
  <2>3. owner[fd[p]] = p /\ owner[fd[q]] = q
    BY <1>1, <2>1 DEF FlockOwnership, Holding
  <2> QED
    BY <2>1, <2>2, <2>3
<1> QED
  BY <1>2, <1>4, <1>5, <1>6

\* Every step of the lock keeps its invariant.
LEMMA LockNextInv == LockInv /\ [LockNext]_lockVars => LockInv'
<1> SUFFICES ASSUME LockInv, [LockNext]_lockVars
             PROVE  LockInv'
  OBVIOUS
<1>1. CASE UNCHANGED lockVars
  BY <1>1 DEF lockVars, LockInv, LockTypeOK, FlockOwnership, OpenWhereUsed, InsideIsLive, Holding
<1>2. ASSUME NEW p \in Procs, Try(p) PROVE LockInv'
  BY <1>2, GotoInv DEF Try, Holding, PCs
<1>3. ASSUME NEW p \in Procs, Cancel(p) PROVE LockInv'
  BY <1>3, GotoInv DEF Cancel, Holding, PCs
<1>4. ASSUME NEW p \in Procs, Verify(p) PROVE LockInv'
  <2>1. CASE IsLive(p)
    BY <1>4, <2>1, GotoInv DEF Verify, IsLive, Holding, PCs
  <2>2. CASE ~ IsLive(p)
    BY <1>4, <2>2, ClosedInv DEF Verify
  <2> QED
    BY <2>1, <2>2
<1>5. ASSUME NEW p \in Procs, Close(p) PROVE LockInv'
  BY <1>5, ClosedInv DEF Close
<1>6. ASSUME NEW p \in Procs, Die(p) PROVE LockInv'
  BY <1>6, ClosedInv DEF Die
<1>7. ASSUME NEW p \in Procs, ReleaseAgain(p) PROVE LockInv'
  BY <1>1, <1>7 DEF ReleaseAgain
<1> QED
  BY <1>1, <1>2, <1>3, <1>4, <1>5, <1>6, <1>7, OpenInv, FlockInv, UnlinkInv DEF LockNext, Acquire

\* Whoever is inside locked the file under the path, and its flock is one.
LEMMA LockInvExcludes == LockInv => MutualExclusion
  BY DEF LockInv, InsideIsLive, FlockOwnership, Holding, MutualExclusion

\* The lock's bookkeeping is right in every reachable state: descriptors,
\* flocks and the sidecar under the path agree.
THEOREM LockInvariant == LockSpec => []LockInv
  BY LockInitInv, LockNextInv, PTL DEF LockSpec

-----------------------------------------------------------------------------
TxnInv == TypeOK /\ LockInv /\ CopyIsCurrent

\* A transaction step keeps the lock's invariant and the copy current.
LEMMA TxnNextInv == TxnInv /\ [Next]_vars => TxnInv'
<1> SUFFICES ASSUME TxnInv, [Next]_vars
             PROVE  TxnInv'
  OBVIOUS
<1> USE DEF TxnInv
<1>1. CASE UNCHANGED vars
  BY <1>1, LockNextInv DEF vars, lockVars, TypeOK, CopyIsCurrent, LockInv, LockTypeOK
<1>2. CASE LockStep
  <2>1. LockInv'
    BY <1>2, LockNextInv DEF LockStep
  <2>2. document' = document /\ copy' = [p \in Procs |-> Kept(p)]
    BY <1>2 DEF LockStep
  <2>3. TypeOK'
    BY <2>1, <2>2 DEF TypeOK, LockInv, Kept
  <2>4. CopyIsCurrent'
    BY <2>2 DEF CopyIsCurrent, Kept
  <2> QED
    BY <2>1, <2>3, <2>4
<1>3. ASSUME NEW p \in Procs, Read(p) PROVE TxnInv'
  <2>1. LockInv' /\ LockTypeOK'
    BY <1>3, LockNextInv DEF Read, lockVars, LockInv
  <2>2. TypeOK'
    BY <1>3, <2>1 DEF Read, TypeOK
  <2>3. CopyIsCurrent'
    BY <1>3 DEF Read, CopyIsCurrent, TypeOK
  <2> QED
    BY <2>1, <2>2, <2>3
<1>4. ASSUME NEW p \in Procs, Save(p) PROVE TxnInv'
  <2>1. LockInv' /\ LockTypeOK'
    BY <1>4, LockNextInv DEF Save, lockVars, LockInv
  <2>2. TypeOK'
    BY <1>4, <2>1 DEF Save, TypeOK
  <2>3. \A q \in Procs : copy'[q] = {}
    <3> SUFFICES ASSUME NEW q \in Procs, q # p
                 PROVE  copy[q] = {}
      BY <1>4 DEF Save, TypeOK
    <3> QED
      BY <1>4, LockInvExcludes DEF Save, CopyIsCurrent, MutualExclusion
  <2>4. CopyIsCurrent'
    BY <2>3 DEF CopyIsCurrent
  <2> QED
    BY <2>1, <2>2, <2>4
<1> QED
  BY <1>1, <1>2, <1>3, <1>4 DEF Next

\* Initially nobody has read the file.
LEMMA TxnInitInv == Init => TxnInv
  BY LockInitInv DEF Init, TxnInv, TypeOK, LockInv, CopyIsCurrent

\* The lock and the copies agree in every reachable state of a transaction.
LEMMA TxnInvariant == Spec => []TxnInv
  BY TxnInitInv, TxnNextInv, PTL DEF Spec

\* No two callers hold the lock of one document, however the sidecar is
\* unlinked, recreated and locked in between.
THEOREM Exclusion == Spec => []MutualExclusion
<1>1. TxnInv => MutualExclusion
  BY LockInvExcludes DEF TxnInv
<1> QED
  BY <1>1, TxnInvariant, PTL

\* No transaction writes from a copy that another one has overtaken.
THEOREM CopiesAreCurrent == Spec => []CopyIsCurrent
  BY TxnInvariant, PTL DEF TxnInv

\* A write is an update of the document as it stands; every other step leaves
\* the document alone.
LEMMA StepRefines == TxnInv /\ [Next]_vars => [Abstract!Next]_document
<1> SUFFICES ASSUME TxnInv, [Next]_vars, document' # document
             PROVE  Abstract!Next
  OBVIOUS
<1>1. PICK p \in Procs : Save(p)
  BY DEF Next, vars, LockStep, Read
<1>2. PICK seen \in copy[p] : \E u \in Updates \ seen : document' = seen \cup {u}
  BY <1>1 DEF Save
<1>3. seen = document
  BY <1>2 DEF TxnInv, CopyIsCurrent
<1> QED
  BY <1>2, <1>3 DEF Abstract!Next, Abstract!Apply

\* Lock, read, save and release, with callers that crash, cancel or fail
\* anywhere, implement atomic updates of one document.
THEOREM UpdatesAreAtomic == Spec => Atomic
<1>1. Init => Abstract!Init
  BY DEF Init, Abstract!Init
<1> QED
  BY <1>1, TxnInvariant, StepRefines, PTL DEF Spec, Atomic, Abstract!Spec
=============================================================================
