------------------------------ MODULE FileLock ------------------------------
(***************************************************************************)
(* The sidecar lock that guards every shared JSON file:                    *)
(* AcquireFileLockWithContext of internal/reliability/reliability.go.  The *)
(* sidecar is created on demand, locked with flock, checked to be the file *)
(* still found under its path, and unlinked before it is closed.           *)
(*                                                                         *)
(* A step is one system call.  The kernel frees a lock with the descriptor *)
(* that holds it, and gives a new file an inode nobody has open.  What is  *)
(* abstracted: system calls that fail for other reasons leave the loop as  *)
(* Cancel does; waiting is retrying, without the ticker.                   *)
(***************************************************************************)
EXTENDS Naturals

CONSTANTS
  Procs,     \* callers, of one process or several
  Inodes,
  NoInode,
  NoProc

ASSUME NonesOK == NoInode \notin Inodes /\ NoProc \notin Procs

VARIABLES
  path,   \* the inode under <path>.lock
  fd,     \* caller -> the inode it has open
  owner,  \* inode -> the caller whose descriptor holds its flock
  pc

lockVars == <<path, fd, owner, pc>>

PCs == {"idle", "trying", "opened", "locked", "critical", "unlinked"}

Unused(i) == i # path /\ \A p \in Procs : fd[p] # i

Goto(p, next) == pc' = [pc EXCEPT ![p] = next]

Closed_Leaks(p) ==                                 \* mutant: the descriptor leaks
  fd' = [fd EXCEPT ![p] = NoInode] /\ UNCHANGED owner

\* close(2), which frees the flock of the descriptor.
Closed(p) ==
  /\ fd' = [fd EXCEPT ![p] = NoInode]
  /\ owner' = [i \in Inodes |-> IF owner[i] = p THEN NoProc ELSE owner[i]]

-----------------------------------------------------------------------------
Try(p) == pc[p] = "idle" /\ Goto(p, "trying") /\ UNCHANGED <<path, fd, owner>>

Cancel(p) == pc[p] = "trying" /\ Goto(p, "idle") /\ UNCHANGED <<path, fd, owner>>

\* OpenFile with O_CREATE
Open(p) ==
  /\ pc[p] = "trying"
  /\ IF path # NoInode THEN UNCHANGED path
     ELSE \E i \in Inodes : Unused(i) /\ path' = i
  /\ fd' = [fd EXCEPT ![p] = path']
  /\ Goto(p, "opened")
  /\ UNCHANGED owner

\* Flock with LOCK_NB
Flock(p) ==
  /\ pc[p] = "opened"
  /\ IF owner[fd[p]] = NoProc
     THEN owner' = [owner EXCEPT ![fd[p]] = p] /\ Goto(p, "locked") /\ UNCHANGED fd
     ELSE Closed(p) /\ Goto(p, "trying")
  /\ UNCHANGED path

IsLive(p) == path = fd[p]

Verify(p) ==
  /\ pc[p] = "locked"
  /\ IF IsLive(p)
     THEN Goto(p, "critical") /\ UNCHANGED <<fd, owner>>
     ELSE Closed(p) /\ Goto(p, "trying")
  /\ UNCHANGED path

\* release: Remove, whose error is ignored, then Close.
Unlink(p) ==
  /\ pc[p] = "critical"
  /\ path' \in {path, NoInode}
  /\ Goto(p, "unlinked")
  /\ UNCHANGED <<fd, owner>>

Close(p) == pc[p] = "unlinked" /\ Closed(p) /\ Goto(p, "idle") /\ UNCHANGED path

\* A second call of release does nothing (sync.OnceFunc).
ReleaseAgain_NotOnce(p) ==                         \* mutant: release is no OnceFunc
  pc[p] = "idle" /\ path' = NoInode /\ UNCHANGED <<fd, owner, pc>>
ReleaseAgain(p) == pc[p] = "idle" /\ UNCHANGED lockVars

\* The process dies: descriptors are closed, the sidecar stays.
Die(p) == pc[p] # "idle" /\ Closed(p) /\ Goto(p, "idle") /\ UNCHANGED path

-----------------------------------------------------------------------------
LockInit ==
  /\ path = NoInode
  /\ fd = [p \in Procs |-> NoInode]
  /\ owner = [i \in Inodes |-> NoProc]
  /\ pc = [p \in Procs |-> "idle"]

Acquire(p) == Open(p) \/ Flock(p) \/ Verify(p)

LockNext ==
  \E p \in Procs : \/ Try(p) \/ Cancel(p) \/ Acquire(p)
                   \/ Unlink(p) \/ Close(p) \/ ReleaseAgain(p) \/ Die(p)

LockSpec == LockInit /\ [][LockNext]_lockVars

\* What a caller does that neither gives up nor dies.
Steady(p) == Acquire(p) \/ Unlink(p) \/ Close(p)

-----------------------------------------------------------------------------
(* Properties.                                                              *)

\* Every variable holds values of its shape.
LockTypeOK ==
  /\ path \in Inodes \cup {NoInode}
  /\ fd \in [Procs -> Inodes \cup {NoInode}]
  /\ owner \in [Inodes -> Procs \cup {NoProc}]
  /\ pc \in [Procs -> PCs]

\* No two callers are inside, although the file they lock comes and goes:
\* whoever locked an unlinked sidecar notices (the SameFile check).
MutualExclusion ==
  \A p, q \in Procs : pc[p] = "critical" /\ pc[q] = "critical" => p = q

-----------------------------------------------------------------------------
(* The inductive invariant.                                                 *)

Holding(p) == pc[p] \in {"locked", "critical", "unlinked"}

\* A flock belongs to the one descriptor that took it.
FlockOwnership ==
  /\ \A p \in Procs : Holding(p) => fd[p] \in Inodes /\ owner[fd[p]] = p
  /\ \A i \in Inodes, p \in Procs : owner[i] = p => Holding(p) /\ fd[p] = i

\* Descriptors are open where the code says so.
OpenWhereUsed ==
  \A p \in Procs : IF pc[p] \in {"idle", "trying"} THEN fd[p] = NoInode ELSE fd[p] \in Inodes

\* Whoever is inside has locked the file that stands under the path.
InsideIsLive == \A p \in Procs : pc[p] = "critical" => path = fd[p]

LockInv == LockTypeOK /\ FlockOwnership /\ OpenWhereUsed /\ InsideIsLive
=============================================================================
