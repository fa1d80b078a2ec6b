SPECIFICATION FairSpec
CONSTANTS
  Procs = {p1, p2, p3}
  Inodes = {i1, i2, i3, i4}
  NoInode = NoInode
  NoProc = NoProc
  Updates = {u1, u2}
INVARIANTS
  MutualExclusion
PROPERTIES
  Atomic
  SomeoneEnters
