SPECIFICATION Spec
CONSTANTS
  Sessions = {s1, s2}
  Keys = {k1, k2}
  Space = {p1, p2, p3}
  NoSpace = NoSpace
  NoKey = NoKey
  Starts = {0}
  E2Space = 2
  Reassigns = TRUE
  MaxLeaked = 1
  MaxNumber = 3
SYMMETRY Symmetry
INVARIANTS HolderCount HeldIsMapped NoDeadSpaceKept NoEarlyRepeat
PROPERTY ImplementsAllocator
