SPECIFICATION Spec
CONSTANTS
  Sessions = {s1, s2}
  Keys = {k1, k2}
  Space = {p1, p2, p3, p4}
  NoSpace = NoSpace
  NoKey = NoKey
  Starts = {0, 1}
  E2Space = 4
  Reassigns = TRUE
  MaxLeaked = 1
  MaxNumber = 3
SYMMETRY Symmetry
INVARIANT NoWorkShared
