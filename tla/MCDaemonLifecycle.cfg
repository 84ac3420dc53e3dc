SPECIFICATION FairSpec
CONSTANTS
  Users = {u1, u2}
  Daemons = {d1, d2}
  None = None
  Overlaps = FALSE
  Outside = TRUE
INVARIANT ReachableWhileUp
PROPERTY CommandsEnd
