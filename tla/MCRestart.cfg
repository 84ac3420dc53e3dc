SPECIFICATION Spec
CONSTANTS
  Users = {u1}
  Daemons = {d1, d2}
  None = None
  Overlaps = FALSE
  Outside = FALSE
PROPERTY StartedStays
