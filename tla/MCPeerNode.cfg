SPECIFICATION FairSpec
CONSTANTS
  Callers = {c1, c2}
  Conns = {k1, k2}
  Commands = {m1}
  None = None
  MaxShift = 2
  MaxBackoff = 3
INVARIANTS TypeOK RepliesPaired CommandsRunTwiceAtMost CheckIsFresh
PROPERTY OfflineIsRetried
