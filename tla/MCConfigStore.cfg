SPECIFICATION Spec
CONSTANTS
  main = main
  pool = pool
  page = page
  peer = peer
  r1 = r1
  BTC = BTC
  LTC = LTC
  Wallets = {main}
  Endpoints = {pool, page}
  Nodes = {peer}
  Pools = {pool}
  Logins = {pool}
  Rigs = {r1}
  Coins = {BTC, LTC}
  None = None
  Garbled = Garbled
  HandWritten <- Hand
  MaxUntold = 1
INVARIANTS OnlySoundIsApplied SeenIsApplied
PROPERTIES KeepsLoading EditsLoseNothing
