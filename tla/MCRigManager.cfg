SPECIFICATION FairSpec
CONSTANTS
  a = a
  b = b
  Rigs = {a, b}
  Coins = {btc, ltc}
  Primary = btc
  Sole = sole
  Handlers = {h1}
  Timers = {t1}
  Sampler = sampler
  Budget = 5
  Weight <- UnequalWeights
  Fixed <- NoneFixed
  Early <- OneRigAtMost
  Grows = {a}
  AnyTime = FALSE
  MaxRequests = 2
INVARIANTS TypeOK NothingLiveForgotten FairShares
PROPERTIES ForgottenOnceStopped NewCoinIsMined
