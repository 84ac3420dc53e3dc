SPECIFICATION FairSpec
CONSTANTS
  MaxThreads = 2
  JobTimeout = 1
  Naps = 1
  MaxBackoff = 3
  MaxRetries = 2
  MaxResizes = 2
  MaxShares = 2
  MaxHashes = 2
INVARIANTS WorkersHoldSpace ShareAccounting HashesCountedOnce ShownIsSo
PROPERTIES ImplementsTask StopIsObeyed DropsAreRetried ResizeIsApplied SilenceIsEnded
CHECK_DEADLOCK FALSE
