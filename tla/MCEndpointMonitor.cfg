SPECIFICATION FairSpec
CONSTANTS
  Runtimes = {r1, r2}
  Threads = {t1, t2}
  Urls = {"page", "pool"}
  StratumUrls = {"pool"}
  Entries <- MCEntries
  WantsAuth = TRUE
  None = None
  MaxChecks = 2
INVARIANT UrlIsApplied
PROPERTIES HistorySurvives EnabledIsChecked
