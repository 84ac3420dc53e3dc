SPECIFICATION FairSpec
CONSTANTS
  Nonces = 7
  Threads = 2
  Batch = 2
  E2Space = 1
  NoWork = NoWork
  MaxJobs = 2
  MaxGen = 2
INVARIANTS SeenIsCurrent ThreadsApart BegunThriceAtMost
PROPERTIES NewJobIsHashed ExhaustedIsRefilled
