\* Two tasks, one API that serves the network and one that does not.
SPECIFICATION FairSpec
CONSTANTS
  Tasks = {t1, t2}
  Apis <- TwoApis
  Supported = {"amboss"}
  Sources <- AllSources
  Spacing <- ShortSpacing
  Backoff = 3
  PingTimes <- SomeTimes
  Counts = {0, 1, 2}
  None = None
INVARIANTS
  TypeOK
  ThreeAttempts
  PingHasAValue
PROPERTIES
  RequestsAreSpaced
  TasksKeepTheirPromise
