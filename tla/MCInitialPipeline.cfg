SPECIFICATION FairSpec
CONSTANTS
  N = 3
  Workers = {w1, w2}
  Capacity = 1
  PageSize = 1
  Group <- TwoGroups
  Bases <- NothingOrFirst
  Failures = {"walk", "stage", "worker", "write", "resolve", "caller"}
INVARIANTS ChannelsSound ExtractionComplete LowestFailure ResolvedOnce
PROPERTY EventuallyStopped
