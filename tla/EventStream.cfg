CONSTANTS
  Providers = {"memory", "sqlite", "postgres", "d1"}
  Streams = {s1}
  Writers = {w1, w2}
  Cap = 1
  MaxRows = 3
  MaxRemovals = 1
SPECIFICATION FairSpec
INVARIANTS TypeOK SentInOrder SkipsOnlyLateRows NothingSkipped
PROPERTIES AppendReturns EventuallyWritten ImplementsFeed
