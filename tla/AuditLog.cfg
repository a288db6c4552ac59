CONSTANTS
  Providers = {"memory", "sqlite", "postgres", "d1", "managed"}
  Levels = {0, 1, 2, 3}
  ChannelSize = 2
  BatchSize = 3
  MaxEvents = 6
SPECIFICATION FairSpec
INVARIANTS TypeOK Accounted
PROPERTIES NothingStuck ImplementsLossyLog
