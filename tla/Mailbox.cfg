CONSTANTS
  Providers = {"memory", "postgres", "d1"}
  Agents = {a1, a2}
  MaxSends = 2
  TTL = 1
  MaxTime = 3
SPECIFICATION FairSpec
INVARIANTS TypeOK DirectReaches AckedStaysRead
PROPERTY NotStoppedForGood
