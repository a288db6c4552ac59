CONSTANTS
  Providers = {"memory", "sqlite", "d1"}
  Tasks = {t1}
  Calls = {k1, k2}
  Cap = 8
  MaxClaims = 1
  MaxDeletes = 1
  NoTask = NoTask
SPECIFICATION FairSpec
INVARIANTS TypeOK UnfinishedNamesNoClaim ClaimsTraceable ArtifactsBeforeRow NoSkillOnceGone SomeEvent
PROPERTY TaskSettles
