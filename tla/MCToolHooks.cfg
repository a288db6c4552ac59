CONSTANTS
  Harnesses = {"cursor", "sdk", "extension"}
  Modes = {"block", "locked"}
  Tools = {i1, i2}
  MaxClaims = 3
  NamesAgree = TRUE
  Disturbed = 2
SPECIFICATION FairSpec
INVARIANTS TypeOK ClaimCoversTool Tracked TimersStopBeforeRelease
PROPERTIES EndReleasesBook EndFinishes
CONSTRAINTS LaterClaimsApart CursorOneDisturbance
