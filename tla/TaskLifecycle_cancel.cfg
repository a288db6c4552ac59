CONSTANTS
  Providers = {"memory"}
  Tasks = {t1}
  Calls = {k1, k2}
  Cap = 8
  MaxClaims = 1
  MaxDeletes = 0
  NoTask = NoTask
SPECIFICATION Spec
INVARIANT CanceledHoldsNothing
