CONSTANTS
  Names = {"x", "y"}
  MaxParts = 3
SPECIFICATION Spec
INVARIANTS ConcreteDecidedExactly NoPhantomConflict MutatorsExcludeBothWays
