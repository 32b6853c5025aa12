SPECIFICATION Spec
CHECK_DEADLOCK FALSE
CONSTANTS
  KB_IN_BYTES = 4
  Screen <- SmallScreen
  Uses <- AllUses
INVARIANTS
  TypeOK
  KeysTrue
  WaitsOnlyWhileHeld
  MouseFollows
