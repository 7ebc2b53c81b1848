CONSTANTS
  Wrap = 10
  START_SETTLE_MS = 1
  TEAL_HOLD_MS = 2
  PREFIX_SETTLE_MS = 2
  ON_HOLD_MS = 1
  HP_OFF_TIMEOUT_MS = 4
  MAX_ATTEMPTS = 2
  MaxGap = 2
  MaxStarts = 2
SPECIFICATION PowerSpec
INVARIANTS
  NeverAChord
  SafeToCutPower
  KeysReleasedWhenDone
PROPERTIES
  KeysHeldLongEnough
  OffTerminates
