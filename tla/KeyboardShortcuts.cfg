CONSTANTS
  HELD_KEYS_CAPACITY = 2
  PrefixCodes = {"lsh", "rsh", "alpha"}
  ActionCodes = {"a", "b", "drop", "on", "f8", "f10", "left", "enter"}
  PREFIX_HOLD_POLLS = 1
  PREFIX_LATCH_WAIT_POLLS = 1
  PREFIX_MAX_ATTEMPTS = 2
  Keys = {"SPACE", "LEFT", "CTRL", "ESC", "F8", "F10", "BKSP"}
  DrawnCodes = {"b"}
  MaxFingers = 3
  HP_KEY_MIN_HOLD = 3
  HP_GAME_COMMAND_MIN_HOLD = 4
  WARM_START_TIMEOUT = 3
SPECIFICATION Spec
INVARIANTS
  EveryBitHasAnOwner
