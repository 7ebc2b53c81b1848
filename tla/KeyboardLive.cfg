CONSTANTS
  HELD_KEYS_CAPACITY = 2
  PrefixCodes = {"lsh", "rsh", "alpha"}
  ActionCodes = {"a", "b", "drop", "on", "f8", "f10", "left", "enter"}
  PREFIX_HOLD_POLLS = 1
  PREFIX_LATCH_WAIT_POLLS = 1
  PREFIX_MAX_ATTEMPTS = 2
  Keys = {"A", "SPACE", "ALT", "ESC", "POWER", "CAPS"}
  DrawnCodes = {"lsh"}
  MaxFingers = 2
  HP_KEY_MIN_HOLD = 2
  HP_GAME_COMMAND_MIN_HOLD = 3
  WARM_START_TIMEOUT = 14
SPECIFICATION FairSpec
PROPERTIES
  EventsGoOn
  WarmStartEnds
