CONSTANTS
  Rows = 4
  NIBBLES_PER_ROW = 1
  Strides = 4
  MenuRows = 1
  DISP_INSTR_OFF = 3
  QuietTicks = 1
  PendingTicks = 2
  SyncTicks = 1
  Never = Never
  Starts <- MCStarts
  LineOffsets <- MCLineOffsets
  LineCounts <- MCLineCounts
  Menus <- MCMenus
  Written <- MCWritten
SPECIFICATION Spec
INVARIANTS
  NothingIsLost
PROPERTIES
  SnapshotsFollowTheScan
  WritesReachThePanel
