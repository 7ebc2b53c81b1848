CONSTANTS
  RamBase = 1
  RamEnd = 51
  Word = 2
  Marker = 1
  MAX_OBJECT_NESTING = 4
  Inbox <- MCInbox
  NoName = 0
  Slots = {0, 1, 2}
  UserFinals = {1}
  UserTemps = {0}
  NoFile = NoFile
  UserFile = UserFile
  Partial = Partial
  BUFFER_BYTES = 2
  BootHp <- MCBootHp
  MaxImports = 2
  MaxExports = 1
  MaxDepth = 2
SPECIFICATION Spec
VIEW View
INVARIANTS
  MemoryIsInOrder
PROPERTIES
  VerdictIsRight
  ExchangeIsAtomic
