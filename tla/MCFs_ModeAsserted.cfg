CONSTANTS
  NameLen <- Names
  Sessions <- PlainSessions
  NR_INODES = 6
  NR_INODE = 4
  NR_FILES = 3
  DIR_SLOTS = 10
  MaxCount = 3
SPECIFICATION Spec
INVARIANTS ModeAsserted
CHECK_DEADLOCK FALSE
