\* Three files of the root directory: one of them is there after its removal.
CONSTANTS
  Sessions <- FlatSessions
  NameLen <- Names
  NR_INODES = 6
  NR_INODE = 5
  NR_FILES = 3
  DIR_SLOTS = 10
  MaxCount = 3
SPECIFICATION Spec
INVARIANT AnswersTrue
CHECK_DEADLOCK FALSE
