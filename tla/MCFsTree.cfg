\* Three files of the root directory, or a directory with files; the counts of
\* the cache get out of step, or the power fails.
CONSTANTS
  Sessions <- AllSessions
  NameLen <- Names
  NR_INODES = 6
  NR_INODE = 5
  NR_FILES = 3
  DIR_SLOTS = 10
  MaxCount = 3
SPECIFICATION Spec
INVARIANTS TypeOK OneSlotPerInode CrashSafe SectorsOwned
PROPERTY OpenFilesKept
CHECK_DEADLOCK FALSE
