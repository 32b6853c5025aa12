\* Keys or transfers, never both in one behaviour; the input buffer of the
\* terminal holds every key.
SPECIFICATION Spec
CONSTANTS
  Shell = Shell
  FS = FS
  TTY = TTY
  HD = HD
  SYS = SYS
  ANY = ANY
  INTERRUPT = INTERRUPT
  NO_TASK = NO_TASK
  HARD_INT = HARD_INT
  KB_IN_BYTES = 1
  TTY_IN_BYTES = 2
  Keys = {"char", "newline"}
  MaxCount = 1
  Loads <- EitherLoad
INVARIANTS
  NoStrayDiskInterrupt
  CommandsComplete
PROPERTY CallsReturn
CHECK_DEADLOCK FALSE
