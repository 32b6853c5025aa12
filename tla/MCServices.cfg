\* Shell, file system and terminal; both key buffers overflow.
SPECIFICATION Spec
CONSTANTS
  Shell = Shell
  FS = FS
  TTY = TTY
  HD = HD
  SYS = SYS
  ANY = ANY
  INTERRUPT = INTERRUPT
  NO_TASK = NO_TASK
  HARD_INT = HARD_INT
  KB_IN_BYTES = 2
  TTY_IN_BYTES = 1
  Keys = {"char", "newline", "backspace"}
  MaxCount = 2
  Loads <- AllTyping
INVARIANTS
  TypeOK
  NoDeadlockPanic
  NoStrandedKey
  KeysGoToReader
  AnswersMatch
CHECK_DEADLOCK FALSE
