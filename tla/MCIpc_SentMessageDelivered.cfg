\* Three processes and a task that interrupts inform; interrupts anywhere.
SPECIFICATION Spec
CONSTANTS
  p1 = p1
  p2 = p2
  p3 = p3
  tty = tty
  Procs = {p1, p2, p3, tty}
  Informed = {tty}
  Types = {request}
  ANY = ANY
  INTERRUPT = INTERRUPT
  NO_TASK = NO_TASK
  HARD_INT = HARD_INT
SYMMETRY Swap
INVARIANT SentMessageDelivered
CHECK_DEADLOCK FALSE
