SPECIFICATION FairSpec
CONSTANTS
  tty = tty
  shell = shell
  TestB = TestB
  TestC = TestC
  Procs = {tty, shell, TestB, TestC}
  First = tty
  Tasks = {tty}
  Informed = {tty}
  Spinners = {TestB, TestC}
  Shell = shell
  Protected = {TestB}
  Quantum <- MCQuantum
  Capacity = 5
INVARIANTS
  TypeOK
  EachInOneQueue
  RunningIsFirst
  AlwaysFindsOne
  PassedOverAreTasks
PROPERTIES
  KilledStaysDown
  ScheduleTerminates
  WokenRuns
