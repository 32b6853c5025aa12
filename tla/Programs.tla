-------------------------------- MODULE Programs --------------------------------
(***************************************************************************)
(* Programs of the shell (kernel/main.c, TestA): the shell calls them one  *)
(* at a time, and calls again what has ended.  What a program keeps in     *)
(* globals is what it finds the next time; two programs have no global in  *)
(* common but the state of rand(), which is left open wherever a program   *)
(* does not set it.  The user is therefore taken to run the same program   *)
(* again and again.                                                        *)
(***************************************************************************)
EXTENDS Calculator, TicTacToe, Tiles, Mines, Snake

CONSTANT Commands   (* bound: the programs looked at  *)

ASSUME ProgramsAssumption == Commands \subseteq {"math", "runttt", "2048", "MS", "runSnake"}

VARIABLE cmd   (* what the user types  *)

vars == <<cmd, calculator, ttt, tiles, mines, snakeGame>>

math ==
  /\ cmd = "math"
  /\ mathMain \/ CalculatorStep
  /\ UNCHANGED <<cmd, ttt, tiles, mines, snakeGame>>

runttt ==
  /\ cmd = "runttt"
  /\ TTTStart \/ TTTStep
  /\ UNCHANGED <<cmd, calculator, tiles, mines, snakeGame>>

(* A game of 2048 or of MS may be given up at any time.  *)
run2048 ==
  /\ cmd = "2048"
  /\ start2048Game \/ TilesStep
  /\ UNCHANGED <<cmd, calculator, ttt, mines, snakeGame>>

MS ==
  /\ cmd = "MS"
  /\ startMineSweeper \/ Look
  /\ UNCHANGED <<cmd, calculator, ttt, tiles, snakeGame>>

runSnake ==
  /\ cmd = "runSnake"
  /\ initSnake \/ SnakeTurn
  /\ UNCHANGED <<cmd, calculator, ttt, tiles, mines>>

Init ==
  /\ cmd \in Commands
  /\ CalculatorInit /\ TTTInit /\ TilesInit /\ MinesInit /\ SnakeInit

Next == math \/ runttt \/ run2048 \/ MS \/ runSnake

Spec == Init /\ [][Next]_vars

=============================================================================
