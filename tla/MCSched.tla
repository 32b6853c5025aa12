------------------------------- MODULE MCSched -------------------------------
(* Instances of Sched for the model checker: the quanta of 10, 20 and 100  *)
(* ticks are scaled down, the order of their sizes is kept.                *)
EXTENDS Sched

CONSTANTS tty, shell, TestB, TestC

MCQuantum == [l \in Levels |-> CASE l = 0 -> 1 [] l = 1 -> 2 [] l = 2 -> 3 [] OTHER -> -1]
=============================================================================
