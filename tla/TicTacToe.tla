------------------------------- MODULE TicTacToe -------------------------------
(***************************************************************************)
(* The command runttt (game/TTT.c): a human against a search of three      *)
(* moves.  The array States[] is the tree of that search; here a node is a *)
(* board, and its value is computed by recursion (Value).                  *)
(***************************************************************************)
EXTENDS Integers, Sequences, FiniteSets, FiniteSetsExt, Functions, SequencesExt

VARIABLES
  QP,       (* the board, row by row: 1 the computer's, -1 the user's, 0   *)
  mover,    (* whose turn it is                                            *)
  verdict   (* how the last game ended, as AutoDone prints it              *)

ttt == <<QP, mover, verdict>>

Cells == 1..9
Board == [Cells -> {-1, 0, 1}]

MAX_NUM == 1000
NO_BLANK == -1001
TREE_DEPTH == 3

Blanks(s) == {c \in Cells : s[c] = 0}

LinesInOrder == <<{1, 2, 3}, {4, 5, 6}, {7, 8, 9}, {1, 4, 7}, {2, 5, 8}, {3, 6, 9},
                  {1, 5, 9}, {7, 5, 3}>>

Owns(s, who, line) == \A c \in line : s[c] = who

(* 1 or -1 for the owner of the first line that is complete, or 0.  *)
IsWin(s) ==
  LET complete == SelectSeq(LinesInOrder, LAMBDA l : \E who \in {-1, 1} : Owns(s, who, l))
  IN IF complete = <<>> THEN 0 ELSE s[Max(complete[1])]

(* Lines that would be who's if all blanks were.  *)
Open(s, who) == Quantify(ToSet(LinesInOrder), LAMBDA l : \A c \in l : s[c] # -who)

(* Fault: a full board is judged as any other.  *)
e_funAlways(s) == IF IsWin(s) # 0 THEN IsWin(s) * MAX_NUM ELSE Open(s, 1) - Open(s, -1)

e_fun(s) ==
  CASE Blanks(s) = {} -> NO_BLANK
    [] Blanks(s) # {} /\ IsWin(s) # 0 -> IsWin(s) * MAX_NUM
    [] OTHER -> Open(s, 1) - Open(s, -1)

(* The value of a node some moves below the root of a tree of some depth.  *)
(* The values of the nodes above the leaves are maxima, whoever moves, and *)
(* above them minima and maxima in turn.                                   *)
RECURSIVE Value(_, _, _)
Value(s, level, depth) ==
  IF level = depth THEN e_fun(s)
  ELSE LET children == {Value([s EXCEPT ![c] = IF level % 2 = 0 THEN 1 ELSE -1], level + 1, depth) :
                          c \in Blanks(s)}
       IN IF (depth - 1 - level) % 2 = 0 THEN Max(children) ELSE Min(children)

Child(s, c) == [s EXCEPT ![c] = 1]

(* A tree ends where no blank is left.  *)
Depth3(s) == Min({TREE_DEPTH, Cardinality(Blanks(s))})

(* The nodes of a level are looked at from the last to the first, and a    *)
(* better one replaces the best so far.                                    *)
Best(s, values) ==
  LET best == IF (Depth3(s) - 1) % 2 = 0 THEN Max(Range(values)) ELSE Min(Range(values))
  IN [cell |-> Max({c \in DOMAIN values : values[c] = best}), value |-> best]

Searched(s) ==
  LET winning == {c \in Blanks(s) : e_fun(Child(s, c)) = MAX_NUM}
  IN IF winning # {} THEN [cell |-> Min(winning), value |-> MAX_NUM]
     ELSE Best(s, [c \in Blanks(s) |-> Value(Child(s, c), 1, Depth3(s))])

Verdict(value) ==
  CASE value = MAX_NUM -> "computer" [] value = NO_BLANK -> "draw" [] OTHER -> "none"

(* Init, and the answer to the question who is first.  *)
TTTStart ==
  /\ verdict # "none"
  /\ QP' = [c \in Cells |-> 0]
  /\ mover' \in {"user", "computer"}
  /\ verdict' = "none"

(* A cell that is taken, or no cell, is asked for again.  *)
UserInput ==
  /\ verdict = "none" /\ mover = "user"
  /\ \E c \in Blanks(QP) : QP' = [QP EXCEPT ![c] = -1]
  /\ mover' = "computer"
  /\ UNCHANGED verdict

AutoDone ==
  /\ verdict = "none" /\ mover = "computer"
  /\ IF IsWin(QP) = -1
     THEN verdict' = "user" /\ UNCHANGED <<QP, mover>>
     ELSE \E move \in {Searched(QP)} :
            /\ QP' = Child(QP, move.cell)
            /\ verdict' = Verdict(move.value)
            /\ mover' = "user"

TTTInit == QP = [c \in Cells |-> 0] /\ mover = "user" /\ verdict = "not played"

TTTStep == UserInput \/ AutoDone

-----------------------------------------------------------------------------
(* Nobody writes these relations down, the values of the search have to    *)
(* imply them (TTT.c:207-243, 262-275): the computer is never asked to     *)
(* move on a full board, where the search for the root would leave the     *)
(* array of nodes; the user is told to have won only with a line of his    *)
(* own, a line of the computer's is always called, and a draw is called    *)
(* only when nobody has a line.                                            *)
TicTacToeSound ==
  /\ mover = "computer" /\ verdict = "none" => Blanks(QP) # {} \/ IsWin(QP) = -1
  /\ verdict = "user" => IsWin(QP) = -1
  /\ IsWin(QP) = 1 => verdict = "computer"
  /\ verdict = "draw" => IsWin(QP) = 0

=============================================================================
