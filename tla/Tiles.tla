--------------------------------- MODULE Tiles ---------------------------------
(***************************************************************************)
(* The command 2048 (game/2048.c).  A turn slides every line of the board  *)
(* with the three passes move, merge, move over the buffer tempUnit2048;   *)
(* the board is Width cells wide and high.                                 *)
(***************************************************************************)
EXTENDS Integers, Sequences, FiniteSets, FiniteSetsExt, SequencesExt

CONSTANTS
  Width,      (* 4 in the code                                             *)
  MaxTotal    (* bound: no turn with more than this on the board           *)

ASSUME TilesAssumption == Width \in Nat \ {0, 1} /\ MaxTotal \in Nat

VARIABLES
  numbers2048,   (* a sequence of lines                                    *)
  score2048,
  over           (* no game is on, or the program said "You lose!!!"      *)

tiles == <<numbers2048, score2048, over>>

Places == (1..Width) \X (1..Width)

(* A unit that is being slid, with what the passes add to the two globals. *)
Unit(cells, score, valid) == [cells |-> cells, score |-> score, validity |-> valid]

(* A tile behind some zeros moves in front of them, and they behind it.    *)
move2048(u) ==
  LET Step(w, i) ==
        CASE w.cells[i] = 0 -> [w EXCEPT !.zeros = @ + 1]
          [] w.cells[i] # 0 /\ w.zeros > 0 ->
               [w EXCEPT !.cells[i - w.zeros] = w.cells[i], !.cells[i] = 0, !.moved = TRUE]
          [] OTHER -> w
      end == FoldLeft(Step, [cells |-> u.cells, zeros |-> 0, moved |-> FALSE],
                      [i \in DOMAIN u.cells |-> i])
  IN Unit(end.cells, u.score, u.validity \/ end.moved)

(* Fault: the merged tile is merged again.  *)
merge2048Twice(u) ==
  LET Step(w, i) ==
        IF w.cells[i] # 0 /\ w.cells[i] = w.cells[i + 1]
        THEN Unit([w.cells EXCEPT ![i] = 0, ![i + 1] = 2 * @], w.score + 2 * w.cells[i], TRUE)
        ELSE w
  IN FoldLeft(Step, u, [i \in 1..(Len(u.cells) - 1) |-> i])

(* Equal neighbours become one tile, which is not merged again; the pass   *)
(* ends at the first zero.                                                 *)
merge2048(u) ==
  LET Step(w, i) ==
        CASE w.next = i /\ w.u.cells[i] # 0 /\ w.u.cells[i] = w.u.cells[i + 1] ->
               [u |-> Unit([w.u.cells EXCEPT ![i] = 2 * @, ![i + 1] = 0],
                           w.u.score + 2 * w.u.cells[i], TRUE),
                next |-> i + 2]
          [] w.next = i /\ w.u.cells[i] # 0 /\ w.u.cells[i] # w.u.cells[i + 1] ->
               [w EXCEPT !.next = i + 1]
          [] OTHER -> w
  IN FoldLeft(Step, [u |-> u, next |-> 1], [i \in 1..(Len(u.cells) - 1) |-> i]).u

Slide(u) == move2048(merge2048(move2048(u)))

Options == {"w", "a", "s", "d"}

(* The cell that is the k-th of line n, seen from where the option slides. *)
Place(option, n, k) ==
  CASE option = "w" -> <<k, n>>
    [] option = "a" -> <<n, k>>
    [] option = "s" -> <<Width + 1 - k, n>>
    [] option = "d" -> <<n, Width + 1 - k>>

Lines(board, option) ==
  [n \in 1..Width |-> [k \in 1..Width |->
     LET p == Place(option, n, k) IN board[p[1]][p[2]]]]

(* The line of a cell, and its place in it.  *)
LineOf(option, i, j) ==
  CASE option = "w" -> <<j, i>>
    [] option = "a" -> <<i, j>>
    [] option = "s" -> <<j, Width + 1 - i>>
    [] option = "d" -> <<i, Width + 1 - j>>

FromLines(lines, option) ==
  [i \in 1..Width |-> [j \in 1..Width |->
     LET l == LineOf(option, i, j) IN lines[l[1]][l[2]]]]

(* All lines slid: the board of units, and what the globals become.  *)
Joined(units, option) ==
  [board |-> FromLines([n \in 1..Width |-> units[n].cells], option),
   score |-> MapThenSumSet(LAMBDA n : units[n].score, 1..Width),
   validity |-> \E n \in 1..Width : units[n].validity]

morge2048(board, option) ==
  Joined([n \in 1..Width |-> Slide(Unit(Lines(board, option)[n], 0, FALSE))], option)

(* Zeros in the order of the rows.  *)
Zeros(board) ==
  SelectSeq([n \in 1..(Width * Width) |-> <<1 + (n - 1) \div Width, 1 + ((n - 1) % Width)>>],
            LAMBDA p : board[p[1]][p[2]] = 0)

canEliminate2048(board) ==
  \E i \in 1..Width, j \in 1..(Width - 1) :
    board[i][j] = board[i][j + 1] \/ board[j][i] = board[j + 1][i]

isAlive2048(board) == Zeros(board) # <<>> \/ canEliminate2048(board)

(* srand(1234) comes before every rand(), which then returns 3558.  *)
addrandom2048(board) ==
  LET p == Zeros(board)[1 + (3558 % Len(Zeros(board)))]
  IN [board EXCEPT ![p[1]][p[2]] = 2]

Empty == [i \in 1..Width |-> [j \in 1..Width |-> 0]]

StartBoard == addrandom2048(addrandom2048(Empty))

start2048Game ==
  /\ numbers2048' = StartBoard
  /\ score2048' = 0 /\ over' = FALSE

Total(board) == MapThenSumSet(LAMBDA p : board[p[1]][p[2]], Places)

Turn2048(option) ==
  /\ ~over /\ isAlive2048(numbers2048) = TRUE /\ Total(numbers2048) < MaxTotal
  /\ \E morged \in {morge2048(numbers2048, option)} :
       /\ numbers2048' = IF morged.validity THEN addrandom2048(morged.board) ELSE morged.board
       /\ score2048' = score2048 + morged.score
  /\ UNCHANGED over

Lose2048 ==
  /\ ~over /\ ~isAlive2048(numbers2048)
  /\ over' = TRUE
  /\ UNCHANGED <<numbers2048, score2048>>

TilesInit == numbers2048 = Empty /\ score2048 = 0 /\ over = TRUE

TilesStep == (\E option \in Options : Turn2048(option)) \/ Lose2048

-----------------------------------------------------------------------------
(* A line by the rules of the game: the tiles close up, and from the front *)
(* two equal tiles become one that takes part in no other merge.           *)
RECURSIVE Merged(_)
Merged(s) ==
  CASE Len(s) < 2 -> s
    [] Len(s) >= 2 /\ s[1] = s[2] -> <<2 * s[1]>> \o Merged(SubSeq(s, 3, Len(s)))
    [] OTHER -> <<s[1]>> \o Merged(Tail(s))

ByTheRules(unit) ==
  LET tilesOf == Merged(SelectSeq(unit, LAMBDA v : v # 0))
  IN [k \in DOMAIN unit |-> IF k <= Len(tilesOf) THEN tilesOf[k] ELSE 0]

SlidTo(board, option) ==
  FromLines([n \in 1..Width |-> ByTheRules(Lines(board, option)[n])], option)

(* What a tile adds to the score from the twos it was made of.  *)
RECURSIVE Worth(_)
Worth(v) == IF v < 4 THEN 0 ELSE v + 2 * Worth(v \div 2)

(* A line of the width the code has, slid by the three passes.  *)
CodeLines == [1..4 -> {0, 2, 4, 8}]

LinesByTheRules ==
  \A line \in CodeLines :
    \A u \in {Slide(Unit(line, 0, FALSE))} :
      /\ u.cells = ByTheRules(line)
      /\ u.validity <=> u.cells # line
      /\ u.score = MapThenSumSet(LAMBDA k : Worth(u.cells[k]) - Worth(line[k]), 1..4)

(* A turn of 2048 that changes the board is a turn of the game (2048.c:    *)
(* 79-161, 249-339): move, merge, move of every line is a slide by the     *)
(* rules in one direction, and one 2 comes to a place the slide left       *)
(* empty.  The score of the passes is what the tiles on the board are      *)
(* worth, and the game is lost only where no slide changes anything.  The  *)
(* passes slide every line of four by the rules too, the ones with two     *)
(* merges among them, which a smaller board does not have: the cells, the  *)
(* points, and whether there was anything to slide.                        *)
TurnsByTheRules ==
  [][/\ LinesByTheRules
     /\ numbers2048' # numbers2048 =>
          /\ score2048' = MapThenSumSet(LAMBDA p : Worth(numbers2048'[p[1]][p[2]]), Places)
          /\ \/ numbers2048' = StartBoard
             \/ \E option \in Options :
                  \E slid \in {SlidTo(numbers2048, option)} \ {numbers2048} :
                    \E p \in Places :
                      /\ slid[p[1]][p[2]] = 0
                      /\ numbers2048' = [slid EXCEPT ![p[1]][p[2]] = 2]
     /\ over' /\ ~over => \A option \in Options : SlidTo(numbers2048, option) = numbers2048]_tiles

=============================================================================
