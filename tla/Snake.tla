--------------------------------- MODULE Snake ---------------------------------
(***************************************************************************)
(* The command runSnake (game/Snake.c).  The snake is a list of bodies     *)
(* with the direction in which each moves next, and is drawn into a map    *)
(* that decides what the head may enter; that the two agree is nobody's    *)
(* duty.  One action is one turn of the loop, every 600 ms.                *)
(*                                                                         *)
(* eatFlag is a global that initSnake does not set: a game that ends in    *)
(* the turn of a meal leaves it for the next one.                          *)
(***************************************************************************)
EXTENDS Integers, Sequences, FiniteSets, SequencesExt

CONSTANTS
  MAX,         (* MAX_WIDTH and MAX_HEIGHT, 15 in the code                 *)
  EndLength    (* 150 in the code                                          *)

ASSUME SnakeAssumption == MAX \in Nat /\ MAX >= 6 /\ EndLength \in Nat /\ EndLength > 2

VARIABLES
  snake,        (* the bodies from the head: x, y, nowDir                  *)
  map,          (* "wall", "free", "point" or "body"                       *)
  point, eatFlag, gameStatus

snakeGame == <<snake, map, point, eatFlag, gameStatus>>

Grid == (0..(MAX + 1)) \X (0..(MAX + 1))
Inside == (1..MAX) \X (1..MAX)

Directions == {"UP", "DOWN", "LEFT", "RIGHT"}
dir == [UP |-> <<-1, 0>>, DOWN |-> <<1, 0>>, LEFT |-> <<0, -1>>, RIGHT |-> <<0, 1>>]
Anticlockwise == [UP |-> "LEFT", LEFT |-> "DOWN", DOWN |-> "RIGHT", RIGHT |-> "UP"]

Body(pos, nowDir) == [pos |-> pos, nowDir |-> nowDir]
Ahead(b) == <<b.pos[1] + dir[b.nowDir][1], b.pos[2] + dir[b.nowDir][2]>>

(* The places rand() finds: the loop goes on until one is free.  *)
Free(m) == {p \in (0..MAX) \X (0..MAX) : m[p] = "free"}

(* Game over at the length of a winner, or in front of a wall or a body.   *)
checkEnd(s, m) == Len(s) >= EndLength \/ m[Ahead(s[1])] \notin {"free", "point"}

(* Every body takes the direction of the one before it.  *)
Advanced(s) ==
  [i \in 1..Len(s) |-> Body(Ahead(s[i]), IF i = 1 THEN s[1].nowDir ELSE s[i - 1].nowDir)]

(* Fault: the new tail moves as the one before it does from now on.  *)
SnakeMoveTurned(s) ==
  IF eatFlag = 1 THEN Append(Advanced(s), Body(Last(s).pos, Last(Advanced(s)).nowDir))
  ELSE Advanced(s)

(* After a meal the tail stays where it was.  *)
SnakeMove(s) == IF eatFlag = 1 THEN Append(Advanced(s), Last(s)) ELSE Advanced(s)

(* The map of SnakeMove: the head is drawn before the tail is cleared.  *)
Drawn(m, s, moved) ==
  IF eatFlag = 1 THEN [m EXCEPT ![moved[1].pos] = "body"]
  ELSE [m EXCEPT ![moved[1].pos] = "body", ![Last(s).pos] = "free"]

WithPoint(m, p) == [m EXCEPT ![p] = "point"]

initSnake ==
  /\ gameStatus = 0
  /\ snake' = <<Body(<<5, 5>>, "DOWN"), Body(<<4, 5>>, "DOWN")>>
  /\ gameStatus' = 1
  /\ \E m \in {[p \in Grid |-> CASE p \notin Inside -> "wall"
                                 [] p \in {<<5, 5>>, <<4, 5>>} -> "body"
                                 [] OTHER -> "free"]} :
       \E p \in Free(m) : point' = p /\ map' = WithPoint(m, p)
  /\ UNCHANGED eatFlag

Turned(s, pressed) ==
  IF pressed THEN [s EXCEPT ![1].nowDir = Anticlockwise[s[1].nowDir]] ELSE s

(* SnakeMove, checkPoint, Draw, checkInput and checkEnd.  *)
SnakeTurn ==
  /\ gameStatus = 1
  /\ \E moved \in {SnakeMove(snake)}, pressed \in BOOLEAN :
       \E m \in {Drawn(map, snake, moved)} :
         /\ snake' = Turned(moved, pressed)
         /\ IF moved[1].pos = point
            THEN eatFlag' = 1 /\ point' \in Free(m)
            ELSE eatFlag' = 0 /\ UNCHANGED point
         /\ map' = WithPoint(m, point')
         /\ gameStatus' = IF (eatFlag = 1 /\ checkEnd(moved, m)) \/ checkEnd(snake', map') THEN 0 ELSE 1

SnakeInit ==
  /\ snake = <<>> /\ eatFlag = 0 /\ gameStatus = 0
  /\ map = [p \in Grid |-> "free"] /\ point = <<0, 0>>

SnakeSpec == SnakeInit /\ [][initSnake \/ SnakeTurn]_snakeGame

-----------------------------------------------------------------------------
(* The snake is in one piece (Snake.c:70-106, 124-134, 162-186): each body *)
(* moves onto the place of the one before it, no two are at one place, and *)
(* the map, which alone decides where the head may go, shows exactly them; *)
(* the point is shown on a place of the field that is not taken, or has    *)
(* just become so; no wall is ever erased, not even by what the last game  *)
(* left behind.                                                            *)
SnakeWhole ==
  snake # <<>> =>
    /\ \A i \in 2..Len(snake) : Ahead(snake[i]) = snake[i - 1].pos
    /\ \A i, j \in DOMAIN snake : snake[i].pos = snake[j].pos => i = j
    /\ {p \in Grid : map[p] = "body"} = {snake[i].pos : i \in DOMAIN snake}
    /\ {p \in Grid : map[p] = "wall"} = Grid \ Inside
    /\ {p \in Grid : map[p] = "point"} = {point}

=============================================================================
