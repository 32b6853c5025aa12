--------------------------------- MODULE Mines ---------------------------------
(***************************************************************************)
(* The command MS (game/MineSweeper.c).  Fields are numbered from 1 to     *)
(* Size in both directions; num and jiemian have a border of fields with   *)
(* 0 and Size + 1 around them.                                             *)
(*                                                                         *)
(* count, x and y are globals that startMineSweeper does not set: count is *)
(* 0 after the first game, and an answer that is no coordinate leaves x or *)
(* y as it was, before the first answer the place of the last bomb counted *)
(* from 0.                                                                 *)
(***************************************************************************)
EXTENDS Integers, Sequences, FiniteSets, FiniteSetsExt, SequencesExt

CONSTANTS
  Size,    (* 11 in the code  *)
  Bombs,   (* 10 in the code  *)
  MaxLooks (* bound: fields looked at in a game  *)

ASSUME MinesAssumption == Size \in Nat \ {0} /\ Bombs \in 1..(Size * Size) /\ MaxLooks \in Nat

VARIABLES
  bomb,     (* the fields with a bomb                                      *)
  count,    (* bombs still to be placed                                    *)
  jiemian,  (* what is shown: a number, HIDDEN or EXPLODED                 *)
  at,       (* x and y                                                     *)
  looks,    (* fields looked at in this game                               *)
  asked,    (* history: the places both of whose numbers the user answered *)
  misread   (* history: an answer in this game was no coordinate           *)

mines == <<bomb, count, jiemian, at, looks, asked, misread>>

HIDDEN == -1
EXPLODED == -2

Fields == (1..Size) \X (1..Size)
WithBorder == (0..(Size + 1)) \X (0..(Size + 1))

(* In the order of chakan.  *)
Offsets == <<<<-1, -1>>, <<-1, 0>>, <<-1, 1>>, <<0, -1>>, <<0, 1>>, <<1, -1>>, <<1, 0>>, <<1, 1>>>>

Near(f) == {<<f[1] + d[1], f[2] + d[2]>> : d \in ToSet(Offsets)}

(* Each bomb counts for its own field and for those around it.  *)
num(f) == Cardinality(bomb \intersect (Near(f) \union {f}))

(* Fault: the four neighbours with a common side only.  *)
RECURSIVE chakanSides(_, _)
chakanSides(shown, f) ==
  LET now == [shown EXCEPT ![f] = num(f)]
      Next4(s, d) == LET g == <<f[1] + d[1], f[2] + d[2]>>
                     IN IF s[g] = HIDDEN THEN chakanSides(s, g) ELSE s
  IN IF f \in Fields /\ num(f) = 0
     THEN FoldLeft(Next4, now, <<<<-1, 0>>, <<0, -1>>, <<0, 1>>, <<1, 0>>>>) ELSE now

(* Show a field, and around a 0 that is not on the border the rest.  *)
RECURSIVE chakan(_, _)
chakan(shown, f) ==
  LET now == [shown EXCEPT ![f] = num(f)]
      Next8(s, d) == LET g == <<f[1] + d[1], f[2] + d[2]>>
                     IN IF s[g] = HIDDEN THEN chakan(s, g) ELSE s
  IN IF f \in Fields /\ num(f) = 0 THEN FoldLeft(Next8, now, Offsets) ELSE now

AllHidden == [f \in WithBorder |-> HIDDEN]

startMineSweeper ==
  /\ bomb' \in kSubset(count, Fields)
  /\ count' = 0
  /\ IF count = 0 THEN UNCHANGED at ELSE at' \in {<<f[1] - 1, f[2] - 1>> : f \in bomb'}
  /\ jiemian' = AllHidden
  /\ looks' = 0 /\ asked' = {} /\ misread' = FALSE

(* bomb[x-1][y-1] is outside of the array where x or y is 0.  *)
IsBomb(f) == IF f \in Fields THEN {f \in bomb} ELSE BOOLEAN

(* The answers; what is no coordinate leaves x or y as it was.  *)
NoCoordinate == 0
Answers == (1..Size) \union {NoCoordinate}

Look ==
  /\ count = 0 /\ looks < MaxLooks
  /\ \E x, y \in Answers :
       /\ at' = <<IF x = NoCoordinate THEN at[1] ELSE x, IF y = NoCoordinate THEN at[2] ELSE y>>
       /\ asked' = asked \union ({<<x, y>>} \intersect Fields)
       /\ misread' = (misread \/ NoCoordinate \in {x, y})
  /\ \E explodes \in IsBomb(at') :
       jiemian' = IF explodes THEN [jiemian EXCEPT ![at'] = EXPLODED] ELSE chakan(jiemian, at')
  /\ looks' = looks + 1
  /\ UNCHANGED <<bomb, count>>

MinesInit ==
  /\ bomb = {} /\ count = Bombs /\ at = <<0, 0>>
  /\ jiemian = AllHidden
  /\ looks = 0 /\ asked = {} /\ misread = FALSE

-----------------------------------------------------------------------------
(* What a game shows of the fields is true, and as the rules say           *)
(* (MineSweeper.c:248-250, 370-382): a bomb that exploded or the number of *)
(* bombs around, and everything around a 0 that is shown.  It is what the  *)
(* user asked for, and nothing else: the places looked at, and the         *)
(* neighbours of a 0.  From the first answer in a game that is no          *)
(* coordinate on, the program looks at places nobody asked for, and only   *)
(* the rest is claimed.                                                    *)
MinesTrue ==
  LET Shown == {f \in Fields : jiemian[f] # HIDDEN}
  IN /\ \A f \in Shown : IF f \in bomb THEN jiemian[f] = EXPLODED
                         ELSE jiemian[f] = Cardinality(bomb \intersect Near(f))
     /\ \A f \in Shown : jiemian[f] = 0 => Near(f) \intersect Fields \subseteq Shown
     /\ asked \subseteq Shown
     /\ ~misread => \A f \in Shown :
          f \in asked \/ (f \notin bomb /\ \E g \in Near(f) \intersect Fields : jiemian[g] = 0)

=============================================================================
