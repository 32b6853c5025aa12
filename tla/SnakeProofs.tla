------------------------------ MODULE SnakeProofs ------------------------------
(***************************************************************************)
(* The snake stays whole for every size of the field and every length.     *)
(***************************************************************************)
EXTENDS Snake, TLAPS

Marks == {"wall", "free", "point", "body"}
Bodies == [pos : Inside, nowDir : Directions]

SnakeTypeOK ==
  /\ snake \in Seq(Bodies) /\ (snake = <<>> \/ Len(snake) >= 2)
  /\ map \in [Grid -> Marks]
  /\ point \in Grid
  /\ eatFlag \in {0, 1}
  /\ gameStatus \in {0, 1}

(* While a game is on, the head may move on.  *)
MayMove ==
  gameStatus = 1 => snake # <<>> /\ map[Ahead(snake[1])] \in {"free", "point"}

IInv == SnakeTypeOK /\ MayMove /\ SnakeWhole

-----------------------------------------------------------------------------

LEMMA DirType == \A d \in Directions : dir[d] \in (-1..1) \X (-1..1)
  BY DEF Directions, dir

(* One step from inside the walls does not leave the grid.  *)
LEMMA AheadInGrid == \A b \in Bodies : Ahead(b) \in Grid
<1> SUFFICES ASSUME NEW b \in Bodies PROVE Ahead(b) \in Grid
  OBVIOUS
<1>1. b.pos \in Inside /\ b.nowDir \in Directions
  BY DEF Bodies
<1>2. dir[b.nowDir] \in (-1..1) \X (-1..1)
  BY <1>1, DirType
<1> QED
  BY <1>1, <1>2, SnakeAssumption DEF Ahead, Grid, Inside
LEMMA BodyFields ==
  \A pos, d : Body(pos, d).pos = pos /\ Body(pos, d).nowDir = d
  BY DEF Body

LEMMA BodyType ==
  ASSUME NEW pos \in Inside, NEW d \in Directions
  PROVE  Body(pos, d) \in Bodies
  BY DEF Body, Bodies

LEMMA InitIInv == SnakeInit => IInv
<1> SUFFICES ASSUME SnakeInit PROVE IInv
  OBVIOUS
<1>1. <<0, 0>> \in Grid
  BY SnakeAssumption DEF Grid
<1>2. SnakeTypeOK
  BY <1>1 DEF SnakeInit, SnakeTypeOK, Marks
<1>3. MayMove /\ SnakeWhole
  BY DEF SnakeInit, MayMove, SnakeWhole
<1> QED
  BY <1>2, <1>3 DEF IInv

(* The start of a game, whatever the last one left.  *)
LEMMA StartIInv == IInv /\ initSnake => IInv'
<1> SUFFICES ASSUME IInv, initSnake PROVE IInv'
  OBVIOUS
<1> DEFINE a == <<5, 5>>
           b == <<4, 5>>
           c == <<6, 5>>
           m == [p \in Grid |-> CASE p \notin Inside -> "wall"
                                 [] p \in {a, b} -> "body"
                                 [] OTHER -> "free"]
<1>1. /\ a \in Inside /\ b \in Inside /\ c \in Inside
      /\ Inside \subseteq Grid
      /\ a # b /\ a # c /\ b # c
  BY SnakeAssumption DEF Inside, Grid
<1>2. PICK p \in Free(m) : point' = p /\ map' = WithPoint(m, p)
  BY DEF initSnake
<1>3. m \in [Grid -> Marks]
  BY DEF Marks
<1>4. \A q \in Grid : /\ m[q] = "wall" <=> q \notin Inside
                      /\ m[q] = "body" <=> q \in {a, b}
                      /\ m[q] # "point"
  BY <1>1
<1>5. p \in Grid /\ m[p] = "free" /\ p \in Inside /\ p \notin {a, b}
  <2>1. p \in (0..MAX) \X (0..MAX) /\ m[p] = "free"
    BY <1>2 DEF Free
  <2>2. p \in Grid
    BY <2>1, SnakeAssumption DEF Grid
  <2> QED
    BY <2>1, <2>2, <1>4
<1> HIDE DEF m
<1>6. /\ map' \in [Grid -> Marks] /\ map'[p] = "point"
      /\ \A q \in Grid : q # p => map'[q] = m[q]
  BY <1>2, <1>3, <1>5 DEF WithPoint, Marks
<1>7. snake' = <<Body(a, "DOWN"), Body(b, "DOWN")>> /\ gameStatus' = 1 /\ eatFlag' = eatFlag
  BY DEF initSnake
<1>8. /\ snake' \in Seq(Bodies) /\ Len(snake') = 2
      /\ snake'[1] = Body(a, "DOWN") /\ snake'[2] = Body(b, "DOWN")
  <2>1. Body(a, "DOWN") \in Bodies /\ Body(b, "DOWN") \in Bodies
    BY <1>1, BodyType DEF Directions
  <2> QED
    BY <1>7, <2>1
<1>9. Ahead(Body(a, "DOWN")) = c /\ Ahead(Body(b, "DOWN")) = a
  BY DEF Ahead, Body, dir
<1>10. SnakeTypeOK'
  BY <1>2, <1>5, <1>6, <1>7, <1>8 DEF IInv, SnakeTypeOK
<1>11. MayMove'
  <2>1. map'[c] \in {"free", "point"}
    <3>1. CASE c = p
      BY <3>1, <1>6
    <3>2. CASE c # p
      BY <3>2, <1>1, <1>3, <1>4, <1>6 DEF Marks
    <3> QED
      BY <3>1, <3>2
  <2>2. Ahead(snake'[1]) = c
    BY <1>8, <1>9
  <2>3. map'[Ahead(snake'[1])] \in {"free", "point"}
    BY <2>1, <2>2
  <2>4. snake' # <<>>
    BY <1>8
  <2> QED
    BY <2>3, <2>4 DEF MayMove, Ahead
<1>12. SnakeWhole'
  <2>1. \A i \in 2..Len(snake') : Ahead(snake'[i]) = snake'[i - 1].pos
    <3> SUFFICES ASSUME NEW i \in 2..Len(snake') PROVE Ahead(snake'[i]) = snake'[i - 1].pos
      OBVIOUS
    <3>1. i = 2 /\ i - 1 = 1
      BY <1>8
    <3> QED
      BY <3>1, <1>8, <1>9, BodyFields
  <2>2. DOMAIN snake' = {1, 2} /\ snake'[1].pos = a /\ snake'[2].pos = b
    BY <1>8, BodyFields
  <2>3. \A i, j \in DOMAIN snake' : snake'[i].pos = snake'[j].pos => i = j
    BY <2>2, <1>1
  <2>4. {q \in Grid : map'[q] = "body"} = {a, b}
    BY <1>1, <1>4, <1>5, <1>6
  <2>5. {snake'[i].pos : i \in DOMAIN snake'} = {a, b}
    BY <2>2
  <2>6. {q \in Grid : map'[q] = "wall"} = Grid \ Inside
    BY <1>4, <1>5, <1>6
  <2>7. {q \in Grid : map'[q] = "point"} = {point'}
    BY <1>2, <1>4, <1>5, <1>6
  <2> QED
    BY <2>1, <2>3, <2>4, <2>5, <2>6, <2>7 DEF SnakeWhole, Ahead
<1> QED
  BY <1>10, <1>11, <1>12 DEF IInv

(* A turn of a game: the bodies move up, and the map with them.  *)
LEMMA TurnIInv == IInv /\ SnakeTurn => IInv'
<1> SUFFICES ASSUME IInv, SnakeTurn PROVE IInv'
  OBVIOUS
<1> DEFINE n == Len(snake)
           h == Ahead(snake[1])
           moved == SnakeMove(snake)
           m == Drawn(map, snake, moved)
<1>1. PICK pressed \in BOOLEAN :
        /\ snake' = Turned(moved, pressed)
        /\ IF moved[1].pos = point
           THEN eatFlag' = 1 /\ point' \in Free(m)
           ELSE eatFlag' = 0 /\ point' = point
        /\ map' = WithPoint(m, point')
        /\ gameStatus' = IF (eatFlag = 1 /\ checkEnd(moved, m)) \/ checkEnd(snake', map')
                         THEN 0 ELSE 1
  BY DEF SnakeTurn
<1>2. /\ snake \in Seq(Bodies) /\ n \in Nat /\ n >= 2
      /\ map \in [Grid -> Marks] /\ point \in Grid
      /\ map[h] \in {"free", "point"}
  BY DEF IInv, SnakeTypeOK, MayMove, SnakeTurn
<1>3. /\ \A i \in 2..n : Ahead(snake[i]) = snake[i - 1].pos
      /\ \A i, j \in 1..n : snake[i].pos = snake[j].pos => i = j
      /\ \A q \in Grid : map[q] = "body" <=> q \in {snake[i].pos : i \in 1..n}
      /\ \A q \in Grid : map[q] = "wall" <=> q \notin Inside
      /\ \A q \in Grid : map[q] = "point" <=> q = point
  BY <1>2 DEF IInv, SnakeWhole
<1>4. Inside \subseteq Grid
  BY SnakeAssumption DEF Inside, Grid
<1>5. \A i \in 1..n : snake[i] \in Bodies /\ snake[i].pos \in Inside /\ snake[i].nowDir \in Directions
  <2>1. \A i \in 1..n : snake[i] \in Bodies
    BY <1>2
  <2> QED
    BY <2>1 DEF Bodies
<1>6. h \in Inside /\ \A i \in 1..n : snake[i].pos # h
  <2>1. h \in Grid
    BY <1>2, <1>5, AheadInGrid
  <2> QED
    BY <1>2, <1>3, <2>1
<1>7. /\ moved \in Seq(Bodies)
      /\ Len(moved) = IF eatFlag = 1 THEN n + 1 ELSE n
      /\ moved[1] = Body(h, snake[1].nowDir)
      /\ \A i \in 2..n : moved[i] = Body(snake[i - 1].pos, snake[i - 1].nowDir)
      /\ eatFlag = 1 => moved[n + 1] = snake[n]
  <2> DEFINE adv == Advanced(snake)
  <2>1. /\ adv = [i \in 1..n |-> Body(Ahead(snake[i]), IF i = 1 THEN snake[1].nowDir ELSE snake[i - 1].nowDir)]
    BY DEF Advanced
  <2>2. \A i \in 1..n : adv[i] \in Bodies
    <3> SUFFICES ASSUME NEW i \in 1..n PROVE adv[i] \in Bodies
      OBVIOUS
    <3>1. CASE i = 1
      BY <3>1, <2>1, <1>5, <1>6, BodyType
    <3>2. CASE i # 1
      <4>1. i - 1 \in 1..n /\ i \in 2..n
        BY <3>2
      <4>2. Ahead(snake[i]) \in Inside /\ snake[i - 1].nowDir \in Directions
        BY <4>1, <1>3, <1>5
      <4> HIDE DEF adv
      <4> QED
        BY <3>2, <4>2, <2>1, BodyType
    <3> QED
      BY <3>1, <3>2
  <2>3. /\ adv \in Seq(Bodies) /\ Len(adv) = n
        /\ adv[1] = Body(h, snake[1].nowDir)
        /\ \A i \in 2..n : adv[i] = Body(snake[i - 1].pos, snake[i - 1].nowDir)
    <3> HIDE DEF adv
    <3>1. adv \in Seq(Bodies) /\ Len(adv) = n
      BY <2>1, <2>2, <1>2
    <3>2. adv[1] = Body(h, snake[1].nowDir)
      BY <2>1, <1>2
    <3>3. \A i \in 2..n : adv[i] = Body(snake[i - 1].pos, snake[i - 1].nowDir)
      BY <2>1, <1>2, <1>3
    <3> QED
      BY <3>1, <3>2, <3>3
  <2>4. moved = IF eatFlag = 1 THEN Append(adv, snake[n]) ELSE adv
    BY DEF SnakeMove, Last
  <2> HIDE DEF adv, moved
  <2>5. snake[n] \in Bodies
    BY <1>2, <1>5
  <2> QED
    BY <1>2, <2>3, <2>4, <2>5
<1> HIDE DEF moved, m, h, n
<1>8. /\ snake' \in Seq(Bodies) /\ Len(snake') = Len(moved)
      /\ snake'[1].pos = h
      /\ \A i \in 2..Len(moved) : snake'[i] = moved[i]
  <2>1. \A d \in Directions : Anticlockwise[d] \in Directions
    BY DEF Directions, Anticlockwise
  <2>2. moved[1].pos = h /\ moved[1].nowDir \in Directions /\ moved[1] \in Bodies /\ 1 \in 1..Len(moved)
    BY <1>2, <1>5, <1>6, <1>7, BodyFields, BodyType
  <2>3. CASE pressed
    <3> DEFINE d == Anticlockwise[moved[1].nowDir]
    <3>1. d \in Directions
      BY <2>1, <2>2
    <3>2. snake' = [moved EXCEPT ![1].nowDir = d]
      BY <1>1, <2>3 DEF Turned
    <3>3. [moved[1] EXCEPT !.nowDir = d] \in Bodies /\ [moved[1] EXCEPT !.nowDir = d].pos = h
      BY <2>2, <3>1 DEF Bodies
    <3>4. snake' = [moved EXCEPT ![1] = [moved[1] EXCEPT !.nowDir = d]]
      BY <3>2
    <3> HIDE DEF d
    <3> QED
      BY <1>7, <2>2, <3>3, <3>4
  <2>4. CASE ~pressed
    BY <1>1, <1>7, <2>2, <2>4 DEF Turned
  <2> QED
    BY <2>3, <2>4
<1> DEFINE k == Len(moved)
           Old == {snake[i].pos : i \in 1..n}
           New == {snake'[i].pos : i \in 1..k}
(* The places of the bodies: the head's is new, the others move up.  *)
<1>9. /\ k \in Nat /\ k >= 2 /\ (k = n \/ k = n + 1) /\ (k = n + 1 <=> eatFlag = 1)
      /\ \A i \in 2..k : snake'[i].pos = snake[i - 1].pos
      /\ snake'[1].pos = h
  <2>1. k \in Nat /\ k >= 2 /\ (k = n \/ k = n + 1) /\ (k = n + 1 <=> eatFlag = 1)
    BY <1>2, <1>7
  <2>2. ASSUME NEW i \in 2..k PROVE snake'[i].pos = snake[i - 1].pos
    <3>1. snake'[i] = moved[i]
      BY <1>8, <2>2
    <3>2. CASE i \in 2..n
      BY <3>1, <3>2, <1>7, BodyFields
    <3>3. CASE i = n + 1
      <4>1. eatFlag = 1 /\ i - 1 = n
        BY <3>3, <2>1, <2>2, <1>2
      <4>2. moved[n + 1] = snake[n]
        BY <4>1, <1>7
      <4> QED
        BY <3>1, <3>3, <4>1, <4>2
    <3> QED
      BY <3>2, <3>3, <2>1, <1>2
  <2> QED
    BY <2>1, <2>2, <1>8
<1>10. \A i \in 2..k : Ahead(snake'[i]) = snake'[i - 1].pos
  <2> SUFFICES ASSUME NEW i \in 2..k PROVE Ahead(snake'[i]) = snake'[i - 1].pos
    OBVIOUS
  <2>1. snake'[i] = moved[i]
    BY <1>8
  <2>2. CASE i = 2
    <3>1. moved[2] = Body(snake[1].pos, snake[1].nowDir)
      BY <1>2, <1>7
    <3>2. Ahead(moved[2]) = h
      BY <3>1, BodyFields DEF Ahead, h
    <3> QED
      BY <2>1, <2>2, <3>2, <1>9
  <2>3. CASE i \in 3..n
    <3>1. i - 1 \in 2..n /\ i - 1 \in 2..k /\ i \in 2..n
      BY <2>3, <1>9, <1>2
    <3>2. moved[i] = Body(snake[i - 1].pos, snake[i - 1].nowDir)
      BY <3>1, <1>7
    <3>3. Ahead(moved[i]) = Ahead(snake[i - 1])
      BY <3>2, BodyFields DEF Ahead
    <3>4. Ahead(snake[i - 1]) = snake[(i - 1) - 1].pos
      BY <3>1, <1>3
    <3>5. snake'[i - 1].pos = snake[(i - 1) - 1].pos
      BY <3>1, <1>9
    <3> QED
      BY <2>1, <3>3, <3>4, <3>5
  <2>4. CASE i = n + 1 /\ i # 2
    <3>1. n \in 2..n /\ n \in 2..k /\ eatFlag = 1 /\ i - 1 = n
      BY <2>4, <1>9, <1>2
    <3>2. moved[i] = snake[n]
      BY <3>1, <2>4, <1>7
    <3>3. Ahead(snake[n]) = snake[n - 1].pos /\ snake'[n].pos = snake[n - 1].pos
      BY <3>1, <1>3, <1>9
    <3> QED
      BY <2>1, <3>1, <3>2, <3>3
  <2> QED
    BY <2>2, <2>3, <2>4, <1>9, <1>2
<1>11. \A i, j \in 1..k : snake'[i].pos = snake'[j].pos => i = j
  <2>1. \A i \in 2..k : i - 1 \in 1..n /\ snake'[i].pos = snake[i - 1].pos /\ snake'[i].pos # h
    BY <1>2, <1>6, <1>9
  <2> SUFFICES ASSUME NEW i \in 1..k, NEW j \in 1..k, snake'[i].pos = snake'[j].pos, i # j
               PROVE  FALSE
    OBVIOUS
  <2>2. CASE i = 1 \/ j = 1
    BY <2>1, <2>2, <1>9
  <2>3. CASE i # 1 /\ j # 1
    <3>1. snake[i - 1].pos = snake[j - 1].pos /\ i - 1 \in 1..n /\ j - 1 \in 1..n
      BY <2>1, <2>3
    <3>2. i - 1 = j - 1
      BY <3>1, <1>3
    <3> QED
      BY <3>2
  <2> QED
    BY <2>2, <2>3
<1>12. New = IF eatFlag = 1 THEN Old \union {h} ELSE (Old \ {snake[n].pos}) \union {h}
  <2>1. \A i \in 1..n : i < k => i + 1 \in 2..k /\ snake'[i + 1].pos = snake[i].pos
    BY <1>2, <1>9
  <2>2. \A i \in 2..k : i - 1 \in 1..n /\ snake'[i].pos = snake[i - 1].pos
    BY <1>2, <1>9
  <2>3. h \in New
    BY <1>9
  <2>4. CASE eatFlag = 1
    <3>1. New \subseteq Old \union {h}
      BY <2>2, <1>9
    <3>2. Old \subseteq New
      <4> SUFFICES ASSUME NEW i \in 1..n PROVE snake[i].pos \in New
        OBVIOUS
      <4>1. i < k
        BY <2>4, <1>2, <1>9
      <4>2. i + 1 \in 1..k /\ snake'[i + 1].pos = snake[i].pos
        BY <4>1, <2>1, <1>9
      <4> QED
        BY <4>2
    <3> QED
      BY <2>3, <2>4, <3>1, <3>2
  <2>5. CASE eatFlag # 1
    <3>1. k = n
      BY <2>5, <1>9
    <3>2. New \subseteq (Old \ {snake[n].pos}) \union {h}
      <4> SUFFICES ASSUME NEW i \in 2..k PROVE snake'[i].pos \in Old \ {snake[n].pos}
        BY SMTT(20), <1>9
      <4>1. i - 1 \in 1..n /\ n \in 1..n /\ i - 1 # n
        BY <3>1, <1>2
      <4> QED
        BY <4>1, <2>2, <1>3
    <3>3. Old \ {snake[n].pos} \subseteq New
      <4> SUFFICES ASSUME NEW i \in 1..n, snake[i].pos # snake[n].pos PROVE snake[i].pos \in New
        OBVIOUS
      <4>1. i < k
        BY <3>1, <1>2
      <4> QED
        BY <4>1, <2>1
    <3> QED
      BY <2>3, <2>5, <3>2, <3>3
  <2> QED
    BY <2>4, <2>5
<1> HIDE DEF k, Old, New
(* The map: h becomes a body, the old tail may become free.  *)
<1>13. /\ \A q \in Grid : map[q] = "body" <=> q \in Old
       /\ snake[n].pos \in Old /\ snake[n].pos \in Inside /\ snake[n].pos # h
       /\ h \in Inside /\ h \in Grid /\ h \notin Old
  BY <1>2, <1>3, <1>4, <1>5, <1>6 DEF Old
<1>14. /\ m \in [Grid -> Marks]
       /\ \A q \in Grid : m[q] = "body" <=> q \in New
       /\ \A q \in Grid : m[q] = "wall" <=> q \notin Inside
       /\ \A q \in Grid : m[q] = "point" <=> q = point /\ q # h
  <2>1. moved[1].pos = h /\ Last(snake) = snake[n]
    BY <1>7, BodyFields DEF Last, n
  <2>2. CASE eatFlag = 1
    <3>1. m = [map EXCEPT ![h] = "body"]
      BY <2>1, <2>2 DEF m, Drawn
    <3>2. m[h] = "body" /\ \A q \in Grid : q # h => m[q] = map[q]
      BY <3>1, <1>2, <1>13
    <3>3. m \in [Grid -> Marks]
      BY <3>1, <1>2 DEF Marks
    <3>4. New = Old \union {h}
      BY <1>12, <2>2
    <3> QED
      BY <3>2, <3>3, <3>4, <1>3, <1>13
  <2>3. CASE eatFlag # 1
    <3>1. m = [map EXCEPT ![h] = "body", ![snake[n].pos] = "free"]
      BY <2>1, <2>3 DEF m, Drawn
    <3>2. /\ m[h] = "body" /\ m[snake[n].pos] = "free"
          /\ \A q \in Grid : q # h /\ q # snake[n].pos => m[q] = map[q]
      BY <3>1, <1>2, <1>4, <1>13
    <3>3. m \in [Grid -> Marks]
      BY <3>1, <1>2 DEF Marks
    <3>4. New = (Old \ {snake[n].pos}) \union {h}
      BY <1>12, <2>3
    <3> QED
      BY <3>2, <3>3, <3>4, <1>3, <1>13
  <2> QED
    BY <2>2, <2>3
<1>15. point' \in Grid /\ m[point'] \in {"free", "point"} /\ (h # point => point' = point)
  <2>1. moved[1].pos = h
    BY <1>7, BodyFields
  <2>2. CASE h = point
    <3>1. point' \in Free(m)
      BY <1>1, <2>1, <2>2
    <3>2. point' \in (0..MAX) \X (0..MAX) /\ m[point'] = "free"
      BY <3>1 DEF Free
    <3> QED
      BY <2>2, <3>2, SnakeAssumption DEF Grid
  <2>3. CASE h # point
    BY <1>1, <2>1, <2>3, <1>2, <1>14
  <2> QED
    BY <2>2, <2>3
<1>16. /\ map' \in [Grid -> Marks] /\ map'[point'] = "point"
       /\ \A q \in Grid : q # point' => map'[q] = m[q]
  BY <1>1, <1>14, <1>15 DEF WithPoint, Marks
<1>17. /\ \A q \in Grid : map'[q] = "body" <=> q \in New
       /\ \A q \in Grid : map'[q] = "wall" <=> q \notin Inside
       /\ \A q \in Grid : map'[q] = "point" <=> q = point'
  BY <1>14, <1>15, <1>16
<1>18. SnakeTypeOK'
  <2>1. eatFlag' \in {0, 1} /\ gameStatus' \in {0, 1}
    BY <1>1
  <2> QED
    BY <2>1, <1>8, <1>9, <1>15, <1>16 DEF SnakeTypeOK, k
<1>19. MayMove'
  <2> SUFFICES ASSUME gameStatus' = 1
               PROVE  snake' # <<>> /\ map'[Ahead(snake'[1])] \in {"free", "point"}
    BY DEF MayMove, Ahead
  <2>1. ~checkEnd(snake', map')
    BY <1>1
  <2> QED
    BY <2>1, <1>8, <1>9 DEF checkEnd, k
<1>20. SnakeWhole'
  <2>1. DOMAIN snake' = 1..k /\ Len(snake') = k
    BY <1>8 DEF k
  <2>2. /\ {q \in Grid : map'[q] = "body"} = {snake'[i].pos : i \in DOMAIN snake'}
        /\ {q \in Grid : map'[q] = "wall"} = Grid \ Inside
        /\ {q \in Grid : map'[q] = "point"} = {point'}
    <3>1. New \subseteq Grid
      <4>1. Old \subseteq Grid
        BY <1>4, <1>5 DEF Old
      <4> QED
        BY <4>1, <1>12, <1>13
    <3> QED
      BY <3>1, <2>1, <1>15, <1>17 DEF New
  <2>3. /\ \A i \in 2..Len(snake') : Ahead(snake'[i]) = snake'[i - 1].pos
        /\ \A i, j \in DOMAIN snake' : snake'[i].pos = snake'[j].pos => i = j
    BY <2>1, <1>10, <1>11
  <2> QED
    BY <2>2, <2>3 DEF SnakeWhole, Ahead
<1> QED
  BY <1>18, <1>19, <1>20 DEF IInv

-----------------------------------------------------------------------------

(* The inductive invariant.  *)
THEOREM Invariant == SnakeSpec => []IInv
<1>1. IInv /\ UNCHANGED snakeGame => IInv'
  BY DEF IInv, SnakeTypeOK, MayMove, SnakeWhole, snakeGame, Ahead
<1> QED
  BY <1>1, InitIInv, StartIInv, TurnIInv, PTL DEF SnakeSpec

(* The snake is in one piece and the map shows it (Snake.c:70-106), on     *)
(* every field and for every length that ends a game, whenever keys are    *)
(* pressed, wherever points appear, and in every game after the first.     *)
THEOREM SnakeStaysWhole == SnakeSpec => []SnakeWhole
<1>1. IInv => SnakeWhole
  BY DEF IInv
<1> QED
  BY <1>1, Invariant, PTL

=============================================================================
