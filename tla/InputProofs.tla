------------------------------ MODULE InputProofs ------------------------------
(***************************************************************************)
(* Proofs about the keyboard and the mouse.                                *)
(*                                                                         *)
(* The keyboard: keyboard_read is stated as a function of bytes (Read),    *)
(* and the invariant OnCourse says where it will be once it has read every *)
(* byte that is in the ring buffer or still to be sent: in step with the   *)
(* keys that are held down, the lights and the text typed, perhaps within  *)
(* the code of PrintScreen while Shift or Ctrl is held, or at the end of   *)
(* what it takes for PrintScreen or Pause.  Reading a byte leaves that     *)
(* place where it is, and a stroke moves it by the code of one key.  The   *)
(* mouse: the pointer together with what is kept and what is to come of a  *)
(* packet is where the movements have taken it.                            *)
(***************************************************************************)
EXTENDS Input, SequenceTheorems, TLAPS

Chars == [key : {"a", "A", "7", "*", "newline", "console"},
          flags : SUBSET (Flags \union {"PAD"})]

-----------------------------------------------------------------------------
(* The keyboard.  What keyboard_read makes of bytes is stated with the     *)
(* decoder as a function: a configuration is what it knows between two     *)
(* bytes, as long as key holds no special key; Read is one byte.  It is    *)
(* lost once it has recognised a special key, or Pause begins where it     *)
(* waits for the rest of PrintScreen: it goes astray there.                *)

Leds == {"led_code", "led_ack", "leds_ack"}
Rests == {"first", "print", "unprint"}
Points == {"first", "pause", "extended", "print", "print_end", "unprint",
           "unprint_end", "lost"}

Configs == [at : Points, parsed : 0..5, flags : SUBSET Flags,
            locks : SUBSET Locks, delivered : Seq(Chars)]

Config(at, n, with, lights, text) ==
  [at |-> at, parsed |-> n, flags |-> with, locks |-> lights, delivered |-> text]

Now == Config(IF pc \in Leds THEN "first" ELSE pc, parsed, flags, locks, delivered)

At(c, point) == Config(point, 0, c.flags, c.locks, c.delivered)

Decoded(c, code, e0) ==
  LET k == KeyOf(code, e0, c.flags, c.locks)
      with == FlagsAfter(k, code < 128, c.flags)
      lights == LocksAfter(k, code < 128, c.locks)
  IN Config("first", 0, with, lights,
            c.delivered \o Received(k, code < 128, with, lights))

Read(c, b) ==
  CASE c.at = "first" ->
         IF b = \hE1 THEN Config("pause", 1, c.flags, c.locks, c.delivered)
         ELSE IF b = \hE0 THEN At(c, "extended") ELSE Decoded(c, b, FALSE)
    [] c.at = "pause" ->
         IF b # PauseCode[c.parsed + 1] THEN Decoded(c, \hE1, FALSE)
         ELSE IF c.parsed < 5
              THEN Config("pause", c.parsed + 1, c.flags, c.locks, c.delivered)
              ELSE At(c, "lost")
    [] c.at = "extended" ->
         IF b = \h2A THEN At(c, "print")
         ELSE IF b = \hB7 THEN At(c, "unprint") ELSE Decoded(c, b, TRUE)
    [] c.at = "print" -> IF b = \hE0 THEN At(c, "print_end")
                         ELSE IF b = \hE1 THEN At(c, "lost") ELSE Decoded(c, b, FALSE)
    [] c.at = "unprint" -> IF b = \hE0 THEN At(c, "unprint_end")
                           ELSE IF b = \hE1 THEN At(c, "lost") ELSE Decoded(c, b, FALSE)
    [] c.at = "print_end" -> IF b = \h37 THEN At(c, "lost") ELSE Decoded(c, b, TRUE)
    [] c.at = "unprint_end" -> IF b = \hAA THEN At(c, "lost") ELSE Decoded(c, b, TRUE)
    [] c.at = "lost" -> c

(* Reading bytes takes c to d, and nothing that is delivered on the way is *)
(* taken back.                                                             *)
Runs(c, bytes, d) ==
  \E st \in [1..(Len(bytes) + 1) -> Configs] :
    /\ st[1] = c /\ st[Len(bytes) + 1] = d
    /\ \A i \in 1..Len(bytes) : st[i + 1] = Read(st[i], bytes[i])
    /\ \A i \in 1..(Len(bytes) + 1) : IsPrefix(st[i].delivered, d.delivered)

(* Reading code takes d to e, whatever was read before.  *)
Takes(d, code, e) ==
  \A c \in Configs, s \in Seq(Byte) : Runs(c, s, d) => Runs(c, s \o code, e)

(* In step with the keys that are down, the lights and the text.  *)
Synced(down, lights, text) == Config("first", 0, Held(down), lights, text)

(* In step like g, where E0 2A or E0 B7 may have left the decoder, or lost. *)
Close(d, g) ==
  \/ /\ d.at \in Rests
     /\ d.flags = g.flags /\ d.locks = g.locks /\ d.delivered = g.delivered
  \/ d.at = "lost" /\ IsPrefix(d.delivered, g.delivered)

Settled(d) == d.at \in {"first", "lost"}

WithShift(down) == down \cap (Shifts \union Controls) # {}

(* Once every byte that is on its way is read, the decoder is in step with *)
(* the keys and not within a code unless Shift or Ctrl is held down, or it *)
(* is lost.                                                                *)
Ahead(d) == Close(d, Synced(held, lit, typed)) /\ (Settled(d) \/ WithShift(held))

(* What a byte does, one place of the decoder at a time.  *)
LEMMA ReadAtFirst ==
  ASSUME NEW c, c.at = "first", NEW b
  PROVE  /\ b = \hE1 =>
              Read(c, b) = Config("pause", 1, c.flags, c.locks, c.delivered)
         /\ b = \hE0 => Read(c, b) = At(c, "extended")
         /\ b # \hE0 /\ b # \hE1 => Read(c, b) = Decoded(c, b, FALSE)
  <1>1. b = \hE1 =>
              Read(c, b) = Config("pause", 1, c.flags, c.locks, c.delivered)
    BY Zenon DEF Read
  <1>2. b = \hE0 => Read(c, b) = At(c, "extended")
    <2>1. b = \hE0 => b # \hE1
      OBVIOUS
    <2> QED
      BY <2>1, Zenon DEF Read
  <1>3. b # \hE0 /\ b # \hE1 => Read(c, b) = Decoded(c, b, FALSE)
    BY Zenon DEF Read
  <1> QED
    BY <1>1, <1>2, <1>3

LEMMA ReadAtPause ==
  ASSUME NEW c, c.at = "pause", NEW b
  PROVE  /\ b # PauseCode[c.parsed + 1] => Read(c, b) = Decoded(c, \hE1, FALSE)
         /\ b = PauseCode[c.parsed + 1] /\ c.parsed < 5 =>
              Read(c, b) = Config("pause", c.parsed + 1, c.flags, c.locks, c.delivered)
         /\ b = PauseCode[c.parsed + 1] /\ ~(c.parsed < 5) => Read(c, b) = At(c, "lost")
  <1>1. b # PauseCode[c.parsed + 1] => Read(c, b) = Decoded(c, \hE1, FALSE)
    BY Zenon DEF Read
  <1>2. b = PauseCode[c.parsed + 1] /\ c.parsed < 5 =>
              Read(c, b) = Config("pause", c.parsed + 1, c.flags, c.locks, c.delivered)
    BY Zenon DEF Read
  <1>3. b = PauseCode[c.parsed + 1] /\ ~(c.parsed < 5) => Read(c, b) = At(c, "lost")
    BY Zenon DEF Read
  <1> QED
    BY <1>1, <1>2, <1>3

LEMMA ReadAtExtended ==
  ASSUME NEW c, c.at = "extended", NEW b
  PROVE  /\ b = \h2A => Read(c, b) = At(c, "print")
         /\ b = \hB7 => Read(c, b) = At(c, "unprint")
         /\ b # \h2A /\ b # \hB7 => Read(c, b) = Decoded(c, b, TRUE)
  <1>1. b = \h2A => Read(c, b) = At(c, "print")
    BY Zenon DEF Read
  <1>2. b = \hB7 => Read(c, b) = At(c, "unprint")
    <2>1. b = \hB7 => b # \h2A
      OBVIOUS
    <2> QED
      BY <2>1, Zenon DEF Read
  <1>3. b # \h2A /\ b # \hB7 => Read(c, b) = Decoded(c, b, TRUE)
    BY Zenon DEF Read
  <1> QED
    BY <1>1, <1>2, <1>3

LEMMA ReadAtPrint ==
  ASSUME NEW c, c.at = "print", NEW b
  PROVE  /\ b = \hE0 => Read(c, b) = At(c, "print_end")
         /\ b = \hE1 => Read(c, b) = At(c, "lost")
         /\ b # \hE0 /\ b # \hE1 => Read(c, b) = Decoded(c, b, FALSE)
  <1>1. b = \hE0 => Read(c, b) = At(c, "print_end")
    BY Zenon DEF Read
  <1>2. b = \hE1 => Read(c, b) = At(c, "lost")
    <2>1. b = \hE1 => b # \hE0
      OBVIOUS
    <2> QED
      BY <2>1, Zenon DEF Read
  <1>3. b # \hE0 /\ b # \hE1 => Read(c, b) = Decoded(c, b, FALSE)
    BY Zenon DEF Read
  <1> QED
    BY <1>1, <1>2, <1>3

LEMMA ReadAtUnprint ==
  ASSUME NEW c, c.at = "unprint", NEW b
  PROVE  /\ b = \hE0 => Read(c, b) = At(c, "unprint_end")
         /\ b = \hE1 => Read(c, b) = At(c, "lost")
         /\ b # \hE0 /\ b # \hE1 => Read(c, b) = Decoded(c, b, FALSE)
  <1>1. b = \hE0 => Read(c, b) = At(c, "unprint_end")
    BY Zenon DEF Read
  <1>2. b = \hE1 => Read(c, b) = At(c, "lost")
    <2>1. b = \hE1 => b # \hE0
      OBVIOUS
    <2> QED
      BY <2>1, Zenon DEF Read
  <1>3. b # \hE0 /\ b # \hE1 => Read(c, b) = Decoded(c, b, FALSE)
    BY Zenon DEF Read
  <1> QED
    BY <1>1, <1>2, <1>3

LEMMA ReadAtPrintEnd ==
  ASSUME NEW c, c.at = "print_end", NEW b
  PROVE  /\ b = \h37 => Read(c, b) = At(c, "lost")
         /\ b # \h37 => Read(c, b) = Decoded(c, b, TRUE)
  <1>1. b = \h37 => Read(c, b) = At(c, "lost")
    BY Zenon DEF Read
  <1>2. b # \h37 => Read(c, b) = Decoded(c, b, TRUE)
    BY Zenon DEF Read
  <1> QED
    BY <1>1, <1>2

LEMMA ReadAtUnprintEnd ==
  ASSUME NEW c, c.at = "unprint_end", NEW b
  PROVE  /\ b = \hAA => Read(c, b) = At(c, "lost")
         /\ b # \hAA => Read(c, b) = Decoded(c, b, TRUE)
  <1>1. b = \hAA => Read(c, b) = At(c, "lost")
    BY Zenon DEF Read
  <1>2. b # \hAA => Read(c, b) = Decoded(c, b, TRUE)
    BY Zenon DEF Read
  <1> QED
    BY <1>1, <1>2

LEMMA ReadAtLost ==
  ASSUME NEW c, c.at = "lost", NEW b
  PROVE  Read(c, b) = c
  BY Zenon DEF Read

-----------------------------------------------------------------------------
(* Prefixes.  *)

LEMMA PrefixIs ==
  ASSUME NEW S, NEW s \in Seq(S), NEW t \in Seq(S)
  PROVE  IsPrefix(s, t) <=> Len(s) <= Len(t) /\ \A i \in 1..Len(s) : s[i] = t[i]
  <1>1. Len(s) \in Nat /\ Len(t) \in Nat
    BY LenProperties
  <1>2. ASSUME Len(s) <= Len(t)
        PROVE  SubSeq(s, 1, Len(s)) = SubSeq(t, 1, Len(s))
                 <=> \A i \in 1..Len(s) : s[i] = t[i]
    <2> DEFINE a == SubSeq(s, 1, Len(s))
               b == SubSeq(t, 1, Len(s))
    <2>1. \A i \in 1..Len(s) : s[i] \in S /\ t[i] \in S
      BY <1>1, <1>2, ElementOfSeq
    <2>2. a \in Seq(S) /\ Len(a) = Len(s) /\ \A i \in 1..Len(s) : a[i] = s[i]
      BY <1>1, <2>1, SubSeqProperties
    <2>3. b \in Seq(S) /\ Len(b) = Len(s) /\ \A i \in 1..Len(s) : b[i] = t[i]
      BY <1>1, <2>1, SubSeqProperties
    <2> HIDE DEF a, b
    <2>4. ASSUME \A i \in 1..Len(s) : s[i] = t[i] PROVE a = b
      BY <2>2, <2>3, <2>4, SeqEqual
    <2>5. (a = b) <=> \A i \in 1..Len(s) : s[i] = t[i]
      BY <2>2, <2>3, <2>4
    <2> QED
      BY <2>5 DEF a, b
  <1> QED
    BY <1>2 DEF IsPrefix

LEMMA PrefixRefl ==
  ASSUME NEW S, NEW s \in Seq(S)
  PROVE  IsPrefix(s, s)
  BY PrefixIs, LenProperties

LEMMA PrefixTrans ==
  ASSUME NEW S, NEW s \in Seq(S), NEW t \in Seq(S), NEW u \in Seq(S),
         IsPrefix(s, t), IsPrefix(t, u)
  PROVE  IsPrefix(s, u)
  <1>1. Len(s) \in Nat /\ Len(t) \in Nat /\ Len(u) \in Nat
    BY LenProperties
  <1>2. Len(s) <= Len(t) /\ \A i \in 1..Len(s) : s[i] = t[i]
    BY PrefixIs
  <1>3. Len(t) <= Len(u) /\ \A i \in 1..Len(t) : t[i] = u[i]
    BY PrefixIs
  <1>4. Len(s) <= Len(u) /\ \A i \in 1..Len(s) : s[i] = u[i]
    BY <1>1, <1>2, <1>3
  <1> QED
    BY <1>4, PrefixIs

LEMMA PrefixConcat ==
  ASSUME NEW S, NEW s \in Seq(S), NEW t \in Seq(S)
  PROVE  s \o t \in Seq(S) /\ IsPrefix(s, s \o t)
  <1>1. Len(s) \in Nat /\ Len(t) \in Nat
    BY LenProperties
  <1>2. /\ s \o t \in Seq(S) /\ Len(s \o t) = Len(s) + Len(t)
        /\ \A i \in 1..(Len(s) + Len(t)) :
             (s \o t)[i] = IF i <= Len(s) THEN s[i] ELSE t[i - Len(s)]
    BY ConcatProperties
  <1>3. Len(s) <= Len(s \o t) /\ \A i \in 1..Len(s) : s[i] = (s \o t)[i]
    BY <1>1, <1>2
  <1> QED
    BY <1>2, <1>3, PrefixIs

-----------------------------------------------------------------------------
(* Runs.  *)

LEMMA RunsNothing ==
  ASSUME NEW c \in Configs, NEW d \in Configs
  PROVE  Runs(c, <<>>, d) <=> c = d
  <1>1. Len(<<>>) = 0
    OBVIOUS
  <1>2. ASSUME Runs(c, <<>>, d) PROVE c = d
    BY <1>1, <1>2 DEF Runs
  <1>3. ASSUME c = d PROVE Runs(c, <<>>, d)
    <2> DEFINE st == [i \in 1..1 |-> c]
    <2>1. st \in [1..1 -> Configs] /\ st[1] = c
      OBVIOUS
    <2>2. IsPrefix(c.delivered, c.delivered)
      BY PrefixRefl DEF Configs
    <2>3. \A i \in 1..1 : IsPrefix(st[i].delivered, c.delivered)
      BY <2>1, <2>2
    <2> HIDE DEF st
    <2> QED
      BY <1>1, <1>3, <2>1, <2>3 DEF Runs
  <1> QED
    BY <1>2, <1>3

LEMMA RunsFirst ==
  ASSUME NEW S, NEW c \in Configs, NEW d \in Configs, NEW bytes \in Seq(S), bytes # <<>>,
         Runs(c, bytes, d)
  PROVE  Runs(Read(c, Head(bytes)), Tail(bytes), d)
  <1> DEFINE n == Len(bytes) - 1
             rest == Tail(bytes)
  <1>1. /\ n \in Nat /\ Len(bytes) = n + 1 /\ Len(rest) = n
        /\ \A i \in 1..n : rest[i] = bytes[i + 1]
        /\ Head(bytes) = bytes[1]
    BY HeadTailProperties, LenProperties, EmptySeq
  <1>2. PICK st \in [1..(n + 2) -> Configs] :
          /\ st[1] = c /\ st[n + 2] = d
          /\ \A i \in 1..(n + 1) : st[i + 1] = Read(st[i], bytes[i])
          /\ \A i \in 1..(n + 2) : IsPrefix(st[i].delivered, d.delivered)
    BY <1>1 DEF Runs
  <1> DEFINE after == [i \in 1..(n + 1) |-> st[i + 1]]
  <1> HIDE DEF n, rest
  <1>3. after \in [1..(n + 1) -> Configs] /\ \A i \in 1..(n + 1) : after[i] = st[i + 1]
    BY <1>1, <1>2
  <1> HIDE DEF after
  <1>4. after[1] = Read(c, Head(bytes)) /\ after[n + 1] = d
    BY <1>1, <1>2, <1>3
  <1>5. \A i \in 1..n : after[i + 1] = Read(after[i], rest[i])
    BY <1>1, <1>2, <1>3
  <1>6. \A i \in 1..(n + 1) : IsPrefix(after[i].delivered, d.delivered)
    BY <1>1, <1>2, <1>3
  <1>7. Runs(Read(c, Head(bytes)), rest, d)
    BY <1>1, <1>3, <1>4, <1>5, <1>6 DEF Runs
  <1> QED
    BY <1>7 DEF rest

LEMMA RunsLast ==
  ASSUME NEW S, NEW c \in Configs, NEW d \in Configs, NEW e \in Configs,
         NEW bytes \in Seq(S), NEW more \in Seq(S), Runs(c, bytes, d),
         Len(more) = Len(bytes) + 1, \A i \in 1..Len(bytes) : more[i] = bytes[i],
         e = Read(d, more[Len(bytes) + 1]), IsPrefix(d.delivered, e.delivered)
  PROVE  Runs(c, more, e)
  <1> DEFINE n == Len(bytes)
  <1>1. n \in Nat
    BY LenProperties
  <1>2. PICK st \in [1..(n + 1) -> Configs] :
          /\ st[1] = c /\ st[n + 1] = d
          /\ \A i \in 1..n : st[i + 1] = Read(st[i], bytes[i])
          /\ \A i \in 1..(n + 1) : IsPrefix(st[i].delivered, d.delivered)
    BY DEF Runs
  <1> DEFINE on == [i \in 1..(n + 2) |-> IF i = n + 2 THEN e ELSE st[i]]
  <1> HIDE DEF n
  <1>3. /\ on \in [1..(n + 2) -> Configs] /\ on[n + 2] = e
        /\ \A i \in 1..(n + 1) : on[i] = st[i]
    BY <1>1, <1>2
  <1> HIDE DEF on
  <1>4. Len(more) = n + 1 /\ \A i \in 1..n : more[i] = bytes[i]
    BY DEF n
  <1>5. on[1] = c
    BY <1>1, <1>2, <1>3
  <1>6. \A i \in 1..(n + 1) : on[i + 1] = Read(on[i], more[i])
    <2> SUFFICES ASSUME NEW i \in 1..(n + 1)
                 PROVE  on[i + 1] = Read(on[i], more[i])
      OBVIOUS
    <2>1. CASE i = n + 1
      BY <1>1, <1>2, <1>3, <2>1 DEF n
    <2>2. CASE i # n + 1
      <3>1. i \in 1..n /\ i + 1 \in 1..(n + 1)
        BY <1>1, <2>2
      <3> QED
        BY <1>2, <1>3, <1>4, <3>1
    <2> QED
      BY <2>1, <2>2
  <1>7. \A i \in 1..(n + 2) : IsPrefix(on[i].delivered, e.delivered)
    <2> SUFFICES ASSUME NEW i \in 1..(n + 2)
                 PROVE  IsPrefix(on[i].delivered, e.delivered)
      OBVIOUS
    <2>1. e.delivered \in Seq(Chars) /\ d.delivered \in Seq(Chars)
      BY DEF Configs
    <2>2. CASE i = n + 2
      BY <1>3, <2>1, <2>2, PrefixRefl
    <2>3. CASE i # n + 2
      <3>1. i \in 1..(n + 1)
        BY <1>1, <2>3
      <3>2. st[i].delivered \in Seq(Chars) /\ on[i] = st[i]
        BY <1>2, <1>3, <3>1 DEF Configs
      <3> QED
        BY <1>2, <2>1, <3>1, <3>2, PrefixTrans
    <2> QED
      BY <2>2, <2>3
  <1>8. Len(more) + 1 = n + 2
    BY <1>1, <1>4
  <1> QED
    BY <1>1, <1>3, <1>4, <1>5, <1>6, <1>7, <1>8 DEF Runs

LEMMA RunsFar ==
  ASSUME NEW c \in Configs, NEW bytes, NEW d, NEW n \in Nat, Len(bytes) = n, Runs(c, bytes, d)
  PROVE  d \in Configs /\ IsPrefix(c.delivered, d.delivered)
  BY DEF Runs

-----------------------------------------------------------------------------
(* Types.  *)

LEMMA CharType ==
  ASSUME NEW k \in {"a", "A", "7", "*", "newline", "console"},
         NEW with \in SUBSET (Flags \union {"PAD"})
  PROVE  <<Char(k, with)>> \in Seq(Chars)
  <1>1. Char(k, with) \in Chars
    BY DEF Char, Chars
  <1> QED
    BY <1>1

LEMMA InProcessType ==
  ASSUME NEW k, NEW with \in SUBSET (Flags \union {"PAD"})
  PROVE  in_process(k, with) \in Seq(Chars)
  <1>1. CASE k \in {"a", "A", "7", "*"}
    BY <1>1, CharType DEF in_process
  <1>2. CASE k \notin {"a", "A", "7", "*"}
    <2>1. /\ <<Char("newline", {})>> \in Seq(Chars) /\ <<Char("console", {})>> \in Seq(Chars)
          /\ <<>> \in Seq(Chars)
      BY CharType
    <2>2. \/ in_process(k, with) = <<Char("newline", {})>>
          \/ in_process(k, with) = <<Char("console", {})>>
          \/ in_process(k, with) = <<>>
      BY <1>2 DEF in_process
    <2> QED
      BY <2>1, <2>2
  <1> QED
    BY <1>1, <1>2

LEMMA ReceivedType ==
  ASSUME NEW k, NEW makes \in BOOLEAN, NEW with \in SUBSET Flags, NEW lights
  PROVE  Received(k, makes, with, lights) \in Seq(Chars)
  <1>1. with \union {"PAD" : p \in {k} \cap Pad} \in SUBSET (Flags \union {"PAD"})
    OBVIOUS
  <1> QED
    BY <1>1, InProcessType DEF Received

LEMMA AfterTypes ==
  ASSUME NEW k, NEW makes \in BOOLEAN, NEW with \in SUBSET Flags,
         NEW lights \in SUBSET Locks
  PROVE  /\ FlagsAfter(k, makes, with) \in SUBSET Flags
         /\ LocksAfter(k, makes, lights) \in SUBSET Locks
         /\ Toggled(k, lights) \in SUBSET Locks
  <1>1. Toggled(k, lights) \in SUBSET Locks
    BY DEF Toggled
  <1>2. ASSUME k \in Modifiers PROVE Flag(k) \in Flags
    BY <1>2 DEF Flag, Modifiers, Flags
  <1> QED
    BY <1>1, <1>2 DEF FlagsAfter, LocksAfter

LEMMA ConfigType ==
  ASSUME NEW at \in Points, NEW n \in 0..5, NEW with \in SUBSET Flags,
         NEW lights \in SUBSET Locks, NEW text \in Seq(Chars)
  PROVE  /\ Config(at, n, with, lights, text) \in Configs
         /\ Config(at, n, with, lights, text).at = at
         /\ Config(at, n, with, lights, text).parsed = n
         /\ Config(at, n, with, lights, text).flags = with
         /\ Config(at, n, with, lights, text).locks = lights
         /\ Config(at, n, with, lights, text).delivered = text
  BY DEF Config, Configs

LEMMA ConfigParts ==
  ASSUME NEW c \in Configs
  PROVE  /\ c.at \in Points /\ c.parsed \in 0..5 /\ c.flags \in SUBSET Flags
         /\ c.locks \in SUBSET Locks /\ c.delivered \in Seq(Chars)
  BY DEF Configs

LEMMA DecodedType ==
  ASSUME NEW c \in Configs, NEW code \in Int, NEW e0 \in BOOLEAN
  PROVE  /\ Decoded(c, code, e0) \in Configs
         /\ IsPrefix(c.delivered, Decoded(c, code, e0).delivered)
  <1> DEFINE k == KeyOf(code, e0, c.flags, c.locks)
             makes == code < 128
             with == FlagsAfter(k, makes, c.flags)
             lights == LocksAfter(k, makes, c.locks)
             more == Received(k, makes, with, lights)
  <1>1. makes \in BOOLEAN
    OBVIOUS
  <1> HIDE DEF k, makes
  <1>2. with \in SUBSET Flags /\ lights \in SUBSET Locks
    BY <1>1, AfterTypes, ConfigParts
  <1> HIDE DEF with, lights
  <1>3. more \in Seq(Chars)
    BY <1>1, <1>2, ReceivedType
  <1> HIDE DEF more
  <1>4. /\ c.delivered \o more \in Seq(Chars)
        /\ IsPrefix(c.delivered, c.delivered \o more)
    BY <1>3, ConfigParts, PrefixConcat
  <1>5. "first" \in Points /\ 0 \in 0..5
    BY DEF Points
  <1>6. Decoded(c, code, e0) = Config("first", 0, with, lights, c.delivered \o more)
    BY DEF Decoded, k, makes, with, lights, more
  <1> DEFINE text == c.delivered \o more
             d == Config("first", 0, with, lights, text)
  <1>7. text \in Seq(Chars) /\ IsPrefix(c.delivered, text)
    BY <1>4
  <1> HIDE DEF text
  <1>8. d \in Configs /\ d.delivered = text
    BY <1>2, <1>7, <1>5, ConfigType
  <1> HIDE DEF d
  <1>9. Decoded(c, code, e0) = d
    BY <1>6 DEF d, text
  <1> QED
    BY <1>7, <1>8, <1>9

LEMMA AtType ==
  ASSUME NEW c \in Configs, NEW point \in Points, NEW n \in 0..5
  PROVE  /\ Config(point, n, c.flags, c.locks, c.delivered) \in Configs
         /\ At(c, point) \in Configs /\ At(c, point).at = point /\ At(c, point).parsed = 0
         /\ At(c, point).flags = c.flags /\ At(c, point).locks = c.locks
         /\ At(c, point).delivered = c.delivered
         /\ IsPrefix(c.delivered, At(c, point).delivered)
         /\ IsPrefix(c.delivered, Config(point, n, c.flags, c.locks, c.delivered).delivered)
  <1>1. 0 \in 0..5
    OBVIOUS
  <1> QED
    BY <1>1, ConfigParts, ConfigType, PrefixRefl DEF At

LEMMA ReadType ==
  ASSUME NEW c \in Configs, NEW b \in Byte
  PROVE  Read(c, b) \in Configs /\ IsPrefix(c.delivered, Read(c, b).delivered)
  <1>1. b \in Int /\ \hE1 \in Int /\ TRUE \in BOOLEAN /\ FALSE \in BOOLEAN
    BY DEF Byte
  <1>2. {"pause", "extended", "print", "print_end", "unprint", "unprint_end", "lost"}
          \subseteq Points
    BY DEF Points
  <1>3. c.parsed \in 0..5 /\ c.delivered \in Seq(Chars) /\ c.at \in Points
    BY ConfigParts
  <1>4. c.parsed < 5 => c.parsed + 1 \in 0..5
    BY <1>3
  <1>5. \/ \E point \in Points : Read(c, b) = At(c, point)
        \/ \E n \in 0..5 : Read(c, b) = Config("pause", n, c.flags, c.locks, c.delivered)
        \/ \E e0 \in BOOLEAN : Read(c, b) = Decoded(c, b, e0)
        \/ Read(c, b) = Decoded(c, \hE1, FALSE)
        \/ Read(c, b) = c
    <2>1. CASE c.at = "first"
      <3>1. CASE b = \hE1
        <4>1. Read(c, b) = Config("pause", 1, c.flags, c.locks, c.delivered)
          BY <2>1, <3>1, Zenon, ReadAtFirst
        <4>2. 1 \in 0..5
          OBVIOUS
        <4> QED
          BY <4>1, <4>2
      <3>2. CASE b = \hE0
        <4>1. Read(c, b) = At(c, "extended")
          BY <2>1, <3>2, ReadAtFirst
        <4> QED
          BY <1>2, <4>1
      <3>3. CASE b # \hE1 /\ b # \hE0
        <4>1. Read(c, b) = Decoded(c, b, FALSE)
          BY <2>1, <3>3, ReadAtFirst
        <4> QED
          BY <1>1, <4>1
      <3> QED
        BY <3>1, <3>2, <3>3
    <2>2. CASE c.at = "pause"
      <3>1. CASE b # PauseCode[c.parsed + 1]
        BY <2>2, <3>1, ReadAtPause, Zenon
      <3>2. CASE b = PauseCode[c.parsed + 1] /\ c.parsed < 5
        <4>1. Read(c, b) = Config("pause", c.parsed + 1, c.flags, c.locks, c.delivered)
          BY <2>2, <3>2, ReadAtPause, Zenon
        <4> QED
          BY <1>4, <3>2, <4>1, Zenon
      <3>3. CASE b = PauseCode[c.parsed + 1] /\ ~(c.parsed < 5)
        <4>1. Read(c, b) = At(c, "lost")
          BY <2>2, <3>3, ReadAtPause, Zenon
        <4> QED
          BY <1>2, <4>1
      <3> QED
        BY <3>1, <3>2, <3>3, Zenon
    <2>3. CASE c.at = "extended"
      BY <1>1, <1>2, <2>3, ReadAtExtended
    <2>4. CASE c.at \in {"print", "unprint"}
      <3>1. \/ Read(c, b) = At(c, "print_end") \/ Read(c, b) = At(c, "unprint_end")
            \/ Read(c, b) = At(c, "lost") \/ Read(c, b) = Decoded(c, b, FALSE)
        <4>1. c.at = "print" \/ c.at = "unprint"
          BY <2>4
        <4> QED
          BY <4>1, ReadAtPrint, ReadAtUnprint
      <3> QED
        BY <1>1, <1>2, <3>1
    <2>5. CASE c.at \in {"print_end", "unprint_end"}
      <3>1. Read(c, b) = At(c, "lost") \/ Read(c, b) = Decoded(c, b, TRUE)
        <4>1. c.at = "print_end" \/ c.at = "unprint_end"
          BY <2>5
        <4> QED
          BY <4>1, ReadAtPrintEnd, ReadAtUnprintEnd
      <3> QED
        BY <1>1, <1>2, <3>1
    <2>6. CASE c.at = "lost"
      BY <2>6, ReadAtLost
    <2> QED
      BY <1>3, <2>1, <2>2, <2>3, <2>4, <2>5, <2>6 DEF Points
  <1>6. IsPrefix(c.delivered, c.delivered)
    BY <1>3, PrefixRefl
  <1>7. \A point \in Points : /\ At(c, point) \in Configs
                              /\ IsPrefix(c.delivered, At(c, point).delivered)
    <2>1. 0 \in 0..5
      OBVIOUS
    <2> QED
      BY <2>1, AtType
  <1>8. \A n \in 0..5 :
          LET d == Config("pause", n, c.flags, c.locks, c.delivered)
          IN d \in Configs /\ IsPrefix(c.delivered, d.delivered)
    BY <1>2, AtType
  <1>9. \A code \in Int : \A e0 \in BOOLEAN :
          /\ Decoded(c, code, e0) \in Configs
          /\ IsPrefix(c.delivered, Decoded(c, code, e0).delivered)
    BY DecodedType
  <1> DEFINE r == Read(c, b)
  <1>10. ASSUME NEW point \in Points, r = At(c, point)
         PROVE  r \in Configs /\ IsPrefix(c.delivered, r.delivered)
    BY <1>7, <1>10, Zenon
  <1>11. ASSUME NEW n \in 0..5, r = Config("pause", n, c.flags, c.locks, c.delivered)
         PROVE  r \in Configs /\ IsPrefix(c.delivered, r.delivered)
    BY <1>8, <1>11, Zenon
  <1>12. ASSUME NEW code \in Int, NEW e0 \in BOOLEAN, r = Decoded(c, code, e0)
         PROVE  r \in Configs /\ IsPrefix(c.delivered, r.delivered)
    BY <1>9, <1>12, Zenon
  <1>13. ASSUME r = c
         PROVE  r \in Configs /\ IsPrefix(c.delivered, r.delivered)
    BY <1>6, <1>13, Zenon
  <1> HIDE DEF r
  <1>14. \/ \E point \in Points : r = At(c, point)
         \/ \E n \in 0..5 : r = Config("pause", n, c.flags, c.locks, c.delivered)
         \/ \E e0 \in BOOLEAN : r = Decoded(c, b, e0)
         \/ r = Decoded(c, \hE1, FALSE)
         \/ r = c
    BY <1>5 DEF r
  <1>15. r \in Configs /\ IsPrefix(c.delivered, r.delivered)
    <2>1. CASE \E point \in Points : r = At(c, point)
      BY <1>10, <2>1, Zenon
    <2>2. CASE \E n \in 0..5 : r = Config("pause", n, c.flags, c.locks, c.delivered)
      BY <1>11, <2>2, Zenon
    <2>3. CASE \E e0 \in BOOLEAN : r = Decoded(c, b, e0)
      BY <1>1, <1>12, <2>3, Zenon
    <2>4. CASE r = Decoded(c, \hE1, FALSE)
      BY <1>1, <1>12, <2>4, Zenon
    <2> QED
      BY <1>13, <1>14, <2>1, <2>2, <2>3, <2>4
  <1> QED
    BY <1>15 DEF r

-----------------------------------------------------------------------------
(* Codes, byte by byte.  *)

LEMMA BytesOf ==
  ASSUME NEW a \in Byte, NEW b \in Byte
  PROVE  /\ <<a>> \in Seq(Byte) /\ Len(<<a>>) = 1 /\ <<a>>[1] = a
         /\ <<a, b>> \in Seq(Byte) /\ <<a>> \o <<b>> = <<a, b>>
         /\ <<>> \in Seq(Byte)
  <1>1. <<a>> \in Seq(Byte) /\ Len(<<a>>) = 1 /\ <<a>>[1] = a
    OBVIOUS
  <1>2. <<b>> \in Seq(Byte) /\ Len(<<b>>) = 1 /\ <<b>>[1] = b
    OBVIOUS
  <1>3. <<a, b>> \in Seq(Byte)
    OBVIOUS
  <1>4. <<>> \in Seq(Byte)
    OBVIOUS
  <1>5. <<a>> \o <<b>> = <<a, b>>
    <2> DEFINE s == <<a>> \o <<b>>
               t == <<a, b>>
    <2>1. s \in Seq(Byte) /\ Len(s) = 2 /\ s[1] = a /\ s[2] = b
      BY <1>1, <1>2, ConcatProperties
    <2>2. t \in Seq(Byte) /\ Len(t) = 2 /\ t[1] = a /\ t[2] = b
      BY <1>3
    <2> HIDE DEF s, t
    <2>3. \A i \in 1..Len(s) : s[i] = t[i]
      BY <2>1, <2>2
    <2>4. s = t
      BY <2>1, <2>2, <2>3, SeqEqual
    <2> QED
      BY <2>4 DEF s, t
  <1> QED
    BY <1>1, <1>2, <1>3, <1>4, <1>5

LEMMA FourBytes ==
  ASSUME NEW a \in Byte, NEW b \in Byte, NEW c \in Byte, NEW d \in Byte
  PROVE  <<a, b>> \o <<c, d>> = <<a, b, c, d>> /\ <<a, b, c, d>> \in Seq(Byte)
  <1>1. <<a, b>> \in Seq(Byte) /\ Len(<<a, b>>) = 2 /\ <<a, b>>[1] = a /\ <<a, b>>[2] = b
    OBVIOUS
  <1>2. <<c, d>> \in Seq(Byte) /\ Len(<<c, d>>) = 2 /\ <<c, d>>[1] = c /\ <<c, d>>[2] = d
    OBVIOUS
  <1> DEFINE s == <<a, b>> \o <<c, d>>
             t == <<a, b, c, d>>
  <1>3. /\ s \in Seq(Byte) /\ Len(s) = 4
        /\ s[1] = a /\ s[2] = b /\ s[3] = c /\ s[4] = d
    BY <1>1, <1>2, ConcatProperties
  <1>4. /\ t \in Seq(Byte) /\ Len(t) = 4
        /\ t[1] = a /\ t[2] = b /\ t[3] = c /\ t[4] = d
    OBVIOUS
  <1> HIDE DEF s, t
  <1>5. \A i \in 1..Len(s) : s[i] = t[i]
    BY <1>3, <1>4
  <1>6. s = t
    BY <1>3, <1>4, <1>5, SeqEqual
  <1> QED
    BY <1>4, <1>6 DEF s, t

LEMMA TakesNothing ==
  ASSUME NEW d \in Configs
  PROVE  Takes(d, <<>>, d)
  <1>1. \A s \in Seq(Byte) : s \o <<>> = s
    BY ConcatEmptySeq
  <1> QED
    BY <1>1 DEF Takes

LEMMA TakesByte ==
  ASSUME NEW d \in Configs, NEW a \in Byte
  PROVE  Read(d, a) \in Configs /\ Takes(d, <<a>>, Read(d, a))
  <1>1. Read(d, a) \in Configs /\ IsPrefix(d.delivered, Read(d, a).delivered)
    BY ReadType
  <1> DEFINE e == Read(d, a)
             code == <<a>>
  <1>2. code \in Seq(Byte) /\ Len(code) = 1 /\ code[1] = a
    BY BytesOf
  <1> HIDE DEF code
  <1>3. ASSUME NEW c \in Configs, NEW s \in Seq(Byte), Runs(c, s, d)
        PROVE  Runs(c, s \o code, e)
    <2> DEFINE more == s \o code
    <2>1. Len(s) \in Nat
      BY LenProperties
    <2>2. /\ more \in Seq(Byte) /\ Len(more) = Len(s) + 1
          /\ \A i \in 1..(Len(s) + 1) : more[i] = IF i <= Len(s) THEN s[i] ELSE code[i - Len(s)]
      <3>1. /\ more \in Seq(Byte) /\ Len(more) = Len(s) + Len(code)
            /\ \A i \in 1..(Len(s) + Len(code)) :
                 more[i] = IF i <= Len(s) THEN s[i] ELSE code[i - Len(s)]
        BY <1>2, ConcatProperties
      <3> QED
        BY <1>2, <3>1
    <2> HIDE DEF more
    <2>3. \A i \in 1..Len(s) : more[i] = s[i]
      BY <2>1, <2>2
    <2>4. more[Len(s) + 1] = a
      <3>1. Len(s) + 1 \in 1..(Len(s) + 1) /\ ~(Len(s) + 1 <= Len(s)) /\ Len(s) + 1 - Len(s) = 1
        BY <2>1
      <3> QED
        BY <1>2, <2>2, <3>1
    <2>5. e = Read(d, more[Len(s) + 1])
      BY <2>4
    <2>6. e \in Configs /\ IsPrefix(d.delivered, e.delivered)
      BY <1>1
    <2> HIDE DEF e
    <2>7. Runs(c, more, e)
      BY <1>3, <2>2, <2>3, <2>5, <2>6, RunsLast
    <2> QED
      BY <2>7 DEF more
  <1> QED
    BY <1>1, <1>3 DEF Takes, code

LEMMA TakesBoth ==
  ASSUME NEW d, NEW e, NEW f, NEW u \in Seq(Byte), NEW v \in Seq(Byte),
         Takes(d, u, e), Takes(e, v, f)
  PROVE  Takes(d, u \o v, f)
  <1> SUFFICES ASSUME NEW c \in Configs, NEW s \in Seq(Byte), Runs(c, s, d)
               PROVE  Runs(c, s \o (u \o v), f)
    BY DEF Takes
  <1>1. Runs(c, s \o u, e) /\ s \o u \in Seq(Byte)
    BY ConcatProperties DEF Takes
  <1>2. Runs(c, (s \o u) \o v, f)
    BY <1>1 DEF Takes
  <1>3. (s \o u) \o v = s \o (u \o v)
    BY ConcatAssociative
  <1> QED
    BY <1>2, <1>3

LEMMA TakesPair ==
  ASSUME NEW d \in Configs, NEW a \in Byte, NEW b \in Byte
  PROVE  Read(Read(d, a), b) \in Configs /\ Takes(d, <<a, b>>, Read(Read(d, a), b))
  <1>1. Read(d, a) \in Configs /\ Takes(d, <<a>>, Read(d, a))
    BY TakesByte
  <1> DEFINE e == Read(d, a)
  <1> HIDE DEF e
  <1>2. Read(e, b) \in Configs /\ Takes(e, <<b>>, Read(e, b))
    BY <1>1, TakesByte DEF e
  <1>3. <<a>> \in Seq(Byte) /\ <<b>> \in Seq(Byte) /\ <<a>> \o <<b>> = <<a, b>>
    BY BytesOf
  <1>4. Takes(d, <<a>>, e)
    BY <1>1 DEF e
  <1>5. Takes(d, <<a>> \o <<b>>, Read(e, b))
    BY <1>2, <1>3, <1>4, TakesBoth
  <1> QED
    BY <1>2, <1>3, <1>5 DEF e

-----------------------------------------------------------------------------
(* The keys.  *)

OtherKeys == Keys \ {"PAUSE", "PRINTSCREEN"}

(* The row of keymap says what the key is.  *)
Spells(k, row, e0) ==
  IF e0 THEN row[3] = k
  ELSE IF k = "a" THEN row[1] = "a" /\ row[2] = "A"
  ELSE IF k = "PAD_7" THEN row[1] = "PAD_HOME" /\ row[2] = "7"
  ELSE row[1] = k /\ row[2] = k

Shift(with) == with \cap Shifts # {}

(* What the row says of a key with the flags and the lights.  *)
Symbol(k, with, lights) ==
  IF k = "a" THEN (IF Shift(with) # ("CAPS_LOCK" \in lights) THEN "A" ELSE "a")
  ELSE IF k = "PAD_7" THEN (IF Shift(with) THEN "7" ELSE "PAD_HOME")
  ELSE k

(* A code as the keyboard sends it.  *)
Spelt(code, e0) == IF e0 THEN <<\hE0, code>> ELSE <<code>>

(* The code of the key, and whether E0 comes before it.  *)
HasCode(k, code, e0) ==
  /\ k \in OtherKeys /\ code \in 0..127 /\ e0 \in BOOLEAN
  /\ \A down : Codes(k, down) = (IF k = "HOME" THEN Extended(code, down)
                                 ELSE IF e0 THEN Escaped(code) ELSE Plain(code))
  /\ k = "HOME" => e0
  /\ Spells(k, keymap(code), e0)
  /\ code \notin {\h37, \h60, \h61} /\ (e0 => code # \h2A /\ k \notin {"a", "PAD_7"})

Coded(k) == \E code, e0 : HasCode(k, code, e0)

LEMMA KeyCodes ==
  ASSUME NEW k \in OtherKeys
  PROVE  Coded(k)
  <1>1. HasCode("ENTER", \h1C, FALSE)
    BY DEF HasCode, Codes, keymap, Spells, OtherKeys, Keys
  <1>2. HasCode("PAD_ENTER", \h1C, TRUE)
    BY DEF HasCode, Codes, keymap, Spells, OtherKeys, Keys
  <1>3. HasCode("CTRL_L", \h1D, FALSE)
    BY DEF HasCode, Codes, keymap, Spells, OtherKeys, Keys
  <1>4. HasCode("CTRL_R", \h1D, TRUE)
    BY DEF HasCode, Codes, keymap, Spells, OtherKeys, Keys
  <1>5. HasCode("a", \h1E, FALSE)
    BY DEF HasCode, Codes, keymap, Spells, OtherKeys, Keys
  <1>6. HasCode("SHIFT_L", \h2A, FALSE)
    BY DEF HasCode, Codes, keymap, Spells, OtherKeys, Keys
  <1>7. HasCode("SHIFT_R", \h36, FALSE)
    BY DEF HasCode, Codes, keymap, Spells, OtherKeys, Keys
  <1>8. HasCode("ALT_L", \h38, FALSE)
    BY DEF HasCode, Codes, keymap, Spells, OtherKeys, Keys
  <1>9. HasCode("ALT_R", \h38, TRUE)
    BY DEF HasCode, Codes, keymap, Spells, OtherKeys, Keys
  <1>10. HasCode("CAPS_LOCK", \h3A, FALSE)
    BY DEF HasCode, Codes, keymap, Spells, OtherKeys, Keys
  <1>11. HasCode("NUM_LOCK", \h45, FALSE)
    BY DEF HasCode, Codes, keymap, Spells, OtherKeys, Keys
  <1>12. HasCode("SCROLL_LOCK", \h46, FALSE)
    BY DEF HasCode, Codes, keymap, Spells, OtherKeys, Keys
  <1>13. HasCode("F1", \h3B, FALSE)
    BY DEF HasCode, Codes, keymap, Spells, OtherKeys, Keys
  <1>14. HasCode("PAD_7", \h47, FALSE)
    BY DEF HasCode, Codes, keymap, Spells, OtherKeys, Keys
  <1>15. HasCode("HOME", \h47, TRUE)
    BY DEF HasCode, Codes, keymap, Spells, OtherKeys, Keys
  <1>17. \/ k = "ENTER" \/ k = "PAD_ENTER" \/ k = "CTRL_L" \/ k = "CTRL_R" \/ k = "a"
         \/ k = "SHIFT_L" \/ k = "SHIFT_R" \/ k = "ALT_L" \/ k = "ALT_R"
         \/ k = "CAPS_LOCK" \/ k = "NUM_LOCK" \/ k = "SCROLL_LOCK"
         \/ k = "F1" \/ k = "PAD_7" \/ k = "HOME"
    BY DEF OtherKeys, Keys
  <1>19. Coded("ENTER") /\ Coded("PAD_ENTER") /\ Coded("CTRL_L") /\ Coded("CTRL_R")
    BY <1>1, <1>2, <1>3, <1>4, Zenon DEF Coded
  <1>20. Coded("a") /\ Coded("SHIFT_L") /\ Coded("SHIFT_R") /\ Coded("ALT_L")
    BY <1>5, <1>6, <1>7, <1>8, Zenon DEF Coded
  <1>21. Coded("ALT_R") /\ Coded("CAPS_LOCK") /\ Coded("NUM_LOCK") /\ Coded("SCROLL_LOCK")
    BY <1>9, <1>10, <1>11, <1>12, Zenon DEF Coded
  <1>22. Coded("F1") /\ Coded("PAD_7") /\ Coded("HOME")
    BY <1>13, <1>14, <1>15, Zenon DEF Coded
  <1> QED
    BY <1>17, <1>19, <1>20, <1>21, <1>22

LEMMA HeldIs ==
  ASSUME NEW down, NEW x
  PROVE  x \in Held(down) <=> \/ x \in down /\ x \in Shifts \union Controls
                              \/ x = "ALT" /\ down \cap Alts # {}
  BY DEF Held

LEMMA HeldType ==
  ASSUME NEW down
  PROVE  Held(down) \in SUBSET Flags
  BY HeldIs DEF Flags

LEMMA MeaningType ==
  ASSUME NEW k, NEW down, NEW lights
  PROVE  Meaning(k, down, lights) \in Seq(Chars)
  <1> DEFINE with == Held(down)
  <1>1. with \in SUBSET (Flags \union {"PAD"})
        /\ with \union {"PAD"} \in SUBSET (Flags \union {"PAD"})
        /\ {} \in SUBSET (Flags \union {"PAD"})
    BY HeldType
  <1> HIDE DEF with
  <1>2. /\ <<Char("A", with)>> \in Seq(Chars) /\ <<Char("a", with)>> \in Seq(Chars)
        /\ <<Char("7", with)>> \in Seq(Chars)
        /\ <<Char("7", with \union {"PAD"})>> \in Seq(Chars)
        /\ <<Char("newline", {})>> \in Seq(Chars) /\ <<Char("console", {})>> \in Seq(Chars)
        /\ <<>> \in Seq(Chars)
    BY <1>1, CharType
  <1>3. \/ Meaning(k, down, lights) = <<Char("A", with)>>
        \/ Meaning(k, down, lights) = <<Char("a", with)>>
        \/ Meaning(k, down, lights) = <<Char("7", with)>>
        \/ Meaning(k, down, lights) = <<Char("7", with \union {"PAD"})>>
        \/ Meaning(k, down, lights) = <<Char("newline", {})>>
        \/ Meaning(k, down, lights) = <<Char("console", {})>>
        \/ Meaning(k, down, lights) = <<>>
    BY DEF Meaning, with
  <1> QED
    BY <1>2, <1>3

LEMMA HeldShift ==
  ASSUME NEW down, NEW k, k \notin Shifts
  PROVE  Shift(Held(down)) <=> Shifted(down \union {k})
  <1>1. \A x \in Shifts : x \in Held(down) <=> x \in down
    BY HeldIs DEF Shifts
  <1> QED
    BY <1>1 DEF Shift, Shifted

LEMMA HeldMake ==
  ASSUME NEW down, NEW k
  PROVE  FlagsAfter(k, TRUE, Held(down)) = Held(down \union {k})
  <1>1. CASE k \notin Modifiers
    <2>1. \A x : x \in Held(down \union {k}) <=> x \in Held(down)
      BY <1>1, HeldIs DEF Modifiers, Alts
    <2>2. Held(down \union {k}) = Held(down)
      BY <2>1
    <2> QED
      BY <1>1, <2>2 DEF FlagsAfter
  <1>2. CASE k \in Modifiers
    <2>1. \A x : x \in Held(down \union {k}) <=> x \in Held(down) \/ x = Flag(k)
      BY <1>2, HeldIs DEF Modifiers, Shifts, Controls, Alts, Flag
    <2>2. Held(down \union {k}) = Held(down) \union {Flag(k)}
      BY <2>1
    <2> QED
      BY <1>2, <2>2 DEF FlagsAfter
  <1> QED
    BY <1>1, <1>2

LEMMA HeldBreak ==
  ASSUME NEW down, NEW k,
         ~("ALT" \in Held(down \ {k}) /\ k \in Alts)
  PROVE  FlagsAfter(k, FALSE, Held(down)) = Held(down \ {k})
  <1>1. CASE k \notin Modifiers
    <2>1. \A x : x \in Held(down \ {k}) <=> x \in Held(down)
      BY <1>1, HeldIs DEF Modifiers, Alts
    <2>2. Held(down \ {k}) = Held(down)
      BY <2>1
    <2> QED
      BY <1>1, <2>2 DEF FlagsAfter
  <1>2. CASE k \in Modifiers
    <2>1. \A x : x \in Held(down \ {k}) <=> x \in Held(down) /\ x # Flag(k)
      BY <1>2, HeldIs DEF Modifiers, Shifts, Controls, Alts, Flag
    <2>2. Held(down \ {k}) = Held(down) \ {Flag(k)}
      BY <2>1
    <2> QED
      BY <1>2, <2>2 DEF FlagsAfter
  <1> QED
    BY <1>1, <1>2

LEMMA ColumnIs ==
  ASSUME NEW row, NEW e0, ~e0, NEW with, NEW lights
  PROVE  /\ row[1] \notin Letters =>
              Column(row, e0, with, lights) = IF Shift(with) THEN 2 ELSE 1
         /\ row[1] \in Letters =>
              Column(row, e0, with, lights) =
                IF Shift(with) # ("CAPS_LOCK" \in lights) THEN 2 ELSE 1
         /\ Column(row, e0, with, lights) \in {1, 2}
  <1> DEFINE lock == "CAPS_LOCK" \in lights /\ row[1] \in Letters
             caps == Shift(with) # lock
  <1>1. Column(row, e0, with, lights) = IF caps THEN 2 ELSE 1
    BY Zenon DEF Column, Shift
  <1>2. row[1] \notin Letters => lock = FALSE
    OBVIOUS
  <1>3. row[1] \in Letters => lock = ("CAPS_LOCK" \in lights)
    OBVIOUS
  <1>4. Shift(with) \in BOOLEAN
    BY DEF Shift
  <1>5. row[1] \notin Letters => caps = Shift(with)
    BY <1>2, <1>4
  <1>6. row[1] \in Letters => caps = (Shift(with) # ("CAPS_LOCK" \in lights))
    BY <1>3
  <1> HIDE DEF lock, caps
  <1> QED
    BY <1>1, <1>5, <1>6

LEMMA KeyOfCode ==
  ASSUME NEW k, NEW code, NEW e0, HasCode(k, code, e0), NEW with, NEW lights
  PROVE  /\ KeyOf(code, e0, with, lights) = Symbol(k, with, lights)
         /\ KeyOf(code + 128, e0, with, lights) = Symbol(k, with, lights)
  <1>1. code % 128 = code /\ (code + 128) % 128 = code
    <2>1. code \in 0..127
      BY DEF HasCode
    <2> QED
      BY <2>1
  <1>2. keymap(code)[Column(keymap(code), e0, with, lights)] = Symbol(k, with, lights)
    <2> DEFINE row == keymap(code)
    <2>1. Spells(k, row, e0) /\ (e0 => k \notin {"a", "PAD_7"}) /\ e0 \in BOOLEAN
      BY DEF HasCode
    <2> HIDE DEF row
    <2> DEFINE n == Column(row, e0, with, lights)
    <2>2. CASE e0
      <3>1. n = 3
        BY <2>2, Zenon DEF Column
      <3>2. row[3] = k /\ k # "a" /\ k # "PAD_7"
        BY <2>1, <2>2 DEF Spells
      <3> HIDE DEF n
      <3>3. row[n] = Symbol(k, with, lights)
        BY <3>1, <3>2 DEF Symbol
      <3> QED
        BY <3>3 DEF n, row
    <2>3. CASE ~e0 /\ k = "a"
      <3>1. row[1] = "a" /\ row[2] = "A" /\ "a" \in Letters
        BY <2>1, <2>3 DEF Spells, Letters
      <3>2. n = IF Shift(with) # ("CAPS_LOCK" \in lights) THEN 2 ELSE 1
        BY <2>3, <3>1, ColumnIs
      <3>3. Symbol(k, with, lights) =
              IF Shift(with) # ("CAPS_LOCK" \in lights) THEN "A" ELSE "a"
        BY <2>3 DEF Symbol
      <3> DEFINE caps == Shift(with) # ("CAPS_LOCK" \in lights)
      <3> HIDE DEF n, caps
      <3>4. row[n] = Symbol(k, with, lights)
        <4>1. n = (IF caps THEN 2 ELSE 1) /\ Symbol(k, with, lights) = IF caps THEN "A" ELSE "a"
          BY <3>2, <3>3 DEF caps
        <4> QED
          BY <3>1, <4>1
      <3> QED
        BY <3>4 DEF n, row
    <2>4. CASE ~e0 /\ k = "PAD_7"
      <3>1. row[1] = "PAD_HOME" /\ row[2] = "7" /\ row[1] \notin Letters
        BY <2>1, <2>4 DEF Spells, Letters
      <3>2. n = IF Shift(with) THEN 2 ELSE 1
        BY <2>4, <3>1, ColumnIs
      <3>3. Symbol(k, with, lights) = IF Shift(with) THEN "7" ELSE "PAD_HOME"
        BY <2>4 DEF Symbol
      <3> HIDE DEF n
      <3>4. row[n] = Symbol(k, with, lights)
        BY <3>1, <3>2, <3>3
      <3> QED
        BY <3>4 DEF n, row
    <2>5. CASE ~e0 /\ k # "a" /\ k # "PAD_7"
      <3>1. row[1] = k /\ row[2] = k
        BY <2>1, <2>5 DEF Spells
      <3>2. n \in {1, 2}
        BY <2>5, ColumnIs
      <3> HIDE DEF n
      <3>3. row[n] = Symbol(k, with, lights)
        BY <2>5, <3>1, <3>2 DEF Symbol
      <3> QED
        BY <3>3 DEF n, row
    <2> QED
      BY <2>2, <2>3, <2>4, <2>5 DEF row
  <1> QED
    BY <1>1, <1>2 DEF KeyOf

LEMMA SymbolKind ==
  ASSUME NEW k, NEW with, NEW lights
  PROVE  \/ Symbol(k, with, lights) = k
         \/ /\ Symbol(k, with, lights) \notin Modifiers \union Locks
            /\ k \notin Modifiers \union Locks
  BY DEF Symbol, Modifiers, Shifts, Controls, Alts, Locks

LEMMA SameLights ==
  ASSUME NEW k, NEW s,
         s = k \/ (s \notin Modifiers \union Locks /\ k \notin Modifiers \union Locks),
         NEW lights \in SUBSET Locks
  PROVE  Toggled(s, lights) = Toggled(k, lights)
  <1>1. \A x : x \notin Locks => Toggled(x, lights) = lights
    BY DEF Toggled
  <1> QED
    BY <1>1

(* What arrives is what was meant.  *)
LEMMA SymbolMeans ==
  ASSUME NEW k \in OtherKeys, NEW down, NEW lights \in SUBSET Locks
  PROVE  Received(Symbol(k, Held(down), lights), TRUE, Held(down \union {k}),
                  Toggled(k, lights))
           = Meaning(k, down \union {k}, lights)
  <1> DEFINE s == Symbol(k, Held(down), lights)
             with == Held(down \union {k})
             after == Toggled(k, lights)
             pad == with \union {"PAD" : p \in {s} \cap Pad}
             shift == Shifted(down \union {k})
  <1>1. Received(s, TRUE, with, after) = in_process(OnPad(s, after), pad)
    BY DEF Received
  <1>2. s \notin Pad => pad = with
    OBVIOUS
  <1>3. k \notin Shifts => (Shift(Held(down)) <=> shift)
    BY HeldShift
  <1>4. k \notin Locks => after = lights
    BY DEF Toggled
  <1> DEFINE means == Meaning(k, down \union {k}, lights)
             letter == IF shift # ("CAPS_LOCK" \in lights) THEN "A" ELSE "a"
  <1>12. k = "a" => means = <<Char(letter, with)>>
    BY DEF Meaning
  <1>13. k = "PAD_7" /\ shift => means = <<Char("7", with)>>
    BY DEF Meaning
  <1>14. k = "PAD_7" /\ ~shift =>
           means = IF "NUM_LOCK" \in lights THEN <<Char("7", with \union {"PAD"})>> ELSE <<>>
    BY DEF Meaning
  <1>15. k \in {"ENTER", "PAD_ENTER"} => means = <<Char("newline", {})>>
    BY DEF Meaning
  <1>16. k = "F1" => means = IF "ALT" \in with THEN <<Char("console", {})>> ELSE <<>>
    BY DEF Meaning
  <1>17. k \notin {"a", "PAD_7", "ENTER", "PAD_ENTER", "F1"} => means = <<>>
    BY DEF Meaning
  <1>18. k = "a" => s = letter
    <2>1. k = "a" => Shift(Held(down)) = shift
      BY <1>3 DEF Shift, Shifts, Shifted
    <2>2. k = "a" => s = IF Shift(Held(down)) # ("CAPS_LOCK" \in lights) THEN "A" ELSE "a"
      BY DEF Symbol
    <2> QED
      BY <2>1, <2>2
  <1>19. letter \in {"a", "A"}
    OBVIOUS
  <1> SUFFICES Received(s, TRUE, with, after) = means
    OBVIOUS
  <1> HIDE DEF with, after, shift, means, letter
  <1>6. CASE k = "a"
    <2> HIDE DEF s
    <2>2. OnPad(s, after) = s /\ s \notin Pad /\ s \in {"a", "A"}
      BY <1>6, <1>18, <1>19 DEF OnPad, Pad
    <2>3. in_process(s, with) = <<Char(s, with)>>
      BY <2>2 DEF in_process
    <2> QED
      BY <1>1, <1>2, <1>6, <1>12, <1>18, <2>2, <2>3
  <1>7. CASE k = "PAD_7" /\ shift
    <2>1. s = "7"
      BY <1>3, <1>7 DEF Symbol, Shifts
    <2>2. OnPad(s, after) = "7" /\ s \notin Pad
      BY <2>1 DEF OnPad, Pad
    <2>3. in_process("7", with) = <<Char("7", with)>>
      BY DEF in_process
    <2> QED
      BY <1>1, <1>2, <1>7, <1>13, <2>2, <2>3
  <1>8. CASE k = "PAD_7" /\ ~shift
    <2>1. s = "PAD_HOME" /\ after = lights
      BY <1>3, <1>4, <1>8 DEF Symbol, Locks, Shifts
    <2>2. pad = with \union {"PAD"}
      BY <2>1 DEF Pad
    <2>3. CASE "NUM_LOCK" \in lights
      <3>1. OnPad(s, after) = "7"
        BY <2>1, <2>3 DEF OnPad
      <3>2. in_process("7", pad) = <<Char("7", pad)>>
        BY DEF in_process
      <3> QED
        BY <1>1, <1>8, <1>14, <2>2, <2>3, <3>1, <3>2
    <2>4. CASE "NUM_LOCK" \notin lights
      <3>1. OnPad(s, after) = "HOME"
        BY <2>1, <2>4 DEF OnPad
      <3>2. in_process("HOME", pad) = <<>>
        BY DEF in_process
      <3> QED
        BY <1>1, <1>8, <1>14, <2>4, <3>1, <3>2
    <2> QED
      BY <2>3, <2>4
  <1>9. CASE k \in {"ENTER", "PAD_ENTER"}
    <2>1. OnPad(s, after) = "ENTER"
      BY <1>9 DEF Symbol, OnPad
    <2>2. in_process("ENTER", pad) = <<Char("newline", {})>>
      BY DEF in_process
    <2> QED
      BY <1>1, <1>9, <1>15, <2>1, <2>2
  <1>10. CASE k = "F1"
    <2>1. OnPad(s, after) = "F1" /\ s \notin Pad
      BY <1>10 DEF Symbol, OnPad, Pad
    <2>2. in_process("F1", with) =
            IF "ALT" \in with THEN <<Char("console", {})>> ELSE <<>>
      BY DEF in_process
    <2> QED
      BY <1>1, <1>2, <1>10, <1>16, <2>1, <2>2
  <1>11. CASE k \notin {"a", "PAD_7", "ENTER", "PAD_ENTER", "F1"}
    <2>1. OnPad(s, after) = k
      BY <1>11 DEF Symbol, OnPad, OtherKeys, Keys
    <2>2. in_process(k, pad) = <<>>
      BY <1>11 DEF in_process, OtherKeys, Keys
    <2> QED
      BY <1>1, <1>11, <1>17, <2>1, <2>2
  <1> QED
    BY <1>6, <1>7, <1>8, <1>9, <1>10, <1>11

LEMMA SyncedType ==
  ASSUME NEW down, NEW lights \in SUBSET Locks, NEW text \in Seq(Chars)
  PROVE  /\ Synced(down, lights, text) \in Configs
         /\ Synced(down, lights, text).at = "first" /\ Synced(down, lights, text).parsed = 0
         /\ Synced(down, lights, text).flags = Held(down)
         /\ Synced(down, lights, text).locks = lights
         /\ Synced(down, lights, text).delivered = text
  <1>1. "first" \in Points /\ 0 \in 0..5
    BY DEF Points
  <1> QED
    BY <1>1, ConfigType, HeldType DEF Synced

(* A turn of the loop of keyboard_read for a make and for a break.  *)
LEMMA DecodedMakes ==
  ASSUME NEW c \in Configs, NEW code \in Int, NEW e0, code < 128,
         NEW k, k = KeyOf(code, e0, c.flags, c.locks)
  PROVE  Decoded(c, code, e0) =
           Config("first", 0, FlagsAfter(k, TRUE, c.flags), Toggled(k, c.locks),
                  c.delivered \o Received(k, TRUE, FlagsAfter(k, TRUE, c.flags),
                                          Toggled(k, c.locks)))
  <1>1. (code < 128) = TRUE
    OBVIOUS
  <1>2. LocksAfter(k, TRUE, c.locks) = Toggled(k, c.locks)
    BY DEF LocksAfter
  <1> DEFINE with(m) == FlagsAfter(k, m, c.flags)
             lights(m) == LocksAfter(k, m, c.locks)
             all(m) == Config("first", 0, with(m), lights(m),
                              c.delivered \o Received(k, m, with(m), lights(m)))
  <1>3. Decoded(c, code, e0) = all(code < 128)
    BY Zenon DEF Decoded
  <1>4. all(code < 128) = all(TRUE)
    BY <1>1, Zenon
  <1> QED
    BY <1>2, <1>3, <1>4, Zenon

LEMMA DecodedBreaks ==
  ASSUME NEW c \in Configs, NEW code \in Int, NEW e0, code >= 128,
         NEW k, k = KeyOf(code, e0, c.flags, c.locks)
  PROVE  Decoded(c, code, e0) =
           Config("first", 0, FlagsAfter(k, FALSE, c.flags), c.locks, c.delivered)
  <1>1. (code < 128) = FALSE
    OBVIOUS
  <1> DEFINE with(m) == FlagsAfter(k, m, c.flags)
             lights(m) == LocksAfter(k, m, c.locks)
             all(m) == Config("first", 0, with(m), lights(m),
                              c.delivered \o Received(k, m, with(m), lights(m)))
  <1>2. Decoded(c, code, e0) = all(code < 128)
    BY Zenon DEF Decoded
  <1>3. all(code < 128) = all(FALSE)
    BY <1>1, Zenon
  <1>4. lights(FALSE) = c.locks
    BY Zenon DEF LocksAfter
  <1>5. Received(k, FALSE, with(FALSE), lights(FALSE)) = <<>>
    BY Zenon DEF Received
  <1>6. c.delivered \o <<>> = c.delivered
    BY ConfigParts, ConcatEmptySeq
  <1>7. all(FALSE) = Config("first", 0, with(FALSE), c.locks, c.delivered)
    BY <1>4, <1>5, <1>6, Zenon
  <1> QED
    BY <1>2, <1>3, <1>7, Zenon

LEMMA MakeDecoded ==
  ASSUME NEW k, NEW code, NEW e0, HasCode(k, code, e0),
         NEW down, NEW lights \in SUBSET Locks, NEW text \in Seq(Chars), NEW c \in Configs,
         c.flags = Held(down), c.locks = lights, c.delivered = text
  PROVE  Decoded(c, code, e0) = Synced(down \union {k}, Toggled(k, lights),
                                       text \o Meaning(k, down \union {k}, lights))
  <1> DEFINE s == Symbol(k, Held(down), lights)
  <1>0. k \in OtherKeys
    BY DEF HasCode
  <1>1. KeyOf(code, e0, Held(down), lights) = s /\ s = Symbol(k, Held(down), lights)
    BY KeyOfCode
  <1>4. Received(s, TRUE, Held(down \union {k}), Toggled(k, lights))
          = Meaning(k, down \union {k}, lights)
    BY <1>0, SymbolMeans
  <1> HIDE DEF s
  <1>8. s = k \/ (s \notin Modifiers \union Locks /\ k \notin Modifiers \union Locks)
    BY <1>1, SymbolKind
  <1>2. FlagsAfter(s, TRUE, Held(down)) = Held(down \union {k})
    <2>1. FlagsAfter(s, TRUE, Held(down)) = FlagsAfter(k, TRUE, Held(down))
      BY <1>8 DEF FlagsAfter
    <2> QED
      BY <2>1, HeldMake
  <1>3. Toggled(s, lights) = Toggled(k, lights)
    BY <1>8, SameLights
  <1>5. code \in Int /\ code < 128
    BY DEF HasCode
  <1>6. s = KeyOf(code, e0, c.flags, c.locks)
    BY <1>1
  <1>7. Decoded(c, code, e0) =
          Config("first", 0, FlagsAfter(s, TRUE, c.flags), Toggled(s, c.locks),
                 c.delivered \o Received(s, TRUE, FlagsAfter(s, TRUE, c.flags),
                                         Toggled(s, c.locks)))
    BY <1>5, <1>6, DecodedMakes
  <1> QED
    BY <1>2, <1>3, <1>4, <1>7 DEF Synced

LEMMA BreakDecoded ==
  ASSUME NEW k, NEW code, NEW e0, HasCode(k, code, e0),
         NEW down, NEW lights \in SUBSET Locks, NEW text \in Seq(Chars), NEW c \in Configs,
         c.flags = Held(down), c.locks = lights, c.delivered = text,
         ~("ALT" \in Held(down \ {k}) /\ k \in Alts)
  PROVE  Decoded(c, code + 128, e0) = Synced(down \ {k}, lights, text)
  <1> DEFINE s == Symbol(k, Held(down), lights)
  <1>0. k \in OtherKeys
    BY DEF HasCode
  <1>1. KeyOf(code + 128, e0, Held(down), lights) = s /\ s = Symbol(k, Held(down), lights)
    BY KeyOfCode
  <1> HIDE DEF s
  <1>8. s = k \/ (s \notin Modifiers \union Locks /\ k \notin Modifiers \union Locks)
    BY <1>1, SymbolKind
  <1>2. FlagsAfter(s, FALSE, Held(down)) = FlagsAfter(k, FALSE, Held(down))
    BY <1>8 DEF FlagsAfter
  <1>3. FlagsAfter(k, FALSE, Held(down)) = Held(down \ {k})
    BY HeldBreak
  <1>5. code + 128 \in Int /\ code + 128 >= 128
    <2>1. code \in 0..127
      BY DEF HasCode
    <2> QED
      BY <2>1
  <1>6. s = KeyOf(code + 128, e0, c.flags, c.locks)
    BY <1>1
  <1>7. Decoded(c, code + 128, e0) =
          Config("first", 0, FlagsAfter(s, FALSE, c.flags), c.locks, c.delivered)
    BY <1>5, <1>6, DecodedBreaks
  <1> QED
    BY <1>2, <1>3, <1>7 DEF Synced

(* Codes without a key in keymap.  *)
LEMMA NothingDecoded ==
  ASSUME NEW c \in Configs, NEW code \in Byte, NEW e0 \in BOOLEAN,
         (keymap(code % 128)[1] = "none" /\ keymap(code % 128)[2] = "none") \/ e0,
         keymap(code % 128)[3] = "none" \/ ~e0
  PROVE  Decoded(c, code, e0) = At(c, "first")
  <1> DEFINE row == keymap(code % 128)
             n == Column(row, e0, c.flags, c.locks)
  <1>1. (e0 => n = 3) /\ (~e0 => n \in {1, 2})
    <2>1. e0 => n = 3
      BY Zenon DEF Column
    <2> QED
      BY <2>1, ColumnIs
  <1>2. row[n] = "none"
    <2> HIDE DEF row, n
    <2>1. (row[1] = "none" /\ row[2] = "none") \/ e0
      BY DEF row
    <2>2. row[3] = "none" \/ ~e0
      BY DEF row
    <2> QED
      BY <1>1, <2>1, <2>2
  <1>3. KeyOf(code, e0, c.flags, c.locks) = "none"
    BY <1>2 DEF KeyOf
  <1>4. /\ FlagsAfter("none", TRUE, c.flags) = c.flags
        /\ FlagsAfter("none", FALSE, c.flags) = c.flags
    BY DEF FlagsAfter, Modifiers, Shifts, Controls, Alts
  <1>5. Toggled("none", c.locks) = c.locks
    BY ConfigParts DEF Toggled, Locks
  <1>6. Received("none", TRUE, c.flags, c.locks) = <<>>
    BY DEF Received, OnPad, in_process
  <1>7. c.delivered \o <<>> = c.delivered
    BY ConfigParts, ConcatEmptySeq
  <1>8. code \in Int
    BY DEF Byte
  <1> DEFINE k == KeyOf(code, e0, c.flags, c.locks)
  <1> HIDE DEF k
  <1>9. CASE code < 128
    <2>1. Decoded(c, code, e0) =
           Config("first", 0, FlagsAfter("none", TRUE, c.flags), Toggled("none", c.locks),
                  c.delivered \o Received("none", TRUE, FlagsAfter("none", TRUE, c.flags),
                                          Toggled("none", c.locks)))
      BY <1>3, <1>8, <1>9, DecodedMakes
    <2> QED
      BY <1>4, <1>5, <1>6, <1>7, <2>1 DEF At
  <1>10. CASE code >= 128
    <2>1. Decoded(c, code, e0) =
           Config("first", 0, FlagsAfter("none", FALSE, c.flags), c.locks, c.delivered)
      BY <1>3, <1>8, <1>10, DecodedBreaks
    <2> QED
      BY <1>4, <2>1 DEF At
  <1> QED
    BY <1>8, <1>9, <1>10

-----------------------------------------------------------------------------
(* The codes of the keys.                                                  *)

LEMMA PointsOf ==
  ASSUME NEW c \in Configs, NEW point \in {"first", "extended", "print", "print_end", "unprint",
                                           "unprint_end", "lost"}
  PROVE  /\ At(c, point) \in Configs /\ At(c, point).at = point
         /\ At(c, point).flags = c.flags /\ At(c, point).locks = c.locks
         /\ At(c, point).delivered = c.delivered
         /\ \A p : At(At(c, point), p) = At(c, p)
  <1>1. point \in Points /\ 0 \in 0..5
    BY DEF Points
  <1>2. /\ At(c, point) \in Configs /\ At(c, point).at = point /\ At(c, point).parsed = 0
        /\ At(c, point).flags = c.flags /\ At(c, point).locks = c.locks
        /\ At(c, point).delivered = c.delivered
    BY <1>1, AtType
  <1>3. \A p : At(At(c, point), p) = At(c, p)
    BY <1>2 DEF At
  <1> QED
    BY <1>2, <1>3

(* E0 and the byte b, read where a code can begin.  *)
LEMMA EscapedRead ==
  ASSUME NEW d \in Configs, d.at \in Rests, NEW b
  PROVE  /\ d.at = "first" => Read(Read(d, \hE0), b) = Read(At(d, "extended"), b)
         /\ d.at = "print" => Read(Read(d, \hE0), b) = Read(At(d, "print_end"), b)
         /\ d.at = "unprint" => Read(Read(d, \hE0), b) = Read(At(d, "unprint_end"), b)
  <1>1. d.at = "first" => Read(d, \hE0) = At(d, "extended")
    BY ReadAtFirst, Zenon
  <1>2. d.at = "print" => Read(d, \hE0) = At(d, "print_end")
    BY ReadAtPrint, Zenon
  <1>3. d.at = "unprint" => Read(d, \hE0) = At(d, "unprint_end")
    BY ReadAtUnprint, Zenon
  <1> QED
    BY <1>1, <1>2, <1>3, Zenon

LEMMA EscapedCode ==
  ASSUME NEW d \in Configs, d.at \in Rests,
         NEW b, b # \h2A, b # \hB7, b # \h37, b # \hAA
  PROVE  \E x \in Configs : /\ x.flags = d.flags /\ x.locks = d.locks
                            /\ x.delivered = d.delivered
                            /\ Read(Read(d, \hE0), b) = Decoded(x, b, TRUE)
  <1>1. \A p \in {"extended", "print_end", "unprint_end"} :
          /\ At(d, p) \in Configs /\ At(d, p).at = p /\ At(d, p).flags = d.flags
          /\ At(d, p).locks = d.locks /\ At(d, p).delivered = d.delivered
    BY PointsOf
  <1>2. CASE d.at = "first"
    <2>1. Read(At(d, "extended"), b) = Decoded(At(d, "extended"), b, TRUE)
      BY <1>1, ReadAtExtended
    <2> QED
      BY <1>1, <1>2, <2>1, EscapedRead
  <1>3. CASE d.at = "print"
    <2>1. Read(At(d, "print_end"), b) = Decoded(At(d, "print_end"), b, TRUE)
      BY <1>1, ReadAtPrintEnd
    <2> QED
      BY <1>1, <1>3, <2>1, EscapedRead
  <1>4. CASE d.at = "unprint"
    <2>1. Read(At(d, "unprint_end"), b) = Decoded(At(d, "unprint_end"), b, TRUE)
      BY <1>1, ReadAtUnprintEnd
    <2> QED
      BY <1>1, <1>4, <2>1, EscapedRead
  <1> QED
    BY <1>2, <1>3, <1>4 DEF Rests

(* The bytes after E0 that say nothing of a key: Shift lifted and put down *)
(* by the keyboard itself, PrintScreen, and Pause under Ctrl.              *)
Silent == {\h2A, \hAA, \h36, \hB6, \h37, \hB7, \h46, \hC6}

LEMMA NoKeyHere ==
  /\ Silent \subseteq Byte /\ \hE0 \in Byte /\ \h54 \in Byte /\ \hD4 \in Byte /\ ACK \in Byte
  /\ \A b \in Silent : keymap(b % 128)[3] = "none"
  /\ \A b \in {\h54, \hD4, ACK} :
       keymap(b % 128)[1] = "none" /\ keymap(b % 128)[2] = "none"
  <1>1. Silent \subseteq Byte /\ \hE0 \in Byte /\ \h54 \in Byte /\ \hD4 \in Byte /\ ACK \in Byte
    BY DEF Byte, ACK, Silent
  <1>2. /\ keymap(\h7A) = <<"none", "none", "none">> /\ keymap(\h54) = <<"none", "none", "none">>
        /\ keymap(\h2A) = <<"SHIFT_L", "SHIFT_L", "none">>
        /\ keymap(\h36) = <<"SHIFT_R", "SHIFT_R", "none">>
        /\ keymap(\h37) = <<"*", "*", "none">>
        /\ keymap(\h46) = <<"SCROLL_LOCK", "SCROLL_LOCK", "none">>
    BY DEF keymap
  <1>3. \A b \in Silent : b % 128 \in {\h2A, \h36, \h37, \h46}
    BY DEF Silent
  <1>4. \A b \in Silent : keymap(b % 128)[3] = "none"
    <2>1. \A n \in {\h2A, \h36, \h37, \h46} : keymap(n)[3] = "none"
      BY <1>2
    <2> QED
      BY <1>3, <2>1
  <1>5. \A b \in {\h54, \hD4, ACK} : b % 128 \in {\h54, \h7A}
    BY DEF ACK
  <1>6. \A n \in {\h54, \h7A} : keymap(n)[1] = "none" /\ keymap(n)[2] = "none"
    BY <1>2
  <1> QED
    BY <1>1, <1>4, <1>5, <1>6

LEMMA SilentDecoded ==
  ASSUME NEW c \in Configs, NEW b \in Silent
  PROVE  Decoded(c, b, TRUE) = At(c, "first")
  <1>1. b \in Byte /\ keymap(b % 128)[3] = "none"
    BY NoKeyHere
  <1> QED
    BY <1>1, NothingDecoded

(* E0 and such a byte lead from a place where a code can begin to another, *)
(* or they are taken for the end of PrintScreen's code.                    *)
LEMMA SilentRead ==
  ASSUME NEW d \in Configs, d.at \in Rests, NEW b \in Silent
  PROVE  \E p \in Rests \union {"lost"} :
           /\ Read(Read(d, \hE0), b) = At(d, p)
           /\ b # \h2A /\ b # \hB7 => p \in {"first", "lost"}
  <1>1. \A p \in {"extended", "print_end", "unprint_end"} :
          /\ At(d, p) \in Configs /\ At(d, p).at = p
          /\ Decoded(At(d, p), b, TRUE) = At(d, "first") /\ \A q : At(At(d, p), q) = At(d, q)
    <2> SUFFICES ASSUME NEW p \in {"extended", "print_end", "unprint_end"}
                 PROVE  /\ At(d, p) \in Configs /\ At(d, p).at = p
                        /\ Decoded(At(d, p), b, TRUE) = At(d, "first")
                        /\ \A q : At(At(d, p), q) = At(d, q)
      OBVIOUS
    <2>1. At(d, p) \in Configs /\ At(d, p).at = p /\ \A q : At(At(d, p), q) = At(d, q)
      BY PointsOf
    <2>2. Decoded(At(d, p), b, TRUE) = At(At(d, p), "first")
      BY <2>1, SilentDecoded
    <2> QED
      BY <2>1, <2>2
  <1>2. {"first", "print", "unprint"} \subseteq Rests /\ "lost" \in {"lost"}
    BY DEF Rests
  <1>3. CASE d.at = "first"
    <2>1. Read(Read(d, \hE0), b) = Read(At(d, "extended"), b)
      BY <1>3, EscapedRead
    <2>2. /\ b = \h2A => Read(At(d, "extended"), b) = At(d, "print")
          /\ b = \hB7 => Read(At(d, "extended"), b) = At(d, "unprint")
          /\ b # \h2A /\ b # \hB7 => Read(At(d, "extended"), b) = At(d, "first")
      <3> DEFINE x == At(d, "extended")
      <3>1. x.at = "extended" /\ Decoded(x, b, TRUE) = At(d, "first")
            /\ \A q : At(x, q) = At(d, q)
        BY <1>1
      <3> HIDE DEF x
      <3>2. /\ b = \h2A => Read(x, b) = At(x, "print")
            /\ b = \hB7 => Read(x, b) = At(x, "unprint")
            /\ b # \h2A /\ b # \hB7 => Read(x, b) = Decoded(x, b, TRUE)
        BY <3>1, ReadAtExtended, Zenon
      <3>3. /\ b = \h2A => Read(x, b) = At(d, "print")
            /\ b = \hB7 => Read(x, b) = At(d, "unprint")
            /\ b # \h2A /\ b # \hB7 => Read(x, b) = At(d, "first")
        BY <3>1, <3>2, Zenon
      <3> QED
        BY <3>3 DEF x
    <2> QED
      BY <1>2, <2>1, <2>2
  <1>4. CASE d.at = "print"
    <2>1. Read(Read(d, \hE0), b) = Read(At(d, "print_end"), b)
      BY <1>4, EscapedRead
    <2>2. \/ Read(At(d, "print_end"), b) = At(d, "lost")
          \/ Read(At(d, "print_end"), b) = At(d, "first")
      <3> DEFINE x == At(d, "print_end")
      <3>1. x.at = "print_end" /\ Decoded(x, b, TRUE) = At(d, "first")
            /\ \A q : At(x, q) = At(d, q)
        BY <1>1
      <3> HIDE DEF x
      <3>2. Read(x, b) = At(d, "lost") \/ Read(x, b) = At(d, "first")
        BY <3>1, ReadAtPrintEnd, Zenon
      <3> QED
        BY <3>2 DEF x
    <2> QED
      BY <1>2, <2>1, <2>2
  <1>5. CASE d.at = "unprint"
    <2>1. Read(Read(d, \hE0), b) = Read(At(d, "unprint_end"), b)
      BY <1>5, EscapedRead
    <2>2. \/ Read(At(d, "unprint_end"), b) = At(d, "lost")
          \/ Read(At(d, "unprint_end"), b) = At(d, "first")
      <3> DEFINE x == At(d, "unprint_end")
      <3>1. x.at = "unprint_end" /\ Decoded(x, b, TRUE) = At(d, "first")
            /\ \A q : At(x, q) = At(d, q)
        BY <1>1
      <3> HIDE DEF x
      <3>2. Read(x, b) = At(d, "lost") \/ Read(x, b) = At(d, "first")
        BY <3>1, ReadAtUnprintEnd, Zenon
      <3> QED
        BY <3>2 DEF x
    <2> QED
      BY <1>2, <2>1, <2>2
  <1> QED
    BY <1>3, <1>4, <1>5 DEF Rests

LEMMA CloseAt ==
  ASSUME NEW d \in Configs, NEW g \in Configs, Close(d, g), d.at \in Rests,
         NEW p \in Rests \union {"lost"}
  PROVE  At(d, p) \in Configs /\ Close(At(d, p), g) /\ At(d, p).at = p
  <1>1. /\ d.flags = g.flags /\ d.locks = g.locks /\ d.delivered = g.delivered
        /\ IsPrefix(d.delivered, d.delivered)
    <2>1. d.at # "lost"
      BY DEF Rests
    <2>2. IsPrefix(d.delivered, d.delivered)
      BY ConfigParts, PrefixRefl
    <2> QED
      BY <2>1, <2>2 DEF Close
  <1>2. /\ At(d, p) \in Configs /\ At(d, p).at = p
        /\ At(d, p).flags = d.flags /\ At(d, p).locks = d.locks
        /\ At(d, p).delivered = d.delivered
    BY PointsOf DEF Rests
  <1> QED
    BY <1>1, <1>2 DEF Close

LEMMA LostReads ==
  ASSUME NEW d \in Configs, d.at = "lost"
  PROVE  /\ \A a \in Byte : Takes(d, <<a>>, d)
         /\ \A a, b \in Byte : Takes(d, <<a, b>>, d)
  <1>1. \A b : Read(d, b) = d
    BY ReadAtLost
  <1>2. \A a \in Byte : Takes(d, <<a>>, d)
    BY <1>1, TakesByte
  <1>3. \A a, b \in Byte : Takes(d, <<a, b>>, d)
    BY <1>1, TakesPair
  <1> QED
    BY <1>2, <1>3

LEMMA SilentPair ==
  ASSUME NEW d \in Configs, NEW g \in Configs, Close(d, g), NEW b \in Silent
  PROVE  \E e \in Configs : /\ Takes(d, <<\hE0, b>>, e) /\ Close(e, g)
                            /\ b # \h2A /\ b # \hB7 => Settled(e)
  <1>1. \hE0 \in Byte /\ b \in Byte
    BY NoKeyHere
  <1> DEFINE a == \hE0
  <1> HIDE DEF a
  <1>2. CASE d.at \in Rests
    <2>1. PICK p \in Rests \union {"lost"} :
            /\ Read(Read(d, a), b) = At(d, p)
            /\ b # \h2A /\ b # \hB7 => p \in {"first", "lost"}
      BY <1>2, SilentRead DEF a
    <2>2. Takes(d, <<a, b>>, At(d, p))
      BY <1>1, <2>1, TakesPair DEF a
    <2>3. At(d, p) \in Configs /\ Close(At(d, p), g) /\ At(d, p).at = p
      BY <1>2, CloseAt
    <2> DEFINE e == At(d, p)
    <2>4. e \in Configs /\ Takes(d, <<a, b>>, e) /\ Close(e, g) /\ e.at = p
      BY <2>2, <2>3
    <2> HIDE DEF e
    <2>5. b # \h2A /\ b # \hB7 => Settled(e)
      BY <2>1, <2>4 DEF Settled
    <2> QED
      BY <2>4, <2>5 DEF a
  <1>3. CASE d.at = "lost"
    <2>1. Takes(d, <<a, b>>, d) /\ Settled(d)
      BY <1>1, <1>3, LostReads DEF Settled, a
    <2> QED
      BY <2>1 DEF a
  <1> QED
    BY <1>2, <1>3 DEF Close

LEMMA SilentByte ==
  ASSUME NEW d \in Configs, NEW g \in Configs, Close(d, g), NEW b \in {\h54, \hD4, ACK}
  PROVE  \E e \in Configs : Takes(d, <<b>>, e) /\ Close(e, g) /\ Settled(e)
                            /\ e = Read(d, b)
  <1>1. /\ b \in Byte /\ keymap(b % 128)[1] = "none" /\ keymap(b % 128)[2] = "none"
        /\ b # \hE0 /\ b # \hE1
    BY NoKeyHere DEF ACK
  <1>2. CASE d.at \in Rests
    <2>1. Read(d, b) = Decoded(d, b, FALSE)
      BY <1>1, <1>2, ReadAtFirst, ReadAtPrint, ReadAtUnprint DEF Rests
    <2>2. Decoded(d, b, FALSE) = At(d, "first")
      BY <1>1, NothingDecoded
    <2>3. "first" \in Rests
      BY DEF Rests
    <2> DEFINE e == At(d, "first")
    <2>4. e \in Configs /\ Close(e, g) /\ e.at = "first"
      BY <1>2, <2>3, CloseAt
    <2>5. Takes(d, <<b>>, e) /\ e = Read(d, b)
      BY <1>1, <2>1, <2>2, TakesByte
    <2> HIDE DEF e
    <2> QED
      BY <2>4, <2>5 DEF Settled
  <1>3. CASE d.at = "lost"
    <2>1. Takes(d, <<b>>, d) /\ Settled(d) /\ d = Read(d, b)
      BY <1>1, <1>3, LostReads, ReadAtLost DEF Settled
    <2> QED
      BY <2>1
  <1> QED
    BY <1>2, <1>3 DEF Close

LEMMA CodeBytes ==
  ASSUME NEW k, NEW b, NEW e0, HasCode(k, b, e0)
  PROVE  \A code \in {b, b + 128} :
           /\ code \in Byte /\ code # \hE0 /\ code # \hE1
           /\ e0 => code # \h2A /\ code # \hB7 /\ code # \h37 /\ code # \hAA
  <1>1. b \in 0..127 /\ b \notin {\h37, \h60, \h61} /\ (e0 => b # \h2A)
    BY DEF HasCode
  <1> QED
    BY <1>1 DEF Byte

(* The code of a key, read where a code can begin.  *)
LEMMA SpeltRead ==
  ASSUME NEW k, NEW b, NEW e0, HasCode(k, b, e0), NEW code \in {b, b + 128},
         NEW d \in Configs, d.at \in Rests
  PROVE  \E x \in Configs : /\ x.flags = d.flags /\ x.locks = d.locks
                            /\ x.delivered = d.delivered
                            /\ Takes(d, Spelt(code, e0), Decoded(x, code, e0))
  <1>1. /\ code \in Byte /\ code # \hE0 /\ code # \hE1 /\ \hE0 \in Byte /\ e0 \in BOOLEAN
        /\ e0 => code # \h2A /\ code # \hB7 /\ code # \h37 /\ code # \hAA
    BY CodeBytes, NoKeyHere DEF HasCode
  <1>2. CASE e0 = TRUE
    <2>0. code # \h2A /\ code # \hB7 /\ code # \h37 /\ code # \hAA
      BY <1>1, <1>2
    <2> DEFINE a == \hE0
    <2>1. PICK x \in Configs : /\ x.flags = d.flags /\ x.locks = d.locks
                               /\ x.delivered = d.delivered
                               /\ Read(Read(d, a), code) = Decoded(x, code, TRUE)
      BY <2>0, EscapedCode, Zenon
    <2>3. Spelt(code, e0) = <<a, code>>
      BY <1>2 DEF Spelt
    <2>4. a \in Byte
      BY <1>1
    <2> HIDE DEF a
    <2>5. code \in Byte
      BY <1>1
    <2>6. Takes(d, <<a, code>>, Read(Read(d, a), code))
      BY <2>4, <2>5, TakesPair, Zenon
    <2>2. Takes(d, <<a, code>>, Decoded(x, code, TRUE))
      BY <2>1, <2>6, Zenon
    <2> QED
      BY <1>2, <2>1, <2>2, <2>3
  <1>3. CASE e0 = FALSE
    <2>1. Read(d, code) = Decoded(d, code, FALSE)
      BY <1>1, ReadAtFirst, ReadAtPrint, ReadAtUnprint DEF Rests
    <2>2. Takes(d, <<code>>, Decoded(d, code, FALSE))
      BY <1>1, <2>1, TakesByte
    <2>3. Spelt(code, e0) = <<code>>
      BY <1>3 DEF Spelt
    <2> QED
      BY <1>3, <2>2, <2>3
  <1> QED
    BY <1>1, <1>2, <1>3

LEMMA SpeltLost ==
  ASSUME NEW k, NEW b, NEW e0, HasCode(k, b, e0), NEW code \in {b, b + 128},
         NEW d \in Configs, d.at = "lost"
  PROVE  Takes(d, Spelt(code, e0), d)
  <1>1. code \in Byte /\ \hE0 \in Byte
    BY CodeBytes, NoKeyHere
  <1> QED
    BY <1>1, LostReads DEF Spelt

(* What the bytes of a key do that is pressed or repeats, and of one that  *)
(* is released, if it is not one of two Alt keys.                          *)
LEMMA MakeRead ==
  ASSUME NEW k, NEW b, NEW e0, HasCode(k, b, e0),
         NEW down, NEW lights \in SUBSET Locks, NEW text \in Seq(Chars),
         NEW d \in Configs, Close(d, Synced(down, lights, text))
  PROVE  \E e \in Configs :
           /\ Takes(d, Spelt(b, e0), e) /\ Settled(e)
           /\ Close(e, Synced(down \union {k}, Toggled(k, lights),
                              text \o Meaning(k, down \union {k}, lights)))
  <1> DEFINE more == text \o Meaning(k, down \union {k}, lights)
             g == Synced(down, lights, text)
             h == Synced(down \union {k}, Toggled(k, lights), more)
  <1>1. more \in Seq(Chars) /\ IsPrefix(text, more) /\ Toggled(k, lights) \in SUBSET Locks
    <2>1. Meaning(k, down \union {k}, lights) \in Seq(Chars)
      BY MeaningType
    <2>2. Toggled(k, lights) \in SUBSET Locks
      BY DEF Toggled
    <2> QED
      BY <2>1, <2>2, PrefixConcat
  <1>2. g.flags = Held(down) /\ g.locks = lights /\ g.delivered = text
    BY SyncedType
  <1>3. h \in Configs /\ h.at = "first" /\ h.delivered = more
    <2> HIDE DEF more
    <2> QED
      BY <1>1, SyncedType
  <1>4. CASE d.at \in Rests
    <2>1. PICK x \in Configs : /\ x.flags = d.flags /\ x.locks = d.locks
                               /\ x.delivered = d.delivered
                               /\ Takes(d, Spelt(b, e0), Decoded(x, b, e0))
      BY <1>4, SpeltRead
    <2>2. x.flags = Held(down) /\ x.locks = lights /\ x.delivered = text
      <3>1. d.at # "lost"
        BY <1>4 DEF Rests
      <3>2. d.flags = g.flags /\ d.locks = g.locks /\ d.delivered = g.delivered
        BY <3>1 DEF Close
      <3> QED
        BY <1>2, <2>1, <3>2
    <2>3. Decoded(x, b, e0) = h
      BY <2>2, MakeDecoded
    <2> HIDE DEF h
    <2>4. Takes(d, Spelt(b, e0), h) /\ Settled(h) /\ Close(h, h)
      BY <1>3, <2>1, <2>3 DEF Settled, Close, Rests
    <2> QED
      BY <1>3, <2>4 DEF h
  <1>5. CASE d.at = "lost"
    <2>1. Takes(d, Spelt(b, e0), d) /\ Settled(d)
      BY <1>5, SpeltLost DEF Settled
    <2>2. IsPrefix(d.delivered, text) /\ d.delivered \in Seq(Chars)
      BY <1>2, <1>5, ConfigParts DEF Close, Rests
    <2>3. IsPrefix(d.delivered, more)
      BY <1>1, <2>2, PrefixTrans
    <2>4. Close(d, h)
      BY <1>3, <1>5, <2>3 DEF Close
    <2> QED
      BY <2>1, <2>4
  <1> QED
    BY <1>4, <1>5 DEF Close

LEMMA BreakRead ==
  ASSUME NEW k, NEW b, NEW e0, HasCode(k, b, e0),
         NEW down, NEW lights \in SUBSET Locks, NEW text \in Seq(Chars),
         ~("ALT" \in Held(down \ {k}) /\ k \in Alts),
         NEW d \in Configs, Close(d, Synced(down, lights, text))
  PROVE  \E e \in Configs : /\ Takes(d, Spelt(b + 128, e0), e) /\ Settled(e)
                            /\ Close(e, Synced(down \ {k}, lights, text))
  <1> DEFINE g == Synced(down, lights, text)
             h == Synced(down \ {k}, lights, text)
  <1>2. g.flags = Held(down) /\ g.locks = lights /\ g.delivered = text
    BY SyncedType
  <1>3. h \in Configs /\ h.at = "first" /\ h.delivered = text
    BY SyncedType
  <1>4. CASE d.at \in Rests
    <2>1. PICK x \in Configs : /\ x.flags = d.flags /\ x.locks = d.locks
                               /\ x.delivered = d.delivered
                               /\ Takes(d, Spelt(b + 128, e0), Decoded(x, b + 128, e0))
      BY <1>4, SpeltRead
    <2>2. x.flags = Held(down) /\ x.locks = lights /\ x.delivered = text
      <3>1. d.at # "lost"
        BY <1>4 DEF Rests
      <3>2. d.flags = g.flags /\ d.locks = g.locks /\ d.delivered = g.delivered
        BY <3>1 DEF Close
      <3> QED
        BY <1>2, <2>1, <3>2
    <2>3. Decoded(x, b + 128, e0) = h
      BY <2>2, BreakDecoded
    <2> HIDE DEF h
    <2>4. Takes(d, Spelt(b + 128, e0), h) /\ Settled(h) /\ Close(h, h)
      BY <1>3, <2>1, <2>3 DEF Settled, Close, Rests
    <2> QED
      BY <1>3, <2>4 DEF h
  <1>5. CASE d.at = "lost"
    <2>1. Takes(d, Spelt(b + 128, e0), d) /\ Settled(d)
      BY <1>5, SpeltLost DEF Settled
    <2>2. IsPrefix(d.delivered, text)
      BY <1>2, <1>5 DEF Close, Rests
    <2>4. Close(d, h)
      BY <1>3, <1>5, <2>2 DEF Close
    <2> QED
      BY <2>1, <2>4
  <1> QED
    BY <1>4, <1>5 DEF Close

(* What the keyboard sends in front of a code and behind it.  *)
LEMMA SilentTwo ==
  ASSUME NEW d \in Configs, NEW g \in Configs, Close(d, g),
         NEW a \in Silent, NEW b \in Silent, NEW u, NEW v,
         u = <<\hE0, a>> \/ u = <<>>, v = <<\hE0, b>> \/ v = <<>>
  PROVE  /\ u \o v \in Seq(Byte)
         /\ \E e \in Configs : /\ Takes(d, u \o v, e) /\ Close(e, g)
                               /\ v = <<\hE0, b>> /\ b # \h2A /\ b # \hB7 => Settled(e)
                               /\ v = <<>> /\ u = <<\hE0, a>> /\ a # \h2A /\ a # \hB7
                                    => Settled(e)
  <1>1. u \in Seq(Byte) /\ v \in Seq(Byte)
    <2>1. a \in Byte /\ b \in Byte /\ \hE0 \in Byte
      BY NoKeyHere
    <2>2. <<\hE0, a>> \in Seq(Byte)
      BY <2>1, BytesOf, Zenon
    <2>3. <<\hE0, b>> \in Seq(Byte) /\ <<>> \in Seq(Byte)
      BY <2>1, BytesOf, Zenon
    <2> QED
      BY <2>2, <2>3, Zenon
  <1>2. \E e \in Configs : /\ Takes(d, u, e) /\ Close(e, g)
                           /\ u = <<\hE0, a>> /\ a # \h2A /\ a # \hB7 => Settled(e)
    <2>1. CASE u = <<\hE0, a>>
      BY <2>1, SilentPair
    <2>2. CASE u # <<\hE0, a>>
      BY <2>2, TakesNothing
    <2> QED
      BY <2>1, <2>2
  <1>3. PICK e \in Configs : /\ Takes(d, u, e) /\ Close(e, g)
                             /\ u = <<\hE0, a>> /\ a # \h2A /\ a # \hB7 => Settled(e)
    BY <1>2
  <1>4. \E f \in Configs : /\ Takes(e, v, f) /\ Close(f, g)
                           /\ v = <<\hE0, b>> /\ b # \h2A /\ b # \hB7 => Settled(f)
                           /\ v = <<>> => f = e
    <2>1. CASE v = <<\hE0, b>>
      <3>1. v # <<>>
        BY <2>1
      <3> QED
        BY <1>3, <2>1, <3>1, SilentPair
    <2>2. CASE v # <<\hE0, b>>
      BY <1>3, <2>2, TakesNothing
    <2> QED
      BY <2>1, <2>2
  <1>5. PICK f \in Configs : /\ Takes(e, v, f) /\ Close(f, g)
                             /\ v = <<\hE0, b>> /\ b # \h2A /\ b # \hB7 => Settled(f)
                             /\ v = <<>> => f = e
    BY <1>4
  <1>6. Takes(d, u \o v, f)
    BY <1>1, <1>3, <1>5, TakesBoth
  <1>7. u \o v \in Seq(Byte)
    BY <1>1, ConcatProperties
  <1> QED
    BY <1>3, <1>5, <1>6, <1>7

LEMMA SilentFour ==
  ASSUME NEW d \in Configs, NEW g \in Configs, Close(d, g),
         NEW a \in Silent, NEW b \in Silent, b # \h2A, b # \hB7
  PROVE  /\ <<\hE0, a, \hE0, b>> \in Seq(Byte)
         /\ \E e \in Configs :
              Takes(d, <<\hE0, a, \hE0, b>>, e) /\ Close(e, g) /\ Settled(e)
  <1>1. a \in Byte /\ b \in Byte /\ \hE0 \in Byte
    BY NoKeyHere
  <1> DEFINE x == \hE0
             u == <<x, a>>
             v == <<x, b>>
  <1>2. u = <<\hE0, a>> /\ v = <<\hE0, b>>
    OBVIOUS
  <1> HIDE DEF x
  <1>3. u \o v = <<x, a, x, b>> /\ <<x, a, x, b>> \in Seq(Byte)
    <2>1. x \in Byte
      BY <1>1 DEF x
    <2> QED
      BY <1>1, <2>1, FourBytes
  <1> HIDE DEF u, v
  <1>4. PICK e \in Configs : /\ Takes(d, u \o v, e) /\ Close(e, g)
                             /\ v = <<\hE0, b>> /\ b # \h2A /\ b # \hB7 => Settled(e)
    BY <1>2, SilentTwo
  <1>5. Settled(e)
    BY <1>2, <1>4
  <1> QED
    BY <1>3, <1>4, <1>5, Zenon DEF x

Fronts(down) == {<<\hE0, \h2A>>, Lifted(down)}
Backs(down) == {back \in {<<\hE0, \hAA>>, PutDown(down)} :
                  back = PutDown(down) => Shifted(down)}

LEMMA FrontRead ==
  ASSUME NEW d \in Configs, NEW g \in Configs, Close(d, g), NEW down,
         NEW front \in Fronts(down)
  PROVE  /\ front \in Seq(Byte)
         /\ \E e \in Configs : Takes(d, front, e) /\ Close(e, g)
  <1>1. \h2A \in Silent /\ \hAA \in Silent /\ \hB6 \in Silent
    BY DEF Silent
  <1>2. CASE front = <<\hE0, \h2A>>
    <2>1. front \in Seq(Byte)
      BY <1>2 DEF Byte
    <2> QED
      BY <1>1, <1>2, <2>1, SilentPair
  <1>3. CASE front = Lifted(down)
    <2> DEFINE u == IF "SHIFT_L" \in down THEN <<\hE0, \hAA>> ELSE <<>>
               v == IF "SHIFT_R" \in down THEN <<\hE0, \hB6>> ELSE <<>>
    <2>1. (u = <<\hE0, \hAA>> \/ u = <<>>) /\ (v = <<\hE0, \hB6>> \/ v = <<>>)
      OBVIOUS
    <2>2. front = u \o v
      BY <1>3 DEF Lifted
    <2> HIDE DEF u, v
    <2>3. u \o v \in Seq(Byte) /\ \E e \in Configs : Takes(d, u \o v, e) /\ Close(e, g)
      <3> DEFINE a == \hAA
                 b == \hB6
      <3>1. a \in Silent /\ b \in Silent
            /\ (u = <<\hE0, a>> \/ u = <<>>) /\ (v = <<\hE0, b>> \/ v = <<>>)
        BY <1>1, <2>1
      <3> HIDE DEF a, b
      <3> QED
        BY <3>1, SilentTwo
    <2> QED
      BY <2>2, <2>3
  <1> QED
    BY <1>2, <1>3 DEF Fronts

(* Only Shift put down again leaves the decoder in the middle of a code.   *)
LEMMA BackRead ==
  ASSUME NEW d \in Configs, NEW g \in Configs, Close(d, g), NEW down,
         NEW back \in Backs(down)
  PROVE  /\ back \in Seq(Byte)
         /\ \E e \in Configs : /\ Takes(d, back, e) /\ Close(e, g)
                               /\ Settled(e) \/ "SHIFT_L" \in down
  <1>1. \h2A \in Silent /\ \hAA \in Silent /\ \h36 \in Silent
    BY DEF Silent
  <1>2. CASE back = <<\hE0, \hAA>>
    <2>1. back \in Seq(Byte)
      BY <1>2 DEF Byte
    <2> QED
      BY <1>1, <1>2, <2>1, SilentPair
  <1>3. CASE back = PutDown(down) /\ Shifted(down)
    <2> DEFINE u == IF "SHIFT_R" \in down THEN <<\hE0, \h36>> ELSE <<>>
               v == IF "SHIFT_L" \in down THEN <<\hE0, \h2A>> ELSE <<>>
    <2>1. (u = <<\hE0, \h36>> \/ u = <<>>) /\ (v = <<\hE0, \h2A>> \/ v = <<>>)
      OBVIOUS
    <2>2. back = u \o v
      BY <1>3 DEF PutDown
    <2>3. "SHIFT_L" \notin down => v = <<>> /\ u = <<\hE0, \h36>>
      BY <1>3 DEF Shifted, Shifts
    <2> HIDE DEF u, v
    <2>4. /\ u \o v \in Seq(Byte)
          /\ \E e \in Configs : /\ Takes(d, u \o v, e) /\ Close(e, g)
                                /\ v = <<>> /\ u = <<\hE0, \h36>> => Settled(e)
      <3> DEFINE a == \h36
                 b == \h2A
      <3>1. a \in Silent /\ b \in Silent /\ a # \h2A /\ a # \hB7
            /\ (u = <<\hE0, a>> \/ u = <<>>) /\ (v = <<\hE0, b>> \/ v = <<>>)
        BY <1>1, <2>1
      <3> HIDE DEF a, b
      <3>2. /\ u \o v \in Seq(Byte)
            /\ \E e \in Configs : /\ Takes(d, u \o v, e) /\ Close(e, g)
                                  /\ v = <<>> /\ u = <<\hE0, a>> /\ a # \h2A /\ a # \hB7
                                       => Settled(e)
        BY <3>1, SilentTwo
      <3> QED
        BY <3>1, <3>2 DEF a
    <2> QED
      BY <2>2, <2>3, <2>4
  <1> QED
    BY <1>2, <1>3 DEF Backs

LEMMA SpeltType ==
  ASSUME NEW k, NEW b, NEW e0, HasCode(k, b, e0), NEW code \in {b, b + 128}
  PROVE  Spelt(code, e0) \in Seq(Byte)
  <1>1. code \in Byte /\ \hE0 \in Byte
    BY CodeBytes, NoKeyHere
  <1> QED
    BY <1>1, BytesOf DEF Spelt

Fronted(code, b, e0, down) ==
  code = Spelt(b, e0) \/ \E front \in Fronts(down) : code = front \o Spelt(b, e0)

LEMMA PressCodes ==
  ASSUME NEW k, NEW b, NEW e0, HasCode(k, b, e0), NEW down,
         NEW code, code \in Codes(k, down).press \/ code = Codes(k, down).repeat
  PROVE  Fronted(code, b, e0, down)
  <1> SUFFICES \/ code = Spelt(b, e0)
               \/ \E front \in Fronts(down) : code = front \o Spelt(b, e0)
    BY DEF Fronted
  <1>1. Codes(k, down) = (IF k = "HOME" THEN Extended(b, down)
                          ELSE IF e0 THEN Escaped(b) ELSE Plain(b))
        /\ (k = "HOME" => e0)
    BY DEF HasCode
  <1>2. CASE k = "HOME"
    <2>1. Spelt(b, e0) = <<\hE0, b>> /\ Codes(k, down) = Extended(b, down)
      BY <1>1, <1>2 DEF Spelt
    <2>2. \/ code = <<\hE0, b>>
          \/ code = (IF Shifted(down) THEN Lifted(down) ELSE <<\hE0, \h2A>>) \o <<\hE0, b>>
      BY <2>1 DEF Extended
    <2>3. (IF Shifted(down) THEN Lifted(down) ELSE <<\hE0, \h2A>>) \in Fronts(down)
      BY DEF Fronts
    <2> QED
      BY <2>1, <2>2, <2>3
  <1>3. CASE k # "HOME"
    BY <1>1, <1>3 DEF Escaped, Plain, Spelt
  <1> QED
    BY <1>2, <1>3

LEMMA ReleaseCodes ==
  ASSUME NEW k, NEW b, NEW e0, HasCode(k, b, e0), NEW down,
         NEW code, code \in Codes(k, down).release
  PROVE  \/ code = Spelt(b + 128, e0)
         \/ k = "HOME" /\ \E back \in Backs(down) : code = Spelt(b + 128, e0) \o back
  <1>1. Codes(k, down) = (IF k = "HOME" THEN Extended(b, down)
                          ELSE IF e0 THEN Escaped(b) ELSE Plain(b))
        /\ (k = "HOME" => e0)
    BY DEF HasCode
  <1>2. CASE k = "HOME"
    <2>1. Spelt(b + 128, e0) = <<\hE0, b + 128>> /\ Codes(k, down) = Extended(b, down)
      BY <1>1, <1>2 DEF Spelt
    <2> DEFINE back == IF Shifted(down) THEN PutDown(down) ELSE <<\hE0, \hAA>>
    <2>2. code = <<\hE0, b + 128>> \/ code = <<\hE0, b + 128>> \o back
      BY <2>1 DEF Extended
    <2>3. back \in Backs(down)
      <3>1. CASE Shifted(down)
        <4>1. back = PutDown(down)
          BY <3>1
        <4> QED
          BY <3>1, <4>1 DEF Backs
      <3>2. CASE ~Shifted(down)
        <4>1. PutDown(down) = <<>>
          BY <3>2 DEF PutDown, Shifted, Shifts
        <4>2. back = <<\hE0, \hAA>> /\ back # PutDown(down)
          BY <3>2, <4>1
        <4> QED
          BY <4>2 DEF Backs
      <3> QED
        BY <3>1, <3>2
    <2> HIDE DEF back
    <2>4. code = Spelt(b + 128, e0) \/ code = Spelt(b + 128, e0) \o back
      BY <2>1, <2>2, Zenon
    <2> QED
      BY <1>2, <2>3, <2>4, Zenon
  <1>3. CASE k # "HOME"
    BY <1>1, <1>3 DEF Escaped, Plain, Spelt
  <1> QED
    BY <1>2, <1>3

(* The code of a key that is pressed or repeats.  *)
LEMMA MakeCode ==
  ASSUME NEW k \in OtherKeys, NEW down,
         NEW code, code \in Codes(k, down).press \/ code = Codes(k, down).repeat,
         NEW from, NEW lights \in SUBSET Locks, NEW text \in Seq(Chars),
         NEW d \in Configs, Close(d, Synced(from, lights, text))
  PROVE  \E e \in Configs :
           /\ Takes(d, code, e) /\ Settled(e)
           /\ Close(e, Synced(from \union {k}, Toggled(k, lights),
                              text \o Meaning(k, from \union {k}, lights)))
  <1> DEFINE g == Synced(from, lights, text)
             h == Synced(from \union {k}, Toggled(k, lights),
                         text \o Meaning(k, from \union {k}, lights))
  <1>1. PICK b, e0 : HasCode(k, b, e0)
    BY KeyCodes DEF Coded
  <1>2. ASSUME NEW x \in Configs, Close(x, g)
        PROVE  \E e \in Configs : Takes(x, Spelt(b, e0), e) /\ Settled(e) /\ Close(e, h)
    BY <1>1, <1>2, MakeRead
  <1>3. g \in Configs /\ Close(d, g) /\ Spelt(b, e0) \in Seq(Byte)
    BY <1>1, SyncedType, SpeltType
  <1> HIDE DEF g, h
  <1>4. CASE code = Spelt(b, e0)
    BY <1>2, <1>3, <1>4 DEF h
  <1>5. CASE \E front \in Fronts(down) : code = front \o Spelt(b, e0)
    <2>1. PICK front \in Fronts(down) : code = front \o Spelt(b, e0)
      BY <1>5
    <2>2. front \in Seq(Byte) /\ \E x \in Configs : Takes(d, front, x) /\ Close(x, g)
      BY <1>3, FrontRead
    <2>3. PICK x \in Configs : Takes(d, front, x) /\ Close(x, g)
      BY <2>2
    <2>4. PICK e \in Configs : Takes(x, Spelt(b, e0), e) /\ Settled(e) /\ Close(e, h)
      BY <1>2, <2>3
    <2>5. Takes(d, code, e)
      BY <1>3, <2>1, <2>2, <2>3, <2>4, TakesBoth
    <2> QED
      BY <2>4, <2>5 DEF h
  <1>6. Fronted(code, b, e0, down)
    BY <1>1, PressCodes
  <1> QED
    BY <1>4, <1>5, <1>6 DEF Fronted

(* The code of a key that is released, if it is not one of two Alt keys.  *)
LEMMA BreakCode ==
  ASSUME NEW k \in OtherKeys, NEW down, NEW code \in Codes(k, down).release,
         NEW lights \in SUBSET Locks, NEW text \in Seq(Chars),
         ~("ALT" \in Held(down \ {k}) /\ k \in Alts),
         NEW d \in Configs, Close(d, Synced(down, lights, text))
  PROVE  \E e \in Configs : /\ Takes(d, code, e)
                            /\ Settled(e) \/ WithShift(down \ {k})
                            /\ Close(e, Synced(down \ {k}, lights, text))
  <1> DEFINE h == Synced(down \ {k}, lights, text)
  <1>1. PICK b, e0 : HasCode(k, b, e0)
    BY KeyCodes DEF Coded
  <1>2. PICK x \in Configs : Takes(d, Spelt(b + 128, e0), x) /\ Settled(x) /\ Close(x, h)
    BY <1>1, BreakRead
  <1>3. h \in Configs /\ Spelt(b + 128, e0) \in Seq(Byte)
    BY <1>1, SyncedType, SpeltType
  <1> HIDE DEF h
  <1>4. CASE code = Spelt(b + 128, e0)
    BY <1>2, <1>4 DEF h
  <1>5. CASE k = "HOME" /\ \E back \in Backs(down) : code = Spelt(b + 128, e0) \o back
    <2>1. PICK back \in Backs(down) : code = Spelt(b + 128, e0) \o back
      BY <1>5
    <2>2. /\ back \in Seq(Byte)
          /\ \E e \in Configs : /\ Takes(x, back, e) /\ Close(e, h)
                                /\ Settled(e) \/ "SHIFT_L" \in down
      BY <1>2, <1>3, BackRead
    <2>3. PICK e \in Configs : /\ Takes(x, back, e) /\ Close(e, h)
                               /\ Settled(e) \/ "SHIFT_L" \in down
      BY <2>2
    <2>4. Takes(d, code, e)
      BY <1>2, <1>3, <2>1, <2>2, <2>3, TakesBoth
    <2>5. "SHIFT_L" \in down => WithShift(down \ {k})
      BY <1>5 DEF WithShift, Shifts
    <2> QED
      BY <2>3, <2>4, <2>5 DEF h
  <1>6. \/ code = Spelt(b + 128, e0)
        \/ k = "HOME" /\ \E back \in Backs(down) : code = Spelt(b + 128, e0) \o back
    BY <1>1, ReleaseCodes
  <1> QED
    BY <1>4, <1>5, <1>6

(* PrintScreen.  *)
LEMMA PrintCode ==
  ASSUME NEW down, NEW code,
         \/ code \in PrintScreen(down).press \/ code = PrintScreen(down).repeat
         \/ code \in PrintScreen(down).release,
         NEW d \in Configs, NEW g \in Configs, Close(d, g)
  PROVE  /\ code \in Seq(Byte)
         /\ \E e \in Configs : /\ Takes(d, code, e) /\ Close(e, g)
                               /\ \/ Settled(e)
                                  \/ WithShift(down) /\ code \in PrintScreen(down).release
  <1>1. /\ \h2A \in Silent /\ \h37 \in Silent /\ \hB7 \in Silent /\ \hAA \in Silent
        /\ \hE0 \in Byte /\ \h54 \in Byte /\ \hD4 \in Byte /\ Silent \subseteq Byte
        /\ \h37 # \h2A /\ \h37 # \hB7 /\ \hAA # \h2A /\ \hAA # \hB7
    BY NoKeyHere DEF Silent
  <1>2. CASE down \cap Alts # {}
    <2>1. code = <<\h54>> \/ code = <<\hD4>>
      BY <1>2 DEF PrintScreen, Plain
    <2>2. code \in Seq(Byte)
      <3>1. <<\h54>> \in Seq(Byte)
        BY <1>1
      <3>2. <<\hD4>> \in Seq(Byte)
        BY <1>1
      <3> QED
        BY <2>1, <3>1, <3>2, Zenon
    <2> QED
      BY <2>1, <2>2, SilentByte
  <1>3. CASE down \cap Alts = {} /\ WithShift(down)
    <2>1. PrintScreen(down) = Escaped(\h37)
      BY <1>3 DEF PrintScreen, WithShift
    <2>2. code = <<\hE0, \h37>> \/ (code = <<\hE0, \hB7>> /\ code \in PrintScreen(down).release)
      BY <2>1 DEF Escaped
    <2>3. code \in Seq(Byte)
      <3>1. \h37 \in Byte /\ \hB7 \in Byte
        BY <1>1
      <3>2. <<\hE0, \h37>> \in Seq(Byte)
        BY <1>1, <3>1
      <3>3. <<\hE0, \hB7>> \in Seq(Byte)
        BY <1>1, <3>1
      <3> QED
        BY <2>2, <3>2, <3>3, Zenon
    <2> QED
      BY <1>1, <1>3, <2>2, <2>3, SilentPair
  <1>4. CASE down \cap Alts = {} /\ ~WithShift(down)
    <2>1. \/ code = <<\hE0, \h2A, \hE0, \h37>> \/ code = <<\hE0, \h37>>
          \/ code = <<\hE0, \hB7, \hE0, \hAA>>
      BY <1>4 DEF PrintScreen, WithShift
    <2>2. CASE code = <<\hE0, \h37>>
      <3>1. code \in Seq(Byte)
        BY <1>1, <2>2, BytesOf
      <3> QED
        BY <1>1, <2>2, <3>1, SilentPair
    <2>3. ASSUME NEW a \in Silent, NEW b \in Silent, code = <<\hE0, a, \hE0, b>>,
                 b # \h2A, b # \hB7
          PROVE  /\ code \in Seq(Byte)
                 /\ \E e \in Configs : Takes(d, code, e) /\ Close(e, g) /\ Settled(e)
      BY <2>3, SilentFour
    <2>4. CASE code = <<\hE0, \h2A, \hE0, \h37>>
      BY <1>1, <2>3, <2>4
    <2>5. CASE code = <<\hE0, \hB7, \hE0, \hAA>>
      BY <1>1, <2>3, <2>5
    <2> QED
      BY <2>1, <2>2, <2>4, <2>5
  <1> QED
    BY <1>2, <1>3, <1>4

(* Pause: whoever is within a code that is none gives up at its first byte. *)
LEMMA PauseRead ==
  ASSUME NEW d \in Configs, NEW g \in Configs, Close(d, g)
  PROVE  /\ PauseCode \in Seq(Byte)
         /\ \E e \in Configs : Takes(d, PauseCode, e) /\ Close(e, g) /\ Settled(e)
  <1>1. /\ \hE1 \in Byte /\ \h1D \in Byte /\ \h45 \in Byte /\ \h9D \in Byte /\ \hC5 \in Byte
    BY DEF Byte
  <1> DEFINE u == <<\hE1, \h1D>>
             v == <<\h45, \hE1>>
             w == <<\h9D, \hC5>>
  <1>2. u \in Seq(Byte) /\ v \in Seq(Byte) /\ w \in Seq(Byte)
    BY <1>1, BytesOf
  <1>3. PauseCode = u \o (v \o w)
    BY DEF PauseCode
  <1>4. v \o w \in Seq(Byte) /\ PauseCode \in Seq(Byte)
    <2> HIDE DEF u, v, w
    <2>1. v \o w \in Seq(Byte)
      BY <1>2, ConcatProperties
    <2> QED
      BY <1>2, <1>3, <2>1, ConcatProperties
  <1>5. ASSUME NEW x, NEW y, NEW z, Takes(d, u, x), Takes(x, v, y), Takes(y, w, z)
        PROVE  Takes(d, PauseCode, z)
    <2> HIDE DEF u, v, w
    <2>1. Takes(x, v \o w, z)
      BY <1>2, <1>5, TakesBoth
    <2> QED
      BY <1>2, <1>3, <1>4, <1>5, <2>1, TakesBoth
  <1>6. ASSUME NEW x \in Configs, x.at = "lost"
        PROVE  Takes(x, u, x) /\ Takes(x, v, x) /\ Takes(x, w, x)
    BY <1>1, <1>6, LostReads
  <1>7. CASE d.at = "first"
    <2> DEFINE p(n) == Config("pause", n, d.flags, d.locks, d.delivered)
               e == At(d, "lost")
    <2>1. \A n \in 1..5 : /\ p(n) \in Configs /\ p(n).at = "pause" /\ p(n).parsed = n
                         /\ p(n).flags = d.flags /\ p(n).locks = d.locks
                         /\ p(n).delivered = d.delivered
      <3>1. "pause" \in Points /\ \A n \in 1..5 : n \in 0..5
        BY DEF Points
      <3> QED
        BY <3>1, ConfigParts, ConfigType
    <2>2. At(p(5), "lost") = e
      BY <2>1 DEF At
    <2>3. Read(d, \hE1) = p(1)
      BY <1>7, ReadAtFirst
    <2> HIDE DEF p, e
    <2>4. \A n \in 1..4 : Read(p(n), PauseCode[n + 1]) = p(n + 1)
      <3> SUFFICES ASSUME NEW n \in 1..4 PROVE Read(p(n), PauseCode[n + 1]) = p(n + 1)
        OBVIOUS
      <3>1. /\ p(n) \in Configs /\ p(n).at = "pause" /\ p(n).parsed = n /\ n < 5
            /\ p(n).flags = d.flags /\ p(n).locks = d.locks
            /\ p(n).delivered = d.delivered
        BY <2>1
      <3>2. Read(p(n), PauseCode[n + 1]) =
              Config("pause", n + 1, p(n).flags, p(n).locks, p(n).delivered)
        <4> DEFINE q == p(n)
        <4>1. q.at = "pause" /\ q.parsed = n /\ q.parsed < 5
          BY <3>1
        <4>2. PauseCode[n + 1] = PauseCode[q.parsed + 1]
          BY <4>1
        <4> HIDE DEF q
        <4>3. Read(q, PauseCode[n + 1]) =
                Config("pause", q.parsed + 1, q.flags, q.locks, q.delivered)
          BY <4>1, <4>2, ReadAtPause, Zenon
        <4> QED
          BY <4>1, <4>3, Zenon DEF q
      <3> QED
        BY <3>1, <3>2 DEF p
    <2>5. Read(p(5), PauseCode[6]) = e
      <3>1. p(5) \in Configs /\ p(5).at = "pause" /\ p(5).parsed = 5 /\ ~(p(5).parsed < 5)
        BY <2>1
      <3>2. PauseCode[6] = PauseCode[p(5).parsed + 1]
        BY <3>1
      <3>3. Read(p(5), PauseCode[6]) = At(p(5), "lost")
        BY <3>1, <3>2, ReadAtPause
      <3> QED
        BY <2>2, <3>3
    <2>6. /\ Read(p(1), \h1D) = p(2) /\ Read(p(2), \h45) = p(3) /\ Read(p(3), \hE1) = p(4)
          /\ Read(p(4), \h9D) = p(5) /\ Read(p(5), \hC5) = e
      BY <2>4, <2>5 DEF PauseCode
    <2>7. Takes(d, u, p(2)) /\ Takes(p(2), v, p(4)) /\ Takes(p(4), w, e)
      BY <1>1, <2>1, <2>3, <2>6, TakesPair
    <2>8. e \in Configs /\ Close(e, g) /\ e.at = "lost"
      BY <1>7, CloseAt DEF e, Rests
    <2>9. Takes(d, PauseCode, e) /\ Settled(e)
      BY <1>5, <2>7, <2>8 DEF Settled
    <2> QED
      BY <1>4, <2>8, <2>9
  <1>8. CASE d.at \in {"print", "unprint"}
    <2> DEFINE e == At(d, "lost")
    <2>1. Read(d, \hE1) = e
      BY <1>8, ReadAtPrint, ReadAtUnprint
    <2>2. e \in Configs /\ Close(e, g) /\ e.at = "lost"
      BY <1>8, CloseAt DEF Rests
    <2> HIDE DEF e
    <2>3. Takes(d, u, e)
      <3>1. Read(e, \h1D) = e
        BY <2>2, ReadAtLost
      <3> QED
        BY <1>1, <2>1, <3>1, TakesPair
    <2>4. Takes(d, PauseCode, e)
      BY <1>5, <1>6, <2>2, <2>3
    <2> QED
      BY <1>4, <2>2, <2>4 DEF Settled
  <1>9. CASE d.at = "lost"
    <2>1. Takes(d, PauseCode, d)
      BY <1>5, <1>6, <1>9
    <2> QED
      BY <1>4, <1>9, <2>1 DEF Settled
  <1> QED
    BY <1>4, <1>7, <1>8, <1>9 DEF Close, Rests

LEMMA PausePressed ==
  ASSUME NEW down, NEW code \in Pause(down).press,
         NEW d \in Configs, NEW g \in Configs, Close(d, g)
  PROVE  /\ code \in Seq(Byte)
         /\ \E e \in Configs : Takes(d, code, e) /\ Close(e, g) /\ Settled(e)
  <1>1. code = PauseCode \/ code = <<\hE0, \h46, \hE0, \hC6>>
    BY DEF Pause
  <1>2. CASE code = PauseCode
    BY <1>2, PauseRead
  <1>3. CASE code = <<\hE0, \h46, \hE0, \hC6>>
    <2> DEFINE a == \h46
               b == \hC6
    <2>1. a \in Silent /\ b \in Silent /\ b # \h2A /\ b # \hB7
      BY DEF Silent
    <2>2. code = <<\hE0, a, \hE0, b>>
      BY <1>3
    <2> HIDE DEF a, b
    <2> QED
      BY <2>1, <2>2, SilentFour
  <1> QED
    BY <1>1, <1>2, <1>3

(* Whatever a key sends is a sequence of bytes.  *)
LEMMA CodeType ==
  ASSUME NEW k \in Keys, NEW down, NEW code,
         \/ code \in Codes(k, down).press
         \/ k # "PAUSE" /\ (code = Codes(k, down).repeat \/ code \in Codes(k, down).release)
  PROVE  code \in Seq(Byte)
  <1> DEFINE empty == {}
             nothing == <<>>
             none == Synced(empty, empty, nothing)
  <1>1. none \in Configs /\ Close(none, none)
    <2>1. empty \in SUBSET Locks /\ nothing \in Seq(Chars)
      BY EmptySeq
    <2> HIDE DEF empty, nothing
    <2>2. none \in Configs /\ none.at = "first"
      BY <2>1, SyncedType, Zenon
    <2> QED
      BY <2>2 DEF Close, Rests
  <1> HIDE DEF none
  <1>2. CASE k \in OtherKeys
    <2>1. PICK b, e0 : HasCode(k, b, e0)
      BY <1>2, KeyCodes DEF Coded
    <2>2. Spelt(b, e0) \in Seq(Byte) /\ Spelt(b + 128, e0) \in Seq(Byte)
      BY <2>1, SpeltType
    <2>3. \A front \in Fronts(down) : front \o Spelt(b, e0) \in Seq(Byte)
      BY <1>1, <2>2, FrontRead, ConcatProperties
    <2>4. \A back \in Backs(down) : Spelt(b + 128, e0) \o back \in Seq(Byte)
      BY <1>1, <2>2, BackRead, ConcatProperties
    <2>5. CASE code \in Codes(k, down).press \/ code = Codes(k, down).repeat
      <3>1. code = Spelt(b, e0) \/ \E front \in Fronts(down) : code = front \o Spelt(b, e0)
        BY <2>1, <2>5, PressCodes DEF Fronted
      <3> QED
        BY <2>2, <2>3, <3>1
    <2>6. CASE code \in Codes(k, down).release
      <3>1. \/ code = Spelt(b + 128, e0)
            \/ \E back \in Backs(down) : code = Spelt(b + 128, e0) \o back
        BY <2>1, <2>6, ReleaseCodes
      <3> QED
        BY <2>2, <2>4, <3>1
    <2> QED
      BY <2>5, <2>6
  <1>3. CASE k = "PRINTSCREEN"
    <2>1. Codes(k, down) = PrintScreen(down)
      BY <1>3 DEF Codes
    <2> QED
      BY <1>1, <1>3, <2>1, PrintCode
  <1>4. CASE k = "PAUSE"
    <2>1. Codes(k, down) = Pause(down)
      BY <1>4 DEF Codes
    <2> QED
      BY <1>1, <1>4, <2>1, PausePressed
  <1> QED
    BY <1>2, <1>3, <1>4 DEF OtherKeys

-----------------------------------------------------------------------------
(* The invariant of the keyboard.                                          *)

KeysTypeOK ==
  /\ strokes \in 0..use.strokes /\ held \subseteq use.keys
  /\ sending \in Seq(Byte) /\ kb_in \in Seq(Byte) /\ port \in BOOLEAN
  /\ Len(kb_in) <= KB_IN_BYTES
  /\ pc \in (Points \ {"lost"}) \union Leds
  /\ parsed \in 0..5 /\ (parsed > 0 <=> pc = "pause")
  /\ key \in Special \union {"none"} /\ make \in (SUBSET BOOLEAN) \ {{}}
  /\ flags \in SUBSET Flags /\ locks \in SUBSET Locks /\ lit \in SUBSET Locks
  /\ astray \in BOOLEAN
  /\ delivered \in Seq(Chars) /\ typed \in Seq(Chars)

(* Unless it is astray, key holds no special key, and the bytes that are   *)
(* on their way, read as decoder functions, take keyboard_read to where it *)
(* is in step.                                                             *)
OnCourse == \E d \in Configs : Runs(Now, kb_in \o sending, d) /\ Ahead(d)

KeysInv ==
  /\ use \in Uses /\ KeysTypeOK /\ "PAUSE" \notin held
  /\ ~astray => key = "none" /\ OnCourse

LEMMA AppendThenTail ==
  ASSUME NEW S, NEW s \in Seq(S), NEW t \in Seq(S), t # <<>>
  PROVE  Append(s, Head(t)) \o Tail(t) = s \o t
  <1>1. Head(t) \in S /\ Tail(t) \in Seq(S) /\ Len(Tail(t)) = Len(t) - 1
        /\ Len(s) \in Nat /\ Len(t) \in Nat /\ Len(t) > 0 /\ Head(t) = t[1]
        /\ \A i \in 1..(Len(t) - 1) : Tail(t)[i] = t[i + 1]
    BY HeadTailProperties, LenProperties, EmptySeq
  <1> DEFINE a == Append(s, Head(t))
             u == Tail(t)
  <1>2. a \in Seq(S) /\ Len(a) = Len(s) + 1 /\ a[Len(s) + 1] = Head(t)
        /\ \A i \in 1..Len(s) : a[i] = s[i]
    BY <1>1, AppendProperties
  <1>3. u \in Seq(S) /\ Len(u) = Len(t) - 1 /\ \A i \in 1..(Len(t) - 1) : u[i] = t[i + 1]
    BY <1>1
  <1> SUFFICES a \o u = s \o t
    OBVIOUS
  <1> HIDE DEF a, u
  <1>4. /\ a \o u \in Seq(S) /\ Len(a \o u) = Len(s) + Len(t)
        /\ \A i \in 1..(Len(s) + Len(t)) :
             (a \o u)[i] = IF i <= Len(s) + 1 THEN a[i] ELSE u[i - (Len(s) + 1)]
    <2>1. /\ a \o u \in Seq(S) /\ Len(a \o u) = Len(a) + Len(u)
          /\ \A i \in 1..(Len(a) + Len(u)) :
               (a \o u)[i] = IF i <= Len(a) THEN a[i] ELSE u[i - Len(a)]
      BY <1>2, <1>3, ConcatProperties
    <2>2. Len(a) + Len(u) = Len(s) + Len(t)
      BY <1>1, <1>2, <1>3
    <2> QED
      BY <1>2, <2>1, <2>2
  <1>5. /\ s \o t \in Seq(S) /\ Len(s \o t) = Len(s) + Len(t)
        /\ \A i \in 1..(Len(s) + Len(t)) :
             (s \o t)[i] = IF i <= Len(s) THEN s[i] ELSE t[i - Len(s)]
    BY ConcatProperties
  <1>6. \A i \in 1..(Len(s) + Len(t)) : (a \o u)[i] = (s \o t)[i]
    <2> SUFFICES ASSUME NEW i \in 1..(Len(s) + Len(t)) PROVE (a \o u)[i] = (s \o t)[i]
      OBVIOUS
    <2>1. CASE i <= Len(s)
      BY <1>1, <1>2, <1>4, <1>5, <2>1
    <2>2. CASE i = Len(s) + 1
      <3>1. (a \o u)[i] = a[Len(s) + 1]
        BY <1>1, <1>4, <2>2
      <3>2. (s \o t)[i] = t[1]
        <4>1. i - Len(s) = 1 /\ ~(i <= Len(s))
          BY <1>1, <2>2
        <4> QED
          BY <1>5, <4>1
      <3> QED
        BY <1>1, <1>2, <3>1, <3>2
    <2>3. CASE i > Len(s) + 1
      <3>1. /\ i - (Len(s) + 1) \in 1..(Len(t) - 1) /\ ~(i <= Len(s) + 1) /\ ~(i <= Len(s))
            /\ (i - (Len(s) + 1)) + 1 = i - Len(s)
        BY <1>1, <2>3
      <3>2. (a \o u)[i] = u[i - (Len(s) + 1)]
        BY <1>4, <3>1
      <3>3. u[i - (Len(s) + 1)] = t[(i - (Len(s) + 1)) + 1]
        BY <1>3, <3>1
      <3>4. (s \o t)[i] = t[i - Len(s)]
        BY <1>5, <3>1
      <3> QED
        BY <3>1, <3>2, <3>3, <3>4
    <2>4. i \in Int /\ Len(s) \in Int
      BY <1>1
    <2>5. i <= Len(s) \/ i = Len(s) + 1 \/ i > Len(s) + 1
      BY <2>4
    <2> QED
      BY <2>1, <2>2, <2>3, <2>5
  <1> QED
    BY <1>4, <1>5, <1>6, SeqEqual

LEMMA HeadOfConcat ==
  ASSUME NEW S, NEW s \in Seq(S), NEW t \in Seq(S), s # <<>>
  PROVE  /\ s \o t \in Seq(S) /\ s \o t # <<>> /\ Head(s) \in S
         /\ Head(s \o t) = Head(s) /\ Tail(s \o t) = Tail(s) \o t
  <1>1. /\ Head(s) \in S /\ Tail(s) \in Seq(S) /\ Len(Tail(s)) = Len(s) - 1
        /\ Len(s) \in Nat /\ Len(t) \in Nat /\ Len(s) > 0 /\ Head(s) = s[1]
        /\ \A i \in 1..(Len(s) - 1) : Tail(s)[i] = s[i + 1]
    BY HeadTailProperties, LenProperties, EmptySeq
  <1>2. /\ s \o t \in Seq(S) /\ Len(s \o t) = Len(s) + Len(t)
        /\ \A i \in 1..(Len(s) + Len(t)) :
             (s \o t)[i] = IF i <= Len(s) THEN s[i] ELSE t[i - Len(s)]
    BY ConcatProperties
  <1> DEFINE w == s \o t
             u == Tail(s)
  <1> SUFFICES w \in Seq(S) /\ w # <<>> /\ Head(w) = Head(s) /\ Tail(w) = u \o t
    BY <1>1
  <1>3. /\ w \in Seq(S) /\ Len(w) = Len(s) + Len(t)
        /\ \A i \in 1..(Len(s) + Len(t)) : w[i] = IF i <= Len(s) THEN s[i] ELSE t[i - Len(s)]
    BY <1>2
  <1>4. u \in Seq(S) /\ Len(u) = Len(s) - 1 /\ \A i \in 1..(Len(s) - 1) : u[i] = s[i + 1]
    BY <1>1
  <1> HIDE DEF w, u
  <1>5. w # <<>>
    BY <1>1, <1>3, EmptySeq
  <1>6. /\ Head(w) = w[1] /\ Tail(w) \in Seq(S) /\ Len(Tail(w)) = Len(w) - 1
        /\ \A i \in 1..(Len(w) - 1) : Tail(w)[i] = w[i + 1]
    BY <1>3, <1>5, HeadTailProperties
  <1>7. w[1] = s[1]
    BY <1>1, <1>3
  <1>8. /\ u \o t \in Seq(S) /\ Len(u \o t) = Len(w) - 1
        /\ \A i \in 1..(Len(w) - 1) :
             (u \o t)[i] = IF i <= Len(s) - 1 THEN u[i] ELSE t[i - (Len(s) - 1)]
    <2>1. /\ u \o t \in Seq(S) /\ Len(u \o t) = Len(u) + Len(t)
          /\ \A i \in 1..(Len(u) + Len(t)) :
               (u \o t)[i] = IF i <= Len(u) THEN u[i] ELSE t[i - Len(u)]
      BY <1>4, ConcatProperties
    <2>2. Len(u) + Len(t) = Len(w) - 1
      BY <1>1, <1>3, <1>4
    <2> QED
      BY <1>4, <2>1, <2>2
  <1>9. \A i \in 1..(Len(w) - 1) : Tail(w)[i] = (u \o t)[i]
    <2> SUFFICES ASSUME NEW i \in 1..(Len(w) - 1) PROVE w[i + 1] = (u \o t)[i]
      BY <1>6
    <2>1. i + 1 \in 1..(Len(s) + Len(t)) /\ i \in Int
      BY <1>1, <1>3
    <2>2. CASE i <= Len(s) - 1
      <3>1. i \in 1..(Len(s) - 1) /\ i + 1 <= Len(s)
        BY <1>1, <2>1, <2>2
      <3> QED
        BY <1>3, <1>4, <1>8, <2>1, <2>2, <3>1
    <2>3. CASE ~(i <= Len(s) - 1)
      <3>1. ~(i + 1 <= Len(s)) /\ (i + 1) - Len(s) = i - (Len(s) - 1)
        BY <1>1, <2>1, <2>3
      <3>2. w[i + 1] = t[(i + 1) - Len(s)]
        BY <1>3, <2>1, <3>1
      <3> QED
        BY <1>8, <2>3, <3>1, <3>2
    <2> QED
      BY <2>2, <2>3
  <1>10. Tail(w) = u \o t
    BY <1>6, <1>8, <1>9, SeqEqual
  <1> QED
    BY <1>1, <1>3, <1>5, <1>6, <1>7, <1>10

-----------------------------------------------------------------------------
(* What the actions do to the types.                                       *)

LEMMA KeyOfOrdinary ==
  ASSUME NEW code, NEW e0, NEW with, NEW lights
  PROVE  KeyOf(code, e0, with, lights) \notin Special
  <1> DEFINE row == keymap(code % 128)
  <1>1. Column(row, e0, with, lights) \in {1, 2, 3}
    BY DEF Column
  <1>2. row[1] \notin Special /\ row[2] \notin Special /\ row[3] \notin Special
    BY DEF keymap, Special
  <1> HIDE DEF row
  <1>3. row[Column(row, e0, with, lights)] \notin Special
    BY <1>1, <1>2
  <1> QED
    BY <1>3 DEF KeyOf, row

LEMMA SingletonOf ==
  ASSUME NEW S, NEW e \in S
  PROVE  {e} \in (SUBSET S) \ {{}}
  <1>1. {e} \in SUBSET S
    OBVIOUS
  <1>2. {e} # {}
    OBVIOUS
  <1> QED
    BY <1>1, <1>2

LEMMA LessIsBoolean ==
  ASSUME NEW a \in Int, NEW b \in Int
  PROVE  (a < b) \in BOOLEAN
  OBVIOUS

LEMMA DeliverTypes ==
  ASSUME NEW k, NEW makes \in BOOLEAN, Deliver(k, makes), flags' \in SUBSET Flags,
         delivered \in Seq(Chars)
  PROVE  /\ key' \in Special \union {"none"} /\ make' \in (SUBSET BOOLEAN) \ {{}}
         /\ delivered' \in Seq(Chars)
         /\ k \notin Special => key' = "none"
  <1>1. Received(k, makes, flags', locks') \in Seq(Chars)
    BY ReceivedType
  <1>2. delivered' \in Seq(Chars)
    BY <1>1, ConcatProperties DEF Deliver
  <1>3. key' \in Special \union {"none"} /\ (k \notin Special => key' = "none")
    BY DEF Deliver
  <1>4. make' \in (SUBSET BOOLEAN) \ {{}}
    <2>1. make' = {makes}
      BY DEF Deliver
    <2> QED
      BY <2>1, SingletonOf, Zenon
  <1> QED
    BY <1>2, <1>3, <1>4

DecoderTypeOK ==
  /\ key \in Special \union {"none"} /\ make \in (SUBSET BOOLEAN) \ {{}}
  /\ flags \in SUBSET Flags /\ locks \in SUBSET Locks
  /\ delivered \in Seq(Chars)

LEMMA KnownTypes ==
  ASSUME DecoderTypeOK, NEW k, NEW makes \in BOOLEAN, Known(k, makes)
  PROVE  DecoderTypeOK' /\ (k \notin Special => key' = "none") /\ pc' \in {"first", "led_code"}
  <1>1. flags' \in SUBSET Flags /\ locks' \in SUBSET Locks
    BY AfterTypes DEF Known, DecoderTypeOK
  <1>2. Deliver(k, makes) /\ delivered \in Seq(Chars)
    BY DEF Known, DecoderTypeOK
  <1>3. pc' \in {"first", "led_code"}
    BY DEF Known
  <1> QED
    BY <1>1, <1>2, <1>3, DeliverTypes DEF DecoderTypeOK

LEMMA DecodeTypes ==
  ASSUME DecoderTypeOK, NEW code \in Int, NEW e0, Decode(code, e0)
  PROVE  /\ DecoderTypeOK' /\ pc' \in {"first", "led_code"}
         /\ astray' = (astray \/ code = \hE1)
  <1>1. CASE /\ key \in Special /\ UNCHANGED <<flags, locks>>
             /\ \E makes \in make : Deliver(key, makes)
             /\ pc' = "first"
    <2>1. PICK makes \in make : Deliver(key, makes)
      BY <1>1
    <2>2. makes \in BOOLEAN /\ flags' \in SUBSET Flags /\ delivered \in Seq(Chars)
          /\ locks' \in SUBSET Locks
      BY <1>1 DEF DecoderTypeOK
    <2> QED
      BY <1>1, <2>1, <2>2, DeliverTypes DEF DecoderTypeOK, Decode
  <1>2. CASE key \notin Special /\ Known(KeyOf(code, e0, flags, locks), code < 128)
    <2>1. (code < 128) \in BOOLEAN
      BY LessIsBoolean
    <2> QED
      BY <1>2, <2>1, KnownTypes DEF Decode
  <1> QED
    BY <1>1, <1>2 DEF Decode

LEMMA GoTypes ==
  ASSUME DecoderTypeOK, NEW point, Go(point)
  PROVE  DecoderTypeOK' /\ pc' = point /\ key' = key /\ astray' = astray
         /\ UNCHANGED <<flags, locks, delivered>>
  BY DEF DecoderTypeOK, Go, state

LEMMA RecogniseTypes ==
  ASSUME DecoderTypeOK, NEW k, NEW makes \in BOOLEAN, Recognise(k, makes)
  PROVE  DecoderTypeOK' /\ pc' = "first" /\ astray' = TRUE
  <1>1. flags' \in SUBSET Flags /\ delivered \in Seq(Chars) /\ locks' \in SUBSET Locks
        /\ Deliver(k, makes) /\ pc' = "first" /\ astray' = TRUE
    BY DEF DecoderTypeOK, Recognise
  <1> QED
    BY <1>1, DeliverTypes DEF DecoderTypeOK

-----------------------------------------------------------------------------
(* One byte is Read.                                                       *)

LEMMA NowIs ==
  ASSUME KeysTypeOK
  PROVE  /\ Now \in Configs /\ Now.parsed = parsed /\ Now.flags = flags /\ Now.locks = locks
         /\ Now.delivered = delivered
         /\ pc \in Leds => Now.at = "first"
         /\ pc \notin Leds => Now.at = pc
  <1> DEFINE point == IF pc \in Leds THEN "first" ELSE pc
  <1>1. point \in Points /\ parsed \in 0..5 /\ flags \in SUBSET Flags
        /\ locks \in SUBSET Locks /\ delivered \in Seq(Chars)
    BY DEF KeysTypeOK, Points
  <1>2. pc \in Leds => point = "first"
    OBVIOUS
  <1>3. pc \notin Leds => point = pc
    OBVIOUS
  <1> HIDE DEF point
  <1>4. Now = Config(point, parsed, flags, locks, delivered)
    BY DEF Now, point
  <1> QED
    BY <1>1, <1>2, <1>3, <1>4, ConfigType

LEMMA DecodeStep ==
  ASSUME KeysTypeOK, key = "none", NEW code \in Int, NEW e0, Decode(code, e0), parsed' = 0
  PROVE  key' = "none" /\ Now' = Decoded(Now, code, e0)
  <1> DEFINE k == KeyOf(code, e0, flags, locks)
             makes == code < 128
  <1>1. key \notin Special
    BY DEF Special
  <1>2. Known(k, makes)
    BY <1>1 DEF Decode
  <1>3. k \notin Special
    BY KeyOfOrdinary
  <1>4. makes \in BOOLEAN /\ DecoderTypeOK
    <2>1. DecoderTypeOK
      BY Zenon DEF KeysTypeOK, DecoderTypeOK
    <2>2. (code < 128) \in BOOLEAN
      BY LessIsBoolean
    <2> QED
      BY <2>1, <2>2
  <1>5. /\ flags' = FlagsAfter(k, makes, flags) /\ locks' = LocksAfter(k, makes, locks)
        /\ delivered' = delivered \o Received(k, makes, flags', locks')
    BY <1>2, Zenon DEF Known, Deliver
  <1>6. pc' \in {"first", "led_code"} /\ key' = "none"
    BY <1>2, <1>3, <1>4, KnownTypes
  <1>7. Now' = Config("first", 0, flags', locks', delivered')
    <2>1. (IF pc' \in Leds THEN "first" ELSE pc') = "first"
      BY <1>6 DEF Leds
    <2> QED
      BY <2>1, Zenon DEF Now
  <1>8. Now.flags = flags /\ Now.locks = locks /\ Now.delivered = delivered
    BY NowIs
  <1>9. Decoded(Now, code, e0) =
          Config("first", 0, FlagsAfter(k, makes, flags), LocksAfter(k, makes, locks),
                 delivered \o Received(k, makes, FlagsAfter(k, makes, flags),
                                       LocksAfter(k, makes, locks)))
    <2> DEFINE n == Now
    <2>1. n.flags = flags /\ n.locks = locks /\ n.delivered = delivered
      BY <1>8
    <2> HIDE DEF n
    <2>2. Decoded(n, code, e0) =
            Config("first", 0, FlagsAfter(k, makes, flags), LocksAfter(k, makes, locks),
                   delivered \o Received(k, makes, FlagsAfter(k, makes, flags),
                                         LocksAfter(k, makes, locks)))
      BY <2>1 DEF Decoded
    <2> QED
      BY <2>2 DEF n
  <1> DEFINE with == FlagsAfter(k, makes, flags)
             lights == LocksAfter(k, makes, locks)
  <1>10. Now' = Config("first", 0, with, lights, delivered \o Received(k, makes, with, lights))
    <2>1. flags' = with /\ locks' = lights
      BY <1>5, Zenon
    <2>2. delivered' = delivered \o Received(k, makes, with, lights)
      BY <1>5, <2>1, Zenon
    <2> HIDE DEF with, lights
    <2> QED
      BY <1>7, <2>1, <2>2, Zenon
  <1> QED
    BY <1>6, <1>9, <1>10, Zenon

LEMMA GoStep ==
  ASSUME KeysTypeOK, NEW point, Go(point), point \notin Leds, NEW n, parsed' = n
  PROVE  key' = key /\ Now' = Config(point, n, Now.flags, Now.locks, Now.delivered)
  <1>1. pc' = point /\ key' = key /\ flags' = flags /\ locks' = locks /\ delivered' = delivered
    BY DEF Go, state
  <1>2. Now' = Config(point, n, flags, locks, delivered)
    BY <1>1, Zenon DEF Now
  <1> QED
    BY <1>1, <1>2, NowIs

(* What is shown of an action that reads the byte b.  *)
OneByte(b) ==
  /\ DecoderTypeOK' /\ pc' \in (Points \ {"lost"}) \union Leds
  /\ parsed' \in 0..5 /\ (parsed' > 0 <=> pc' = "pause")
  /\ astray' \in BOOLEAN /\ (astray => astray')
  /\ key = "none" /\ ~astray' => key' = "none" /\ Now' = Read(Now, b)

LEMMA TypesOfDecoder ==
  ASSUME KeysTypeOK
  PROVE  /\ DecoderTypeOK /\ astray \in BOOLEAN
         /\ pc # "pause" => parsed = 0
         /\ pc = "pause" => parsed \in 1..5
  <1>1. DecoderTypeOK /\ astray \in BOOLEAN
    BY Zenon DEF KeysTypeOK, DecoderTypeOK
  <1> QED
    BY <1>1 DEF KeysTypeOK

LEMMA ByteGoes ==
  ASSUME KeysTypeOK, NEW b, NEW point \in Points \ {"lost"}, NEW n \in 0..5,
         n > 0 <=> point = "pause", Go(point), parsed' = n,
         Read(Now, b) = Config(point, n, Now.flags, Now.locks, Now.delivered)
  PROVE  OneByte(b)
  <1>1. DecoderTypeOK /\ astray \in BOOLEAN
    BY TypesOfDecoder
  <1>2. DecoderTypeOK' /\ pc' = point /\ key' = key /\ astray' = astray
    BY <1>1, GoTypes
  <1>3. point \notin Leds
    BY DEF Points, Leds
  <1>4. Now' = Read(Now, b)
    BY <1>3, GoStep, Zenon
  <1> QED
    BY <1>1, <1>2, <1>4 DEF OneByte

LEMMA ByteDecodes ==
  ASSUME KeysTypeOK, NEW b, NEW code \in Int, NEW e0, Decode(code, e0), parsed' = 0,
         code # \hE1 => Read(Now, b) = Decoded(Now, code, e0)
  PROVE  OneByte(b)
  <1>1. DecoderTypeOK /\ astray \in BOOLEAN
    BY TypesOfDecoder
  <1>2. /\ DecoderTypeOK' /\ pc' \in {"first", "led_code"}
        /\ astray' = (astray \/ code = \hE1)
    BY <1>1, DecodeTypes
  <1>3. key = "none" /\ code # \hE1 => key' = "none" /\ Now' = Read(Now, b)
    BY DecodeStep, Zenon
  <1>4. pc' \in (Points \ {"lost"}) \union Leds /\ pc' # "pause"
    BY <1>2 DEF Points, Leds
  <1>5. astray' \in BOOLEAN /\ (astray => astray') /\ (~astray' => code # \hE1)
    BY <1>2, Zenon
  <1>6. parsed' \in 0..5 /\ (parsed' > 0 <=> pc' = "pause")
    BY <1>4
  <1> QED
    BY <1>2, <1>3, <1>4, <1>5, <1>6, Zenon DEF OneByte

LEMMA ByteRecognised ==
  ASSUME KeysTypeOK, NEW b, NEW k, NEW makes \in BOOLEAN, Recognise(k, makes), parsed' = 0
  PROVE  OneByte(b)
  <1>1. DecoderTypeOK
    BY TypesOfDecoder
  <1>2. DecoderTypeOK' /\ pc' = "first" /\ astray' = TRUE
    BY <1>1, RecogniseTypes
  <1>4. pc' \in (Points \ {"lost"}) \union Leds /\ pc' # "pause"
    BY <1>2 DEF Points, Leds
  <1> QED
    BY <1>2, <1>4 DEF OneByte

LEMMA PlacesAre ==
  ASSUME KeysTypeOK
  PROVE  /\ \A point \in Points : pc = point => Now.at = point
         /\ {"first", "pause", "extended", "print", "print_end", "unprint", "unprint_end"}
              = Points \ {"lost"}
         /\ \A point : At(Now, point) = Config(point, 0, Now.flags, Now.locks, Now.delivered)
  <1>1. \A point \in Points : point \notin Leds
    BY DEF Points, Leds
  <1>2. {"first", "pause", "extended", "print", "print_end", "unprint", "unprint_end"}
              = Points \ {"lost"}
    BY DEF Points
  <1> QED
    BY <1>1, <1>2, NowIs DEF At

LEMMA FirstByteRead ==
  ASSUME KeysTypeOK, ReadFirst, NextByte \in Int
  PROVE  OneByte(NextByte)
  <1>1. pc = "first" /\ Now.at = "first" /\ parsed = 0
    BY PlacesAre, TypesOfDecoder DEF ReadFirst, KeyStep, Points
  <1>2. CASE NextByte = \hE1 /\ Go("pause") /\ parsed' = 1
    <2>1. "pause" \in Points \ {"lost"} /\ 1 \in 0..5 /\ 1 > 0
      BY DEF Points
    <2>2. Read(Now, NextByte) = Config("pause", 1, Now.flags, Now.locks, Now.delivered)
      BY <1>1, <1>2, ReadAtFirst, Zenon
    <2> QED
      BY <1>2, <2>1, <2>2, ByteGoes
  <1>3. CASE NextByte = \hE0 /\ Go("extended") /\ parsed' = 0
    <2>1. "extended" \in Points \ {"lost"} /\ 0 \in 0..5 /\ ~(0 > 0)
      BY DEF Points
    <2>2. Read(Now, NextByte) = Config("extended", 0, Now.flags, Now.locks, Now.delivered)
      BY <1>1, <1>3, ReadAtFirst, Zenon DEF At
    <2> QED
      BY <1>3, <2>1, <2>2, ByteGoes
  <1>4. CASE NextByte \notin {\hE0, \hE1} /\ Decode(NextByte, FALSE) /\ parsed' = 0
    <2>1. Read(Now, NextByte) = Decoded(Now, NextByte, FALSE)
      <3>1. NextByte # \hE0 /\ NextByte # \hE1
        BY <1>4
      <3> QED
        BY <1>1, <3>1, ReadAtFirst, Zenon
    <2> QED
      BY <1>4, <2>1, ByteDecodes, Zenon
  <1>5. parsed' = IF NextByte = \hE1 THEN 1 ELSE 0
    BY DEF ReadFirst
  <1>6. \/ NextByte = \hE1 /\ Go("pause")
        \/ NextByte = \hE0 /\ Go("extended")
        \/ NextByte \notin {\hE0, \hE1} /\ Decode(NextByte, FALSE)
    BY Zenon DEF ReadFirst
  <1>7. /\ NextByte = \hE1 => parsed' = 1
        /\ NextByte # \hE1 => parsed' = 0
    BY <1>5
  <1>8. \hE0 # \hE1
    OBVIOUS
  <1> HIDE DEF NextByte
  <1> QED
    <2>1. CASE NextByte = \hE1 /\ Go("pause")
      BY <1>2, <1>7, <2>1
    <2>2. CASE NextByte = \hE0 /\ Go("extended")
      BY <1>3, <1>7, <1>8, <2>2
    <2>3. CASE NextByte \notin {\hE0, \hE1} /\ Decode(NextByte, FALSE)
      <3>1. NextByte # \hE1
        BY <2>3
      <3> QED
        BY <1>4, <1>7, <2>3, <3>1
    <2> QED
      BY <1>6, <2>1, <2>2, <2>3

LEMMA PauseByteRead ==
  ASSUME KeysTypeOK, ReadPause
  PROVE  OneByte(NextByte)
  <1>1. pc = "pause" /\ Now.at = "pause" /\ parsed \in 1..5 /\ Now.parsed = parsed
        /\ make # {} /\ make \in SUBSET BOOLEAN
    <2>1. pc = "pause" /\ "pause" \in Points
      BY DEF ReadPause, KeyStep, Points
    <2>2. Now.at = "pause" /\ parsed \in 1..5 /\ Now.parsed = parsed
      BY <2>1, PlacesAre, NowIs, TypesOfDecoder
    <2>3. make # {} /\ make \in SUBSET BOOLEAN
      BY DEF KeysTypeOK
    <2> QED
      BY <2>1, <2>2, <2>3
  <1>2. CASE NextByte # PauseCode[parsed + 1] /\ Decode(\hE1, FALSE) /\ parsed' = 0
    <2>1. Read(Now, NextByte) = Decoded(Now, \hE1, FALSE)
      BY <1>1, <1>2, ReadAtPause, Zenon
    <2> DEFINE code == \hE1
    <2>2. code \in Int
      OBVIOUS
    <2>3. Decode(code, FALSE) /\ Read(Now, NextByte) = Decoded(Now, code, FALSE)
      BY <1>2, <2>1
    <2> HIDE DEF code
    <2> QED
      BY <1>2, <2>2, <2>3, ByteDecodes, Zenon
  <1>3. CASE NextByte = PauseCode[parsed + 1] /\ parsed < 5 /\ Go("pause") /\ parsed' = parsed + 1
    <2>1. "pause" \in Points \ {"lost"} /\ parsed + 1 \in 0..5 /\ parsed + 1 > 0
      BY <1>1, <1>3 DEF Points
    <2>2. Read(Now, NextByte) =
            Config("pause", parsed + 1, Now.flags, Now.locks, Now.delivered)
      BY <1>1, <1>3, ReadAtPause, Zenon
    <2> QED
      BY <1>3, <2>1, <2>2, ByteGoes
  <1>4. CASE \E makes \in make : Recognise("PAUSEBREAK", makes) /\ parsed' = 0
    <2>1. PICK makes \in make : Recognise("PAUSEBREAK", makes) /\ parsed' = 0
      BY <1>4
    <2>2. makes \in BOOLEAN
      BY <1>1
    <2> QED
      BY <2>1, <2>2, ByteRecognised
  <1> QED
    BY <1>2, <1>3, <1>4, Zenon DEF ReadPause

LEMMA ExtendedByteRead ==
  ASSUME KeysTypeOK, ReadExtended, NextByte \in Int
  PROVE  OneByte(NextByte)
  <1>1. pc = "extended" /\ Now.at = "extended" /\ parsed' = 0
    BY PlacesAre, TypesOfDecoder DEF ReadExtended, KeyStep, Points
  <1>0. {"print", "unprint"} \subseteq Points \ {"lost"} /\ 0 \in 0..5 /\ ~(0 > 0)
    BY DEF Points
  <1>2. CASE NextByte = \h2A /\ Go("print")
    <2>1. Read(Now, NextByte) = Config("print", 0, Now.flags, Now.locks, Now.delivered)
      BY <1>1, <1>2, ReadAtExtended, Zenon DEF At
    <2> QED
      BY <1>0, <1>1, <1>2, <2>1, ByteGoes
  <1>3. CASE NextByte = \hB7 /\ Go("unprint")
    <2>1. Read(Now, NextByte) = Config("unprint", 0, Now.flags, Now.locks, Now.delivered)
      BY <1>1, <1>3, ReadAtExtended, Zenon DEF At
    <2> QED
      BY <1>0, <1>1, <1>3, <2>1, ByteGoes
  <1>4. CASE NextByte \notin {\h2A, \hB7} /\ Decode(NextByte, TRUE)
    <2>1. NextByte # \h2A /\ NextByte # \hB7
      BY <1>4
    <2>2. Read(Now, NextByte) = Decoded(Now, NextByte, TRUE)
      BY <1>1, <2>1, ReadAtExtended, Zenon
    <2> QED
      BY <1>1, <1>4, <2>2, ByteDecodes, Zenon
  <1> QED
    BY <1>2, <1>3, <1>4, Zenon DEF ReadExtended

(* The two places of a code of PrintScreen, of which a press and a release *)
(* have two each.                                                          *)
LEMMA PrintByteRead ==
  ASSUME KeysTypeOK, ReadPrint("print", "print_end", TRUE), NextByte \in Int
  PROVE  OneByte(NextByte)
  <1>0. "print_end" \in Points \ {"lost"} /\ "print" \in Points /\ 0 \in 0..5 /\ ~(0 > 0)
    BY DEF Points
  <1>1. CASE /\ KeyStep("print") /\ UNCHANGED parsed
             /\ IF NextByte = \hE0 THEN Go("print_end") ELSE Decode(NextByte, FALSE)
    <2>1. Now.at = "print" /\ parsed' = 0
      BY <1>0, <1>1, PlacesAre, TypesOfDecoder DEF KeyStep
    <2>2. CASE NextByte = \hE0
      <3>1. Read(Now, NextByte) = Config("print_end", 0, Now.flags, Now.locks, Now.delivered)
        BY <2>1, <2>2, ReadAtPrint, Zenon DEF At
      <3>2. Go("print_end")
        BY <1>1, <2>2, Zenon
      <3> QED
        BY <1>0, <2>1, <3>1, <3>2, ByteGoes
    <2>3. CASE NextByte # \hE0
      <3>1. NextByte # \hE1 => Read(Now, NextByte) = Decoded(Now, NextByte, FALSE)
        BY <2>1, <2>3, ReadAtPrint, Zenon
      <3>2. Decode(NextByte, FALSE)
        BY <1>1, <2>3, Zenon
      <3> QED
        BY <2>1, <3>1, <3>2, ByteDecodes, Zenon
    <2> QED
      BY <2>2, <2>3
  <1>2. CASE /\ KeyStep("print_end") /\ UNCHANGED parsed
             /\ IF NextByte = \h37 THEN Recognise("PRINTSCREEN", TRUE) ELSE Decode(NextByte, TRUE)
    <2>1. Now.at = "print_end" /\ parsed' = 0
      BY <1>0, <1>2, PlacesAre, TypesOfDecoder DEF KeyStep
    <2>2. CASE NextByte = \h37
      BY <1>2, <2>1, <2>2, ByteRecognised, Zenon
    <2>3. CASE NextByte # \h37
      <3>1. Read(Now, NextByte) = Decoded(Now, NextByte, TRUE)
        BY <2>1, <2>3, ReadAtPrintEnd, Zenon
      <3>2. Decode(NextByte, TRUE)
        BY <1>2, <2>3, Zenon
      <3> QED
        BY <2>1, <3>1, <3>2, ByteDecodes, Zenon
    <2> QED
      BY <2>2, <2>3
  <1> QED
    BY <1>1, <1>2, Zenon DEF ReadPrint

LEMMA UnprintByteRead ==
  ASSUME KeysTypeOK, ReadPrint("unprint", "unprint_end", FALSE), NextByte \in Int
  PROVE  OneByte(NextByte)
  <1>0. "unprint_end" \in Points \ {"lost"} /\ "unprint" \in Points /\ 0 \in 0..5 /\ ~(0 > 0)
    BY DEF Points
  <1>1. CASE /\ KeyStep("unprint") /\ UNCHANGED parsed
             /\ IF NextByte = \hE0 THEN Go("unprint_end") ELSE Decode(NextByte, FALSE)
    <2>1. Now.at = "unprint" /\ parsed' = 0
      BY <1>0, <1>1, PlacesAre, TypesOfDecoder DEF KeyStep
    <2>2. CASE NextByte = \hE0
      <3>1. Read(Now, NextByte) = Config("unprint_end", 0, Now.flags, Now.locks, Now.delivered)
        BY <2>1, <2>2, ReadAtUnprint, Zenon DEF At
      <3>2. Go("unprint_end")
        BY <1>1, <2>2, Zenon
      <3> QED
        BY <1>0, <2>1, <3>1, <3>2, ByteGoes
    <2>3. CASE NextByte # \hE0
      <3>1. NextByte # \hE1 => Read(Now, NextByte) = Decoded(Now, NextByte, FALSE)
        BY <2>1, <2>3, ReadAtUnprint, Zenon
      <3>2. Decode(NextByte, FALSE)
        BY <1>1, <2>3, Zenon
      <3> QED
        BY <2>1, <3>1, <3>2, ByteDecodes, Zenon
    <2> QED
      BY <2>2, <2>3
  <1>2. CASE /\ KeyStep("unprint_end") /\ UNCHANGED parsed
             /\ IF NextByte = \hAA THEN Recognise("PRINTSCREEN", FALSE)
                                   ELSE Decode(NextByte, TRUE)
    <2>1. Now.at = "unprint_end" /\ parsed' = 0
      BY <1>0, <1>2, PlacesAre, TypesOfDecoder DEF KeyStep
    <2>2. CASE NextByte = \hAA
      BY <1>2, <2>1, <2>2, ByteRecognised, Zenon
    <2>3. CASE NextByte # \hAA
      <3>1. Read(Now, NextByte) = Decoded(Now, NextByte, TRUE)
        BY <2>1, <2>3, ReadAtUnprintEnd, Zenon
      <3>2. Decode(NextByte, TRUE)
        BY <1>2, <2>3, Zenon
      <3> QED
        BY <2>1, <3>1, <3>2, ByteDecodes, Zenon
    <2> QED
      BY <2>2, <2>3
  <1> QED
    BY <1>1, <1>2, Zenon DEF ReadPrint

(* Every action that reads a byte.  *)
ReadsByte == \/ ReadFirst \/ ReadPause \/ ReadExtended
             \/ ReadPrint("print", "print_end", TRUE)
             \/ ReadPrint("unprint", "unprint_end", FALSE)

LEMMA ByteTaken ==
  ASSUME KeysTypeOK, ReadsByte
  PROVE  /\ kb_in # <<>> /\ kb_in' = Tail(kb_in) /\ NextByte \in Byte /\ OneByte(NextByte)
         /\ UNCHANGED <<use, strokes, held, sending, port, typed, lit>>
  <1>1. kb_in # <<>> /\ kb_in' = Tail(kb_in)
        /\ UNCHANGED <<use, strokes, held, sending, port, typed, lit>>
    <2>1. \E point : KeyStep(point)
      BY Zenon DEF ReadsByte, ReadFirst, ReadPause, ReadExtended, ReadPrint
    <2> QED
      BY <2>1 DEF KeyStep, get_byte_from_kb_buf, device, wire
  <1>2. kb_in \in Seq(Byte)
    BY DEF KeysTypeOK
  <1>3. NextByte \in Byte
    BY <1>1, <1>2, HeadTailProperties DEF NextByte
  <1>4. NextByte \in Int
    BY <1>3 DEF Byte
  <1>5. OneByte(NextByte)
    BY <1>4, FirstByteRead, PauseByteRead, ExtendedByteRead, PrintByteRead, UnprintByteRead,
       Zenon DEF ReadsByte
  <1> QED
    BY <1>1, <1>3, <1>5

LEMMA ReadsKeep ==
  ASSUME KeysInv, ReadsByte
  PROVE  KeysInv'
  <1>0. use \in Uses /\ KeysTypeOK /\ "PAUSE" \notin held
    BY DEF KeysInv
  <1>1. /\ kb_in # <<>> /\ kb_in' = Tail(kb_in) /\ NextByte \in Byte /\ OneByte(NextByte)
        /\ UNCHANGED <<use, strokes, held, sending, port, typed, lit>>
    BY <1>0, ByteTaken
  <1>2. /\ kb_in \in Seq(Byte) /\ sending \in Seq(Byte) /\ Len(kb_in) <= KB_IN_BYTES
    BY <1>0 DEF KeysTypeOK
  <1>3. kb_in' \in Seq(Byte) /\ Len(kb_in') <= KB_IN_BYTES
    <2>1. kb_in' \in Seq(Byte) /\ Len(kb_in') = Len(kb_in) - 1 /\ Len(kb_in) \in Nat
      BY <1>1, <1>2, HeadTailProperties, LenProperties
    <2> QED
      BY <1>2, <2>1, InputAssumption
  <1>4. KeysTypeOK'
    BY <1>0, <1>1, <1>3 DEF KeysTypeOK, OneByte, DecoderTypeOK
  <1>5. ASSUME ~astray' PROVE key' = "none" /\ OnCourse'
    <2>1. ~astray
      BY <1>1, <1>5, Zenon DEF OneByte
    <2>2. key = "none" /\ OnCourse
      BY <2>1 DEF KeysInv
    <2>3. key' = "none" /\ Now' = Read(Now, NextByte)
      BY <1>1, <1>5, <2>2, Zenon DEF OneByte
    <2>4. PICK d \in Configs : Runs(Now, kb_in \o sending, d) /\ Ahead(d)
      BY <2>2 DEF OnCourse
    <2>5. /\ kb_in \o sending \in Seq(Byte) /\ kb_in \o sending # <<>>
          /\ Head(kb_in \o sending) = NextByte
          /\ Tail(kb_in \o sending) = kb_in' \o sending'
      BY <1>1, <1>2, HeadOfConcat DEF NextByte
    <2>6. Now \in Configs
      BY <1>0, NowIs
    <2>7. Runs(Read(Now, Head(kb_in \o sending)), Tail(kb_in \o sending), d)
      BY <2>4, <2>5, <2>6, RunsFirst, Zenon
    <2>8. Runs(Now', (kb_in \o sending)', d)
      BY <2>3, <2>5, <2>7, Zenon
    <2>9. Ahead(d)'
      BY <1>1, <2>4 DEF Ahead
    <2> QED
      BY <2>3, <2>8, <2>9, Zenon DEF OnCourse
  <1> QED
    BY <1>0, <1>1, <1>4, <1>5 DEF KeysInv

-----------------------------------------------------------------------------
(* A key is pressed, repeats or is released: its code is on its way.       *)

(* What is asked of the code of a stroke: it takes the decoder from where  *)
(* it may be ahead to where it may be ahead then.                          *)
Follows(code, down, means, lights) ==
  \A d \in Configs :
    Ahead(d) => \E e \in Configs : /\ Takes(d, code, e)
                                   /\ Close(e, Synced(down, lights, typed \o means))
                                   /\ Settled(e) \/ WithShift(down)

LEMMA OnItsWay ==
  ASSUME KeysInv, NEW k, NEW code \in Seq(Byte), NEW down,
         NEW means \in Seq(Chars), NEW lights \in SUBSET Locks,
         down \subseteq use.keys, "PAUSE" \notin down,
         Stroke(k, code, down, means, lights),
         ~astray' => Follows(code, down, means, lights)
  PROVE  KeysInv'
  <1>0. use \in Uses /\ KeysTypeOK /\ use.strokes \in Nat
    BY InputAssumption DEF KeysInv
  <1>1. /\ sending = <<>> /\ strokes < use.strokes /\ strokes' = strokes + 1
        /\ sending' = code /\ held' = down /\ typed' = typed \o means /\ lit' = lights
        /\ astray' = (astray \/ ("ALT" \in Held(down) /\ k \in Alts \ down))
        /\ UNCHANGED <<use, port, kb_in, pc, parsed, key, make, flags, locks, delivered>>
    BY Zenon DEF Stroke, decoder, state
  <1>2. typed' \in Seq(Chars)
    <2>1. typed \in Seq(Chars)
      BY <1>0 DEF KeysTypeOK
    <2> QED
      BY <1>1, <2>1, PrefixConcat
  <1>3. strokes' \in 0..use.strokes
    BY <1>0, <1>1 DEF KeysTypeOK
  <1>4. astray' \in BOOLEAN /\ (astray => astray')
    BY <1>1, Zenon
  <1>5. KeysTypeOK'
    BY <1>0, <1>1, <1>2, <1>3, <1>4 DEF KeysTypeOK
  <1>6. ASSUME ~astray' PROVE key' = "none" /\ OnCourse'
    <2>1. ~astray
      BY <1>4, <1>6
    <2>2. key = "none" /\ OnCourse
      BY <2>1 DEF KeysInv
    <2>3. PICK d \in Configs : Runs(Now, kb_in \o sending, d) /\ Ahead(d)
      BY <2>2 DEF OnCourse
    <2>4. kb_in \in Seq(Byte) /\ kb_in \o sending = kb_in /\ kb_in' \o sending' = kb_in \o code
      BY <1>0, <1>1, ConcatEmptySeq DEF KeysTypeOK
    <2>6. Now' = Now /\ Now \in Configs
      BY <1>0, <1>1, NowIs, Zenon DEF Now
    <2>7. PICK e \in Configs : /\ Takes(d, code, e)
                               /\ Close(e, Synced(down, lights, typed \o means))
                               /\ Settled(e) \/ WithShift(down)
      BY <1>6, <2>3 DEF Follows
    <2>8. Runs(Now', (kb_in \o sending)', e)
      BY <2>3, <2>4, <2>6, <2>7 DEF Takes
    <2>9. Ahead(e)'
      BY <1>1, <2>7, Zenon DEF Ahead
    <2> QED
      BY <1>1, <2>2, <2>8, <2>9, Zenon DEF OnCourse
  <1>7. "PAUSE" \notin held' /\ use' \in Uses
    BY <1>0, <1>1
  <1> QED
    BY <1>5, <1>6, <1>7, Zenon DEF KeysInv

LEMMA StrokeTypes ==
  ASSUME KeysInv
  PROVE  /\ use.keys \subseteq Keys /\ held \subseteq use.keys /\ "PAUSE" \notin held
         /\ lit \in SUBSET Locks /\ typed \in Seq(Chars)
         /\ Synced(held, lit, typed) \in Configs
         /\ \A k : Toggled(k, lit) \in SUBSET Locks
  <1>1. use \in Uses /\ held \subseteq use.keys /\ "PAUSE" \notin held
        /\ lit \in SUBSET Locks /\ typed \in Seq(Chars)
    BY DEF KeysInv, KeysTypeOK
  <1>2. \A k : Toggled(k, lit) \in SUBSET Locks
    BY <1>1 DEF Toggled
  <1> QED
    BY <1>1, <1>2, SyncedType, InputAssumption

(* PrintScreen and Pause mean nothing and are no modifiers.  *)
LEMMA SpecialMeans ==
  ASSUME NEW k \in {"PRINTSCREEN", "PAUSE"}, NEW with, NEW lights \in SUBSET Locks
  PROVE  Meaning(k, with, lights) = <<>> /\ Toggled(k, lights) = lights
  BY DEF Meaning, Toggled, Locks

LEMMA SpecialHeld ==
  ASSUME NEW k \in {"PRINTSCREEN", "PAUSE"}, NEW down,
         NEW then, then = down \union {k} \/ then = down \ {k}
  PROVE  /\ \A lights, text : Synced(then, lights, text) = Synced(down, lights, text)
         /\ WithShift(down) => WithShift(then)
  <1>1. then \cap Alts = down \cap Alts
    BY DEF Alts
  <1>2. \A x \in Shifts \union Controls : x \in then <=> x \in down
    BY DEF Shifts, Controls
  <1>3. \A x : x \in Held(then) <=> x \in Held(down)
    <2>1. \A x : x \in Held(down) <=> \/ x \in down /\ x \in Shifts \union Controls
                                      \/ x = "ALT" /\ down \cap Alts # {}
      BY HeldIs
    <2>2. \A x : x \in Held(then) <=> \/ x \in then /\ x \in Shifts \union Controls
                                      \/ x = "ALT" /\ down \cap Alts # {}
      BY <1>1, HeldIs
    <2> QED
      BY <1>2, <2>1, <2>2, Zenon
  <1>4. Held(then) = Held(down)
    BY <1>3
  <1>5. WithShift(down) => WithShift(then)
    BY <1>2 DEF WithShift
  <1> QED
    BY <1>4, <1>5 DEF Synced

LEMMA PressKeeps ==
  ASSUME KeysInv, NEW k \in use.keys, Press(k)
  PROVE  KeysInv'
  <1>1. /\ use.keys \subseteq Keys /\ held \subseteq use.keys /\ "PAUSE" \notin held
        /\ lit \in SUBSET Locks /\ typed \in Seq(Chars) /\ Toggled(k, lit) \in SUBSET Locks
        /\ Synced(held, lit, typed) \in Configs
    BY StrokeTypes
  <1> DEFINE down == held \union ({k} \ {"PAUSE"})
             means == Meaning(k, held \union {k}, lit)
  <1>2. PICK code \in Codes(k, held).press : Stroke(k, code, down, means, Toggled(k, lit))
    BY DEF Press
  <1>3. code \in Seq(Byte) /\ k \in Keys
    BY <1>1, CodeType
  <1>4. means \in Seq(Chars)
    BY MeaningType
  <1>5. down \subseteq use.keys /\ "PAUSE" \notin down
    BY <1>1
  <1>6. ASSUME NEW d \in Configs, Close(d, Synced(held, lit, typed))
        PROVE  \E e \in Configs : /\ Takes(d, code, e) /\ Settled(e)
                                  /\ Close(e, Synced(down, Toggled(k, lit), typed \o means))
    <2>1. CASE k \in OtherKeys
      <3>1. down = held \union {k}
        BY <2>1 DEF OtherKeys
      <3>2. \E e \in Configs : /\ Takes(d, code, e) /\ Settled(e)
                               /\ Close(e, Synced(held \union {k}, Toggled(k, lit), typed \o means))
        BY <1>1, <1>6, <2>1, MakeCode
      <3> QED
        BY <3>1, <3>2
    <2>2. CASE k = "PRINTSCREEN"
      <3>1. down = held \union {k} /\ code \in PrintScreen(held).press
        BY <2>2 DEF Codes
      <3>2. Synced(held \union {k}, Toggled(k, lit), typed \o means) = Synced(held, lit, typed)
        <4>1. k \in {"PRINTSCREEN", "PAUSE"}
          BY <2>2
        <4>2. means = <<>> /\ Toggled(k, lit) = lit
          BY <1>1, <4>1, SpecialMeans
        <4>3. typed \o means = typed
          BY <1>1, <4>2, ConcatEmptySeq
        <4> HIDE DEF means
        <4>4. Synced(held \union {k}, lit, typed) = Synced(held, lit, typed)
          <5> DEFINE then == held \union {k}
          <5>1. then = held \union {k}
            OBVIOUS
          <5> HIDE DEF then
          <5>2. Synced(then, lit, typed) = Synced(held, lit, typed)
            BY <4>1, <5>1, SpecialHeld
          <5> QED
            BY <5>2 DEF then
        <4> QED
          BY <4>2, <4>3, <4>4, Zenon
      <3>3. \E e \in Configs : /\ Takes(d, code, e) /\ Close(e, Synced(held, lit, typed))
                               /\ \/ Settled(e)
                                  \/ WithShift(held) /\ code \in PrintScreen(held).release
        BY <1>1, <1>6, <3>1, PrintCode
      <3>4. code \notin PrintScreen(held).release
        BY <3>1 DEF PrintScreen, Plain, Escaped
      <3> QED
        BY <3>1, <3>2, <3>3, <3>4
    <2>3. CASE k = "PAUSE"
      <3>1. down = held /\ code \in Pause(held).press
        BY <2>3 DEF Codes
      <3>2. Synced(held \union {k}, Toggled(k, lit), typed \o means) = Synced(held, lit, typed)
            /\ Toggled(k, lit) = lit /\ typed \o means = typed
        <4>1. Toggled(k, lit) = lit
          BY <1>1, <2>3 DEF Toggled, Locks
        <4>2. means = <<>>
          BY <2>3 DEF Meaning
        <4> QED
          <5>1. k \in {"PRINTSCREEN", "PAUSE"}
            BY <2>3
          <5>3. typed \o means = typed
            BY <1>1, <4>2, ConcatEmptySeq
          <5> HIDE DEF means
          <5>4. Synced(held \union {k}, lit, typed) = Synced(held, lit, typed)
            <6> DEFINE then == held \union {k}
            <6>1. then = held \union {k}
              OBVIOUS
            <6> HIDE DEF then
            <6>2. Synced(then, lit, typed) = Synced(held, lit, typed)
              BY <5>1, <6>1, SpecialHeld
            <6> QED
              BY <6>2 DEF then
          <5>2. Synced(held \union {k}, Toggled(k, lit), typed \o means) = Synced(held, lit, typed)
            BY <4>1, <5>3, <5>4, Zenon
          <5> QED
            BY <4>1, <5>2, <5>3, Zenon
      <3>3. \E e \in Configs : /\ Takes(d, code, e) /\ Close(e, Synced(held, lit, typed))
                               /\ Settled(e)
        BY <1>1, <1>6, <3>1, PausePressed
      <3> QED
        BY <3>1, <3>2, <3>3
    <2> QED
      BY <1>3, <2>1, <2>2, <2>3 DEF OtherKeys
  <1> HIDE DEF down, means
  <1>7. Follows(code, down, means, Toggled(k, lit))
    BY <1>6 DEF Follows, Ahead
  <1> QED
    BY <1>1, <1>2, <1>3, <1>4, <1>5, <1>7, OnItsWay

LEMMA RepeatKeeps ==
  ASSUME KeysInv, NEW k \in use.keys, Repeat(k)
  PROVE  KeysInv'
  <1>1. /\ use.keys \subseteq Keys /\ held \subseteq use.keys /\ "PAUSE" \notin held
        /\ lit \in SUBSET Locks /\ typed \in Seq(Chars) /\ Toggled(k, lit) \in SUBSET Locks
        /\ Synced(held, lit, typed) \in Configs
    BY StrokeTypes
  <1> DEFINE means == Meaning(k, held, lit)
             code == Codes(k, held).repeat
  <1>2. /\ Stroke(k, code, held, means, Toggled(k, lit)) /\ k \in held /\ k # "PAUSE"
        /\ held \union {k} = held
    BY <1>1 DEF Repeat
  <1>3. code \in Seq(Byte) /\ k \in Keys
    BY <1>1, <1>2, CodeType
  <1>4. means \in Seq(Chars)
    BY MeaningType
  <1>6. ASSUME NEW d \in Configs, Close(d, Synced(held, lit, typed))
        PROVE  \E e \in Configs : /\ Takes(d, code, e) /\ Settled(e)
                                  /\ Close(e, Synced(held, Toggled(k, lit), typed \o means))
    <2>1. CASE k \in OtherKeys
      <3>2. \E e \in Configs :
              /\ Takes(d, code, e) /\ Settled(e)
              /\ Close(e, Synced(held \union {k}, Toggled(k, lit),
                                 typed \o Meaning(k, held \union {k}, lit)))
        BY <1>1, <1>6, <2>1, MakeCode
      <3> QED
        BY <1>2, <3>2
    <2>2. CASE k = "PRINTSCREEN"
      <3>1. code = PrintScreen(held).repeat
        BY <2>2 DEF Codes
      <3>2. Synced(held \union {k}, Toggled(k, lit), typed \o means) = Synced(held, lit, typed)
        <4>1. k \in {"PRINTSCREEN", "PAUSE"}
          BY <2>2
        <4>2. means = <<>> /\ Toggled(k, lit) = lit
          BY <1>1, <4>1, SpecialMeans
        <4>3. typed \o means = typed
          BY <1>1, <4>2, ConcatEmptySeq
        <4> HIDE DEF means
        <4>4. Synced(held \union {k}, lit, typed) = Synced(held, lit, typed)
          <5> DEFINE then == held \union {k}
          <5>1. then = held \union {k}
            OBVIOUS
          <5> HIDE DEF then
          <5>2. Synced(then, lit, typed) = Synced(held, lit, typed)
            BY <4>1, <5>1, SpecialHeld
          <5> QED
            BY <5>2 DEF then
        <4> QED
          BY <4>2, <4>3, <4>4, Zenon
      <3>3. \E e \in Configs : /\ Takes(d, code, e) /\ Close(e, Synced(held, lit, typed))
                               /\ \/ Settled(e)
                                  \/ WithShift(held) /\ code \in PrintScreen(held).release
        BY <1>1, <1>6, <3>1, PrintCode
      <3>4. code \notin PrintScreen(held).release
        BY <3>1 DEF PrintScreen, Plain, Escaped
      <3> QED
        BY <1>2, <3>2, <3>3, <3>4
    <2> QED
      BY <1>2, <1>3, <2>1, <2>2 DEF OtherKeys
  <1> HIDE DEF code, means
  <1>7. Follows(code, held, means, Toggled(k, lit))
    BY <1>6 DEF Follows, Ahead
  <1> QED
    BY <1>1, <1>2, <1>3, <1>4, <1>7, OnItsWay

LEMMA ReleaseKeeps ==
  ASSUME KeysInv, NEW k \in use.keys, Release(k)
  PROVE  KeysInv'
  <1>1. /\ use.keys \subseteq Keys /\ held \subseteq use.keys /\ "PAUSE" \notin held
        /\ lit \in SUBSET Locks /\ typed \in Seq(Chars)
        /\ Synced(held, lit, typed) \in Configs
    BY StrokeTypes
  <1> DEFINE down == held \ {k}
             none == <<>>
  <1>2. PICK code \in Codes(k, held).release : Stroke(k, code, down, none, lit)
    BY DEF Release
  <1>0. k \in held /\ k # "PAUSE" /\ k \in Keys
    BY <1>1 DEF Release
  <1>3. code \in Seq(Byte)
    BY <1>0, CodeType
  <1>4. none \in Seq(Chars) /\ typed \o none = typed
    BY <1>1, ConcatEmptySeq, EmptySeq
  <1>5. down \subseteq use.keys /\ "PAUSE" \notin down /\ k \notin down
    BY <1>1
  <1>6. ASSUME ~astray', NEW d \in Configs, Close(d, Synced(held, lit, typed))
        PROVE  \E e \in Configs : /\ Takes(d, code, e)
                                  /\ Settled(e) \/ WithShift(down)
                                  /\ Close(e, Synced(down, lit, typed \o none))
    <2>1. CASE k \in OtherKeys
      <3>1. ~("ALT" \in Held(down) /\ k \in Alts)
        <4>1. astray' = (astray \/ ("ALT" \in Held(down) /\ k \in Alts \ down))
          BY <1>2 DEF Stroke
        <4>2. ~("ALT" \in Held(down) /\ k \in Alts \ down)
          BY <1>6, <4>1, Zenon
        <4> QED
          BY <1>5, <4>2, Zenon
      <3> QED
        BY <1>1, <1>4, <1>6, <2>1, <3>1, BreakCode
    <2>2. CASE k = "PRINTSCREEN"
      <3>1. code \in PrintScreen(held).release
        BY <2>2 DEF Codes
      <3>2. Synced(down, lit, typed) = Synced(held, lit, typed)
            /\ (WithShift(held) => WithShift(down))
        BY <2>2, SpecialHeld
      <3>3. \E e \in Configs : /\ Takes(d, code, e) /\ Close(e, Synced(held, lit, typed))
                               /\ Settled(e) \/ WithShift(held)
        BY <1>1, <1>6, <3>1, PrintCode
      <3> QED
        BY <1>4, <3>2, <3>3
    <2> QED
      BY <1>0, <2>1, <2>2 DEF OtherKeys
  <1> HIDE DEF down, none
  <1>7. ~astray' => Follows(code, down, none, lit)
    BY <1>6 DEF Follows, Ahead
  <1> QED
    BY <1>1, <1>2, <1>3, <1>4, <1>5, <1>7, OnItsWay

-----------------------------------------------------------------------------
(* The other actions.  *)

LEMMA HandlerKeepsKeys ==
  ASSUME KeysInv, KeyboardHandler
  PROVE  KeysInv'
  <1>0. use \in Uses /\ KeysTypeOK /\ "PAUSE" \notin held
    BY DEF KeysInv
  <1>1. /\ sending # <<>> /\ port' = (Head(sending) = ACK) /\ sending' = Tail(sending)
        /\ kb_in' = IF Len(kb_in) < KB_IN_BYTES THEN Append(kb_in, Head(sending)) ELSE kb_in
        /\ astray' = (astray \/ Len(kb_in) = KB_IN_BYTES)
        /\ UNCHANGED <<use, strokes, held, pc, parsed, key, make, flags, locks, delivered,
                       typed, lit>>
    BY Zenon DEF KeyboardHandler, device, decoder, state
  <1>2. kb_in \in Seq(Byte) /\ sending \in Seq(Byte) /\ Len(kb_in) <= KB_IN_BYTES
        /\ Len(kb_in) \in Nat /\ KB_IN_BYTES \in Nat
    BY <1>0, LenProperties, InputAssumption DEF KeysTypeOK
  <1>3. Head(sending) \in Byte /\ sending' \in Seq(Byte)
    BY <1>1, <1>2, HeadTailProperties
  <1>4. kb_in' \in Seq(Byte) /\ Len(kb_in') <= KB_IN_BYTES
    <2>1. CASE Len(kb_in) < KB_IN_BYTES
      <3>1. kb_in' = Append(kb_in, Head(sending))
        BY <1>1, <2>1
      <3>2. kb_in' \in Seq(Byte) /\ Len(kb_in') = Len(kb_in) + 1
        BY <1>2, <1>3, <3>1, AppendProperties
      <3> QED
        BY <1>2, <2>1, <3>2
    <2>2. CASE ~(Len(kb_in) < KB_IN_BYTES)
      BY <1>1, <1>2, <2>2
    <2> QED
      BY <2>1, <2>2
  <1>5. astray' \in BOOLEAN /\ (astray => astray') /\ port' \in BOOLEAN
    BY <1>1, Zenon
  <1>6. KeysTypeOK'
    BY <1>0, <1>1, <1>3, <1>4, <1>5 DEF KeysTypeOK
  <1>7. ASSUME ~astray' PROVE key' = "none" /\ OnCourse'
    <2>1. ~astray /\ Len(kb_in) # KB_IN_BYTES
      BY <1>1, <1>7, Zenon
    <2>2. key = "none" /\ OnCourse
      BY <2>1 DEF KeysInv
    <2>3. kb_in' = Append(kb_in, Head(sending))
      BY <1>1, <1>2, <2>1
    <2>4. kb_in' \o sending' = kb_in \o sending
      BY <1>1, <1>2, <2>3, AppendThenTail
    <2>5. Now' = Now
      BY <1>1, Zenon DEF Now
    <2>6. \A d : Ahead(d)' <=> Ahead(d)
      BY <1>1, Zenon DEF Ahead
    <2> QED
      BY <1>1, <2>2, <2>4, <2>5, <2>6, Zenon DEF OnCourse
  <1> QED
    BY <1>0, <1>1, <1>6, <1>7, Zenon DEF KeysInv

(* An acknowledgement is a code that keymap does not have.  *)
LEMMA AcknowledgementRead ==
  ASSUME NEW d \in Configs, Ahead(d), Synced(held, lit, typed) \in Configs
  PROVE  \E e \in Configs : Takes(d, <<ACK>>, e) /\ Ahead(e)
  BY SilentByte DEF Ahead

LEMMA LedsKeep ==
  ASSUME KeysInv, LedCode \/ LedValue \/ LedsDone
  PROVE  KeysInv'
  <1>0. use \in Uses /\ KeysTypeOK /\ "PAUSE" \notin held
    BY DEF KeysInv
  <1>1. /\ pc \in Leds /\ pc' \in Leds \union {"first"}
        /\ sending' = Append(sending, ACK) \/ sending' = sending
        /\ UNCHANGED <<use, strokes, held, port, kb_in, parsed, key, make, flags, locks,
                       delivered, typed, lit, astray>>
    <2>1. LedCode => pc = "led_code" /\ pc' = "led_ack" /\ sending' = Append(sending, ACK)
      BY DEF LedCode
    <2>2. LedValue => pc = "led_ack" /\ pc' = "leds_ack" /\ sending' = Append(sending, ACK)
      BY DEF LedValue
    <2>3. LedsDone => pc = "leds_ack" /\ pc' = "first" /\ sending' = sending
      BY DEF LedsDone, wire
    <2>4. UNCHANGED <<use, strokes, held, port, kb_in, parsed, key, make, flags, locks,
                       delivered, typed, lit, astray>>
      BY Zenon DEF LedCode, LedValue, LedsDone, device, wire, state, history
    <2> QED
      BY <2>1, <2>2, <2>3, <2>4 DEF Leds
  <1>2. kb_in \in Seq(Byte) /\ sending \in Seq(Byte) /\ ACK \in Byte
    BY <1>0, NoKeyHere DEF KeysTypeOK
  <1>3. sending' \in Seq(Byte)
    BY <1>1, <1>2, AppendProperties
  <1>4. pc' \in (Points \ {"lost"}) \union Leds /\ pc' # "pause" /\ pc # "pause"
    BY <1>1 DEF Points, Leds
  <1>5. KeysTypeOK'
    BY <1>0, <1>1, <1>3, <1>4 DEF KeysTypeOK
  <1>6. ASSUME ~astray' PROVE key' = "none" /\ OnCourse'
    <2>1. ~astray
      BY <1>1, <1>6
    <2>2. key = "none" /\ OnCourse
      BY <2>1 DEF KeysInv
    <2>3. PICK d \in Configs : Runs(Now, kb_in \o sending, d) /\ Ahead(d)
      BY <2>2 DEF OnCourse
    <2>4. Now' = Now /\ Now \in Configs
      <3>1. (IF pc' \in Leds THEN "first" ELSE pc') = (IF pc \in Leds THEN "first" ELSE pc)
        BY <1>1
      <3> QED
        BY <1>0, <1>1, <3>1, NowIs, Zenon DEF Now
    <2>5. Ahead(d)'
      BY <1>1, <2>3 DEF Ahead
    <2>6. CASE sending' = sending
      <3>1. Runs(Now', (kb_in \o sending)', d)
        BY <1>1, <2>3, <2>4, <2>6, Zenon
      <3> QED
        BY <1>1, <2>2, <2>5, <3>1, Zenon DEF OnCourse
    <2>7. CASE sending' = Append(sending, ACK)
      <3> DEFINE s == kb_in \o sending
      <3>1. s \in Seq(Byte) /\ Runs(Now, s, d)
        BY <1>2, <2>3, ConcatProperties
      <3>2. kb_in' \o sending' = s \o <<ACK>>
        BY <1>1, <1>2, <2>7, AppendIsConcat
      <3> HIDE DEF s
      <3>3. PICK e \in Configs : Takes(d, <<ACK>>, e) /\ Ahead(e)
        BY <2>3, StrokeTypes, AcknowledgementRead
      <3>4. Runs(Now, s \o <<ACK>>, e)
        BY <2>4, <3>1, <3>3 DEF Takes
      <3>5. Runs(Now', (kb_in \o sending)', e)
        BY <2>4, <3>2, <3>4, Zenon
      <3>6. Ahead(e)'
        BY <1>1, <3>3, Zenon DEF Ahead
      <3> QED
        BY <1>1, <2>2, <3>5, <3>6, Zenon DEF OnCourse
    <2> QED
      BY <1>1, <2>6, <2>7
  <1> QED
    BY <1>0, <1>1, <1>5, <1>6, Zenon DEF KeysInv

LEMMA ReturnKeeps ==
  ASSUME KeysInv, Return
  PROVE  KeysInv'
  <1>0. use \in Uses /\ KeysTypeOK /\ "PAUSE" \notin held
    BY DEF KeysInv
  <1>1. /\ pc = "first" /\ kb_in = <<>> /\ key' = "none" /\ make' = BOOLEAN
        /\ IF sending = <<>> THEN typed' = <<>> /\ delivered' = <<>>
                             ELSE UNCHANGED <<typed, delivered>>
        /\ IF InStep THEN astray' = FALSE /\ lit' = locks ELSE UNCHANGED <<astray, lit>>
        /\ UNCHANGED <<use, strokes, held, sending, port, kb_in, pc, parsed, flags, locks>>
    BY Zenon DEF Return, device, wire
  <1>2. typed' \in Seq(Chars) /\ delivered' \in Seq(Chars)
    BY <1>0, <1>1, EmptySeq DEF KeysTypeOK
  <1>3. lit' \in SUBSET Locks
    BY <1>0, <1>1 DEF KeysTypeOK
  <1>4. astray' \in BOOLEAN
    BY <1>0, <1>1, Zenon DEF KeysTypeOK
  <1>5. make' \in (SUBSET BOOLEAN) \ {{}}
    BY <1>1
  <1>6. KeysTypeOK'
    BY <1>0, <1>1, <1>2, <1>3, <1>4, <1>5 DEF KeysTypeOK
  <1>7. /\ Now \in Configs /\ Now.at = "first" /\ parsed = 0 /\ kb_in \o sending = sending
        /\ sending \in Seq(Byte) /\ "first" \notin Leds
    BY <1>0, <1>1, PlacesAre, NowIs, TypesOfDecoder, ConcatEmptySeq DEF KeysTypeOK, Points, Leds
  <1>8. ASSUME ~astray' PROVE OnCourse'
    <2>1. CASE sending = <<>>
      <3>1. InStep
        <4>1. CASE astray
          BY <1>1, <1>8, <4>1, Zenon
        <4>2. CASE ~astray
          <5>1. PICK d \in Configs : Runs(Now, kb_in \o sending, d) /\ Ahead(d)
            BY <4>2 DEF KeysInv, OnCourse
          <5>2. Now = d
            BY <1>7, <2>1, <5>1, RunsNothing
          <5>3. d.at # "lost" /\ d.flags = flags
            BY <1>0, <1>7, <5>2, NowIs
          <5>4. d.flags = Synced(held, lit, typed).flags
            BY <5>1, <5>3 DEF Ahead, Close
          <5>6. lit \in SUBSET Locks /\ typed \in Seq(Chars)
            BY <1>0 DEF KeysTypeOK
          <5>5. flags = Held(held)
            BY <5>3, <5>4, <5>6, SyncedType
          <5> QED
            BY <2>1, <5>5 DEF InStep
        <4> QED
          BY <1>0, <4>1, <4>2 DEF KeysTypeOK
      <3>2. /\ lit' = locks /\ typed' = <<>> /\ delivered' = <<>> /\ flags = Held(held)
        BY <1>1, <2>1, <3>1, Zenon DEF InStep
      <3>3. Now' = Config("first", 0, flags, locks, <<>>)
        <4>1. (IF pc' \in Leds THEN "first" ELSE pc') = "first"
          BY <1>1, <1>7
        <4> QED
          BY <1>1, <1>7, <3>2, <4>1, Zenon DEF Now
      <3>4. Now' = Synced(held, locks, <<>>) /\ Now' = Synced(held', lit', typed')
        BY <1>1, <3>2, <3>3, Zenon DEF Synced
      <3>5. Now' \in Configs
        <4> DEFINE none == <<>>
        <4>1. none \in Seq(Chars) /\ locks \in SUBSET Locks
          BY <1>0 DEF KeysTypeOK
        <4>2. Now' = Synced(held, locks, none)
          BY <3>4
        <4> HIDE DEF none
        <4>3. Synced(held, locks, none) \in Configs
          BY <4>1, SyncedType
        <4> QED
          BY <4>2, <4>3, Zenon
      <3>6. Runs(Now', <<>>, Now')
        BY <3>5, RunsNothing
      <3>7. (kb_in \o sending)' = <<>>
        BY <1>1, <1>7, <2>1
      <3>8. Runs(Now', (kb_in \o sending)', Now')
        BY <3>6, <3>7, Zenon
      <3>9. PICK e \in Configs :
               e = Now' /\ e = Synced(held', lit', typed') /\ Runs(Now', (kb_in \o sending)', e)
        BY <3>4, <3>5, <3>8, Zenon
      <3>10. e.at = "first"
        BY <3>3, <3>9 DEF Config
      <3>11. Ahead(e)'
        BY <3>9, <3>10 DEF Ahead, Close, Settled, Rests
      <3> QED
        BY <3>9, <3>11, Zenon DEF OnCourse
    <2>2. CASE sending # <<>>
      <3>1. ~InStep
        BY <2>2 DEF InStep
      <3>2. ~astray /\ UNCHANGED <<typed, delivered, lit>>
        BY <1>1, <1>8, <2>2, <3>1, Zenon
      <3>3. PICK d \in Configs : Runs(Now, kb_in \o sending, d) /\ Ahead(d)
        BY <3>2 DEF KeysInv, OnCourse
      <3>4. Now' = Now
        BY <1>1, <3>2, Zenon DEF Now
      <3>5. Runs(Now', (kb_in \o sending)', d)
        BY <1>1, <3>3, <3>4, Zenon
      <3>6. Ahead(d)'
        BY <1>1, <3>2, <3>3, Zenon DEF Ahead
      <3> QED
        BY <3>5, <3>6, Zenon DEF OnCourse
    <2> QED
      BY <2>1, <2>2
  <1> QED
    BY <1>0, <1>1, <1>6, <1>8, Zenon DEF KeysInv

LEMMA KeysUntouched ==
  ASSUME KeysInv, UNCHANGED <<device, wire, kb_in, decoder, state, history>>
  PROVE  KeysInv'
  <1>1. UNCHANGED <<use, strokes, held, sending, port, kb_in, pc, parsed, key, make, flags,
                    locks, delivered, typed, lit, astray>>
    BY DEF device, wire, decoder, state, history
  <1>2. KeysTypeOK'
    BY <1>1 DEF KeysInv, KeysTypeOK
  <1>3. OnCourse => OnCourse'
    BY <1>1, Zenon DEF OnCourse, Now, Ahead
  <1> QED
    BY <1>1, <1>2, <1>3, Zenon DEF KeysInv

LEMMA KeysInit == Init => KeysInv
  <1> SUFFICES ASSUME Init PROVE KeysInv
    OBVIOUS
  <1>1. /\ use \in Uses /\ strokes = 0 /\ held = {} /\ sending = <<>> /\ port = FALSE
        /\ kb_in = <<>> /\ pc = "first" /\ parsed = 0 /\ key = "none" /\ make = BOOLEAN
        /\ flags = {} /\ locks = {"NUM_LOCK"} /\ delivered = <<>>
        /\ typed = <<>> /\ lit = {"NUM_LOCK"} /\ astray = FALSE
    BY Zenon DEF Init
  <1>2. use.strokes \in Nat /\ KB_IN_BYTES \in Nat
    BY <1>1, InputAssumption
  <1>3. <<>> \in Seq(Byte) /\ <<>> \in Seq(Chars) /\ Len(kb_in) = 0
    BY <1>1, EmptySeq
  <1>4. strokes \in 0..use.strokes /\ Len(kb_in) <= KB_IN_BYTES
    BY <1>1, <1>2, <1>3
  <1>5. pc \in (Points \ {"lost"}) \union Leds /\ locks \in SUBSET Locks /\ lit \in SUBSET Locks
        /\ pc \notin Leds
    BY <1>1 DEF Points, Leds, Locks
  <1>6. make \in (SUBSET BOOLEAN) \ {{}}
    BY <1>1
  <1>7. KeysTypeOK
    <2>1. port \in BOOLEAN /\ astray \in BOOLEAN
      BY <1>1, Zenon
    <2> QED
      BY <1>1, <1>3, <1>4, <1>5, <1>6, <2>1 DEF KeysTypeOK
  <1>8. Now = Synced(held, lit, typed)
    <2>1. Held(held) = {}
      BY <1>1, HeldIs
    <2>2. (IF pc \in Leds THEN "first" ELSE pc) = "first"
      BY <1>1, <1>5
    <2> QED
      BY <1>1, <2>1, <2>2, Zenon DEF Now, Synced
  <1>9. Now \in Configs
    BY <1>7, NowIs
  <1>10. kb_in \o sending = <<>>
    BY <1>1
  <1>11. Runs(Now, kb_in \o sending, Now)
    BY <1>9, <1>10, RunsNothing
  <1> DEFINE e == Now
  <1>12. e \in Configs /\ Runs(Now, kb_in \o sending, e) /\ e = Synced(held, lit, typed)
    BY <1>8, <1>9, <1>11
  <1>14. e.at = "first"
    BY <1>7, <1>1, <1>5, NowIs
  <1> HIDE DEF e
  <1>15. Ahead(e)
    BY <1>12, <1>14 DEF Ahead, Close, Settled, Rests
  <1>13. OnCourse
    BY <1>12, <1>15, Zenon DEF OnCourse
  <1> QED
    BY <1>1, <1>7, <1>13 DEF KeysInv

LEMMA KeysNext ==
  ASSUME KeysInv, [Next]_vars
  PROVE  KeysInv'
  <1>1. ASSUME NEW k \in use.keys, Press(k) \/ Repeat(k) \/ Release(k) PROVE KeysInv'
    BY <1>1, PressKeeps, RepeatKeeps, ReleaseKeeps
  <1>2. CASE ReadsByte
    BY <1>2, ReadsKeep
  <1>3. CASE MouseMoves \/ MouseHandler \/ UNCHANGED vars
    <2>1. UNCHANGED <<device, wire, kb_in, decoder, state, history>>
      BY <1>3, Zenon DEF MouseMoves, MouseHandler, vars
    <2> QED
      BY <2>1, KeysUntouched
  <1> QED
    BY <1>1, <1>2, <1>3, HandlerKeepsKeys, LedsKeep, ReturnKeeps, Zenon DEF Next, ReadsByte

(* What the invariant says once nothing is on its way.  *)
LEMMA NothingOnItsWay ==
  ASSUME KeysInv, ~astray, Quiet
  PROVE  /\ delivered = typed /\ flags = Held(held) /\ locks = lit
         /\ pc \in Leds \union {"first"} \/ (pc \in {"print", "unprint"} /\ WithShift(held))
  <1>1. PICK d \in Configs : Runs(Now, kb_in \o sending, d) /\ Ahead(d)
    BY DEF KeysInv, OnCourse
  <1>2. KeysTypeOK /\ lit \in SUBSET Locks /\ typed \in Seq(Chars)
    BY DEF KeysInv, KeysTypeOK
  <1>3. kb_in \o sending = <<>> /\ Now \in Configs
    BY <1>2, NowIs DEF Quiet
  <1>4. Now = d
    BY <1>1, <1>3, RunsNothing
  <1>5. Now.at # "lost"
    BY <1>2, NowIs DEF KeysTypeOK
  <1> DEFINE g == Synced(held, lit, typed)
  <1>6. /\ Now.at \in Rests /\ Now.flags = g.flags /\ Now.locks = g.locks
        /\ Now.delivered = g.delivered /\ (Now.at = "first" \/ WithShift(held))
    BY <1>1, <1>4, <1>5 DEF Ahead, Close, Settled
  <1>7. g.flags = Held(held) /\ g.locks = lit /\ g.delivered = typed
    BY <1>2, SyncedType
  <1> HIDE DEF g
  <1>8. Now.flags = flags /\ Now.locks = locks /\ Now.delivered = delivered
        /\ (pc \notin Leds => Now.at = pc)
    BY <1>2, NowIs
  <1> QED
    BY <1>6, <1>7, <1>8 DEF Rests

LEMMA DeliveredIsPrefix ==
  ASSUME KeysInv, ~astray
  PROVE  IsPrefix(delivered, typed)
  <1>1. PICK d \in Configs : Runs(Now, kb_in \o sending, d) /\ Ahead(d)
    BY DEF KeysInv, OnCourse
  <1>2. /\ KeysTypeOK /\ lit \in SUBSET Locks /\ typed \in Seq(Chars) /\ delivered \in Seq(Chars)
        /\ kb_in \o sending \in Seq(Byte)
    BY ConcatProperties DEF KeysInv, KeysTypeOK
  <1>3. Now \in Configs /\ Now.delivered = delivered /\ d.delivered \in Seq(Chars)
    BY <1>2, NowIs, ConfigParts
  <1>4. IsPrefix(delivered, d.delivered)
    <2>1. Len(kb_in \o sending) \in Nat
      BY <1>2, LenProperties
    <2> QED
      BY <1>1, <1>3, <2>1, RunsFar
  <1>5. IsPrefix(d.delivered, typed)
    <2>1. CASE d.delivered = Synced(held, lit, typed).delivered
      BY <1>2, <2>1, SyncedType, PrefixRefl
    <2>2. Synced(held, lit, typed).delivered = typed
      BY <1>2, SyncedType
    <2> QED
      BY <1>1, <2>1, <2>2 DEF Ahead, Close
  <1> QED
    BY <1>2, <1>3, <1>4, <1>5, PrefixTrans

LEMMA KeysInvariant == Spec => []KeysInv
  BY KeysInit, KeysNext, PTL DEF Spec

(* As long as keyboard_read is not astray, the characters delivered are    *)
(* the ones typed, in their order and with their flags, and none is        *)
(* missing when nothing is on its way: see KeysTrue.                       *)
THEOREM KeysAreTrue == Spec => []KeysTrue
  <1>1. KeysInv => KeysTrue
    <2> SUFFICES ASSUME KeysInv, ~astray
                 PROVE  /\ IsPrefix(delivered, typed)
                        /\ Quiet => delivered = typed /\ flags = Held(held) /\ locks = lit
      BY DEF KeysTrue
    <2>1. IsPrefix(delivered, typed)
      BY DeliveredIsPrefix
    <2>2. Quiet => delivered = typed /\ flags = Held(held) /\ locks = lit
      BY NothingOnItsWay
    <2> QED
      BY <2>1, <2>2
  <1> QED
    BY <1>1, KeysInvariant, PTL

(* With no byte on its way and nothing gone astray, keyboard_read is at    *)
(* the beginning of a code, or it waits for the rest of what it takes for  *)
(* PrintScreen's while Shift or Ctrl is held down: see WaitsOnlyWhileHeld. *)
THEOREM WaitEndsWithShift == Spec => []WaitsOnlyWhileHeld
  <1>1. KeysInv => WaitsOnlyWhileHeld
    BY NothingOnItsWay DEF WaitsOnlyWhileHeld, Leds, WithShift
  <1> QED
    BY <1>1, KeysInvariant, PTL

-----------------------------------------------------------------------------
(* The mouse.  *)

USE DEF ACK

Position == [x : 0..(Screen.x - 1), y : 0..(Screen.y - 1)]

MouseTypeOK ==
  /\ moves \in 0..use.moves /\ packet \in Seq(Byte) /\ lost \in BOOLEAN
  /\ phase \in 0..3 /\ buf \in Seq(Byte)
  /\ Len(buf) = (IF phase > 1 THEN phase - 1 ELSE 0)
  /\ cursor \in Position /\ pointed \in Position

(* What is still to come of the packet of m, and what was kept of it.  *)
Coming(m) ==
  /\ phase \in 1..3 /\ Len(packet) = 4 - phase
  /\ \A i \in 1..(4 - phase) : packet[i] = Packet(m)[i + phase - 1]
  /\ \A i \in 1..(phase - 1) : buf[i] = Packet(m)[i]

InStepMouse ==
  \/ phase = 1 /\ cursor = pointed /\ \A i \in 1..Len(packet) : ~LooksFirst(packet[i])
  \/ \E m \in use.movements : /\ ~m.overflow /\ Coming(m)
                              /\ pointed = Pushed(cursor, m.dx, m.dy)

MouseInv ==
  /\ use \in Uses
  /\ MouseTypeOK
  /\ phase = 0 => /\ ~lost /\ cursor = pointed
                  /\ packet = <<ACK>> \/ (packet = <<>> /\ use.moves = 0)
  /\ phase # 0 /\ ~lost => InStepMouse

LEMMA PushedType ==
  ASSUME NEW at \in Position, NEW dx \in Int, NEW dy \in Int
  PROVE  Pushed(at, dx, dy) \in Position
  BY InputAssumption DEF Pushed, Clamp, Position

LEMMA NineBits ==
  ASSUME NEW d \in -256..255
  PROVE  d % 256 \in Byte /\ d \in Int
  BY DEF Byte

LEMMA PacketType ==
  ASSUME NEW m \in Movements
  PROVE  /\ m.dx \in -256..255 /\ m.dy \in -256..255 /\ m.overflow \in BOOLEAN
         /\ m.dx \in Int /\ m.dy \in Int
         /\ Packet(m) \in Seq(Byte) /\ Len(Packet(m)) = 3
         /\ Packet(m)[2] = m.dx % 256 /\ Packet(m)[3] = m.dy % 256
  <1>1. m.dx \in -256..255 /\ m.dy \in -256..255 /\ m.overflow \in BOOLEAN
    BY DEF Movements
  <1>2. m.dx % 256 \in Byte /\ m.dy % 256 \in Byte /\ m.dx \in Int /\ m.dy \in Int
    BY <1>1, NineBits
  <1> DEFINE first == 8 + (IF m.dx < 0 THEN 16 ELSE 0) + (IF m.dy < 0 THEN 32 ELSE 0)
                        + (IF m.overflow THEN 64 ELSE 0)
  <1>3. first \in Byte
    BY DEF Byte
  <1>4. Packet(m) = <<first, m.dx % 256, m.dy % 256>>
    BY DEF Packet
  <1> QED
    BY <1>1, <1>2, <1>3, <1>4

LEMMA FirstByte ==
  ASSUME NEW m \in Movements, ~m.overflow, NEW b, b = Packet(m)[1]
  PROVE  /\ b \div 64 = 0 /\ (b \div 8) % 2 = 1
         /\ (b \div 16) % 2 = IF m.dx < 0 THEN 1 ELSE 0
         /\ (b \div 32) % 2 = IF m.dy < 0 THEN 1 ELSE 0
  <1>1. b = 8 + (IF m.dx < 0 THEN 16 ELSE 0) + (IF m.dy < 0 THEN 32 ELSE 0)
    BY DEF Packet
  <1> QED
    BY <1>1

(* The first byte of a packet with an overflow bit is not taken for one.   *)
LEMMA OverflowByte ==
  ASSUME NEW m \in Movements, m.overflow
  PROVE  Packet(m)[1] \div 64 # 0
  <1>1. Packet(m)[1] = 8 + (IF m.dx < 0 THEN 16 ELSE 0) + (IF m.dy < 0 THEN 32 ELSE 0) + 64
    BY DEF Packet
  <1> QED
    BY <1>1

LEMMA SignedOfPacket ==
  ASSUME NEW d \in -256..255, NEW s \in Int, s = (IF d < 0 THEN 1 ELSE 0)
  PROVE  (IF s = 1 THEN (d % 256) - 256 ELSE d % 256) = d
  OBVIOUS

LEMMA OneElement ==
  ASSUME NEW S, NEW e \in S
  PROVE  <<e>> \in Seq(S) /\ Len(<<e>>) = 1 /\ <<e>>[1] = e /\ Head(<<e>>) = e
  OBVIOUS

LEMMA MouseInit == Init => MouseInv
  <1> SUFFICES ASSUME Init PROVE MouseInv
    OBVIOUS
  <1>1. Screen.x \in Nat \ {0} /\ Screen.y \in Nat \ {0} /\ use.moves \in Nat
    BY InputAssumption DEF Init
  <1>2. cursor \in Position
    BY <1>1 DEF Init, Position
  <1>3. packet \in Seq(Byte)
    <2>1. ACK \in Byte
      BY DEF Byte
    <2> HIDE DEF ACK
    <2>2. <<ACK>> \in Seq(Byte) /\ <<>> \in Seq(Byte)
      BY <2>1, OneElement, EmptySeq
    <2> QED
      BY <2>2 DEF Init
  <1>4. buf = <<>> /\ Len(buf) = 0 /\ buf \in Seq(Byte)
    BY DEF Init
  <1>5. MouseTypeOK
    <2>0. moves = 0 /\ lost = FALSE /\ phase = 0 /\ pointed = cursor
      BY ZenonT(20) DEF Init
    <2>1. moves \in 0..use.moves
      BY <1>1, <2>0
    <2>2. lost \in BOOLEAN
      BY <2>0, Zenon
    <2>3. phase \in 0..3 /\ Len(buf) = (IF phase > 1 THEN phase - 1 ELSE 0)
      BY <1>4, <2>0
    <2> QED
      BY <1>2, <1>3, <1>4, <2>0, <2>1, <2>2, <2>3, Zenon DEF MouseTypeOK
  <1> QED
    <2>1. use \in Uses /\ phase = 0 /\ ~lost /\ (use.moves = 0 \/ use.moves > 0)
      BY <1>1 DEF Init
    <2> HIDE DEF ACK
    <2>3. packet = (IF use.moves > 0 THEN <<ACK>> ELSE <<>>)
      BY DEF Init
    <2>2. packet = <<ACK>> \/ (packet = <<>> /\ use.moves = 0)
      <3>1. CASE use.moves = 0
        BY <1>1, <2>3, <3>1
      <3>2. CASE ~(use.moves = 0)
        <4>1. use.moves > 0
          BY <1>1, <3>2
        <4>2. packet = <<ACK>>
          BY <2>3, <4>1
        <4> QED
          BY <4>2
      <3> QED
        BY <3>1, <3>2
    <2> QED
      BY <1>5, <2>1, <2>2 DEF Init, MouseInv

LEMMA MovesKeep ==
  ASSUME MouseInv, MouseMoves
  PROVE  MouseInv'
  <1>1. PICK m \in use.movements :
          /\ packet' = Packet(m)
          /\ pointed' = IF m.overflow THEN pointed ELSE Pushed(pointed, m.dx, m.dy)
          /\ lost' = (lost \/ (m.overflow /\ \E i \in 2..3 : LooksFirst(Packet(m)[i])))
    BY DEF MouseMoves
  <1>2. m \in Movements /\ use.moves \in Nat
    BY InputAssumption DEF MouseInv
  <1>3. packet' \in Seq(Byte) /\ m.dx \in Int /\ m.dy \in Int /\ m.overflow \in BOOLEAN
    BY <1>1, <1>2, PacketType DEF Movements
  <1>4. pointed' \in Position
    BY <1>1, <1>3, PushedType DEF MouseInv, MouseTypeOK
  <1>5. MouseTypeOK'
    BY <1>1, <1>2, <1>3, <1>4 DEF MouseMoves, device, MouseInv, MouseTypeOK
  <1>6. phase # 0
    BY <1>2 DEF MouseMoves, MouseInv, MouseTypeOK
  <1>7. ASSUME ~lost' PROVE InStepMouse'
    <2>1. ~lost /\ packet = <<>>
      BY <1>1, <1>7 DEF MouseMoves
    <2>2. phase = 1 /\ cursor = pointed
      BY <1>6, <2>1 DEF MouseInv, MouseTypeOK, InStepMouse, Coming
    <2>3. phase' = 1 /\ cursor' = cursor /\ use' = use
      BY <2>2 DEF MouseMoves, device
    <2>4. CASE m.overflow
      <3>1. pointed' = pointed /\ \A i \in 2..3 : ~LooksFirst(Packet(m)[i])
        BY <1>1, <1>7, <2>4
      <3>2. ~LooksFirst(Packet(m)[1])
        BY <1>2, <2>4, OverflowByte DEF LooksFirst
      <3>3. \A i \in 1..Len(packet') : ~LooksFirst(packet'[i])
        <4>1. Len(packet') = 3 /\ packet' = Packet(m)
          BY <1>1, <1>2, PacketType
        <4> SUFFICES ASSUME NEW i \in 1..Len(packet') PROVE ~LooksFirst(packet'[i])
          OBVIOUS
        <4>2. i = 1 \/ i \in 2..3
          BY <4>1
        <4> QED BY <3>1, <3>2, <4>1, <4>2, Zenon
      <3> QED
        BY <2>2, <2>3, <3>1, <3>3 DEF InStepMouse
    <2>5. CASE ~m.overflow
      <3>1. pointed' = Pushed(cursor, m.dx, m.dy)
        BY <1>1, <2>2, <2>5
      <3>2. Coming(m)'
        <4> SUFFICES /\ phase' \in 1..3 /\ Len(packet') = 4 - phase'
                     /\ \A i \in 1..(4 - phase') : packet'[i] = Packet(m)[i + phase' - 1]
                     /\ \A i \in 1..(phase' - 1) : buf'[i] = Packet(m)[i]
          BY DEF Coming, Packet
        <4> QED
          BY <1>1, <1>2, <2>3, PacketType
      <3> QED
        BY <2>3, <2>5, <3>1, <3>2 DEF InStepMouse
    <2> QED
      BY <2>4, <2>5
  <1> QED
    BY <1>5, <1>6, <1>7 DEF MouseMoves, device, MouseInv

LEMMA HandlerTypes ==
  ASSUME MouseInv, MouseHandler
  PROVE  /\ MouseTypeOK' /\ Head(packet) \in Byte /\ Head(packet) = packet[1]
         /\ phase = 3 => buf[1] \in Byte /\ buf[2] \in Byte
  <1>1. Head(packet) \in Byte /\ packet' \in Seq(Byte) /\ Head(packet) = packet[1]
    BY HeadTailProperties DEF MouseHandler, MouseInv, MouseTypeOK
  <1>2. /\ phase' \in 0..3 /\ buf' \in Seq(Byte)
        /\ Len(buf') = (IF phase' > 1 THEN phase' - 1 ELSE 0)
    <2>1. mouse_decode(Head(packet)) /\ buf \in Seq(Byte) /\ phase \in 0..3
          /\ Len(buf) = (IF phase > 1 THEN phase - 1 ELSE 0)
      BY DEF MouseHandler, MouseInv, MouseTypeOK
    <2>2. CASE phase = 0
      BY <1>1, <2>1, <2>2 DEF mouse_decode
    <2>5. CASE phase = 1
      <3>1. \/ phase' = 2 /\ buf' = <<Head(packet)>>
            \/ phase' = 1 /\ buf' = buf
        BY <2>1, <2>5 DEF mouse_decode
      <3>2. <<Head(packet)>> \in Seq(Byte) /\ Len(<<Head(packet)>>) = 1
        BY <1>1, OneElement
      <3>3. CASE phase' = 2 /\ buf' = <<Head(packet)>>
        BY <3>2, <3>3
      <3>4. CASE phase' = 1 /\ buf' = buf
        BY <2>1, <2>5, <3>4
      <3> QED
        BY <3>1, <3>3, <3>4
    <2>3. CASE phase = 2
      <3>1. phase' = 3 /\ buf' = Append(buf, Head(packet))
        BY <2>1, <2>3 DEF mouse_decode
      <3>2. buf' \in Seq(Byte) /\ Len(buf') = Len(buf) + 1
        BY <1>1, <2>1, <3>1, AppendProperties
      <3> QED
        BY <2>1, <2>3, <3>1, <3>2
    <2>4. CASE phase = 3
      BY <1>1, <2>1, <2>4 DEF mouse_decode
    <2> QED
      BY <2>1, <2>2, <2>3, <2>4, <2>5
  <1>3. phase = 3 => buf[1] \in Byte /\ buf[2] \in Byte
    <2>1. phase = 3 => 1 \in 1..Len(buf) /\ 2 \in 1..Len(buf)
      BY DEF MouseInv, MouseTypeOK
    <2> QED
      BY <2>1, ElementOfSeq DEF MouseInv, MouseTypeOK
  <1>4. cursor' \in Position
    <2>1. CASE phase = 3
      <3>1. Signed(buf[2], 16) \in Int /\ Signed(Head(packet), 32) \in Int
        <4>1. \A b \in Byte : b \in Int /\ b - 256 \in Int
          BY DEF Byte
        <4> QED
          BY <1>1, <1>3, <2>1, <4>1 DEF Signed
      <3> QED
        BY <2>1, <3>1, PushedType DEF MouseHandler, MouseInv, MouseTypeOK
    <2> QED
      BY <2>1 DEF MouseHandler, MouseInv, MouseTypeOK
  <1> QED
    BY <1>1, <1>2, <1>3, <1>4 DEF MouseHandler, device, MouseInv, MouseTypeOK

(* One byte of a packet that is understood.  *)
LEMMA ByteOfPacket ==
  ASSUME MouseInv, MouseHandler, NEW m \in use.movements, ~m.overflow, Coming(m),
         pointed = Pushed(cursor, m.dx, m.dy), UNCHANGED <<use, pointed>>
  PROVE  InStepMouse'
  <1>1. m \in Movements
    BY InputAssumption DEF MouseInv
  <1>2. /\ packet # <<>> /\ packet' = Tail(packet) /\ mouse_decode(Head(packet))
        /\ packet \in Seq(Byte) /\ buf \in Seq(Byte) /\ Head(packet) \in Byte
        /\ Len(buf) = (IF phase > 1 THEN phase - 1 ELSE 0)
        /\ Head(packet) = packet[1]
    BY HandlerTypes DEF MouseHandler, MouseInv, MouseTypeOK
  <1>3. /\ Len(packet') = Len(packet) - 1
        /\ \A i \in 1..(Len(packet) - 1) : packet'[i] = packet[i + 1]
    BY <1>2, HeadTailProperties
  <1>4. /\ phase \in 1..3 /\ Len(packet) = 4 - phase
        /\ \A i \in 1..(4 - phase) : packet[i] = Packet(m)[i + phase - 1]
        /\ \A i \in 1..(phase - 1) : buf[i] = Packet(m)[i]
        /\ Head(packet) = Packet(m)[phase]
    BY <1>2 DEF Coming
  <1>5. CASE phase = 1
    <2>1. phase' = 2 /\ buf' = <<Head(packet)>> /\ cursor' = cursor
      BY <1>1, <1>2, <1>4, <1>5, FirstByte DEF mouse_decode, LooksFirst, MouseHandler
    <2>2. buf'[1] = Packet(m)[1]
      BY <1>4, <1>5, <2>1
    <2>3. Coming(m)'
      BY <1>3, <1>4, <1>5, <2>1, <2>2 DEF Coming, Packet
    <2> QED
      BY <2>1, <2>3 DEF InStepMouse
  <1>6. CASE phase = 2
    <2>1. phase' = 3 /\ buf' = Append(buf, Head(packet)) /\ cursor' = cursor
      BY <1>2, <1>6 DEF mouse_decode, MouseHandler
    <2>2. buf'[1] = Packet(m)[1] /\ buf'[2] = Packet(m)[2]
      BY <1>2, <1>4, <1>6, <2>1, AppendProperties
    <2>3. Coming(m)'
      <3> SUFFICES /\ phase' \in 1..3 /\ Len(packet') = 4 - phase'
                   /\ \A i \in 1..(4 - phase') : packet'[i] = Packet(m)[i + phase' - 1]
                   /\ \A i \in 1..(phase' - 1) : buf'[i] = Packet(m)[i]
        BY DEF Coming, Packet
      <3> QED
        <4>1. Len(packet') = 1 /\ packet'[1] = packet[2]
          BY <1>3, <1>4, <1>6
        <4>2. packet[2] = Packet(m)[3]
          BY <1>4, <1>6
        <4>3. Len(packet') = 4 - phase' /\ phase' \in 1..3
          BY <2>1, <4>1
        <4>4. \A i \in 1..(4 - phase') : packet'[i] = Packet(m)[i + phase' - 1]
          <5> SUFFICES ASSUME NEW i \in 1..(4 - phase')
                       PROVE  packet'[i] = Packet(m)[i + phase' - 1]
            OBVIOUS
          <5>1. i = 1 /\ i + phase' - 1 = 3
            BY <2>1
          <5> QED
            BY <4>1, <4>2, <5>1
        <4>5. \A i \in 1..(phase' - 1) : buf'[i] = Packet(m)[i]
          <5> SUFFICES ASSUME NEW i \in 1..(phase' - 1)
                       PROVE  buf'[i] = Packet(m)[i]
            OBVIOUS
          <5>1. i = 1 \/ i = 2
            BY <2>1
          <5> QED
            BY <2>2, <5>1
        <4> QED
          BY <4>3, <4>4, <4>5
    <2> QED
      BY <2>1, <2>3 DEF InStepMouse
  <1>7. CASE phase = 3
    <2>1. /\ phase' = 1
          /\ cursor' = Pushed(cursor, Signed(buf[2], 16), Signed(Head(packet), 32))
      BY <1>2, <1>7 DEF mouse_decode, MouseHandler
    <2>2. buf[1] = Packet(m)[1] /\ buf[2] = Packet(m)[2] /\ Head(packet) = Packet(m)[3]
      BY <1>4, <1>7
    <2>3. Signed(buf[2], 16) = m.dx
      BY <2>2, <1>1, PacketType, FirstByte, SignedOfPacket DEF Signed
    <2>4. Signed(Head(packet), 32) = m.dy
      BY <2>2, <1>1, PacketType, FirstByte, SignedOfPacket DEF Signed
    <2>5. packet' = <<>>
      BY <1>2, <1>3, <1>4, <1>7, HeadTailProperties, EmptySeq
    <2> QED
      BY <2>1, <2>3, <2>4, <2>5 DEF InStepMouse
  <1> QED
    BY <1>4, <1>5, <1>6, <1>7

(* One byte of a packet that is skipped.  *)
LEMMA ByteSkipped ==
  ASSUME MouseInv, MouseHandler, phase = 1, cursor = pointed, pointed' = pointed,
         \A i \in 1..Len(packet) : ~LooksFirst(packet[i])
  PROVE  InStepMouse'
  <1>1. /\ packet # <<>> /\ packet' = Tail(packet) /\ mouse_decode(Head(packet))
        /\ packet \in Seq(Byte) /\ Head(packet) = packet[1]
    BY HandlerTypes DEF MouseHandler, MouseInv, MouseTypeOK
  <1>2. /\ Len(packet) \in Nat /\ Len(packet) >= 1 /\ Len(packet') = Len(packet) - 1
        /\ \A i \in 1..(Len(packet) - 1) : packet'[i] = packet[i + 1]
    BY <1>1, HeadTailProperties, EmptySeq, LenProperties
  <1>3. ~LooksFirst(Head(packet))
    BY <1>1, <1>2
  <1>4. phase' = 1 /\ cursor' = cursor
    BY <1>1, <1>3 DEF mouse_decode, MouseHandler
  <1>5. \A i \in 1..Len(packet') : ~LooksFirst(packet'[i])
    BY <1>2
  <1> QED
    BY <1>4, <1>5 DEF InStepMouse

LEMMA HandlerKeeps ==
  ASSUME MouseInv, MouseHandler
  PROVE  MouseInv'
  <1>1. MouseTypeOK'
    BY HandlerTypes
  <1>2. phase' # 0
    BY DEF MouseHandler, MouseInv, MouseTypeOK, mouse_decode
  <1>3. ASSUME ~lost' PROVE InStepMouse'
    <2>1. ~lost /\ UNCHANGED <<use, pointed, lost>>
      BY <1>3 DEF MouseHandler, device
    <2>2. CASE phase = 0
      <3>1. packet = <<ACK>>
        BY <2>2 DEF MouseHandler, MouseInv
      <3>2. Head(packet) = ACK /\ Tail(packet) = <<>>
        BY <3>1
      <3> QED
        <4>1. phase' = 1 /\ packet' = <<>> /\ cursor' = cursor
          BY <2>2, <3>2 DEF MouseHandler, mouse_decode
        <4>2. cursor = pointed
          BY <2>1, <2>2 DEF MouseInv
        <4> QED
          BY <2>1, <4>1, <4>2 DEF InStepMouse
    <2>3. CASE phase # 0
      BY <2>1, <2>3, ByteOfPacket, ByteSkipped DEF MouseInv, InStepMouse, MouseHandler
    <2> QED
      BY <2>2, <2>3
  <1> QED
    BY <1>1, <1>2, <1>3 DEF MouseHandler, device, MouseInv

LEMMA MouseUntouched ==
  ASSUME MouseInv, UNCHANGED mouse, use' = use
  PROVE  MouseInv'
  BY DEF mouse, MouseInv, MouseTypeOK, InStepMouse, Coming

LEMMA KeyboardLeavesMouse ==
  ASSUME [Next]_vars
  PROVE  MouseMoves \/ MouseHandler \/ (UNCHANGED mouse /\ use' = use)
  <1>1. \A k \in use.keys : Press(k) \/ Repeat(k) \/ Release(k) => UNCHANGED mouse /\ use' = use
    BY DEF Press, Repeat, Release, Stroke
  <1>2. KeyboardHandler => UNCHANGED mouse /\ use' = use
    BY DEF KeyboardHandler, device
  <1>3. ReadFirst \/ ReadPause \/ ReadExtended => UNCHANGED mouse /\ use' = use
    BY DEF ReadFirst, ReadPause, ReadExtended, KeyStep, device
  <1>4. \A point, last, makes : ReadPrint(point, last, makes) => UNCHANGED mouse /\ use' = use
    BY DEF ReadPrint, KeyStep, device
  <1>5. LedCode \/ LedValue \/ LedsDone \/ Return => UNCHANGED mouse /\ use' = use
    BY DEF LedCode, LedValue, LedsDone, Return, device
  <1>6. UNCHANGED vars => UNCHANGED mouse /\ use' = use
    BY DEF vars, device
  <1> QED
    BY <1>1, <1>2, <1>3, <1>4, <1>5, <1>6 DEF Next

LEMMA MouseInvariant == Spec => []MouseInv
  <1>1. MouseInv /\ [Next]_vars => MouseInv'
    BY KeyboardLeavesMouse, MovesKeep, HandlerKeeps, MouseUntouched
  <1> QED
    BY <1>1, MouseInit, PTL DEF Spec

(* Until mouse_decode is misled by a packet with an overflow bit, the      *)
(* pointer is where the movements have taken it: see MouseFollows.         *)
THEOREM PointerFollows == Spec => []MouseFollows
  <1>1. MouseInv => MouseFollows
    <2> SUFFICES ASSUME MouseInv, packet = <<>>, ~lost, phase # 0
                 PROVE  phase = 1 /\ cursor = pointed
      BY DEF MouseFollows
    <2>1. ASSUME NEW m \in use.movements, Coming(m) PROVE FALSE
      BY <2>1 DEF MouseInv, MouseTypeOK, Coming
    <2> QED
      BY <2>1 DEF MouseInv, InStepMouse
  <1> QED
    BY <1>1, MouseInvariant, PTL

-----------------------------------------------------------------------------
(* The types and bounds of TypeOK: kb_in never holds more than             *)
(* KB_IN_BYTES bytes and the pointer stays on the screen, whatever the     *)
(* devices send.                                                           *)
THEOREM InputTypes == Spec => []TypeOK
  <1>1. KeysInv /\ MouseInv => TypeOK
    <2> SUFFICES ASSUME KeysInv, MouseInv PROVE TypeOK
      OBVIOUS
    <2>1. use \in Uses /\ KeysTypeOK /\ MouseTypeOK
      BY DEF KeysInv, MouseInv
    <2>2. {sending, kb_in, packet} \subseteq Seq(Byte)
      BY <2>1 DEF KeysTypeOK, MouseTypeOK
    <2>3. pc \in {"first", "pause", "extended", "print", "print_end", "unprint",
                  "unprint_end", "led_code", "led_ack", "leds_ack"}
      BY <2>1 DEF KeysTypeOK, Points, Leds
    <2>4. {cursor, pointed} \subseteq [x : 0..(Screen.x - 1), y : 0..(Screen.y - 1)]
      BY <2>1 DEF MouseTypeOK, Position
    <2> QED
      BY <2>1, <2>2, <2>3, <2>4, Zenon DEF TypeOK, KeysTypeOK, MouseTypeOK
  <1> QED
    BY <1>1, KeysInvariant, MouseInvariant, PTL

=============================================================================
