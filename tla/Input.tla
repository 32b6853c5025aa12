--------------------------------- MODULE Input ---------------------------------
(***************************************************************************)
(* How scan codes become keys and bytes of the mouse become movements:     *)
(* keyboard_handler, get_byte_from_kb_buf, keyboard_read and set_leds      *)
(* (kernel/keyboard.c), in_process (kernel/tty.c), and mouse_handler,      *)
(* mouse_decode and mouse_read (kernel/mouse.c).                           *)
(*                                                                         *)
(* keyboard_read takes one byte at a time and may be interrupted between   *)
(* any two of them; one action is one byte with all that is done before    *)
(* the next.  The mouse is read and decoded inside its interrupt handler,  *)
(* with its own interrupt masked.  Module Services says when TTY reads the *)
(* keyboard and what becomes of the keys.                                  *)
(***************************************************************************)
EXTENDS Integers, Sequences, SequencesExt

CONSTANTS
  KB_IN_BYTES,    (* size of the ring buffer of the keyboard               *)
  Screen,         (* scr_x and scr_y: a record [x, y]                      *)
  Uses            (* bounds: which keys are used and how often they are    *)
                  (* pressed, released or repeat, which movements the      *)
                  (* mouse makes and how many                              *)

(* The keys of which Codes, below, knows what the keyboard sends.  *)
Keys == {"ENTER", "PAD_ENTER", "CTRL_L", "CTRL_R", "a", "SHIFT_L", "SHIFT_R",
         "ALT_L", "ALT_R", "CAPS_LOCK", "NUM_LOCK", "SCROLL_LOCK", "F1", "PAD_7",
         "HOME", "PRINTSCREEN", "PAUSE"}

(* A movement is a pair of nine-bit numbers.  *)
Movements == [dx : -256..255, dy : -256..255, overflow : BOOLEAN]

ASSUME InputAssumption ==
  /\ KB_IN_BYTES \in Nat \ {0}
  /\ Screen.x \in Nat \ {0} /\ Screen.y \in Nat \ {0}
  /\ \A u \in Uses : /\ u.strokes \in Nat /\ u.keys \subseteq Keys
                     /\ u.moves \in Nat /\ u.movements \subseteq Movements

VARIABLES
  use,        (* bounds of this behaviour: an element of Uses              *)
  strokes,    (* presses, releases and repetitions so far                  *)
  held,       (* the keys that are held down                               *)
  sending,    (* bytes the keyboard has still to send                      *)
  port,       (* whether KB_DATA shows an acknowledgement                  *)
  kb_in,
  pc,         (* where keyboard_read is: the byte it asks for next         *)
  parsed,     (* bytes of the code of Pause that were recognised           *)
  key,        (* its local variables, which keep the value of the last     *)
  make,       (* code: key matters only as long as it is a special key;    *)
              (* make is the set of values it may have, as long as it was  *)
              (* not assigned                                              *)
  flags,      (* shift_l, shift_r, ctrl_l, ctrl_r, and alt_l as "ALT"      *)
  locks,      (* caps_lock, num_lock and scroll_lock                       *)
  delivered,  (* what in_process made of the keys                          *)
  typed, lit, astray,     (* history: see KeysTrue                         *)
  moves, packet,          (* movements so far; bytes the mouse has to send *)
  phase, buf,             (* mdec                                          *)
  cursor,                 (* mouse_x and mouse_y                           *)
  pointed, lost           (* history: see MouseFollows                     *)

device == <<use, strokes, held>>
wire == <<sending, port>>
decoder == <<pc, parsed, key, make>>
state == <<flags, locks, delivered>>
history == <<typed, lit, astray>>
mouse == <<moves, packet, phase, buf, cursor, pointed, lost>>
vars == <<device, wire, kb_in, decoder, state, history, mouse>>

ACK == \hFA
Special == {"PRINTSCREEN", "PAUSEBREAK"}
PauseCode == <<\hE1, \h1D, \h45, \hE1, \h9D, \hC5>>

(* The rows of keymap that the keys below use: plain, shifted, after E0.  *)
keymap(code) ==
  CASE code = \h1C -> <<"ENTER", "ENTER", "PAD_ENTER">>
    [] code = \h1D -> <<"CTRL_L", "CTRL_L", "CTRL_R">>
    [] code = \h1E -> <<"a", "A", "none">>
    [] code = \h2A -> <<"SHIFT_L", "SHIFT_L", "none">>
    [] code = \h36 -> <<"SHIFT_R", "SHIFT_R", "none">>
    [] code = \h37 -> <<"*", "*", "none">>
    [] code = \h38 -> <<"ALT_L", "ALT_L", "ALT_R">>
    [] code = \h3A -> <<"CAPS_LOCK", "CAPS_LOCK", "none">>
    [] code = \h3B -> <<"F1", "F1", "none">>
    [] code = \h45 -> <<"NUM_LOCK", "NUM_LOCK", "none">>
    [] code = \h46 -> <<"SCROLL_LOCK", "SCROLL_LOCK", "none">>
    [] code = \h47 -> <<"PAD_HOME", "7", "HOME">>
    [] OTHER -> <<"none", "none", "none">>

Letters == {"a"}
Shifts == {"SHIFT_L", "SHIFT_R"}
Controls == {"CTRL_L", "CTRL_R"}
Alts == {"ALT_L", "ALT_R"}
Modifiers == Shifts \union Controls \union Alts
Flags == Shifts \union Controls \union {"ALT"}
Locks == {"CAPS_LOCK", "NUM_LOCK", "SCROLL_LOCK"}

-----------------------------------------------------------------------------
(* The keyboard: what it sends for a key that is pressed, repeats, or is   *)
(* released while the keys of down are held down (the table at the end of  *)
(* keymap.h, and what keyboards send beyond it).                           *)

Plain(code) == [press |-> {<<code>>}, repeat |-> <<code>>, release |-> {<<code + 128>>}]

Escaped(code) ==
  [press |-> {<<\hE0, code>>}, repeat |-> <<\hE0, code>>, release |-> {<<\hE0, code + 128>>}]

(* A key of the middle block stands for one of the pad without Shift and   *)
(* NumLock: the keyboard lifts Shift in front of its code and puts it down *)
(* again behind it or, if Shift is not held, puts it down and lifts it     *)
(* under NumLock.                                                          *)
Lifted(down) ==
  (IF "SHIFT_L" \in down THEN <<\hE0, \hAA>> ELSE <<>>)
    \o (IF "SHIFT_R" \in down THEN <<\hE0, \hB6>> ELSE <<>>)

PutDown(down) ==
  (IF "SHIFT_R" \in down THEN <<\hE0, \h36>> ELSE <<>>)
    \o (IF "SHIFT_L" \in down THEN <<\hE0, \h2A>> ELSE <<>>)

Shifted(down) == down \cap Shifts # {}

Extended(code, down) ==
  LET before == IF Shifted(down) THEN Lifted(down) ELSE <<\hE0, \h2A>>
      behind == IF Shifted(down) THEN PutDown(down) ELSE <<\hE0, \hAA>>
  IN [press   |-> {<<\hE0, code>>, before \o <<\hE0, code>>},
      repeat  |-> <<\hE0, code>>,
      release |-> {<<\hE0, code + 128>>, <<\hE0, code + 128>> \o behind}]

PrintScreen(down) ==
  IF down \cap Alts # {} THEN Plain(\h54)
  ELSE IF down \cap (Shifts \union Controls) # {} THEN Escaped(\h37)
  ELSE [press   |-> {<<\hE0, \h2A, \hE0, \h37>>},
        repeat  |-> <<\hE0, \h37>>,
        release |-> {<<\hE0, \hB7, \hE0, \hAA>>}]

(* Pause sends everything at once; under Ctrl it is Break.  *)
Pause(down) ==
  LET code == IF down \cap Controls = {} THEN PauseCode ELSE <<\hE0, \h46, \hE0, \hC6>>
  IN [press |-> {code}, repeat |-> code, release |-> {<<>>}]

Codes(k, down) ==
  CASE k = "ENTER" -> Plain(\h1C)     [] k = "PAD_ENTER" -> Escaped(\h1C)
    [] k = "CTRL_L" -> Plain(\h1D)    [] k = "CTRL_R" -> Escaped(\h1D)
    [] k = "a" -> Plain(\h1E)
    [] k = "SHIFT_L" -> Plain(\h2A)   [] k = "SHIFT_R" -> Plain(\h36)
    [] k = "ALT_L" -> Plain(\h38)     [] k = "ALT_R" -> Escaped(\h38)
    [] k = "CAPS_LOCK" -> Plain(\h3A) [] k = "NUM_LOCK" -> Plain(\h45)
    [] k = "SCROLL_LOCK" -> Plain(\h46)
    [] k = "F1" -> Plain(\h3B)
    [] k = "PAD_7" -> Plain(\h47)     [] k = "HOME" -> Extended(\h47, down)
    [] k = "PRINTSCREEN" -> PrintScreen(down)
    [] k = "PAUSE" -> Pause(down)

(* What a key means to somebody who looks at the keyboard, with the keys   *)
(* that are held down and the lights that are lit.  Which of the two Alt   *)
(* keys is held is left out: keyboard_read reports the right one as the    *)
(* left (keyboard.c 221), and in_process asks for either.                  *)
Held(down) ==
  (down \cap (Shifts \union Controls)) \union {"ALT" : k \in down \cap Alts}

Char(c, with) == [key |-> c, flags |-> with]

Meaning(k, down, lights) ==
  LET shift == Shifted(down)
      with == Held(down)
  IN CASE k = "a" ->
            <<Char(IF shift # ("CAPS_LOCK" \in lights) THEN "A" ELSE "a", with)>>
       [] k = "PAD_7" /\ shift -> <<Char("7", with)>>
       [] k = "PAD_7" /\ ~shift /\ "NUM_LOCK" \in lights ->
            <<Char("7", with \union {"PAD"})>>
       [] k \in {"ENTER", "PAD_ENTER"} -> <<Char("newline", {})>>
       [] k = "F1" /\ "ALT" \in with -> <<Char("console", {})>>
       [] OTHER -> <<>>

Toggled(k, lights) == (lights \ {k}) \union (({k} \cap Locks) \ lights)

(* One key at a time, and not while the keyboard is still sending.  The    *)
(* two Alt keys are one flag to keyboard_read: whoever releases one and    *)
(* still holds the other has lost it.                                      *)
Stroke(k, code, down, means, lights) ==
  /\ sending = <<>> /\ strokes < use.strokes
  /\ strokes' = strokes + 1
  /\ sending' = code
  /\ held' = down
  /\ typed' = typed \o means
  /\ lit' = lights
  /\ astray' = (astray \/ ("ALT" \in Held(down) /\ k \in Alts \ down))
  /\ UNCHANGED <<use, port, kb_in, decoder, state, mouse>>

Press(k) ==
  /\ k \notin held
  /\ \E code \in Codes(k, held).press :
       Stroke(k, code, held \union ({k} \ {"PAUSE"}),
              Meaning(k, held \union {k}, lit), Toggled(k, lit))

Repeat(k) ==
  /\ k \in held
  /\ Stroke(k, Codes(k, held).repeat, held, Meaning(k, held, lit), Toggled(k, lit))

Release(k) ==
  /\ k \in held
  /\ \E code \in Codes(k, held).release : Stroke(k, code, held \ {k}, <<>>, lit)

(* Fault: the count of the ring buffer is not looked at.  *)
KeyboardHandlerUnbounded ==
  /\ sending # <<>>
  /\ port' = (Head(sending) = ACK)
  /\ sending' = Tail(sending)
  /\ kb_in' = Append(kb_in, Head(sending))
  /\ UNCHANGED <<device, decoder, state, history, mouse>>

(* keyboard_handler  *)
KeyboardHandler ==
  /\ sending # <<>>
  /\ port' = (Head(sending) = ACK)
  /\ sending' = Tail(sending)
  /\ kb_in' = IF Len(kb_in) < KB_IN_BYTES THEN Append(kb_in, Head(sending)) ELSE kb_in
  /\ astray' = (astray \/ Len(kb_in) = KB_IN_BYTES)
  /\ UNCHANGED <<device, decoder, state, typed, lit, mouse>>

-----------------------------------------------------------------------------
(* in_process: what becomes of a key.  The NUL of a code that keymap does  *)
(* not have is left out: tty_dev_write drops it.                           *)
in_process(k, with) ==
  CASE k \in {"a", "A", "7", "*"} -> <<Char(k, with)>>
    [] k = "ENTER" -> <<Char("newline", {})>>
    [] k = "F1" /\ "ALT" \in with -> <<Char("console", {})>>
    [] OTHER -> <<>>

(* The keys of the pad that the keyboard here has.  *)
OnPad(k, lights) ==
  CASE k = "PAD_ENTER" -> "ENTER"
    [] k = "PAD_HOME" /\ "NUM_LOCK" \in lights -> "7"
    [] k = "PAD_HOME" /\ "NUM_LOCK" \notin lights -> "HOME"
    [] OTHER -> k

Pad == {"PAD_ENTER", "PAD_HOME"}

(* The end of a turn of the loop, once key and make are known: breaks are  *)
(* ignored, a make gets its flags.                                         *)
Received(k, makes, with, lights) ==
  IF makes
  THEN in_process(OnPad(k, lights), with \union {"PAD" : p \in {k} \cap Pad})
  ELSE <<>>

Deliver(k, makes) ==
  /\ make' = {makes}
  /\ key' = IF k \in Special /\ (~makes \/ flags' = {}) THEN k ELSE "none"
  /\ delivered' = delivered \o Received(k, makes, flags', locks')

Column(row, e0, with, lights) ==
  LET shift == with \cap Shifts # {}
      caps == shift # ("CAPS_LOCK" \in lights /\ row[1] \in Letters)
  IN IF e0 THEN 3 ELSE IF caps THEN 2 ELSE 1

KeyOf(code, e0, with, lights) ==
  LET row == keymap(code % 128) IN row[Column(row, e0, with, lights)]

(* alt_l stands for both Alt keys; alt_r is never set.  *)
Flag(k) == IF k \in Alts THEN "ALT" ELSE k

FlagsAfter(k, makes, with) ==
  IF k \notin Modifiers THEN with
  ELSE IF makes THEN with \union {Flag(k)} ELSE with \ {Flag(k)}

LocksAfter(k, makes, lights) == IF makes THEN Toggled(k, lights) ELSE lights

Known(k, makes) ==
  /\ flags' = FlagsAfter(k, makes, flags)
  /\ locks' = LocksAfter(k, makes, locks)
  /\ Deliver(k, makes)
  /\ pc' = IF makes /\ k \in Locks THEN "led_code" ELSE "first"

(* The byte that ends a code.  A special key that an earlier code of the   *)
(* same call left in key stays there: the code is not looked up.           *)
Decode(code, e0) ==
  /\ \/ /\ key \in Special
        /\ UNCHANGED <<flags, locks>>
        /\ \E makes \in make : Deliver(key, makes)
        /\ pc' = "first"
     \/ /\ key \notin Special
        /\ Known(KeyOf(code, e0, flags, locks), code < 128)
  /\ astray' = (astray \/ code = \hE1)

NextByte == Head(kb_in)

get_byte_from_kb_buf == kb_in # <<>> /\ kb_in' = Tail(kb_in)

Go(point) == pc' = point /\ UNCHANGED <<key, make, state, astray>>

Recognise(k, makes) ==
  /\ UNCHANGED <<flags, locks>>
  /\ Deliver(k, makes) /\ pc' = "first" /\ astray' = TRUE

KeyStep(point) ==
  /\ pc = point /\ get_byte_from_kb_buf
  /\ UNCHANGED <<device, wire, typed, lit, mouse>>

ReadFirst ==
  /\ KeyStep("first")
  /\ \/ NextByte = \hE1 /\ Go("pause")
     \/ NextByte = \hE0 /\ Go("extended")
     \/ NextByte \notin {\hE0, \hE1} /\ Decode(NextByte, FALSE)
  /\ parsed' = IF NextByte = \hE1 THEN 1 ELSE 0

(* Pause does not assign make.  *)
ReadPause ==
  /\ KeyStep("pause")
  /\ \/ /\ NextByte # PauseCode[parsed + 1]
        /\ Decode(\hE1, FALSE) /\ parsed' = 0
     \/ /\ NextByte = PauseCode[parsed + 1] /\ parsed < 5
        /\ Go("pause") /\ parsed' = parsed + 1
     \/ /\ NextByte = PauseCode[parsed + 1] /\ parsed = 5
        /\ \E makes \in make : Recognise("PAUSEBREAK", makes)
        /\ parsed' = 0

(* Fault: the shift that ends the code of an E0 key is taken for the       *)
(* beginning of that of PrintScreen.                                       *)
ReadExtendedShift ==
  /\ KeyStep("extended")
  /\ \/ NextByte = \h2A /\ Go("print")
     \/ NextByte \in {\hB7, \hAA} /\ Go("unprint")
     \/ NextByte \notin {\h2A, \hB7, \hAA} /\ Decode(NextByte, TRUE)
  /\ UNCHANGED parsed

ReadExtended ==
  /\ KeyStep("extended")
  /\ \/ NextByte = \h2A /\ Go("print")
     \/ NextByte = \hB7 /\ Go("unprint")
     \/ NextByte \notin {\h2A, \hB7} /\ Decode(NextByte, TRUE)
  /\ UNCHANGED parsed

(* The codes of PrintScreen: E0 2A, E0 37 and E0 B7, E0 AA.  *)
ReadPrint(point, last, makes) ==
  \/ /\ KeyStep(point)
     /\ IF NextByte = \hE0 THEN Go(last) ELSE Decode(NextByte, FALSE)
     /\ UNCHANGED parsed
  \/ /\ KeyStep(last)
     /\ IF NextByte = (IF makes THEN \h37 ELSE \hAA)
        THEN Recognise("PRINTSCREEN", makes) ELSE Decode(NextByte, TRUE)
     /\ UNCHANGED parsed

(* set_leds: two bytes to the keyboard, each of which it acknowledges as   *)
(* soon as it has sent what it was sending.  The acknowledgement is seen   *)
(* by kb_ack, which polls the port, and by keyboard_handler.               *)
LedCode ==
  /\ pc = "led_code"
  /\ sending' = Append(sending, ACK) /\ pc' = "led_ack"
  /\ UNCHANGED <<device, port, kb_in, parsed, key, make, state, history, mouse>>

LedValue ==
  /\ pc = "led_ack" /\ port
  /\ sending' = Append(sending, ACK) /\ pc' = "leds_ack"
  /\ UNCHANGED <<device, port, kb_in, parsed, key, make, state, history, mouse>>

LedsDone ==
  /\ pc = "leds_ack" /\ port
  /\ pc' = "first"
  /\ UNCHANGED <<device, wire, kb_in, parsed, key, make, state, history, mouse>>

(* The loop ends with the buffer empty; the next call starts afresh.       *)
InStep == sending = <<>> /\ flags = Held(held)

(* Fault: key outlives the call.  *)
ReturnKeepsKey ==
  /\ pc = "first" /\ kb_in = <<>>
  /\ make' = BOOLEAN
  /\ IF sending = <<>> THEN typed' = <<>> /\ delivered' = <<>>
                       ELSE UNCHANGED <<typed, delivered>>
  /\ IF InStep THEN astray' = FALSE /\ lit' = locks ELSE UNCHANGED <<astray, lit>>
  /\ UNCHANGED <<device, wire, kb_in, pc, key, parsed, flags, locks, mouse>>

Return ==
  /\ pc = "first" /\ kb_in = <<>>
  /\ key' = "none" /\ make' = BOOLEAN
  /\ IF sending = <<>> THEN typed' = <<>> /\ delivered' = <<>>
                       ELSE UNCHANGED <<typed, delivered>>
  /\ IF InStep THEN astray' = FALSE /\ lit' = locks ELSE UNCHANGED <<astray, lit>>
  /\ UNCHANGED <<device, wire, kb_in, pc, parsed, flags, locks, mouse>>

-----------------------------------------------------------------------------
(* The mouse: packets of three bytes, after the acknowledgement of the     *)
(* command that started it.                                                *)

Clamp(n, size) == IF n < 0 THEN 0 ELSE IF n >= size THEN size - 1 ELSE n

Pushed(at, dx, dy) ==
  [x |-> Clamp(at.x + dx, Screen.x), y |-> Clamp(at.y - dy, Screen.y)]

Packet(m) ==
  <<8 + (IF m.dx < 0 THEN 16 ELSE 0) + (IF m.dy < 0 THEN 32 ELSE 0)
      + (IF m.overflow THEN 64 ELSE 0), m.dx % 256, m.dy % 256>>

LooksFirst(byte) == byte \div 64 = 0 /\ (byte \div 8) % 2 = 1

(* mouse_decode skips a packet with an overflow bit byte by byte.  If one  *)
(* of its two other bytes looks like the first of a packet it is lost: it  *)
(* may never find the beginning of one again.                              *)
MouseMoves ==
  /\ packet = <<>> /\ moves < use.moves
  /\ \E m \in use.movements :
       /\ packet' = Packet(m)
       /\ pointed' = IF m.overflow THEN pointed ELSE Pushed(pointed, m.dx, m.dy)
       /\ lost' = (lost \/ (m.overflow /\ \E i \in 2..3 : LooksFirst(Packet(m)[i])))
  /\ moves' = moves + 1
  /\ UNCHANGED <<device, wire, kb_in, decoder, state, history, phase, buf, cursor>>

(* Fault: a movement is negative if its byte is.  *)
SignedByte(byte, bit) == IF byte >= 128 THEN byte - 256 ELSE byte

Signed(byte, bit) == IF (buf[1] \div bit) % 2 = 1 THEN byte - 256 ELSE byte

(* mouse_decode: the new phase, and the bytes kept.  *)
mouse_decode(byte) ==
  \/ phase = 0 /\ phase' = (IF byte = ACK THEN 1 ELSE 0) /\ UNCHANGED buf
  \/ /\ phase = 1
     /\ IF LooksFirst(byte)
        THEN phase' = 2 /\ buf' = <<byte>> ELSE UNCHANGED <<phase, buf>>
  \/ phase = 2 /\ phase' = 3 /\ buf' = Append(buf, byte)
  \/ phase = 3 /\ phase' = 1 /\ buf' = <<>>

MouseHandler ==
  /\ packet # <<>>
  /\ packet' = Tail(packet)
  /\ mouse_decode(Head(packet))
  /\ cursor' = IF phase = 3
               THEN Pushed(cursor, Signed(buf[2], 16), Signed(Head(packet), 32))
               ELSE cursor
  /\ UNCHANGED <<device, wire, kb_in, decoder, state, history, moves, pointed, lost>>

-----------------------------------------------------------------------------
Init ==
  /\ use \in Uses /\ strokes = 0 /\ held = {}
  /\ sending = <<>> /\ port = FALSE /\ kb_in = <<>>
  /\ pc = "first" /\ parsed = 0 /\ key = "none" /\ make = BOOLEAN
  /\ flags = {} /\ locks = {"NUM_LOCK"} /\ delivered = <<>>
  /\ typed = <<>> /\ lit = {"NUM_LOCK"} /\ astray = FALSE
  /\ moves = 0 /\ packet = (IF use.moves > 0 THEN <<ACK>> ELSE <<>>)
  /\ phase = 0 /\ buf = <<>>
  /\ cursor = [x |-> Screen.x \div 2, y |-> Screen.y \div 2]
  /\ pointed = cursor /\ lost = FALSE

Next ==
  \/ \E k \in use.keys : Press(k) \/ Repeat(k) \/ Release(k)
  \/ KeyboardHandler
  \/ ReadFirst \/ ReadPause \/ ReadExtended
  \/ ReadPrint("print", "print_end", TRUE) \/ ReadPrint("unprint", "unprint_end", FALSE)
  \/ LedCode \/ LedValue \/ LedsDone \/ Return
  \/ MouseMoves \/ MouseHandler

Spec == Init /\ [][Next]_vars

-----------------------------------------------------------------------------
Byte == 0..255

(* Types; kb_in.count and the cursor stay in their bounds (keyboard.c:58,  *)
(* mouse.c:131-138), whatever the devices send.                            *)
TypeOK ==
  /\ use \in Uses /\ strokes \in 0..use.strokes /\ moves \in 0..use.moves
  /\ held \subseteq use.keys
  /\ {sending, kb_in, packet} \subseteq Seq(Byte) /\ port \in BOOLEAN
  /\ Len(kb_in) <= KB_IN_BYTES
  /\ pc \in {"first", "pause", "extended", "print", "print_end", "unprint",
             "unprint_end", "led_code", "led_ack", "leds_ack"}
  /\ parsed \in 0..5 /\ (parsed > 0 <=> pc = "pause")
  /\ key \in Special \union {"none"} /\ make \in (SUBSET BOOLEAN) \ {{}}
  /\ flags \subseteq Flags /\ locks \subseteq Locks /\ lit \subseteq Locks
  /\ astray \in BOOLEAN /\ lost \in BOOLEAN
  /\ phase \in 0..3 /\ Len(buf) = (IF phase > 1 THEN phase - 1 ELSE 0)
  /\ {cursor, pointed} \subseteq [x : 0..(Screen.x - 1), y : 0..(Screen.y - 1)]

(* keyboard_read tells a key from others by one to six bytes and by what   *)
(* it remembers of earlier ones.  The characters it puts into the buffer   *)
(* of the terminal are the ones typed, in their order, with the shift,     *)
(* control and alt keys that were held down when they were typed, and when *)
(* no byte is left none is missing, even if it waits for more.  It goes    *)
(* astray when a byte found the ring buffer full, when one of two Alt keys *)
(* is released, from PrintScreen or Pause to the end of the call, and when *)
(* it takes the first byte of Pause for that of another key; it is in step *)
(* again when it returns with the flags of the keys that are held down.    *)
Quiet == kb_in = <<>> /\ sending = <<>>

KeysTrue ==
  ~astray => /\ IsPrefix(delivered, typed)
             /\ Quiet => delivered = typed /\ flags = Held(held) /\ locks = lit

(* keyboard_read waits for the rest of a code inside get_byte_from_kb_buf, *)
(* and TTY serves nobody meanwhile.  It does wait for a code that the      *)
(* keyboard has no rest of: E0 2A and E0 B7 are the beginning of           *)
(* PrintScreen's to it (keyboard.c 158 and 169), but E0 2A also ends the   *)
(* code of a key of the middle block that is released while Shift is held, *)
(* and E0 B7 is all of PrintScreen's while Shift or Ctrl is.  So it waits  *)
(* no longer than the user holds Shift or Ctrl down, unless it is astray.  *)
WaitsOnlyWhileHeld ==
  ~astray /\ Quiet /\ pc \notin {"first", "led_code", "led_ack", "leds_ack"}
    => /\ pc \in {"print", "unprint"}
       /\ held \cap (Shifts \union Controls) # {}

(* mouse_decode finds the beginning of a packet by two bits of a byte, and *)
(* has nothing else to go by (mouse.c 85).  Whenever no byte is under way  *)
(* it is at the beginning of a packet, and the pointer is where all the    *)
(* movements but those with an overflow bit have taken it, within the      *)
(* screen; until a movement with an overflow bit has a byte that looks     *)
(* like the first of a packet.  Nothing is claimed of the pointer from     *)
(* then on.                                                                *)
MouseFollows ==
  packet = <<>> /\ ~lost /\ phase # 0 => phase = 1 /\ cursor = pointed

=============================================================================
