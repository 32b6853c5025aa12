-------------------------------- MODULE MCInput --------------------------------
(* Uses of the keyboard, three or four keys each, and of the mouse.  *)
EXTENDS Input

SmallScreen == [x |-> 1024, y |-> 768]

Typing(n, ks) == [keys |-> ks, strokes |-> n, movements |-> {}, moves |-> 0]

(* Movements by whose bytes mouse_decode could be misled: some look like   *)
(* the first byte of a packet, some have an overflow bit.                  *)
Pointing == [keys |-> {}, strokes |-> 0, moves |-> 4,
             movements |-> [dx : {-256, -1, 9}, dy : {-200, 100}, overflow : BOOLEAN]]

AllUses ==
  {Pointing,
   Typing(5, {"a", "SHIFT_L", "CAPS_LOCK"}),
   Typing(4, {"a", "SHIFT_R", "PRINTSCREEN"}),
   Typing(4, {"a", "SHIFT_L", "HOME", "PAUSE"}),
   Typing(3, {"PAD_7", "HOME", "NUM_LOCK"}),
   Typing(4, {"F1", "ALT_L", "ALT_R"}),
   Typing(3, {"PAD_ENTER", "CTRL_R", "PAUSE"})}

=============================================================================
