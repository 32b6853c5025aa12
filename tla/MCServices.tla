----------------------------- MODULE MCServices -----------------------------
(* Instances of Services for the model checker. *)
EXTENDS Services

Typing == [keys |-> 3, transfers |-> 0, sectors |-> 2]
TypingLess == [keys |-> 2, transfers |-> 0, sectors |-> 2]
Transferring == [keys |-> 0, transfers |-> 1, sectors |-> 3]

AllTyping == {Typing}
EitherLoad == {TypingLess, Transferring}
=============================================================================
