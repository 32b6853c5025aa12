--------------------------------- MODULE MCFs ---------------------------------
(* Small disks, and what the user does with them, for module Fs.  *)
EXTENDS Fs

Names == [n \in {"d", "f", "g", "h", "docs", "dev_tty0"} |->
            CASE n = "docs" -> 4 [] n = "dev_tty0" -> 8 [] OTHER -> 1]

TwoFiles == {<<"f">>, <<"g">>}
ThreeFiles == TwoFiles \union {<<"h">>}
OneDirectory == {<<"d">>, <<"d", "f">>, <<"d", "g">>}
Mixed == {<<"d">>, <<"f">>, <<"d", "g">>}

Files == {"touch", "rm", "cat", "vi", "mkdir"}
Creating == {"touch", "cat", "vi", "mkdir", "cd", "cd ..", "ls", "power"}
Flat == {"touch", "rm", "cat"}

PlainSessions == {[commands |-> Files, paths |-> TwoFiles]}
FlatSessions == {[commands |-> Flat, paths |-> ThreeFiles]}
TreeSessions == {[commands |-> Files, paths |-> OneDirectory],
                 [commands |-> Creating, paths |-> Mixed]}
AllSessions == FlatSessions \union TreeSessions
=============================================================================
