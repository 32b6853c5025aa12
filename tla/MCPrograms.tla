------------------------------- MODULE MCPrograms -------------------------------
(* All programs, and the expressions the calculator is given.  *)
EXTENDS Programs

AllPrograms == {"math", "runttt", "2048", "MS", "runSnake"}

EmptyNum == -9

(* All short ones, without two numbers in a row, which would be one.  *)
Short ==
  {s \in UNION {[1..n -> {"2", "3", "+", "-", "*", "/", "(", ")"}] : n \in 1..4} :
     \A i \in 2..Len(s) : ~(isNum(s[i - 1]) /\ isNum(s[i]))}

Operators == {"+", "-", "*", "/"}
Long ==
  {<<"(", "12", o, "3", ")", p, "2">> : o, p \in Operators} \union
  {<<"12", o, "(", "3", p, "2", ")">> : o, p \in Operators} \union
  {<<"12", o, "3", p, "2", q, "3">> : o, p, q \in Operators}

AllExpressions == Short \union Long \union {<<"2", "x">>}

=============================================================================
