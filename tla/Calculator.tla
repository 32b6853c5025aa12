------------------------------- MODULE Calculator -------------------------------
(***************************************************************************)
(* The command math of the shell (kernel/main.c): an expression is turned  *)
(* into reverse polish notation with a stack of operators, and evaluated   *)
(* with a stack of numbers.  One action is one turn of the loop.           *)
(*                                                                         *)
(* An expression is a sequence of tokens, typed without spaces.  The       *)
(* options -beauty and -rev, which print more, and the width of int are    *)
(* left out.                                                               *)
(***************************************************************************)
EXTENDS Integers, Sequences, FiniteSets, FiniteSetsExt, SequencesExt

CONSTANTS
  Expressions,   (* bound: what is typed after math, not empty             *)
  EMPTY_NUM      (* what an empty stack of numbers returns: small enough   *)
                 (* for products of it to be numbers of TLC                *)

ASSUME CalculatorAssumption == EMPTY_NUM \in Int

VARIABLES
  expression,  (* what was typed                                           *)
  tokens,      (* what NextContent has still to return                     *)
  op_stack, num_stack,
  postfix,     (* result[]                                                 *)
  answer       (* the value printed; "refused" and "divide error" have no  *)
               (* value                                                    *)

calculator == <<expression, tokens, op_stack, num_stack, postfix, answer>>

Numbers == [t \in {"0", "2", "3", "12"} |->
              CASE t = "0" -> 0 [] t = "2" -> 2 [] t = "3" -> 3 [] t = "12" -> 12]
isNum(t) == t \in DOMAIN Numbers
isOperator(t) == t \in {"+", "-", "*", "/", "(", ")", "#"}

Answer(kind, n) == [kind |-> kind, value |-> n]
NoAnswer == Answer("none", 0)

(* Fault: all operators have the precedence of addition.  *)
icpFlat(op) == CASE op = "#" -> 0 [] op = "(" -> 6
                 [] op \in {"+", "-", "*", "/"} -> 2 [] op = ")" -> 1

(* Precedence inside and outside of the stack.  *)
isp(op) == CASE op = "#" -> 0 [] op = "(" -> 1 [] op \in {"*", "/"} -> 5
             [] op \in {"+", "-"} -> 3 [] op = ")" -> 6
icp(op) == CASE op = "#" -> 0 [] op = "(" -> 6 [] op \in {"*", "/"} -> 4
             [] op \in {"+", "-"} -> 2 [] op = ")" -> 1

(* Division in C truncates towards zero.  *)
Quotient(l, r) ==
  LET q == (IF l < 0 THEN -l ELSE l) \div (IF r < 0 THEN -r ELSE r)
  IN IF (l < 0) = (r < 0) THEN q ELSE -q

Cal(l, op, r) ==
  CASE op = "-" -> l - r
    [] op = "*" -> l * r
    [] op = "/" -> Quotient(l, r)
    [] OTHER -> l + r

check_exp_notion(s) == \A i \in DOMAIN s : isNum(s[i]) \/ isOperator(s[i])

Count(s, t) == Cardinality({i \in DOMAIN s : s[i] = t})
Depth(s, i) == Count(SubSeq(s, 1, i), "(") - Count(SubSeq(s, 1, i), ")")

(* bucket_stack holds left brackets only.  *)
check_exp_bucket(s) == Depth(s, Len(s)) = 0 /\ \A i \in DOMAIN s : Depth(s, i) >= 0

(* An expression that begins with an operator is beautified into a string  *)
(* that begins with a space, which NextContent takes for the number 0.     *)
Contents(s) ==
  LET all == Append(s, "#")
  IN IF isOperator(Head(all)) THEN <<"0">> \o all ELSE all

(* A minus alone is the beginning of -beauty, with no expression behind.   *)
OptionOnly(s) == s = <<"-">>

(* What is typed: the first time any expression, then the same again.  *)
Typed == IF expression = <<>> THEN Expressions ELSE {expression}

mathMain ==
  \E s \in Typed :
    /\ answer # NoAnswer
    /\ expression' = s
    /\ num_stack' = <<>> /\ postfix' = <<>>
    /\ IF ~OptionOnly(s) /\ check_exp_notion(s) /\ check_exp_bucket(s)
       THEN tokens' = Contents(s) /\ op_stack' = <<"#">> /\ answer' = NoAnswer
       ELSE tokens' = <<>> /\ op_stack' = <<>> /\ answer' = Answer("refused", 0)

-----------------------------------------------------------------------------
(* calculate  *)

NextContent == tokens' = Tail(tokens)

Operand ==
  /\ op_stack # <<>> /\ isNum(Head(tokens))
  /\ postfix' = Append(postfix, Head(tokens))
  /\ NextContent
  /\ UNCHANGED <<expression, op_stack, num_stack, answer>>

PushOperator ==
  /\ op_stack # <<>> /\ isOperator(Head(tokens))
  /\ isp(Last(op_stack)) < icp(Head(tokens))
  /\ op_stack' = Append(op_stack, Head(tokens))
  /\ NextContent
  /\ UNCHANGED <<expression, num_stack, postfix, answer>>

PopOperator ==
  /\ op_stack # <<>> /\ isOperator(Head(tokens))
  /\ isp(Last(op_stack)) > icp(Head(tokens))
  /\ postfix' = Append(postfix, Last(op_stack))
  /\ op_stack' = Front(op_stack)
  /\ UNCHANGED <<expression, tokens, num_stack, answer>>

(* A bracket meets its partner, or # the bottom of the stack.  *)
MatchOperator ==
  /\ op_stack # <<>> /\ isOperator(Head(tokens))
  /\ isp(Last(op_stack)) = icp(Head(tokens))
  /\ op_stack' = Front(op_stack)
  /\ IF Last(op_stack) = "(" THEN NextContent ELSE UNCHANGED tokens
  /\ UNCHANGED <<expression, num_stack, postfix, answer>>

(* calResult  *)
Evaluating == answer = NoAnswer /\ op_stack = <<>> /\ tokens # <<>>

Top(n) == IF Len(num_stack) < n THEN EMPTY_NUM ELSE num_stack[Len(num_stack) + 1 - n]

Below(n) == SubSeq(num_stack, 1, Len(num_stack) - n)

NumberNext ==
  /\ Evaluating /\ postfix # <<>> /\ isNum(Head(postfix))
  /\ num_stack' = Append(num_stack, Numbers[Head(postfix)])
  /\ postfix' = Tail(postfix)
  /\ UNCHANGED <<expression, tokens, op_stack, answer>>

(* A division by zero is an exception, which stops the machine.  *)
OperatorNext ==
  /\ Evaluating /\ postfix # <<>> /\ isOperator(Head(postfix))
  /\ IF Head(postfix) = "/" /\ Top(1) = 0
     THEN answer' = Answer("divide error", 0) /\ UNCHANGED <<num_stack, postfix>>
     ELSE /\ num_stack' = Append(Below(2), Cal(Top(2), Head(postfix), Top(1)))
          /\ postfix' = Tail(postfix)
          /\ UNCHANGED answer
  /\ UNCHANGED <<expression, tokens, op_stack>>

Result ==
  /\ Evaluating /\ postfix = <<>>
  /\ answer' = Answer("value", Top(1)) /\ num_stack' = Below(1)
  /\ UNCHANGED <<expression, tokens, op_stack, postfix>>

CalculatorInit ==
  /\ expression = <<>> /\ tokens = <<>> /\ postfix = <<>>
  /\ op_stack = <<>> /\ num_stack = <<>> /\ answer = Answer("refused", 0)

CalculatorStep ==
  \/ Operand \/ PushOperator \/ PopOperator \/ MatchOperator
  \/ NumberNext \/ OperatorNext \/ Result

-----------------------------------------------------------------------------
(* The value of an expression by its grammar: the last addition outside of *)
(* brackets, or else the last multiplication, is what is done last.        *)

Malformed == Answer("malformed", 0)

Combine(l, op, r) ==
  CASE Malformed \in {l, r} -> Malformed
    [] Malformed \notin {l, r} /\ "divide error" \in {l.kind, r.kind} -> Answer("divide error", 0)
    [] {l.kind, r.kind} = {"value"} /\ op = "/" /\ r.value = 0 -> Answer("divide error", 0)
    [] OTHER -> Answer("value", Cal(l.value, op, r.value))

RECURSIVE Meaning(_)
Meaning(s) ==
  LET Outer(ops) == {i \in 2..Len(s) : s[i] \in ops /\ Depth(s, i) = 0}
      At(i) == Combine(Meaning(SubSeq(s, 1, i - 1)), s[i], Meaning(SubSeq(s, i + 1, Len(s))))
  IN CASE Outer({"+", "-"}) # {} -> At(Max(Outer({"+", "-"})))
       [] Outer({"+", "-"}) = {} /\ Outer({"*", "/"}) # {} -> At(Max(Outer({"*", "/"})))
       [] Len(s) = 1 /\ isNum(s[1]) -> Answer("value", Numbers[s[1]])
       [] Len(s) > 2 /\ s[1] = "(" /\ Last(s) = ")" /\ Outer({"+", "-", "*", "/"}) = {} ->
            Meaning(SubSeq(s, 2, Len(s) - 1))
       [] OTHER -> Malformed

Signed(s) == IF s # <<>> /\ s[1] \in {"+", "-"} THEN <<"0">> \o s ELSE s

(* The loop over the operators never asks for more than the expression     *)
(* has, and for an expression of the grammar, with a sign before it or     *)
(* not, two stacks and two tables of precedences give its value (main.c:   *)
(* 1074-1109 and 873-890), or the division by zero that is in it.          *)
CalculatorTrue ==
  /\ op_stack # <<>> => tokens # <<>>
  /\ answer.kind \in {"value", "divide error"}
       => Meaning(Signed(expression)) \in {Malformed, answer}

=============================================================================
