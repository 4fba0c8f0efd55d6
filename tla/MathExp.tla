------------------------------ MODULE MathExp ------------------------------
(***************************************************************************)
(* shell_eval_math_exp: a string of digits and operators is split into     *)
(* numbers and the operators between them, which are then applied one by   *)
(* one, the first '*' or '/' before the first '+' or '-'.                  *)
(*                                                                         *)
(* Each action is one iteration of one of the two loops.  The caller is    *)
(* Shell: it starts an evaluation and takes its result.                    *)
(***************************************************************************)
EXTENDS Floats, SequencesExt

Digits == {"0", "1", "2", "3", "4", "5", "6", "7", "8", "9"}
Value == [c \in Digits |->
  CASE c = "0" -> 0 [] c = "1" -> 1 [] c = "2" -> 2 [] c = "3" -> 3 [] c = "4" -> 4
    [] c = "5" -> 5 [] c = "6" -> 6 [] c = "7" -> 7 [] c = "8" -> 8 [] OTHER -> 9]
Ops == {"+", "-", "*", "/"}

isdigit(c) == c \in Digits
isop(c) == c \in Ops

(* Only digits, operators and spaces, and at least one digit.              *)
is_exp(s) ==
  /\ \A k \in DOMAIN s : isop(s[k]) \/ isdigit(s[k]) \/ s[k] = " "
  /\ \E k \in DOMAIN s : isdigit(s[k])

Keep(s, c) == IF c = " " THEN s ELSE Append(s, c)
strip_spaces(s) == FoldLeft(Keep, <<>>, s)

NextDigit(n, c) == Wrap(n * 10 + Value[c])
atoi(s) == FoldLeft(NextDigit, 0, s)

Apply(o, q, r) ==
  CASE o = "+" -> Plus(q, r)
    [] o = "-" -> Minus(q, r)
    [] o = "*" -> Times(q, r)
    [] o = "/" -> Over(q, r)

VARIABLES
  given,      \* the string
  exp,        \* what is left to parse, spaces stripped
  p,          \* the characters since the last operator
  nums, ops,
  pc,         \* "idle", "parse", "reduce", "error" or "done"
  count       \* the numbers left

calc == <<given, exp, p, nums, ops, pc, count>>

Idle ==
  /\ given = <<>> /\ exp = <<>> /\ p = <<>>
  /\ nums = <<>> /\ ops = <<>>
  /\ pc = "idle" /\ count = 0

Start(s) ==
  /\ pc = "idle"
  /\ given' = s
  /\ exp' = strip_spaces(s)
  /\ pc' = "parse"
  /\ UNCHANGED <<p, nums, ops, count>>

(* An operator ends a number, which is 0 where there are no digits.        *)
Parse ==
  /\ pc = "parse" /\ exp # <<>>
  /\ exp' = Tail(exp)
  /\ IF isop(Head(exp))
     THEN /\ ops' = Append(ops, Head(exp))
          /\ nums' = Append(nums, FromInt(atoi(p)))
          /\ count' = count + 1
          /\ p' = <<>>
     ELSE /\ p' = Append(p, Head(exp))
          /\ UNCHANGED <<nums, ops, count>>
  /\ UNCHANGED <<given, pc>>

ParseEnd ==
  /\ pc = "parse" /\ exp = <<>>
  /\ nums' = Append(nums, FromInt(atoi(p)))
  /\ count' = count + 1
  /\ pc' = "reduce"
  /\ UNCHANGED <<given, exp, p, ops>>

(* The loop that looks for index: from the first operator, if it is '+' or *)
(* '-', it moves on to the first '*' or '/'.                               *)
Low(o) == o \in {"+", "-"}
High(o) == o \in {"*", "/"}

IndexFirst(k) == k = 1
Index(k) ==
  IF Low(ops[1]) /\ \E j \in DOMAIN ops : High(ops[j])
  THEN High(ops[k]) /\ \A j \in DOMAIN ops : j < k => Low(ops[j])
  ELSE k = 1

Shifted(k) == RemoveAt(ops, k)

LeftSame == count
Left == count - 1

(* nums[index] takes the result; what follows moves down by one.           *)
Reduce ==
  /\ pc = "reduce" /\ count > 1
  /\ \E k \in DOMAIN ops :
       /\ Index(k)
       /\ ~(ops[k] = "/" /\ IsZero(nums[k + 1]))
       /\ nums' = RemoveAt([nums EXCEPT ![k] = Apply(ops[k], nums[k], nums[k + 1])], k + 1)
       /\ ops' = Shifted(k)
  /\ count' = Left
  /\ UNCHANGED <<given, exp, p, pc>>

(* "Error: can't devide by 0!": 0 is returned.                             *)
DivideByZero ==
  /\ pc = "reduce" /\ count > 1
  /\ \E k \in DOMAIN ops : Index(k) /\ ops[k] = "/" /\ IsZero(nums[k + 1])
  /\ nums' = <<Zero>>
  /\ ops' = <<>>
  /\ pc' = "error"
  /\ UNCHANGED <<given, exp, p, count>>

(* The last number, without an operator, is the result.                    *)
Finish ==
  /\ pc = "reduce" /\ count = 1
  /\ count' = 0
  /\ pc' = "done"
  /\ UNCHANGED <<given, exp, p, nums, ops>>

Step == Parse \/ ParseEnd \/ Reduce \/ DivideByZero \/ Finish

(* The result is the caller's; the locals are gone.                        *)
Return ==
  /\ pc \in {"done", "error"}
  /\ given' = <<>> /\ exp' = <<>> /\ p' = <<>>
  /\ nums' = <<>> /\ ops' = <<>>
  /\ pc' = "idle" /\ count' = 0

(* set_variable: what becomes of the result q of the text s.               *)
IsFloatTimes(s) == \E k \in DOMAIN s : s[k] = "*"
IsFloat(s) == \E k \in DOMAIN s : s[k] = "/"
Converted(s, q) ==
  IF IsFloat(s) /\ ~IsZero(Minus(q, FromInt(ToInt(q))))
  THEN [type |-> "FLOAT", data |-> q]
  ELSE [type |-> "INT", data |-> ToInt(q)]

Result == Converted(given, nums[1])
-----------------------------------------------------------------------------
(* The value of an expression by the rules of precedence, in one pass from *)
(* left to right: the sum of the terms that are complete, the operator     *)
(* after it, and the same of the term that is not complete.  Left of an    *)
(* operator, no digits mean 0.  Each operation is the machine's: what it   *)
(* rounds is part of the value, the order of the operations is the rules'. *)
None == "none"
Begin == [sum |-> Zero, sumOp |-> None, term |-> Zero, op |-> None, error |-> FALSE]

Applied(o, q, r) == IF o = None THEN r ELSE Apply(o, q, r)

Grown(a, q) == Applied(a.op, a.term, q)
Summed(a, q) == Applied(a.sumOp, a.sum, Grown(a, q))
Fails(a, q) == a.error \/ (a.op = "/" /\ IsZero(q))

(* Number q and operator o come next.                                      *)
Advance(a, q, o) ==
  IF Fails(a, q) THEN [a EXCEPT !.error = TRUE]
  ELSE IF High(o)
  THEN [sum |-> a.sum, sumOp |-> a.sumOp, term |-> Grown(a, q), op |-> o, error |-> FALSE]
  ELSE [sum |-> Summed(a, q), sumOp |-> o, term |-> Zero, op |-> None, error |-> FALSE]

Scan(s, c) ==
  IF isdigit(c) THEN [s EXCEPT !.num = Append(@, c)]
  ELSE [at |-> Advance(s.at, FromInt(atoi(s.num)), c), num |-> <<>>]

Scanned(s) == FoldLeft(Scan, [at |-> Begin, num |-> <<>>], strip_spaces(s))

Broken(s) == Fails(s.at, FromInt(atoi(s.num)))
Total(s) == IF Broken(s) THEN Zero ELSE Summed(s.at, FromInt(atoi(s.num)))
-----------------------------------------------------------------------------
(* An evaluation keeps nums[] and ops[] in step, one operator between two  *)
(* numbers.                                                                *)
InStep ==
  /\ exp \in Seq(Digits \cup Ops) /\ p \in Seq(Digits)
  /\ nums \in Seq(Float) /\ ops \in Seq(Ops)
  /\ pc \in {"idle", "parse", "reduce", "error", "done"}
  /\ count \in Nat
  /\ pc = "idle" => p = <<>> /\ nums = <<>> /\ ops = <<>> /\ count = 0
  /\ pc = "parse" => Len(nums) = count /\ Len(ops) = count
  /\ pc = "reduce" => Len(nums) = count /\ Len(ops) = count - 1
  /\ pc \in {"done", "error"} => Len(nums) = 1 /\ ops = <<>>

(* What makes the result right: at any time the numbers, the operators     *)
(* between them and the characters left have the value of the whole        *)
(* expression, and there are fractions only if it divides.                 *)
After(q, o) == FoldLeft(LAMBDA a, k : Advance(a, q[k], o[k]), Begin, [k \in DOMAIN o |-> k])
SoFar == After(nums, ops)
LastNumber == nums[Len(ops) + 1]

ValueKept ==
  /\ pc = "parse" =>
       FoldLeft(Scan, [at |-> SoFar, num |-> p], exp) = Scanned(given)
  /\ pc \in {"reduce", "done"} =>
       /\ Fails(SoFar, LastNumber) = Broken(Scanned(given))
       /\ ~Broken(Scanned(given)) => Summed(SoFar, LastNumber) = Total(Scanned(given))
  /\ pc = "error" => Broken(Scanned(given)) /\ nums = <<Zero>>
  /\ ~IsFloat(given) =>
       /\ \A k \in DOMAIN nums : nums[k].e >= 0
       /\ \A k \in DOMAIN ops : ops[k] # "/"
       /\ \A k \in DOMAIN exp : exp[k] # "/"
=============================================================================
