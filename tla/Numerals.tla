------------------------------ MODULE Numerals ------------------------------
(***************************************************************************)
(* What printf makes of the values that shell variables hold (stdio.c):    *)
(* putd prints an int, putf a float, both digit by digit, and puts the     *)
(* characters of a string.  Only '0' .. '9' are told apart here: any other *)
(* character that '0' + n may be is NoDigit.                               *)
(***************************************************************************)
EXTENDS MathExp

NoDigit == "?"
NewLine == "\n"

(* putc('0' + n), of which a char keeps eight bits.                        *)
Digit(n) ==
  IF n % 256 \in 0 .. 9 THEN CHOOSE c \in Digits : Value[c] = n % 256 ELSE NoDigit

(* putd: the digits before the last one first, as long as there are any.   *)
putd[n \in Int] ==
  IF n > 9 THEN Append(putd[n \div 10], Digit(n % 10)) ELSE <<Digit(n)>>

(* putf: the whole part, and six places of a rest that is more than 0.  The *)
(* remainder by 10 has the sign of the number.                             *)
Rest(f) == Minus(f, FromInt(ToInt(f)))

LastDigit(n) == Sign(n) * (Abs(n) % 10)

PlaceEarly(a, k) ==
  [f |-> Rest(Times(a.f, FromInt(10))), out |-> Append(a.out, Digit(LastDigit(ToInt(a.f))))]
Place(a, k) ==
  LET f == Times(a.f, FromInt(10))
  IN [f |-> Rest(f), out |-> Append(a.out, Digit(LastDigit(ToInt(f))))]

Places(f) == FoldLeft(Place, [f |-> f, out |-> <<>>], <<1, 2, 3, 4, 5, 6>>).out

putf(f) ==
  putd[ToInt(f)] \o (IF Rest(f).m > 0 THEN <<".">> \o Places(Rest(f)) ELSE <<>>)

Printed(v) ==
  CASE v.type = "INT" -> putd[v.data]
    [] v.type = "FLOAT" -> putf(v.data)
    [] v.type = "STRING" -> v.data
-----------------------------------------------------------------------------
(* What a reader makes of the digits: the whole part is that of f, and the *)
(* six places are those of f to one in the last, for each of the six       *)
(* multiplications rounds.  Without places f is whole.                     *)
TenfoldPlus(n, c) == n * 10 + Value[c]
Decimal(s) == FoldLeft(TenfoldPlus, 0, s)

(* The first six places of the fraction r / d.                             *)
Millionths(r, d) ==
  FoldLeft(LAMBDA a, k : [n |-> a.n * 10 + (a.r * 10) \div d, r |-> (a.r * 10) % d],
           [n |-> 0, r |-> r], <<1, 2, 3, 4, 5, 6>>).n

Dots(s) == {k \in DOMAIN s : s[k] = "."}

ReadsAs(s, f) ==
  LET dot == IF Dots(s) = {} THEN Len(s) + 1 ELSE CHOOSE k \in Dots(s) : TRUE
      whole == SubSeq(s, 1, dot - 1)
      places == SubSeq(s, dot + 1, Len(s))
  IN /\ whole # <<>>
     /\ \A k \in DOMAIN s : k # dot => isdigit(s[k])
     /\ Decimal(whole) = ToInt(f)
     /\ IF places = <<>> THEN Whole(f)
        ELSE /\ Len(places) = 6 /\ ~Whole(f)
             /\ Abs(Decimal(places) - Millionths(f.m % pow2[-f.e], pow2[-f.e])) <= 1
=============================================================================
