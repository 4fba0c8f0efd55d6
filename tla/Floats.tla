------------------------------- MODULE Floats -------------------------------
(***************************************************************************)
(* The int and float of the program as its build has them: a float is      *)
(* m * 2^e, an operation gives the exact result rounded to Precision bits, *)
(* to nearest and ties to even, with infinities and NaN; an int wraps.     *)
(* There is no -0: no expression of the shell tells it from 0.             *)
(***************************************************************************)
EXTENDS Integers

CONSTANTS
  Precision,       \* the bits of a float's significand: 24
  MinExp, MaxExp,  \* the least float is 2^MinExp, all are below 2^MaxExp: -149, 128
  INT_MAX          \* 2147483647

ASSUME FloatAssumption ==
  /\ Precision \in Nat \ {0} /\ INT_MAX \in Nat
  /\ MinExp \in Int /\ MaxExp \in Nat

INT_MIN == -INT_MAX - 1
Wrap(n) == ((n - INT_MIN) % (2 * (INT_MAX + 1))) + INT_MIN

Abs(n) == IF n < 0 THEN -n ELSE n
Sign(n) == IF n < 0 THEN -1 ELSE IF n = 0 THEN 0 ELSE 1

pow2[k \in Nat] == IF k = 0 THEN 1 ELSE 2 * pow2[k - 1]
Bits[n \in Nat] == IF n = 0 THEN 0 ELSE 1 + Bits[n \div 2]
Twos[n \in Nat] == IF n = 0 \/ n % 2 = 1 THEN 0 ELSE 1 + Twos[n \div 2]

(* An m that is not 0 is odd.  The exponent MaxExp is that of what is not  *)
(* finite: m is 1 or -1 for an infinity, 0 for NaN.                        *)
Float == [m : Int, e : Int]

Zero == [m |-> 0, e |-> 0]
Infinite(s) == [m |-> s, e |-> MaxExp]
NaN == Infinite(0)

Finite(f) == f.e < MaxExp
IsZero(f) == Finite(f) /\ f.m = 0
Whole(f) == Finite(f) /\ f.e >= 0

(* n / 2^k for <<n, k>>, and the even one of two that are as near.         *)
HalfEven[x \in Nat \X Nat] ==
  LET d == pow2[x[2]]
      q == x[1] \div d
      twice == 2 * (x[1] % d)
  IN IF twice > d \/ (twice = d /\ q % 2 = 1) THEN q + 1 ELSE q

(* The float for n * 2^e, where x is <<n, e>>.                             *)
Excess(n, e) ==
  LET bits == Bits[n] - Precision
      small == MinExp - e
  IN IF bits < 0 /\ small < 0 THEN 0 ELSE IF bits < small THEN small ELSE bits

Rounded[x \in Int \X Int] ==
  LET drop == Excess(Abs(x[1]), x[2])
      q == HalfEven[<<Abs(x[1]), drop>>]
      e == x[2] + drop
  IN IF q = 0 THEN Zero
     ELSE IF Bits[q] + e > MaxExp THEN Infinite(Sign(x[1]))
     ELSE [m |-> Sign(x[1]) * (q \div pow2[Twos[q]]), e |-> e + Twos[q]]

Plus(f, g) ==
  IF Finite(f) /\ Finite(g)
  THEN LET e == IF f.e < g.e THEN f.e ELSE g.e
       IN Rounded[<<f.m * pow2[f.e - e] + g.m * pow2[g.e - e], e>>]
  ELSE IF Finite(g) THEN f
  ELSE IF Finite(f) \/ f = g THEN g ELSE NaN

Minus(f, g) == Plus(f, [g EXCEPT !.m = -@])

Times(f, g) ==
  IF Finite(f) /\ Finite(g) THEN Rounded[<<f.m * g.m, f.e + g.e>>]
  ELSE Infinite(Sign(f.m * g.m))

(* More bits than a float has, the last of them set if there are others.   *)
Quotient(f, g) ==
  LET a == Abs(f.m)
      b == Abs(g.m)
      more == Precision + 1 + Bits[b] - Bits[a]
      k == IF more < 0 THEN 0 ELSE more
      rest == (a * pow2[k]) % b
      q == 2 * ((a * pow2[k]) \div b) + (IF rest = 0 THEN 0 ELSE 1)
  IN Rounded[<<Sign(f.m) * Sign(g.m) * q, f.e - g.e - k - 1>>]

Over(f, g) ==
  IF Finite(f) /\ Finite(g) THEN IF f.m = 0 THEN Zero ELSE Quotient(f, g)
  ELSE IF Finite(g) THEN Infinite(Sign(f.m) * Sign(g.m))
  ELSE IF Finite(f) /\ g # NaN THEN Zero ELSE NaN

(* An int as a float, and back: the fraction is cut off, and what does not *)
(* fit becomes INT_MIN.                                                    *)
FromInt(n) == Rounded[<<n, 0>>]

Fits(f) == Finite(f) /\ Bits[Abs(f.m)] + f.e <= Bits[INT_MAX]
ToInt(f) ==
  IF ~Fits(f) THEN INT_MIN
  ELSE Sign(f.m) * (IF f.e < 0 THEN Abs(f.m) \div pow2[-f.e] ELSE Abs(f.m) * pow2[f.e])
=============================================================================
