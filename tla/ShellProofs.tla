----------------------------- MODULE ShellProofs ----------------------------
(***************************************************************************)
(* What holds of the shell's variables for every session: the type         *)
(* invariant, that no name is twice in the list, that each variable holds  *)
(* the text that was entered last for it, or its value by the rules of     *)
(* precedence in the machine's floats (shell.c), and that echo prints it   *)
(* unless it has a fraction (stdio.c).  The floats may have any precision  *)
(* and any range.                                                          *)
(*                                                                         *)
(* The loops over a text (cutting it into arguments, joining them, reading *)
(* digits, evaluating from left to right) are folds of one operation over  *)
(* a sequence.  Induction is by a least counterexample: Least finds the    *)
(* least element of a set of natural numbers, Ind is induction for a set   *)
(* of them, and for each operation a lemma ...Steps says that its fold is  *)
(* the last of a sequence of partial results, each made of the one before. *)
(* Then:                                                                   *)
(*   CutJoin      cutting a line at its spaces and joining the arguments   *)
(*                from the third on again gives the text that was typed;   *)
(*   ScanHead     an expression is read from where its first character     *)
(*                leads, which is one iteration of the parser;             *)
(*   AfterReduce  applying the first '*' or '/' before the first '+' or    *)
(*                '-' leaves the value of the expression as it is;         *)
(*   PushedIs     what set_variable does to the list;                      *)
(*   putdReads    the digits that putd prints read as the value printed.   *)
(***************************************************************************)
EXTENDS Shell, SequenceTheorems, FiniteSetTheorems, TLAPS, WellFoundedInduction

(* Of some natural numbers one is the least.                               *)
LEMMA Least ==
  ASSUME NEW T, T \subseteq Nat, T # {}
  PROVE \E x \in T : \A y \in T : x <= y
<1> DEFINE R == {ss \in Nat \X Nat : ss[1] < ss[2]}
<1>1. IsWellFoundedOn(R, Nat) BY NatLessThanWellFounded DEF OpToRel
<1>3. \A x, y \in Nat : <<y, x>> \notin R => x <= y OBVIOUS
<1> HIDE DEF R
<1>2. \E x \in T : \A y \in T : ~(<<y, x>> \in R) BY <1>1, WFMin
<1>4. PICK x \in T : \A y \in T : ~(<<y, x>> \in R) BY <1>2
<1>5. \A y \in T : x <= y 
  <2> TAKE y \in T
  <2>1. x \in Nat /\ y \in Nat OBVIOUS
  <2> QED BY <2>1, <1>3, <1>4
<1> QED BY <1>4, <1>5

(* Induction up to n, for a set.                                           *)
LEMMA Ind ==
  ASSUME NEW n \in Nat, NEW P, 0 \in P, \A k \in 0 .. (n - 1) : k \in P => k + 1 \in P
  PROVE \A k \in 0 .. n : k \in P
<1> SUFFICES ASSUME NEW k \in 0 .. n, k \notin P PROVE FALSE OBVIOUS
<1> DEFINE T == {j \in 0 .. n : j \notin P}
<1>1. PICK x \in T : \A y \in T : x <= y 
  <2>1. T \subseteq Nat /\ T # {} OBVIOUS
  <2> HIDE DEF T
  <2> QED BY <2>1, Least
<1>2. x \in 1 .. n BY <1>1
<1>3. x - 1 \in 0 .. n - 1 /\ x - 1 \notin T BY <1>1, <1>2
<1> QED BY <1>1, <1>2, <1>3

(* The greatest of the indices, by which the library folds a sequence.     *)
LEMMA MaxIs ==
  ASSUME NEW t, t \subseteq Nat, NEW n \in t, \A m \in t : m <= n
  PROVE Max(t) = n
<1>1. \E x \in t : \A y \in t : x >= y OBVIOUS
<1>2. Max(t) \in t /\ \A y \in t : Max(t) >= y BY <1>1 DEF Max
<1>3. Max(t) \in Nat /\ n \in Nat /\ Max(t) >= n /\ Max(t) <= n BY <1>2
<1> QED BY <1>3

LEMMA MaxUpTo ==
  ASSUME NEW n \in Nat, NEW t \in SUBSET (1 .. n), t # {}
  PROVE Max(t) \in t /\ \A m \in t : m <= Max(t)
<1> DEFINE U == {k \in 0 .. n : \A m \in t : m <= k}
<1>1. U \subseteq Nat /\ U # {} /\ 0 \notin U
  <2>1. n \in U OBVIOUS
  <2>2. PICK m \in t : m \in 1 .. n OBVIOUS
  <2> QED BY <2>1, <2>2
<1>2. PICK x \in U : \A y \in U : x <= y
  <2> HIDE DEF U
  <2> QED BY <1>1, Least
<1>3. x - 1 \in 0 .. n /\ x - 1 \notin U BY <1>1, <1>2
<1>4. PICK m \in t : ~(m <= x - 1) BY <1>3
<1>5. x \in t BY <1>2, <1>4
<1>6. \A y \in t : y <= x BY <1>2
<1>7. t \subseteq Nat /\ x \in Nat OBVIOUS
<1>8. Max(t) = x BY <1>7, <1>5, <1>6, MaxIs
<1> QED BY <1>5, <1>6, <1>8

(* F is the function by which the library defines a fold over a sequence   *)
(* of n elements, where f[v, k] is what the k-th makes of v.               *)
Folds(F, n, b, f) ==
  \A t \in SUBSET (1 .. n) :
    F[t] = IF t = {} THEN b ELSE f[<<F[t \ {Max(t)}], Max(t)>>]

(* There is one.                                                           *)
LEMMA FoldExists ==
  ASSUME NEW n \in Nat, NEW V, NEW b \in V, NEW f \in [V \X (1 .. n) -> V]
  PROVE \E F \in [SUBSET (1 .. n) -> V] : Folds(F, n, b, f)
<1> DEFINE Is(F, k) ==
       \A t \in SUBSET (1 .. k) :
         F[t] = IF t = {} THEN b ELSE f[<<F[t \ {Max(t)}], Max(t)>>]
    P == {k \in 0 .. n : \E F \in [SUBSET (1 .. k) -> V] : Is(F, k)}
<1>1. 0 \in P
  <2>1. [t \in SUBSET (1 .. 0) |-> b] \in [SUBSET (1 .. 0) -> V] OBVIOUS
  <2>2. \A t \in SUBSET (1 .. 0) : t = {} OBVIOUS
  <2>3. Is([t \in SUBSET (1 .. 0) |-> b], 0) BY <2>2
  <2>4. 0 \in 0 .. n OBVIOUS
  <2> HIDE DEF Is
  <2> QED BY <2>1, <2>3, <2>4
<1>2. \A k \in 0 .. (n - 1) : k \in P => k + 1 \in P
  <2> SUFFICES ASSUME NEW k \in 0 .. (n - 1), k \in P PROVE k + 1 \in P OBVIOUS
  <2>1. PICK F \in [SUBSET (1 .. k) -> V] : Is(F, k) OBVIOUS
  <2> DEFINE G == [t \in SUBSET (1 .. (k + 1)) |->
                     IF k + 1 \in t THEN f[<<F[t \ {k + 1}], k + 1>>] ELSE F[t]]
  <2>2. \A t \in SUBSET (1 .. (k + 1)) :
          /\ t \ {k + 1} \in SUBSET (1 .. k)
          /\ k + 1 \notin t => t \in SUBSET (1 .. k)
          /\ t \ {Max(t)} \in SUBSET (1 .. (k + 1))
    <3> TAKE t \in SUBSET (1 .. (k + 1))
    <3>1. \A j \in t : j \in 1 .. (k + 1) OBVIOUS
    <3>2. \A j \in t : j # k + 1 => j \in 1 .. k BY <3>1
    <3> QED BY <3>1, <3>2
  <2>3. G \in [SUBSET (1 .. (k + 1)) -> V]
    <3> SUFFICES ASSUME NEW t \in SUBSET (1 .. (k + 1))
                 PROVE (IF k + 1 \in t THEN f[<<F[t \ {k + 1}], k + 1>>] ELSE F[t]) \in V
      OBVIOUS
    <3>1. F[t \ {k + 1}] \in V BY <2>2
    <3>2. k + 1 \in 1 .. n OBVIOUS
    <3>3. f[<<F[t \ {k + 1}], k + 1>>] \in V BY <3>1, <3>2
    <3> QED BY <2>2, <3>3
  <2>4. ASSUME NEW t \in SUBSET (1 .. (k + 1)), t # {}
        PROVE G[t] = f[<<G[t \ {Max(t)}], Max(t)>>]
    <3>1. CASE k + 1 \in t
      <4>1. Max(t) = k + 1
        <5>1. \A m \in t : m <= k + 1 /\ m \in Nat OBVIOUS
        <5> QED BY <3>1, <5>1, MaxIs
      <4>2. G[t \ {k + 1}] = F[t \ {k + 1}] BY <2>2
      <4> QED BY <3>1, <4>1, <4>2
    <3>2. CASE k + 1 \notin t
      <4>1. t \in SUBSET (1 .. k) BY <2>2, <3>2
      <4>2. G[t] = F[t] BY <3>2
      <4>3. G[t \ {Max(t)}] = F[t \ {Max(t)}] BY <3>2, <2>2
      <4> QED BY <2>1, <2>4, <4>1, <4>2, <4>3
    <3> QED BY <3>1, <3>2
  <2>5. G[{}] = b
    <3>1. G[{}] = F[{}] OBVIOUS
    <3> QED BY <2>1, <3>1
  <2> HIDE DEF G
  <2>6. Is(G, k + 1) BY <2>4, <2>5
  <2>7. k + 1 \in 0 .. n OBVIOUS
  <2> HIDE DEF Is
  <2> QED BY <2>3, <2>6, <2>7
<1>3. n \in P
  <2> HIDE DEF P
  <2> QED BY <1>1, <1>2, Ind
<1> QED BY <1>3 DEF Folds

(* G is such a function as long as its values stay in V.                   *)
FoldsIn(G, n, V, b, f) ==
  /\ G[{}] = b
  /\ \A t \in SUBSET (1 .. n) :
       t # {} /\ G[t \ {Max(t)}] \in V => G[t] = f[<<G[t \ {Max(t)}], Max(t)>>]

(* The partial results a[0] .. a[n] of that fold.                          *)
StepsOf(a, G, n, V, b, f) ==
  /\ a \in [0 .. n -> V]
  /\ a[0] = b
  /\ \A k \in 1 .. n : a[k] = f[<<a[k - 1], k>>]
  /\ a[n] = G[1 .. n]

LEMMA FoldSteps ==
  ASSUME NEW n \in Nat, NEW V, NEW b \in V, NEW f \in [V \X (1 .. n) -> V], NEW G,
         FoldsIn(G, n, V, b, f)
  PROVE \E a : StepsOf(a, G, n, V, b, f)
<1>1. ASSUME NEW k \in 1 .. n
      PROVE (1 .. k) \ {Max(1 .. k)} = 1 .. (k - 1) /\ Max(1 .. k) = k
  <2>1. 1 .. k \subseteq Nat /\ k \in 1 .. k /\ \A m \in 1 .. k : m <= k OBVIOUS
  <2>2. Max(1 .. k) = k BY <2>1, MaxIs
  <2> QED BY <2>2
<1>2. ASSUME NEW k \in 1 .. n, G[1 .. (k - 1)] \in V
      PROVE G[1 .. k] = f[<<G[1 .. (k - 1)], k>>]
  <2>1. 1 .. k \in SUBSET (1 .. n) /\ 1 .. k # {} OBVIOUS
  <2> QED BY <1>1, <1>2, <2>1 DEF FoldsIn
<1>3. 1 .. 0 = {} OBVIOUS
<1> DEFINE P == {k \in 0 .. n : G[1 .. k] \in V}
<1>4. \A k \in 0 .. n : k \in P
  <2>1. 0 \in P BY <1>3 DEF FoldsIn
  <2>2. ASSUME NEW k \in 0 .. (n - 1), k \in P PROVE k + 1 \in P
    <3>1. k + 1 \in 1 .. n /\ (k + 1) - 1 = k OBVIOUS
    <3>2. G[1 .. (k + 1)] = f[<<G[1 .. k], k + 1>>] BY <1>2, <2>2, <3>1
    <3> QED BY <2>2, <3>1, <3>2
  <2> HIDE DEF P
  <2> QED BY <2>1, <2>2, Ind
<1> QED
  <2>1. ASSUME NEW k \in 1 .. n PROVE G[1 .. k] = f[<<G[1 .. (k - 1)], k>>]
    <3>1. k - 1 \in 0 .. n OBVIOUS
    <3> QED BY <1>2, <1>4, <3>1
  <2>2. 0 \in 0 .. n /\ \A k \in 1 .. n : k \in 0 .. n /\ k - 1 \in 0 .. n OBVIOUS
  <2> DEFINE a == [k \in 0 .. n |-> G[1 .. k]]
  <2>3. StepsOf(a, G, n, V, b, f) BY <1>3, <1>4, <2>1, <2>2 DEF StepsOf, FoldsIn
  <2> HIDE DEF a
  <2> QED BY <2>3

(* The arguments that a text was cut into so far, whose characters are in  *)
(* C: there is always one.                                                 *)
ArgsOf(C) == Seq(Seq(C)) \ {<<>>}

LEMMA CutTypeOf == \A C : \A a \in ArgsOf(C), c \in C \cup {Space} : Cut(a, c) \in ArgsOf(C)
<1> SUFFICES ASSUME NEW C, NEW a \in ArgsOf(C), NEW c \in C \cup {Space}
             PROVE Cut(a, c) \in ArgsOf(C)
  OBVIOUS
<1>1. a \in Seq(Seq(C)) /\ Len(a) \in 1 .. Len(a) BY DEF ArgsOf
<1>2. Append(a, <<>>) \in ArgsOf(C) BY DEF ArgsOf
<1>3. ASSUME c \in C PROVE [a EXCEPT ![Len(a)] = Append(@, c)] \in ArgsOf(C)
  <2>1. a[Len(a)] \in Seq(C) BY <1>1
  <2>2. Append(a[Len(a)], c) \in Seq(C) BY <1>3, <2>1, AppendProperties
  <2> DEFINE e == Append(a[Len(a)], c)
             new == [a EXCEPT ![Len(a)] = e]
  <2> HIDE DEF e
  <2>3. e \in Seq(C) BY <2>2 DEF e
  <2>4. new \in Seq(Seq(C)) /\ Len(new) = Len(a) BY <1>1, <2>3, ExceptSeq
  <2>5. new # <<>> BY <1>1, <2>4
  <2> QED BY <2>4, <2>5 DEF ArgsOf, e
<1> QED BY <1>2, <1>3 DEF Cut

LEMMA CutStepsOf ==
  ASSUME NEW C, NEW s \in Seq(C \cup {Space})
  PROVE \E a \in [0 .. Len(s) -> ArgsOf(C)] :
          /\ a[0] = <<<<>>>>
          /\ \A k \in 1 .. Len(s) : a[k] = Cut(a[k - 1], s[k])
          /\ Argv(s) = a[Len(s)]
<1> DEFINE n == Len(s)
           b == <<<<>>>>
           A == ArgsOf(C)
           f == [x \in A \X (1 .. n) |-> Cut(x[1], s[x[2]])]
           Is(F) == F = [t \in SUBSET DOMAIN s |->
                          IF t = {} THEN b ELSE Cut(F[t \ {Max(t)}], s[Max(t)])]
           G == CHOOSE F : Is(F)
<1>1. n \in Nat /\ DOMAIN s = 1 .. n /\ \A k \in 1 .. n : s[k] \in C \cup {Space} OBVIOUS
<1>2. b \in A BY DEF ArgsOf
<1> HIDE DEF A
<1>3. f \in [A \X (1 .. n) -> A] BY CutTypeOf, <1>1 DEF A
<1>4. \A v \in A, k \in 1 .. n : f[<<v, k>>] = Cut(v, s[k]) OBVIOUS
<1>5. \A t \in SUBSET (1 .. n) : t # {} => Max(t) \in 1 .. n /\ t \ {Max(t)} \in SUBSET (1 .. n)
  BY <1>1, MaxUpTo
<1>6. Argv(s) = G[1 .. n] BY <1>1 DEF Argv, FoldLeft, MapThenFoldSet
<1> HIDE DEF n, b, f
<1>7. PICK F \in [SUBSET (1 .. n) -> A] : Folds(F, n, b, f)
  BY <1>1, <1>2, <1>3, FoldExists
<1>8. Is(F) BY <1>1, <1>4, <1>5, <1>7 DEF Folds
<1>9. Is(G) BY <1>8
<1> HIDE DEF G
<1>10. FoldsIn(G, n, A, b, f) BY <1>1, <1>4, <1>5, <1>9 DEF FoldsIn
<1>11. PICK a : StepsOf(a, G, n, A, b, f)
  BY <1>1, <1>2, <1>3, <1>10, FoldSteps
<1>12. \A k \in 1 .. n : a[k] = Cut(a[k - 1], s[k])
  <2> TAKE k \in 1 .. n
  <2>1. k - 1 \in 0 .. n BY <1>1
  <2> QED BY <2>1, <1>4, <1>11 DEF StepsOf
<1> QED BY <1>6, <1>11, <1>12 DEF StepsOf, n, b, A

Args == Seq(Seq(Char)) \ {<<>>}

LEMMA CutSteps ==
  ASSUME NEW s \in Seq(Char)
  PROVE \E a \in [0 .. Len(s) -> Args] :
          /\ a[0] = <<<<>>>>
          /\ \A k \in 1 .. Len(s) : a[k] = Cut(a[k - 1], s[k])
          /\ Argv(s) = a[Len(s)]
<1>1. Char \cup {Space} = Char BY SessionAssumption
<1>2. s \in Seq(Char \cup {Space}) BY <1>1
<1> QED BY <1>2, CutStepsOf DEF Args, ArgsOf

LEMMA Single == \A S : \A x \in S : <<x>> \in Seq(S)
OBVIOUS

LEMMA JoinedType == \A s, a \in Seq(Char) : Joined(s, a) \in Seq(Char)
<1> SUFFICES ASSUME NEW s \in Seq(Char), NEW a \in Seq(Char)
             PROVE Joined(s, a) \in Seq(Char)
  OBVIOUS
<1>1. <<" ">> \in Seq(Char) BY Single, SessionAssumption DEF Space
<1>2. s \o <<" ">> \in Seq(Char) BY <1>1, ConcatProperties
<1> QED BY <1>2, ConcatProperties DEF Joined, Space

LEMMA JoinedSteps ==
  ASSUME NEW x0 \in Seq(Char), NEW s \in Seq(Seq(Char))
  PROVE \E a \in [0 .. Len(s) -> Seq(Char)] :
          /\ a[0] = x0
          /\ \A k \in 1 .. Len(s) : a[k] = Joined(a[k - 1], s[k])
          /\ FoldLeft(Joined, x0, s) = a[Len(s)]
<1> DEFINE n == Len(s)
           b == x0
           f == [x \in Seq(Char) \X (1 .. n) |-> Joined(x[1], s[x[2]])]
           Is(F) == F = [t \in SUBSET DOMAIN s |->
                          IF t = {} THEN b ELSE Joined(F[t \ {Max(t)}], s[Max(t)])]
           G == CHOOSE F : Is(F)
<1>1. n \in Nat /\ DOMAIN s = 1 .. n /\ \A k \in 1 .. n : s[k] \in Seq(Char) OBVIOUS
<1>2. b \in Seq(Char) OBVIOUS
<1>3. f \in [Seq(Char) \X (1 .. n) -> Seq(Char)] BY JoinedType, <1>1
<1>4. \A v \in Seq(Char), k \in 1 .. n : f[<<v, k>>] = Joined(v, s[k]) OBVIOUS
<1>5. \A t \in SUBSET (1 .. n) : t # {} => Max(t) \in 1 .. n /\ t \ {Max(t)} \in SUBSET (1 .. n)
  BY <1>1, MaxUpTo
<1>6. FoldLeft(Joined, x0, s) = G[1 .. n] BY <1>1 DEF FoldLeft, MapThenFoldSet
<1> HIDE DEF n, b, f
<1>7. PICK F \in [SUBSET (1 .. n) -> Seq(Char)] : Folds(F, n, b, f)
  BY <1>1, <1>2, <1>3, FoldExists
<1>8. Is(F) BY <1>1, <1>4, <1>5, <1>7 DEF Folds
<1>9. Is(G) BY <1>8
<1> HIDE DEF G
<1>10. FoldsIn(G, n, Seq(Char), b, f) BY <1>1, <1>4, <1>5, <1>9 DEF FoldsIn
<1>11. PICK a : StepsOf(a, G, n, Seq(Char), b, f)
  BY <1>1, <1>2, <1>3, <1>10, FoldSteps
<1>12. \A k \in 1 .. n : a[k] = Joined(a[k - 1], s[k])
  <2> TAKE k \in 1 .. n
  <2>1. k - 1 \in 0 .. n BY <1>1
  <2> QED BY <2>1, <1>4, <1>11 DEF StepsOf
<1> QED BY <1>6, <1>11, <1>12 DEF StepsOf, n, b

(* What an expression is made of, without spaces and with them.            *)
Symbols == Digits \cup Ops
Typed == Symbols \cup {" "}

LEMMA KeepType == \A s \in Seq(Symbols), c \in Typed : Keep(s, c) \in Seq(Symbols)
<1> SUFFICES ASSUME NEW s \in Seq(Symbols), NEW c \in Typed, c # " "
             PROVE Append(s, c) \in Seq(Symbols)
  BY DEF Keep
<1>1. c \in Symbols BY DEF Typed
<1> QED BY <1>1, AppendProperties

LEMMA KeepSteps ==
  ASSUME NEW s \in Seq(Typed)
  PROVE \E a \in [0 .. Len(s) -> Seq(Symbols)] :
          /\ a[0] = <<>>
          /\ \A k \in 1 .. Len(s) : a[k] = Keep(a[k - 1], s[k])
          /\ strip_spaces(s) = a[Len(s)]
<1> DEFINE n == Len(s)
           b == <<>>
           f == [x \in Seq(Symbols) \X (1 .. n) |-> Keep(x[1], s[x[2]])]
           Is(F) == F = [t \in SUBSET DOMAIN s |->
                          IF t = {} THEN b ELSE Keep(F[t \ {Max(t)}], s[Max(t)])]
           G == CHOOSE F : Is(F)
<1>1. n \in Nat /\ DOMAIN s = 1 .. n /\ \A k \in 1 .. n : s[k] \in Typed OBVIOUS
<1>2. b \in Seq(Symbols) OBVIOUS
<1>3. f \in [Seq(Symbols) \X (1 .. n) -> Seq(Symbols)] BY KeepType, <1>1
<1>4. \A v \in Seq(Symbols), k \in 1 .. n : f[<<v, k>>] = Keep(v, s[k]) OBVIOUS
<1>5. \A t \in SUBSET (1 .. n) : t # {} => Max(t) \in 1 .. n /\ t \ {Max(t)} \in SUBSET (1 .. n)
  BY <1>1, MaxUpTo
<1>6. strip_spaces(s) = G[1 .. n] BY <1>1 DEF strip_spaces, FoldLeft, MapThenFoldSet
<1> HIDE DEF n, b, f
<1>7. PICK F \in [SUBSET (1 .. n) -> Seq(Symbols)] : Folds(F, n, b, f)
  BY <1>1, <1>2, <1>3, FoldExists
<1>8. Is(F) BY <1>1, <1>4, <1>5, <1>7 DEF Folds
<1>9. Is(G) BY <1>8
<1> HIDE DEF G
<1>10. FoldsIn(G, n, Seq(Symbols), b, f) BY <1>1, <1>4, <1>5, <1>9 DEF FoldsIn
<1>11. PICK a : StepsOf(a, G, n, Seq(Symbols), b, f)
  BY <1>1, <1>2, <1>3, <1>10, FoldSteps
<1>12. \A k \in 1 .. n : a[k] = Keep(a[k - 1], s[k])
  <2> TAKE k \in 1 .. n
  <2>1. k - 1 \in 0 .. n BY <1>1
  <2> QED BY <2>1, <1>4, <1>11 DEF StepsOf
<1> QED BY <1>6, <1>11, <1>12 DEF StepsOf, n, b

LEMMA TenfoldType == \A m \in Int, c \in Digits : TenfoldPlus(m, c) \in Int
BY DEF TenfoldPlus, Value, Digits

LEMMA TenfoldSteps ==
  ASSUME NEW s \in Seq(Digits)
  PROVE \E a \in [0 .. Len(s) -> Int] :
          /\ a[0] = 0
          /\ \A k \in 1 .. Len(s) : a[k] = TenfoldPlus(a[k - 1], s[k])
          /\ Decimal(s) = a[Len(s)]
<1> DEFINE n == Len(s)
           b == 0
           f == [x \in Int \X (1 .. n) |-> TenfoldPlus(x[1], s[x[2]])]
           Is(F) == F = [t \in SUBSET DOMAIN s |->
                          IF t = {} THEN b ELSE TenfoldPlus(F[t \ {Max(t)}], s[Max(t)])]
           G == CHOOSE F : Is(F)
<1>1. n \in Nat /\ DOMAIN s = 1 .. n /\ \A k \in 1 .. n : s[k] \in Digits OBVIOUS
<1>2. b \in Int OBVIOUS
<1>3. f \in [Int \X (1 .. n) -> Int] BY TenfoldType, <1>1
<1>4. \A v \in Int, k \in 1 .. n : f[<<v, k>>] = TenfoldPlus(v, s[k]) OBVIOUS
<1>5. \A t \in SUBSET (1 .. n) : t # {} => Max(t) \in 1 .. n /\ t \ {Max(t)} \in SUBSET (1 .. n)
  BY <1>1, MaxUpTo
<1>6. Decimal(s) = G[1 .. n] BY <1>1 DEF Decimal, FoldLeft, MapThenFoldSet
<1> HIDE DEF n, b, f
<1>7. PICK F \in [SUBSET (1 .. n) -> Int] : Folds(F, n, b, f)
  BY <1>1, <1>2, <1>3, FoldExists
<1>8. Is(F) BY <1>1, <1>4, <1>5, <1>7 DEF Folds
<1>9. Is(G) BY <1>8
<1> HIDE DEF G
<1>10. FoldsIn(G, n, Int, b, f) BY <1>1, <1>4, <1>5, <1>9 DEF FoldsIn
<1>11. PICK a : StepsOf(a, G, n, Int, b, f)
  BY <1>1, <1>2, <1>3, <1>10, FoldSteps
<1>12. \A k \in 1 .. n : a[k] = TenfoldPlus(a[k - 1], s[k])
  <2> TAKE k \in 1 .. n
  <2>1. k - 1 \in 0 .. n BY <1>1
  <2> QED BY <2>1, <1>4, <1>11 DEF StepsOf
<1> QED BY <1>6, <1>11, <1>12 DEF StepsOf, n, b

LEMMA WrapType == \A n \in Int : Wrap(n) \in Int
<1> TAKE n \in Int
<1> DEFINE d == 2 * (INT_MAX + 1)
<1>1. d \in Nat \ {0} /\ INT_MIN \in Int BY FloatAssumption DEF INT_MIN
<1> HIDE DEF d
<1>2. (n - INT_MIN) % d \in Int BY <1>1
<1>3. Wrap(n) = ((n - INT_MIN) % d) + INT_MIN BY DEF Wrap, d
<1> QED BY <1>1, <1>2, <1>3

LEMMA NextType == \A m \in Int, c \in Digits : NextDigit(m, c) \in Int
<1> TAKE m \in Int, c \in Digits
<1>1. m * 10 + Value[c] \in Int BY DEF Value, Digits
<1> QED BY <1>1, WrapType DEF NextDigit

LEMMA NextSteps ==
  ASSUME NEW s \in Seq(Digits)
  PROVE \E a \in [0 .. Len(s) -> Int] :
          /\ a[0] = 0
          /\ \A k \in 1 .. Len(s) : a[k] = NextDigit(a[k - 1], s[k])
          /\ atoi(s) = a[Len(s)]
<1> DEFINE n == Len(s)
           b == 0
           f == [x \in Int \X (1 .. n) |-> NextDigit(x[1], s[x[2]])]
           Is(F) == F = [t \in SUBSET DOMAIN s |->
                          IF t = {} THEN b ELSE NextDigit(F[t \ {Max(t)}], s[Max(t)])]
           G == CHOOSE F : Is(F)
<1>1. n \in Nat /\ DOMAIN s = 1 .. n /\ \A k \in 1 .. n : s[k] \in Digits OBVIOUS
<1>2. b \in Int OBVIOUS
<1>3. f \in [Int \X (1 .. n) -> Int] BY NextType, <1>1
<1>4. \A v \in Int, k \in 1 .. n : f[<<v, k>>] = NextDigit(v, s[k]) OBVIOUS
<1>5. \A t \in SUBSET (1 .. n) : t # {} => Max(t) \in 1 .. n /\ t \ {Max(t)} \in SUBSET (1 .. n)
  BY <1>1, MaxUpTo
<1>6. atoi(s) = G[1 .. n] BY <1>1 DEF atoi, FoldLeft, MapThenFoldSet
<1> HIDE DEF n, b, f
<1>7. PICK F \in [SUBSET (1 .. n) -> Int] : Folds(F, n, b, f)
  BY <1>1, <1>2, <1>3, FoldExists
<1>8. Is(F) BY <1>1, <1>4, <1>5, <1>7 DEF Folds
<1>9. Is(G) BY <1>8
<1> HIDE DEF G
<1>10. FoldsIn(G, n, Int, b, f) BY <1>1, <1>4, <1>5, <1>9 DEF FoldsIn
<1>11. PICK a : StepsOf(a, G, n, Int, b, f)
  BY <1>1, <1>2, <1>3, <1>10, FoldSteps
<1>12. \A k \in 1 .. n : a[k] = NextDigit(a[k - 1], s[k])
  <2> TAKE k \in 1 .. n
  <2>1. k - 1 \in 0 .. n BY <1>1
  <2> QED BY <2>1, <1>4, <1>11 DEF StepsOf
<1> QED BY <1>6, <1>11, <1>12 DEF StepsOf, n, b

LEMMA AtoiType == \A s \in Seq(Digits) : atoi(s) \in Int
BY NextSteps

LEMMA DecimalType == \A s \in Seq(Digits) : Decimal(s) \in Int
BY TenfoldSteps

(* A number made from smaller ones: pr gives the smaller one, g the step,  *)
(* and b is what the numbers in Base begin with.                           *)
Made(f, n, pr, Base, b, g) == f[n] = IF n \in Base THEN b ELSE g[f[pr[n]]]
MadeTo(f, k, pr, Base, b, g) == \A n \in 0 .. k : Made(f, n, pr, Base, b, g)

LEMMA MadeOnce ==
  ASSUME NEW pr \in [Nat -> Nat], NEW Base, NEW b, NEW g,
         \A n \in Nat : n \notin Base => pr[n] < n,
         NEW k \in Nat, NEW f, MadeTo(f, k, pr, Base, b, g),
         NEW j \in Nat, NEW h, MadeTo(h, j, pr, Base, b, g)
  PROVE \A n \in Nat : n <= k /\ n <= j => f[n] = h[n]
<1> DEFINE T == {n \in Nat : n <= k /\ n <= j /\ f[n] # h[n]}
<1> SUFFICES ASSUME T # {} PROVE FALSE OBVIOUS
<1>1. PICK n \in T : \A i \in T : n <= i
  <2>1. T \subseteq Nat OBVIOUS
  <2> HIDE DEF T
  <2> QED BY <2>1, Least
<1>2. n \in 0 .. k /\ n \in 0 .. j /\ f[n] # h[n] OBVIOUS
<1>3. Made(f, n, pr, Base, b, g) /\ Made(h, n, pr, Base, b, g) BY <1>2 DEF MadeTo
<1>4. CASE n \notin Base
  <2>1. pr[n] \in Nat /\ pr[n] < n BY <1>2, <1>4
  <2>2. f[pr[n]] = h[pr[n]] BY <1>1, <1>2, <2>1
  <2> QED BY <1>2, <1>3, <1>4, <2>2 DEF Made
<1>5. CASE n \in Base BY <1>2, <1>3, <1>5 DEF Made
<1> QED BY <1>4, <1>5

LEMMA MadeExists ==
  ASSUME NEW S, NEW pr \in [Nat -> Nat], NEW Base, NEW b \in S, NEW g \in [S -> S],
         \A n \in Nat : n \notin Base => pr[n] < n, 0 \in Base
  PROVE \A n \in Nat : \E f \in [0 .. n -> S] : MadeTo(f, n, pr, Base, b, g)
<1> SUFFICES ASSUME NEW n \in Nat PROVE \E f \in [0 .. n -> S] : MadeTo(f, n, pr, Base, b, g)
  OBVIOUS
<1> DEFINE P == {k \in 0 .. n : \E f \in [0 .. k -> S] : MadeTo(f, k, pr, Base, b, g)}
<1>1. 0 \in P
  <2> DEFINE f == [m \in 0 .. 0 |-> b]
  <2>1. \A m \in 0 .. 0 : m = 0 /\ m \in Base OBVIOUS
  <2>2. f \in [0 .. 0 -> S] /\ f[0] = b OBVIOUS
  <2> HIDE DEF f
  <2>3. MadeTo(f, 0, pr, Base, b, g) BY <2>1, <2>2 DEF MadeTo, Made
  <2>4. 0 \in 0 .. n OBVIOUS
  <2> QED BY <2>2, <2>3, <2>4
<1>2. ASSUME NEW k \in 0 .. (n - 1), k \in P PROVE k + 1 \in P
  <2>1. PICK f \in [0 .. k -> S] : MadeTo(f, k, pr, Base, b, g) BY <1>2
  <2> DEFINE e == IF k + 1 \in Base THEN b ELSE g[f[pr[k + 1]]]
             h == [m \in 0 .. (k + 1) |-> IF m = k + 1 THEN e ELSE f[m]]
  <2>2. k + 1 \in Nat /\ k + 1 \in 0 .. n OBVIOUS
  <2>3. k + 1 \notin Base => pr[k + 1] \in 0 .. k
    <3>1. k + 1 \notin Base => pr[k + 1] \in Nat /\ pr[k + 1] < k + 1 BY <2>2
    <3> QED BY <3>1, <2>2
  <2>4. e \in S BY <2>1, <2>3
  <2>5. h[k + 1] = e /\ \A m \in 0 .. k : h[m] = f[m] BY <2>2
  <2>6. h \in [0 .. (k + 1) -> S]
    <3>1. ASSUME NEW m \in 0 .. (k + 1) PROVE (IF m = k + 1 THEN e ELSE f[m]) \in S
      <4>1. m # k + 1 => m \in 0 .. k OBVIOUS
      <4> HIDE DEF e
      <4> QED BY <2>1, <2>4, <4>1
    <3> HIDE DEF e
    <3> QED BY <3>1
  <2> HIDE DEF h
  <2>7. ASSUME NEW m \in 0 .. (k + 1) PROVE Made(h, m, pr, Base, b, g)
    <3>1. CASE m = k + 1
      <4>1. k + 1 \notin Base => h[pr[k + 1]] = f[pr[k + 1]] BY <2>3, <2>5
      <4> QED BY <2>5, <3>1, <4>1 DEF Made
    <3>2. CASE m # k + 1
      <4>1. m \in 0 .. k /\ m \in Nat BY <3>2
      <4>2. m \notin Base => pr[m] \in 0 .. k
        <5>1. m \notin Base => pr[m] \in Nat /\ pr[m] < m BY <4>1
        <5> QED BY <5>1, <4>1
      <4>3. Made(f, m, pr, Base, b, g) BY <2>1, <4>1 DEF MadeTo
      <4>4. h[m] = f[m] /\ (m \notin Base => h[pr[m]] = f[pr[m]]) BY <2>5, <4>1, <4>2
      <4> QED BY <4>3, <4>4 DEF Made
    <3> QED BY <3>1, <3>2
  <2>8. MadeTo(h, k + 1, pr, Base, b, g) BY <2>7 DEF MadeTo
  <2> QED BY <2>2, <2>6, <2>8
<1>3. n \in P
  <2>1. n \in 0 .. n OBVIOUS
  <2> HIDE DEF P
  <2> QED BY <1>1, <1>2, <2>1, Ind
<1> QED BY <1>3

LEMMA Recursion ==
  ASSUME NEW S, NEW pr \in [Nat -> Nat], NEW Base, NEW b \in S, NEW g \in [S -> S],
         \A n \in Nat : n \notin Base => pr[n] < n, 0 \in Base
  PROVE \E f \in [Nat -> S] : \A n \in Nat : Made(f, n, pr, Base, b, g)
<1> DEFINE F(n) == CHOOSE f \in [0 .. n -> S] : MadeTo(f, n, pr, Base, b, g)
           h == [n \in Nat |-> F(n)[n]]
<1>1. \A n \in Nat : F(n) \in [0 .. n -> S] /\ MadeTo(F(n), n, pr, Base, b, g)
  BY MadeExists
<1> HIDE DEF F
<1>2. h \in [Nat -> S]
  <2>1. ASSUME NEW n \in Nat PROVE F(n)[n] \in S
    <3>1. F(n) \in [0 .. n -> S] /\ n \in 0 .. n BY <1>1
    <3> QED BY <3>1
  <2> QED BY <2>1
<1>3. ASSUME NEW n \in Nat PROVE Made(h, n, pr, Base, b, g)
  <2>1. h[n] = F(n)[n] /\ n \in 0 .. n OBVIOUS
  <2>2. Made(F(n), n, pr, Base, b, g) BY <1>1, <2>1 DEF MadeTo
  <2>3. n \notin Base => h[pr[n]] = F(n)[pr[n]]
    <3> SUFFICES ASSUME n \notin Base PROVE h[pr[n]] = F(n)[pr[n]] OBVIOUS
    <3> DEFINE m == pr[n]
    <3>1. m \in Nat /\ m <= n /\ m <= m OBVIOUS
    <3>2. h[m] = F(m)[m] BY <3>1
    <3> HIDE DEF m, h
    <3>3. MadeTo(F(n), n, pr, Base, b, g) /\ MadeTo(F(m), m, pr, Base, b, g) BY <1>1, <3>1
    <3>4. F(n)[m] = F(m)[m] BY <3>1, <3>3, MadeOnce
    <3> QED BY <3>2, <3>4 DEF m
  <2> HIDE DEF h
  <2> QED BY <2>1, <2>2, <2>3 DEF Made
<1> HIDE DEF h
<1> QED BY <1>2, <1>3

(* The functions the floats are made with.                                 *)
LEMMA PowerType == pow2 \in [Nat -> Nat \ {0}]
<1> DEFINE pr == [n \in Nat |-> IF n = 0 THEN 0 ELSE n - 1]
           B == {0}
           S == Nat \ {0}
           g == [x \in S |-> 2 * x]
           Is(f) == f = [n \in Nat |-> IF n = 0 THEN 1 ELSE 2 * f[n - 1]]
<1>1. \A n \in Nat : ~(n = 0) => n - 1 \in Nat /\ n - 1 < n OBVIOUS
<1>2. pr \in [Nat -> Nat] /\ g \in [S -> S] /\ 1 \in S /\ 0 \in B BY <1>1
<1>3. \A n \in Nat : n \in B <=> (n = 0) OBVIOUS
<1>4. \A n \in Nat : ~(n = 0) => pr[n] = n - 1 OBVIOUS
<1>5. \A x \in S : g[x] = 2 * x OBVIOUS
<1> HIDE DEF pr, g, B, S
<1>6. \A n \in Nat : n \notin B => pr[n] < n BY <1>1, <1>3, <1>4
<1>7. PICK f \in [Nat -> S] : \A n \in Nat : Made(f, n, pr, B, 1, g)
  BY <1>2, <1>6, Recursion
<1>8. ASSUME NEW n \in Nat PROVE f[n] = IF n = 0 THEN 1 ELSE 2 * f[n - 1]
  <2>1. f[n] = IF n \in B THEN 1 ELSE g[f[pr[n]]] BY <1>7 DEF Made
  <2>2. CASE n = 0 BY <1>3, <2>1, <2>2
  <2>3. CASE ~(n = 0)
    <3>1. n \notin B /\ pr[n] = n - 1 /\ n - 1 \in Nat BY <1>1, <1>3, <1>4, <2>3
    <3>2. f[n - 1] \in S BY <3>1, <1>7
    <3>3. f[n] = g[f[n - 1]] BY <2>1, <3>1
    <3> QED BY <1>5, <2>3, <3>2, <3>3
  <2> QED BY <2>2, <2>3
<1>9. Is(f) BY <1>7, <1>8
<1> DEFINE G == CHOOSE h : Is(h)
<1>10. Is(G)
  <2> HIDE DEF Is
  <2> QED BY <1>9
<1>11. pow2 = G BY DEF pow2
<1> HIDE DEF G
<1>12. pow2 = [n \in Nat |-> pow2[n]]
       /\ \A n \in Nat : pow2[n] = IF n = 0 THEN 1 ELSE 2 * pow2[n - 1]
  <2>1. \A n \in Nat : G[n] = IF n = 0 THEN 1 ELSE 2 * G[n - 1] BY <1>10
  <2>2. G = [n \in Nat |-> G[n]] BY <1>10
  <2> QED BY <1>11, <2>1, <2>2
<1>13. \A k \in Nat : pow2[k] \in S
  <2> SUFFICES ASSUME NEW k \in Nat, \A i \in Nat : i < k => pow2[i] \in S
               PROVE pow2[k] \in S
    <3> DEFINE T == {i \in Nat : pow2[i] \notin S}
    <3> SUFFICES ASSUME T # {} PROVE FALSE OBVIOUS
    <3>1. PICK i \in T : \A j \in T : i <= j
      <4>1. T \subseteq Nat OBVIOUS
      <4> HIDE DEF T
      <4> QED BY <4>1, Least
    <3>2. \A j \in Nat : j < i => pow2[j] \in S BY <3>1
    <3>3. pow2[i] \in S BY <3>1, <3>2
    <3> QED BY <3>1, <3>3
  <2>1. CASE k = 0 BY <1>2, <1>12, <2>1
  <2>2. CASE ~(k = 0)
    <3>1. k - 1 \in Nat /\ k - 1 < k BY <1>1, <2>2
    <3>2. pow2[k - 1] \in S BY <3>1
    <3>3. pow2[k] = 2 * pow2[k - 1] BY <1>12, <2>2
    <3>4. g[pow2[k - 1]] \in S /\ g[pow2[k - 1]] = 2 * pow2[k - 1]
      BY <1>2, <1>5, <3>2
    <3> QED BY <3>3, <3>4
  <2> QED BY <2>1, <2>2
<1> QED BY <1>12, <1>13 DEF S

LEMMA BitsType == Bits \in [Nat -> Nat]
<1> DEFINE pr == [n \in Nat |-> IF n = 0 THEN 0 ELSE n \div 2]
           B == {0}
           S == Nat
           g == [x \in S |-> 1 + x]
           Is(f) == f = [n \in Nat |-> IF n = 0 THEN 0 ELSE 1 + f[n \div 2]]
<1>1. \A n \in Nat : ~(n = 0) => n \div 2 \in Nat /\ n \div 2 < n OBVIOUS
<1>2. pr \in [Nat -> Nat] /\ g \in [S -> S] /\ 0 \in S /\ 0 \in B BY <1>1
<1>3. \A n \in Nat : n \in B <=> (n = 0) OBVIOUS
<1>4. \A n \in Nat : ~(n = 0) => pr[n] = n \div 2 OBVIOUS
<1>5. \A x \in S : g[x] = 1 + x OBVIOUS
<1> HIDE DEF pr, g, B, S
<1>6. \A n \in Nat : n \notin B => pr[n] < n BY <1>1, <1>3, <1>4
<1>7. PICK f \in [Nat -> S] : \A n \in Nat : Made(f, n, pr, B, 0, g)
  BY <1>2, <1>6, Recursion
<1>8. ASSUME NEW n \in Nat PROVE f[n] = IF n = 0 THEN 0 ELSE 1 + f[n \div 2]
  <2>1. f[n] = IF n \in B THEN 0 ELSE g[f[pr[n]]] BY <1>7 DEF Made
  <2>2. CASE n = 0 BY <1>3, <2>1, <2>2
  <2>3. CASE ~(n = 0)
    <3>1. n \notin B /\ pr[n] = n \div 2 /\ n \div 2 \in Nat BY <1>1, <1>3, <1>4, <2>3
    <3>2. f[n \div 2] \in S BY <3>1, <1>7
    <3>3. f[n] = g[f[n \div 2]] BY <2>1, <3>1
    <3> QED BY <1>5, <2>3, <3>2, <3>3
  <2> QED BY <2>2, <2>3
<1>9. Is(f) BY <1>7, <1>8
<1> DEFINE G == CHOOSE h : Is(h)
<1>10. Is(G)
  <2> HIDE DEF Is
  <2> QED BY <1>9
<1>11. Bits = G BY DEF Bits
<1> HIDE DEF G
<1>12. Bits = [n \in Nat |-> Bits[n]]
       /\ \A n \in Nat : Bits[n] = IF n = 0 THEN 0 ELSE 1 + Bits[n \div 2]
  <2>1. \A n \in Nat : G[n] = IF n = 0 THEN 0 ELSE 1 + G[n \div 2] BY <1>10
  <2>2. G = [n \in Nat |-> G[n]] BY <1>10
  <2> QED BY <1>11, <2>1, <2>2
<1>13. \A k \in Nat : Bits[k] \in S
  <2> SUFFICES ASSUME NEW k \in Nat, \A i \in Nat : i < k => Bits[i] \in S
               PROVE Bits[k] \in S
    <3> DEFINE T == {i \in Nat : Bits[i] \notin S}
    <3> SUFFICES ASSUME T # {} PROVE FALSE OBVIOUS
    <3>1. PICK i \in T : \A j \in T : i <= j
      <4>1. T \subseteq Nat OBVIOUS
      <4> HIDE DEF T
      <4> QED BY <4>1, Least
    <3>2. \A j \in Nat : j < i => Bits[j] \in S BY <3>1
    <3>3. Bits[i] \in S BY <3>1, <3>2
    <3> QED BY <3>1, <3>3
  <2>1. CASE k = 0 BY <1>2, <1>12, <2>1
  <2>2. CASE ~(k = 0)
    <3>1. k \div 2 \in Nat /\ k \div 2 < k BY <1>1, <2>2
    <3>2. Bits[k \div 2] \in S BY <3>1
    <3>3. Bits[k] = 1 + Bits[k \div 2] BY <1>12, <2>2
    <3>4. g[Bits[k \div 2]] \in S /\ g[Bits[k \div 2]] = 1 + Bits[k \div 2]
      BY <1>2, <1>5, <3>2
    <3> QED BY <3>3, <3>4
  <2> QED BY <2>1, <2>2
<1> QED BY <1>12, <1>13 DEF S

LEMMA TwosType == Twos \in [Nat -> Nat]
<1> DEFINE pr == [n \in Nat |-> IF n = 0 \/ n % 2 = 1 THEN 0 ELSE n \div 2]
           B == {n \in Nat : n = 0 \/ n % 2 = 1}
           S == Nat
           g == [x \in S |-> 1 + x]
           Is(f) == f = [n \in Nat |-> IF n = 0 \/ n % 2 = 1 THEN 0 ELSE 1 + f[n \div 2]]
<1>1. \A n \in Nat : ~(n = 0 \/ n % 2 = 1) => n \div 2 \in Nat /\ n \div 2 < n OBVIOUS
<1>2. pr \in [Nat -> Nat] /\ g \in [S -> S] /\ 0 \in S /\ 0 \in B BY <1>1
<1>3. \A n \in Nat : n \in B <=> (n = 0 \/ n % 2 = 1) OBVIOUS
<1>4. \A n \in Nat : ~(n = 0 \/ n % 2 = 1) => pr[n] = n \div 2 OBVIOUS
<1>5. \A x \in S : g[x] = 1 + x OBVIOUS
<1> HIDE DEF pr, g, B, S
<1>6. \A n \in Nat : n \notin B => pr[n] < n BY <1>1, <1>3, <1>4
<1>7. PICK f \in [Nat -> S] : \A n \in Nat : Made(f, n, pr, B, 0, g)
  BY <1>2, <1>6, Recursion
<1>8. ASSUME NEW n \in Nat PROVE f[n] = IF n = 0 \/ n % 2 = 1 THEN 0 ELSE 1 + f[n \div 2]
  <2>1. f[n] = IF n \in B THEN 0 ELSE g[f[pr[n]]] BY <1>7 DEF Made
  <2>2. CASE n = 0 \/ n % 2 = 1 BY <1>3, <2>1, <2>2
  <2>3. CASE ~(n = 0 \/ n % 2 = 1)
    <3>1. n \notin B /\ pr[n] = n \div 2 /\ n \div 2 \in Nat BY <1>1, <1>3, <1>4, <2>3
    <3>2. f[n \div 2] \in S BY <3>1, <1>7
    <3>3. f[n] = g[f[n \div 2]] BY <2>1, <3>1
    <3> QED BY <1>5, <2>3, <3>2, <3>3
  <2> QED BY <2>2, <2>3
<1>9. Is(f) BY <1>7, <1>8
<1> DEFINE G == CHOOSE h : Is(h)
<1>10. Is(G)
  <2> HIDE DEF Is
  <2> QED BY <1>9
<1>11. Twos = G BY DEF Twos
<1> HIDE DEF G
<1>12. Twos = [n \in Nat |-> Twos[n]]
       /\ \A n \in Nat : Twos[n] = IF n = 0 \/ n % 2 = 1 THEN 0 ELSE 1 + Twos[n \div 2]
  <2>1. \A n \in Nat : G[n] = IF n = 0 \/ n % 2 = 1 THEN 0 ELSE 1 + G[n \div 2] BY <1>10
  <2>2. G = [n \in Nat |-> G[n]] BY <1>10
  <2> QED BY <1>11, <2>1, <2>2
<1>13. \A k \in Nat : Twos[k] \in S
  <2> SUFFICES ASSUME NEW k \in Nat, \A i \in Nat : i < k => Twos[i] \in S
               PROVE Twos[k] \in S
    <3> DEFINE T == {i \in Nat : Twos[i] \notin S}
    <3> SUFFICES ASSUME T # {} PROVE FALSE OBVIOUS
    <3>1. PICK i \in T : \A j \in T : i <= j
      <4>1. T \subseteq Nat OBVIOUS
      <4> HIDE DEF T
      <4> QED BY <4>1, Least
    <3>2. \A j \in Nat : j < i => Twos[j] \in S BY <3>1
    <3>3. Twos[i] \in S BY <3>1, <3>2
    <3> QED BY <3>1, <3>3
  <2>1. CASE k = 0 \/ k % 2 = 1 BY <1>2, <1>12, <2>1
  <2>2. CASE ~(k = 0 \/ k % 2 = 1)
    <3>1. k \div 2 \in Nat /\ k \div 2 < k BY <1>1, <2>2
    <3>2. Twos[k \div 2] \in S BY <3>1
    <3>3. Twos[k] = 1 + Twos[k \div 2] BY <1>12, <2>2
    <3>4. g[Twos[k \div 2]] \in S /\ g[Twos[k \div 2]] = 1 + Twos[k \div 2]
      BY <1>2, <1>5, <3>2
    <3> QED BY <3>3, <3>4
  <2> QED BY <2>1, <2>2
<1> QED BY <1>12, <1>13 DEF S

LEMMA Signs ==
  \A n \in Int : /\ Abs(n) \in Nat /\ (n # 0 => Abs(n) # 0)
                 /\ Sign(n) \in Int /\ Sign(n) \in {-1, 0, 1}
BY DEF Abs, Sign

LEMMA HalfEvenType == \A n, k \in Nat : HalfEven[<<n, k>>] \in Nat
<1> TAKE n, k \in Nat
<1> DEFINE d == pow2[k]
           q == n \div d
           twice == 2 * (n % d)
           x == <<n, k>>
<1>1. d \in Nat \ {0} BY PowerType
<1>2. x \in Nat \X Nat /\ x[1] = n /\ x[2] = k OBVIOUS
<1> HIDE DEF x
<1>3. HalfEven[x] = IF twice > d \/ (twice = d /\ q % 2 = 1) THEN q + 1 ELSE q
  BY <1>2 DEF HalfEven
<1> HIDE DEF d
<1>4. q \in Nat BY <1>1
<1> HIDE DEF q, twice
<1>5. HalfEven[x] \in Nat BY <1>3, <1>4
<1> QED BY <1>5 DEF x

LEMMA ExcessType == \A n \in Nat, e \in Int : Excess(n, e) \in Nat
<1> TAKE n \in Nat, e \in Int
<1>1. Bits[n] \in Nat BY BitsType
<1>2. Precision \in Int /\ MinExp \in Int BY FloatAssumption
<1> QED BY <1>1, <1>2 DEF Excess

LEMMA RoundedType ==
  \A n, e0 \in Int : /\ Rounded[<<n, e0>>] \in Float
                     /\ e0 >= 0 => Rounded[<<n, e0>>].e >= 0
<1> TAKE n, e0 \in Int
<1> DEFINE drop == Excess(Abs(n), e0)
           q == HalfEven[<<Abs(n), drop>>]
           d == pow2[Twos[q]]
           m == Sign(n) * (q \div d)
           e == e0 + drop
           t == e + Twos[q]
           x == <<n, e0>>
<1>1. x \in Int \X Int /\ x[1] = n /\ x[2] = e0 OBVIOUS
<1> HIDE DEF x
<1>2. Rounded[x] = IF q = 0 THEN Zero
                   ELSE IF Bits[q] + e > MaxExp THEN Infinite(Sign(n))
                   ELSE [m |-> m, e |-> t]
  BY <1>1 DEF Rounded
<1>3. Abs(n) \in Nat /\ Sign(n) \in Int BY Signs
<1>4. drop \in Nat BY <1>3, ExcessType
<1> HIDE DEF drop
<1>5. q \in Nat BY <1>3, <1>4, HalfEvenType
<1> HIDE DEF q
<1>6. Twos[q] \in Nat BY <1>5, TwosType
<1>7. d \in Nat \ {0} BY <1>6, PowerType
<1> HIDE DEF d
<1>8. q \div d \in Int BY <1>5, <1>7
<1>9. m \in Int
  <2>1. \A a, b \in Int : a * b \in Int OBVIOUS
  <2> QED BY <1>3, <1>8, <2>1
<1>10. t \in Int /\ (e0 >= 0 => t >= 0) BY <1>4, <1>6
<1> HIDE DEF m, e, t
<1>11. MaxExp \in Nat BY FloatAssumption
<1>12. Zero \in Float /\ Zero.e >= 0 BY DEF Zero, Float
<1>13. Infinite(Sign(n)) \in Float /\ Infinite(Sign(n)).e >= 0 BY <1>3, <1>11 DEF Infinite, Float
<1>14. [m |-> m, e |-> t] \in Float /\ (e0 >= 0 => [m |-> m, e |-> t].e >= 0) BY <1>9, <1>10 DEF Float
<1>15. Rounded[x] \in Float /\ (e0 >= 0 => Rounded[x].e >= 0) BY <1>2, <1>12, <1>13, <1>14
<1> QED BY <1>15 DEF x

LEMMA FromIntType == \A n \in Int : FromInt(n) \in Float /\ FromInt(n).e >= 0
BY RoundedType DEF FromInt

LEMMA Products == \A a, b \in Int : a * b \in Int
OBVIOUS

LEMMA SpecialType == \A s \in Int : Infinite(s) \in Float /\ Infinite(s).e >= 0
BY FloatAssumption DEF Infinite, Float

LEMMA PlusType ==
  \A f, g \in Float : Plus(f, g) \in Float /\ (f.e >= 0 /\ g.e >= 0 => Plus(f, g).e >= 0)
<1> TAKE f, g \in Float
<1>1. f.m \in Int /\ f.e \in Int /\ g.m \in Int /\ g.e \in Int BY DEF Float
<1>2. CASE Finite(f) /\ Finite(g)
  <2> DEFINE e == IF f.e < g.e THEN f.e ELSE g.e
             n == f.m * pow2[f.e - e] + g.m * pow2[g.e - e]
  <2>1. e \in Int /\ f.e - e \in Nat /\ g.e - e \in Nat BY <1>1
  <2>2. f.e >= 0 /\ g.e >= 0 => e >= 0 BY <1>1
  <2> HIDE DEF e
  <2>3. pow2[f.e - e] \in Int /\ pow2[g.e - e] \in Int BY <2>1, PowerType
  <2>4. n \in Int BY <1>1, <2>3, Products
  <2>5. Plus(f, g) = Rounded[<<n, e>>] BY <1>2 DEF Plus, e
  <2> HIDE DEF n
  <2> QED BY <2>1, <2>2, <2>4, <2>5, RoundedType
<1>3. CASE ~(Finite(f) /\ Finite(g))
  <2>1. Plus(f, g) \in {f, g, NaN}
    <3>1. Plus(f, g) = IF Finite(g) THEN f ELSE IF Finite(f) \/ f = g THEN g ELSE NaN
      BY <1>3 DEF Plus
    <3> QED BY <3>1
  <2>2. NaN \in Float /\ NaN.e >= 0 BY SpecialType DEF NaN
  <2> QED BY <2>1, <2>2
<1> QED BY <1>2, <1>3

LEMMA MinusType ==
  \A f, g \in Float : Minus(f, g) \in Float /\ (f.e >= 0 /\ g.e >= 0 => Minus(f, g).e >= 0)
<1> TAKE f, g \in Float
<1> DEFINE h == [g EXCEPT !.m = -@]
<1>1. h \in Float /\ h.e = g.e BY DEF Float
<1> HIDE DEF h
<1>2. Minus(f, g) = Plus(f, h) BY DEF Minus, h
<1> QED BY <1>1, <1>2, PlusType

LEMMA TimesType ==
  \A f, g \in Float : Times(f, g) \in Float /\ (f.e >= 0 /\ g.e >= 0 => Times(f, g).e >= 0)
<1> TAKE f, g \in Float
<1>1. f.m \in Int /\ f.e \in Int /\ g.m \in Int /\ g.e \in Int BY DEF Float
<1>2. f.m * g.m \in Int BY <1>1, Products
<1>3. Sign(f.m * g.m) \in Int BY <1>2, Signs
<1>4. f.e + g.e \in Int /\ (f.e >= 0 /\ g.e >= 0 => f.e + g.e >= 0) BY <1>1
<1> DEFINE n == f.m * g.m
           e == f.e + g.e
<1>5. Times(f, g) = IF Finite(f) /\ Finite(g) THEN Rounded[<<n, e>>] ELSE Infinite(Sign(n))
  BY DEF Times
<1>6. n \in Int /\ Sign(n) \in Int /\ e \in Int /\ (f.e >= 0 /\ g.e >= 0 => e >= 0)
  BY <1>2, <1>3, <1>4
<1> HIDE DEF n, e
<1> QED BY <1>5, <1>6, RoundedType, SpecialType

LEMMA QuotientType ==
  ASSUME NEW f \in Float, NEW g \in Float, g.m # 0
  PROVE Quotient(f, g) \in Float
<1> DEFINE a == Abs(f.m)
           b == Abs(g.m)
           more == Precision + 1 + Bits[b] - Bits[a]
           k == IF more < 0 THEN 0 ELSE more
           c == a * pow2[k]
           rest == c % b
           q == 2 * (c \div b) + (IF rest = 0 THEN 0 ELSE 1)
           s == Sign(f.m) * Sign(g.m)
<1>1. f.m \in Int /\ f.e \in Int /\ g.m \in Int /\ g.e \in Int BY DEF Float
<1>2. a \in Nat /\ b \in Nat \ {0} BY <1>1, Signs
<1>3. s \in Int
  <2>1. Sign(f.m) \in Int /\ Sign(g.m) \in Int BY <1>1, Signs
  <2> QED BY <2>1, Products
<1>4. Quotient(f, g) = Rounded[<<s * q, f.e - g.e - k - 1>>] BY DEF Quotient
<1> HIDE DEF a, b, s
<1>5. Bits[a] \in Nat /\ Bits[b] \in Nat BY <1>2, BitsType
<1>6. k \in Nat BY <1>5, FloatAssumption
<1> HIDE DEF k
<1>7. pow2[k] \in Nat BY <1>6, PowerType
<1>8. c \in Nat BY <1>2, <1>7
<1> HIDE DEF c
<1>9. c \div b \in Int BY <1>2, <1>8
<1>10. q \in Int BY <1>9
<1> HIDE DEF q
<1>11. s * q \in Int BY <1>3, <1>10, Products
<1>12. f.e - g.e - k - 1 \in Int BY <1>1, <1>6
<1> DEFINE n == s * q
           e == f.e - g.e - k - 1
<1>13. n \in Int /\ e \in Int BY <1>11, <1>12
<1>14. Quotient(f, g) = Rounded[<<n, e>>] BY <1>4
<1> HIDE DEF n, e
<1> QED BY <1>13, <1>14, RoundedType

LEMMA OverType ==
  ASSUME NEW f \in Float, NEW g \in Float, ~IsZero(g)
  PROVE Over(f, g) \in Float
<1>1. f.m \in Int /\ g.m \in Int BY DEF Float
<1>2. Zero \in Float BY DEF Zero, Float
<1>3. NaN \in Float BY SpecialType DEF NaN
<1>4. Sign(f.m) * Sign(g.m) \in Int
  <2>1. Sign(f.m) \in Int /\ Sign(g.m) \in Int BY <1>1, Signs
  <2> QED BY <2>1, Products
<1>5. Infinite(Sign(f.m) * Sign(g.m)) \in Float BY <1>4, SpecialType
<1>6. Finite(g) => Quotient(f, g) \in Float BY QuotientType DEF IsZero
<1> QED BY <1>2, <1>3, <1>5, <1>6 DEF Over

LEMMA ToIntType ==
  \A f \in Float : /\ ToInt(f) \in Int
                   /\ f.m >= 0 /\ Fits(f) => ToInt(f) \in Nat
<1> TAKE f \in Float
<1>1. f.m \in Int /\ f.e \in Int BY DEF Float
<1>2. Abs(f.m) \in Nat /\ Sign(f.m) \in {-1, 0, 1} /\ (f.m >= 0 => Sign(f.m) \in {0, 1})
  BY <1>1, Signs DEF Sign
<1> DEFINE x == IF f.e < 0 THEN Abs(f.m) \div pow2[-f.e] ELSE Abs(f.m) * pow2[f.e]
<1>3. x \in Nat
  <2>1. CASE f.e < 0
    <3>1. pow2[-f.e] \in Nat \ {0} BY <1>1, <2>1, PowerType
    <3> QED BY <1>2, <2>1, <3>1
  <2>2. CASE ~(f.e < 0)
    <3>1. pow2[f.e] \in Nat BY <1>1, <2>2, PowerType
    <3> QED BY <1>2, <2>2, <3>1
  <2> QED BY <2>1, <2>2
<1>4. ToInt(f) = IF ~Fits(f) THEN INT_MIN ELSE Sign(f.m) * x BY DEF ToInt
<1> HIDE DEF x
<1>5. INT_MIN \in Int BY FloatAssumption DEF INT_MIN
<1>6. \A s \in {-1, 0, 1} : s * x \in Int /\ (s \in {0, 1} => s * x \in Nat) BY <1>3
<1> DEFINE s == Sign(f.m)
<1>7. s * x \in Int /\ (f.m >= 0 => s * x \in Nat) BY <1>2, <1>6
<1>8. ToInt(f) = IF ~Fits(f) THEN INT_MIN ELSE s * x BY <1>4
<1> HIDE DEF s
<1> QED BY <1>5, <1>7, <1>8

(* Numbers stay floats, unless one is divided by zero, and whole ones stay *)
(* whole where none is divided.                                            *)
LEMMA ApplyFloat ==
  ASSUME NEW o \in Ops, NEW q \in Float, NEW r \in Float, o = "/" => ~IsZero(r)
  PROVE /\ Apply(o, q, r) \in Float
        /\ o # "/" /\ q.e >= 0 /\ r.e >= 0 => Apply(o, q, r).e >= 0
BY PlusType, MinusType, TimesType, OverType DEF Apply, Ops

(* The reader's state.                                                     *)
Reader == [sum : Float, sumOp : {"+", "-", None}, term : Float, op : {"*", "/", None},
           error : BOOLEAN]

LEMMA ZeroType == Zero \in Float /\ Zero.e >= 0
BY DEF Zero, Float

LEMMA GrownType ==
  ASSUME NEW a \in Reader, NEW q \in Float, ~Fails(a, q)
  PROVE Grown(a, q) \in Float /\ Summed(a, q) \in Float
<1>1. /\ a.sum \in Float /\ a.sumOp \in {"+", "-", None}
      /\ a.term \in Float /\ a.op \in {"*", "/", None}
  BY DEF Reader
<1>2. Grown(a, q) \in Float
  <2>1. CASE a.op = None BY <2>1 DEF Grown, Applied
  <2>2. CASE a.op # None
    <3>1. a.op \in Ops /\ (a.op = "/" => ~IsZero(q)) BY <1>1, <2>2 DEF Ops, Fails
    <3>2. Apply(a.op, a.term, q) \in Float BY <1>1, <3>1, ApplyFloat
    <3> QED BY <2>2, <3>2 DEF Grown, Applied
  <2> QED BY <2>1, <2>2
<1>3. Summed(a, q) \in Float
  <2>1. CASE a.sumOp = None BY <1>2, <2>1 DEF Summed, Applied
  <2>2. CASE a.sumOp # None
    <3>1. a.sumOp \in Ops /\ a.sumOp # "/" BY <1>1, <2>2 DEF Ops
    <3>2. Apply(a.sumOp, a.sum, Grown(a, q)) \in Float BY <1>1, <1>2, <3>1, ApplyFloat
    <3> QED BY <2>2, <3>2 DEF Summed, Applied
  <2> QED BY <2>1, <2>2
<1> QED BY <1>2, <1>3

(* A reader that does not fail, and what comes of it.                      *)
LEMMA AdvanceIs ==
  ASSUME NEW A \in Reader, NEW x \in Float, NEW o \in Ops, ~Fails(A, x)
  PROVE Advance(A, x, o) =
          IF High(o) THEN [sum |-> A.sum, sumOp |-> A.sumOp, term |-> Grown(A, x), op |-> o,
                           error |-> FALSE]
          ELSE [sum |-> Summed(A, x), sumOp |-> o, term |-> Zero, op |-> None, error |-> FALSE]
BY Zenon DEF Advance

LEMMA AdvanceType ==
  \A a \in Reader, q \in Float, o \in Ops : Advance(a, q, o) \in Reader
<1> SUFFICES ASSUME NEW a \in Reader, NEW q \in Float, NEW o \in Ops
             PROVE Advance(a, q, o) \in Reader
  OBVIOUS
<1>2. CASE Fails(a, q) BY <1>2 DEF Advance, Reader
<1>3. CASE ~Fails(a, q)
  <2>1. Grown(a, q) \in Float /\ Summed(a, q) \in Float BY <1>3, GrownType
  <2>2. a.sum \in Float /\ a.sumOp \in {"+", "-", None} BY DEF Reader
  <2>3. IF High(o) THEN o \in {"*", "/"} ELSE o \in {"+", "-"} BY DEF High, Ops
  <2>4. Advance(a, q, o) =
          IF High(o) THEN [sum |-> a.sum, sumOp |-> a.sumOp, term |-> Grown(a, q), op |-> o,
                           error |-> FALSE]
          ELSE [sum |-> Summed(a, q), sumOp |-> o, term |-> Zero, op |-> None, error |-> FALSE]
    BY <1>3, AdvanceIs
  <2> DEFINE t == Grown(a, q)
             u == Summed(a, q)
  <2>5. t \in Float /\ u \in Float BY <2>1
  <2>6. Advance(a, q, o) =
          IF High(o) THEN [sum |-> a.sum, sumOp |-> a.sumOp, term |-> t, op |-> o, error |-> FALSE]
          ELSE [sum |-> u, sumOp |-> o, term |-> Zero, op |-> None, error |-> FALSE]
    BY <2>4
  <2> HIDE DEF t, u
  <2> QED BY <2>2, <2>3, <2>5, <2>6, ZeroType DEF Reader
<1> QED BY <1>2, <1>3

LEMMA BeginType == Begin \in Reader
BY ZeroType DEF Begin, Reader

LEMMA AfterSteps ==
  ASSUME NEW o \in Seq(Ops), NEW q, \A k \in 1 .. Len(o) : q[k] \in Float
  PROVE \E a \in [0 .. Len(o) -> Reader] :
          /\ a[0] = Begin
          /\ \A k \in 1 .. Len(o) : a[k] = Advance(a[k - 1], q[k], o[k])
          /\ After(q, o) = a[Len(o)]
<1> DEFINE s == [k \in DOMAIN o |-> k]
           n == Len(o)
           b == Begin
           f == [x \in Reader \X (1 .. n) |-> Advance(x[1], q[x[2]], o[x[2]])]
           Is(F) == F = [t \in SUBSET DOMAIN s |->
                          IF t = {} THEN b ELSE Advance(F[t \ {Max(t)}], q[s[Max(t)]], o[s[Max(t)]])]
           G == CHOOSE F : Is(F)
<1>1. /\ n \in Nat /\ DOMAIN s = 1 .. n
      /\ \A k \in 1 .. n : s[k] = k /\ o[k] \in Ops /\ q[k] \in Float
  OBVIOUS
<1>2. b \in Reader BY BeginType
<1>3. f \in [Reader \X (1 .. n) -> Reader] BY AdvanceType, <1>1
<1>4. \A v \in Reader, k \in 1 .. n : f[<<v, k>>] = Advance(v, q[k], o[k]) OBVIOUS
<1>5. \A t \in SUBSET (1 .. n) : t # {} => Max(t) \in 1 .. n /\ t \ {Max(t)} \in SUBSET (1 .. n)
  BY <1>1, MaxUpTo
<1>6. After(q, o) = G[1 .. n] BY <1>1 DEF After, FoldLeft, MapThenFoldSet
<1>a. \A t \in SUBSET (1 .. n) : t # {} => s[Max(t)] = Max(t) BY <1>1, <1>5
<1> HIDE DEF s, n, b, f
<1>7. PICK F \in [SUBSET (1 .. n) -> Reader] : Folds(F, n, b, f)
  BY <1>1, <1>2, <1>3, FoldExists
<1>8. Is(F)
  <2>1. ASSUME NEW t \in SUBSET (1 .. n), t # {}
        PROVE F[t] = Advance(F[t \ {Max(t)}], q[s[Max(t)]], o[s[Max(t)]])
    <3>1. F[t] = f[<<F[t \ {Max(t)}], Max(t)>>] BY <1>7, <2>1 DEF Folds
    <3>2. Max(t) \in 1 .. n /\ F[t \ {Max(t)}] \in Reader BY <1>5, <1>7, <2>1
    <3> QED BY <3>1, <3>2, <1>4, <1>a, <2>1
  <2>2. F[{}] = b BY <1>1, <1>7 DEF Folds
  <2> QED BY <2>1, <2>2, <1>1, <1>7
<1>9. Is(G) BY <1>8
<1> HIDE DEF G
<1>10. FoldsIn(G, n, Reader, b, f)
  <2>1. ASSUME NEW t \in SUBSET (1 .. n), t # {}, G[t \ {Max(t)}] \in Reader
        PROVE G[t] = f[<<G[t \ {Max(t)}], Max(t)>>]
    <3>1. G[t] = Advance(G[t \ {Max(t)}], q[s[Max(t)]], o[s[Max(t)]]) BY <1>1, <1>9, <2>1
    <3> QED BY <3>1, <1>4, <1>5, <1>a, <2>1
  <2>2. G[{}] = b BY <1>1, <1>9
  <2> QED BY <2>1, <2>2 DEF FoldsIn
<1>11. PICK a : StepsOf(a, G, n, Reader, b, f)
  BY <1>1, <1>2, <1>3, <1>10, FoldSteps
<1>12. \A k \in 1 .. n : a[k] = Advance(a[k - 1], q[k], o[k])
  <2> TAKE k \in 1 .. n
  <2>1. k - 1 \in 0 .. n BY <1>1
  <2> QED BY <2>1, <1>4, <1>11 DEF StepsOf
<1> QED BY <1>6, <1>11, <1>12 DEF StepsOf, n, b

Scanner == [at : Reader, num : Seq(Digits)]

LEMMA ScanType == \A s \in Scanner, c \in Symbols : Scan(s, c) \in Scanner
<1> SUFFICES ASSUME NEW s \in Scanner, NEW c \in Symbols PROVE Scan(s, c) \in Scanner
  OBVIOUS
<1>1. s.at \in Reader /\ s.num \in Seq(Digits) BY DEF Scanner
<1>2. CASE isdigit(c)
  <2>1. Append(s.num, c) \in Seq(Digits) BY <1>1, <1>2 DEF isdigit
  <2> QED BY <1>1, <1>2, <2>1 DEF Scan, Scanner
<1>3. CASE ~isdigit(c)
  <2>1. c \in Ops BY <1>3 DEF isdigit, Symbols
  <2>2. FromInt(atoi(s.num)) \in Float BY <1>1, AtoiType, FromIntType
  <2>3. Advance(s.at, FromInt(atoi(s.num)), c) \in Reader BY <1>1, <2>1, <2>2, AdvanceType
  <2> QED BY <1>3, <2>3 DEF Scan, Scanner
<1> QED BY <1>2, <1>3

LEMMA ScanSteps ==
  ASSUME NEW s0 \in Scanner, NEW s \in Seq(Symbols)
  PROVE \E a \in [0 .. Len(s) -> Scanner] :
          /\ a[0] = s0
          /\ \A k \in 1 .. Len(s) : a[k] = Scan(a[k - 1], s[k])
          /\ FoldLeft(Scan, s0, s) = a[Len(s)]
<1> DEFINE n == Len(s)
           b == s0
           f == [x \in Scanner \X (1 .. n) |-> Scan(x[1], s[x[2]])]
           Is(F) == F = [t \in SUBSET DOMAIN s |->
                          IF t = {} THEN b ELSE Scan(F[t \ {Max(t)}], s[Max(t)])]
           G == CHOOSE F : Is(F)
<1>1. n \in Nat /\ DOMAIN s = 1 .. n /\ \A k \in 1 .. n : s[k] \in Symbols OBVIOUS
<1>2. b \in Scanner OBVIOUS
<1>3. f \in [Scanner \X (1 .. n) -> Scanner] BY ScanType, <1>1
<1>4. \A v \in Scanner, k \in 1 .. n : f[<<v, k>>] = Scan(v, s[k]) OBVIOUS
<1>5. \A t \in SUBSET (1 .. n) : t # {} => Max(t) \in 1 .. n /\ t \ {Max(t)} \in SUBSET (1 .. n)
  BY <1>1, MaxUpTo
<1>6. FoldLeft(Scan, s0, s) = G[1 .. n] BY <1>1 DEF FoldLeft, MapThenFoldSet
<1> HIDE DEF n, b, f
<1>7. PICK F \in [SUBSET (1 .. n) -> Scanner] : Folds(F, n, b, f)
  BY <1>1, <1>2, <1>3, FoldExists
<1>8. Is(F) BY <1>1, <1>4, <1>5, <1>7 DEF Folds
<1>9. Is(G) BY <1>8
<1> HIDE DEF G
<1>10. FoldsIn(G, n, Scanner, b, f) BY <1>1, <1>4, <1>5, <1>9 DEF FoldsIn
<1>11. PICK a : StepsOf(a, G, n, Scanner, b, f)
  BY <1>1, <1>2, <1>3, <1>10, FoldSteps
<1>12. \A k \in 1 .. n : a[k] = Scan(a[k - 1], s[k])
  <2> TAKE k \in 1 .. n
  <2>1. k - 1 \in 0 .. n BY <1>1
  <2> QED BY <2>1, <1>4, <1>11 DEF StepsOf
<1> QED BY <1>6, <1>11, <1>12 DEF StepsOf, n, b

(* One text more is joined last.                                           *)
LEMMA JoinedAppend ==
  ASSUME NEW x0 \in Seq(Char), NEW s \in Seq(Seq(Char)), NEW x \in Seq(Char)
  PROVE FoldLeft(Joined, x0, Append(s, x)) = Joined(FoldLeft(Joined, x0, s), x)
<1> DEFINE n == Len(s)
           s1 == Append(s, x)
<1>1. /\ s1 \in Seq(Seq(Char)) /\ Len(s1) = n + 1 /\ n \in Nat
      /\ \A k \in 1 .. n : s1[k] = s[k]
      /\ s1[n + 1] = x
  BY AppendProperties
<1>2. PICK a \in [0 .. Len(s) -> Seq(Char)] :
        /\ a[0] = x0
        /\ \A k \in 1 .. Len(s) : a[k] = Joined(a[k - 1], s[k])
        /\ FoldLeft(Joined, x0, s) = a[Len(s)]
  BY JoinedSteps
<1> HIDE DEF s1
<1>3. PICK c \in [0 .. Len(s1) -> Seq(Char)] :
        /\ c[0] = x0
        /\ \A k \in 1 .. Len(s1) : c[k] = Joined(c[k - 1], s1[k])
        /\ FoldLeft(Joined, x0, s1) = c[Len(s1)]
  BY <1>1, JoinedSteps
<1> DEFINE P == {k \in 0 .. n : a[k] = c[k]}
<1>4. n \in P
  <2>1. 0 \in P BY <1>1, <1>2, <1>3
  <2>2. ASSUME NEW k \in 0 .. (n - 1), k \in P PROVE k + 1 \in P
    <3>1. k + 1 \in 1 .. n /\ k + 1 \in 1 .. (n + 1) /\ (k + 1) - 1 = k BY <1>1
    <3>2. a[k + 1] = Joined(a[k], s[k + 1]) BY <1>2, <3>1
    <3>3. c[k + 1] = Joined(c[k], s1[k + 1]) BY <1>1, <1>3, <3>1
    <3> QED BY <1>1, <2>2, <3>1, <3>2, <3>3
  <2> HIDE DEF P, n
  <2>3. \A k \in 0 .. n : k \in P BY <1>1, <2>1, <2>2, Ind
  <2>4. n \in 0 .. n BY <1>1
  <2> QED BY <2>3, <2>4
<1>5. c[n + 1] = Joined(c[n], x)
  <2>1. n + 1 \in 1 .. (n + 1) /\ (n + 1) - 1 = n BY <1>1
  <2> QED BY <1>1, <1>3, <2>1
<1> QED BY <1>1, <1>2, <1>3, <1>4, <1>5 DEF s1

LEMMA CombineType == \A args \in Args : Combine(args) \in Seq(Char)
<1> TAKE args \in Args
<1>1. Head(args) \in Seq(Char) /\ Tail(args) \in Seq(Seq(Char))
  BY HeadTailProperties DEF Args
<1>2. PICK a \in [0 .. Len(Tail(args)) -> Seq(Char)] :
        FoldLeft(Joined, Head(args), Tail(args)) = a[Len(Tail(args))]
  BY <1>1, JoinedSteps
<1>3. Len(Tail(args)) \in 0 .. Len(Tail(args)) BY <1>1
<1> QED BY <1>2, <1>3 DEF Combine

LEMMA CombineAppend ==
  ASSUME NEW args \in Args, NEW x \in Seq(Char)
  PROVE Combine(Append(args, x)) = Joined(Combine(args), x)
<1>1. args \in Seq(Seq(Char)) /\ args # <<>> BY DEF Args
<1>2. Head(args) \in Seq(Char) /\ Tail(args) \in Seq(Seq(Char)) BY <1>1, HeadTailProperties
<1>3. Head(Append(args, x)) = Head(args) /\ Tail(Append(args, x)) = Append(Tail(args), x)
  BY <1>1, HeadTailAppend
<1>4. FoldLeft(Joined, Head(args), Append(Tail(args), x))
        = Joined(FoldLeft(Joined, Head(args), Tail(args)), x)
  BY <1>2, JoinedAppend, Zenon
<1> QED BY <1>3, <1>4 DEF Combine

LEMMA CombineOne == \A x \in Seq(Char) : Combine(<<x>>) = x
<1> TAKE x \in Seq(Char)
<1>1. Head(<<x>>) = x /\ Tail(<<x>>) = <<>> /\ <<>> \in Seq(Seq(Char)) /\ Len(<<>>) = 0 OBVIOUS
<1> DEFINE none == <<>>
<1>2. none \in Seq(Seq(Char)) /\ Len(none) = 0 OBVIOUS
<1> HIDE DEF none
<1>3. PICK a \in [0 .. Len(none) -> Seq(Char)] :
        a[0] = x /\ FoldLeft(Joined, x, none) = a[Len(none)]
  <2>1. \E a \in [0 .. Len(none) -> Seq(Char)] :
          /\ a[0] = x
          /\ \A k \in 1 .. Len(none) : a[k] = Joined(a[k - 1], none[k])
          /\ FoldLeft(Joined, x, none) = a[Len(none)]
    BY <1>2, JoinedSteps, Zenon
  <2> QED BY <2>1, Zenon
<1> QED BY <1>1, <1>2, <1>3 DEF Combine, none

(* A character more in the last argument is one more in the text.          *)
LEMMA CombineExtend ==
  ASSUME NEW args \in Args, NEW c \in Char
  PROVE Combine([args EXCEPT ![Len(args)] = Append(@, c)]) = Append(Combine(args), c)
<1>1. args \in Seq(Seq(Char)) /\ args # <<>> BY DEF Args
<1>2. PICK front \in Seq(Seq(Char)), last \in Seq(Char) : args = Append(front, last)
  BY <1>1, SequenceEmptyOrAppend
<1>3. Append(last, c) \in Seq(Char) BY AppendProperties
<1>4. [args EXCEPT ![Len(args)] = Append(@, c)] = Append(front, Append(last, c))
  <2> DEFINE e == Append(last, c)
             l == Append(front, e)
             r == [args EXCEPT ![Len(args)] = e]
  <2>1. Len(args) \in 1 .. Len(args) /\ args[Len(args)] = last /\ Len(args) = Len(front) + 1
    BY <1>2, AppendProperties
  <2>2. e \in Seq(Char) BY <1>3
  <2> HIDE DEF e
  <2>3. /\ l \in Seq(Seq(Char)) /\ Len(l) = Len(args) /\ l[Len(args)] = e
        /\ \A k \in 1 .. Len(front) : l[k] = front[k]
    BY <2>1, <2>2, AppendProperties
  <2>4. /\ r \in Seq(Seq(Char)) /\ Len(r) = Len(args)
        /\ \A k \in 1 .. Len(args) : r[k] = IF k = Len(args) THEN e ELSE args[k]
    BY <1>1, <2>1, <2>2, ExceptSeq
  <2>5. \A k \in 1 .. Len(front) : args[k] = front[k] BY <1>2, AppendProperties
  <2>6. \A k \in 1 .. Len(l) : l[k] = r[k]
    <3> TAKE k \in 1 .. Len(l)
    <3>1. k \in 1 .. Len(front) \/ k = Len(args) BY <2>1, <2>3
    <3> QED BY <2>1, <2>3, <2>4, <2>5, <3>1
  <2>7. l = r
    <3> HIDE DEF l, r
    <3> QED BY <2>3, <2>4, <2>6, SeqEqual
  <2> QED BY <2>1, <2>7 DEF e
<1>5. CASE front = <<>>
  <2>1. args = <<last>> /\ Append(front, Append(last, c)) = <<Append(last, c)>> BY <1>2, <1>5
  <2> QED BY <1>3, <1>4, <2>1, CombineOne
<1>6. CASE front # <<>>
  <2>1. front \in Args BY <1>6 DEF Args
  <2>2. Combine(front) \in Seq(Char) BY <2>1, CombineType
  <2>3. Joined(Combine(front), Append(last, c)) = Append(Joined(Combine(front), last), c)
    <3> DEFINE f == Combine(front) \o <<Space>>
    <3>1. <<Space>> \in Seq(Char) BY SessionAssumption, Single
    <3>2. f \in Seq(Char) BY <2>2, <3>1, ConcatProperties
    <3> HIDE DEF f
    <3>3. f \o Append(last, c) = Append(f \o last, c)
      <4>1. Append(last, c) = last \o <<c>> BY AppendIsConcat
      <4>2. f \o last \in Seq(Char) BY <3>2, ConcatProperties
      <4>3. Append(f \o last, c) = (f \o last) \o <<c>> BY <4>2, AppendIsConcat
      <4>4. <<c>> \in Seq(Char) BY Single
      <4>5. (f \o last) \o <<c>> = f \o (last \o <<c>>) BY <3>2, <4>4, ConcatAssociative
      <4> QED BY <4>1, <4>3, <4>5
    <3> QED BY <3>3 DEF Joined, f
  <2> QED BY <1>2, <1>3, <1>4, <2>1, <2>3, CombineAppend
<1> QED BY <1>5, <1>6

(* The spaces among the first k characters.                                *)
SpacesTo(line, k) == {j \in Spaces(line) : j <= k}

LEMMA SpacesGrow ==
  ASSUME NEW line \in Seq(Char), NEW k \in 0 .. Len(line) - 1
  PROVE /\ SpacesTo(line, 0) = {}
        /\ SpacesTo(line, Len(line)) = Spaces(line)
        /\ SpacesTo(line, k + 1) = IF line[k + 1] = Space THEN SpacesTo(line, k) \cup {k + 1}
                                   ELSE SpacesTo(line, k)
        /\ k + 1 \notin SpacesTo(line, k)
<1>1. DOMAIN line = 1 .. Len(line) OBVIOUS
<1>2. \A j \in 1 .. Len(line) : j <= k + 1 <=> (j <= k \/ j = k + 1) OBVIOUS
<1> QED BY <1>1, <1>2 DEF SpacesTo, Spaces

LEMMA SpacesFinite ==
  ASSUME NEW line \in Seq(Char), NEW k \in 0 .. Len(line)
  PROVE /\ IsFiniteSet(SpacesTo(line, k)) /\ Cardinality(SpacesTo(line, k)) \in Nat
        /\ IsFiniteSet(Spaces(line)) /\ Cardinality(Spaces(line)) \in Nat
<1>1. DOMAIN line = 1 .. Len(line) /\ Len(line) \in Nat OBVIOUS
<1>2. IsFiniteSet(1 .. Len(line)) BY FS_Interval
<1>3. Spaces(line) \subseteq 1 .. Len(line) /\ SpacesTo(line, k) \subseteq 1 .. Len(line)
  BY <1>1 DEF Spaces, SpacesTo
<1> QED BY <1>2, <1>3, FS_Subset, FS_CardinalityType

(* After k characters there is one argument more than there were spaces.   *)
LEMMA ArgcIs ==
  ASSUME NEW line \in Seq(Char), NEW a \in [0 .. Len(line) -> Args], a[0] = <<<<>>>>,
         \A k \in 1 .. Len(line) : a[k] = Cut(a[k - 1], line[k])
  PROVE \A k \in 0 .. Len(line) : Len(a[k]) = 1 + Cardinality(SpacesTo(line, k))
<1> DEFINE n == Len(line)
           P == {k \in 0 .. n : Len(a[k]) = 1 + Cardinality(SpacesTo(line, k))}
<1>1. 0 \in P
  <2>1. Len(<<<<>>>>) = 1 OBVIOUS
  <2>2. SpacesTo(line, 0) = {} BY DEF SpacesTo, Spaces
  <2>3. Cardinality(SpacesTo(line, 0)) = 0 BY <2>2, FS_EmptySet, Zenon
  <2>4. 0 \in 0 .. n OBVIOUS
  <2>5. Len(a[0]) = 1 BY <2>1, Zenon
  <2>6. 1 = 1 + 0 OBVIOUS
  <2>7. Len(a[0]) = 1 + Cardinality(SpacesTo(line, 0)) BY <2>3, <2>5, <2>6, Zenon
  <2> QED BY <2>4, <2>7, Zenon
<1>2. ASSUME NEW k \in 0 .. n - 1, k \in P PROVE k + 1 \in P
  <2>1. k + 1 \in 1 .. n /\ (k + 1) - 1 = k /\ k \in 0 .. n OBVIOUS
  <2>2. a[k + 1] = Cut(a[k], line[k + 1]) BY <2>1
  <2>3. a[k] \in Seq(Seq(Char)) /\ a[k] # <<>> BY <2>1 DEF Args
  <2>4. IsFiniteSet(SpacesTo(line, k)) /\ Cardinality(SpacesTo(line, k)) \in Nat
    BY <2>1, SpacesFinite
  <2>5. CASE line[k + 1] = Space
    <3>1. a[k + 1] = Append(a[k], <<>>) BY <2>2, <2>5 DEF Cut
    <3>2. Len(a[k + 1]) = Len(a[k]) + 1 BY <2>3, <3>1, AppendProperties
    <3>3. SpacesTo(line, k + 1) = SpacesTo(line, k) \cup {k + 1} /\ k + 1 \notin SpacesTo(line, k)
      BY <2>5, SpacesGrow
    <3>4. Cardinality(SpacesTo(line, k + 1)) = Cardinality(SpacesTo(line, k)) + 1
      BY <2>4, <3>3, FS_AddElement
    <3> QED BY <1>2, <2>1, <2>4, <3>2, <3>4
  <2>6. CASE line[k + 1] # Space
    <3>1. Len(a[k + 1]) = Len(a[k])
      <4> DEFINE e == Append(a[k][Len(a[k])], line[k + 1])
      <4>1. a[k + 1] = [a[k] EXCEPT ![Len(a[k])] = e] BY <2>2, <2>6 DEF Cut
      <4> HIDE DEF e
      <4> QED BY <2>3, <4>1
    <3>2. SpacesTo(line, k + 1) = SpacesTo(line, k) BY <2>6, SpacesGrow
    <3> QED BY <1>2, <2>1, <3>1, <3>2
  <2> QED BY <2>5, <2>6
<1>n. n \in Nat OBVIOUS
<1> HIDE DEF P, n
<1>3. \A k \in 0 .. n : k \in P BY <1>n, <1>1, <1>2, Ind
<1> QED BY <1>3 DEF P, n

LEMMA ArgvType ==
  ASSUME NEW line \in Seq(Char)
  PROVE /\ Argv(line) \in Args
        /\ Len(Argv(line)) = Argc(line)
        /\ Argc(line) \in Nat \ {0}
<1>1. PICK a \in [0 .. Len(line) -> Args] :
          /\ a[0] = <<<<>>>>
          /\ \A k \in 1 .. Len(line) : a[k] = Cut(a[k - 1], line[k])
          /\ Argv(line) = a[Len(line)]
  BY CutSteps
<1>2. Len(line) \in 0 .. Len(line) OBVIOUS
<1>3. Len(a[Len(line)]) = 1 + Cardinality(SpacesTo(line, Len(line))) BY <1>1, <1>2, ArgcIs
<1>4. SpacesTo(line, Len(line)) = Spaces(line)
  <2>1. DOMAIN line = 1 .. Len(line) OBVIOUS
  <2> QED BY <2>1 DEF SpacesTo, Spaces
<1>5. Cardinality(Spaces(line)) \in Nat BY <1>2, SpacesFinite
<1> QED BY <1>1, <1>2, <1>3, <1>4, <1>5 DEF Argc

(* The second space is where the text begins.                              *)
LEMMA SecondSpace ==
  ASSUME NEW line \in Seq(Char), Argc(line) >= 3
  PROVE \E s \in 1 .. Len(line) :
          /\ line[s] = Space
          /\ Cardinality(SpacesTo(line, s - 1)) = 1
          /\ Text(line) = SubSeq(line, s + 1, Len(line))
<1> DEFINE n == Len(line)
           T == {k \in 0 .. n : Cardinality(SpacesTo(line, k)) >= 2}
<1>1. n \in 0 .. n /\ DOMAIN line = 1 .. n OBVIOUS
<1>2. \A k \in 0 .. n : IsFiniteSet(SpacesTo(line, k)) /\ Cardinality(SpacesTo(line, k)) \in Nat
  BY SpacesFinite
<1>3. n \in T
  <2>1. SpacesTo(line, n) = Spaces(line) BY <1>1 DEF SpacesTo, Spaces
  <2>2. Cardinality(Spaces(line)) \in Nat BY <1>1, SpacesFinite
  <2> QED BY <1>1, <2>1, <2>2 DEF Argc
<1>4. PICK s \in T : \A y \in T : s <= y
  <2>1. T \subseteq Nat /\ T # {} BY <1>3
  <2> HIDE DEF T
  <2> QED BY <2>1, Least
<1>5. s \in 1 .. n
  <2>1. SpacesTo(line, 0) = {} BY <1>1 DEF SpacesTo, Spaces
  <2>3. Cardinality(SpacesTo(line, 0)) = 0 BY <2>1, FS_EmptySet, Zenon
  <2>2. 0 \notin T BY <2>3
  <2> QED BY <2>2, <1>4
<1>6. s - 1 \in 0 .. n - 1 /\ s - 1 \in 0 .. n /\ s \in 0 .. n /\ (s - 1) + 1 = s BY <1>5
<1>7. ~(Cardinality(SpacesTo(line, s - 1)) >= 2)
  <2>1. s - 1 \notin T BY <1>4, <1>6
  <2> QED BY <2>1, <1>6
<1>8. Cardinality(SpacesTo(line, s)) >= 2 BY <1>4
<1>9. /\ SpacesTo(line, s) = IF line[s] = Space THEN SpacesTo(line, s - 1) \cup {s}
                             ELSE SpacesTo(line, s - 1)
      /\ s \notin SpacesTo(line, s - 1)
  BY <1>6, SpacesGrow
<1>10. line[s] = Space BY <1>7, <1>8, <1>9
<1>11. Cardinality(SpacesTo(line, s - 1)) = 1
  <2>1. Cardinality(SpacesTo(line, s)) = Cardinality(SpacesTo(line, s - 1)) + 1
    BY <1>2, <1>6, <1>9, <1>10, FS_AddElement
  <2> QED BY <1>2, <1>6, <1>7, <1>8, <2>1
<1>12. \A k \in 1 .. n : {j \in Spaces(line) : j < k} = SpacesTo(line, k - 1)
  BY <1>1 DEF Spaces, SpacesTo
<1>13. s \in Spaces(line) BY <1>1, <1>5, <1>10 DEF Spaces
<1>14. ASSUME NEW k \in Spaces(line), Cardinality({j \in Spaces(line) : j < k}) = 1
       PROVE k = s
  <2>1. k \in 1 .. n /\ line[k] = Space BY <1>1 DEF Spaces
  <2>2. Cardinality(SpacesTo(line, k - 1)) = 1 BY <1>12, <1>14, <2>1
  <2>3. CASE k < s
    <3>1. k - 1 \in 0 .. n - 1 /\ (k - 1) + 1 = k /\ k - 1 \in 0 .. n /\ k \in 0 .. n BY <2>1
    <3>2. SpacesTo(line, k) = SpacesTo(line, k - 1) \cup {k} /\ k \notin SpacesTo(line, k - 1)
      BY <2>1, <3>1, SpacesGrow
    <3>5. Cardinality(SpacesTo(line, k)) = Cardinality(SpacesTo(line, k - 1)) + 1
      BY <1>2, <3>1, <3>2, FS_AddElement
    <3>3. Cardinality(SpacesTo(line, k)) = 2 BY <2>2, <3>5
    <3>4. k \in T BY <3>1, <3>3
    <3> QED BY <1>4, <1>6, <2>1, <2>3, <3>4
  <2>4. CASE k > s
    <3>1. k - 1 \in 0 .. n /\ s <= k - 1 BY <1>5, <2>1, <2>4
    <3>2. SpacesTo(line, s) \subseteq SpacesTo(line, k - 1)
      <4>1. \A j \in 1 .. n : j <= s => j <= k - 1 BY <1>5, <3>1
      <4> QED BY <1>1, <4>1 DEF SpacesTo, Spaces
    <3>3. Cardinality(SpacesTo(line, s)) <= Cardinality(SpacesTo(line, k - 1))
      BY <1>2, <3>1, <3>2, FS_Subset
    <3> QED BY <1>2, <1>6, <1>8, <2>2, <3>1, <3>3
  <2> QED BY <1>5, <2>1, <2>3, <2>4
<1>15. Cardinality({j \in Spaces(line) : j < s}) = 1 BY <1>5, <1>11, <1>12
<1>16. (CHOOSE k \in Spaces(line) : Cardinality({j \in Spaces(line) : j < k}) = 1) = s
  BY <1>13, <1>14, <1>15
<1> QED BY <1>5, <1>10, <1>11, <1>16 DEF Text

(* The last argument grows with the text.                                  *)
LEMMA SubSeqAppend ==
  ASSUME NEW S, NEW x \in Seq(S), NEW e \in S, NEW m \in 1 .. Len(x) + 1
  PROVE SubSeq(Append(x, e), m, Len(x) + 1) = Append(SubSeq(x, m, Len(x)), e)
<1> DEFINE y == Append(x, e)
           l == SubSeq(y, m, Len(x) + 1)
           r == SubSeq(x, m, Len(x))
           n == Len(x)
<1>1. y \in Seq(S) /\ Len(y) = n + 1 /\ y[n + 1] = e /\ \A k \in 1 .. n : y[k] = x[k] /\ n \in Nat
  BY AppendProperties
<1>2. \A i \in m .. n + 1 : y[i] \in S
  <2> HIDE DEF y
  <2> QED BY <1>1, ElementOfSeq
<1>3. \A i \in m .. n : x[i] \in S OBVIOUS
<1>4. l \in Seq(S) /\ Len(l) = n + 2 - m /\ \A i \in 1 .. n + 2 - m : l[i] = y[m + i - 1]
  <2> HIDE DEF y
  <2>1. m \in Int /\ n + 1 \in Int /\ m <= n + 1 BY <1>1
  <2>2. /\ l \in Seq(S)
        /\ Len(l) = IF m <= n + 1 THEN (n + 1) - m + 1 ELSE 0
        /\ \A i \in 1 .. (n + 1) - m + 1 : l[i] = y[m + i - 1]
    BY <1>2, <2>1, SubSeqProperties
  <2> QED BY <2>1, <2>2
<1>5. r \in Seq(S) /\ Len(r) = n + 1 - m /\ \A i \in 1 .. n + 1 - m : r[i] = x[m + i - 1]
  <2>1. m \in Int /\ n \in Int /\ m <= n + 1 BY <1>1
  <2>2. /\ r \in Seq(S)
        /\ Len(r) = IF m <= n THEN n - m + 1 ELSE 0
        /\ \A i \in 1 .. n - m + 1 : r[i] = x[m + i - 1]
    BY <1>3, <2>1, SubSeqProperties
  <2> QED BY <2>1, <2>2
<1> DEFINE z == Append(r, e)
<1> HIDE DEF r, l, y
<1>6. /\ z \in Seq(S) /\ Len(z) = n + 2 - m /\ z[n + 2 - m] = e
      /\ \A k \in 1 .. n + 1 - m : z[k] = r[k]
  <2>1. Len(r) + 1 = n + 2 - m BY <1>1, <1>5
  <2> QED BY <2>1, <1>5, AppendProperties
<1> HIDE DEF z
<1>7. \A k \in 1 .. Len(l) : l[k] = z[k]
  <2> TAKE k \in 1 .. Len(l)
  <2>1. CASE k = n + 2 - m
    <3>1. m + k - 1 = n + 1 /\ k \in 1 .. n + 2 - m BY <1>1, <1>4, <2>1
    <3> HIDE DEF n
    <3> QED BY <1>1, <1>4, <1>6, <2>1, <3>1
  <2>2. CASE k # n + 2 - m
    <3>1. k \in 1 .. n + 1 - m /\ m + k - 1 \in 1 .. n BY <1>1, <1>4, <2>2
    <3> QED BY <1>1, <1>4, <1>5, <1>6, <3>1
  <2> QED BY <2>1, <2>2
<1>8. l = z BY <1>4, <1>6, <1>7, SeqEqual
<1> QED BY <1>8 DEF l, z, r, y

LEMMA SubSeqNext ==
  ASSUME NEW S, NEW x \in Seq(S), NEW k \in 0 .. Len(x) - 1, NEW m \in 1 .. k + 1
  PROVE SubSeq(x, m, k + 1) = Append(SubSeq(x, m, k), x[k + 1])
<1>1. k + 1 \in m .. Len(x) /\ m \in 1 .. Len(x) /\ (k + 1) - 1 = k OBVIOUS
<1>2. SubSeq(x, m, k + 1) = SubSeq(x, m, k) \o <<x[k + 1]>> BY <1>1, SubSeqRecursiveSecond
<1>3. SubSeq(x, m, k) \in Seq(S)
  <2>1. \A i \in m .. k : x[i] \in S OBVIOUS
  <2>2. m \in Int /\ k \in Int OBVIOUS
  <2> QED BY <2>1, <2>2, SubSeqProperties
<1>4. x[k + 1] \in S BY <1>1
<1> QED BY <1>2, <1>3, <1>4, AppendIsConcat

LEMMA SubSeqExcept ==
  ASSUME NEW S, NEW x \in Seq(S), x # <<>>, NEW e \in S, NEW m \in 1 .. Len(x)
  PROVE /\ SubSeq(x, m, Len(x)) \in Seq(S)
        /\ Len(SubSeq(x, m, Len(x))) = Len(x) - m + 1
        /\ SubSeq(x, m, Len(x))[Len(x) - m + 1] = x[Len(x)]
        /\ SubSeq([x EXCEPT ![Len(x)] = e], m, Len(x))
             = [SubSeq(x, m, Len(x)) EXCEPT ![Len(x) - m + 1] = e]
<1> DEFINE n == Len(x)
           y == [x EXCEPT ![n] = e]
           l == SubSeq(y, m, n)
           r == SubSeq(x, m, n)
           z == [r EXCEPT ![n - m + 1] = e]
<1>1. n \in Nat /\ m \in Int /\ n \in Int /\ m <= n OBVIOUS
<1>2. y \in Seq(S) /\ Len(y) = n /\ \A k \in 1 .. n : y[k] = IF k = n THEN e ELSE x[k]
  BY <1>1, ExceptSeq
<1>3. \A i \in m .. n : x[i] \in S OBVIOUS
<1>4. r \in Seq(S) /\ Len(r) = n - m + 1 /\ \A i \in 1 .. n - m + 1 : r[i] = x[m + i - 1]
  BY <1>1, <1>3, SubSeqProperties
<1> HIDE DEF y
<1>5. \A i \in m .. n : y[i] \in S BY <1>2
<1>6. l \in Seq(S) /\ Len(l) = n - m + 1 /\ \A i \in 1 .. n - m + 1 : l[i] = y[m + i - 1]
  BY <1>1, <1>5, SubSeqProperties
<1> HIDE DEF r, l
<1>7. n - m + 1 \in 1 .. Len(r) BY <1>1, <1>4
<1>8. z \in Seq(S) /\ Len(z) = Len(r) /\ \A j \in 1 .. Len(r) : z[j] = IF j = n - m + 1 THEN e ELSE r[j]
  BY <1>4, <1>7, ExceptSeq
<1> HIDE DEF z
<1>9. \A k \in 1 .. Len(l) : l[k] = z[k]
  <2> TAKE k \in 1 .. Len(l)
  <2>1. k \in 1 .. n - m + 1 /\ m + k - 1 \in 1 .. n /\ (m + k - 1 = n <=> k = n - m + 1)
    BY <1>1, <1>6
  <2> QED BY <2>1, <1>2, <1>4, <1>6, <1>8
<1>10. l = z BY <1>4, <1>6, <1>8, <1>9, SeqEqual
<1>11. r[n - m + 1] = x[n]
  <2>1. n - m + 1 \in 1 .. n - m + 1 /\ m + (n - m + 1) - 1 = n BY <1>1
  <2> QED BY <2>1, <1>4
<1> QED BY <1>4, <1>10, <1>11 DEF l, z, r, y

Edited(x, m, e) == [x EXCEPT ![m] = e]

LEMMA EditedFrom ==
  ASSUME NEW S, NEW x \in Seq(S), x # <<>>, NEW e \in S, 3 \in 1 .. Len(x)
  PROVE SubSeq(Edited(x, Len(x), e), 3, Len(x)) = Edited(SubSeq(x, 3, Len(x)), Len(x) - 3 + 1, e)
<1> DEFINE three == 3
<1>1. three \in 1 .. Len(x) OBVIOUS
<1> HIDE DEF three
<1>2. SubSeq([x EXCEPT ![Len(x)] = e], three, Len(x))
        = [SubSeq(x, three, Len(x)) EXCEPT ![Len(x) - three + 1] = e]
  BY <1>1, SubSeqExcept
<1> QED BY <1>2, Zenon DEF three, Edited

LEMMA CutJoin ==
  ASSUME NEW line \in Seq(Char), Argc(line) >= 3
  PROVE Combine(SubSeq(Argv(line), 3, Argc(line))) = Text(line)
<1> DEFINE n == Len(line)
<1>1. PICK a \in [0 .. Len(line) -> Args] :
          /\ a[0] = <<<<>>>>
          /\ \A k \in 1 .. Len(line) : a[k] = Cut(a[k - 1], line[k])
          /\ Argv(line) = a[Len(line)]
  BY CutSteps
<1>2. \A k \in 0 .. n : Len(a[k]) = 1 + Cardinality(SpacesTo(line, k)) BY <1>1, ArgcIs
<1>3. PICK s \in 1 .. n :
          /\ line[s] = Space
          /\ Cardinality(SpacesTo(line, s - 1)) = 1
          /\ Text(line) = SubSeq(line, s + 1, n)
  BY SecondSpace
<1>4. \A k \in 0 .. n : a[k] \in Seq(Seq(Char)) /\ a[k] # <<>> BY <1>1 DEF Args
<1>5. n \in Nat /\ s - 1 \in 0 .. n /\ s \in 0 .. n BY <1>3
<1> DEFINE m == n - s
           After2(k) == Len(a[k]) >= 3 /\ Combine(SubSeq(a[k], 3, Len(a[k]))) = SubSeq(line, s + 1, k)
           P == {j \in 0 .. m : After2(s + j)}
<1>6. 0 \in P
  <2>1. a[s] = Append(a[s - 1], <<>>) BY <1>1, <1>3 DEF Cut
  <2>2. Len(a[s - 1]) = 2
    <3>1. Len(a[s - 1]) = 1 + Cardinality(SpacesTo(line, s - 1)) BY <1>2, <1>5
    <3> QED BY <1>3, <3>1
  <2>3. a[s - 1] \in Seq(Seq(Char)) BY <1>4, <1>5
  <2>4. SubSeq(a[s], 3, 3) = Append(SubSeq(a[s - 1], 3, 2), <<>>)
    <3>1. 3 \in 1 .. Len(a[s - 1]) + 1 /\ Len(a[s - 1]) + 1 = 3 BY <2>2
    <3>2. <<>> \in Seq(Char) OBVIOUS
    <3> QED BY <2>1, <2>2, <2>3, <3>1, <3>2, SubSeqAppend
  <2>5. SubSeq(a[s - 1], 3, 2) = <<>> BY SubSeqEmpty
  <2>6. Len(a[s]) = 3
    <3> DEFINE e == <<>>
    <3>1. e \in Seq(Char) OBVIOUS
    <3>2. a[s] = Append(a[s - 1], e) BY <2>1
    <3> HIDE DEF e, After2, P
    <3>3. Len(Append(a[s - 1], e)) = Len(a[s - 1]) + 1 BY <2>3, <3>1, AppendProperties
    <3> QED BY <2>2, <3>2, <3>3
  <2>7. Combine(<<<<>>>>) = <<>> 
    <3>1. <<>> \in Seq(Char) OBVIOUS
    <3> QED BY <3>1, CombineOne
  <2>8. SubSeq(line, s + 1, s) = <<>> BY <1>5, SubSeqEmpty
  <2>9. Append(<<>>, <<>>) = <<<<>>>> OBVIOUS
  <2>10. After2(s)
    <3>1. SubSeq(a[s], 3, 3) = <<<<>>>> BY <2>4, <2>5, <2>9, Zenon
    <3>2. Combine(SubSeq(a[s], 3, 3)) = SubSeq(line, s + 1, s) BY <2>7, <2>8, <3>1, Zenon
    <3> QED BY <2>6, <3>2
  <2>11. s + 0 = s /\ 0 \in 0 .. m BY <1>5
  <2> HIDE DEF After2
  <2> QED BY <2>10, <2>11
<1>7. ASSUME NEW j \in 0 .. m - 1, j \in P PROVE j + 1 \in P
  <2> DEFINE k == s + j
             x == a[k]
  <2>1. k \in 0 .. n - 1 /\ k \in 0 .. n /\ k + 1 \in 1 .. n /\ s + 1 \in 1 .. k + 1 /\ (k + 1) - 1 = k
    BY <1>5
  <2>2. After2(k) BY <1>7
  <2>3. a[k + 1] = Cut(x, line[k + 1]) BY <1>1, <2>1
  <2> HIDE DEF After2, P, m
  <2>4. x \in Seq(Seq(Char)) /\ x # <<>> /\ x \in Args /\ Len(x) \in Nat
    <3>1. a[k] \in Args BY <1>1, <2>1
    <3>2. a[k] \in Seq(Seq(Char)) /\ a[k] # <<>> BY <1>4, <2>1
    <3> QED BY <3>1, <3>2
  <2> DEFINE w == SubSeq(x, 3, Len(x))
             t == SubSeq(line, s + 1, k)
             c == line[k + 1]
  <2>5. Len(x) >= 3 /\ Combine(w) = t BY <2>2 DEF After2
  <2>6. SubSeq(line, s + 1, k + 1) = Append(t, c) BY <2>1, SubSeqNext
  <2>7. w \in Seq(Seq(Char)) /\ Len(w) = Len(x) - 2 /\ w[Len(x) - 2] = x[Len(x)]
    <3>1. 3 \in 1 .. Len(x) BY <2>4, <2>5
    <3>2. <<>> \in Seq(Char) OBVIOUS
    <3>3. Len(x) - 3 + 1 = Len(x) - 2 BY <2>4
    <3> HIDE DEF x
    <3>4. /\ w \in Seq(Seq(Char))
          /\ Len(w) = Len(x) - 3 + 1
          /\ w[Len(x) - 3 + 1] = x[Len(x)]
      BY <2>4, <3>1, <3>2, SubSeqExcept
    <3> QED BY <3>3, <3>4
  <2>8. w \in Args
    <3> HIDE DEF x, w
    <3>3. Len(x) \in Nat /\ Len(x) >= 3 /\ Len(w) = Len(x) - 2 BY <2>4, <2>5, <2>7, Zenon
    <3>1. Len(w) # 0 BY <3>3
    <3>2. w # <<>> BY <3>1
    <3> QED BY <2>7, <3>2 DEF Args
  <2>9. c \in Char BY <2>1
  <2>10. After2(k + 1)
    <3>1. CASE c = Space
      <4>1. a[k + 1] = Append(x, <<>>) BY <2>3, <3>1 DEF Cut
      <4>2. <<>> \in Seq(Char) OBVIOUS
      <4>3. Len(a[k + 1]) = Len(x) + 1 BY <2>4, <4>1, <4>2, AppendProperties
      <4>4. SubSeq(a[k + 1], 3, Len(x) + 1) = Append(w, <<>>)
        <5>1. 3 \in 1 .. Len(x) + 1 BY <2>4, <2>5
        <5> HIDE DEF x
        <5> QED BY <2>4, <4>1, <4>2, <5>1, SubSeqAppend
      <4> HIDE DEF w, t, x
      <4>5. Combine(Append(w, <<>>)) = Joined(t, <<>>) BY <2>5, <2>8, <4>2, CombineAppend
      <4>6. t \in Seq(Char) BY <2>5, <2>8, CombineType
      <4>7. Joined(t, <<>>) = Append(t, Space)
        <5>1. <<Space>> \in Seq(Char) BY <2>9, <3>1, Single
        <5>2. t \o <<Space>> \in Seq(Char) BY <4>6, <5>1, ConcatProperties
        <5>3. (t \o <<Space>>) \o <<>> = t \o <<Space>> BY <5>2, ConcatEmptySeq
        <5> QED BY <2>9, <3>1, <4>6, <5>3, AppendIsConcat DEF Joined
      <4>8. Combine(SubSeq(a[k + 1], 3, Len(a[k + 1]))) = SubSeq(line, s + 1, k + 1)
        BY <2>6, <3>1, <4>3, <4>4, <4>5, <4>7
      <4>9. Len(a[k + 1]) >= 3 BY <2>4, <2>5, <4>3
      <4> QED BY <4>8, <4>9 DEF After2
    <3>2. CASE c # Space
      <4> DEFINE e == Append(x[Len(x)], c)
      <4>1. a[k + 1] = [x EXCEPT ![Len(x)] = e] BY <2>3, <3>2 DEF Cut
      <4>2. x[Len(x)] \in Seq(Char) /\ Len(x) \in 1 .. Len(x) BY <2>4
      <4>3. e \in Seq(Char) BY <2>9, <4>2, AppendProperties
      <4> HIDE DEF x, e
      <4>4. Len(a[k + 1]) = Len(x) BY <2>4, <4>1, <4>2, <4>3, ExceptSeq
      <4>5. SubSeq(a[k + 1], 3, Len(x)) = [w EXCEPT ![Len(w)] = e]
        <5>1. 3 \in 1 .. Len(x) /\ Len(x) - 3 + 1 = Len(w) BY <2>4, <2>5, <2>7
        <5>2. SubSeq([x EXCEPT ![Len(x)] = e], 3, Len(x)) = [w EXCEPT ![Len(x) - 3 + 1] = e]
          <6>1. x \in Seq(Seq(Char)) /\ x # <<>> BY <2>4, <5>1
          <6> HIDE DEF w, t, c
          <6>2. SubSeq([x EXCEPT ![Len(x)] = e], 3, Len(x)) = [SubSeq(x, 3, Len(x)) EXCEPT ![Len(x) - 3 + 1] = e]
            <7>1. SubSeq(Edited(x, Len(x), e), 3, Len(x)) = Edited(SubSeq(x, 3, Len(x)), Len(x) - 3 + 1, e)
              BY <4>3, <5>1, <6>1, EditedFrom
            <7> QED BY <7>1, Zenon DEF Edited
          <6> QED BY <6>2 DEF w
        <5> QED BY <4>1, <5>1, <5>2
      <4>6. e = Append(w[Len(w)], c) BY <2>7 DEF e
      <4> HIDE DEF w, t
      <4>7. Combine([w EXCEPT ![Len(w)] = e]) = Append(t, c)
        BY <2>5, <2>8, <2>9, <4>6, CombineExtend
      <4> QED BY <2>5, <2>6, <4>4, <4>5, <4>7 DEF After2
    <3> QED BY <3>1, <3>2
  <2>11. s + (j + 1) = k + 1 /\ j + 1 \in 0 .. m BY <1>5
  <2> QED BY <2>10, <2>11 DEF P
<1>8. m \in P
  <2>1. m \in Nat /\ m \in 0 .. m BY <1>5
  <2> HIDE DEF P, m
  <2> QED BY <2>1, <1>6, <1>7, Ind
<1>9. After2(n)
  <2>1. s + m = n BY <1>5
  <2> HIDE DEF After2
  <2> QED BY <1>8, <2>1
<1>10. Len(Argv(line)) = Argc(line) BY ArgvType
<1> QED BY <1>1, <1>3, <1>9, <1>10

LEMMA FailsBoolean == \A a, q : Fails(a, q) \in BOOLEAN
BY DEF Fails

LEMMA AdvanceFails ==
  ASSUME NEW A \in Reader, NEW x, NEW o, Fails(A, x)
  PROVE Advance(A, x, o).error = TRUE
BY DEF Advance, Reader

(* A '*' or '/' whose left number begins a term can be applied first.      *)
LEMMA HighStep ==
  ASSUME NEW A \in Reader, A.op = None, A.error = FALSE,
         NEW x \in Float, NEW y \in Float, NEW o \in {"*", "/"}, ~(o = "/" /\ IsZero(y))
  PROVE LET r == Apply(o, x, y)
            B == Advance(A, x, o)
        IN /\ ~Fails(B, y) /\ ~Fails(A, r)
           /\ Summed(B, y) = Summed(A, r)
           /\ \A o2 \in Ops : Advance(B, y, o2) = Advance(A, r, o2)
<1> DEFINE r == Apply(o, x, y)
           B == Advance(A, x, o)
<1>1. o \in Ops /\ High(o) /\ o # None BY DEF Ops, High, None
<1>2. r \in Float BY <1>1, ApplyFloat
<1>3. B \in Reader BY <1>1, AdvanceType
<1>4. ~Fails(A, x) /\ ~Fails(A, r) BY DEF Fails, None
<1>5. Grown(A, x) = x /\ Grown(A, r) = r BY DEF Grown, Applied
<1>6. B = [sum |-> A.sum, sumOp |-> A.sumOp, term |-> x, op |-> o, error |-> FALSE]
  BY <1>1, <1>4, <1>5, AdvanceIs
<1>7. B.sum = A.sum /\ B.sumOp = A.sumOp /\ B.op = o /\ B.term = x /\ B.error = FALSE BY <1>6
<1>8. Grown(B, y) = r BY <1>1, <1>7 DEF Grown, Applied
<1> HIDE DEF r, B
<1>9. ~Fails(B, y) BY <1>7 DEF Fails
<1>10. Summed(B, y) = Summed(A, r) BY <1>5, <1>7, <1>8 DEF Summed
<1>11. ASSUME NEW o2 \in Ops PROVE Advance(B, y, o2) = Advance(A, r, o2)
  <2>1. Advance(B, y, o2) =
          IF High(o2) THEN [sum |-> B.sum, sumOp |-> B.sumOp, term |-> Grown(B, y), op |-> o2,
                            error |-> FALSE]
          ELSE [sum |-> Summed(B, y), sumOp |-> o2, term |-> Zero, op |-> None, error |-> FALSE]
    BY <1>3, <1>9, AdvanceIs
  <2>2. Advance(A, r, o2) =
          IF High(o2) THEN [sum |-> A.sum, sumOp |-> A.sumOp, term |-> Grown(A, r), op |-> o2,
                            error |-> FALSE]
          ELSE [sum |-> Summed(A, r), sumOp |-> o2, term |-> Zero, op |-> None, error |-> FALSE]
    BY <1>2, <1>4, AdvanceIs
  <2> QED BY <1>5, <1>7, <1>8, <1>10, <2>1, <2>2
<1> QED BY <1>4, <1>9, <1>10, <1>11 DEF r, B

(* The first number is the sum so far.                                     *)
LEMMA BeginGrows ==
  ASSUME NEW q \in Float
  PROVE /\ ~Fails(Begin, q)
        /\ Summed(Begin, q) = q
<1>1. Begin.sumOp = None /\ Begin.op = None /\ Begin.error = FALSE BY DEF Begin
<1>2. Grown(Begin, q) = q BY <1>1 DEF Grown, Applied
<1> QED BY <1>1, <1>2 DEF Summed, Applied, Fails, None

(* Where there is no '*' or '/', the first operator can be applied first.  *)
LEMMA LowStep ==
  ASSUME NEW x \in Float, NEW y \in Float, NEW o \in {"+", "-"}
  PROVE LET r == Apply(o, x, y)
            B == Advance(Begin, x, o)
        IN /\ ~Fails(B, y)
           /\ Summed(B, y) = r
           /\ \A o2 \in {"+", "-"} : Advance(B, y, o2) = Advance(Begin, r, o2)
<1> DEFINE r == Apply(o, x, y)
           B == Advance(Begin, x, o)
<1>1. o \in Ops /\ ~High(o) /\ o # "/" /\ o # None BY DEF Ops, High, None
<1>2. r \in Float BY <1>1, ApplyFloat
<1>3. B \in Reader BY <1>1, AdvanceType, BeginType
<1>4. ~Fails(Begin, x) /\ ~Fails(Begin, r) BY <1>2, BeginGrows
<1>5. B = [sum |-> x, sumOp |-> o, term |-> Zero, op |-> None, error |-> FALSE]
  <2>1. Summed(Begin, x) = x BY BeginGrows
  <2>2. B = [sum |-> Summed(Begin, x), sumOp |-> o, term |-> Zero, op |-> None, error |-> FALSE]
    BY <1>1, <1>4, AdvanceIs, BeginType
  <2> QED BY <2>1, <2>2
<1>6. B.sum = x /\ B.sumOp = o /\ B.op = None /\ B.error = FALSE BY <1>5
<1> HIDE DEF B
<1>7. ~Fails(B, y) BY <1>6 DEF Fails, None
<1>8. Grown(B, y) = y BY <1>6 DEF Grown, Applied
<1>9. Summed(B, y) = r BY <1>1, <1>6, <1>8 DEF Summed, Applied
<1> HIDE DEF r
<1>10. ASSUME NEW o2 \in {"+", "-"} PROVE Advance(B, y, o2) = Advance(Begin, r, o2)
  <2>1. o2 \in Ops /\ ~High(o2) BY DEF Ops, High
  <2>2. Advance(B, y, o2) =
          [sum |-> Summed(B, y), sumOp |-> o2, term |-> Zero, op |-> None, error |-> FALSE]
    BY <1>3, <1>7, <2>1, AdvanceIs
  <2>3. Advance(Begin, r, o2) =
          [sum |-> Summed(Begin, r), sumOp |-> o2, term |-> Zero, op |-> None, error |-> FALSE]
    BY <1>2, <1>4, <2>1, AdvanceIs, BeginType
  <2>4. Summed(Begin, r) = r BY <1>2, BeginGrows
  <2> QED BY <1>9, <2>2, <2>3, <2>4
<1> QED BY <1>7, <1>9, <1>10 DEF r, B

(* The rest of an expression is read from where its first character leads. *)
LEMMA ScanHead ==
  ASSUME NEW s0 \in Scanner, NEW s \in Seq(Symbols), s # <<>>
  PROVE FoldLeft(Scan, s0, s) = FoldLeft(Scan, Scan(s0, Head(s)), Tail(s))
<1> DEFINE t == Tail(s)
           t0 == Scan(s0, Head(s))
           n == Len(s)
<1>1. /\ t \in Seq(Symbols) /\ Len(t) = n - 1 /\ n \in Nat \ {0}
      /\ \A k \in 1 .. n - 1 : t[k] = s[k + 1]
      /\ Head(s) = s[1] /\ Head(s) \in Symbols
  BY HeadTailProperties
<1>2. t0 \in Scanner BY <1>1, ScanType
<1>3. PICK a \in [0 .. Len(s) -> Scanner] :
        /\ a[0] = s0
        /\ \A k \in 1 .. Len(s) : a[k] = Scan(a[k - 1], s[k])
        /\ FoldLeft(Scan, s0, s) = a[Len(s)]
  BY ScanSteps
<1> HIDE DEF t, t0
<1>4. PICK c \in [0 .. Len(t) -> Scanner] :
        /\ c[0] = t0
        /\ \A k \in 1 .. Len(t) : c[k] = Scan(c[k - 1], t[k])
        /\ FoldLeft(Scan, t0, t) = c[Len(t)]
  BY <1>1, <1>2, ScanSteps
<1> DEFINE m == n - 1
           P == {k \in 0 .. m : c[k] = a[k + 1]}
<1>5. 0 \in P
  <2>1. 1 \in 1 .. n /\ 0 + 1 = 1 /\ 1 - 1 = 0 /\ 0 \in 0 .. m BY <1>1
  <2>2. a[1] = Scan(a[0], s[1]) BY <1>3, <2>1
  <2> QED BY <1>1, <1>3, <1>4, <2>1, <2>2 DEF t0
<1>6. ASSUME NEW k \in 0 .. m - 1, k \in P PROVE k + 1 \in P
  <2>1. /\ k + 1 \in 1 .. n - 1 /\ k + 2 \in 1 .. n /\ (k + 1) - 1 = k
        /\ (k + 2) - 1 = k + 1 /\ (k + 1) + 1 = k + 2 /\ k + 1 \in 0 .. m
    BY <1>1
  <2>2. c[k + 1] = Scan(c[k], t[k + 1]) BY <1>1, <1>4, <2>1
  <2>3. a[k + 2] = Scan(a[k + 1], s[k + 2]) BY <1>3, <2>1
  <2>4. t[k + 1] = s[k + 2] BY <1>1, <2>1
  <2> QED BY <1>6, <2>1, <2>2, <2>3, <2>4
<1>7. m \in P
  <2>1. m \in Nat /\ m \in 0 .. m BY <1>1
  <2> HIDE DEF P, m
  <2> QED BY <1>5, <1>6, <2>1, Ind
<1>8. m + 1 = Len(s) /\ m = Len(t) BY <1>1
<1> QED BY <1>3, <1>4, <1>7, <1>8 DEF t, t0

LEMMA ScanNone == \A s0 \in Scanner : FoldLeft(Scan, s0, <<>>) = s0
<1> TAKE s0 \in Scanner
<1> DEFINE none == <<>>
<1>2. none \in Seq(Symbols) /\ Len(none) = 0 OBVIOUS
<1> HIDE DEF none
<1>3. PICK a \in [0 .. Len(none) -> Scanner] :
        a[0] = s0 /\ FoldLeft(Scan, s0, none) = a[Len(none)]
  <2>1. \E a \in [0 .. Len(none) -> Scanner] :
          /\ a[0] = s0
          /\ \A k \in 1 .. Len(none) : a[k] = Scan(a[k - 1], none[k])
          /\ FoldLeft(Scan, s0, none) = a[Len(none)]
    BY <1>2, ScanSteps, Zenon
  <2> QED BY <2>1, Zenon
<1> QED BY <1>2, <1>3 DEF none

(* Of the numbers only those with an operator after them are used.         *)
LEMMA AfterSame ==
  ASSUME NEW o \in Seq(Ops), NEW q, \A k \in 1 .. Len(o) : q[k] \in Float,
         NEW r, \A k \in 1 .. Len(o) : r[k] = q[k]
  PROVE After(r, o) = After(q, o)
<1> DEFINE n == Len(o)
<1>1. PICK a \in [0 .. Len(o) -> Reader] :
          /\ a[0] = Begin
          /\ \A k \in 1 .. Len(o) : a[k] = Advance(a[k - 1], q[k], o[k])
          /\ After(q, o) = a[Len(o)]
  BY AfterSteps
<1>2. \A k \in 1 .. Len(o) : r[k] \in Float OBVIOUS
<1>3. PICK b \in [0 .. Len(o) -> Reader] :
          /\ b[0] = Begin
          /\ \A k \in 1 .. Len(o) : b[k] = Advance(b[k - 1], r[k], o[k])
          /\ After(r, o) = b[Len(o)]
  BY <1>2, AfterSteps
<1> DEFINE P == {k \in 0 .. n : a[k] = b[k]}
<1>4. 0 \in P BY <1>1, <1>3
<1>5. ASSUME NEW k \in 0 .. n - 1, k \in P PROVE k + 1 \in P
  <2>1. k + 1 \in 1 .. n /\ (k + 1) - 1 = k OBVIOUS
  <2>2. a[k + 1] = Advance(a[k], q[k + 1], o[k + 1]) BY <1>1, <2>1
  <2>3. b[k + 1] = Advance(b[k], r[k + 1], o[k + 1]) BY <1>3, <2>1
  <2>4. r[k + 1] = q[k + 1] BY <2>1
  <2> QED BY <1>5, <2>1, <2>2, <2>3, <2>4
<1>6. n \in P
  <2>1. n \in Nat /\ n \in 0 .. n OBVIOUS
  <2> HIDE DEF P, n
  <2> QED BY <1>4, <1>5, <2>1, Ind
<1> QED BY <1>1, <1>3, <1>6

LEMMA AfterNone == \A q : After(q, <<>>) = Begin
<1> TAKE q
<1> DEFINE none == <<>>
<1>2. none \in Seq(Ops) /\ Len(none) = 0 OBVIOUS
<1> HIDE DEF none
<1>3. PICK a \in [0 .. Len(none) -> Reader] :
        a[0] = Begin /\ After(q, none) = a[Len(none)]
  <2>1. \A k \in 1 .. Len(none) : q[k] \in Float BY <1>2
  <2> QED BY <1>2, <2>1, AfterSteps
<1> QED BY <1>2, <1>3 DEF none

(* One number and one operator more.                                       *)
LEMMA AfterAppend ==
  ASSUME NEW q \in Seq(Float), NEW o \in Seq(Ops), Len(q) = Len(o),
         NEW x \in Float, NEW y \in Ops
  PROVE After(Append(q, x), Append(o, y)) = Advance(After(q, o), x, y)
<1> DEFINE n == Len(o)
           r == Append(q, x)
           w == Append(o, y)
<1>1. /\ r \in Seq(Float) /\ Len(r) = n + 1 /\ r[n + 1] = x /\ n \in Nat
      /\ \A k \in 1 .. n : r[k] = q[k]
  BY AppendProperties
<1>2. /\ w \in Seq(Ops) /\ Len(w) = n + 1 /\ w[n + 1] = y
      /\ \A k \in 1 .. n : w[k] = o[k]
  BY AppendProperties
<1>3. \A k \in 1 .. Len(o) : q[k] \in Float OBVIOUS
<1>4. PICK a \in [0 .. Len(o) -> Reader] :
          /\ a[0] = Begin
          /\ \A k \in 1 .. Len(o) : a[k] = Advance(a[k - 1], q[k], o[k])
          /\ After(q, o) = a[Len(o)]
  BY <1>3, AfterSteps
<1> HIDE DEF r, w
<1>5. \A k \in 1 .. Len(w) : r[k] \in Float BY <1>1, <1>2
<1>6. PICK b \in [0 .. Len(w) -> Reader] :
          /\ b[0] = Begin
          /\ \A k \in 1 .. Len(w) : b[k] = Advance(b[k - 1], r[k], w[k])
          /\ After(r, w) = b[Len(w)]
  BY <1>2, <1>5, AfterSteps
<1> DEFINE P == {k \in 0 .. n : a[k] = b[k]}
<1>7. 0 \in P BY <1>1, <1>4, <1>6
<1>8. ASSUME NEW k \in 0 .. n - 1, k \in P PROVE k + 1 \in P
  <2>1. k + 1 \in 1 .. n /\ k + 1 \in 1 .. n + 1 /\ (k + 1) - 1 = k BY <1>1
  <2>2. a[k + 1] = Advance(a[k], q[k + 1], o[k + 1]) BY <1>4, <2>1
  <2>3. b[k + 1] = Advance(b[k], r[k + 1], w[k + 1]) BY <1>2, <1>6, <2>1
  <2>4. r[k + 1] = q[k + 1] /\ w[k + 1] = o[k + 1] BY <1>1, <1>2, <2>1
  <2> QED BY <1>8, <2>1, <2>2, <2>3, <2>4
<1>9. n \in P
  <2>1. n \in Nat /\ n \in 0 .. n BY <1>1
  <2> HIDE DEF P, n
  <2> QED BY <1>7, <1>8, <2>1, Ind
<1>10. b[n + 1] = Advance(b[n], x, y)
  <2>1. n + 1 \in 1 .. n + 1 /\ (n + 1) - 1 = n BY <1>1
  <2> QED BY <1>1, <1>2, <1>6, <2>1
<1> QED BY <1>2, <1>4, <1>6, <1>9, <1>10 DEF r, w

(* Nothing appears that was not typed.                                     *)
LEMMA StripKeeps ==
  ASSUME NEW s \in Seq(Typed)
  PROVE \A j \in DOMAIN strip_spaces(s) : \E k \in DOMAIN s : strip_spaces(s)[j] = s[k]
<1> DEFINE n == Len(s)
           Kept(x) == \A j \in 1 .. Len(x) : \E k \in DOMAIN s : x[j] = s[k]
<1>1. PICK a \in [0 .. Len(s) -> Seq(Symbols)] :
          /\ a[0] = <<>>
          /\ \A k \in 1 .. Len(s) : a[k] = Keep(a[k - 1], s[k])
          /\ strip_spaces(s) = a[Len(s)]
  BY KeepSteps
<1>2. n \in Nat /\ DOMAIN s = 1 .. n /\ \A k \in 1 .. n : s[k] \in Typed OBVIOUS
<1> DEFINE P == {k \in 0 .. n : Kept(a[k])}
<1>3. 0 \in P
  <2>1. Len(a[0]) = 0 BY <1>1
  <2> QED BY <1>2, <2>1
<1>4. ASSUME NEW k \in 0 .. n - 1, k \in P PROVE k + 1 \in P
  <2>1. k + 1 \in 1 .. n /\ (k + 1) - 1 = k /\ k \in 0 .. n BY <1>2
  <2>2. a[k + 1] = Keep(a[k], s[k + 1]) BY <1>1, <2>1
  <2>3. a[k] \in Seq(Symbols) BY <1>1, <2>1
  <2>4. CASE s[k + 1] = " "
    <3>1. a[k + 1] = a[k] BY <2>2, <2>4 DEF Keep
    <3>2. Kept(a[k]) /\ k + 1 \in 0 .. n BY <1>4, <2>1
    <3> HIDE DEF Kept
    <3> QED BY <3>1, <3>2
  <2>5. CASE s[k + 1] # " "
    <3> DEFINE x == a[k]
               c == s[k + 1]
               y == Append(x, c)
    <3>1. a[k + 1] = y BY <2>2, <2>5 DEF Keep
    <3>2. c \in Symbols BY <1>2, <2>1, <2>5 DEF Typed
    <3>3. Len(y) = Len(x) + 1 /\ y[Len(x) + 1] = c /\ \A j \in 1 .. Len(x) : y[j] = x[j] /\ Len(x) \in Nat
      BY <2>3, <3>2, AppendProperties
    <3>4. Kept(x) BY <1>4
    <3>5. k + 1 \in DOMAIN s BY <1>2, <2>1
    <3>6. ASSUME NEW j \in 1 .. Len(y) PROVE \E i \in DOMAIN s : y[j] = s[i]
      <4> HIDE DEF y
      <4>1. CASE j = Len(x) + 1 BY <3>3, <3>5, <4>1
      <4>2. CASE j # Len(x) + 1
        <5>1. j \in 1 .. Len(x) BY <2>3, <3>3, <4>2
        <5> QED BY <3>3, <3>4, <5>1
      <4> QED BY <4>1, <4>2
    <3>7. k + 1 \in 0 .. n BY <2>1
    <3> HIDE DEF y
    <3> QED BY <3>1, <3>6, <3>7
  <2> QED BY <2>4, <2>5
<1>5. n \in P
  <2>1. n \in 0 .. n BY <1>2
  <2> HIDE DEF P, n
  <2> QED BY <1>2, <1>3, <1>4, <2>1, Ind
<1>6. strip_spaces(s) \in Seq(Symbols)
  <2>1. Len(s) \in 0 .. Len(s) BY <1>2
  <2> QED BY <1>1, <2>1
<1>7. DOMAIN strip_spaces(s) = 1 .. Len(strip_spaces(s)) BY <1>6
<1> QED BY <1>1, <1>5, <1>7

LEMMA RemoveAtIs ==
  ASSUME NEW S, NEW s \in Seq(S), NEW i \in 1 .. Len(s)
  PROVE /\ RemoveAt(s, i) \in Seq(S)
        /\ Len(RemoveAt(s, i)) = Len(s) - 1
        /\ \A j \in 1 .. Len(s) - 1 : RemoveAt(s, i)[j] = IF j < i THEN s[j] ELSE s[j + 1]
<1> DEFINE n == Len(s)
           l == SubSeq(s, 1, i - 1)
           h == SubSeq(s, i + 1, n)
<1>1. n \in Nat /\ i \in Nat /\ \A j \in 1 .. n : s[j] \in S OBVIOUS
<1>2. l \in Seq(S) /\ Len(l) = i - 1 /\ \A j \in 1 .. i - 1 : l[j] = s[j]
  <2>1. 1 \in Int /\ i - 1 \in Int /\ \A j \in 1 .. i - 1 : s[j] \in S BY <1>1
  <2>2. /\ l \in Seq(S)
        /\ Len(l) = IF 1 <= i - 1 THEN (i - 1) - 1 + 1 ELSE 0
        /\ \A j \in 1 .. (i - 1) - 1 + 1 : l[j] = s[1 + j - 1]
    BY <2>1, SubSeqProperties
  <2> QED BY <1>1, <2>2
<1>3. h \in Seq(S) /\ Len(h) = n - i /\ \A j \in 1 .. n - i : h[j] = s[j + i]
  <2>1. i + 1 \in Int /\ n \in Int /\ \A j \in i + 1 .. n : s[j] \in S BY <1>1
  <2>2. /\ h \in Seq(S)
        /\ Len(h) = IF i + 1 <= n THEN n - (i + 1) + 1 ELSE 0
        /\ \A j \in 1 .. n - (i + 1) + 1 : h[j] = s[(i + 1) + j - 1]
    BY <2>1, SubSeqProperties
  <2> QED BY <1>1, <2>2
<1> HIDE DEF l, h
<1>4. /\ l \o h \in Seq(S)
      /\ Len(l \o h) = Len(l) + Len(h)
      /\ \A j \in 1 .. Len(l) + Len(h) : (l \o h)[j] = IF j <= Len(l) THEN l[j] ELSE h[j - Len(l)]
  BY <1>2, <1>3, ConcatProperties
<1>5. Len(l) + Len(h) = n - 1 BY <1>1, <1>2, <1>3
<1>6. ASSUME NEW j \in 1 .. n - 1
      PROVE (l \o h)[j] = IF j < i THEN s[j] ELSE s[j + 1]
  <2>1. CASE j < i
    <3>1. j <= i - 1 /\ j \in 1 .. i - 1 BY <1>1, <2>1
    <3> QED BY <1>2, <1>4, <1>5, <2>1, <3>1
  <2>2. CASE ~(j < i)
    <3>1. ~(j <= i - 1) /\ j - (i - 1) \in 1 .. n - i /\ (j - (i - 1)) + i = j + 1 BY <1>1, <2>2
    <3> QED BY <1>2, <1>3, <1>4, <1>5, <2>2, <3>1
  <2> QED BY <2>1, <2>2
<1>7. RemoveAt(s, i) = l \o h BY DEF RemoveAt, l, h
<1> QED BY <1>4, <1>5, <1>6, <1>7

(* The operator that is applied: the first '*' or '/' if there is one,     *)
(* otherwise the first of all.                                             *)
FirstHigh(o, k) == High(o[k]) /\ \A j \in 1 .. k - 1 : Low(o[j])
AllLow(o, k) == k = 1 /\ \A j \in 1 .. Len(o) : Low(o[j])

LEMMA LowOrHigh == \A o \in Ops : /\ Low(o) \/ High(o)
                                  /\ ~(Low(o) /\ High(o))
                                  /\ High(o) <=> o \in {"*", "/"}
                                  /\ Low(o) <=> o \in {"+", "-"}
BY DEF Ops, Low, High

LEMMA IndexIs ==
  ASSUME ops \in Seq(Ops), NEW k \in DOMAIN ops, Index(k)
  PROVE k \in 1 .. Len(ops) /\ (FirstHigh(ops, k) \/ AllLow(ops, k))
<1>1. DOMAIN ops = 1 .. Len(ops) /\ \A j \in 1 .. Len(ops) : ops[j] \in Ops OBVIOUS
<1>2. CASE Low(ops[1]) /\ \E j \in DOMAIN ops : High(ops[j])
  <2>1. High(ops[k]) /\ \A j \in DOMAIN ops : j < k => Low(ops[j]) BY <1>2 DEF Index
  <2>2. \A j \in 1 .. k - 1 : j \in 1 .. Len(ops) /\ j < k BY <1>1
  <2> QED BY <1>1, <2>1, <2>2 DEF FirstHigh
<1>3. CASE ~(Low(ops[1]) /\ \E j \in DOMAIN ops : High(ops[j]))
  <2>1. k = 1 BY <1>3 DEF Index
  <2>2. CASE ~Low(ops[1])
    <3>1. High(ops[1]) BY <1>1, <2>1, <2>2, LowOrHigh
    <3> QED BY <1>1, <2>1, <3>1 DEF FirstHigh
  <2>3. CASE ~ \E j \in DOMAIN ops : High(ops[j])
    <3>1. \A j \in 1 .. Len(ops) : Low(ops[j]) BY <1>1, <2>3, LowOrHigh
    <3> QED BY <1>1, <2>1, <3>1 DEF AllLow
  <2> QED BY <1>3, <2>2, <2>3
<1> QED BY <1>2, <1>3

(* After '+' and '-' only, a term begins.                                  *)
LEMMA TermBegins ==
  ASSUME NEW n \in Nat, NEW a \in [0 .. n -> Reader], NEW q, NEW o,
         a[0] = Begin,
         \A j \in 1 .. n : q[j] \in Float /\ o[j] \in Ops /\ a[j] = Advance(a[j - 1], q[j], o[j]),
         NEW m \in 0 .. n, \A j \in 1 .. m : Low(o[j])
  PROVE a[m].op = None /\ a[m].error = FALSE
<1> DEFINE P == {j \in 0 .. m : a[j].op = None /\ a[j].error = FALSE}
<1>1. 0 \in P BY DEF Begin
<1>2. ASSUME NEW j \in 0 .. m - 1, j \in P PROVE j + 1 \in P
  <2>1. j + 1 \in 1 .. m /\ j + 1 \in 1 .. n /\ (j + 1) - 1 = j /\ j \in 0 .. n /\ j + 1 \in 0 .. m
    OBVIOUS
  <2> DEFINE A == a[j]
             x == q[j + 1]
             y == o[j + 1]
  <2>2. A \in Reader /\ x \in Float /\ y \in Ops /\ ~High(y) BY <2>1, LowOrHigh
  <2>3. a[j + 1] = Advance(A, x, y) BY <2>1
  <2>4. ~Fails(A, x) BY <1>2 DEF Fails, None
  <2> HIDE DEF A, x, y
  <2>5. a[j + 1].op = None /\ a[j + 1].error = FALSE BY <2>2, <2>3, <2>4, AdvanceIs
  <2> QED BY <2>1, <2>5
<1>3. m \in P
  <2>1. m \in Nat /\ m \in 0 .. m OBVIOUS
  <2> HIDE DEF P
  <2> QED BY <1>1, <1>2, <2>1, Ind
<1> QED BY <1>3

(* What the reader comes to in the end.                                    *)
Comes(q, o) == [fails |-> Fails(After(q, o), q[Len(o) + 1]),
                total |-> Summed(After(q, o), q[Len(o) + 1])]

(* Applying that operator changes nothing of what the reader comes to.     *)
LEMMA AfterReduce ==
  ASSUME NEW q \in Seq(Float), NEW o \in Seq(Ops), Len(q) = Len(o) + 1,
         NEW k \in 1 .. Len(o), FirstHigh(o, k) \/ AllLow(o, k),
         ~(o[k] = "/" /\ IsZero(q[k + 1]))
  PROVE LET r == RemoveAt([q EXCEPT ![k] = Apply(o[k], q[k], q[k + 1])], k + 1)
            w == RemoveAt(o, k)
        IN Comes(r, w) = Comes(q, o)
<1> DEFINE n == Len(o)
           v == Apply(o[k], q[k], q[k + 1])
           u == [q EXCEPT ![k] = v]
           r == RemoveAt(u, k + 1)
           w == RemoveAt(o, k)
<1>1. /\ n \in Nat \ {0} /\ k \in 1 .. n /\ k \in 1 .. Len(q) /\ k + 1 \in 1 .. Len(q)
      /\ \A j \in 1 .. n : o[j] \in Ops
      /\ \A j \in 1 .. n + 1 : q[j] \in Float
  OBVIOUS
<1>2. v \in Float BY <1>1, ApplyFloat
<1> HIDE DEF v
<1>3. u \in Seq(Float) /\ Len(u) = n + 1 /\ \A j \in 1 .. n + 1 : u[j] = IF j = k THEN v ELSE q[j]
  BY <1>1, <1>2, ExceptSeq
<1> HIDE DEF u
<1>4. r \in Seq(Float) /\ Len(r) = n /\ \A j \in 1 .. n : r[j] = IF j < k + 1 THEN u[j] ELSE u[j + 1]
  <2>1. k + 1 \in 1 .. Len(u) /\ Len(u) - 1 = n BY <1>1, <1>3
  <2> QED BY <1>3, <2>1, RemoveAtIs
<1>5. w \in Seq(Ops) /\ Len(w) = n - 1 /\ \A j \in 1 .. n - 1 : w[j] = IF j < k THEN o[j] ELSE o[j + 1]
  BY <1>1, RemoveAtIs
<1> HIDE DEF r, w
<1>6. /\ \A j \in 1 .. k - 1 : r[j] = q[j] /\ w[j] = o[j]
      /\ r[k] = v
      /\ \A j \in k + 1 .. n : r[j] = q[j + 1] /\ w[j - 1] = o[j]
  <2>1. ASSUME NEW j \in 1 .. k - 1 PROVE r[j] = q[j] /\ w[j] = o[j]
    <3>1. j \in 1 .. n /\ j \in 1 .. n + 1 /\ j < k + 1 /\ j # k /\ j < k /\ j \in 1 .. n - 1 BY <1>1
    <3> QED BY <1>3, <1>4, <1>5, <3>1
  <2>2. r[k] = v
    <3>1. k \in 1 .. n /\ k \in 1 .. n + 1 /\ k < k + 1 BY <1>1
    <3> QED BY <1>3, <1>4, <3>1
  <2>3. ASSUME NEW j \in k + 1 .. n PROVE r[j] = q[j + 1] /\ w[j - 1] = o[j]
    <3>1. /\ j \in 1 .. n /\ j + 1 \in 1 .. n + 1 /\ ~(j < k + 1) /\ j + 1 # k
          /\ j - 1 \in 1 .. n - 1 /\ ~(j - 1 < k) /\ (j - 1) + 1 = j
      BY <1>1
    <3> QED BY <1>3, <1>4, <1>5, <3>1
  <2> QED BY <2>1, <2>2, <2>3
<1>7. PICK a \in [0 .. Len(o) -> Reader] :
          /\ a[0] = Begin
          /\ \A j \in 1 .. Len(o) : a[j] = Advance(a[j - 1], q[j], o[j])
          /\ After(q, o) = a[Len(o)]
  <2>1. \A j \in 1 .. Len(o) : q[j] \in Float BY <1>1
  <2> QED BY <2>1, AfterSteps
<1>8. PICK b \in [0 .. Len(w) -> Reader] :
          /\ b[0] = Begin
          /\ \A j \in 1 .. Len(w) : b[j] = Advance(b[j - 1], r[j], w[j])
          /\ After(r, w) = b[Len(w)]
  <2>1. \A j \in 1 .. Len(w) : r[j] \in Float BY <1>1, <1>4, <1>5
  <2> QED BY <1>5, <2>1, AfterSteps
<1> DEFINE i == k - 1
           P == {j \in 0 .. i : b[j] = a[j]}
<1>9. b[i] = a[i] /\ i \in Nat /\ i \in 0 .. n - 1 /\ i \in 0 .. n
  <2>0. i \in Nat /\ i \in 0 .. i /\ i \in 0 .. n - 1 /\ i \in 0 .. n BY <1>1
  <2>1. 0 \in P BY <1>7, <1>8, <2>0
  <2>2. ASSUME NEW j \in 0 .. i - 1, j \in P PROVE j + 1 \in P
    <3>1. j + 1 \in 1 .. k - 1 /\ j + 1 \in 1 .. n /\ j + 1 \in 1 .. n - 1 /\ (j + 1) - 1 = j
          /\ j + 1 \in 0 .. i
      BY <1>1
    <3>2. a[j + 1] = Advance(a[j], q[j + 1], o[j + 1]) BY <1>7, <3>1
    <3>3. b[j + 1] = Advance(b[j], r[j + 1], w[j + 1]) BY <1>5, <1>8, <3>1
    <3> QED BY <1>6, <2>2, <3>1, <3>2, <3>3
  <2>3. i \in P
    <3> HIDE DEF P, i
    <3> QED BY <2>0, <2>1, <2>2, Ind
  <2> QED BY <2>0, <2>3
<1> DEFINE A == a[i]
           B == Advance(A, q[k], o[k])
           y == q[k + 1]
<1>10. A \in Reader /\ a[k] = B /\ q[k] \in Float /\ y \in Float /\ o[k] \in Ops
  BY <1>1, <1>7, <1>9
<1>11. /\ Fails(B, y) = Fails(A, v)
       /\ Summed(B, y) = Summed(A, v)
       /\ k < n => Advance(B, y, o[k + 1]) = Advance(A, v, o[k + 1])
  <2>1. CASE FirstHigh(o, k)
    <3>1. A.op = None /\ A.error = FALSE
      <4>1. \A j \in 1 .. i : Low(o[j]) BY <2>1 DEF FirstHigh
      <4>2. \A j \in 1 .. n : q[j] \in Float /\ o[j] \in Ops /\ a[j] = Advance(a[j - 1], q[j], o[j])
        BY <1>1, <1>7
      <4>3. n \in Nat /\ a \in [0 .. n -> Reader] /\ a[0] = Begin BY <1>1, <1>7
      <4> HIDE DEF i, n
      <4> QED BY <1>9, <4>1, <4>2, <4>3, TermBegins
    <3>2. o[k] \in {"*", "/"} BY <1>10, <2>1, LowOrHigh DEF FirstHigh
    <3>3. k < n => o[k + 1] \in Ops BY <1>1
    <3> HIDE DEF A, y
    <3>4. ~(o[k] = "/" /\ IsZero(y)) BY DEF y
    <3>5. /\ ~Fails(B, y) /\ ~Fails(A, v)
          /\ Summed(B, y) = Summed(A, v)
          /\ \A o2 \in Ops : Advance(B, y, o2) = Advance(A, v, o2)
      BY <1>10, <3>1, <3>2, <3>4, HighStep DEF v, y
    <3> HIDE DEF B
    <3>6. Fails(B, y) = Fails(A, v) BY <3>5, FailsBoolean
    <3> QED BY <3>3, <3>5, <3>6
  <2>2. CASE AllLow(o, k)
    <3>1. A = Begin
      <4>1. i = 0 BY <2>2 DEF AllLow
      <4> QED BY <1>7, <4>1
    <3>2. o[k] \in {"+", "-"} BY <1>1, <2>2, LowOrHigh DEF AllLow
    <3>3. k < n => o[k + 1] \in {"+", "-"}
      <4>1. k < n => k + 1 \in 1 .. n BY <1>1
      <4> QED BY <1>1, <2>2, <4>1, LowOrHigh DEF AllLow
    <3> HIDE DEF A, y
    <3>4. /\ ~Fails(B, y)
          /\ Summed(B, y) = v
          /\ \A o2 \in {"+", "-"} : Advance(B, y, o2) = Advance(A, v, o2)
      BY <1>10, <3>1, <3>2, LowStep DEF v, y
    <3>5. ~Fails(A, v) /\ Summed(A, v) = v BY <1>2, <3>1, BeginGrows
    <3> HIDE DEF B
    <3>6. Fails(B, y) = Fails(A, v) BY <3>4, <3>5, FailsBoolean
    <3> QED BY <3>3, <3>4, <3>5, <3>6
  <2> QED BY <2>1, <2>2
<1> HIDE DEF A, B, y
<1>12. CASE k = n
  <2>1. After(q, o) = B /\ q[Len(o) + 1] = y BY <1>7, <1>10, <1>12 DEF y
  <2>2. Len(w) = i /\ Len(w) + 1 = k BY <1>1, <1>5, <1>12
  <2>3. After(r, w) = A /\ r[Len(w) + 1] = v BY <1>6, <1>8, <1>9, <2>2 DEF A
  <2> QED BY <1>11, <2>1, <2>3 DEF Comes, r, w, u, v
<1>13. CASE k < n
  <2> DEFINE m == n - (k + 1)
             Q == {j \in 0 .. m : b[j + k] = a[j + k + 1]}
  <2>1. m \in Nat /\ m \in 0 .. m BY <1>1, <1>13
  <2>2. 0 \in Q
    <3>1. k \in 1 .. n - 1 /\ k + 1 \in k + 1 .. n /\ k + 1 \in 1 .. n /\ (k + 1) - 1 = k
      BY <1>1, <1>13
    <3>2. a[k + 1] = Advance(B, y, o[k + 1]) BY <1>7, <1>10, <3>1 DEF y
    <3>3. b[k] = Advance(A, v, w[k]) BY <1>5, <1>6, <1>8, <1>9, <3>1 DEF A
    <3>4. w[k] = o[k + 1] BY <1>6, <3>1
    <3>5. b[k] = a[k + 1] BY <1>11, <1>13, <3>2, <3>3, <3>4
    <3>6. 0 + k = k /\ 0 + k + 1 = k + 1 /\ 0 \in 0 .. m BY <2>1
    <3> QED BY <3>5, <3>6
  <2>3. ASSUME NEW j \in 0 .. m - 1, j \in Q PROVE j + 1 \in Q
    <3> DEFINE h == j + k + 1
    <3>1. /\ h \in 1 .. n - 1 /\ h + 1 \in 1 .. n /\ h + 1 \in k + 1 .. n /\ h \in k + 1 .. n
          /\ h - 1 = j + k /\ (h + 1) - 1 = h
          /\ (j + 1) + k = h /\ (j + 1) + k + 1 = h + 1 /\ j + 1 \in 0 .. m
      BY <1>1, <1>13
    <3>2. b[j + k] = a[h] BY <2>3
    <3> HIDE DEF h
    <3>3. a[h + 1] = Advance(a[h], q[h + 1], o[h + 1]) BY <1>7, <3>1
    <3>4. b[h] = Advance(b[j + k], r[h], w[h]) BY <1>5, <1>8, <3>1
    <3>5. r[h] = q[h + 1] /\ w[h] = o[h + 1] BY <1>6, <3>1
    <3>6. b[h] = a[h + 1] BY <3>2, <3>3, <3>4, <3>5
    <3> QED BY <3>1, <3>6
  <2>4. m \in Q
    <3> HIDE DEF Q, m
    <3> QED BY <2>1, <2>2, <2>3, Ind
  <2>5. m + k = n - 1 /\ m + k + 1 = n /\ n \in k + 1 .. n BY <1>1, <1>13
  <2>6. b[n - 1] = a[n] BY <2>4, <2>5
  <2>7. After(r, w) = After(q, o) BY <1>5, <1>7, <1>8, <2>6
  <2>8. r[Len(w) + 1] = q[Len(o) + 1]
    <3>1. Len(w) + 1 = n BY <1>1, <1>5
    <3> HIDE DEF n
    <3>2. r[n] = q[n + 1] BY <1>6, <2>5
    <3> QED BY <3>1, <3>2 DEF n
  <2> QED BY <2>7, <2>8 DEF Comes, r, w, u, v
<1> QED BY <1>1, <1>12, <1>13

(* A division by zero that would be applied next breaks the expression.    *)
LEMMA DivisionBreaks ==
  ASSUME NEW q \in Seq(Float), NEW o \in Seq(Ops), Len(q) = Len(o) + 1,
         NEW k \in 1 .. Len(o), FirstHigh(o, k) \/ AllLow(o, k),
         o[k] = "/", IsZero(q[k + 1])
  PROVE Comes(q, o).fails
<1> DEFINE n == Len(o)
<1>1. /\ n \in Nat \ {0} /\ k \in 1 .. n
      /\ \A j \in 1 .. n : o[j] \in Ops
      /\ \A j \in 1 .. n + 1 : q[j] \in Float
  OBVIOUS
<1>2. PICK a \in [0 .. Len(o) -> Reader] :
          /\ a[0] = Begin
          /\ \A j \in 1 .. Len(o) : a[j] = Advance(a[j - 1], q[j], o[j])
          /\ After(q, o) = a[Len(o)]
  <2>1. \A j \in 1 .. Len(o) : q[j] \in Float BY <1>1
  <2> QED BY <2>1, AfterSteps
<1>3. FirstHigh(o, k)
  <2>1. High(o[k]) /\ ~Low(o[k]) BY DEF High, Low
  <2> QED BY <1>1, <2>1 DEF AllLow
<1> DEFINE i == k - 1
           A == a[i]
<1>4. A.op = None /\ A.error = FALSE
  <2>1. \A j \in 1 .. i : Low(o[j]) BY <1>3 DEF FirstHigh
  <2>2. \A j \in 1 .. n : q[j] \in Float /\ o[j] \in Ops /\ a[j] = Advance(a[j - 1], q[j], o[j])
    BY <1>1, <1>2
  <2>3. n \in Nat /\ a \in [0 .. n -> Reader] /\ a[0] = Begin /\ i \in 0 .. n BY <1>1, <1>2
  <2> HIDE DEF i, n
  <2> QED BY <2>1, <2>2, <2>3, TermBegins
<1>5. A \in Reader /\ a[k] = Advance(A, q[k], o[k]) /\ q[k] \in Float /\ o[k] \in Ops
  <2>1. i \in 0 .. n BY <1>1
  <2> QED BY <1>1, <1>2, <2>1
<1> HIDE DEF A
<1>6. ~Fails(A, q[k]) BY <1>4 DEF Fails, None
<1>7. High(o[k]) BY <1>3 DEF FirstHigh
<1>8. a[k] = [sum |-> A.sum, sumOp |-> A.sumOp, term |-> Grown(A, q[k]), op |-> o[k], error |-> FALSE]
  BY <1>5, <1>6, <1>7, AdvanceIs
<1>9. Fails(a[k], q[k + 1]) BY <1>8 DEF Fails
<1>10. CASE k = n BY <1>2, <1>9, <1>10 DEF Comes
<1>11. CASE k < n
  <2> DEFINE m == n - (k + 1)
             Q == {j \in 0 .. m : a[j + k + 1].error = TRUE}
  <2>1. m \in Nat /\ m \in 0 .. m BY <1>1, <1>11
  <2>2. 0 \in Q
    <3>1. k + 1 \in 1 .. n /\ (k + 1) - 1 = k /\ k \in 0 .. n /\ 0 + k + 1 = k + 1 /\ 0 \in 0 .. m
      BY <1>1, <1>11
    <3>2. a[k + 1] = Advance(a[k], q[k + 1], o[k + 1]) BY <1>2, <3>1
    <3>3. a[k] \in Reader BY <1>2, <3>1
    <3>4. a[k + 1].error = TRUE BY <1>9, <3>2, <3>3, AdvanceFails
    <3> QED BY <3>1, <3>4
  <2>3. ASSUME NEW j \in 0 .. m - 1, j \in Q PROVE j + 1 \in Q
    <3> DEFINE h == j + k + 1
    <3>1. /\ h + 1 \in 1 .. n /\ (h + 1) - 1 = h /\ h \in 0 .. n
          /\ (j + 1) + k + 1 = h + 1 /\ j + 1 \in 0 .. m
      BY <1>1, <1>11
    <3>2. a[h].error = TRUE BY <2>3
    <3> HIDE DEF h
    <3>3. a[h + 1] = Advance(a[h], q[h + 1], o[h + 1]) BY <1>2, <3>1
    <3>4. a[h] \in Reader BY <1>2, <3>1
    <3>5. Fails(a[h], q[h + 1]) BY <3>2 DEF Fails
    <3>6. a[h + 1].error = TRUE BY <3>3, <3>4, <3>5, AdvanceFails
    <3> QED BY <3>1, <3>6
  <2>4. m \in Q
    <3> HIDE DEF Q, m
    <3> QED BY <2>1, <2>2, <2>3, Ind
  <2>5. m + k + 1 = n BY <1>1, <1>11
  <2>6. a[n].error = TRUE BY <2>4, <2>5
  <2> QED BY <1>2, <2>6 DEF Comes, Fails
<1> QED BY <1>1, <1>10, <1>11

(* What is stored is of its type.                                          *)
LEMMA ConvertedType ==
  ASSUME NEW text, NEW q \in Float
  PROVE Converted(text, q) \in Data
<1> DEFINE n == ToInt(q)
<1>1. n \in Int BY ToIntType
<1>2. Converted(text, q) \in {[type |-> "FLOAT", data |-> q], [type |-> "INT", data |-> n]}
  BY DEF Converted
<1> HIDE DEF n
<1> QED BY <1>1, <1>2 DEF Data

(* The list of variables.                                                  *)
Cell == [name : Seq(Char), value : Data]

LEMMA FoundIs ==
  ASSUME variables \in Seq(Cell), NEW n
  PROVE \/ Found(n) = {} /\ \A k \in DOMAIN variables : variables[k].name # n
        \/ \E k \in DOMAIN variables : /\ Found(n) # {} /\ (CHOOSE j \in Found(n) : TRUE) = k
                                       /\ variables[k].name = n
<1>1. DOMAIN variables = 1 .. Len(variables) OBVIOUS
<1>2. Indices(n) \subseteq Nat BY <1>1 DEF Indices
<1>3. CASE Indices(n) = {}
  <2>1. Found(n) = {} BY <1>3 DEF Found
  <2>2. \A k \in DOMAIN variables : variables[k].name # n BY <1>3 DEF Indices
  <2> QED BY <2>1, <2>2
<1>4. CASE Indices(n) # {}
  <2>1. \E k \in Indices(n) : \A j \in Indices(n) : k <= j BY <1>2, <1>4, Least
  <2>2. Found(n) # {} BY <2>1 DEF Found
  <2> DEFINE k == CHOOSE j \in Found(n) : TRUE
  <2>3. k \in Found(n) BY <2>2
  <2>4. k \in DOMAIN variables /\ variables[k].name = n BY <2>3 DEF Found, Indices
  <2> QED BY <2>2, <2>4
<1> QED BY <1>3, <1>4

(* Storing leaves the name with the new value, once, and of the others     *)
(* those that were in front of it.                                         *)
LEMMA PushedIs ==
  ASSUME variables \in Seq(Cell), NamesOnce, NEW n \in Seq(Char), NEW v \in Data
  PROVE LET list == Pushed(n, v)
        IN /\ list \in Seq(Cell)
           /\ \A j, k \in DOMAIN list : list[j].name = list[k].name => j = k
           /\ \A j \in DOMAIN list :
                \/ list[j].name = n /\ list[j].value = v
                \/ list[j].name # n /\ \E i \in DOMAIN variables : list[j] = variables[i]
           /\ n \in NamesOf(list) /\ NamesOf(list) \subseteq Names \cup {n}
<1> DEFINE list == Pushed(n, v)
           cell == [name |-> n, value |-> v]
           L == Len(variables)
<1>1. DOMAIN variables = 1 .. L /\ L \in Nat /\ \A k \in 1 .. L : variables[k] \in Cell OBVIOUS
<1>2. cell \in Cell /\ cell.name = n /\ cell.value = v BY DEF Cell
<1> HIDE DEF cell
<1>3. CASE Found(n) = {}
  <2>1. \A k \in 1 .. L : variables[k].name # n BY <1>1, <1>3, FoundIs
  <2>2. list = <<cell>> \o variables BY <1>3 DEF Pushed, cell
  <2>3. <<cell>> \in Seq(Cell) /\ Len(<<cell>>) = 1 /\ <<cell>>[1] = cell BY <1>2, Single
  <2>4. /\ list \in Seq(Cell) /\ Len(list) = 1 + L
        /\ \A k \in 1 .. 1 + L : list[k] = IF k <= 1 THEN <<cell>>[k] ELSE variables[k - 1]
    BY <2>2, <2>3, ConcatProperties
  <2> HIDE DEF list
  <2>5. list[1] = cell /\ \A k \in 2 .. 1 + L : list[k] = variables[k - 1] /\ k - 1 \in 1 .. L
    <3>1. 1 \in 1 .. 1 + L /\ 1 <= 1 BY <1>1
    <3>2. list[1] = cell BY <2>3, <2>4, <3>1
    <3>3. ASSUME NEW k \in 2 .. 1 + L PROVE list[k] = variables[k - 1] /\ k - 1 \in 1 .. L
      <4>1. k \in 1 .. 1 + L /\ ~(k <= 1) /\ k - 1 \in 1 .. L BY <1>1
      <4> QED BY <2>4, <4>1
    <3> QED BY <3>2, <3>3
  <2>6. DOMAIN list = 1 .. 1 + L /\ \A k \in 1 .. 1 + L : k = 1 \/ k \in 2 .. 1 + L BY <1>1, <2>4
  <2>7. ASSUME NEW j \in DOMAIN list, NEW k \in DOMAIN list, list[j].name = list[k].name PROVE j = k
    <3>1. j = 1 \/ j \in 2 .. 1 + L BY <2>6
    <3>2. k = 1 \/ k \in 2 .. 1 + L BY <2>6
    <3>3. CASE j = 1
      <4>1. k \notin 2 .. 1 + L BY <1>2, <2>1, <2>5, <2>7, <3>3
      <4> QED BY <3>2, <3>3, <4>1
    <3>4. CASE j \in 2 .. 1 + L
      <4>1. k # 1 BY <1>2, <2>1, <2>5, <2>7, <3>4
      <4>2. k \in 2 .. 1 + L BY <3>2, <4>1
      <4>3. variables[j - 1].name = variables[k - 1].name /\ j - 1 \in 1 .. L /\ k - 1 \in 1 .. L
        BY <2>5, <2>7, <3>4, <4>2
      <4>4. j - 1 = k - 1 BY <1>1, <4>3 DEF NamesOnce
      <4> QED BY <1>1, <3>4, <4>2, <4>4
    <3> QED BY <3>1, <3>3, <3>4
  <2>8. ASSUME NEW j \in DOMAIN list
        PROVE \/ list[j].name = n /\ list[j].value = v
              \/ list[j].name # n /\ \E i \in DOMAIN variables : list[j] = variables[i]
    <3>1. CASE j = 1 BY <1>2, <2>5, <3>1
    <3>2. CASE j \in 2 .. 1 + L BY <1>1, <2>1, <2>5, <3>2
    <3> QED BY <2>6, <3>1, <3>2
  <2>9. n \in NamesOf(list)
    <3>1. 1 \in DOMAIN list BY <1>1, <2>6
    <3> QED BY <1>2, <2>5, <3>1 DEF NamesOf
  <2>10. NamesOf(list) \subseteq Names \cup {n} BY <2>8 DEF NamesOf, Names
  <2> QED BY <2>4, <2>7, <2>8, <2>9, <2>10 DEF list
<1>4. CASE Found(n) # {}
  <2> DEFINE f == CHOOSE j \in Found(n) : TRUE
  <2>1. f \in 1 .. L /\ variables[f].name = n BY <1>1, <1>4, FoundIs
  <2>2. list = [j \in 1 .. f |-> IF j = f THEN cell ELSE variables[j]] BY <1>4 DEF Pushed, cell
  <2> HIDE DEF f, list
  <2>3. f \in Nat /\ \A j \in 1 .. f : j \in 1 .. L BY <1>1, <2>1
  <2>4. list \in Seq(Cell)
    <3>1. list \in [1 .. f -> Cell] BY <1>1, <1>2, <2>2, <2>3
    <3> QED BY <2>3, <3>1
  <2>5. DOMAIN list = 1 .. f /\ \A j \in 1 .. f : list[j] = IF j = f THEN cell ELSE variables[j]
    BY <2>2
  <2>6. \A j \in 1 .. f : list[j].name = variables[j].name BY <1>2, <2>1, <2>5
  <2>7. \A j, k \in DOMAIN list : list[j].name = list[k].name => j = k
    BY <1>1, <2>3, <2>5, <2>6 DEF NamesOnce
  <2>8. ASSUME NEW j \in DOMAIN list
        PROVE \/ list[j].name = n /\ list[j].value = v
              \/ list[j].name # n /\ \E i \in DOMAIN variables : list[j] = variables[i]
    <3>1. CASE j = f BY <1>2, <2>5, <3>1
    <3>2. CASE j # f
      <4>1. list[j] = variables[j] /\ j \in 1 .. L BY <2>3, <2>5, <3>2
      <4>2. variables[j].name # n BY <1>1, <2>1, <3>2, <4>1 DEF NamesOnce
      <4> QED BY <1>1, <4>1, <4>2
    <3> QED BY <3>1, <3>2
  <2>9. n \in NamesOf(list)
    <3>1. f \in 1 .. f BY <2>1
    <3> QED BY <1>2, <2>5, <3>1 DEF NamesOf
  <2>10. NamesOf(list) \subseteq Names \cup {n} BY <2>8 DEF NamesOf, Names
  <2> QED BY <2>4, <2>7, <2>8, <2>9, <2>10 DEF list
<1> QED BY <1>3, <1>4

(* The text of an expression is made of what can be read.                  *)
LEMMA ExpTyped == \A s \in Seq(Char) : is_exp(s) => s \in Seq(Typed)
<1> SUFFICES ASSUME NEW s \in Seq(Char), is_exp(s) PROVE s \in Seq(Typed)
  OBVIOUS
<1>1. ASSUME NEW k \in 1 .. Len(s) PROVE s[k] \in Typed
  <2>2. k \in DOMAIN s OBVIOUS
  <2>1. isop(s[k]) \/ isdigit(s[k]) \/ s[k] = " " BY <2>2, Zenon DEF is_exp
  <2> QED BY <2>1 DEF isop, isdigit, Typed, Symbols
<1>2. s = [k \in 1 .. Len(s) |-> s[k]] OBVIOUS
<1> QED BY <1>1, <1>2

LEMMA SymbolIs == \A c \in Symbols : isop(c) <=> ~isdigit(c)
BY DEF Symbols, isop, isdigit, Digits, Ops

LEMMA StripType == \A s \in Seq(Typed) : strip_spaces(s) \in Seq(Symbols)
<1> TAKE s \in Seq(Typed)
<1>1. PICK a \in [0 .. Len(s) -> Seq(Symbols)] : strip_spaces(s) = a[Len(s)] BY KeepSteps
<1>2. Len(s) \in 0 .. Len(s) OBVIOUS
<1> QED BY <1>1, <1>2

LEMMA AtoiFloat == \A s \in Seq(Digits) : FromInt(atoi(s)) \in Float /\ FromInt(atoi(s)).e >= 0
BY AtoiType, FromIntType

(* What an evaluation keeps, of which its steps and Start are to be shown. *)
Calculates == InStep /\ ValueKept

LEMMA StartCalculates ==
  ASSUME Calculates, NEW s \in Seq(Char), is_exp(s), Start(s)
  PROVE Calculates' /\ pc' = "parse" /\ given' = s
<1>1. s \in Seq(Typed) BY ExpTyped
<1>2. strip_spaces(s) \in Seq(Symbols) BY <1>1, StripType
<1>3. p = <<>> /\ nums = <<>> /\ ops = <<>> /\ count = 0 BY DEF Calculates, InStep, Start
<1>4. InStep' BY <1>2, <1>3 DEF Calculates, InStep, Start, Symbols
<1>5. After(nums', ops') = Begin BY <1>3, AfterNone DEF Start
<1>6. FoldLeft(Scan, [at |-> After(nums', ops'), num |-> p'], exp') = Scanned(given')
  BY <1>3, <1>5 DEF Start, Scanned
<1>7. ASSUME ~IsFloat(given')
      PROVE /\ \A k \in DOMAIN nums' : nums'[k].e >= 0
            /\ \A k \in DOMAIN ops' : ops'[k] # "/"
            /\ \A k \in DOMAIN exp' : exp'[k] # "/"
  <2>1. nums' = <<>> /\ ops' = <<>> BY <1>3 DEF Start
  <2>2. \A k \in DOMAIN s : s[k] # "/" BY <1>7 DEF IsFloat, Start
  <2>3. \A k \in DOMAIN strip_spaces(s) : strip_spaces(s)[k] # "/" BY <1>1, <2>2, StripKeeps
  <2> QED BY <2>1, <2>3 DEF Start
<1>8. pc' = "parse" BY DEF Start
<1>9. ValueKept' BY <1>6, <1>7, <1>8 DEF ValueKept, SoFar
<1> QED BY <1>4, <1>8, <1>9 DEF Calculates, Start

LEMMA ParseCalculates ==
  ASSUME Calculates, Parse
  PROVE Calculates'
<1>1. /\ exp \in Seq(Symbols) /\ exp # <<>> /\ p \in Seq(Digits)
      /\ nums \in Seq(Float) /\ ops \in Seq(Ops)
      /\ Len(nums) = count /\ Len(ops) = count /\ count \in Nat
      /\ pc = "parse" /\ pc' = "parse" /\ given' = given /\ exp' = Tail(exp)
  BY DEF Calculates, InStep, Parse, Symbols
<1> DEFINE c == Head(exp)
           x == FromInt(atoi(p))
           s0 == [at |-> SoFar, num |-> p]
<1>2. c \in Symbols /\ Tail(exp) \in Seq(Symbols) BY <1>1, HeadTailProperties
<1>3. x \in Float BY <1>1, AtoiFloat
<1>4. SoFar \in Reader
  <2>1. \A k \in 1 .. Len(ops) : nums[k] \in Float BY <1>1
  <2>2. PICK a \in [0 .. Len(ops) -> Reader] : After(nums, ops) = a[Len(ops)] BY <1>1, <2>1, AfterSteps
  <2>3. Len(ops) \in 0 .. Len(ops) BY <1>1
  <2> QED BY <2>2, <2>3 DEF SoFar
<1>5. s0 \in Scanner BY <1>1, <1>4 DEF Scanner
<1> HIDE DEF s0
<1>6. FoldLeft(Scan, Scan(s0, c), exp') = Scanned(given')
  <2>1. FoldLeft(Scan, s0, exp) = Scanned(given) BY <1>1 DEF Calculates, ValueKept, s0
  <2> QED BY <1>1, <1>5, <2>1, ScanHead
<1>7. ASSUME ~IsFloat(given)
      PROVE /\ \A k \in DOMAIN nums : nums[k].e >= 0
            /\ \A k \in DOMAIN ops : ops[k] # "/"
            /\ \A k \in DOMAIN exp' : exp'[k] # "/"
            /\ c # "/"
  <2>1. \A k \in DOMAIN exp : exp[k] # "/" BY <1>7 DEF Calculates, ValueKept
  <2>2. \A k \in 1 .. Len(Tail(exp)) : Tail(exp)[k] = exp[k + 1] /\ k + 1 \in DOMAIN exp
    BY <1>1, HeadTailProperties
  <2>3. c = exp[1] /\ 1 \in DOMAIN exp BY <1>1
  <2> QED BY <1>1, <1>2, <1>7, <2>1, <2>2, <2>3 DEF Calculates, ValueKept
<1>8. CASE isop(c)
  <2>1. /\ ops' = Append(ops, c) /\ nums' = Append(nums, x)
        /\ count' = count + 1 /\ p' = <<>>
    BY <1>8 DEF Parse
  <2>2. c \in Ops /\ ~isdigit(c) BY <1>2, <1>8, SymbolIs DEF isop
  <2> HIDE DEF c, x
  <2>3. /\ ops' \in Seq(Ops) /\ Len(ops') = count + 1 /\ ops'[count + 1] = c
        /\ \A k \in 1 .. count : ops'[k] = ops[k]
    BY <1>1, <2>1, <2>2, AppendProperties
  <2>4. /\ nums' \in Seq(Float) /\ Len(nums') = count + 1 /\ nums'[count + 1] = x
        /\ \A k \in 1 .. count : nums'[k] = nums[k]
    BY <1>1, <1>3, <2>1, AppendProperties
  <2>5. After(nums', ops') = Advance(SoFar, x, c)
    BY <1>1, <1>3, <2>1, <2>2, AfterAppend DEF SoFar
  <2>6. Scan(s0, c) = [at |-> After(nums', ops'), num |-> p']
    BY <2>1, <2>2, <2>5 DEF Scan, s0, x
  <2>7. FoldLeft(Scan, [at |-> After(nums', ops'), num |-> p'], exp') = Scanned(given')
    BY <1>6, <2>6
  <2>8. ASSUME ~IsFloat(given')
        PROVE /\ \A k \in DOMAIN nums' : nums'[k].e >= 0
              /\ \A k \in DOMAIN ops' : ops'[k] # "/"
              /\ \A k \in DOMAIN exp' : exp'[k] # "/"
    <3>1. ~IsFloat(given) BY <1>1, <2>8
    <3>2. x.e >= 0 BY <1>1, AtoiFloat DEF x
    <3>3. \A k \in 1 .. count + 1 : k \in 1 .. count \/ k = count + 1 BY <1>1
    <3>4. DOMAIN nums = 1 .. count /\ DOMAIN nums' = 1 .. count + 1
          /\ DOMAIN ops = 1 .. count /\ DOMAIN ops' = 1 .. count + 1
      BY <1>1, <2>3, <2>4
    <3> QED BY <1>7, <2>3, <2>4, <3>1, <3>2, <3>3, <3>4
  <2>9. InStep'
    <3>1. <<>> \in Seq(Digits) OBVIOUS
    <3> QED BY <1>1, <1>2, <2>1, <2>3, <2>4, <3>1 DEF InStep, Symbols
  <2>10. ValueKept' BY <1>1, <2>7, <2>8 DEF ValueKept, SoFar
  <2> QED BY <2>9, <2>10 DEF Calculates
<1>9. CASE ~isop(c)
  <2>1. p' = Append(p, c) /\ ops' = ops /\ nums' = nums /\ count' = count
    BY <1>9 DEF Parse
  <2>2. isdigit(c) BY <1>2, <1>9, SymbolIs
  <2> HIDE DEF c, x
  <2>3. p' \in Seq(Digits) BY <1>1, <2>1, <2>2, AppendProperties DEF isdigit
  <2>4. Scan(s0, c) = [at |-> After(nums', ops'), num |-> p']
    BY <2>1, <2>2 DEF Scan, s0, SoFar
  <2>5. FoldLeft(Scan, [at |-> After(nums', ops'), num |-> p'], exp') = Scanned(given')
    BY <1>6, <2>4
  <2>6. InStep' BY <1>1, <1>2, <2>1, <2>3 DEF InStep, Symbols
  <2>7. ValueKept' BY <1>1, <1>7, <2>1, <2>5 DEF ValueKept, SoFar
  <2> QED BY <2>6, <2>7 DEF Calculates
<1> QED BY <1>8, <1>9

LEMMA ParseEndCalculates ==
  ASSUME Calculates, ParseEnd
  PROVE Calculates'
<1>1. /\ exp = <<>> /\ p \in Seq(Digits)
      /\ nums \in Seq(Float) /\ ops \in Seq(Ops)
      /\ Len(nums) = count /\ Len(ops) = count /\ count \in Nat
      /\ pc = "parse" /\ pc' = "reduce" /\ given' = given /\ exp' = exp
      /\ p' = p /\ ops' = ops /\ count' = count + 1
  BY DEF Calculates, InStep, ParseEnd
<1> DEFINE x == FromInt(atoi(p))
           s0 == [at |-> SoFar, num |-> p]
<1>2. nums' = Append(nums, x) BY DEF ParseEnd
<1>3. x \in Float BY <1>1, AtoiFloat
<1>4. SoFar \in Reader
  <2>1. \A k \in 1 .. Len(ops) : nums[k] \in Float BY <1>1
  <2>2. PICK a \in [0 .. Len(ops) -> Reader] : After(nums, ops) = a[Len(ops)] BY <1>1, <2>1, AfterSteps
  <2>3. Len(ops) \in 0 .. Len(ops) BY <1>1
  <2> QED BY <2>2, <2>3 DEF SoFar
<1>5. s0 \in Scanner BY <1>1, <1>4 DEF Scanner
<1>6. Scanned(given) = s0
  <2>1. FoldLeft(Scan, s0, exp) = Scanned(given) BY <1>1 DEF Calculates, ValueKept
  <2> HIDE DEF s0
  <2> QED BY <1>1, <1>5, <2>1, ScanNone
<1>7. /\ Broken(Scanned(given)) = Fails(SoFar, x)
      /\ ~Broken(Scanned(given)) => Total(Scanned(given)) = Summed(SoFar, x)
  BY <1>6 DEF Broken, Total
<1> HIDE DEF x
<1>8. /\ nums' \in Seq(Float) /\ Len(nums') = count + 1 /\ nums'[count + 1] = x
      /\ \A k \in 1 .. count : nums'[k] = nums[k]
  BY <1>1, <1>2, <1>3, AppendProperties
<1>9. After(nums', ops') = SoFar
  <2>1. \A k \in 1 .. Len(ops) : nums[k] \in Float /\ nums'[k] = nums[k] BY <1>1, <1>8
  <2>2. After(nums', ops) = After(nums, ops) BY <1>1, <2>1, AfterSame
  <2> QED BY <1>1, <2>2 DEF SoFar
<1>10. nums'[Len(ops') + 1] = x BY <1>1, <1>8
<1>11. ASSUME ~IsFloat(given')
       PROVE /\ \A k \in DOMAIN nums' : nums'[k].e >= 0
             /\ \A k \in DOMAIN ops' : ops'[k] # "/"
             /\ \A k \in DOMAIN exp' : exp'[k] # "/"
  <2>1. ~IsFloat(given) BY <1>1, <1>11
  <2>2. x.e >= 0 BY <1>1, AtoiFloat DEF x
  <2>3. \A k \in 1 .. count + 1 : k \in 1 .. count \/ k = count + 1 BY <1>1
  <2>4. DOMAIN nums = 1 .. count /\ DOMAIN nums' = 1 .. count + 1 BY <1>1, <1>8
  <2>5. /\ \A k \in DOMAIN nums : nums[k].e >= 0
        /\ \A k \in DOMAIN ops : ops[k] # "/"
        /\ \A k \in DOMAIN exp : exp[k] # "/"
    BY <2>1 DEF Calculates, ValueKept
  <2> QED BY <1>1, <1>8, <2>2, <2>3, <2>4, <2>5
<1>12. InStep' BY <1>1, <1>8 DEF Calculates, InStep
<1>13. ValueKept' BY <1>1, <1>7, <1>9, <1>10, <1>11 DEF ValueKept, SoFar, LastNumber
<1> QED BY <1>12, <1>13 DEF Calculates

LEMMA ReduceCalculates ==
  ASSUME Calculates, Reduce
  PROVE Calculates'
<1>1. /\ nums \in Seq(Float) /\ ops \in Seq(Ops)
      /\ Len(nums) = count /\ Len(ops) = count - 1 /\ count \in Nat /\ count > 1
      /\ pc = "reduce" /\ pc' = "reduce" /\ given' = given /\ exp' = exp
      /\ p' = p /\ count' = count - 1
  BY DEF Calculates, InStep, Reduce, Left
<1>2. PICK k \in DOMAIN ops :
       /\ Index(k)
       /\ ~(ops[k] = "/" /\ IsZero(nums[k + 1]))
       /\ nums' = RemoveAt([nums EXCEPT ![k] = Apply(ops[k], nums[k], nums[k + 1])], k + 1)
       /\ ops' = RemoveAt(ops, k)
  BY DEF Reduce, Shifted
<1>3. k \in 1 .. Len(ops) /\ (FirstHigh(ops, k) \/ AllLow(ops, k)) BY <1>1, <1>2, IndexIs
<1>4. Len(nums) = Len(ops) + 1 BY <1>1
<1>5. Comes(nums', ops') = Comes(nums, ops) BY <1>1, <1>2, <1>3, <1>4, AfterReduce
<1> DEFINE v == Apply(ops[k], nums[k], nums[k + 1])
           u == [nums EXCEPT ![k] = v]
<1>6. k \in 1 .. count /\ k + 1 \in 1 .. count /\ ops[k] \in Ops /\ nums[k] \in Float /\ nums[k + 1] \in Float
  BY <1>1, <1>3
<1>7. v \in Float BY <1>2, <1>6, ApplyFloat
<1>8. ~IsFloat(given) => v.e >= 0
  <2> SUFFICES ASSUME ~IsFloat(given) PROVE v.e >= 0 OBVIOUS
  <2>1. nums[k].e >= 0 /\ nums[k + 1].e >= 0 /\ ops[k] # "/"
    BY <1>1, <1>2, <1>6 DEF Calculates, ValueKept
  <2> QED BY <1>6, <2>1, ApplyFloat
<1> HIDE DEF v
<1>9. u \in Seq(Float) /\ Len(u) = count /\ \A j \in 1 .. count : u[j] = IF j = k THEN v ELSE nums[j]
  BY <1>1, <1>6, <1>7, ExceptSeq
<1> HIDE DEF u
<1>10. /\ nums' \in Seq(Float) /\ Len(nums') = count - 1
       /\ \A j \in 1 .. count - 1 : nums'[j] = IF j < k + 1 THEN u[j] ELSE u[j + 1]
  <2>1. nums' = RemoveAt(u, k + 1) BY <1>2 DEF u, v
  <2> QED BY <1>6, <1>9, <2>1, RemoveAtIs
<1>11. /\ ops' \in Seq(Ops) /\ Len(ops') = count - 2
       /\ \A j \in 1 .. count - 2 : ops'[j] = IF j < k THEN ops[j] ELSE ops[j + 1]
  <2>1. Len(ops) - 1 = count - 2 BY <1>1
  <2>2. /\ ops' \in Seq(Ops) /\ Len(ops') = Len(ops) - 1
        /\ \A j \in 1 .. Len(ops) - 1 : ops'[j] = IF j < k THEN ops[j] ELSE ops[j + 1]
    <3>1. ops \in Seq(Ops) /\ k \in 1 .. Len(ops) /\ ops' = RemoveAt(ops, k) BY <1>1, <1>2, <1>3
    <3>2. /\ RemoveAt(ops, k) \in Seq(Ops) /\ Len(RemoveAt(ops, k)) = Len(ops) - 1
          /\ \A j \in 1 .. Len(ops) - 1 : RemoveAt(ops, k)[j] = IF j < k THEN ops[j] ELSE ops[j + 1]
      BY <3>1, RemoveAtIs, Zenon
    <3> QED BY <3>1, <3>2, Zenon
  <2> QED BY <2>1, <2>2
<1>12. ASSUME ~IsFloat(given')
       PROVE /\ \A j \in DOMAIN nums' : nums'[j].e >= 0
             /\ \A j \in DOMAIN ops' : ops'[j] # "/"
             /\ \A j \in DOMAIN exp' : exp'[j] # "/"
  <2>1. ~IsFloat(given) BY <1>1, <1>12
  <2>2. /\ \A j \in 1 .. count : nums[j].e >= 0
        /\ \A j \in 1 .. count - 1 : ops[j] # "/"
        /\ \A j \in DOMAIN exp : exp[j] # "/"
    BY <1>1, <2>1 DEF Calculates, ValueKept
  <2>3. \A j \in 1 .. count : u[j].e >= 0 BY <1>8, <1>9, <2>1, <2>2
  <2>4. \A j \in 1 .. count - 1 : j \in 1 .. count /\ j + 1 \in 1 .. count BY <1>1
  <2>5. \A j \in 1 .. count - 2 : j \in 1 .. count - 1 /\ j + 1 \in 1 .. count - 1 BY <1>1
  <2>6. DOMAIN nums' = 1 .. count - 1 /\ DOMAIN ops' = 1 .. count - 2 BY <1>10, <1>11
  <2>7. ASSUME NEW j \in DOMAIN nums' PROVE nums'[j].e >= 0 BY <1>10, <2>3, <2>4, <2>6
  <2>8. ASSUME NEW j \in DOMAIN ops' PROVE ops'[j] # "/" BY <1>11, <2>2, <2>5, <2>6
  <2> QED BY <1>1, <2>2, <2>7, <2>8
<1>13. InStep' BY <1>1, <1>10, <1>11 DEF Calculates, InStep
<1>14. /\ Fails(After(nums', ops'), nums'[Len(ops') + 1]) = Fails(SoFar, LastNumber)
       /\ Summed(After(nums', ops'), nums'[Len(ops') + 1]) = Summed(SoFar, LastNumber)
  BY <1>5 DEF Comes, SoFar, LastNumber
<1>15. /\ Fails(SoFar, LastNumber) = Broken(Scanned(given))
       /\ ~Broken(Scanned(given)) => Summed(SoFar, LastNumber) = Total(Scanned(given))
  BY <1>1 DEF Calculates, ValueKept
<1>16. ValueKept' BY <1>1, <1>12, <1>14, <1>15 DEF ValueKept, SoFar, LastNumber
<1> QED BY <1>13, <1>16 DEF Calculates

LEMMA DivideByZeroCalculates ==
  ASSUME Calculates, DivideByZero
  PROVE Calculates'
<1>1. /\ nums \in Seq(Float) /\ ops \in Seq(Ops)
      /\ Len(nums) = count /\ Len(ops) = count - 1 /\ count \in Nat /\ count > 1
      /\ pc = "reduce" /\ pc' = "error" /\ given' = given /\ exp' = exp
      /\ p' = p /\ count' = count /\ nums' = <<Zero>> /\ ops' = <<>>
  BY DEF Calculates, InStep, DivideByZero
<1>2. PICK k \in DOMAIN ops : Index(k) /\ ops[k] = "/" /\ IsZero(nums[k + 1])
  BY DEF DivideByZero
<1>3. k \in 1 .. Len(ops) /\ (FirstHigh(ops, k) \/ AllLow(ops, k)) BY <1>1, <1>2, IndexIs
<1>4. Len(nums) = Len(ops) + 1 BY <1>1
<1>5. Comes(nums, ops).fails BY <1>1, <1>2, <1>3, <1>4, DivisionBreaks
<1>6. Broken(Scanned(given)) BY <1>1, <1>5 DEF Calculates, ValueKept, Comes, SoFar, LastNumber
<1>7. Zero \in Float BY ZeroType
<1>8. nums' \in Seq(Float) /\ Len(nums') = 1 /\ nums'[1] = Zero /\ DOMAIN nums' = 1 .. 1
  <2> DEFINE w == Zero
  <2>1. nums' = <<w>> BY <1>1
  <2> HIDE DEF w
  <2> QED BY <1>7, <2>1 DEF w
<1>9. InStep' BY <1>1, <1>8 DEF Calculates, InStep
<1>10. ASSUME ~IsFloat(given')
       PROVE /\ \A j \in DOMAIN nums' : nums'[j].e >= 0
             /\ \A j \in DOMAIN ops' : ops'[j] # "/"
             /\ \A j \in DOMAIN exp' : exp'[j] # "/"
  <2>1. \A j \in DOMAIN exp : exp[j] # "/" BY <1>1, <1>10 DEF Calculates, ValueKept
  <2>2. Zero.e >= 0 BY ZeroType
  <2>3. \A j \in DOMAIN nums' : nums'[j].e >= 0 BY <1>8, <2>2
  <2> QED BY <1>1, <2>1, <2>3
<1>11. ValueKept' BY <1>1, <1>6, <1>10 DEF ValueKept
<1> QED BY <1>9, <1>11 DEF Calculates

LEMMA FinishCalculates ==
  ASSUME Calculates, Finish
  PROVE Calculates'
<1>1. /\ pc = "reduce" /\ count = 1 /\ count' = 0 /\ pc' = "done"
      /\ given' = given /\ exp' = exp /\ p' = p /\ nums' = nums /\ ops' = ops
  BY DEF Finish
<1>2. Len(nums) = 1 /\ Len(ops) = 0 /\ ops \in Seq(Ops) BY <1>1 DEF Calculates, InStep
<1>3. ops = <<>> BY <1>2
<1>4. InStep' BY <1>1, <1>2, <1>3 DEF Calculates, InStep
<1>5. ValueKept' BY <1>1 DEF Calculates, ValueKept, SoFar, LastNumber
<1> QED BY <1>4, <1>5 DEF Calculates

(* In the end the one number left is the value.                            *)
LEMMA CalculatesDone ==
  ASSUME Calculates, pc \in {"done", "error"}
  PROVE /\ nums \in Seq(Float) /\ Len(nums) = 1
        /\ nums[1] = Total(Scanned(given))
<1>1. nums \in Seq(Float) /\ Len(nums) = 1 /\ ops = <<>> BY DEF Calculates, InStep
<1>2. nums[1] \in Float /\ 1 \in DOMAIN nums BY <1>1
<1>4. CASE pc = "error"
  <2>1. Broken(Scanned(given)) /\ nums = <<Zero>> BY <1>4 DEF Calculates, ValueKept
  <2> QED BY <1>1, <2>1 DEF Total
<1>5. CASE pc = "done"
  <2>1. SoFar = Begin BY <1>1, AfterNone DEF SoFar
  <2>2. LastNumber = nums[1] BY <1>1 DEF LastNumber
  <2>3. ~Fails(SoFar, LastNumber) /\ Summed(SoFar, LastNumber) = nums[1]
    BY <1>2, <2>1, <2>2, BeginGrows
  <2>4. /\ Fails(SoFar, LastNumber) = Broken(Scanned(given))
        /\ ~Broken(Scanned(given)) => Summed(SoFar, LastNumber) = Total(Scanned(given))
    BY <1>5 DEF Calculates, ValueKept
  <2> QED BY <1>1, <2>3, <2>4
<1> QED BY <1>4, <1>5

(* The variable that the shell begins with.                                *)
LEMMA PwdCell == Pwd \in Cell /\ Pwd.value.type = "STRING" /\ Pwd.value.data = <<"/", "r", "o", "o", "t">>
<1>1. <<"p", "w", "d">> \in Seq(Char) /\ <<"/", "r", "o", "o", "t">> \in Seq(Char)
  BY SessionAssumption
<1> QED BY <1>1 DEF Pwd, String, Cell, Data

LEMMA PwdIsText == ~is_exp(<<"/", "r", "o", "o", "t">>)
<1> DEFINE text == <<"/", "r", "o", "o", "t">>
<1>1. 2 \in DOMAIN text /\ text[2] = "r" OBVIOUS
<1> HIDE DEF text
<1>2. is_exp(text) => isop("r") \/ isdigit("r") \/ "r" = " " BY <1>1, Zenon DEF is_exp
<1>3. ~(isop("r") \/ isdigit("r") \/ "r" = " ") BY DEF isop, isdigit, Digits, Ops
<1> QED BY <1>2, <1>3 DEF text

(* The conjuncts of the invariant that are about the list.                 *)
Listed ==
  /\ variables \in Seq(Cell)
  /\ pending \in Seq(Char)
  /\ typed \in [Names \cup (IF pc = "idle" THEN {} ELSE {pending}) -> Seq(Char)]
  /\ NamesOnce
  /\ HoldsText
  /\ HoldsValue

LEMMA InvParts ==
  IInv <=> /\ Calculates /\ Listed /\ Evaluating
           /\ given \in Seq(Char) /\ entered \in 0 .. Len(Session)
BY DEF IInv, TypeOK, Calculates, Listed, Cell

LEMMA InvPartsNext ==
  IInv' <=> /\ Calculates' /\ Listed' /\ Evaluating'
            /\ given' \in Seq(Char) /\ entered' \in 0 .. Len(Session)
BY DEF IInv, TypeOK, Calculates, Listed, Cell

LEMMA InitInv == Init => IInv
<1> SUFFICES ASSUME Init PROVE IInv OBVIOUS
<1>1. variables = <<Pwd>> /\ pc = "idle" BY DEF Init, Idle
<1>2. variables \in Seq(Cell) /\ DOMAIN variables = {1} /\ variables[1] = Pwd
  BY <1>1, PwdCell
<1>3. Names = {Pwd.name} BY <1>2 DEF Names, NamesOf
<1>4. Pwd.name \in Seq(Char) /\ Pwd.value.data \in Seq(Char) 
  <2>1. <<"p", "w", "d">> \in Seq(Char) /\ <<"/", "r", "o", "o", "t">> \in Seq(Char)
    BY SessionAssumption
  <2> QED BY <2>1 DEF Pwd, String
<1>5. typed \in [Names \cup (IF pc = "idle" THEN {} ELSE {pending}) -> Seq(Char)]
      /\ typed[Pwd.name] = Pwd.value.data
  BY <1>1, <1>3, <1>4 DEF Init
<1>6. ~is_exp(Pwd.value.data) /\ Pwd.value = String(Pwd.value.data)
  BY PwdIsText DEF Pwd, String
<1>7. HoldsText /\ HoldsValue BY <1>2, <1>5, <1>6 DEF HoldsText, HoldsValue
<1>8. NamesOnce BY <1>2 DEF NamesOnce
<1>9. InStep BY DEF InStep, Init, Idle
<1>10. ValueKept BY DEF ValueKept, Init, Idle
<1>11. Listed BY <1>2, <1>5, <1>7, <1>8 DEF Listed, Init
<1>12. Evaluating BY <1>1 DEF Evaluating
<1>13. given \in Seq(Char) /\ entered \in 0 .. Len(Session)
  BY SessionAssumption DEF Init, Idle
<1> QED BY <1>9, <1>10, <1>11, <1>12, <1>13, InvParts DEF Calculates

(* Storing a value leaves every variable with what was entered for it.     *)
LEMMA StoreLists ==
  ASSUME variables \in Seq(Cell), NamesOnce, HoldsText, HoldsValue,
         NEW n \in Seq(Char), NEW v \in Data, NEW text \in Seq(Char),
         variables' = Pushed(n, v), typed' = Recorded(n, text),
         pc' = "idle", pending' \in Seq(Char),
         typed \in [DOMAIN typed -> Seq(Char)], Names \subseteq DOMAIN typed,
         pc = "idle" \/ pending = n,
         ~is_exp(text) => v = String(text),
         is_exp(text) => v = Converted(text, Total(Scanned(text)))
  PROVE Listed'
<1> DEFINE list == Pushed(n, v)
<1>1. /\ list \in Seq(Cell)
      /\ \A j, k \in DOMAIN list : list[j].name = list[k].name => j = k
      /\ \A j \in DOMAIN list :
           \/ list[j].name = n /\ list[j].value = v
           \/ list[j].name # n /\ \E i \in DOMAIN variables : list[j] = variables[i]
      /\ n \in NamesOf(list) /\ NamesOf(list) \subseteq Names \cup {n}
  BY PushedIs
<1>2. variables' = list OBVIOUS
<1> HIDE DEF list
<1>3. NamesOf(variables') \cup {n} = Names' BY <1>1, <1>2 DEF Names
<1>4. typed' = [m \in Names' |-> IF m = n THEN text ELSE typed[m]] BY <1>3 DEF Recorded
<1>5. typed' \in [Names' -> Seq(Char)]
  <2>1. \A m \in Names' : m # n => m \in DOMAIN typed BY <1>1, <1>2, <1>3
  <2>2. \A m \in Names' : (IF m = n THEN text ELSE typed[m]) \in Seq(Char) BY <2>1
  <2> QED BY <1>4, <2>2
<1>6. \A j \in DOMAIN list : list[j].name \in Names' BY <1>2 DEF Names, NamesOf
<1>7. ASSUME NEW j \in DOMAIN list
      PROVE \/ /\ list[j].name = n /\ list[j].value = v /\ typed'[list[j].name] = text
            \/ /\ list[j].name # n
               /\ \E i \in DOMAIN variables :
                    /\ list[j] = variables[i] /\ Settled(i)
                    /\ typed'[list[j].name] = typed[variables[i].name]
  <2>1. list[j].name \in Names' BY <1>6
  <2>2. CASE list[j].name = n BY <1>1, <1>4, <2>1, <2>2
  <2>3. CASE list[j].name # n
    <3>1. PICK i \in DOMAIN variables : list[j] = variables[i] BY <1>1, <2>3
    <3>2. Settled(i) BY <2>3, <3>1 DEF Settled
    <3>3. typed'[list[j].name] = typed[list[j].name] BY <1>4, <2>1, <2>3
    <3> QED BY <2>3, <3>1, <3>2, <3>3
  <2> QED BY <2>2, <2>3
<1>8. ASSUME NEW j \in DOMAIN list, ~is_exp(typed'[list[j].name])
      PROVE list[j].value = String(typed'[list[j].name])
  <2>1. CASE list[j].name = n BY <1>7, <1>8, <2>1
  <2>2. CASE list[j].name # n
    <3>1. PICK i \in DOMAIN variables :
            /\ list[j] = variables[i] /\ Settled(i)
            /\ typed'[list[j].name] = typed[variables[i].name]
      BY <1>7, <2>2
    <3> QED BY <1>8, <3>1 DEF HoldsText
  <2> QED BY <2>1, <2>2
<1>9. HoldsText' BY <1>2, <1>8 DEF HoldsText
<1> DEFINE Right(value, t) == value = Converted(t, Total(Scanned(t)))
<1>10. \A i \in DOMAIN variables :
         Settled(i) /\ is_exp(typed[variables[i].name])
           => Right(variables[i].value, typed[variables[i].name])
  BY DEF HoldsValue
<1>11. is_exp(text) => Right(v, text) OBVIOUS
<1>12. ASSUME \A j \in DOMAIN list :
                is_exp(typed'[list[j].name]) => Right(list[j].value, typed'[list[j].name])
       PROVE HoldsValue'
  BY <1>2, <1>12 DEF HoldsValue
<1> HIDE DEF Right
<1>13. ASSUME NEW j \in DOMAIN list, is_exp(typed'[list[j].name])
       PROVE Right(list[j].value, typed'[list[j].name])
  <2>1. CASE list[j].name = n BY <1>7, <1>11, <1>13, <2>1
  <2>2. CASE list[j].name # n
    <3>1. PICK i \in DOMAIN variables :
            /\ list[j] = variables[i] /\ Settled(i)
            /\ typed'[list[j].name] = typed[variables[i].name]
      BY <1>7, <2>2
    <3> QED BY <1>10, <1>13, <3>1
  <2> QED BY <2>1, <2>2
<1>14. HoldsValue' BY <1>12, <1>13
<1>15. NamesOnce' BY <1>1, <1>2 DEF NamesOnce
<1>16. Names' \cup (IF pc' = "idle" THEN {} ELSE {pending'}) = Names' OBVIOUS
<1> QED BY <1>1, <1>2, <1>5, <1>9, <1>14, <1>15, <1>16 DEF Listed

(* What a line of set gives.                                               *)
LEMMA SetIs ==
  ASSUME NEW line \in Seq(Char), IsSet(line)
  PROVE /\ Argv(line)[2] \in Seq(Char)
        /\ Combine(SubSeq(Argv(line), 3, Argc(line))) = Text(line)
        /\ Text(line) \in Seq(Char)
<1>1. Argc(line) >= 3 BY DEF IsSet, MinArgs
<1>2. Argv(line) \in Args /\ Len(Argv(line)) = Argc(line) /\ Argc(line) \in Nat BY ArgvType
<1>3. Argv(line)[2] \in Seq(Char) BY <1>1, <1>2 DEF Args
<1>4. PICK s \in 1 .. Len(line) : Text(line) = SubSeq(line, s + 1, Len(line))
  BY <1>1, SecondSpace
<1>5. Text(line) \in Seq(Char)
  <2>1. s + 1 \in Int /\ Len(line) \in Int /\ \A i \in s + 1 .. Len(line) : line[i] \in Char OBVIOUS
  <2> QED BY <1>4, <2>1, SubSeqProperties
<1> QED BY <1>1, <1>3, <1>5, CutJoin

(* The steps of an evaluation.                                             *)
LEMMA EvaluateInv ==
  ASSUME IInv, Evaluate
  PROVE IInv'
<1>1. Calculates /\ Listed /\ Evaluating /\ given \in Seq(Char) /\ entered \in 0 .. Len(Session)
  BY InvParts
<1>2. UNCHANGED <<variables, pending, entered, typed>> BY DEF Evaluate
<1>3. Calculates' /\ given' = given /\ pc # "idle" /\ pc' # "idle"
  <2>1. CASE Parse BY <1>1, <2>1, ParseCalculates DEF Parse
  <2>2. CASE ParseEnd BY <1>1, <2>2, ParseEndCalculates DEF ParseEnd
  <2>3. CASE Reduce BY <1>1, <2>3, ReduceCalculates DEF Reduce
  <2>4. CASE DivideByZero BY <1>1, <2>4, DivideByZeroCalculates DEF DivideByZero
  <2>5. CASE Finish BY <1>1, <2>5, FinishCalculates DEF Finish
  <2> QED BY <2>1, <2>2, <2>3, <2>4, <2>5 DEF Evaluate, Step
<1>4. Listed'
  <2>1. Names' = Names BY <1>2 DEF Names
  <2>2. NamesOnce' BY <1>1, <1>2 DEF Listed, NamesOnce
  <2>3. \A k : Settled(k)' <=> Settled(k) BY <1>2, <1>3 DEF Settled
  <2>4. HoldsText' BY <1>1, <1>2, <2>3 DEF Listed, HoldsText
  <2>5. HoldsValue' BY <1>1, <1>2, <2>3 DEF Listed, HoldsValue
  <2> QED BY <1>1, <1>2, <1>3, <2>1, <2>2, <2>4, <2>5 DEF Listed
<1>5. Evaluating' BY <1>1, <1>2, <1>3 DEF Evaluating
<1> QED BY <1>1, <1>2, <1>3, <1>4, <1>5, InvPartsNext

LEMMA StoreInv ==
  ASSUME IInv, Store
  PROVE IInv'
<1>1. Calculates /\ Listed /\ Evaluating /\ given \in Seq(Char) /\ entered \in 0 .. Len(Session)
  BY InvParts
<1>2. /\ pc \in {"done", "error"} /\ given' = <<>> /\ exp' = <<>> /\ p' = <<>>
      /\ nums' = <<>> /\ ops' = <<>> /\ pc' = "idle" /\ count' = 0
      /\ variables' = Pushed(pending, Result) /\ typed' = Recorded(pending, typed[pending])
      /\ pending' = <<>> /\ entered' = entered
  BY DEF Store, Return
<1>3. pc # "idle" BY <1>2
<1> DEFINE text == typed[pending]
<1>4. given = text /\ is_exp(text) /\ text \in Seq(Char) BY <1>1, <1>3 DEF Evaluating
<1>5. nums \in Seq(Float) /\ Len(nums) = 1 /\ nums[1] = Total(Scanned(given))
  BY <1>1, <1>2, CalculatesDone
<1>6. Result \in Data /\ Result = Converted(text, Total(Scanned(text)))
  <2>1. nums[1] \in Float BY <1>5
  <2> QED BY <1>4, <1>5, <2>1, ConvertedType DEF Result
<1>7. typed \in [Names \cup {pending} -> Seq(Char)] BY <1>1, <1>3 DEF Listed
<1> HIDE DEF text
<1>8. Listed'
  <2>1. pending' \in Seq(Char) /\ pending \in Seq(Char) BY <1>1, <1>2 DEF Listed
  <2>2. typed \in [DOMAIN typed -> Seq(Char)] /\ Names \subseteq DOMAIN typed BY <1>7
  <2>4. variables \in Seq(Cell) /\ NamesOnce /\ HoldsText /\ HoldsValue BY <1>1 DEF Listed
  <2>5. variables' = Pushed(pending, Result) /\ typed' = Recorded(pending, text) /\ pc' = "idle"
    BY <1>2 DEF text
  <2> QED BY <1>4, <1>6, <2>1, <2>2, <2>4, <2>5, StoreLists
<1>9. Calculates' BY <1>2 DEF Calculates, InStep, ValueKept
<1>10. Evaluating' BY <1>2 DEF Evaluating
<1> QED BY <1>1, <1>2, <1>8, <1>9, <1>10, InvPartsNext

LEMMA EnterInv ==
  ASSUME IInv, Enter
  PROVE IInv'
<1>1. Calculates /\ Listed /\ Evaluating /\ given \in Seq(Char) /\ entered \in 0 .. Len(Session)
  BY InvParts
<1>2. PICK line \in Session[entered + 1] : Execute(line) BY DEF Enter
<1>3. pc = "idle" /\ entered < Len(Session) /\ entered' = entered + 1 BY DEF Enter
<1>4. Len(Session) \in Nat /\ \A k \in 1 .. Len(Session) : Session[k] \subseteq Seq(Char)
  BY SessionAssumption
<1>5. entered' \in 0 .. Len(Session) /\ line \in Seq(Char) BY <1>1, <1>2, <1>3, <1>4
<1>6. typed \in [Names -> Seq(Char)] BY <1>1, <1>3 DEF Listed
<1>7. CASE SetString(line)
  <2> DEFINE text == Text(line)
             n == Argv(line)[2]
  <2>1. IsSet(line) BY <1>7 DEF SetString
  <2>2. n \in Seq(Char) /\ text \in Seq(Char) /\ Combine(SubSeq(Argv(line), 3, Argc(line))) = text
    BY <1>5, <2>1, SetIs
  <2>3. /\ ~is_exp(text) /\ variables' = Pushed(n, String(text))
        /\ typed' = Recorded(n, text) /\ UNCHANGED <<calc, pending>>
    BY <1>7, <2>2 DEF SetString
  <2> HIDE DEF text, n
  <2>4. String(text) \in Data BY <2>2 DEF String, Data
  <2>5. UNCHANGED <<given, exp, p, nums, ops, pc, count>> BY <2>3 DEF calc
  <2>6. Listed'
    <3>1. typed \in [DOMAIN typed -> Seq(Char)] /\ Names \subseteq DOMAIN typed BY <1>6
    <3>2. variables \in Seq(Cell) /\ NamesOnce /\ HoldsText /\ HoldsValue /\ pending' \in Seq(Char)
      BY <1>1, <2>3 DEF Listed
    <3>3. pc' = "idle" BY <1>3, <2>5
    <3> QED BY <1>3, <2>2, <2>3, <2>4, <3>1, <3>2, <3>3, StoreLists
  <2>7. Calculates' BY <1>1, <2>5 DEF Calculates, InStep, ValueKept, SoFar, LastNumber
  <2>8. Evaluating' BY <1>3, <2>5 DEF Evaluating
  <2> QED BY <1>1, <1>5, <2>5, <2>6, <2>7, <2>8, InvPartsNext
<1>8. CASE SetExp(line)
  <2> DEFINE text == Text(line)
             n == Argv(line)[2]
  <2>1. IsSet(line) BY <1>8 DEF SetExp
  <2>2. n \in Seq(Char) /\ text \in Seq(Char) /\ Combine(SubSeq(Argv(line), 3, Argc(line))) = text
    BY <1>5, <2>1, SetIs
  <2>3. /\ is_exp(text) /\ Start(text) /\ pending' = n /\ variables' = variables
        /\ typed' = Recorded(n, text)
    BY <1>8, <2>2 DEF SetExp
  <2> HIDE DEF text, n
  <2>4. Calculates' /\ pc' = "parse" /\ given' = text BY <1>1, <2>2, <2>3, StartCalculates
  <2>5. Names' = Names /\ NamesOf(variables') = Names BY <2>3 DEF Names
  <2>6. typed' = [m \in Names \cup {n} |-> IF m = n THEN text ELSE typed[m]]
    BY <2>3, <2>5 DEF Recorded
  <2>7. typed' \in [Names' \cup (IF pc' = "idle" THEN {} ELSE {pending'}) -> Seq(Char)]
    <3>1. \A m \in Names \cup {n} : (IF m = n THEN text ELSE typed[m]) \in Seq(Char) BY <1>6, <2>2
    <3> QED BY <2>3, <2>4, <2>5, <2>6, <3>1
  <2>8. \A k \in DOMAIN variables :
          Settled(k)' => Settled(k) /\ typed'[variables[k].name] = typed[variables[k].name]
    <3> TAKE k \in DOMAIN variables
    <3>1. variables[k].name \in Names BY DEF Names, NamesOf
    <3>2. Settled(k)' => variables[k].name # n BY <2>3, <2>4 DEF Settled
    <3>3. Settled(k) BY <1>3 DEF Settled
    <3> QED BY <2>6, <3>1, <3>2, <3>3
  <2>9. HoldsText' BY <1>1, <2>3, <2>8 DEF Listed, HoldsText
  <2>10. HoldsValue' BY <1>1, <2>3, <2>8 DEF Listed, HoldsValue
  <2>11. NamesOnce' BY <1>1, <2>3 DEF Listed, NamesOnce
  <2>12. Listed' BY <1>1, <2>2, <2>3, <2>7, <2>9, <2>10, <2>11 DEF Listed
  <2>13. Evaluating' BY <2>3, <2>4, <2>6 DEF Evaluating
  <2> QED BY <1>5, <2>2, <2>4, <2>12, <2>13, InvPartsNext
<1>9. CASE Other(line)
  <2>1. UNCHANGED <<given, exp, p, nums, ops, pc, count, variables, pending, typed>>
    BY <1>9 DEF Other, calc
  <2>2. Calculates' BY <1>1, <2>1 DEF Calculates, InStep, ValueKept, SoFar, LastNumber
  <2>3. Listed'
    <3>1. Names' = Names BY <2>1 DEF Names
    <3>2. \A k : Settled(k)' <=> Settled(k) BY <2>1 DEF Settled
    <3>3. HoldsText' BY <1>1, <2>1, <3>2 DEF Listed, HoldsText
    <3>4. HoldsValue' BY <1>1, <2>1, <3>2 DEF Listed, HoldsValue
    <3>5. NamesOnce' BY <1>1, <2>1 DEF Listed, NamesOnce
    <3> QED BY <1>1, <2>1, <3>1, <3>3, <3>4, <3>5 DEF Listed
  <2>4. Evaluating' BY <1>3, <2>1 DEF Evaluating
  <2> QED BY <1>1, <1>5, <2>1, <2>2, <2>3, <2>4, InvPartsNext
<1> QED BY <1>2, <1>7, <1>8, <1>9 DEF Execute

LEMMA StutterInv ==
  ASSUME IInv, UNCHANGED session
  PROVE IInv'
<1>1. Calculates /\ Listed /\ Evaluating /\ given \in Seq(Char) /\ entered \in 0 .. Len(Session)
  BY InvParts
<1>2. UNCHANGED <<given, exp, p, nums, ops, pc, count, variables, pending, typed, entered>>
  BY DEF session, calc
<1>3. Calculates' BY <1>1, <1>2 DEF Calculates, InStep, ValueKept, SoFar, LastNumber
<1>4. Listed'
  <2>1. Names' = Names BY <1>2 DEF Names
  <2>2. \A k : Settled(k)' <=> Settled(k) BY <1>2 DEF Settled
  <2>3. HoldsText' BY <1>1, <1>2, <2>2 DEF Listed, HoldsText
  <2>4. HoldsValue' BY <1>1, <1>2, <2>2 DEF Listed, HoldsValue
  <2>5. NamesOnce' BY <1>1, <1>2 DEF Listed, NamesOnce
  <2> QED BY <1>1, <1>2, <2>1, <2>3, <2>4, <2>5 DEF Listed
<1>5. Evaluating' BY <1>1, <1>2 DEF Evaluating
<1> QED BY <1>1, <1>2, <1>3, <1>4, <1>5, InvPartsNext

(* Printing, and reading what was printed.                                 *)
LEMMA DigitIs == \A n \in 0 .. 9 : Digit(n) \in Digits /\ Value[Digit(n)] = n
<1> TAKE n \in 0 .. 9
<1>1. \E c \in Digits : Value[c] = n
  <2> DEFINE cs == <<"0", "1", "2", "3", "4", "5", "6", "7", "8", "9">>
  <2>1. n = 0 \/ n = 1 \/ n = 2 \/ n = 3 \/ n = 4 \/ n = 5 \/ n = 6 \/ n = 7 \/ n = 8 \/ n = 9
    OBVIOUS
  <2>2. /\ Value["0"] = 0 /\ Value["1"] = 1 /\ Value["2"] = 2 /\ Value["3"] = 3
        /\ Value["4"] = 4 /\ Value["5"] = 5 /\ Value["6"] = 6 /\ Value["7"] = 7
        /\ Value["8"] = 8 /\ Value["9"] = 9
    BY DEF Value, Digits
  <2> QED BY <2>1, <2>2 DEF Digits
<1>2. n % 256 = n OBVIOUS
<1> QED BY <1>1, <1>2 DEF Digit

LEMMA DecimalNone == Decimal(<<>>) = 0
<1>1. <<>> \in Seq(Digits) /\ Len(<<>>) = 0 OBVIOUS
<1> QED BY <1>1, TenfoldSteps

LEMMA DecimalAppend ==
  ASSUME NEW s \in Seq(Digits), NEW c \in Digits
  PROVE Append(s, c) \in Seq(Digits) /\ Decimal(Append(s, c)) = 10 * Decimal(s) + Value[c]
<1> DEFINE n == Len(s)
           t == Append(s, c)
<1>1. /\ n \in Nat /\ t \in Seq(Digits) /\ Len(t) = n + 1 /\ t[n + 1] = c
      /\ \A k \in 1 .. n : t[k] = s[k]
  OBVIOUS
<1>2. PICK a \in [0 .. n -> Int] :
        /\ a[0] = 0
        /\ \A k \in 1 .. n : a[k] = TenfoldPlus(a[k - 1], s[k])
        /\ Decimal(s) = a[n]
  BY TenfoldSteps
<1> HIDE DEF n, t
<1>3. PICK b \in [0 .. Len(t) -> Int] :
        /\ b[0] = 0
        /\ \A k \in 1 .. Len(t) : b[k] = TenfoldPlus(b[k - 1], t[k])
        /\ Decimal(t) = b[Len(t)]
  BY <1>1, TenfoldSteps
<1> DEFINE P == {k \in 0 .. n : b[k] = a[k]}
<1>4. \A k \in 0 .. n : k \in P
  <2>1. 0 \in P BY <1>1, <1>2, <1>3
  <2>2. \A k \in 0 .. (n - 1) : k \in P => k + 1 \in P
    <3> SUFFICES ASSUME NEW k \in 0 .. (n - 1), k \in P PROVE k + 1 \in P OBVIOUS
    <3>1. k + 1 \in 1 .. n /\ k + 1 \in 1 .. Len(t) /\ (k + 1) - 1 = k BY <1>1
    <3> QED BY <1>1, <1>2, <1>3, <3>1
  <2> HIDE DEF P
  <2> QED BY <1>1, <2>1, <2>2, Ind
<1>5. b[n] = a[n] BY <1>1, <1>4
<1>6. b[n + 1] = TenfoldPlus(b[n], c)
  <2>1. n + 1 \in 1 .. Len(t) /\ (n + 1) - 1 = n BY <1>1
  <2> QED BY <1>1, <1>3, <2>1
<1>7. Value[c] \in Int BY DEF Value, Digits
<1>8. Decimal(s) \in Int BY DecimalType
<1> QED BY <1>1, <1>2, <1>3, <1>5, <1>6, <1>7, <1>8 DEF TenfoldPlus, t

(* What putd makes of the number m, given what it makes of smaller ones,   *)
(* and a function that gives it for all numbers up to k.                   *)
DigitsOf(f, m) == IF m > 9 THEN Append(f[m \div 10], Digit(m % 10)) ELSE <<Digit(m)>>
UpTo(f, k) == \A m \in 0 .. k : f[m] = DigitsOf(f, m)

LEMMA UpToOnce ==
  ASSUME NEW k \in Nat, NEW f, UpTo(f, k), NEW j \in Nat, NEW g, UpTo(g, j)
  PROVE \A m \in Nat : m <= k /\ m <= j => f[m] = g[m]
<1> DEFINE T == {m \in Nat : m <= k /\ m <= j /\ f[m] # g[m]}
<1> SUFFICES ASSUME T # {} PROVE FALSE OBVIOUS
<1>1. PICK m \in T : \A i \in T : m <= i
  <2>1. T \subseteq Nat OBVIOUS
  <2> HIDE DEF T
  <2> QED BY <2>1, Least
<1>2. m \in 0 .. k /\ m \in 0 .. j /\ f[m] # g[m] OBVIOUS
<1>3. f[m] = DigitsOf(f, m) /\ g[m] = DigitsOf(g, m) BY <1>2 DEF UpTo
<1>4. CASE m > 9
  <2>1. m \div 10 \in Nat /\ m \div 10 < m BY <1>2, <1>4
  <2>2. f[m \div 10] = g[m \div 10] BY <1>1, <1>2, <2>1
  <2> QED BY <1>2, <1>3, <1>4, <2>2 DEF DigitsOf
<1>5. CASE ~(m > 9) BY <1>2, <1>3, <1>5 DEF DigitsOf
<1> QED BY <1>4, <1>5

LEMMA UpToExists == \A n \in Nat : \E f : UpTo(f, n)
<1> SUFFICES ASSUME NEW n \in Nat PROVE \E f : UpTo(f, n) OBVIOUS
<1> DEFINE P == {k \in 0 .. n : \E f : UpTo(f, k)}
<1>1. 0 \in P
  <2> DEFINE f == [m \in {0} |-> <<Digit(0)>>]
  <2>1. UpTo(f, 0)
    <3>1. \A m \in 0 .. 0 : m = 0 OBVIOUS
    <3>2. f[0] = <<Digit(0)>> /\ ~(0 > 9) OBVIOUS
    <3> HIDE DEF f
    <3> QED BY <3>1, <3>2 DEF UpTo, DigitsOf
  <2>2. 0 \in 0 .. n OBVIOUS
  <2> QED BY <2>1, <2>2
<1>2. ASSUME NEW k \in 0 .. (n - 1), k \in P PROVE k + 1 \in P
  <2>1. PICK f : UpTo(f, k) BY <1>2
  <2> DEFINE e == DigitsOf(f, k + 1)
             g == [m \in 0 .. (k + 1) |-> IF m = k + 1 THEN e ELSE f[m]]
  <2>2. g[k + 1] = e /\ \A m \in 0 .. k : g[m] = f[m] OBVIOUS
  <2> HIDE DEF g
  <2>3. ASSUME NEW m \in 0 .. (k + 1) PROVE g[m] = DigitsOf(g, m)
    <3>1. m > 9 => m \div 10 \in 0 .. k OBVIOUS
    <3>2. m > 9 => g[m \div 10] = f[m \div 10] BY <2>2, <3>1
    <3>3. DigitsOf(g, m) = DigitsOf(f, m) BY <3>2 DEF DigitsOf
    <3>4. CASE m = k + 1 BY <2>2, <3>3, <3>4
    <3>5. CASE m # k + 1
      <4>1. m \in 0 .. k BY <3>5
      <4> QED BY <2>1, <2>2, <3>3, <4>1 DEF UpTo
    <3> QED BY <3>4, <3>5
  <2>4. UpTo(g, k + 1) BY <2>3 DEF UpTo
  <2>5. k + 1 \in 0 .. n OBVIOUS
  <2> QED BY <2>4, <2>5
<1>3. n \in P
  <2>1. n \in 0 .. n OBVIOUS
  <2> HIDE DEF P
  <2> QED BY <1>1, <1>2, <2>1, Ind
<1> QED BY <1>3

LEMMA putdIs == \A n \in Int : putd[n] = DigitsOf(putd, n)
<1> DEFINE Is(g) == g = [n \in Int |-> DigitsOf(g, n)]
           F(n) == CHOOSE f : UpTo(f, n)
           g == [n \in Int |-> IF n >= 0 THEN F(n)[n] ELSE <<Digit(n)>>]
<1>1. \A n \in Nat : UpTo(F(n), n) BY UpToExists
<1> HIDE DEF F
<1>2. ASSUME NEW n \in Int PROVE g[n] = DigitsOf(g, n)
  <2>1. CASE n > 9
    <3> DEFINE m == n \div 10
    <3>1. m \in Nat /\ m <= n /\ n \in 0 .. n /\ n \in Nat BY <2>1
    <3>2. g[n] = F(n)[n] /\ g[m] = F(m)[m] BY <2>1, <3>1
    <3> HIDE DEF g
    <3>3. F(n)[n] = DigitsOf(F(n), n) BY <1>1, <3>1 DEF UpTo
    <3>4. F(n)[m] = F(m)[m]
      <4>1. UpTo(F(n), n) /\ UpTo(F(m), m) BY <1>1, <3>1
      <4>2. m <= m BY <3>1
      <4> HIDE DEF m
      <4> QED BY <3>1, <4>1, <4>2, UpToOnce
    <3> QED BY <2>1, <3>2, <3>3, <3>4 DEF DigitsOf
  <2>2. CASE n \in 0 .. 9
    <3>1. UpTo(F(n), n) /\ n \in 0 .. n BY <1>1, <2>2
    <3>2. F(n)[n] = DigitsOf(F(n), n) BY <3>1 DEF UpTo
    <3> QED BY <2>2, <3>2 DEF DigitsOf
  <2>3. CASE n < 0 BY <2>3 DEF DigitsOf
  <2> QED BY <2>1, <2>2, <2>3
<1>3. Is(g)
  <2>1. g = [n \in Int |-> g[n]] OBVIOUS
  <2> HIDE DEF g
  <2> QED BY <1>2, <2>1
<1> DEFINE G == CHOOSE f : Is(f)
<1>4. Is(G)
  <2> HIDE DEF g, Is
  <2> QED BY <1>3
<1>5. putd = G BY DEF putd, DigitsOf
<1> HIDE DEF G
<1> QED BY <1>4, <1>5

(* putd prints the digits of a number that is not below 0.                 *)
LEMMA putdReads ==
  \A n \in Nat : putd[n] \in Seq(Digits) /\ putd[n] # <<>> /\ Decimal(putd[n]) = n
<1> DEFINE Right(n) == putd[n] \in Seq(Digits) /\ putd[n] # <<>> /\ Decimal(putd[n]) = n
           T == {n \in Nat : ~Right(n)}
<1> SUFFICES ASSUME T # {} PROVE FALSE OBVIOUS
<1>1. PICK n \in T : \A i \in T : n <= i
  <2>1. T \subseteq Nat OBVIOUS
  <2> HIDE DEF T
  <2> QED BY <2>1, Least
<1>2. n \in Nat /\ ~Right(n) OBVIOUS
<1>3. CASE n > 9
  <2> DEFINE m == n \div 10
             c == Digit(n % 10)
  <2>1. m \in Nat /\ m < n /\ n % 10 \in 0 .. 9 /\ n = 10 * m + (n % 10) BY <1>2, <1>3
  <2>2. Right(m)
    <3> HIDE DEF m, Right
    <3>1. n \in Nat BY <1>2
    <3>2. ~Right(m) => m \in T BY <2>1
    <3> HIDE DEF T
    <3> QED BY <1>1, <2>1, <3>1, <3>2
  <2>3. c \in Digits /\ Value[c] = n % 10 BY <2>1, DigitIs
  <2>4. putd[n] = Append(putd[m], c)
    <3>1. n \in Int BY <1>2
    <3>2. putd[n] = DigitsOf(putd, n) BY <3>1, putdIs
    <3> QED BY <1>3, <3>2 DEF DigitsOf
  <2> HIDE DEF m, c
  <2>5. /\ Append(putd[m], c) \in Seq(Digits)
        /\ Decimal(Append(putd[m], c)) = 10 * Decimal(putd[m]) + Value[c]
    BY <2>2, <2>3, DecimalAppend
  <2>6. Append(putd[m], c) # <<>> BY <2>2
  <2> QED BY <1>2, <2>1, <2>2, <2>3, <2>4, <2>5, <2>6
<1>4. CASE n \in 0 .. 9
  <2> DEFINE c == Digit(n)
  <2>1. c \in Digits /\ Value[c] = n BY <1>4, DigitIs
  <2>2. putd[n] = <<c>>
    <3>1. n \in Int /\ ~(n > 9) BY <1>4
    <3>2. putd[n] = DigitsOf(putd, n) BY <3>1, putdIs
    <3> QED BY <3>1, <3>2 DEF DigitsOf
  <2> HIDE DEF c
  <2>3. <<c>> = Append(<<>>, c) /\ <<>> \in Seq(Digits) /\ <<c>> # <<>> OBVIOUS
  <2>4. <<c>> \in Seq(Digits) /\ Decimal(<<c>>) = 10 * 0 + Value[c] BY <2>1, <2>3, DecimalAppend, DecimalNone
  <2> QED BY <1>2, <1>4, <2>1, <2>2, <2>3, <2>4
<1> QED BY <1>2, <1>3, <1>4

(* The characters of a printed number.                                     *)
Figures == Digits \cup {"."}

LEMMA FiguresSeq == \A s \in Seq(Digits) : s \in Seq(Figures)
<1>1. Digits \subseteq Figures BY DEF Figures
<1> QED BY <1>1

LEMMA DigitsPlain ==
  ASSUME NEW s \in Seq(Digits)
  PROVE \A k \in DOMAIN s : s[k] # "." /\ isdigit(s[k])
<1> TAKE k \in DOMAIN s
<1>1. s[k] \in Digits OBVIOUS
<1> QED BY <1>1 DEF Digits, isdigit

LEMMA ReadsIs ==
  ASSUME NEW s, NEW t, NEW dot, NEW w,
         dot = IF Dots(s) = {} THEN Len(s) + 1 ELSE CHOOSE k \in Dots(s) : TRUE,
         SubSeq(s, 1, dot - 1) = w, SubSeq(s, dot + 1, Len(s)) = <<>>,
         w # <<>>, \A k \in DOMAIN s : k # dot => isdigit(s[k]),
         Decimal(w) = ToInt(t), Whole(t)
  PROVE ReadsAs(s, t)
BY Zenon DEF ReadsAs

(* The digits of an int read as the whole number that it was made from.    *)
LEMMA ReadsWhole ==
  ASSUME NEW s \in Seq(Digits), s # <<>>, NEW t, Whole(t), Decimal(s) = ToInt(t)
  PROVE ReadsAs(s, t)
<1> DEFINE dot == IF Dots(s) = {} THEN Len(s) + 1 ELSE CHOOSE k \in Dots(s) : TRUE
<1>1. Dots(s) = {} BY DigitsPlain DEF Dots
<1>2. Len(s) \in Nat OBVIOUS
<1>3. dot = Len(s) + 1 BY <1>1
<1> HIDE DEF dot
<1>4. SubSeq(s, 1, dot - 1) = s BY <1>2, <1>3
<1>5. SubSeq(s, dot + 1, Len(s)) = <<>> BY <1>2, <1>3
<1>6. \A k \in DOMAIN s : isdigit(s[k]) BY DigitsPlain
<1>7. dot = IF Dots(s) = {} THEN Len(s) + 1 ELSE CHOOSE k \in Dots(s) : TRUE BY DEF dot
<1> QED BY <1>4, <1>5, <1>6, <1>7, ReadsIs

LEMMA putdReadsAs ==
  ASSUME NEW t \in Float, Whole(t), t.m >= 0, Fits(t)
  PROVE putd[ToInt(t)] \in Seq(Figures) /\ ReadsAs(putd[ToInt(t)], t)
<1> DEFINE n == ToInt(t)
<1>1. n \in Nat BY ToIntType
<1> HIDE DEF n
<1>2. putd[n] \in Seq(Digits) /\ putd[n] # <<>> /\ Decimal(putd[n]) = n BY <1>1, putdReads
<1>3. putd[n] \in Seq(Figures) BY <1>2, FiguresSeq
<1>4. ReadsAs(putd[n], t) BY <1>2, ReadsWhole DEF n
<1> QED BY <1>3, <1>4 DEF n

(* No argument has a space in it.                                          *)
Plain == Char \ {Space}

LEMMA ArgvPlain == \A line \in Seq(Char) : Argv(line) \in ArgsOf(Plain)
<1> TAKE line \in Seq(Char)
<1>1. Char = Plain \cup {Space} BY SessionAssumption DEF Plain
<1>2. line \in Seq(Plain \cup {Space}) BY <1>1
<1>3. PICK a \in [0 .. Len(line) -> ArgsOf(Plain)] : Argv(line) = a[Len(line)] BY <1>2, CutStepsOf
<1>4. Len(line) \in 0 .. Len(line) OBVIOUS
<1> QED BY <1>3, <1>4

(* Of many sequences put together all but one are empty.                   *)
OnlyAt(m, n, s) == \A k \in 1 .. n : k # m => s[k] = <<>>

LEMMA FlattenOne ==
  ASSUME NEW V, NEW n \in Nat, NEW s \in [1 .. n -> Seq(V)], NEW m \in 1 .. n, OnlyAt(m, n, s)
  PROVE FlattenSeq(s) = s[m]
<1> DEFINE Is(F) == F = [i \in 1 .. Len(s) |-> IF i = 1 THEN s[i] ELSE F[i - 1] \o s[i]]
           G == CHOOSE F : Is(F)
           H == [i \in 1 .. n |-> IF i < m THEN <<>> ELSE s[m]]
<1>1. n >= 1 /\ Len(s) = n /\ s[m] \in Seq(V) OBVIOUS
<1>2. ASSUME NEW i \in 1 .. n PROVE H[i] = IF i = 1 THEN s[i] ELSE H[i - 1] \o s[i]
  <2>1. <<>> \o s[m] = s[m] /\ s[m] \o <<>> = s[m] /\ <<>> \o <<>> = <<>> BY <1>1, ConcatEmptySeq
  <2>2. i # m => s[i] = <<>> BY DEF OnlyAt
  <2>3. CASE i = 1 BY <2>2, <2>3
  <2>4. CASE i # 1
    <3>1. i - 1 \in 1 .. n BY <2>4
    <3>2. H[i] = (IF i < m THEN <<>> ELSE s[m]) /\ H[i - 1] = (IF i - 1 < m THEN <<>> ELSE s[m])
      BY <3>1
    <3> HIDE DEF H
    <3>3. CASE i < m
      <4>1. i - 1 < m /\ i # m BY <3>3
      <4> QED BY <2>1, <2>2, <2>4, <3>2, <3>3, <4>1
    <3>4. CASE i = m
      <4>1. i - 1 < m /\ ~(i < m) BY <3>4
      <4> QED BY <2>1, <2>4, <3>2, <3>4, <4>1
    <3>5. CASE i > m
      <4>1. ~(i - 1 < m) /\ ~(i < m) /\ i # m BY <3>5
      <4> QED BY <2>1, <2>2, <2>4, <3>2, <4>1
    <3> QED BY <3>3, <3>4, <3>5
  <2> QED BY <2>3, <2>4
<1>3. Is(H)
  <2>1. H = [i \in 1 .. n |-> H[i]] OBVIOUS
  <2> HIDE DEF H
  <2> QED BY <1>1, <1>2, <2>1
<1>4. Is(G)
  <2> HIDE DEF H, Is
  <2> QED BY <1>3
<1>5. FlattenSeq(s) = G[n] BY <1>1 DEF FlattenSeq
<1> HIDE DEF G
<1> DEFINE Q == {k \in 0 .. n : k = 0 \/ G[k] = H[k]}
<1>6. 0 \in Q OBVIOUS
<1>7. ASSUME NEW k \in 0 .. (n - 1), k \in Q PROVE k + 1 \in Q
  <2>1. k + 1 \in 1 .. n /\ (k + 1) - 1 = k OBVIOUS
  <2>2. G[k + 1] = IF k + 1 = 1 THEN s[k + 1] ELSE G[k] \o s[k + 1] BY <1>1, <1>4, <2>1
  <2>3. H[k + 1] = IF k + 1 = 1 THEN s[k + 1] ELSE H[k] \o s[k + 1] BY <1>2, <2>1
  <2> HIDE DEF H
  <2> QED BY <1>7, <2>1, <2>2, <2>3
<1>8. n \in Q
  <2>1. n \in 0 .. n OBVIOUS
  <2> HIDE DEF Q
  <2> QED BY <1>6, <1>7, <2>1, Ind
<1> QED BY <1>1, <1>5, <1>8

LEMMA FlattenSingle ==
  ASSUME NEW V, NEW h \in [1 .. 1 -> Seq(V)]
  PROVE FlattenSeq(h) = h[1]
<1>1. PICK one : one = 1 OBVIOUS
<1>2. one \in 1 .. one /\ one \in Nat /\ OnlyAt(one, one, h) BY <1>1 DEF OnlyAt
<1>3. h \in [1 .. one -> Seq(V)] BY <1>1
<1>4. FlattenSeq(h) = h[one] BY <1>2, <1>3, FlattenOne
<1> QED BY <1>1, <1>4

(* echo and a name with '$' before it are two arguments.                   *)
EchoLine(n) == <<"echo", Space, "$">> \o n
Prefixed(n) == <<"$">> \o n

LEMMA PrefixedIs ==
  ASSUME NEW S, "$" \in S, NEW x \in Seq(S)
  PROVE /\ Prefixed(x) \in Seq(S) /\ Len(Prefixed(x)) = Len(x) + 1
        /\ Prefixed(x)[1] = "$" /\ \A k \in 1 .. Len(x) : Prefixed(x)[k + 1] = x[k]
<1> DEFINE d == <<"$">>
           y == d \o x
<1>1. d \in Seq(S) /\ Len(d) = 1 /\ d[1] = "$" OBVIOUS
<1> HIDE DEF d
<1>2. /\ y \in Seq(S) /\ Len(y) = Len(d) + Len(x)
      /\ \A k \in 1 .. Len(d) + Len(x) : y[k] = IF k <= Len(d) THEN d[k] ELSE x[k - Len(d)]
  BY <1>1, ConcatProperties
<1>3. Len(x) \in Nat /\ Prefixed(x) = y BY DEF Prefixed, d
<1> HIDE DEF y
<1>4. y[1] = "$"
  <2>1. 1 \in 1 .. 1 + Len(x) BY <1>3
  <2> QED BY <1>1, <1>2, <2>1
<1>5. ASSUME NEW k \in 1 .. Len(x) PROVE y[k + 1] = x[k]
  <2>1. k + 1 \in 1 .. 1 + Len(x) /\ ~(k + 1 <= 1) /\ (k + 1) - 1 = k BY <1>3
  <2> QED BY <1>1, <1>2, <2>1
<1>6. Len(y) = Len(x) + 1 BY <1>1, <1>2, <1>3
<1> QED BY <1>2, <1>3, <1>4, <1>5, <1>6

LEMMA EchoLineIs ==
  ASSUME NEW S, {"echo", Space, "$"} \subseteq S, NEW n \in Seq(S)
  PROVE /\ EchoLine(n) \in Seq(S) /\ Len(EchoLine(n)) = Len(n) + 3
        /\ EchoLine(n)[1] = "echo" /\ EchoLine(n)[2] = Space /\ EchoLine(n)[3] = "$"
        /\ \A k \in 1 .. Len(n) : EchoLine(n)[k + 3] = n[k]
<1> DEFINE d == <<"echo", Space, "$">>
           y == d \o n
<1>1. d \in Seq(S) /\ Len(d) = 3 /\ d[1] = "echo" /\ d[2] = Space /\ d[3] = "$" OBVIOUS
<1> HIDE DEF d
<1>2. /\ y \in Seq(S) /\ Len(y) = Len(d) + Len(n)
      /\ \A k \in 1 .. Len(d) + Len(n) : y[k] = IF k <= Len(d) THEN d[k] ELSE n[k - Len(d)]
  BY <1>1, ConcatProperties
<1>3. Len(n) \in Nat /\ EchoLine(n) = y BY DEF EchoLine, d
<1> HIDE DEF y
<1>4. y[1] = "echo" /\ y[2] = Space /\ y[3] = "$"
  <2>1. 1 \in 1 .. 3 + Len(n) /\ 2 \in 1 .. 3 + Len(n) /\ 3 \in 1 .. 3 + Len(n) BY <1>3
  <2> QED BY <1>1, <1>2, <2>1
<1>5. ASSUME NEW k \in 1 .. Len(n) PROVE y[k + 3] = n[k]
  <2>1. k + 3 \in 1 .. 3 + Len(n) /\ ~(k + 3 <= 3) /\ (k + 3) - 3 = k BY <1>3
  <2> QED BY <1>1, <1>2, <2>1
<1>6. Len(y) = Len(n) + 3 BY <1>1, <1>2, <1>3
<1> QED BY <1>2, <1>3, <1>4, <1>5, <1>6

LEMMA EchoArgc ==
  ASSUME NEW S, {"echo", Space, "$"} \subseteq S, NEW n \in Seq(S)
  PROVE Argc(EchoLine(n)) \in Nat /\ Argc(EchoLine(n)) >= 2
<1> DEFINE line == EchoLine(n)
<1>1. line \in Seq(S) /\ Len(line) = Len(n) + 3 /\ line[2] = Space /\ Len(n) \in Nat BY EchoLineIs
<1> HIDE DEF line
<1>2. 2 \in Spaces(line) /\ Spaces(line) \subseteq 1 .. Len(line) BY <1>1 DEF Spaces
<1>3. IsFiniteSet(Spaces(line))
  <2>1. IsFiniteSet(1 .. Len(line)) BY <1>1, FS_Interval
  <2> QED BY <1>2, <2>1, FS_Subset
<1>4. Cardinality(Spaces(line)) \in Nat /\ Cardinality(Spaces(line)) # 0
  BY <1>2, <1>3, FS_CardinalityType, FS_EmptySet
<1> QED BY <1>4 DEF Argc, line

LEMMA CutLast ==
  ASSUME NEW x, NEW y, NEW c, c # Space
  PROVE Cut(<<x, y>>, c) = <<x, Append(y, c)>>
BY DEF Cut

LEMMA EchoArgv ==
  ASSUME NEW n \in Seq(Plain)
  PROVE Argv(EchoLine(n)) = <<<<"echo">>, Prefixed(n)>>
<1> DEFINE C == Plain \cup {"echo", "$"}
           S == C \cup {Space}
           line == EchoLine(n)
           m == Len(n)
           word(k) == Prefixed(SubSeq(n, 1, k))
<1>1. n \in Seq(C) /\ n \in Seq(S) /\ {"echo", Space, "$"} \subseteq S /\ "$" \in C /\ m \in Nat
  <2>1. Plain \subseteq C /\ Plain \subseteq S OBVIOUS
  <2> HIDE DEF C, S
  <2>2. n \in Seq(C) /\ n \in Seq(S) BY <2>1
  <2> QED BY <2>2 DEF C, S
<1>2. \A c \in C : c # Space BY DEF Plain, Space
<1> HIDE DEF C, m
<1>3. /\ line \in Seq(S) /\ Len(line) = m + 3
      /\ line[1] = "echo" /\ line[2] = Space /\ line[3] = "$"
      /\ \A k \in 1 .. m : line[k + 3] = n[k]
  BY <1>1, EchoLineIs DEF m
<1> HIDE DEF line
<1>4. PICK a \in [0 .. Len(line) -> ArgsOf(C)] :
        /\ a[0] = <<<<>>>>
        /\ \A k \in 1 .. Len(line) : a[k] = Cut(a[k - 1], line[k])
        /\ Argv(line) = a[Len(line)]
  BY <1>3, CutStepsOf
<1>5. a[3] = <<<<"echo">>, <<"$">>>>
  <2>1. 1 \in 1 .. Len(line) /\ 2 \in 1 .. Len(line) /\ 3 \in 1 .. Len(line) BY <1>1, <1>3
  <2>2. a[1] = Cut(a[0], line[1]) /\ a[2] = Cut(a[1], line[2]) /\ a[3] = Cut(a[2], line[3])
    BY <1>4, <2>1
  <2>3. a[1] = <<<<"echo">>>>
    <3>1. "echo" # Space BY DEF Space
    <3>2. Cut(<<<<>>>>, "echo") = <<<<"echo">>>> BY <3>1 DEF Cut
    <3> QED BY <1>3, <1>4, <2>2, <3>2
  <2>4. a[2] = <<<<"echo">>, <<>>>>
    <3>0. \A x, y : Append(<<x>>, y) = <<x, y>> OBVIOUS
    <3>1. Cut(<<<<"echo">>>>, Space) = <<<<"echo">>, <<>>>> BY <3>0 DEF Cut
    <3> QED BY <1>3, <2>2, <2>3, <3>1
  <2>5. Cut(<<<<"echo">>, <<>>>>, "$") = <<<<"echo">>, <<"$">>>>
    <3>1. "$" # Space BY DEF Space
    <3>2. Append(<<>>, "$") = <<"$">> OBVIOUS
    <3> QED BY <3>1, <3>2, CutLast
  <2> QED BY <1>3, <2>2, <2>4, <2>5
<1>6. word(0) = <<"$">>
  <2>1. SubSeq(n, 1, 0) = <<>> BY <1>1
  <2>2. <<"$">> \o <<>> = <<"$">> OBVIOUS
  <2> QED BY <2>1, <2>2 DEF Prefixed
<1>7. ASSUME NEW k \in 0 .. (m - 1) PROVE word(k + 1) = Append(word(k), n[k + 1])
  <2> DEFINE u == SubSeq(n, 1, k)
             c == n[k + 1]
             d == <<"$">>
  <2>1. k + 1 \in 1 .. m /\ 1 \in 1 .. k + 1 /\ k \in 0 .. Len(n) - 1 BY <1>1 DEF m
  <2>2. SubSeq(n, 1, k + 1) = Append(u, c) BY <1>1, <2>1, SubSeqNext
  <2>3. c \in C /\ u \in Seq(C) BY <1>1, <2>1 DEF m
  <2>4. d \in Seq(C) BY <1>1
  <2> HIDE DEF u, c, d
  <2>5. d \o Append(u, c) = Append(d \o u, c) BY <2>3, <2>4
  <2> QED BY <2>2, <2>5 DEF Prefixed, u, c, d
<1> HIDE DEF word
<1> DEFINE P == {k \in 0 .. m : a[k + 3] = <<<<"echo">>, word(k)>>}
<1>8. 0 \in P BY <1>1, <1>5, <1>6
<1>9. ASSUME NEW k \in 0 .. (m - 1), k \in P PROVE k + 1 \in P
  <2>1. k + 1 \in 1 .. m /\ (k + 1) + 3 \in 1 .. Len(line) /\ ((k + 1) + 3) - 1 = k + 3 BY <1>1, <1>3
  <2>2. a[(k + 1) + 3] = Cut(a[k + 3], line[(k + 1) + 3]) BY <1>4, <2>1
  <2>3. line[(k + 1) + 3] = n[k + 1] BY <1>3, <2>1
  <2>4. n[k + 1] # Space
    <3>1. n[k + 1] \in C BY <1>1, <2>1 DEF m
    <3> QED BY <1>2, <3>1
  <2>5. a[k + 3] = <<<<"echo">>, word(k)>> BY <1>9
  <2>6. a[(k + 1) + 3] = <<<<"echo">>, Append(word(k), n[k + 1])>> BY <2>2, <2>3, <2>4, <2>5, CutLast
  <2>7. a[(k + 1) + 3] = <<<<"echo">>, word(k + 1)>> BY <1>7, <2>6
  <2> QED BY <2>1, <2>7
<1>10. m \in P
  <2>1. m \in 0 .. m BY <1>1
  <2> HIDE DEF P
  <2> QED BY <1>1, <1>8, <1>9, <2>1, Ind
<1>11. word(m) = Prefixed(n)
  <2>1. SubSeq(n, 1, Len(n)) = n OBVIOUS
  <2> QED BY <2>1 DEF word, m
<1> QED BY <1>3, <1>4, <1>10, <1>11 DEF line

(* An expression that does not divide is a whole number.                   *)
WholeReader(a) ==
  /\ a \in Reader /\ ~a.error
  /\ a.sum.e >= 0 /\ a.term.e >= 0 /\ a.op # "/"

LEMMA WholeGrown ==
  ASSUME NEW a, WholeReader(a), NEW q \in Float, q.e >= 0
  PROVE /\ ~Fails(a, q)
        /\ Grown(a, q) \in Float /\ Grown(a, q).e >= 0
        /\ Summed(a, q) \in Float /\ Summed(a, q).e >= 0
<1>1. /\ a.sum \in Float /\ a.sumOp \in {"+", "-", None}
      /\ a.term \in Float /\ a.op \in {"*", None}
      /\ a.sum.e >= 0 /\ a.term.e >= 0 /\ ~a.error
  BY DEF WholeReader, Reader
<1>2. ~Fails(a, q) BY <1>1 DEF Fails, None
<1>3. Grown(a, q) \in Float /\ Grown(a, q).e >= 0
  <2>1. CASE a.op = None BY <2>1 DEF Grown, Applied
  <2>2. CASE a.op # None
    <3>1. a.op \in Ops /\ a.op # "/" BY <1>1, <2>2 DEF Ops
    <3>2. Apply(a.op, a.term, q) \in Float /\ Apply(a.op, a.term, q).e >= 0
      BY <1>1, <3>1, ApplyFloat
    <3> QED BY <2>2, <3>2 DEF Grown, Applied
  <2> QED BY <2>1, <2>2
<1>4. Summed(a, q) \in Float /\ Summed(a, q).e >= 0
  <2> DEFINE g == Grown(a, q)
  <2>1. g \in Float /\ g.e >= 0 BY <1>3
  <2> HIDE DEF g
  <2>2. CASE a.sumOp = None BY <2>1, <2>2 DEF Summed, Applied, g
  <2>3. CASE a.sumOp # None
    <3>1. a.sumOp \in Ops /\ a.sumOp # "/" BY <1>1, <2>3 DEF Ops
    <3>2. Apply(a.sumOp, a.sum, g) \in Float /\ Apply(a.sumOp, a.sum, g).e >= 0
      BY <1>1, <2>1, <3>1, ApplyFloat
    <3> QED BY <2>3, <3>2 DEF Summed, Applied, g
  <2> QED BY <2>2, <2>3
<1> QED BY <1>2, <1>3, <1>4

LEMMA WholeAdvance ==
  ASSUME NEW a, WholeReader(a), NEW q \in Float, q.e >= 0, NEW o \in Ops, o # "/"
  PROVE WholeReader(Advance(a, q, o))
<1> DEFINE g == Grown(a, q)
           u == Summed(a, q)
<1>1. a \in Reader /\ a.sum.e >= 0 BY DEF WholeReader
<1>2. ~Fails(a, q) /\ g.e >= 0 /\ u.e >= 0 BY WholeGrown
<1>3. Advance(a, q, o) \in Reader BY <1>1, AdvanceType
<1>4. Advance(a, q, o) =
        IF High(o) THEN [sum |-> a.sum, sumOp |-> a.sumOp, term |-> g, op |-> o, error |-> FALSE]
        ELSE [sum |-> u, sumOp |-> o, term |-> Zero, op |-> None, error |-> FALSE]
  BY <1>1, <1>2, AdvanceIs
<1> HIDE DEF g, u
<1> QED BY <1>1, <1>2, <1>3, <1>4, ZeroType DEF WholeReader, None

LEMMA TotalWhole ==
  ASSUME NEW text \in Seq(Char), is_exp(text), ~IsFloat(text)
  PROVE Total(Scanned(text)) \in Float /\ Total(Scanned(text)).e >= 0
<1> DEFINE s0 == [at |-> Begin, num |-> <<>>]
           s == strip_spaces(text)
           r == Scanned(text)
           n == Len(s)
<1>1. text \in Seq(Typed) BY ExpTyped
<1>2. s \in Seq(Symbols) /\ \A k \in DOMAIN s : s[k] # "/"
  <2>1. \A k \in DOMAIN text : text[k] # "/" BY DEF IsFloat
  <2> QED BY <1>1, <2>1, StripType, StripKeeps
<1>3. s0 \in Scanner BY BeginType DEF Scanner
<1>4. r = FoldLeft(Scan, s0, s) BY DEF Scanned
<1>5. WholeReader(s0.at) BY BeginType, ZeroType DEF WholeReader, Begin, None
<1> HIDE DEF s0, s, r
<1>6. PICK a \in [0 .. n -> Scanner] :
        /\ a[0] = s0
        /\ \A k \in 1 .. n : a[k] = Scan(a[k - 1], s[k])
        /\ FoldLeft(Scan, s0, s) = a[n]
  BY <1>2, <1>3, ScanSteps
<1>7. n \in Nat /\ DOMAIN s = 1 .. n /\ \A k \in 1 .. n : s[k] \in Symbols BY <1>2
<1> HIDE DEF n
<1> DEFINE P == {k \in 0 .. n : WholeReader(a[k].at)}
<1>8. 0 \in P BY <1>5, <1>6, <1>7
<1>9. ASSUME NEW k \in 0 .. (n - 1), k \in P PROVE k + 1 \in P
  <2> DEFINE b == a[k]
             c == s[k + 1]
             q == FromInt(atoi(b.num))
  <2>1. k + 1 \in 1 .. n /\ k + 1 \in 0 .. n /\ (k + 1) - 1 = k /\ k \in 0 .. n BY <1>7
  <2>2. a[k + 1] = Scan(b, c) BY <1>6, <2>1
  <2>3. c \in Symbols /\ c # "/" BY <1>2, <1>7, <2>1
  <2>4. b \in Scanner BY <1>6, <2>1
  <2>5. WholeReader(b.at) BY <1>9
  <2> HIDE DEF b, c
  <2>6. b.num \in Seq(Digits) BY <2>4 DEF Scanner
  <2>7. q \in Float /\ q.e >= 0 BY <2>6, AtoiFloat
  <2>8. WholeReader(Scan(b, c).at)
    <3>1. CASE isdigit(c)
      <4>1. Scan(b, c).at = b.at BY <2>4, <3>1 DEF Scan, Scanner
      <4> QED BY <2>5, <4>1
    <3>2. CASE ~isdigit(c)
      <4>1. c \in Ops BY <2>3, <3>2 DEF Symbols, isdigit
      <4>2. Scan(b, c).at = Advance(b.at, q, c) BY <3>2 DEF Scan
      <4> HIDE DEF q
      <4> QED BY <2>3, <2>5, <2>7, <4>1, <4>2, WholeAdvance
    <3> QED BY <3>1, <3>2
  <2> QED BY <2>1, <2>2, <2>8
<1>10. n \in P
  <2>1. n \in 0 .. n BY <1>7
  <2> HIDE DEF P
  <2> QED BY <1>7, <1>8, <1>9, <2>1, Ind
<1>11. WholeReader(r.at) /\ r \in Scanner
  <2>1. n \in 0 .. n BY <1>7
  <2> QED BY <1>4, <1>6, <1>10, <2>1
<1> DEFINE q == FromInt(atoi(r.num))
<1>12. r.num \in Seq(Digits) BY <1>11 DEF Scanner
<1>13. q \in Float /\ q.e >= 0 BY <1>12, AtoiFloat
<1>14. ~Broken(r) /\ Total(r) = Summed(r.at, q)
  <2>1. ~Fails(r.at, q) BY <1>11, <1>13, WholeGrown
  <2> QED BY <2>1 DEF Broken, Total
<1> HIDE DEF q
<1>15. Total(r) \in Float /\ Total(r).e >= 0 BY <1>11, <1>13, <1>14, WholeGrown
<1> QED BY <1>15 DEF r

(* What else is kept: no name has a space in it, so that echo can name it. *)
Echoed(v) == v.name \in Seq(Plain)

AllEchoed ==
  /\ pending \in Seq(Plain)
  /\ \A k \in DOMAIN variables : Echoed(variables[k])

LEMMA AllEchoedInit == Init => AllEchoed
<1> SUFFICES ASSUME Init PROVE AllEchoed OBVIOUS
<1>1. {"p", "w", "d"} \subseteq Plain BY SessionAssumption DEF Plain, Space
<1>2. <<"p", "w", "d">> \in Seq(Plain) BY <1>1
<1>4. Echoed(Pwd) BY <1>2 DEF Echoed, Pwd
<1>5. DOMAIN <<Pwd>> = {1} /\ <<Pwd>>[1] = Pwd OBVIOUS
<1>6. variables = <<Pwd>> /\ pending = <<>> BY DEF Init
<1> QED BY <1>4, <1>5, <1>6 DEF AllEchoed

LEMMA PushedEchoed ==
  ASSUME variables \in Seq(Cell), NamesOnce, NEW n \in Seq(Char), NEW v \in Data,
         AllEchoed, n \in Seq(Plain)
  PROVE \A k \in DOMAIN Pushed(n, v) : Echoed(Pushed(n, v)[k])
<1> DEFINE list == Pushed(n, v)
<1>1. \A j \in DOMAIN list :
        \/ list[j].name = n /\ list[j].value = v
        \/ list[j].name # n /\ \E i \in DOMAIN variables : list[j] = variables[i]
  BY PushedIs
<1> HIDE DEF list
<1>2. ASSUME NEW k \in DOMAIN list PROVE Echoed(list[k]) BY <1>1 DEF Echoed, AllEchoed
<1> QED BY <1>2 DEF list

LEMMA AllEchoedNext == IInv /\ AllEchoed /\ [Next]_session => AllEchoed'
<1> SUFFICES ASSUME IInv, AllEchoed, [Next]_session PROVE AllEchoed'
  OBVIOUS
<1>1. Calculates /\ Listed /\ Evaluating /\ given \in Seq(Char) /\ entered \in 0 .. Len(Session)
  BY InvParts
<1>2. variables \in Seq(Cell) /\ NamesOnce /\ pending \in Seq(Char) BY <1>1 DEF Listed
<1>3. ASSUME UNCHANGED <<variables, pending>> PROVE AllEchoed'
  BY <1>3 DEF AllEchoed, Echoed
<1>4. CASE Evaluate BY <1>3, <1>4 DEF Evaluate
<1>5. CASE UNCHANGED session BY <1>3, <1>5 DEF session
<1>6. CASE Store
  <2>1. /\ pc \in {"done", "error"} /\ pending' = <<>> /\ variables' = Pushed(pending, Result)
    BY <1>6 DEF Store, Return
  <2>2. nums \in Seq(Float) /\ Len(nums) = 1 BY <1>1, <2>1, CalculatesDone
  <2>3. Result \in Data
    <3>1. nums[1] \in Float BY <2>2
    <3> QED BY <3>1, ConvertedType DEF Result
  <2>5. pending \in Seq(Plain) BY DEF AllEchoed
  <2>6. \A k \in DOMAIN Pushed(pending, Result) : Echoed(Pushed(pending, Result)[k])
    BY <1>2, <2>3, <2>5, PushedEchoed
  <2> QED BY <2>1, <2>6 DEF AllEchoed, Echoed
<1>7. CASE Enter
  <2>1. PICK line \in Session[entered + 1] : Execute(line) BY <1>7 DEF Enter
  <2>2. line \in Seq(Char)
    <3>1. Len(Session) \in Nat /\ \A k \in 1 .. Len(Session) : Session[k] \subseteq Seq(Char)
      BY SessionAssumption
    <3>2. entered + 1 \in 1 .. Len(Session) BY <1>1, <1>7, <3>1 DEF Enter
    <3> QED BY <2>1, <3>1, <3>2
  <2> DEFINE n == Argv(line)[2]
             data == Combine(SubSeq(Argv(line), 3, Argc(line)))
  <2>3. ASSUME IsSet(line) PROVE n \in Seq(Char) /\ n \in Seq(Plain) /\ data \in Seq(Char)
    <3>1. Argc(line) >= 3 BY <2>3 DEF IsSet, MinArgs
    <3>2. Len(Argv(line)) = Argc(line) /\ Argc(line) \in Nat BY <2>2, ArgvType
    <3>3. Argv(line) \in Seq(Seq(Plain)) BY <2>2, ArgvPlain DEF ArgsOf
    <3>4. n \in Seq(Plain) BY <3>1, <3>2, <3>3
    <3> QED BY <2>2, <2>3, <3>4, SetIs
  <2>4. CASE SetString(line)
    <3>1. /\ IsSet(line) /\ variables' = Pushed(n, String(data)) /\ pending' = pending
      BY <2>4 DEF SetString
    <3>2. n \in Seq(Char) /\ n \in Seq(Plain) /\ data \in Seq(Char) BY <2>3, <3>1
    <3> HIDE DEF n, data
    <3>3. String(data) \in Data BY <3>2 DEF String, Data
    <3>4. \A k \in DOMAIN Pushed(n, String(data)) : Echoed(Pushed(n, String(data))[k])
      BY <1>2, <3>2, <3>3, PushedEchoed
    <3> QED BY <3>1, <3>4 DEF AllEchoed, Echoed
  <2>5. CASE SetExp(line)
    <3>1. IsSet(line) /\ variables' = variables /\ pending' = n BY <2>5 DEF SetExp
    <3>2. n \in Seq(Plain) BY <2>3, <3>1
    <3> QED BY <3>1, <3>2 DEF AllEchoed, Echoed
  <2>6. CASE Other(line) BY <1>3, <2>6 DEF Other
  <2> QED BY <2>1, <2>4, <2>5, <2>6 DEF Execute
<1> QED BY <1>4, <1>5, <1>6, <1>7 DEF Next

(* A step that changes nothing of the evaluation is one of a settled list. *)
LEMMA CalcMoves ==
  ASSUME IInv, [Next]_session, session' # session, UNCHANGED calc
  PROVE pc = "idle"
<1>1. Calculates BY InvParts
<1>2. /\ exp \in Seq(Digits \cup Ops) /\ count \in Nat
      /\ UNCHANGED <<exp, pc, count>>
  BY <1>1 DEF Calculates, InStep, calc
<1>3. CASE Enter BY <1>3 DEF Enter
<1>4. CASE Store BY <1>2, <1>4 DEF Store, Return
<1>5. CASE Evaluate
  <2>1. ~Parse
    <3> SUFFICES ASSUME Parse PROVE FALSE OBVIOUS
    <3>1. exp # <<>> /\ exp' = Tail(exp) BY DEF Parse
    <3>2. Len(Tail(exp)) = Len(exp) - 1 /\ Len(exp) \in Nat BY <1>2, <3>1
    <3> QED BY <1>2, <3>1, <3>2
  <2>2. ~ParseEnd BY <1>2 DEF ParseEnd
  <2>3. ~Reduce BY <1>2 DEF Reduce, Left
  <2>4. ~DivideByZero BY <1>2 DEF DivideByZero
  <2>5. ~Finish BY <1>2 DEF Finish
  <2> QED BY <1>5, <2>1, <2>2, <2>3, <2>4, <2>5 DEF Evaluate, Step
<1> QED BY <1>3, <1>4, <1>5 DEF Next

(* What is printed of a variable reads as what was entered for it.         *)
Letters == Char \cup Figures \cup {NewLine}

(* A text, or an expression that does not divide, whose value is an int    *)
(* that is not below 0.                                                    *)
Undivided(text) == Printable(text) /\ (is_exp(text) => ~IsFloat(text))

LEMMA PrintedReads ==
  ASSUME IInv, pc = "idle", NEW m \in DOMAIN variables,
         Undivided(typed[variables[m].name])
  PROVE /\ Printed(variables[m].value) \in Seq(Letters)
        /\ Reads(Printed(variables[m].value), typed[variables[m].name])
<1> DEFINE v == variables[m].value
           n == variables[m].name
           text == typed[n]
           total == Total(Scanned(text))
<1>1. Listed BY InvParts
<1>2. v \in Data /\ n \in Names
  <2>1. variables \in Seq(Cell) BY <1>1 DEF Listed
  <2>2. variables[m] \in Cell BY <2>1
  <2>3. v \in Data BY <2>2 DEF Cell
  <2> QED BY <2>3 DEF Names, NamesOf
<1>3. text \in Seq(Char)
  <2>1. typed \in [Names -> Seq(Char)] BY <1>1 DEF Listed
  <2> QED BY <1>2, <2>1
<1>4. Settled(m) BY DEF Settled
<1>5. ~is_exp(text) => v = String(text) BY <1>1, <1>4 DEF Listed, HoldsText
<1>6. is_exp(text) => v = Converted(text, total) BY <1>1, <1>4 DEF Listed, HoldsValue
<1>7. Undivided(text) OBVIOUS
<1>8. /\ \A s \in Seq(Char) : s \in Seq(Letters)
      /\ \A s \in Seq(Figures) : s \in Seq(Letters)
  <2>1. Char \subseteq Letters /\ Figures \subseteq Letters BY DEF Letters
  <2> QED BY <2>1
<1> HIDE DEF v, text
<1>9. CASE ~is_exp(text)
  <2>1. v.type = "STRING" /\ v.data = text BY <1>5, <1>9 DEF String
  <2>2. Printed(v) = text BY <2>1 DEF Printed
  <2> QED BY <1>3, <1>8, <1>9, <2>2 DEF Reads, v, text
<1>10. CASE is_exp(text)
  <2>1. total \in Float /\ total.e >= 0 BY <1>3, <1>7, <1>10, TotalWhole DEF Undivided
  <2>2. total.m >= 0 /\ Fits(total) BY <1>7, <1>10 DEF Undivided, Printable
  <2>3. v = [type |-> "INT", data |-> ToInt(total)]
    BY <1>6, <1>7, <1>10 DEF Converted, Undivided
  <2> HIDE DEF total
  <2>4. Whole(total) BY <2>1, <2>2 DEF Whole, Fits
  <2>5. Printed(v) = putd[ToInt(total)] BY <2>3 DEF Printed
  <2>6. putd[ToInt(total)] \in Seq(Figures) /\ ReadsAs(putd[ToInt(total)], total)
    BY <2>1, <2>2, <2>4, putdReadsAs
  <2> QED BY <1>8, <1>10, <2>5, <2>6 DEF Reads, total, v, text
<1> QED BY <1>9, <1>10

(* echo $name prints what is printed of the variable, and two characters.  *)
LEMMA EchoPrints ==
  ASSUME IInv, AllEchoed, NEW m \in DOMAIN variables,
         Printed(variables[m].value) \in Seq(Letters)
  PROVE echo(EchoLine(variables[m].name)) = Printed(variables[m].value) \o <<Space>> \o <<NewLine>>
<1> DEFINE n == variables[m].name
           shows == Printed(variables[m].value) \o <<Space>>
           w == Prefixed(n)
           line == EchoLine(n)
<1>1. variables \in Seq(Cell) /\ NamesOnce BY InvParts DEF Listed
<1>2. n \in Seq(Plain) BY DEF AllEchoed, Echoed
<1>3. Argv(line) = <<<<"echo">>, w>> BY <1>2, EchoArgv
<1>4. shows \in Seq(Letters)
  <2>1. Space \in Letters BY SessionAssumption DEF Letters
  <2>2. <<Space>> \in Seq(Letters) BY <2>1
  <2> QED BY <2>2, ConcatProperties
<1>5. w # <<>> /\ Head(w) = "$" /\ Tail(w) = n
  <2> DEFINE S == Plain \cup {"$"}
  <2>1. n \in Seq(S) /\ "$" \in S
    <3>1. Plain \subseteq S OBVIOUS
    <3> HIDE DEF S
    <3>2. n \in Seq(S) BY <1>2, <3>1
    <3> QED BY <3>2 DEF S
  <2> HIDE DEF S, n
  <2>2. /\ w \in Seq(S) /\ Len(w) = Len(n) + 1
        /\ w[1] = "$" /\ \A k \in 1 .. Len(n) : w[k + 1] = n[k]
    BY <2>1, PrefixedIs
  <2> HIDE DEF w
  <2>3. w # <<>> /\ Head(w) = "$" BY <2>1, <2>2
  <2>4. /\ Tail(w) \in Seq(S) /\ Len(Tail(w)) = Len(n)
        /\ \A k \in 1 .. Len(n) : Tail(w)[k] = w[k + 1]
    BY <2>1, <2>2, <2>3
  <2>5. \A k \in 1 .. Len(n) : Tail(w)[k] = n[k] BY <2>2, <2>4
  <2>6. Tail(w) = n BY <2>1, <2>4, <2>5
  <2> QED BY <2>3, <2>6
<1> HIDE DEF line, w
<1>6. Word(w) = shows
  <2> DEFINE f == [k \in DOMAIN variables |->
                     IF variables[k].name = n
                     THEN Printed(variables[k].value) \o <<Space>> ELSE <<>>]
             g == Len(variables)
  <2>1. DOMAIN variables = 1 .. g /\ g \in Nat BY <1>1
  <2>2. \A k \in DOMAIN variables : k # m => variables[k].name # n BY <1>1 DEF NamesOnce
  <2>3. f[m] = shows OBVIOUS
  <2>4. \A k \in 1 .. g : k # m => f[k] = <<>> BY <2>1, <2>2
  <2>5. f \in [1 .. g -> Seq(Letters)]
    <3>1. <<>> \in Seq(Letters) OBVIOUS
    <3>2. \A k \in 1 .. g : f[k] \in Seq(Letters) BY <1>4, <2>1, <2>3, <2>4, <3>1
    <3>3. f = [k \in 1 .. g |-> f[k]] BY <2>1
    <3> HIDE DEF f
    <3> QED BY <3>2, <3>3
  <2>6. m \in 1 .. g BY <2>1
  <2>7. Word(w) = FlattenSeq(f) BY <1>5 DEF Word, NameIn
  <2> HIDE DEF f, g, shows
  <2>8. OnlyAt(m, g, f) BY <2>4 DEF OnlyAt
  <2>9. FlattenSeq(f) = f[m] BY <2>1, <2>5, <2>6, <2>8, FlattenOne
  <2> QED BY <2>3, <2>7, <2>9
<1> DEFINE words == Tail(Argv(line))
           h == [k \in DOMAIN words |-> Word(words[k])]
<1>7. words = <<w>> BY <1>3
<1>8. h \in [1 .. 1 -> Seq(Letters)] /\ h[1] = shows
  <2>0. DOMAIN <<w>> = 1 .. 1 /\ <<w>>[1] = w OBVIOUS
  <2>1. DOMAIN words = 1 .. 1 /\ words[1] = w BY <1>7, <2>0
  <2> HIDE DEF words
  <2>2. h = [k \in 1 .. 1 |-> Word(words[k])] BY <2>1
  <2>3. \A k \in 1 .. 1 : Word(words[k]) = shows BY <1>6, <2>1
  <2> HIDE DEF shows, h
  <2> QED BY <1>4, <2>2, <2>3
<1>9. FlattenSeq(h) = shows
  <2> HIDE DEF h, shows
  <2> QED BY <1>8, FlattenSingle
<1>10. echo(line) = FlattenSeq(h) \o <<NewLine>> BY DEF echo
<1> QED BY <1>9, <1>10 DEF line

LEMMA WithoutTwo ==
  ASSUME NEW S, NEW x \in Seq(S), NEW b \in S, NEW c \in S
  PROVE LET y == x \o <<b>> \o <<c>>
        IN Len(y) >= 2 /\ SubSeq(y, 1, Len(y) - 2) = x
<1> DEFINE n == Len(x)
           z == x \o <<b>>
           y == z \o <<c>>
<1>1. n \in Nat /\ z = Append(x, b) /\ z \in Seq(S) OBVIOUS
<1>2. y = Append(Append(x, b), c)
  <2> HIDE DEF z
  <2>1. y = Append(z, c) BY <1>1
  <2> QED BY <1>1, <2>1
<1> HIDE DEF y, z
<1>3. y \in Seq(S) /\ Len(y) = n + 2 /\ \A k \in 1 .. n : y[k] = x[k] BY <1>2
<1>4. Len(y) - 2 = n /\ Len(y) >= 2 BY <1>1, <1>3
<1>5. SubSeq(y, 1, n) = x
  <2> DEFINE u == SubSeq(y, 1, n)
  <2>1. u \in Seq(S) /\ Len(u) = n /\ \A k \in 1 .. n : u[k] = y[k] BY <1>1, <1>3
  <2> HIDE DEF u
  <2>2. \A k \in 1 .. n : u[k] = x[k] BY <1>3, <2>1
  <2>3. u = x BY <2>1, <2>2
  <2> QED BY <2>3 DEF u
<1> QED BY <1>4, <1>5 DEF y, z

LEMMA EchoStep ==
  ASSUME IInv, AllEchoed, [Next]_session, session' # session,
         NEW n \in Names, Echoes(n), Undivided(typed[n])
  PROVE Len(shown') >= 2 /\ Reads(SubSeq(shown', 1, Len(shown') - 2), typed[n])
<1> DEFINE line == EchoLine(n)
<1>1. PICK m \in DOMAIN variables : variables[m].name = n BY DEF Names, NamesOf
<1>2. n \in Seq(Plain) BY <1>1 DEF AllEchoed, Echoed
<1>3. Execute(line) BY DEF Echoes, EchoLine
<1>4. Argv(line)[1] = <<"echo">>
  <2>1. Argv(line) = <<<<"echo">>, Prefixed(n)>> BY <1>2, EchoArgv
  <2> QED BY <2>1
<1>5. Argc(line) >= 2
  <2> DEFINE S == Plain \cup {"echo", Space, "$"}
  <2>1. Plain \subseteq S /\ {"echo", Space, "$"} \subseteq S OBVIOUS
  <2> HIDE DEF S
  <2>2. n \in Seq(S) BY <1>2, <2>1
  <2> QED BY <2>1, <2>2, EchoArgc
<1> HIDE DEF line
<1>6. ~IsSet(line) /\ ~IsVars(line)
  <2>1. <<"echo">> # <<"set">> /\ <<"echo">> # <<"vars">> OBVIOUS
  <2> QED BY <1>4, <2>1 DEF IsSet, IsVars
<1>7. IsEcho(line) BY <1>4, <1>5 DEF IsEcho, MinArgs
<1>8. UNCHANGED calc /\ shown' = Output(line)
  BY <1>3, <1>6 DEF Execute, SetString, SetExp, Other
<1>9. shown' = echo(line) BY <1>6, <1>7, <1>8 DEF Output
<1>10. pc = "idle" BY <1>8, CalcMoves
<1> DEFINE out == Printed(variables[m].value)
<1>11. out \in Seq(Letters) /\ Reads(out, typed[n]) BY <1>1, <1>10, PrintedReads
<1> HIDE DEF out
<1>12. shown' = out \o <<Space>> \o <<NewLine>> BY <1>1, <1>9, <1>11, EchoPrints DEF out, line
<1>13. Space \in Letters /\ NewLine \in Letters BY SessionAssumption DEF Letters
<1>14. Len(shown') >= 2 /\ SubSeq(shown', 1, Len(shown') - 2) = out
  BY <1>11, <1>12, <1>13, WithoutTwo
<1> QED BY <1>11, <1>14

-----------------------------------------------------------------------------
(* The inductive invariant holds, whatever lines are entered: the types,   *)
(* NamesOnce, HoldsText and HoldsValue, that the text being evaluated is   *)
(* the one entered last for its name, and that the numbers and operators   *)
(* left have the value of the whole expression.                            *)
THEOREM ShellInvariance == Spec => []IInv
<1>1. Init => IInv BY InitInv
<1>2. IInv /\ [Next]_session => IInv'
  BY EnterInv, EvaluateInv, StoreInv, StutterInv DEF Next
<1> QED BY <1>1, <1>2, PTL DEF Spec

(* nums[] and ops[] stay in step, and every variable has a value of its    *)
(* type.                                                                   *)
THEOREM ShellTypes == Spec => []TypeOK
<1>1. IInv => TypeOK BY DEF IInv
<1> QED BY <1>1, ShellInvariance, PTL

(* variables_push puts no name into the list twice.                        *)
THEOREM ShellNamesOnce == Spec => []NamesOnce
<1>1. IInv => NamesOnce BY DEF IInv
<1> QED BY <1>1, ShellInvariance, PTL

(* set stores a text as it was typed, spaces and all: shell_parse and      *)
(* shell_combine_strings lose nothing between them.                        *)
THEOREM ShellHoldsText == Spec => []HoldsText
<1>1. IInv => HoldsText BY DEF IInv
<1> QED BY <1>1, ShellInvariance, PTL

(* set stores an expression's value as the rules of precedence and the     *)
(* machine's arithmetic give it, however many operators it has: nums[] and *)
(* ops[] lose no number and no operator, and give 0 when it divides by 0.  *)
THEOREM ShellHoldsValue == Spec => []HoldsValue
<1>1. IInv => HoldsValue BY DEF IInv
<1> QED BY <1>1, ShellInvariance, PTL

(* echo $name prints what was entered for the name: its text, or, of an    *)
(* expression that does not divide and whose value is an int that is not   *)
(* below 0, the digits of that value.                                      *)
THEOREM EchoIsShown ==
  Spec => [][\A n \in Names \ {Pwd.name} :
               Echoes(n) /\ Undivided(typed[n]) =>
                 /\ Len(shown') >= 2
                 /\ Reads(SubSeq(shown', 1, Len(shown') - 2), typed[n])]_session
<1>1. Spec => []AllEchoed
  <2>1. Spec => []IInv BY ShellInvariance
  <2>2. IInv /\ AllEchoed /\ [Next]_session => AllEchoed' BY AllEchoedNext
  <2> QED BY <2>1, <2>2, AllEchoedInit, PTL DEF Spec
<1> DEFINE Shows ==
      \A n \in Names \ {Pwd.name} :
        Echoes(n) /\ Undivided(typed[n]) =>
          /\ Len(shown') >= 2
          /\ Reads(SubSeq(shown', 1, Len(shown') - 2), typed[n])
<1>2. IInv /\ AllEchoed /\ [Next]_session => [Shows]_session
  <2> SUFFICES ASSUME IInv, AllEchoed, [Next]_session, session' # session PROVE Shows
    OBVIOUS
  <2>1. ASSUME NEW n \in Names \ {Pwd.name}, Echoes(n), Undivided(typed[n])
        PROVE Len(shown') >= 2 /\ Reads(SubSeq(shown', 1, Len(shown') - 2), typed[n])
    BY <2>1, EchoStep
  <2> QED BY <2>1
<1> HIDE DEF Shows
<1>3. Spec => [][Shows]_session BY <1>1, <1>2, ShellInvariance, PTL DEF Spec
<1> QED BY <1>3 DEF Shows
=============================================================================
