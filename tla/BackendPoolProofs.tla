------------------------- MODULE BackendPoolProofs --------------------------
(***************************************************************************)
(* Proofs about BackendPool, for tables and lists of codings of any        *)
(* length: the headers describe the body, and the chain that runs down and *)
(* up keeps the promise of ForwardingContract.  The recursive functions of *)
(* the model are unfolded as in BackendPoolMatcherProofs, whose result is  *)
(* instantiated where it is needed: the two modules share no context.      *)
(***************************************************************************)
EXTENDS BackendPool, SequenceTheorems, WellFoundedInduction, TLAPS

(* A nonempty set of naturals has a least element.                         *)
LEMMA LeastNatural ==
  ASSUME NEW T, T \subseteq Nat, T # {}
  PROVE  \E x \in T : \A y \in T : x <= y
<1> DEFINE R == {ss \in Nat \X Nat : ss[1] < ss[2]}
<1>1. IsWellFoundedOn(R, Nat)
  BY NatLessThanWellFounded, Zenon DEF OpToRel
<1>2. PICK x \in T : \A y \in T : ~(<<y, x>> \in R)
  <2> HIDE DEF R
  <2> QED BY <1>1, WFMin, Zenon
<1>3. ASSUME NEW y \in T PROVE x <= y
  <2>1. ~(<<y, x>> \in R) /\ x \in Nat /\ y \in Nat
    BY <1>2
  <2> QED BY <2>1
<1> QED BY <1>3

(* From the last position of a range down to its first one.                *)
LEMMA Downwards ==
  ASSUME NEW lo \in Int, NEW hi \in Int, lo <= hi, NEW S,
         hi \in S, \A i \in lo .. hi - 1 : i + 1 \in S => i \in S
  PROVE  lo .. hi \subseteq S
<1> SUFFICES ASSUME NEW j \in lo .. hi, j \notin S PROVE FALSE
  OBVIOUS
<1> DEFINE T == {n \in Nat : hi - n \in lo .. hi /\ hi - n \notin S}
<1>1. hi - j \in T
  <2>1. hi - j \in Nat /\ hi - (hi - j) = j
    OBVIOUS
  <2> QED BY <2>1
<1>2. T \subseteq Nat /\ T # {}
  BY <1>1, Zenon
<1>3. PICK n \in T : \A m \in T : n <= m
  <2> HIDE DEF T
  <2> QED BY <1>2, LeastNatural, Zenon
<1>4. n \in Nat /\ hi - n \in lo .. hi /\ hi - n \notin S
  BY <1>3
<1>5. n # 0
  <2>1. hi - 0 = hi
    OBVIOUS
  <2> QED BY <1>4, <2>1
<1>6. n - 1 \in Nat /\ hi - (n - 1) = (hi - n) + 1 /\ hi - (n - 1) \in lo .. hi /\ hi - n \in lo .. hi - 1
  BY <1>4, <1>5
<1>7. hi - (n - 1) \in S
  <2>1. n - 1 \notin T
    BY <1>3, <1>4, <1>6
  <2> QED BY <1>6, <2>1
<1>8. (hi - n) + 1 \in S
  BY <1>6, <1>7, Zenon
<1> QED BY <1>4, <1>6, <1>8
-----------------------------------------------------------------------------
(* The chain from a position on, from the chain behind it.                 *)
ChainStep(table, c, i) ==
  IF i = Len(table) + 1 THEN <<>>
  ELSE IF Converts(table[i]) THEN <<table[i]>> \o c[i + 1] ELSE c[i + 1]

(* The positions of a range, and what lies below one of them.              *)
LEMMA RangeFirst == \A a \in Int : \A b \in Int : a <= b => a \in a .. b
OBVIOUS

LEMMA RangeInside == \A n \in Nat : 0 <= n /\ \A i \in 1 .. 3 : i \in 1 .. n <=> i <= n
OBVIOUS

LEMMA RangeBelow ==
  ASSUME NEW n \in Nat, NEW x \in 1 .. n
  PROVE  x <= n /\ x - 1 \in Nat /\ \A y \in 1 .. n : y < x => y <= x - 1 /\ y \in 1 .. x - 1
OBVIOUS

LEMMA RangeUp ==
  ASSUME NEW n \in Nat, NEW last \in Nat, NEW i \in 1 .. n, i <= last, NEW a \in 0 .. i - 1
  PROVE  i \in 1 .. last /\ a \in 0 .. last /\ i - 1 \in a .. last
OBVIOUS

LEMMA RangeDown ==
  ASSUME NEW n \in Nat, NEW i \in 0 .. n, i > 0
  PROVE  /\ i \in 1 .. n /\ i - 1 \in 0 .. n /\ i - 1 \in 0 .. n + 1
         /\ 1 .. i - 1 \subseteq 1 .. i /\ i \in 1 .. i
OBVIOUS

LEMMA SequenceIs ==
  ASSUME NEW s, IsSequence(s)
  PROVE  Len(s) \in Nat /\ DOMAIN s = 1 .. Len(s)
BY DEF IsSequence

(* ChainFrom satisfies the equation it is defined by.                      *)
LEMMA ChainUnfolds ==
  ASSUME NEW table, IsSequence(table)
  PROVE  ChainFrom(table) = [i \in 1 .. Len(table) + 1 |-> ChainStep(table, ChainFrom(table), i)]
<1> DEFINE n == Len(table)
           Unfolds(g, i) == g = [k \in i .. n + 1 |-> ChainStep(table, g, k)]
           S == {i \in 1 .. n + 1 : \E g : Unfolds(g, i)}
<1>1. n \in Nat
  BY DEF IsSequence
<1>2. n + 1 \in S
  <2> DEFINE g == [k \in n + 1 .. n + 1 |-> <<>>]
  <2>1. Unfolds(g, n + 1)
    BY <1>1 DEF ChainStep
  <2> HIDE DEF g, Unfolds
  <2> QED BY <1>1, <2>1
<1>3. ASSUME NEW i \in 1 .. n, i + 1 \in S PROVE i \in S
  <2>1. PICK g : Unfolds(g, i + 1)
    BY <1>3
  <2> DEFINE h == [k \in i .. n + 1 |-> ChainStep(table, g, k)]
  <2>2. \A k \in i + 1 .. n + 1 : h[k] = g[k]
    BY <1>1, <2>1
  <2>3. \A k \in i .. n + 1 : ChainStep(table, h, k) = ChainStep(table, g, k)
    <3> SUFFICES ASSUME NEW k \in i .. n + 1 PROVE ChainStep(table, h, k) = ChainStep(table, g, k)
      OBVIOUS
    <3>1. k # n + 1 => k + 1 \in i + 1 .. n + 1
      BY <1>1
    <3>2. k # n + 1 => h[k + 1] = g[k + 1]
      BY <2>2, <3>1, Zenon
    <3> HIDE DEF h
    <3> QED BY <3>2 DEF ChainStep
  <2>4. Unfolds(h, i)
    BY <2>3
  <2> HIDE DEF h, Unfolds
  <2> QED BY <1>1, <2>4
<1>4. 1 .. n + 1 \subseteq S
  <2> DEFINE lo == 1
             hi == n + 1
  <2> HIDE DEF S
  <2>1. lo \in Int /\ hi \in Int /\ lo <= hi /\ hi \in S
    BY <1>1, <1>2
  <2>2. \A i \in lo .. hi - 1 : i + 1 \in S => i \in S
    BY <1>1, <1>3
  <2> HIDE DEF lo, hi
  <2>3. lo .. hi \subseteq S
    BY <2>1, <2>2, Downwards
  <2> QED BY <2>3 DEF lo, hi
<1>5. \E g : Unfolds(g, 1)
  BY <1>1, <1>4
<1> QED BY <1>5, Zenon DEF ChainFrom, ChainStep

(* The entries of a chain c are, in order, the entries of the table from i *)
(* on that convert: p has their positions.                                 *)
Placed(table, c, i, p) ==
  /\ c \in Seq({table[t] : t \in DOMAIN table})
  /\ p \in [1 .. Len(c) -> i .. Len(table)]
  /\ \A j \in 1 .. Len(c) : Converts(table[p[j]]) /\ c[j] = table[p[j]]
  /\ \A j, k \in 1 .. Len(c) : j < k => p[j] < p[k]
  /\ \A t \in i .. Len(table) : Converts(table[t]) => \E j \in 1 .. Len(c) : p[j] = t

(* An entry that does not convert leaves the positions as they are.        *)
LEMMA PlacedSkips ==
  ASSUME NEW table, IsSequence(table), NEW i \in 1 .. Len(table), NEW c, NEW p,
         Placed(table, c, i + 1, p), ~Converts(table[i])
  PROVE  Placed(table, c, i, p)
<1>1. Len(table) \in Nat /\ Len(c) \in Nat
  BY DEF IsSequence, Placed
<1>2. i + 1 .. Len(table) \subseteq i .. Len(table)
  BY <1>1
<1>3. \A t \in i .. Len(table) : t = i \/ t \in i + 1 .. Len(table)
  BY <1>1
<1>4. p \in [1 .. Len(c) -> i .. Len(table)]
  BY <1>2 DEF Placed
<1> QED BY <1>3, <1>4 DEF Placed

(* One that converts comes first.                                          *)
LEMMA PlacedPrepends ==
  ASSUME NEW table, IsSequence(table), NEW i \in 1 .. Len(table), NEW c, NEW p,
         Placed(table, c, i + 1, p), Converts(table[i])
  PROVE  \E q : Placed(table, <<table[i]>> \o c, i, q)
<1> DEFINE X == {table[t] : t \in DOMAIN table}
           n == Len(table)
           m == Len(c)
           d == <<table[i]>> \o c
           q == [j \in 1 .. m + 1 |-> IF j = 1 THEN i ELSE p[j - 1]]
<1>1. n \in Nat /\ m \in Nat /\ DOMAIN table = 1 .. n /\ c \in Seq(X) /\ table[i] \in X
  BY DEF IsSequence, Placed
<1>2. /\ d \in Seq(X) /\ Len(d) = m + 1 /\ d[1] = table[i]
      /\ \A j \in 2 .. m + 1 : d[j] = c[j - 1]
  <2> HIDE DEF X
  <2> QED BY <1>1
<1>3. \A j \in 2 .. m + 1 : /\ j - 1 \in 1 .. m /\ q[j] = p[j - 1] /\ p[j - 1] \in i .. n /\ i < p[j - 1]
                            /\ Converts(table[p[j - 1]]) /\ c[j - 1] = table[p[j - 1]]
  <2> SUFFICES ASSUME NEW j \in 2 .. m + 1
               PROVE  /\ j - 1 \in 1 .. m /\ q[j] = p[j - 1] /\ p[j - 1] \in i .. n /\ i < p[j - 1]
                      /\ Converts(table[p[j - 1]]) /\ c[j - 1] = table[p[j - 1]]
    BY Zenon
  <2>1. j - 1 \in 1 .. m /\ q[j] = p[j - 1]
    BY <1>1
  <2>2. p[j - 1] \in i + 1 .. n /\ Converts(table[p[j - 1]]) /\ c[j - 1] = table[p[j - 1]]
    BY <2>1 DEF Placed
  <2> QED BY <1>1, <2>1, <2>2
<1>4. q[1] = i /\ 1 \in 1 .. m + 1 /\ DOMAIN q = 1 .. m + 1
  BY <1>1
<1>5. \A j \in 1 .. m + 1 : j = 1 \/ j \in 2 .. m + 1
  BY <1>1
<1>6. q \in [1 .. m + 1 -> i .. n]
  <2>1. \A j \in 1 .. m + 1 : q[j] \in i .. n
    <3> HIDE DEF q
    <3>1. i \in i .. n
      BY <1>1
    <3> QED BY <1>3, <1>4, <1>5, <3>1
  <2> QED BY <2>1
<1>7. \A j \in 1 .. m + 1 : Converts(table[q[j]]) /\ d[j] = table[q[j]]
  <2> HIDE DEF q, d
  <2> QED BY <1>2, <1>3, <1>4, <1>5, Zenon
<1>8. ASSUME NEW j \in 1 .. m + 1, NEW k \in 1 .. m + 1, j < k PROVE q[j] < q[k]
  <2> HIDE DEF q
  <2>1. k \in 2 .. m + 1 /\ j \in Int /\ k \in Int
    BY <1>1, <1>8
  <2>2. CASE j = 1
    BY <1>3, <1>4, <2>1, <2>2
  <2>3. CASE j \in 2 .. m + 1
    <3>1. j - 1 < k - 1
      BY <1>8, <2>1
    <3> QED BY <1>3, <2>1, <2>3, <3>1, Zenon DEF Placed
  <2> QED BY <1>5, <2>2, <2>3
<1>9. ASSUME NEW t \in i .. n, Converts(table[t]) PROVE \E j \in 1 .. m + 1 : q[j] = t
  <2> HIDE DEF q
  <2>1. CASE t = i
    BY <1>4, <2>1
  <2>2. CASE t \in i + 1 .. n
    <3>1. PICK j \in 1 .. m : p[j] = t
      BY <1>9, <2>2 DEF Placed
    <3>2. j + 1 \in 2 .. m + 1 /\ (j + 1) - 1 = j /\ j + 1 \in 1 .. m + 1
      BY <1>1, <3>1
    <3> QED BY <1>3, <3>1, <3>2, Zenon
  <2> QED BY <1>1, <2>1, <2>2
<1>10. Placed(table, d, i, q)
  <2> HIDE DEF q, d
  <2> QED BY <1>2, <1>6, <1>7, <1>8, <1>9 DEF Placed
<1> HIDE DEF q
<1> QED BY <1>10

(* From<Table> makes of a table the chain of its entries that convert, in  *)
(* the order of the table, and drops nothing else.                         *)
LEMMA ChainIsPlaced ==
  ASSUME NEW table, IsSequence(table)
  PROVE  /\ \E p : Placed(table, MiddlewareChain(table), 1, p)
         /\ Len(MiddlewareChain(table)) <= Len(table)
<1> DEFINE n == Len(table)
           C == ChainFrom(table)
           S == {i \in 1 .. n + 1 : (\E p : Placed(table, C[i], i, p)) /\ Len(C[i]) <= n + 1 - i}
<1>1. n \in Nat /\ \A i \in 1 .. n + 1 : C[i] = ChainStep(table, C, i)
  BY ChainUnfolds DEF IsSequence
<1> HIDE DEF C
<1>2. n + 1 \in S
  <2>0. n + 1 \in 1 .. n + 1
    BY <1>1
  <2>1. C[n + 1] = <<>>
    BY <1>1, <2>0, Zenon DEF ChainStep
  <2>2. Placed(table, <<>>, n + 1, <<>>)
    BY <1>1 DEF Placed
  <2>3. Len(C[n + 1]) <= n + 1 - (n + 1)
    BY <1>1, <2>1
  <2> QED BY <2>0, <2>1, <2>2, <2>3
<1>3. ASSUME NEW i \in 1 .. n, i + 1 \in S PROVE i \in S
  <2>1. PICK p : Placed(table, C[i + 1], i + 1, p)
    BY <1>3
  <2>2. Len(C[i + 1]) <= n + 1 - (i + 1) /\ Len(C[i + 1]) \in Nat
    BY <1>3, <2>1 DEF Placed
  <2>3. C[i] = IF Converts(table[i]) THEN <<table[i]>> \o C[i + 1] ELSE C[i + 1]
    BY <1>1 DEF ChainStep
  <2>4. CASE Converts(table[i])
    <3>1. PICK q : Placed(table, C[i], i, q)
      BY <2>1, <2>3, <2>4, PlacedPrepends
    <3>2. table[i] \in {table[t] : t \in DOMAIN table} /\ C[i + 1] \in Seq({table[t] : t \in DOMAIN table})
      BY <1>1, <2>1 DEF Placed, IsSequence
    <3>3. Len(C[i]) = Len(C[i + 1]) + 1
      BY <2>3, <2>4, <3>2
    <3> QED BY <1>1, <2>2, <3>1, <3>3
  <2>5. CASE ~Converts(table[i])
    <3>1. Placed(table, C[i], i, p)
      BY <2>1, <2>3, <2>5, PlacedSkips
    <3> QED BY <1>1, <2>2, <2>3, <2>5, <3>1
  <2> QED BY <2>4, <2>5
<1>4. 1 .. n + 1 \subseteq S
  <2> DEFINE lo == 1
             hi == n + 1
  <2> HIDE DEF S
  <2>1. lo \in Int /\ hi \in Int /\ lo <= hi /\ hi \in S
    BY <1>1, <1>2
  <2>2. \A i \in lo .. hi - 1 : i + 1 \in S => i \in S
    BY <1>1, <1>3
  <2> HIDE DEF lo, hi
  <2>3. lo .. hi \subseteq S
    BY <2>1, <2>2, Downwards
  <2> QED BY <2>3 DEF lo, hi
<1>5. 1 \in S
  <2> HIDE DEF S
  <2> QED BY <1>1, <1>4
<1> QED BY <1>1, <1>5 DEF MiddlewareChain, C
-----------------------------------------------------------------------------
QValue == [form : STRING, digits : Seq(0 .. 9)]

(* parse_qvalue reads the padded digits as the thousandths they stand for. *)
LEMMA QualityIsParsed ==
  ASSUME NEW qvalue \in QValue
  PROVE  /\ Contract!Quality(qvalue) \in Nat
         /\ parse_qvalue(qvalue) = {Contract!Quality(qvalue)} \ {0}
<1> DEFINE digit(i) == IF i <= Len(qvalue.digits) THEN qvalue.digits[i] ELSE 0
           Unfolds(f) == f = [i \in 0 .. 3 |-> IF i = 0 THEN 0 ELSE f[i - 1] * 10 + digit(i)]
           number == CHOOSE f : Unfolds(f)
<1>1. /\ Len(qvalue.digits) \in Nat /\ DOMAIN qvalue.digits = 1 .. Len(qvalue.digits)
      /\ digit(1) \in 0 .. 9 /\ digit(2) \in 0 .. 9 /\ digit(3) \in 0 .. 9
  BY DEF QValue
<1>2. Unfolds(number)
  <2> DEFINE g == [i \in 0 .. 3 |-> IF i = 0 THEN 0 ELSE IF i = 1 THEN 0 * 10 + digit(1)
                                     ELSE IF i = 2 THEN (0 * 10 + digit(1)) * 10 + digit(2)
                                     ELSE ((0 * 10 + digit(1)) * 10 + digit(2)) * 10 + digit(3)]
  <2> HIDE DEF digit
  <2>1. Unfolds(g)
    <3>1. /\ g[0] = 0 /\ g[1] = 0 * 10 + digit(1) /\ g[2] = g[1] * 10 + digit(2)
          /\ g[3] = g[2] * 10 + digit(3)
      OBVIOUS
    <3>2. \A i \in 0 .. 3 : i = 0 \/ (i = 1 /\ i - 1 = 0) \/ (i = 2 /\ i - 1 = 1) \/ (i = 3 /\ i - 1 = 2)
      OBVIOUS
    <3>3. \A i \in 0 .. 3 : g[i] = IF i = 0 THEN 0 ELSE g[i - 1] * 10 + digit(i)
      <4> HIDE DEF g
      <4> QED BY <3>1, <3>2
    <3> QED BY <3>3
  <2> HIDE DEF g, Unfolds
  <2> QED BY <2>1
<1>3. number[3] = 100 * digit(1) + 10 * digit(2) + digit(3) /\ number[3] \in Nat
  <2> HIDE DEF number, digit
  <2>1. /\ number[0] = 0 /\ number[1] = number[0] * 10 + digit(1) /\ number[2] = number[1] * 10 + digit(2)
        /\ number[3] = number[2] * 10 + digit(3)
    BY <1>2
  <2> DEFINE a == digit(1)
             b == digit(2)
             c == digit(3)
  <2>2. a \in 0 .. 9 /\ b \in 0 .. 9 /\ c \in 0 .. 9
    BY <1>1
  <2>3. number[3] = ((0 * 10 + a) * 10 + b) * 10 + c
    BY <2>1, Zenon
  <2> HIDE DEF a, b, c
  <2>4. number[3] = 100 * a + 10 * b + c /\ number[3] \in Nat
    BY <2>2, <2>3
  <2> QED BY <2>4 DEF a, b, c
<1>4. parse_qvalue(qvalue) = CASE qvalue.form = "1" -> {1000}
                               [] qvalue.form = "0." /\ Len(qvalue.digits) <= 3 -> {number[3]} \ {0}
                               [] OTHER -> {}
  BY DEF parse_qvalue
<1>5. Contract!Quality(qvalue) = CASE qvalue.form = "1" -> 1000
                                   [] qvalue.form = "0." /\ Len(qvalue.digits) <= 3 -> number[3]
                                   [] OTHER -> 0
  <2>1. \A i \in 1 .. 3 : digit(i) = IF i \in DOMAIN qvalue.digits THEN qvalue.digits[i] ELSE 0
    <3>1. \A i \in 1 .. 3 : i \in DOMAIN qvalue.digits <=> i <= Len(qvalue.digits)
      BY <1>1, RangeInside, Zenon
    <3> QED BY <3>1, Zenon
  <2> HIDE DEF number, digit
  <2> QED BY <1>3, <2>1 DEF Contract!Quality
<1> HIDE DEF number
<1> QED BY <1>3, <1>4, <1>5

(* What is found from a position on, from what was found behind it.        *)
BestStep(accept, best, i) ==
  IF i = Len(accept) + 1 THEN {}
  ELSE IF \E it \in parse_encoding_and_qvalue(accept[i]) :
            \A max \in best[i + 1] : it.qvalue >= max.qvalue
  THEN parse_encoding_and_qvalue(accept[i]) ELSE best[i + 1]

(* max_by_key satisfies the equation it is defined by.                     *)
LEMMA BestUnfolds ==
  ASSUME NEW accept, Len(accept) \in Nat
  PROVE  max_by_key(accept) =
           [i \in 1 .. Len(accept) + 1 |-> BestStep(accept, max_by_key(accept), i)]
<1> DEFINE n == Len(accept)
           Unfolds(g, i) == g = [k \in i .. n + 1 |-> BestStep(accept, g, k)]
           S == {i \in 1 .. n + 1 : \E g : Unfolds(g, i)}
<1>1. n \in Nat
  OBVIOUS
<1>2. n + 1 \in S
  <2> DEFINE g == [k \in n + 1 .. n + 1 |-> {}]
  <2>1. Unfolds(g, n + 1)
    BY <1>1 DEF BestStep
  <2> HIDE DEF g, Unfolds
  <2> QED BY <1>1, <2>1
<1>3. ASSUME NEW i \in 1 .. n, i + 1 \in S PROVE i \in S
  <2>1. PICK g : Unfolds(g, i + 1)
    BY <1>3
  <2> DEFINE h == [k \in i .. n + 1 |-> BestStep(accept, g, k)]
  <2>2. \A k \in i + 1 .. n + 1 : h[k] = g[k]
    BY <1>1, <2>1
  <2>3. \A k \in i .. n + 1 : BestStep(accept, h, k) = BestStep(accept, g, k)
    <3> SUFFICES ASSUME NEW k \in i .. n + 1 PROVE BestStep(accept, h, k) = BestStep(accept, g, k)
      OBVIOUS
    <3>1. k # n + 1 => k + 1 \in i + 1 .. n + 1
      BY <1>1
    <3>2. k # n + 1 => h[k + 1] = g[k + 1]
      BY <2>2, <3>1
    <3> HIDE DEF h
    <3> QED BY <3>2 DEF BestStep
  <2>4. Unfolds(h, i)
    BY <2>3
  <2> HIDE DEF h, Unfolds
  <2> QED BY <1>1, <2>4
<1>4. 1 .. n + 1 \subseteq S
  <2> DEFINE lo == 1
             hi == n + 1
  <2> HIDE DEF S
  <2>1. lo \in Int /\ hi \in Int /\ lo <= hi /\ hi \in S
    BY <1>1, <1>2
  <2>2. \A i \in lo .. hi - 1 : i + 1 \in S => i \in S
    BY <1>1, <1>3
  <2> HIDE DEF lo, hi
  <2>3. lo .. hi \subseteq S
    BY <2>1, <2>2, Downwards
  <2> QED BY <2>3 DEF lo, hi
<1>5. \E g : Unfolds(g, 1)
  BY <1>1, <1>4
<1> QED BY <1>5, Zenon DEF max_by_key, BestStep

Accepted == [coding : STRING, qvalue : QValue]
Known == {"br", "deflate", "gzip"}

(* get_preferred_encoding, which keeps what it has found while it scans    *)
(* the reversed list, finds the first of the codings that the client       *)
(* prefers to all others.                                                  *)
LEMMA EncodingIsPreferred ==
  ASSUME NEW accept \in Seq(Accepted)
  PROVE  /\ get_preferred_encoding(accept) = Contract!Preferred(accept)
         /\ get_preferred_encoding(accept) \subseteq Known
<1> DEFINE n == Len(accept)
           B == max_by_key(accept)
           Q(k) == Contract!Quality(accept[k].qvalue)
           Item(k) == [coding |-> accept[k].coding, qvalue |-> Q(k)]
           U(i) == {k \in i .. n : accept[k].coding \in Known /\ Q(k) > 0}
           Better(i, j) == Q(i) > Q(j) \/ (Q(i) = Q(j) /\ i <= j)
           Found(i) == \/ B[i] = {} /\ U(i) = {}
                       \/ \E k \in U(i) : B[i] = {Item(k)} /\ \A j \in U(i) : Better(k, j)
           S == {i \in 1 .. n + 1 : Found(i)}
<1>1. /\ n \in Nat /\ DOMAIN accept = 1 .. n
      /\ \A i \in 1 .. n + 1 : B[i] = BestStep(accept, B, i)
  BY BestUnfolds
<1> HIDE DEF B
<1>2. ASSUME NEW k \in 1 .. n PROVE Q(k) \in Nat /\ parse_qvalue(accept[k].qvalue) = {Q(k)} \ {0}
  <2>1. accept[k] \in Accepted
    BY <1>1
  <2> QED BY <2>1, QualityIsParsed DEF Accepted
<1> HIDE DEF Q
<1>3. ASSUME NEW k \in 1 .. n
      PROVE  parse_encoding_and_qvalue(accept[k]) =
               IF accept[k].coding \in Known /\ Q(k) > 0 THEN {Item(k)} ELSE {}
  <2> DEFINE V == IF accept[k].coding \in Known THEN parse_qvalue(accept[k].qvalue) ELSE {}
  <2>1. parse_encoding_and_qvalue(accept[k]) = {[coding |-> accept[k].coding, qvalue |-> v] : v \in V}
    BY DEF parse_encoding_and_qvalue, Known
  <2>2. V = IF accept[k].coding \in Known /\ Q(k) > 0 THEN {Q(k)} ELSE {}
    <3>1. ASSUME NEW q \in Nat PROVE {q} \ {0} = IF q > 0 THEN {q} ELSE {}
      OBVIOUS
    <3>2. Q(k) \in Nat /\ parse_qvalue(accept[k].qvalue) = {Q(k)} \ {0}
      BY <1>2
    <3>3. {Q(k)} \ {0} = IF Q(k) > 0 THEN {Q(k)} ELSE {}
      BY <3>1, <3>2, Zenon
    <3> QED BY <3>2, <3>3, Zenon
  <2> HIDE DEF V
  <2> QED BY <2>1, <2>2
<1>4. n + 1 \in S
  <2>1. n + 1 \in 1 .. n + 1 /\ U(n + 1) = {}
    BY <1>1
  <2>2. B[n + 1] = {}
    BY <1>1, <2>1 DEF BestStep
  <2> HIDE DEF U
  <2> QED BY <2>1, <2>2
<1>5. ASSUME NEW i \in 1 .. n, i + 1 \in S PROVE i \in S
  <2>1. /\ i \in 1 .. n + 1
        /\ B[i] = IF \E it \in parse_encoding_and_qvalue(accept[i]) :
                       \A max \in B[i + 1] : it.qvalue >= max.qvalue
                  THEN parse_encoding_and_qvalue(accept[i]) ELSE B[i + 1]
    <3>1. i \in 1 .. n + 1 /\ i # n + 1
      BY <1>1
    <3>2. B[i] = BestStep(accept, B, i)
      BY <1>1, <3>1
    <3> QED BY <3>1, <3>2, Zenon DEF BestStep
  <2>2. Found(i + 1)
    BY <1>5
  <2>3. /\ \A k \in U(i + 1) : k \in U(i) /\ k \in i + 1 .. n
        /\ \A k \in U(i) : k = i \/ k \in U(i + 1)
        /\ i \in U(i) <=> accept[i].coding \in Known /\ Q(i) > 0
    BY <1>1
  <2>4. \A k \in U(i) : k \in Int /\ Q(k) \in Nat /\ i <= k
    BY <1>1, <1>2
  <2> HIDE DEF U
  <2>5. CASE i \notin U(i)
    <3>1. B[i] = B[i + 1] /\ \A k : k \in U(i) <=> k \in U(i + 1)
      BY <1>3, <2>1, <2>3, <2>5, Zenon
    <3> QED BY <2>1, <2>2, <3>1, Zenon
  <2>6. CASE i \in U(i)
    <3>1. parse_encoding_and_qvalue(accept[i]) = {Item(i)} /\ Item(i).qvalue = Q(i)
      BY <1>3, <2>3, <2>6, Zenon
    <3>2. B[i] = IF \A max \in B[i + 1] : Q(i) >= max.qvalue THEN {Item(i)} ELSE B[i + 1]
      <4> HIDE DEF Item
      <4> QED BY <2>1, <3>1
    <3>3. CASE B[i + 1] = {} /\ U(i + 1) = {}
      <4>1. B[i] = {Item(i)} /\ \A j \in U(i) : j = i
        <5> HIDE DEF Item
        <5> QED BY <2>3, <3>2, <3>3
      <4>2. \A j \in U(i) : Better(i, j)
        BY <2>4, <4>1, Zenon
      <4> QED BY <2>1, <2>6, <4>1, <4>2
    <3>4. ASSUME NEW k \in U(i + 1), B[i + 1] = {Item(k)}, \A j \in U(i + 1) : Better(k, j)
          PROVE  Found(i)
      <4>1. Item(k).qvalue = Q(k) /\ k \in U(i) /\ Q(k) \in Nat /\ Q(i) \in Nat /\ i < k /\ k \in Int
        BY <2>3, <2>4, <2>6, <3>4
      <4>2. B[i] = IF Q(i) >= Q(k) THEN {Item(i)} ELSE {Item(k)}
        <5> HIDE DEF Item
        <5> QED BY <3>2, <3>4, <4>1, Zenon
      <4>3. CASE Q(i) >= Q(k)
        <5>1. \A j \in U(i) : Better(i, j)
          BY <2>3, <2>4, <3>4, <4>1, <4>3
        <5> QED BY <2>6, <4>2, <4>3, <5>1, Zenon
      <4>4. CASE ~(Q(i) >= Q(k))
        <5>1. \A j \in U(i) : Better(k, j)
          BY <2>3, <2>4, <3>4, <4>1, <4>4
        <5> QED BY <4>1, <4>2, <4>4, <5>1, Zenon
      <4> QED BY <4>3, <4>4
    <3> QED BY <2>1, <2>2, <3>3, <3>4
  <2> QED BY <2>5, <2>6
<1>6. 1 .. n + 1 \subseteq S
  <2> DEFINE lo == 1
             hi == n + 1
  <2> HIDE DEF S
  <2>1. lo \in Int /\ hi \in Int /\ lo <= hi /\ hi \in S
    BY <1>1, <1>4
  <2>2. \A i \in lo .. hi - 1 : i + 1 \in S => i \in S
    BY <1>1, <1>5
  <2> HIDE DEF lo, hi
  <2>3. lo .. hi \subseteq S
    BY <2>1, <2>2, Downwards, Zenon
  <2> QED BY <2>3 DEF lo, hi
<1>7. Found(1)
  <2>1. 1 \in S
    <3> HIDE DEF S
    <3> QED BY <1>1, <1>6
  <2> QED BY <2>1
<1>8. Contract!Preferred(accept) =
        {accept[i].coding : i \in {i \in U(1) : \A j \in U(1) : Better(i, j)}}
  BY <1>1 DEF Contract!Preferred, Known, Q
<1>9. get_preferred_encoding(accept) = {max.coding : max \in B[1]}
  BY DEF get_preferred_encoding, B
<1>10. \A k \in U(1) : k \in 1 .. n /\ Q(k) \in Nat /\ accept[k].coding \in Known
  BY <1>2
<1> HIDE DEF U
<1>11. CASE B[1] = {} /\ U(1) = {}
  BY <1>8, <1>9, <1>11
<1>12. ASSUME NEW k \in U(1), B[1] = {Item(k)}, \A j \in U(1) : Better(k, j)
       PROVE  /\ get_preferred_encoding(accept) = {accept[k].coding}
              /\ Contract!Preferred(accept) = {accept[k].coding}
              /\ accept[k].coding \in Known
  <2>1. get_preferred_encoding(accept) = {accept[k].coding}
    BY <1>9, <1>12
  <2>2. ASSUME NEW i \in U(1), \A j \in U(1) : Better(i, j) PROVE i = k
    BY <1>10, <1>12, <2>2
  <2>3. {i \in U(1) : \A j \in U(1) : Better(i, j)} = {k}
    <3> HIDE DEF Better
    <3> QED BY <1>12, <2>2
  <2>4. Contract!Preferred(accept) = {accept[k].coding}
    <3> HIDE DEF Better
    <3> QED BY <1>8, <2>3
  <2> QED BY <1>10, <1>12, <2>1, <2>4, Zenon
<1> QED BY <1>7, <1>11, <1>12, Zenon
-----------------------------------------------------------------------------
(* Contract!Behind, for a given table and coding: the responses behind a   *)
(* position, from those behind the next one.                               *)
RewriteStep(table, coding, o, last, f, i) ==
  IF i = last THEN {o}
  ELSE UNION {IF i + 1 \in {t \in DOMAIN table : Converts(table[t])}
              THEN modify_response(table[i + 1], coding, r) ELSE {r} : r \in f[i + 1]}

Rewrites(table, coding, o, last) ==
  CHOOSE f : f = [i \in 0 .. last |-> RewriteStep(table, coding, o, last, f, i)]

(* Such a function exists.                                                 *)
LEMMA RewritesUnfolds ==
  ASSUME NEW table, NEW coding, NEW o, NEW last \in Nat
  PROVE  Rewrites(table, coding, o, last) =
           [i \in 0 .. last |->
              RewriteStep(table, coding, o, last, Rewrites(table, coding, o, last), i)]
<1> DEFINE Step(f, i) == RewriteStep(table, coding, o, last, f, i)
           Unfolds(g, i) == g = [k \in i .. last |-> Step(g, k)]
           S == {i \in 0 .. last : \E g : Unfolds(g, i)}
<1>2. last \in S
  <2> DEFINE g == [k \in last .. last |-> {o}]
  <2>1. Unfolds(g, last)
    BY DEF RewriteStep
  <2> HIDE DEF g, Unfolds
  <2> QED BY <2>1
<1>3. ASSUME NEW i \in 0 .. last - 1, i + 1 \in S PROVE i \in S
  <2>1. PICK g : Unfolds(g, i + 1)
    BY <1>3
  <2> DEFINE h == [k \in i .. last |-> Step(g, k)]
  <2> HIDE DEF Step
  <2>2. \A k \in i + 1 .. last : h[k] = g[k]
    BY <2>1
  <2>3. \A k \in i .. last : Step(h, k) = Step(g, k)
    <3> SUFFICES ASSUME NEW k \in i .. last PROVE Step(h, k) = Step(g, k)
      OBVIOUS
    <3>1. k # last => k + 1 \in i + 1 .. last
      OBVIOUS
    <3>2. k # last => h[k + 1] = g[k + 1]
      BY <2>2, <3>1, Zenon
    <3> HIDE DEF h
    <3> QED BY <3>2, Zenon DEF RewriteStep, Step
  <2>4. Unfolds(h, i)
    BY <2>3
  <2> HIDE DEF h, Unfolds
  <2> QED BY <2>4
<1>4. 0 .. last \subseteq S
  <2> DEFINE lo == 0
  <2> HIDE DEF S
  <2>1. lo \in Int /\ last \in Int /\ lo <= last /\ last \in S
    BY <1>2
  <2>2. \A i \in lo .. last - 1 : i + 1 \in S => i \in S
    BY <1>3
  <2> HIDE DEF lo
  <2>3. lo .. last \subseteq S
    BY <2>1, <2>2, Downwards
  <2> QED BY <2>3 DEF lo
<1>5. \E g : Unfolds(g, 0)
  BY <1>4
<1> QED BY <1>5, Zenon DEF Rewrites

(* What comes in behind the last entry.                                    *)
LEMMA RewritesLast ==
  ASSUME NEW table, NEW coding, NEW o, NEW last \in Nat
  PROVE  Rewrites(table, coding, o, last)[last] = {o}
<1>1. last \in 0 .. last
  OBVIOUS
<1>2. Rewrites(table, coding, o, last)[last] =
        RewriteStep(table, coding, o, last, Rewrites(table, coding, o, last), last)
  <2> DEFINE R == Rewrites(table, coding, o, last)
  <2>1. R = [i \in 0 .. last |-> RewriteStep(table, coding, o, last, R, i)]
    BY RewritesUnfolds
  <2> HIDE DEF R
  <2>2. R[last] = RewriteStep(table, coding, o, last, R, last)
    BY <1>1, <2>1
  <2> QED BY <2>2 DEF R
<1> QED BY <1>2, Zenon DEF RewriteStep

(* An entry that converts rewrites each of the responses behind it.        *)
LEMMA RewritesOne ==
  ASSUME NEW table, NEW coding, NEW o, NEW last \in Nat, NEW i \in 1 .. last,
         i \in DOMAIN table, Converts(table[i]),
         NEW r \in Rewrites(table, coding, o, last)[i], NEW s \in modify_response(table[i], coding, r)
  PROVE  s \in Rewrites(table, coding, o, last)[i - 1]
<1> DEFINE R == Rewrites(table, coding, o, last)
<1>1. R = [k \in 0 .. last |-> RewriteStep(table, coding, o, last, R, k)]
  BY RewritesUnfolds
<1>2. r \in R[i]
  OBVIOUS
<1> HIDE DEF R
<1>3. i - 1 \in 0 .. last /\ i - 1 # last /\ (i - 1) + 1 = i
  OBVIOUS
<1>4. R[i - 1] = RewriteStep(table, coding, o, last, R, i - 1)
  BY <1>1, <1>3, Zenon
<1>5. RewriteStep(table, coding, o, last, R, i - 1) =
        UNION {IF i \in {t \in DOMAIN table : Converts(table[t])}
               THEN modify_response(table[i], coding, q) ELSE {q} : q \in R[i]}
  BY <1>3 DEF RewriteStep
<1>6. s \in R[i - 1]
  BY <1>2, <1>4, <1>5, Zenon
<1> QED BY <1>6, Zenon DEF R

(* Entries that do not convert rewrite nothing.                            *)
LEMMA RewritesNothing ==
  ASSUME NEW table, NEW coding, NEW o, NEW last \in Nat, NEW a \in 0 .. last, NEW b \in a .. last,
         \A t \in a + 1 .. b : ~(t \in DOMAIN table /\ Converts(table[t]))
  PROVE  Rewrites(table, coding, o, last)[a] = Rewrites(table, coding, o, last)[b]
<1> DEFINE R == Rewrites(table, coding, o, last)
           S == {i \in a .. b : R[i] = R[b]}
<1>1. R = [k \in 0 .. last |-> RewriteStep(table, coding, o, last, R, k)]
  BY RewritesUnfolds
<1> HIDE DEF R
<1>2. ASSUME NEW i \in a .. b - 1, i + 1 \in S PROVE i \in S
  <2>1. i \in 0 .. last /\ i # last /\ i + 1 \in a + 1 .. b /\ i \in a .. b
    OBVIOUS
  <2>2. R[i] = RewriteStep(table, coding, o, last, R, i)
    BY <1>1, <2>1, Zenon
  <2>3. i + 1 \notin {t \in DOMAIN table : Converts(table[t])}
    BY <2>1
  <2>4. RewriteStep(table, coding, o, last, R, i) = UNION {{q} : q \in R[i + 1]}
    BY <2>1, <2>3 DEF RewriteStep
  <2>5. R[i] = R[i + 1]
    BY <2>2, <2>4
  <2> QED BY <1>2, <2>1, <2>5
<1>3. a .. b \subseteq S
  <2>1. b \in S /\ a \in Int /\ b \in Int /\ a <= b
    OBVIOUS
  <2> HIDE DEF S
  <2> QED BY <1>2, <2>1, Downwards
<1>4. a \in a .. b
  <2>1. a \in Int /\ b \in Int /\ a <= b
    OBVIOUS
  <2> QED BY <2>1, RangeFirst, Zenon
<1> QED BY <1>3, <1>4 DEF R
-----------------------------------------------------------------------------
Described(r) == IsResponse(r) /\ DescribesBody(r)

(* The answers of the balancer itself describe their bodies.               *)
LEMMA AnswerDescribed ==
  ASSUME NEW status, NEW content
  PROVE  Described(Answer(status, content))
BY Zenon DEF Described, IsResponse, DescribesBody, Answer, Body

(* Location and Set-Cookie do not describe the body.                       *)
LEMMA UndescribingDescribed ==
  ASSUME NEW r, Described(r), NEW header
  PROVE  /\ Described([r EXCEPT !.location = header])
         /\ Described([r EXCEPT !.cookies = header])
BY DEF Described, IsResponse, DescribesBody

(* And so does whatever a middleware answers instead of the backend.       *)
LEMMA RefusalDescribed ==
  ASSUME NEW m, NEW q, NEW early \in modify_request(m, q), NEW r \in early
  PROVE  Described(r)
<1>1. CASE r \in Authentication(q)
  BY <1>1, AnswerDescribed DEF Authentication
<1>2. CASE r \in HttpsRedirector(q)
  <2>1. ASSUME NEW location PROVE Described([Answer(301, "empty") EXCEPT !.location = location])
    <3>1. Described(Answer(301, "empty"))
      BY AnswerDescribed
    <3> QED BY <3>1, UndescribingDescribed, ZenonT(60)
  <2> QED BY <1>2, <2>1, AnswerDescribed DEF HttpsRedirector
<1>3. CASE r \in MaxBodySize(m.fields["limit"].value, q)
  BY <1>3, AnswerDescribed DEF MaxBodySize
<1>4. CASE early \in {{}, {Answer(429, "text")}}
  BY <1>4, AnswerDescribed
<1>5. early \in {{}, {Answer(429, "text")}} \/ early = Authentication(q) \/ early = HttpsRedirector(q)
        \/ early = MaxBodySize(m.fields["limit"].value, q)
  BY DEF modify_request
<1> QED BY <1>1, <1>2, <1>3, <1>4, <1>5

(* Each rewriting of a response that describes its body changes the        *)
(* headers along with the body.                                            *)
LEMMA RewritingDescribed ==
  ASSUME NEW m, NEW coding, NEW r, Described(r), NEW s \in modify_response(m, coding, r)
  PROVE  Described(s)
<1>1. CASE s = compress_response(r, coding) /\ r.encoding = {}
  BY <1>1, Zenon DEF compress_response, Described, IsResponse, DescribesBody
<1>2. CASE s \in replace_response(r)
  <2>1. PICK content : s = [r EXCEPT !.body = Body(content), !.length = {}, !.encoding = {}]
    BY <1>2, Zenon DEF replace_response
  <2> QED BY <2>1, Zenon DEF Body, Described, IsResponse, DescribesBody
<1>3. s = r \/ s \in replace_response(r) \/ (s = compress_response(r, coding) /\ r.encoding = {})
  BY DEF modify_response
<1> QED BY <1>1, <1>2, <1>3

HeadersInv == \A r \in response : Described(r)

(* The response on its way up describes its body at every step.            *)
LEMMA HeadersStep == HeadersInv /\ [Next]_vars => HeadersInv'
<1> SUFFICES ASSUME HeadersInv, [Next]_vars PROVE HeadersInv'
  OBVIOUS
<1>1. CASE BuildPool
  BY <1>1 DEF BuildPool, HeadersInv
<1>2. CASE Call
  BY <1>2, AnswerDescribed DEF Call, HeadersInv, not_found
<1>3. CASE ForwardRequest
  BY <1>3, RefusalDescribed DEF ForwardRequest, HeadersInv
<1>4. CASE SendRequest
  BY <1>4 DEF SendRequest, HeadersInv
<1>5. CASE BackendAnswers
  BY <1>5, AnswerDescribed, PoolAssumption DEF BackendAnswers, HeadersInv, Described, bad_gateway
<1>6. CASE ModifyResponse
  BY <1>6, RewritingDescribed DEF ModifyResponse, HeadersInv
<1>7. CASE Respond
  <2>1. PICK r \in response : response' = {[r EXCEPT !.cookies = @ \o config.cookies]}
    BY <1>7, Zenon DEF Respond
  <2>2. Described(r)
    BY DEF HeadersInv
  <2>3. Described([r EXCEPT !.cookies = @ \o config.cookies])
    BY <2>2, UndescribingDescribed, Zenon
  <2> QED BY <2>1, <2>3, Zenon DEF HeadersInv
<1>8. CASE UNCHANGED vars
  BY <1>8 DEF vars, HeadersInv
<1> QED BY <1>1, <1>2, <1>3, <1>4, <1>5, <1>6, <1>7, <1>8, Zenon DEF Next

(* Content-Encoding and Content-Length of a response describe the body it  *)
(* carries, in whatever order Compression and CustomErrorPages stand and   *)
(* whoever answered.                                                       *)
THEOREM HeadersStayTrue == Spec => []HeadersDescribeBody
<1>1. Init => HeadersInv
  BY DEF Init, HeadersInv
<1>2. HeadersInv => HeadersDescribeBody
  BY DEF HeadersInv, HeadersDescribeBody, Described
<1> QED BY <1>1, <1>2, HeadersStep, PTL DEF Spec
-----------------------------------------------------------------------------
(* The position in the table of the middlewares at a position in the       *)
(* chain, and of the forwarder in front of them all.                       *)
Place(p, j) == IF j = 0 THEN 0 ELSE p[j]

Preference == get_preferred_encoding(request.accept)

(* The first k middlewares may have let the request pass; and those of     *)
(* them that compress hold the encoding they had chosen.                   *)
Passes(k) == \A j \in 1 .. k : {} \in modify_request(chain[j], request)
Chosen(k) == \A j \in 1 .. k : chain[j].name = "Compression" => encoding = Preference

Served ==
  /\ request.scheme \in config.schemes /\ \E m \in matcher : request.target \in m
  /\ request.has_path /\ config.is_authority

(* r is what the entries between pos and whoever answered have made of     *)
(* their answer: of a middleware, or of the backend.                       *)
Refused(p, r) ==
  \E k \in pos + 1 .. Len(chain) :
    /\ Passes(k - 1)
    /\ \E refusal \in modify_request(chain[k], request) : \E o \in refusal :
         r \in Rewrites(config.table, Preference, o, p[k] - 1)[Place(p, pos)]

Replied(p, r) ==
  \E o \in BackendResponse \cup {bad_gateway} :
    r \in Rewrites(config.table, Preference, o, Len(config.table))[Place(p, pos)]

Up ==
  /\ pos \in 0 .. Len(chain) /\ Chosen(pos)
  /\ \E r \in response : /\ response = {r}
                         /\ \A p : Placed(config.table, chain, 1, p) =>
                              IF sent = {} THEN Refused(p, r) ELSE Replied(p, r)

PoolInv ==
  /\ IsSequence(config.table) /\ request.accept \in Seq(Accepted)
  /\ request.forwarded \in Seq(Seq(STRING))
  /\ pc \in {"configuring", "ready", "down", "backend", "up", "answered", "panicked"}
  /\ pos \in 0 .. Len(chain) + 1 /\ encoding \subseteq Known
  /\ chain = IF pc = "configuring" THEN <<>> ELSE MiddlewareChain(config.table)
  /\ pc = "configuring" => pos = 0
  /\ pc = "ready" => matcher # {}
  /\ pc \in {"down", "backend", "up"} => Served
  /\ pc \in {"configuring", "ready", "down"} => sent = {}
  /\ pc = "down" => pos \in 1 .. Len(chain) + 1 /\ Passes(pos - 1) /\ Chosen(pos - 1)
  /\ pc = "backend" => sent # {} /\ Chosen(Len(chain))
  /\ pc = "up" => Up

(* No entry that converts stands between those of two neighbours in the    *)
(* chain, in front of the first one or behind the last one.                *)
LEMMA PlacedGaps ==
  ASSUME NEW table, IsSequence(table), NEW c, NEW p, Placed(table, c, 1, p)
  PROVE  /\ Len(c) \in Nat /\ Len(table) \in Nat /\ DOMAIN table = 1 .. Len(table)
         /\ \A j \in 0 .. Len(c) : Place(p, j) \in 0 .. Len(table)
         /\ \A j \in 1 .. Len(c) :
              /\ Place(p, j) = p[j] /\ p[j] \in 1 .. Len(table) /\ Place(p, j - 1) \in 0 .. p[j] - 1
              /\ Converts(table[p[j]]) /\ c[j] = table[p[j]]
              /\ \A t \in Place(p, j - 1) + 1 .. p[j] - 1 : ~(t \in DOMAIN table /\ Converts(table[t]))
         /\ \A t \in Place(p, Len(c)) + 1 .. Len(table) : ~(t \in DOMAIN table /\ Converts(table[t]))
<1> DEFINE m == Len(c)
           n == Len(table)
<1>1. m \in Nat /\ n \in Nat /\ DOMAIN table = 1 .. n /\ p \in [1 .. m -> 1 .. n]
  BY DEF IsSequence, Placed
<1>2. \A j, k \in 1 .. m : j < k => p[j] < p[k]
  BY DEF Placed
<1>3. ASSUME NEW t \in DOMAIN table, Converts(table[t]) PROVE \E j \in 1 .. m : p[j] = t
  BY <1>1, <1>3 DEF Placed
<1>4. ASSUME NEW j \in 0 .. m PROVE Place(p, j) \in 0 .. n
  BY <1>1 DEF Place
<1>5. ASSUME NEW j \in 1 .. m, NEW k \in 0 .. m, k < j PROVE Place(p, k) < p[j] /\ Place(p, k) \in 0 .. p[j] - 1
  <2>1. Place(p, k) < p[j]
    BY <1>1, <1>2, <1>5 DEF Place
  <2> QED BY <1>1, <1>4, <2>1
<1>6. ASSUME NEW j \in 1 .. m, NEW k \in 0 .. m, j <= k PROVE p[j] <= Place(p, k)
  <2>1. CASE j = k
    BY <1>1, <2>1 DEF Place
  <2>2. CASE j < k
    BY <1>1, <1>2, <2>2 DEF Place
  <2> QED BY <1>1, <1>6, <2>1, <2>2
<1>7. ASSUME NEW j \in 1 .. m, NEW t \in Place(p, j - 1) + 1 .. p[j] - 1, t \in DOMAIN table, Converts(table[t])
      PROVE  FALSE
  <2>1. PICK i \in 1 .. m : p[i] = t
    BY <1>3, <1>7
  <2>2. j - 1 \in 0 .. m /\ j \in 0 .. m /\ i \in Int /\ j \in Int /\ Place(p, j) = p[j]
    BY <1>1 DEF Place
  <2>3. CASE i <= j - 1
    BY <1>1, <1>4, <1>6, <2>1, <2>2, <2>3
  <2>4. CASE i >= j
    <3>1. p[j] <= p[i]
      BY <1>1, <1>2, <2>2, <2>4
    <3> QED BY <1>1, <2>1, <3>1
  <2> QED BY <2>2, <2>3, <2>4
<1>8. ASSUME NEW t \in Place(p, m) + 1 .. n, t \in DOMAIN table, Converts(table[t]) PROVE FALSE
  <2>1. PICK i \in 1 .. m : p[i] = t
    BY <1>3, <1>8
  <2>2. m \in 0 .. m /\ i <= m
    BY <1>1
  <2>3. p[i] <= Place(p, m) /\ Place(p, m) \in 0 .. n
    BY <1>4, <1>6, <2>2, Zenon
  <2> QED BY <1>1, <2>1, <2>3
<1>9. ASSUME NEW j \in 1 .. m
      PROVE  /\ Place(p, j) = p[j] /\ p[j] \in 1 .. n /\ Place(p, j - 1) \in 0 .. p[j] - 1
             /\ Converts(table[p[j]]) /\ c[j] = table[p[j]]
  <2>1. j - 1 \in 0 .. m /\ j - 1 < j /\ j # 0
    BY <1>1
  <2> QED BY <1>1, <1>5, <2>1, Zenon DEF Placed, Place
<1> QED BY <1>1, <1>4, <1>7, <1>8, <1>9, Zenon

(* What comes in from whoever answered comes out behind the next entry of  *)
(* the chain in front as it is.                                            *)
LEMMA RewritesStart ==
  ASSUME NEW table, IsSequence(table), NEW c, NEW p, Placed(table, c, 1, p), NEW coding, NEW o
  PROVE  /\ \A k \in 1 .. Len(c) : o \in Rewrites(table, coding, o, p[k] - 1)[Place(p, k - 1)]
         /\ o \in Rewrites(table, coding, o, Len(table))[Place(p, Len(c))]
<1>1. ASSUME NEW last \in Nat, NEW a \in 0 .. last,
             \A t \in a + 1 .. last : ~(t \in DOMAIN table /\ Converts(table[t]))
      PROVE  o \in Rewrites(table, coding, o, last)[a]
  <2>1. last \in a .. last
    OBVIOUS
  <2>2. Rewrites(table, coding, o, last)[a] = Rewrites(table, coding, o, last)[last]
    BY <1>1, <2>1, RewritesNothing
  <2> QED BY <2>2, RewritesLast
<1>2. ASSUME NEW k \in 1 .. Len(c) PROVE o \in Rewrites(table, coding, o, p[k] - 1)[Place(p, k - 1)]
  <2> DEFINE last == p[k] - 1
             a == Place(p, k - 1)
  <2>1. /\ last \in Nat /\ a \in 0 .. last
        /\ \A t \in a + 1 .. last : ~(t \in DOMAIN table /\ Converts(table[t]))
    BY PlacedGaps
  <2> HIDE DEF last, a
  <2>2. o \in Rewrites(table, coding, o, last)[a]
    BY <1>1, <2>1, Zenon
  <2> QED BY <2>2, Zenon DEF last, a
<1>3. o \in Rewrites(table, coding, o, Len(table))[Place(p, Len(c))]
  <2> DEFINE last == Len(table)
             a == Place(p, Len(c))
  <2>1. /\ last \in Nat /\ a \in 0 .. last
        /\ \A t \in a + 1 .. last : ~(t \in DOMAIN table /\ Converts(table[t]))
    <3>1. Len(c) \in 0 .. Len(c)
      BY PlacedGaps
    <3> QED BY <3>1, PlacedGaps, Zenon
  <2> HIDE DEF last, a
  <2>2. o \in Rewrites(table, coding, o, last)[a]
    BY <1>1, <2>1, Zenon
  <2> QED BY <2>2, Zenon DEF last, a
<1> QED BY <1>2, <1>3

(* A step up the chain is a step up the table, over the entries that do    *)
(* not convert.                                                            *)
LEMMA RewritesUp ==
  ASSUME NEW table, IsSequence(table), NEW c, NEW p, Placed(table, c, 1, p), NEW coding, NEW o,
         NEW last \in Nat, NEW j \in 1 .. Len(c), p[j] <= last,
         NEW r \in Rewrites(table, coding, o, last)[Place(p, j)],
         NEW s \in modify_response(c[j], coding, r)
  PROVE  s \in Rewrites(table, coding, o, last)[Place(p, j - 1)]
<1> DEFINE i == p[j]
           a == Place(p, j - 1)
           b == i - 1
<1>1. /\ i \in 1 .. last /\ i \in DOMAIN table /\ Converts(table[i]) /\ c[j] = table[i] /\ Place(p, j) = i
      /\ a \in 0 .. last /\ b \in a .. last
      /\ \A t \in a + 1 .. b : ~(t \in DOMAIN table /\ Converts(table[t]))
  <2>1. /\ Len(table) \in Nat /\ DOMAIN table = 1 .. Len(table)
        /\ Place(p, j) = i /\ i \in 1 .. Len(table) /\ a \in 0 .. i - 1
        /\ Converts(table[i]) /\ c[j] = table[i]
        /\ \A t \in a + 1 .. i - 1 : ~(t \in DOMAIN table /\ Converts(table[t]))
    <3>1. /\ Len(table) \in Nat /\ DOMAIN table = 1 .. Len(table)
          /\ \A l \in 1 .. Len(c) :
               /\ Place(p, l) = p[l] /\ p[l] \in 1 .. Len(table) /\ Place(p, l - 1) \in 0 .. p[l] - 1
               /\ Converts(table[p[l]]) /\ c[l] = table[p[l]]
               /\ \A t \in Place(p, l - 1) + 1 .. p[l] - 1 : ~(t \in DOMAIN table /\ Converts(table[t]))
      BY PlacedGaps, Zenon
    <3> QED BY <3>1, Zenon
  <2> HIDE DEF i, a
  <2>2. i <= last
    BY Zenon DEF i
  <2>3. i \in 1 .. last /\ a \in 0 .. last /\ b \in a .. last
    BY <2>1, <2>2, RangeUp, Zenon
  <2> QED BY <2>1, <2>3, Zenon
<1> HIDE DEF i, a
<1>2. r \in Rewrites(table, coding, o, last)[i] /\ s \in modify_response(table[i], coding, r)
  BY <1>1, Zenon
<1>3. s \in Rewrites(table, coding, o, last)[i - 1]
  BY <1>1, <1>2, RewritesOne, Zenon
<1> HIDE DEF b
<1>4. ASSUME NEW x \in 0 .. last, NEW y \in x .. last,
             \A t \in x + 1 .. y : ~(t \in DOMAIN table /\ Converts(table[t]))
      PROVE  Rewrites(table, coding, o, last)[x] = Rewrites(table, coding, o, last)[y]
  BY <1>4, RewritesNothing
<1>5. Rewrites(table, coding, o, last)[a] = Rewrites(table, coding, o, last)[b]
  BY <1>1, <1>4, Zenon
<1> QED BY <1>3, <1>5, Zenon DEF a, b

(* Only Compression looks at the encoding.                                 *)
LEMMA EncodingMatters ==
  ASSUME NEW m, NEW e, NEW f, NEW r, m.name = "Compression" => e = f
  PROVE  modify_response(m, e, r) = modify_response(m, f, r)
BY DEF modify_response
-----------------------------------------------------------------------------
(* The inductive invariant holds when the pool is configured.              *)
LEMMA PoolInit == Init => PoolInv
<1> SUFFICES ASSUME Init PROVE PoolInv
  OBVIOUS
<1>1. PICK case \in Cases : config = case.config /\ request = case.request
  BY DEF Init
<1>2. /\ IsSequence(config.table) /\ request.accept \in Seq(Accepted)
      /\ request.forwarded \in Seq(Seq(STRING))
  BY <1>1, PoolAssumption DEF Accepted, QValue
<1> QED BY <1>2 DEF Init, PoolInv

(* A middleware that does not let a request pass gives one answer.         *)
LEMMA RefusalIsOne ==
  ASSUME NEW m, NEW q, NEW early \in modify_request(m, q), early # {}
  PROVE  \E r : early = {r}
<1>1. \A limit : MaxBodySize(limit, q) = {} \/ MaxBodySize(limit, q) = {Answer(413, "empty")}
  BY DEF MaxBodySize
<1>2. Authentication(q) = {} \/ \E r : Authentication(q) = {r}
  BY DEF Authentication
<1>3. HttpsRedirector(q) = {} \/ \E r : HttpsRedirector(q) = {r}
  <2> DEFINE redirect == [Answer(301, "empty") EXCEPT
                            !.location = {<<IF q.authority # {} THEN q.authority
                                            ELSE parse_host_header(q), q.target.path>>}]
  <2>1. HttpsRedirector(q) = IF q.scheme # "HTTP" THEN {}
                             ELSE IF parse_host_header(q) = {} THEN {Answer(400, "text")}
                             ELSE {redirect}
    BY DEF HttpsRedirector
  <2> HIDE DEF redirect
  <2> QED BY <2>1, Zenon
<1>4. early \in {{}, {Answer(429, "text")}} \/ early = Authentication(q) \/ early = HttpsRedirector(q)
        \/ early = MaxBodySize(m.fields["limit"].value, q)
  BY DEF modify_request
<1> QED BY <1>1, <1>2, <1>3, <1>4

LEMMA PoolLength == PoolInv => Len(chain) \in Nat
<1> SUFFICES ASSUME PoolInv PROVE Len(chain) \in Nat
  OBVIOUS
<1>1. PICK p : Placed(config.table, MiddlewareChain(config.table), 1, p)
  BY ChainIsPlaced DEF PoolInv
<1>2. Len(MiddlewareChain(config.table)) \in Nat
  BY <1>1 DEF Placed
<1> QED BY <1>2 DEF PoolInv

(* Every action preserves it, one lemma for each.                          *)
LEMMA BuildPoolStep == PoolInv /\ BuildPool => PoolInv'
<1> SUFFICES ASSUME PoolInv, BuildPool PROVE PoolInv'
  OBVIOUS
<1>1. PICK p : Placed(config.table, MiddlewareChain(config.table), 1, p)
  BY ChainIsPlaced DEF PoolInv
<1>2. Len(MiddlewareChain(config.table)) \in Nat
  BY <1>1 DEF Placed
<1>3. pos' \in 0 .. Len(chain') + 1
  BY <1>2 DEF PoolInv, BuildPool
<1> QED BY <1>3 DEF PoolInv, BuildPool

LEMMA CallStep == PoolInv /\ Call => PoolInv'
<1> SUFFICES ASSUME PoolInv, Call PROVE PoolInv'
  OBVIOUS
<1>1. PICK p : Placed(config.table, MiddlewareChain(config.table), 1, p)
  BY ChainIsPlaced DEF PoolInv
<1>2. Len(chain) \in Nat
  BY <1>1 DEF PoolInv, Call, Placed
<1>3. CASE request.scheme \in config.schemes /\ \E m \in matcher : request.target \in m
  <2>1. pos' = 1 /\ pc' = backend_uri
    BY <1>3 DEF Call
  <2>2. pos' \in 1 .. Len(chain') + 1 /\ pos' \in 0 .. Len(chain') + 1
    BY <1>2, <2>1 DEF Call
  <2>3. Passes(pos - 1)' /\ Chosen(pos - 1)'
    BY <2>1 DEF Passes, Chosen
  <2>4. pc' = "down" => Served'
    BY <1>3, <2>1, Zenon DEF Served, Call, backend_uri
  <2> QED BY <2>1, <2>2, <2>3, <2>4 DEF PoolInv, Call, backend_uri
<1>4. CASE ~(request.scheme \in config.schemes /\ \E m \in matcher : request.target \in m)
  BY <1>4 DEF PoolInv, Call
<1> QED BY <1>3, <1>4, Zenon

LEMMA ForwardRequestStep == PoolInv /\ ForwardRequest => PoolInv'
<1> SUFFICES ASSUME PoolInv, ForwardRequest PROVE PoolInv'
  OBVIOUS
<1>1. /\ pc = "down" /\ pos \in 1 .. Len(chain) /\ chain = MiddlewareChain(config.table)
      /\ sent = {} /\ Served /\ Passes(pos - 1) /\ Chosen(pos - 1)
      /\ UNCHANGED <<config, request, matcher, chain, sent>>
      /\ encoding' = IF chain[pos].name = "Compression" THEN Preference ELSE encoding
  <2>1. /\ pc = "down" /\ pos <= Len(chain) /\ UNCHANGED <<config, request, matcher, chain, sent>>
        /\ encoding' = IF chain[pos].name = "Compression" THEN Preference ELSE encoding
    BY Zenon DEF ForwardRequest, Middleware, Preference
  <2>2. /\ pos \in 1 .. Len(chain) + 1 /\ chain = MiddlewareChain(config.table)
        /\ sent = {} /\ Served /\ Passes(pos - 1) /\ Chosen(pos - 1)
    BY <2>1 DEF PoolInv
  <2>3. Len(chain) \in Nat
    BY PoolLength, Zenon
  <2>4. pos \in 1 .. Len(chain)
    BY <2>1, <2>2, <2>3
  <2> QED BY <2>1, <2>2, <2>4, Zenon
<1>2. Len(chain) \in Nat
  BY PoolLength, Zenon
<1>3. encoding' \subseteq Known
  BY <1>1, EncodingIsPreferred DEF PoolInv, Preference
<1>4. Served' /\ Preference' = Preference
  BY <1>1, Zenon DEF Served, Preference
<1>5. \A j \in 1 .. pos : chain[j].name = "Compression" => encoding' = Preference
  <2>1. \A j \in 1 .. pos : j = pos \/ j \in 1 .. pos - 1
    BY <1>1
  <2> QED BY <1>1, <2>1, Zenon DEF Chosen
<1>6. PICK early \in modify_request(chain[pos], request) :
        IF early = {} THEN pos' = pos + 1 /\ UNCHANGED <<pc, response>>
        ELSE pc' = "up" /\ pos' = pos - 1 /\ response' = early
  BY Zenon DEF ForwardRequest, Middleware
<1>7. CASE early = {}
  <2>1. pos' = pos + 1 /\ pc' = pc /\ pos' \in 1 .. Len(chain') + 1 /\ pos' \in 0 .. Len(chain') + 1
        /\ pos' - 1 = pos
    BY <1>1, <1>2, <1>6, <1>7
  <2>2. \A j \in 1 .. pos : {} \in modify_request(chain[j], request)
    <3>1. \A j \in 1 .. pos : j = pos \/ j \in 1 .. pos - 1
      BY <1>1
    <3> QED BY <1>1, <1>7, <3>1, Zenon DEF Passes
  <2>3. Passes(pos - 1)'
    BY <1>1, <2>1, <2>2, Zenon DEF Passes
  <2>4. Chosen(pos - 1)'
    BY <1>1, <1>4, <1>5, <2>1, Zenon DEF Chosen
  <2> QED BY <1>1, <1>3, <1>4, <2>1, <2>3, <2>4, Zenon DEF PoolInv
<1>8. CASE early # {}
  <2>1. /\ pc' = "up" /\ pos' = pos - 1 /\ response' = early /\ pos' \in 0 .. Len(chain')
        /\ pos' \in 0 .. Len(chain') + 1 /\ pos \in pos' + 1 .. Len(chain') /\ 1 .. pos' \subseteq 1 .. pos
    BY <1>1, <1>2, <1>6, <1>8
  <2>2. PICK r : early = {r}
    BY <1>8, RefusalIsOne
  <2>3. Chosen(pos)'
    BY <1>1, <1>4, <1>5, <2>1, Zenon DEF Chosen
  <2>4. ASSUME NEW p, Placed(config.table, chain, 1, p) PROVE Refused(p, r)'
    <3>1. r \in Rewrites(config.table, Preference, r, p[pos] - 1)[Place(p, pos - 1)]
      BY <1>1, <2>4, RewritesStart, Zenon DEF PoolInv
    <3>2. Passes(pos - 1) /\ early \in modify_request(chain[pos], request) /\ r \in early
      BY <1>1, <1>6, <2>2
    <3> QED BY <1>1, <1>4, <2>1, <3>1, <3>2, Zenon DEF Refused, Passes
  <2>5. Up'
    BY <1>1, <2>1, <2>2, <2>3, <2>4 DEF Up
  <2> QED BY <1>1, <1>3, <1>4, <2>1, <2>5, Zenon DEF PoolInv
<1> QED BY <1>7, <1>8, Zenon

LEMMA SendRequestStep == PoolInv /\ SendRequest => PoolInv'
<1> SUFFICES ASSUME PoolInv, SendRequest PROVE PoolInv'
  OBVIOUS
<1>1. /\ pc = "down" /\ pc' = "backend" /\ sent' # {} /\ pos > Len(chain)
      /\ UNCHANGED <<config, request, matcher, chain, pos, encoding, response>>
  BY Zenon DEF SendRequest
<1>2. Served'
  BY <1>1, Zenon DEF PoolInv, Served
<1>3. Chosen(Len(chain))'
  <2>1. Len(chain) = pos - 1
    BY <1>1, PoolLength DEF PoolInv
  <2> QED BY <1>1, <2>1, Zenon DEF PoolInv, Chosen, Preference
<1> QED BY <1>1, <1>2, <1>3, Zenon DEF PoolInv

LEMMA BackendAnswersStep == PoolInv /\ BackendAnswers => PoolInv'
<1> SUFFICES ASSUME PoolInv, BackendAnswers PROVE PoolInv'
  OBVIOUS
<1>1. /\ pc = "backend" /\ pc' = "up" /\ pos' = Len(chain) /\ sent # {}
      /\ UNCHANGED <<config, request, matcher, chain, encoding, sent>>
      /\ chain = MiddlewareChain(config.table)
  BY DEF BackendAnswers, PoolInv
<1>2. PICK r \in BackendResponse \cup {bad_gateway} : response' = {r}
  BY DEF BackendAnswers
<1>3. pos' \in 0 .. Len(chain') /\ pos' \in 0 .. Len(chain') + 1
  BY <1>1, PoolLength
<1>4. Served' /\ Chosen(pos)'
  BY <1>1, Zenon DEF PoolInv, Served, Chosen, Preference
<1>5. ASSUME NEW p, Placed(config.table, chain, 1, p) PROVE Replied(p, r)'
  <2>1. r \in Rewrites(config.table, Preference, r, Len(config.table))[Place(p, Len(chain))]
    BY <1>5, RewritesStart DEF PoolInv
  <2> QED BY <1>1, <1>2, <2>1, Zenon DEF Replied, Preference
<1>6. Up'
  BY <1>1, <1>2, <1>3, <1>4, <1>5, Zenon DEF Up
<1> QED BY <1>1, <1>3, <1>4, <1>6, Zenon DEF PoolInv

LEMMA ModifyResponseStep == PoolInv /\ ModifyResponse => PoolInv'
<1> SUFFICES ASSUME PoolInv, ModifyResponse PROVE PoolInv'
  OBVIOUS
<1>1. /\ pc = "up" /\ pc' = pc /\ pos > 0 /\ pos' = pos - 1 /\ Up /\ Served
      /\ UNCHANGED <<config, request, matcher, chain, encoding, sent>>
      /\ chain = MiddlewareChain(config.table) /\ IsSequence(config.table)
  BY DEF ModifyResponse, PoolInv
<1>2. Len(chain) \in Nat
  BY PoolLength
<1>3. /\ pos \in 1 .. Len(chain) /\ pos' \in 0 .. Len(chain') /\ pos' \in 0 .. Len(chain') + 1
      /\ 1 .. pos' \subseteq 1 .. pos /\ pos \in 1 .. pos
  <2>1. pos \in 0 .. Len(chain)
    BY <1>1, Zenon DEF Up
  <2>2. /\ pos \in 1 .. Len(chain) /\ pos - 1 \in 0 .. Len(chain) /\ pos - 1 \in 0 .. Len(chain) + 1
        /\ 1 .. pos - 1 \subseteq 1 .. pos /\ pos \in 1 .. pos
    BY <1>1, <1>2, <2>1, RangeDown, Zenon
  <2> QED BY <1>1, <2>2, Zenon
<1>4. Served' /\ Chosen(pos)' /\ Preference' = Preference
  BY <1>1, <1>3 DEF Served, Chosen, Preference, Up
<1>5. PICK before \in response : /\ response = {before}
                                 /\ \A p : Placed(config.table, chain, 1, p) =>
                                      IF sent = {} THEN Refused(p, before) ELSE Replied(p, before)
  BY <1>1 DEF Up
<1>6. PICK after \in modify_response(chain[pos], Preference, before) : response' = {after}
  <2>1. PICK after \in modify_response(chain[pos], encoding, before) : response' = {after}
    BY <1>5, Zenon DEF ModifyResponse, Middleware
  <2>2. chain[pos].name = "Compression" => encoding = Preference
    BY <1>1, <1>3, Zenon DEF Up, Chosen
  <2>3. modify_response(chain[pos], encoding, before) = modify_response(chain[pos], Preference, before)
    BY <2>2, EncodingMatters, Zenon
  <2> QED BY <2>1, <2>3, Zenon
<1>7. ASSUME NEW p, Placed(config.table, chain, 1, p), NEW o, NEW last \in Nat, p[pos] <= last,
             before \in Rewrites(config.table, Preference, o, last)[Place(p, pos)]
      PROVE  after \in Rewrites(config.table, Preference, o, last)[Place(p, pos - 1)]
  BY <1>1, <1>3, <1>6, <1>7, RewritesUp, Zenon
<1>8. ASSUME NEW p, Placed(config.table, chain, 1, p), sent = {} PROVE Refused(p, after)'
  <2>1. PICK k \in pos + 1 .. Len(chain) :
          /\ Passes(k - 1)
          /\ \E refusal \in modify_request(chain[k], request) : \E o \in refusal :
               before \in Rewrites(config.table, Preference, o, p[k] - 1)[Place(p, pos)]
    BY <1>5, <1>8, Zenon DEF Refused
  <2>2. PICK refusal \in modify_request(chain[k], request) : \E o \in refusal :
          before \in Rewrites(config.table, Preference, o, p[k] - 1)[Place(p, pos)]
    BY <2>1, Zenon
  <2>3. PICK o \in refusal : before \in Rewrites(config.table, Preference, o, p[k] - 1)[Place(p, pos)]
    BY <2>2, Zenon
  <2>4. k \in 1 .. Len(chain) /\ pos < k /\ k \in pos' + 1 .. Len(chain)
    BY <1>1, <1>2, <1>3
  <2>5. p[k] - 1 \in Nat /\ p[pos] <= p[k] - 1
    <3>1. p[k] \in 1 .. Len(config.table) /\ p[pos] \in 1 .. Len(config.table) /\ p[pos] < p[k]
      BY <1>3, <1>8, <2>4, Zenon DEF Placed
    <3>2. Len(config.table) \in Nat
      BY <1>1, SequenceIs, Zenon
    <3> QED BY <3>1, <3>2, RangeBelow, Zenon
  <2>6. after \in Rewrites(config.table, Preference, o, p[k] - 1)[Place(p, pos - 1)]
    BY <1>7, <1>8, <2>3, <2>5, Zenon
  <2>7. Passes(k - 1)'
    BY <1>1, <2>1, Zenon DEF Passes
  <2> QED BY <1>1, <1>4, <2>2, <2>3, <2>4, <2>6, <2>7, Zenon DEF Refused
<1>9. ASSUME NEW p, Placed(config.table, chain, 1, p), sent # {} PROVE Replied(p, after)'
  <2>1. PICK o \in BackendResponse \cup {bad_gateway} :
          before \in Rewrites(config.table, Preference, o, Len(config.table))[Place(p, pos)]
    BY <1>5, <1>9, Zenon DEF Replied
  <2>2. Len(config.table) \in Nat /\ p[pos] <= Len(config.table)
    <3>1. Len(config.table) \in Nat
      BY <1>1, SequenceIs, Zenon
    <3>2. p[pos] \in 1 .. Len(config.table)
      BY <1>3, <1>9, Zenon DEF Placed
    <3> QED BY <3>1, <3>2, RangeBelow, Zenon
  <2>3. after \in Rewrites(config.table, Preference, o, Len(config.table))[Place(p, pos - 1)]
    BY <1>7, <1>9, <2>1, <2>2, Zenon
  <2> QED BY <1>1, <1>4, <2>1, <2>3, Zenon DEF Replied
<1>10. Up'
  BY <1>1, <1>3, <1>4, <1>6, <1>8, <1>9, Zenon DEF Up
<1> QED BY <1>1, <1>3, <1>4, <1>10, Zenon DEF PoolInv

LEMMA RespondStep == PoolInv /\ Respond => PoolInv'
BY DEF PoolInv, Respond

(* The inductive invariant: the request is as far down or up as the        *)
(* positions in chain and table say, and the response on its way up is     *)
(* what the contract says it must be there.                                *)
THEOREM PoolInvariance == Spec => []PoolInv
<1>1. PoolInv /\ [Next]_vars => PoolInv'
  <2> SUFFICES ASSUME PoolInv, [Next]_vars PROVE PoolInv'
    OBVIOUS
  <2>1. CASE BuildPool      BY <2>1, BuildPoolStep
  <2>2. CASE Call           BY <2>2, CallStep, Zenon
  <2>3. CASE ForwardRequest BY <2>3, ForwardRequestStep
  <2>4. CASE SendRequest    BY <2>4, SendRequestStep
  <2>5. CASE BackendAnswers BY <2>5, BackendAnswersStep
  <2>6. CASE ModifyResponse BY <2>6, ModifyResponseStep
  <2>7. CASE Respond        BY <2>7, RespondStep
  <2>8. CASE UNCHANGED vars
    <3>1. /\ UNCHANGED <<config, request, matcher, chain, pc, pos, encoding, sent, response>>
          /\ Served = Served' /\ Preference = Preference'
      BY <2>8, Zenon DEF vars, Served, Preference
    <3>2. \A k : Passes(k) = Passes(k)' /\ Chosen(k) = Chosen(k)'
      BY <3>1, Zenon DEF Passes, Chosen
    <3>3. \A p, r : Refused(p, r) = Refused(p, r)' /\ Replied(p, r) = Replied(p, r)'
      BY <3>1, <3>2, Zenon DEF Refused, Replied
    <3>4. Up = Up'
      BY <3>1, <3>2, <3>3, Zenon DEF Up
    <3> QED BY <3>1, <3>2, <3>4, Zenon DEF PoolInv
  <2> QED BY <2>1, <2>2, <2>3, <2>4, <2>5, <2>6, <2>7, <2>8 DEF Next
<1> QED BY <1>1, PoolInit, PTL DEF Spec
-----------------------------------------------------------------------------
(* The contract has its own copy of the module Middlewares.                *)
LEMMA SameConverts == \A entry : Contract!Converts(entry) <=> Converts(entry)
BY DEF Contract!Converts, Converts

LEMMA SameModifyRequest == \A m, q : Contract!modify_request(m, q) = modify_request(m, q)
BY DEF Contract!modify_request, modify_request, Contract!Authentication, Authentication,
       Contract!HttpsRedirector, HttpsRedirector, Contract!MaxBodySize, MaxBodySize,
       Contract!check_user_credentials, check_user_credentials,
       Contract!parse_host_header, parse_host_header, Contract!Answer, Answer, Contract!Body, Body

LEMMA SameAnswers == Contract!not_found = not_found /\ Contract!bad_gateway = bad_gateway
BY DEF Contract!not_found, not_found, Contract!bad_gateway, bad_gateway, Contract!Answer, Answer,
       Contract!Body, Body

LEMMA BehindIsRewrites ==
  ASSUME NEW o, NEW last
  PROVE  Contract!Behind(o, last) = Rewrites(config.table, Contract!Preferred(request.accept), o, last)
BY DEF Contract!Behind, Rewrites, RewriteStep, Contract!Effective, Contract!Converts, Converts,
       Contract!modify_response, modify_response, Contract!compress_response, compress_response,
       Contract!replace_response, replace_response, Contract!errors, errors, Contract!Body, Body

(* The promise of the pool is kept step by step.  meaning is the matcher,  *)
(* once the pool is built, by ParsesAsGenerated.                           *)
LEMMA BuildPoolKeeps ==
  PoolInv /\ ParsesAsGenerated' /\ BuildPool => Contract!Abort \/ UNCHANGED Contract!vars
<1> SUFFICES ASSUME PoolInv, ParsesAsGenerated', BuildPool
             PROVE  Contract!Abort \/ UNCHANGED Contract!vars
  BY Zenon
<1>1. /\ pc = "configuring" /\ pc' = IF matcher' = {} THEN "panicked" ELSE "ready"
      /\ UNCHANGED <<config, request, sent, response>> /\ sent = {}
  BY DEF BuildPool, PoolInv
<1>2. matcher' = Meaning(config.text)
  BY <1>1 DEF ParsesAsGenerated
<1>3. CASE matcher' = {}
  BY <1>1, <1>2, <1>3 DEF Contract!Abort
<1>4. CASE matcher' # {}
  BY <1>1, <1>4 DEF Contract!vars
<1> QED BY <1>3, <1>4

LEMMA CallKeeps ==
  PoolInv /\ ParsesAsGenerated /\ Call => Contract!Abort \/ Contract!NotServed \/ UNCHANGED Contract!vars
<1> SUFFICES ASSUME PoolInv, ParsesAsGenerated, Call
             PROVE  Contract!Abort \/ Contract!NotServed \/ UNCHANGED Contract!vars
  BY Zenon
<1>1. pc = "ready" /\ UNCHANGED <<config, request, sent>> /\ sent = {}
  BY Zenon DEF Call, PoolInv
<1>2. matcher = Meaning(config.text) /\ Meaning(config.text) # {}
  BY <1>1 DEF ParsesAsGenerated, PoolInv
<1>3. CASE Contract!Serves
  <2>1. pc' = backend_uri /\ response' = response
    BY <1>2, <1>3 DEF Call, Contract!Serves
  <2>2. CASE Contract!HasUri
    BY <1>1, <2>1, <2>2 DEF Contract!vars, Contract!HasUri, backend_uri
  <2>3. CASE ~Contract!HasUri
    BY <1>1, <1>3, <2>1, <2>3, Zenon DEF Contract!Abort, Contract!HasUri, backend_uri
  <2> QED BY <2>2, <2>3, Zenon
<1>4. CASE ~Contract!Serves
  <2>1. pc' = "answered" /\ response' = {not_found}
    BY <1>2, <1>4 DEF Call, Contract!Serves
  <2> QED BY <1>1, <1>2, <1>4, <2>1, SameAnswers, Zenon DEF Contract!NotServed
<1> QED BY <1>3, <1>4

LEMMA ForwardRequestKeeps == PoolInv /\ ForwardRequest => UNCHANGED Contract!vars
<1> SUFFICES ASSUME PoolInv, ForwardRequest PROVE UNCHANGED Contract!vars
  OBVIOUS
<1>1. pc = "down" /\ pc' \in {"down", "up"} /\ UNCHANGED <<config, request, sent>>
  BY DEF ForwardRequest
<1> QED BY <1>1 DEF Contract!vars

(* Who has an effect in the table is in the chain.                         *)
LEMMA EffectiveInChain ==
  ASSUME PoolInv, pc # "configuring", NEW p, Placed(config.table, chain, 1, p),
         NEW i \in Contract!Effective
  PROVE  \E j \in 1 .. Len(chain) : p[j] = i /\ chain[j] = config.table[i]
<1>1. i \in 1 .. Len(config.table) /\ Converts(config.table[i])
  BY SameConverts DEF Contract!Effective, PoolInv, IsSequence
<1>2. PICK j \in 1 .. Len(chain) : p[j] = i
  BY <1>1, Zenon DEF Placed
<1>3. chain[j] = config.table[p[j]]
  BY Zenon DEF Placed
<1> QED BY <1>2, <1>3, Zenon

LEMMA SendRequestKeeps == PoolInv /\ ParsesAsGenerated /\ SendRequest => Contract!Contact
<1> SUFFICES ASSUME PoolInv, ParsesAsGenerated, SendRequest PROVE Contract!Contact
  OBVIOUS
<1>1. /\ pc = "down" /\ pc' = "backend" /\ sent = {} /\ sent' = {backend_request}
      /\ UNCHANGED <<config, request, response>> /\ pos > Len(chain)
      /\ Served /\ Passes(pos - 1) /\ matcher = Meaning(config.text)
      /\ chain = MiddlewareChain(config.table)
  BY DEF SendRequest, PoolInv, ParsesAsGenerated
<1>2. Contract!Serves /\ Contract!HasUri
  BY <1>1 DEF Served, Contract!Serves, Contract!HasUri
<1>3. ASSUME NEW i \in Contract!Effective PROVE Contract!CanPass(i)
  <2>1. PICK p : Placed(config.table, chain, 1, p)
    BY <1>1, ChainIsPlaced, Zenon DEF PoolInv
  <2>2. PICK j \in 1 .. Len(chain) : chain[j] = config.table[i]
    BY <1>1, <2>1, EffectiveInChain, Zenon
  <2>3. j \in 1 .. pos - 1
    BY <1>1, PoolLength DEF PoolInv
  <2> QED BY <1>1, <2>2, <2>3, SameModifyRequest DEF Passes, Contract!CanPass
<1>4. backend_request = [request EXCEPT !.forwarded =
                           @ \o << (IF @ = <<>> THEN <<>> ELSE @[1]) \o <<Client>> >>]
  <2> DEFINE f == request.forwarded
  <2>1. f \in Seq(Seq(STRING)) /\ Client \in STRING
    BY PoolAssumption, Zenon DEF PoolInv
  <2> HIDE DEF f
  <2> DEFINE S == Seq(STRING)
  <2>2. <<Client>> \in S /\ <<>> \o <<Client>> = <<Client>>
    <3>1. ASSUME NEW X, NEW x \in X PROVE <<x>> \in Seq(X)
      OBVIOUS
    <3>2. <<Client>> \in Seq(STRING)
      BY <2>1, <3>1, Zenon
    <3> QED BY <3>2, ConcatEmptySeq
  <2>3. ASSUME NEW g \in S PROVE Append(g, Client) = g \o <<Client>> /\ Append(g, Client) \in S
    BY <2>1, <2>3, AppendIsConcat, AppendProperties, Zenon
  <2>4. f # <<>> => f[1] \in S
    <3> HIDE DEF S
    <3>1. f \in Seq(S)
      BY <2>1 DEF S
    <3>2. f # <<>> => Len(f) \in Nat \ {0}
      BY <3>1, EmptySeq
    <3>3. f # <<>> => 1 \in 1 .. Len(f)
      BY <3>2
    <3> QED BY <3>1, <3>3, ElementOfSeq
  <2>5. /\ forwarded_for_header(f) = (IF f = <<>> THEN <<>> ELSE f[1]) \o <<Client>>
        /\ forwarded_for_header(f) \in S
    <3> HIDE DEF S
    <3> QED BY <2>2, <2>3, <2>4, Zenon DEF forwarded_for_header
  <2>6. Append(f, forwarded_for_header(f)) = f \o <<forwarded_for_header(f)>>
    <3> HIDE DEF S
    <3> QED BY <2>1, <2>5, AppendIsConcat, Zenon DEF S
  <2>7. Append(f, forwarded_for_header(f)) = f \o << (IF f = <<>> THEN <<>> ELSE f[1]) \o <<Client>> >>
    BY <2>5, <2>6, Zenon
  <2> QED BY <2>7, Zenon DEF backend_request, f
<1> QED BY <1>1, <1>2, <1>3, <1>4, Zenon DEF Contract!Contact

LEMMA BackendAnswersKeeps == PoolInv /\ BackendAnswers => UNCHANGED Contract!vars
<1> SUFFICES ASSUME PoolInv, BackendAnswers PROVE UNCHANGED Contract!vars
  OBVIOUS
<1>1. pc = "backend" /\ pc' = "up" /\ UNCHANGED <<config, request, sent>>
  BY DEF BackendAnswers
<1> QED BY <1>1 DEF Contract!vars

LEMMA ModifyResponseKeeps == PoolInv /\ ModifyResponse => UNCHANGED Contract!vars
<1> SUFFICES ASSUME PoolInv, ModifyResponse PROVE UNCHANGED Contract!vars
  OBVIOUS
<1>1. pc = "up" /\ pc' = "up" /\ UNCHANGED <<config, request, sent>>
  BY DEF ModifyResponse
<1> QED BY <1>1 DEF Contract!vars

(* What has come up to the front is what the contract makes of the answer. *)
LEMMA RespondKeeps ==
  PoolInv /\ ParsesAsGenerated /\ Respond => Contract!Refuse \/ Contract!Reply
<1> SUFFICES ASSUME PoolInv, ParsesAsGenerated, Respond PROVE Contract!Refuse \/ Contract!Reply
  OBVIOUS
<1>1. /\ pc = "up" /\ pos = 0 /\ pc' = "answered" /\ Up /\ Served
      /\ UNCHANGED <<config, request, sent>> /\ matcher = Meaning(config.text)
      /\ chain = MiddlewareChain(config.table)
  BY DEF Respond, PoolInv, ParsesAsGenerated
<1>2. PICK p : Placed(config.table, chain, 1, p)
  BY <1>1, ChainIsPlaced DEF PoolInv
<1>3. PICK r : /\ response' = {[r EXCEPT !.cookies = @ \o config.cookies]}
               /\ IF sent = {} THEN Refused(p, r) ELSE Replied(p, r)
  BY <1>1, <1>2, Zenon DEF Respond, Up
<1>4. Preference = Contract!Preferred(request.accept)
  BY EncodingIsPreferred DEF PoolInv, Preference
<1>5. ASSUME NEW o, NEW last, r \in Rewrites(config.table, Preference, o, last)[0]
      PROVE  Contract!Answered(o, last)
  <2>1. r \in Contract!Rewritten(o, last)
    BY <1>4, <1>5, BehindIsRewrites DEF Contract!Rewritten
  <2> QED BY <1>1, <1>3, <2>1, Zenon DEF Contract!Answered
<1>6. Place(p, pos) = 0 /\ Len(chain) \in Nat
  BY <1>1, PoolLength DEF Place
<1>7. CASE sent = {}
  <2>1. PICK k \in pos + 1 .. Len(chain) :
          /\ Passes(k - 1)
          /\ \E refusal \in modify_request(chain[k], request) : \E o \in refusal :
               r \in Rewrites(config.table, Preference, o, p[k] - 1)[Place(p, pos)]
    BY <1>3, <1>7, Zenon DEF Refused
  <2>2. PICK refusal \in modify_request(chain[k], request) : \E o \in refusal :
          r \in Rewrites(config.table, Preference, o, p[k] - 1)[Place(p, pos)]
    BY <2>1, Zenon
  <2>3. PICK o \in refusal : r \in Rewrites(config.table, Preference, o, p[k] - 1)[Place(p, pos)]
    BY <2>2
  <2>4. k \in 1 .. Len(chain)
    BY <1>1, <1>6
  <2>5. p[k] \in Contract!Effective /\ chain[k] = config.table[p[k]]
    <3>1. DOMAIN config.table = 1 .. Len(config.table)
      BY SequenceIs, Zenon DEF PoolInv
    <3>2. /\ p[k] \in 1 .. Len(config.table)
          /\ Converts(config.table[p[k]]) /\ chain[k] = config.table[p[k]]
      BY <1>2, <2>4, Zenon DEF Placed
    <3> QED BY <3>1, <3>2, SameConverts, Zenon DEF Contract!Effective
  <2>6. ASSUME NEW i \in Contract!Effective, i < p[k] PROVE Contract!CanPass(i)
    <3>1. PICK j \in 1 .. Len(chain) : p[j] = i /\ chain[j] = config.table[i]
      <4>1. pc # "configuring"
        BY <1>1, Zenon
      <4> QED BY <1>2, <4>1, EffectiveInChain, Zenon
    <3>2. p[k] \in 1 .. Len(config.table) /\ p[j] \in 1 .. Len(config.table) /\ (k < j => p[k] < p[j])
      BY <1>2, <2>4, Zenon DEF Placed
    <3>3. j \in 1 .. k - 1
      <4> DEFINE x == p[k]
                 y == p[j]
      <4>1. x \in Int /\ y \in Int /\ y < x /\ (k < j => x < y) /\ (j = k => x = y)
        BY <2>6, <3>1, <3>2
      <4> HIDE DEF x, y
      <4>2. ~(k < j) /\ j # k
        BY <4>1
      <4> QED BY <1>6, <2>4, <4>2, SMTT(30)
    <3> QED BY <2>1, <3>1, <3>3, SameModifyRequest DEF Passes, Contract!CanPass
  <2>7. Contract!Answered(o, p[k] - 1)
    BY <1>5, <1>6, <2>3, Zenon
  <2>8. refusal \in Contract!modify_request(config.table[p[k]], request)
    BY <2>5, SameModifyRequest, Zenon
  <2>9. Contract!Serves /\ Contract!HasUri
    BY <1>1 DEF Served, Contract!Serves, Contract!HasUri
  <2> QED BY <1>1, <1>7, <2>3, <2>5, <2>6, <2>7, <2>8, <2>9, Zenon DEF Contract!Refuse
<1>8. CASE sent # {}
  <2>1. PICK o \in BackendResponse \cup {bad_gateway} :
          r \in Rewrites(config.table, Preference, o, Len(config.table))[Place(p, pos)]
    BY <1>3, <1>8, Zenon DEF Replied
  <2>2. Contract!Answered(o, Len(config.table))
    BY <1>5, <1>6, <2>1, Zenon
  <2> QED BY <1>1, <1>8, <2>1, <2>2, SameAnswers, Zenon DEF Contract!Reply
<1> QED BY <1>7, <1>8

(* So every step keeps it.                                                 *)
LEMMA StepKeeps ==
  PoolInv /\ ParsesAsGenerated /\ ParsesAsGenerated' /\ [Next]_vars
    => [Contract!Next]_(Contract!vars)
<1> SUFFICES ASSUME PoolInv, ParsesAsGenerated, ParsesAsGenerated', [Next]_vars
             PROVE  Contract!Next \/ UNCHANGED Contract!vars
  OBVIOUS
<1>1. CASE BuildPool      BY <1>1, BuildPoolKeeps, Zenon DEF Contract!Next
<1>2. CASE Call           BY <1>2, CallKeeps, Zenon DEF Contract!Next
<1>3. CASE ForwardRequest BY <1>3, ForwardRequestKeeps
<1>4. CASE SendRequest    BY <1>4, SendRequestKeeps, Zenon DEF Contract!Next
<1>5. CASE BackendAnswers BY <1>5, BackendAnswersKeeps
<1>6. CASE ModifyResponse BY <1>6, ModifyResponseKeeps
<1>7. CASE Respond        BY <1>7, RespondKeeps DEF Contract!Next
<1>8. CASE UNCHANGED vars BY <1>8, Zenon DEF vars, Contract!vars
<1> QED BY <1>1, <1>2, <1>3, <1>4, <1>5, <1>6, <1>7, <1>8, Zenon DEF Next
-----------------------------------------------------------------------------
(* The matcher of a pool that is built is what the parser made of its text *)
(* and nothing changes it.                                                 *)
MatcherInv ==
  /\ IsSequence(config.text) /\ Len(Unspaced(config.text)[1]) <= MaxTokens
  /\ matcher = IF pc = "configuring" THEN {} ELSE parser(config.text)

LEMMA MatcherStep == MatcherInv /\ [Next]_vars => MatcherInv'
<1> SUFFICES ASSUME MatcherInv, [Next]_vars PROVE MatcherInv'
  OBVIOUS
<1>1. CASE BuildPool      BY <1>1, Zenon DEF MatcherInv, BuildPool
<1>2. CASE Call           BY <1>2, Zenon DEF MatcherInv, Call, backend_uri
<1>3. CASE ForwardRequest BY <1>3, Zenon DEF MatcherInv, ForwardRequest
<1>4. CASE SendRequest    BY <1>4, Zenon DEF MatcherInv, SendRequest
<1>5. CASE BackendAnswers BY <1>5, Zenon DEF MatcherInv, BackendAnswers
<1>6. CASE ModifyResponse BY <1>6 DEF MatcherInv, ModifyResponse
<1>7. CASE Respond        BY <1>7, Zenon DEF MatcherInv, Respond
<1>8. CASE UNCHANGED vars BY <1>8 DEF MatcherInv, vars
<1> QED BY <1>1, <1>2, <1>3, <1>4, <1>5, <1>6, <1>7, <1>8 DEF Next

LEMMA MatcherInvariance == Spec => []MatcherInv
<1>1. Init => MatcherInv
  BY PoolAssumption, Zenon DEF Init, MatcherInv
<1> QED BY <1>1, MatcherStep, PTL DEF Spec
-----------------------------------------------------------------------------
(* What is proved about the parser, of the instance's own copies of the    *)
(* definitions.                                                            *)
Parser == INSTANCE BackendPoolMatcherProofs

LEMMA SameParser ==
  ASSUME NEW text
  PROVE  Parser!parser(text) = parser(text) /\ Parser!Meaning(text) = Meaning(text)
<1>1. Parser!parser(text) = parser(text)
  BY Zenon DEF Parser!parser, parser, Parser!value, value, Parser!parenthesized, parenthesized,
         Parser!top_level_expression, top_level_expression, Parser!chained_expression,
         chained_expression, Parser!chained, chained, Parser!Else, Else, Parser!Combine, Combine,
         Parser!space, space, Parser!At, At, Parser!matches, matches, Parser!Satisfies, Satisfies,
         Parser!QueryValue, QueryValue
<1>2. Parser!Meaning(text) = Meaning(text)
  BY DEF Parser!Meaning, Meaning, Parser!Tokens, Tokens, Parser!Unspaced, Unspaced,
         Parser!Sentences, Sentences, Parser!Values, Values, Parser!Chains, Chains, Parser!Chain,
         Chain, Parser!Parenthesis, Parenthesis, Parser!Combine, Combine, Parser!matches, matches,
         Parser!Satisfies, Satisfies, Parser!QueryValue, QueryValue
<1> QED BY <1>1, <1>2, Zenon

(* So the text of every pool has the meaning the parser gives it.          *)
LEMMA PoolParses == MatcherInv => parser(config.text) = Meaning(config.text) /\ matcher \subseteq SUBSET Target
<1> SUFFICES ASSUME MatcherInv
             PROVE  parser(config.text) = Meaning(config.text) /\ matcher \subseteq SUBSET Target
  BY Zenon
<1>1. Parser!Fits(config.text)
  BY Zenon DEF MatcherInv, Parser!Fits, Parser!IsSequence, IsSequence, Parser!Unspaced, Unspaced
<1>2. /\ parser(config.text) = Meaning(config.text)
      /\ parser(config.text) \subseteq SUBSET Target
  BY <1>1, SameParser, MatcherAssumption, Parser!ParserAgrees
<1> QED BY <1>2, Zenon DEF MatcherInv

(* A text is accepted exactly if the grammar generates it, and the matcher *)
(* of the pool then matches the requests that the grammar says, however    *)
(* many tokens, MaxTokens, the texts may have and however deep they nest.  *)
THEOREM TextsParseAsGenerated == Spec => []ParsesAsGenerated
<1>1. MatcherInv => ParsesAsGenerated
  BY PoolParses, Zenon DEF MatcherInv, ParsesAsGenerated
<1> QED BY <1>1, MatcherInvariance, PTL

(* A chain is never longer than the table it is built from.                *)
LEMMA PoolLengths ==
  PoolInv => /\ Len(chain) \in Nat /\ Len(config.table) \in Nat /\ Len(chain) <= Len(config.table)
             /\ Len(MiddlewareChain(config.table)) \in Nat
             /\ Len(MiddlewareChain(config.table)) <= Len(config.table)
<1> SUFFICES ASSUME PoolInv
             PROVE  /\ Len(chain) \in Nat /\ Len(config.table) \in Nat /\ Len(chain) <= Len(config.table)
                    /\ Len(MiddlewareChain(config.table)) \in Nat
                    /\ Len(MiddlewareChain(config.table)) <= Len(config.table)
  BY Zenon
<1>1. PICK p : Placed(config.table, MiddlewareChain(config.table), 1, p)
  BY ChainIsPlaced, Zenon DEF PoolInv
<1>2. Len(MiddlewareChain(config.table)) \in Nat /\ Len(MiddlewareChain(config.table)) <= Len(config.table)
  <2>1. Len(MiddlewareChain(config.table)) <= Len(config.table)
    BY ChainIsPlaced, Zenon DEF PoolInv
  <2> QED BY <1>1, <2>1 DEF Placed
<1>3. Len(config.table) \in Nat
  BY DEF PoolInv, IsSequence
<1>4. Len(<<>>) = 0
  OBVIOUS
<1>5. 0 <= Len(config.table)
  BY <1>3, RangeInside, Zenon
<1> QED BY <1>2, <1>3, <1>4, <1>5, PoolLength, Zenon DEF PoolInv

(* The variables have their types: the position stays in the chain or next *)
(* to it, which is never longer than the table it is built from.           *)
THEOREM TypeCorrect == Spec => []TypeOK
<1>1. PoolInv /\ MatcherInv => TypeOK
  BY PoolParses, PoolLengths, Zenon DEF PoolInv, TypeOK, Known
<1> QED BY <1>1, PoolInvariance, MatcherInvariance, PTL

(* Each action brings the request closer to its end.                       *)
LEMMA NextMovesOn == PoolInv /\ Next => StepsLeft' \in 0 .. StepsLeft - 1
<1> SUFFICES ASSUME PoolInv, Next PROVE StepsLeft' \in 0 .. StepsLeft - 1
  BY Zenon
<1> DEFINE n == Len(config.table)
           k == Len(chain)
<1>1. n \in Nat /\ k \in Nat /\ k <= n /\ pos \in 0 .. k + 1 /\ config' = config
  BY PoolLengths, Zenon DEF PoolInv, Next, BuildPool, Call, ForwardRequest, SendRequest,
       BackendAnswers, ModifyResponse, Respond
<1> HIDE DEF n, k
<1>2. CASE BuildPool
  <2>1. pc = "configuring" /\ pc' \in {"ready", "panicked"}
    BY <1>2, Zenon DEF BuildPool
  <2>2. StepsLeft = n + n + 5 /\ StepsLeft' \in {0, n + n + 4}
    BY <1>1, <2>1 DEF StepsLeft, n
  <2> QED BY <1>1, <2>2
<1>3. CASE Call
  <2>1. /\ pc = "ready" /\ pc' \in {"down", "panicked", "answered"} /\ chain' = chain
        /\ pc' = "down" => pos' = 1
    BY <1>3 DEF Call, backend_uri
  <2>2. StepsLeft = n + n + 4 /\ StepsLeft' \in {0, n + 3 + (k + 1 - 1)}
    BY <1>1, <2>1 DEF StepsLeft, n, k
  <2> QED BY <1>1, <2>2
<1>4. CASE ForwardRequest
  <2>1. /\ pc = "down" /\ pos <= k /\ pos >= 1 /\ chain' = chain
        /\ (pc' = "down" /\ pos' = pos + 1) \/ (pc' = "up" /\ pos' = pos - 1)
    <3>1. /\ pc = "down" /\ pos <= k /\ chain' = chain
          /\ (pc' = "down" /\ pos' = pos + 1) \/ (pc' = "up" /\ pos' = pos - 1)
      BY <1>4, Zenon DEF ForwardRequest, k
    <3>2. pos \in 1 .. k + 1
      BY <3>1, Zenon DEF PoolInv, k
    <3> QED BY <1>1, <3>1, <3>2
  <2>2. /\ StepsLeft = n + 3 + (k + 1 - pos)
        /\ StepsLeft' \in {n + 3 + (k + 1 - (pos + 1)), pos - 1 + 1}
    BY <1>1, <2>1 DEF StepsLeft, n, k
  <2> QED BY <1>1, <2>1, <2>2
<1>5. CASE SendRequest
  <2>1. pc = "down" /\ pc' = "backend" /\ pos >= 1
    <3>1. pc = "down" /\ pc' = "backend"
      BY <1>5, Zenon DEF SendRequest
    <3>2. pos \in 1 .. k + 1
      BY <3>1, Zenon DEF PoolInv, k
    <3> QED BY <1>1, <3>1, <3>2
  <2>2. StepsLeft = n + 3 + (k + 1 - pos) /\ StepsLeft' = n + 2
    BY <1>1, <2>1 DEF StepsLeft, n, k
  <2> QED BY <1>1, <2>1, <2>2
<1>6. CASE BackendAnswers
  <2>1. pc = "backend" /\ pc' = "up" /\ pos' = k
    BY <1>6, Zenon DEF BackendAnswers, k
  <2>2. StepsLeft = n + 2 /\ StepsLeft' = k + 1
    BY <1>1, <2>1 DEF StepsLeft, n
  <2> QED BY <1>1, <2>2
<1>7. CASE ModifyResponse
  <2>1. pc = "up" /\ pc' = "up" /\ pos > 0 /\ pos' = pos - 1
    BY <1>7, Zenon DEF ModifyResponse
  <2>2. StepsLeft = pos + 1 /\ StepsLeft' = pos - 1 + 1
    BY <2>1 DEF StepsLeft
  <2> QED BY <1>1, <2>1, <2>2
<1>8. CASE Respond
  <2>1. pc = "up" /\ pc' = "answered" /\ pos = 0
    BY <1>8, Zenon DEF Respond
  <2>2. StepsLeft = 0 + 1 /\ StepsLeft' = 0
    BY <2>1 DEF StepsLeft
  <2> QED BY <2>2
<1> QED BY <1>2, <1>3, <1>4, <1>5, <1>6, <1>7, <1>8, Zenon DEF Next

(* A request takes at most two steps for each entry of the table and five  *)
(* more, whatever the middlewares and the backend answer.                  *)
THEOREM RequestsMoveOn == Spec => ChainMovesOn
<1>1. PoolInv /\ [Next]_vars => [StepsLeft' \in 0 .. StepsLeft - 1]_vars
  BY NextMovesOn, Zenon
<1> QED BY <1>1, PoolInvariance, PTL DEF Spec, ChainMovesOn

(* The chain that runs down and up again keeps the promise of the pool:    *)
(* whatever the text, the table, the request, the middlewares and the      *)
(* backend do.                                                             *)
THEOREM ChainKeepsContract == Spec => ImplementsContract
<1>1. Init => Contract!Init
  BY DEF Init, Contract!Init
<1> QED BY <1>1, StepKeeps, PoolInvariance, TextsParseAsGenerated, PTL
        DEF Spec, ImplementsContract, Contract!Spec
=============================================================================
