---------------------- MODULE BackendPoolMatcherProofs ----------------------
(***************************************************************************)
(* Proofs about the parser of BackendPoolMatcher, for texts of any length: *)
(* it accepts exactly the sentences of the grammar, with any spaces in     *)
(* them but at the end, and gives them the meaning the grammar gives them. *)
(*                                                                         *)
(* The recursive functions of the model go from the end of a sequence to   *)
(* its front.  They are unfolded, and what they compute is proved, with    *)
(* the well-founded order of the naturals: a set that holds the last       *)
(* position, and with a position the one in front, holds all.              *)
(***************************************************************************)
EXTENDS BackendPoolMatcher, SequenceTheorems, WellFoundedInduction, TLAPS

(* A nonempty set of naturals has a least element.                         *)
LEMMA LeastNatural ==
  ASSUME NEW T, T \subseteq Nat, T # {}
  PROVE  \E x \in T : \A y \in T : x <= y
<1> DEFINE R == {ss \in Nat \X Nat : ss[1] < ss[2]}
<1>1. IsWellFoundedOn(R, Nat)
  BY NatLessThanWellFounded, Zenon DEF OpToRel
<1>2. PICK x \in T : \A y \in T : ~(<<y, x>> \in R)
  <2> HIDE DEF R
  <2> QED BY <1>1, WFMin, Zenon
<1>3. ASSUME NEW y \in T PROVE x <= y
  <2>1. ~(<<y, x>> \in R) /\ x \in Nat /\ y \in Nat
    BY <1>2
  <2> QED BY <2>1
<1> QED BY <1>3

(* From the last position of a range down to its first one.                *)
LEMMA Downwards ==
  ASSUME NEW lo \in Int, NEW hi \in Int, lo <= hi, NEW S,
         hi \in S, \A i \in lo .. hi - 1 : i + 1 \in S => i \in S
  PROVE  lo .. hi \subseteq S
<1> SUFFICES ASSUME NEW j \in lo .. hi, j \notin S PROVE FALSE
  OBVIOUS
<1> DEFINE T == {n \in Nat : hi - n \in lo .. hi /\ hi - n \notin S}
<1>1. hi - j \in T
  <2>1. hi - j \in Nat /\ hi - (hi - j) = j
    OBVIOUS
  <2> QED BY <2>1
<1>2. T \subseteq Nat /\ T # {}
  BY <1>1, Zenon
<1>3. PICK n \in T : \A m \in T : n <= m
  <2> HIDE DEF T
  <2> QED BY <1>2, LeastNatural, Zenon
<1>4. n \in Nat /\ hi - n \in lo .. hi /\ hi - n \notin S
  BY <1>3
<1>5. n # 0
  <2>1. hi - 0 = hi
    OBVIOUS
  <2> QED BY <1>4, <2>1
<1>6. n - 1 \in Nat /\ hi - (n - 1) = (hi - n) + 1 /\ hi - (n - 1) \in lo .. hi /\ hi - n \in lo .. hi - 1
  BY <1>4, <1>5
<1>7. hi - (n - 1) \in S
  <2>1. n - 1 \notin T
    BY <1>3, <1>4, <1>6
  <2> QED BY <1>6, <2>1
<1>8. (hi - n) + 1 \in S
  BY <1>6, <1>7
<1> QED BY <1>4, <1>6, <1>8
-----------------------------------------------------------------------------
(* space() satisfies the equation it is defined by.                        *)
SpaceStep(text, skip, i) == IF At(text, i, "space") THEN skip[i + 1] ELSE i

LEMMA SpaceUnfolds ==
  ASSUME NEW text, Len(text) \in Nat
  PROVE  space(text) = [i \in 1 .. Len(text) + 1 |-> SpaceStep(text, space(text), i)]
<1> DEFINE n == Len(text)
           Unfolds(g, i) == g = [k \in i .. n + 1 |-> SpaceStep(text, g, k)]
           S == {i \in 1 .. n + 1 : \E g : Unfolds(g, i)}
<1>1. n \in Nat
  OBVIOUS
<1> HIDE DEF n
<1>2. n + 1 \in S
  <2> DEFINE g == [k \in n + 1 .. n + 1 |-> k]
  <2>1. Unfolds(g, n + 1)
    BY <1>1 DEF SpaceStep, At, n
  <2> HIDE DEF g, Unfolds
  <2> QED BY <1>1, <2>1
<1>3. ASSUME NEW i \in 1 .. n, i + 1 \in S PROVE i \in S
  <2>1. PICK g : Unfolds(g, i + 1)
    BY <1>3
  <2> DEFINE h == [k \in i .. n + 1 |-> SpaceStep(text, g, k)]
  <2>2. \A k \in i + 1 .. n + 1 : h[k] = g[k]
    BY <1>1, <2>1
  <2>3. \A k \in i .. n + 1 : SpaceStep(text, h, k) = SpaceStep(text, g, k)
    <3> SUFFICES ASSUME NEW k \in i .. n + 1 PROVE SpaceStep(text, h, k) = SpaceStep(text, g, k)
      OBVIOUS
    <3>1. At(text, k, "space") => k + 1 \in i + 1 .. n + 1
      BY <1>1 DEF At, n
    <3>2. At(text, k, "space") => h[k + 1] = g[k + 1]
      BY <2>2, <3>1
    <3> HIDE DEF h
    <3> QED BY <3>2 DEF SpaceStep
  <2>4. Unfolds(h, i)
    BY <2>3
  <2> HIDE DEF h, Unfolds
  <2> QED BY <1>1, <2>4
<1>4. 1 .. n + 1 \subseteq S
  <2> DEFINE lo == 1
             hi == n + 1
  <2> HIDE DEF S
  <2>1. lo \in Int /\ hi \in Int /\ lo <= hi /\ hi \in S
    BY <1>1, <1>2
  <2>2. \A i \in lo .. hi - 1 : i + 1 \in S => i \in S
    BY <1>1, <1>3
  <2> HIDE DEF lo, hi
  <2>3. lo .. hi \subseteq S
    BY <2>1, <2>2, Downwards, Zenon
  <2> QED BY <2>3 DEF lo, hi
<1>5. \E g : Unfolds(g, 1)
  BY <1>1, <1>4
<1> QED BY <1>5, Zenon DEF space, SpaceStep, n

(* And so does Unspaced.                                                   *)
UnspacedStep(text, tokens, i) ==
  IF i = Len(text) + 1 THEN <<>>
  ELSE IF text[i] = "space" THEN tokens[i + 1] ELSE <<text[i]>> \o tokens[i + 1]

LEMMA UnspacedUnfolds ==
  ASSUME NEW text, Len(text) \in Nat
  PROVE  Unspaced(text) = [i \in 1 .. Len(text) + 1 |-> UnspacedStep(text, Unspaced(text), i)]
<1> DEFINE n == Len(text)
           Unfolds(g, i) == g = [k \in i .. n + 1 |-> UnspacedStep(text, g, k)]
           S == {i \in 1 .. n + 1 : \E g : Unfolds(g, i)}
<1>1. n \in Nat
  OBVIOUS
<1>2. n + 1 \in S
  <2> DEFINE g == [k \in n + 1 .. n + 1 |-> <<>>]
  <2>1. Unfolds(g, n + 1)
    BY <1>1 DEF UnspacedStep
  <2> HIDE DEF g, Unfolds
  <2> QED BY <1>1, <2>1
<1>3. ASSUME NEW i \in 1 .. n, i + 1 \in S PROVE i \in S
  <2>1. PICK g : Unfolds(g, i + 1)
    BY <1>3
  <2> DEFINE h == [k \in i .. n + 1 |-> UnspacedStep(text, g, k)]
  <2>2. \A k \in i + 1 .. n + 1 : h[k] = g[k]
    BY <1>1, <2>1
  <2>3. \A k \in i .. n + 1 : UnspacedStep(text, h, k) = UnspacedStep(text, g, k)
    <3> SUFFICES ASSUME NEW k \in i .. n + 1 PROVE UnspacedStep(text, h, k) = UnspacedStep(text, g, k)
      OBVIOUS
    <3>1. k # n + 1 => k + 1 \in i + 1 .. n + 1
      BY <1>1
    <3>2. k # n + 1 => h[k + 1] = g[k + 1]
      BY <2>2, <3>1
    <3> HIDE DEF h
    <3> QED BY <3>2 DEF UnspacedStep
  <2>4. Unfolds(h, i)
    BY <2>3
  <2> HIDE DEF h, Unfolds
  <2> QED BY <1>1, <2>4
<1>4. 1 .. n + 1 \subseteq S
  <2> DEFINE lo == 1
             hi == n + 1
  <2> HIDE DEF S
  <2>1. lo \in Int /\ hi \in Int /\ lo <= hi /\ hi \in S
    BY <1>1, <1>2
  <2>2. \A i \in lo .. hi - 1 : i + 1 \in S => i \in S
    BY <1>1, <1>3
  <2> HIDE DEF lo, hi
  <2>3. lo .. hi \subseteq S
    BY <2>1, <2>2, Downwards
  <2> QED BY <2>3 DEF lo, hi
<1>5. \E g : Unfolds(g, 1)
  <2>1. 1 \in S
    <3> HIDE DEF S
    <3> QED BY <1>1, <1>4
  <2> HIDE DEF Unfolds
  <2> QED BY <2>1
<1> QED BY <1>5, Zenon DEF Unspaced, UnspacedStep

(* What the tokens of texts and of sentences are taken from.               *)
Alphabet(text) == {text[t] : t \in DOMAIN text} \cup DOMAIN Rule \cup {"(", ")", "&&", "||"}

(* Positions of a text of n tokens, n + 1 being its end: what follows a    *)
(* position of the text is a position of the text.                         *)
LEMMA Later ==
  ASSUME NEW n \in Nat, NEW i \in 1 .. n + 1
  PROVE  /\ i \in i .. n + 1 /\ (i \in 1 .. n \/ i = n + 1)
         /\ \A j \in i .. n + 1 : j \in 1 .. n + 1
         /\ \A j \in i + 1 .. n + 1 : j \in i .. n + 1 /\ j \in 1 .. n + 1 /\ n \in 1 .. n
         /\ \A j \in i + 2 .. n + 1 : j \in i .. n + 1 /\ j \in 1 .. n + 1
         /\ \A j \in i .. n : j \in 1 .. n /\ j <= n
OBVIOUS

LEMMA Inside ==
  ASSUME NEW n \in Nat, NEW i \in 1 .. n
  PROVE  /\ n > 0 /\ i <= n /\ i \in Nat /\ i \in 1 .. n + 1 /\ i \in i .. n + 1
         /\ i + 1 \in 1 .. n + 1 /\ i + 1 - 1 = i
OBVIOUS

(* A token that is no space is the first one of the tokens from there on.  *)
LEMMA UnspacedAt ==
  ASSUME NEW text, IsSequence(text)
  PROVE  /\ Len(text) \in Nat /\ DOMAIN text = 1 .. Len(text)
         /\ Unspaced(text)[Len(text) + 1] = <<>>
         /\ \A i \in 1 .. Len(text) :
              Unspaced(text)[i] = IF text[i] = "space" THEN Unspaced(text)[i + 1]
                                  ELSE <<text[i]>> \o Unspaced(text)[i + 1]
         /\ \A i \in 1 .. Len(text) + 1 : Unspaced(text)[i] \in Seq(Alphabet(text))
<1> DEFINE n == Len(text)
           U == Unspaced(text)
           A == Alphabet(text)
           S == {i \in 1 .. n + 1 : U[i] \in Seq(A)}
<1>1. n \in Nat /\ DOMAIN text = 1 .. n /\ \A t \in 1 .. n : text[t] \in A
  BY DEF IsSequence, Alphabet
<1>2. U = [i \in 1 .. n + 1 |-> UnspacedStep(text, U, i)]
  BY <1>1, UnspacedUnfolds
<1> HIDE DEF U, A
<1>3. n + 1 \in 1 .. n + 1 /\ U[n + 1] = <<>>
  BY <1>1, <1>2 DEF UnspacedStep
<1>4. ASSUME NEW i \in 1 .. n PROVE U[i] = IF text[i] = "space" THEN U[i + 1] ELSE <<text[i]>> \o U[i + 1]
  <2>1. i \in 1 .. n + 1 /\ i # n + 1
    BY <1>1
  <2>2. U[i] = UnspacedStep(text, U, i)
    BY <1>2, <2>1
  <2> QED BY <2>1, <2>2 DEF UnspacedStep
<1>5. n + 1 \in S
  BY <1>3, EmptySeq, Zenon
<1>6. ASSUME NEW i \in 1 .. n, i + 1 \in S PROVE i \in S
  <2>1. i \in 1 .. n + 1 /\ U[i + 1] \in Seq(A) /\ text[i] \in A
    BY <1>1, <1>6
  <2>2. <<text[i]>> \o U[i + 1] \in Seq(A)
    BY <2>1
  <2> QED BY <1>4, <2>1, <2>2, Zenon
<1>7. 1 .. n + 1 \subseteq S
  <2> DEFINE lo == 1
             hi == n + 1
  <2> HIDE DEF S
  <2>1. lo \in Int /\ hi \in Int /\ lo <= hi /\ hi \in S
    BY <1>1, <1>5
  <2>2. \A i \in lo .. hi - 1 : i + 1 \in S => i \in S
    BY <1>1, <1>6
  <2> HIDE DEF lo, hi
  <2>3. lo .. hi \subseteq S
    BY <2>1, <2>2, Downwards
  <2> QED BY <2>3 DEF lo, hi
<1> QED BY <1>1, <1>3, <1>4, <1>7 DEF U, A

(* space() goes to the next token, or to the end, over spaces only.        *)
LEMMA SpaceSkips ==
  ASSUME NEW text, IsSequence(text), NEW i \in 1 .. Len(text) + 1
  PROVE  /\ space(text)[i] \in i .. Len(text) + 1
         /\ ~At(text, space(text)[i], "space")
         /\ Unspaced(text)[space(text)[i]] = Unspaced(text)[i]
<1> DEFINE n == Len(text)
           s == space(text)
           U == Unspaced(text)
           Skips(k) == s[k] \in k .. n + 1 /\ ~At(text, s[k], "space") /\ U[s[k]] = U[k]
           S == {k \in 1 .. n + 1 : Skips(k)}
<1>1. n \in Nat /\ \A k \in 1 .. n : text[k] = "space" => U[k] = U[k + 1]
  BY UnspacedAt, Zenon
<1>2. \A k \in 1 .. n + 1 : s[k] = SpaceStep(text, s, k)
  BY <1>1, SpaceUnfolds
<1> HIDE DEF s, U
<1>3. n + 1 \in S
  <2>1. n + 1 \in 1 .. n + 1 /\ ~At(text, n + 1, "space")
    BY <1>1 DEF At
  <2>2. s[n + 1] = n + 1
    BY <1>2, <2>1 DEF SpaceStep
  <2> HIDE DEF n
  <2> QED BY <1>1, <2>1, <2>2
<1>4. ASSUME NEW k \in 1 .. n, k + 1 \in S PROVE k \in S
  <2>1. k \in 1 .. n + 1 /\ k + 1 \in 1 .. n + 1 /\ Skips(k + 1)
    BY <1>1, <1>4
  <2>2. s[k] = IF At(text, k, "space") THEN s[k + 1] ELSE k
    BY <1>2, <2>1 DEF SpaceStep
  <2>3. CASE At(text, k, "space")
    <3>1. U[k] = U[k + 1]
      BY <1>1, <2>3 DEF At
    <3>2. s[k] \in k .. n + 1
      BY <1>1, <2>1, <2>2, <2>3
    <3> QED BY <2>1, <2>2, <2>3, <3>1, <3>2
  <2>4. CASE ~At(text, k, "space")
    <3>1. k \in k .. n + 1
      BY <1>1
    <3> QED BY <2>1, <2>2, <2>4, <3>1
  <2> QED BY <2>3, <2>4
<1>5. 1 .. n + 1 \subseteq S
  <2> DEFINE lo == 1
             hi == n + 1
  <2> HIDE DEF S
  <2>1. lo \in Int /\ hi \in Int /\ lo <= hi /\ hi \in S
    BY <1>1, <1>3
  <2>2. \A k \in lo .. hi - 1 : k + 1 \in S => k \in S
    BY <1>1, <1>4
  <2> HIDE DEF lo, hi
  <2>3. lo .. hi \subseteq S
    BY <2>1, <2>2, Downwards, Zenon
  <2> QED BY <2>3 DEF lo, hi
<1>6. Skips(i)
  BY <1>5
<1> QED BY <1>6 DEF s, U
-----------------------------------------------------------------------------
(* The results of a parser at a position: it has read at least one token.  *)
Result(text, i) == [matcher : SUBSET Target, next : i + 1 .. Len(text) + 1]

Typed(text, v, a) == \A k \in a .. Len(text) + 1 : v[k] \subseteq Result(text, k)

(* Where the value behind an operator begins.                              *)
Behind(text, left) == space(text)[space(text)[left.next] + 1]

(* chained: a value, the operator and a value.                             *)
LEMMA ChainedIs ==
  ASSUME NEW text, NEW v, NEW op, NEW i
  PROVE  \A r : r \in chained(text, v, op, i) <=>
           \E left \in v[i] : /\ At(text, space(text)[left.next], op)
                              /\ \E right \in v[Behind(text, left)] :
                                   r = [matcher |-> Combine(op, left.matcher, right.matcher),
                                        next |-> right.next]
BY DEF chained, Behind

(* Behind a token there is a position, and none is in front.               *)
LEMMA BehindToken ==
  ASSUME NEW text, IsSequence(text), NEW i \in 1 .. Len(text) + 1, NEW r \in Result(text, i),
         NEW op, At(text, space(text)[r.next], op)
  PROVE  /\ space(text)[r.next] \in i + 1 .. Len(text)
         /\ space(text)[r.next] + 1 \in i + 2 .. Len(text) + 1
         /\ Behind(text, r) \in i + 2 .. Len(text) + 1
<1>1. r.next \in i + 1 .. Len(text) + 1 /\ Len(text) \in Nat
  BY UnspacedAt DEF Result
<1>2. r.next \in 1 .. Len(text) + 1
  BY <1>1
<1>3. space(text)[r.next] \in r.next .. Len(text) + 1 /\ space(text)[r.next] <= Len(text)
  BY <1>2, SpaceSkips DEF At
<1>4. /\ space(text)[r.next] \in i + 1 .. Len(text)
      /\ space(text)[r.next] + 1 \in i + 2 .. Len(text) + 1
      /\ space(text)[r.next] + 1 \in 1 .. Len(text) + 1
  BY <1>1, <1>3
<1>5. Behind(text, r) \in space(text)[r.next] + 1 .. Len(text) + 1
  BY <1>4, SpaceSkips DEF Behind
<1> QED BY <1>1, <1>4, <1>5

(* The combinators are given results and give results.                     *)
LEMMA ChainedTyped ==
  ASSUME NEW text, IsSequence(text), NEW v, NEW a \in 1 .. Len(text) + 1, Typed(text, v, a),
         NEW i \in a .. Len(text) + 1, NEW op
  PROVE  chained(text, v, op, i) \subseteq Result(text, i)
<1> SUFFICES ASSUME NEW r \in chained(text, v, op, i) PROVE r \in Result(text, i)
  OBVIOUS
<1>1. PICK left \in v[i] : /\ At(text, space(text)[left.next], op)
                           /\ \E right \in v[Behind(text, left)] :
                                r = [matcher |-> Combine(op, left.matcher, right.matcher),
                                     next |-> right.next]
  BY ChainedIs
<1>2. PICK right \in v[Behind(text, left)] :
        r = [matcher |-> Combine(op, left.matcher, right.matcher), next |-> right.next]
  BY <1>1
<1>3. Len(text) \in Nat /\ i \in 1 .. Len(text) + 1
  BY UnspacedAt
<1>4. left \in Result(text, i)
  BY DEF Typed
<1>5. Behind(text, left) \in i + 2 .. Len(text) + 1
  BY <1>1, <1>3, <1>4, BehindToken
<1>6. right \in Result(text, Behind(text, left))
  BY <1>3, <1>5 DEF Typed
<1>7. right.next \in i + 1 .. Len(text) + 1
  BY <1>3, <1>5, <1>6 DEF Result
<1>8. left.matcher \subseteq Target /\ right.matcher \subseteq Target
  BY <1>4, <1>6 DEF Result
<1>9. Combine(op, left.matcher, right.matcher) \subseteq Target
  BY <1>8 DEF Combine
<1> QED BY <1>2, <1>7, <1>9 DEF Result

LEMMA TopLevelTyped ==
  ASSUME NEW text, IsSequence(text), NEW v, NEW a \in 1 .. Len(text) + 1, Typed(text, v, a),
         NEW i \in a .. Len(text) + 1
  PROVE  /\ chained_expression(text, v, i) \subseteq Result(text, i)
         /\ top_level_expression(text, v, i) \subseteq Result(text, i)
<1>1. chained(text, v, "&&", i) \subseteq Result(text, i) /\ chained(text, v, "||", i) \subseteq Result(text, i)
  BY ChainedTyped
<1>2. v[i] \subseteq Result(text, i)
  BY DEF Typed
<1> QED BY <1>1, <1>2 DEF chained_expression, top_level_expression, Else

(* They look at the values from their position on only.                    *)
LEMMA ChainedAgrees ==
  ASSUME NEW text, IsSequence(text), NEW v, NEW w, NEW a \in 1 .. Len(text) + 1, Typed(text, v, a),
         \A k \in a .. Len(text) + 1 : v[k] = w[k], NEW i \in a .. Len(text) + 1, NEW op
  PROVE  chained(text, v, op, i) = chained(text, w, op, i)
<1>1. Len(text) \in Nat /\ i \in 1 .. Len(text) + 1 /\ v[i] = w[i]
  BY UnspacedAt
<1>2. ASSUME NEW left \in v[i], At(text, space(text)[left.next], op)
      PROVE  v[Behind(text, left)] = w[Behind(text, left)]
  <2>1. left \in Result(text, i)
    BY DEF Typed
  <2>2. Behind(text, left) \in i + 2 .. Len(text) + 1
    BY <1>1, <1>2, <2>1, BehindToken
  <2>3. Behind(text, left) \in a .. Len(text) + 1
    BY <1>1, <2>2
  <2> QED BY <2>3
<1>3. \A r : r \in chained(text, v, op, i) <=> r \in chained(text, w, op, i)
  <2> SUFFICES ASSUME NEW r PROVE r \in chained(text, v, op, i) <=> r \in chained(text, w, op, i)
    OBVIOUS
  <2>1. r \in chained(text, v, op, i) <=>
          \E left \in v[i] : /\ At(text, space(text)[left.next], op)
                             /\ \E right \in v[Behind(text, left)] :
                                  r = [matcher |-> Combine(op, left.matcher, right.matcher),
                                       next |-> right.next]
    BY ChainedIs
  <2>2. r \in chained(text, w, op, i) <=>
          \E left \in w[i] : /\ At(text, space(text)[left.next], op)
                             /\ \E right \in w[Behind(text, left)] :
                                  r = [matcher |-> Combine(op, left.matcher, right.matcher),
                                       next |-> right.next]
    BY ChainedIs
  <2> QED BY <1>1, <1>2, <2>1, <2>2
<1> QED BY <1>3 DEF chained

LEMMA TopLevelAgrees ==
  ASSUME NEW text, IsSequence(text), NEW v, NEW w, NEW a \in 1 .. Len(text) + 1, Typed(text, v, a),
         \A k \in a .. Len(text) + 1 : v[k] = w[k], NEW i \in a .. Len(text) + 1
  PROVE  top_level_expression(text, v, i) = top_level_expression(text, w, i)
<1>1. /\ chained(text, v, "&&", i) = chained(text, w, "&&", i)
      /\ chained(text, v, "||", i) = chained(text, w, "||", i)
  BY ChainedAgrees
<1>2. v[i] = w[i]
  OBVIOUS
<1> QED BY <1>1, <1>2 DEF chained_expression, top_level_expression

(* What stands in parentheses, and the closing one.                        *)
LEMMA ParenthesizedIs ==
  ASSUME NEW text, NEW v, NEW i
  PROVE  \A r : r \in parenthesized(text, v, i) <=>
           \E q \in top_level_expression(text, v, space(text)[i + 1]) :
             /\ At(text, space(text)[q.next], ")")
             /\ r = [matcher |-> q.matcher, next |-> space(text)[q.next] + 1]
BY DEF parenthesized

LEMMA ParenthesizedTyped ==
  ASSUME NEW text, IsSequence(text), NEW v, NEW i \in 1 .. Len(text), Typed(text, v, i + 1)
  PROVE  parenthesized(text, v, i) \subseteq Result(text, i)
<1> DEFINE a == i + 1
           j == space(text)[a]
<1>1. Len(text) \in Nat /\ a \in 1 .. Len(text) + 1
  BY UnspacedAt
<1>2. j \in a .. Len(text) + 1
  <2> HIDE DEF a
  <2> QED BY <1>1, SpaceSkips
<1>3. top_level_expression(text, v, j) \subseteq Result(text, j)
  <2> HIDE DEF j
  <2> QED BY <1>1, <1>2, TopLevelTyped
<1> SUFFICES ASSUME NEW r \in parenthesized(text, v, i) PROVE r \in Result(text, i)
  OBVIOUS
<1>4. PICK q \in top_level_expression(text, v, j) :
        /\ At(text, space(text)[q.next], ")")
        /\ r = [matcher |-> q.matcher, next |-> space(text)[q.next] + 1]
  BY ParenthesizedIs
<1> HIDE DEF j
<1>5. q \in Result(text, j) /\ j \in 1 .. Len(text) + 1
  BY <1>1, <1>2, <1>3
<1>6. space(text)[q.next] + 1 \in j + 2 .. Len(text) + 1
  BY <1>4, <1>5, BehindToken
<1>7. space(text)[q.next] + 1 \in i + 1 .. Len(text) + 1
  BY <1>1, <1>2, <1>6
<1> QED BY <1>4, <1>5, <1>7 DEF Result

LEMMA ParenthesizedAgrees ==
  ASSUME NEW text, IsSequence(text), NEW v, NEW w, NEW i \in 1 .. Len(text), Typed(text, v, i + 1),
         \A k \in i + 1 .. Len(text) + 1 : v[k] = w[k]
  PROVE  parenthesized(text, v, i) = parenthesized(text, w, i)
<1> DEFINE a == i + 1
           j == space(text)[a]
<1>1. Len(text) \in Nat /\ a \in 1 .. Len(text) + 1
  BY UnspacedAt
<1>2. j \in a .. Len(text) + 1
  <2> HIDE DEF a
  <2> QED BY <1>1, SpaceSkips
<1>3. top_level_expression(text, v, j) = top_level_expression(text, w, j)
  <2> HIDE DEF j
  <2> QED BY <1>1, <1>2, TopLevelAgrees
<1> QED BY <1>3 DEF parenthesized

(* value() at a position, from its results behind it.                      *)
ValueStep(text, v, i) ==
  CASE i <= Len(text) /\ text[i] \in DOMAIN Rule ->
         {[matcher |-> matches(Rule[text[i]]), next |-> i + 1]}
    [] At(text, i, "(") -> parenthesized(text, v, i)
    [] OTHER -> {}

LEMMA ValueStepTyped ==
  ASSUME NEW text, IsSequence(text), NEW v, NEW i \in 1 .. Len(text) + 1,
         i <= Len(text) => Typed(text, v, i + 1)
  PROVE  ValueStep(text, v, i) \subseteq Result(text, i)
<1>1. Len(text) \in Nat
  BY UnspacedAt
<1>2. CASE i = Len(text) + 1
  <2>1. ~(i <= Len(text))
    BY <1>1, <1>2
  <2>2. ValueStep(text, v, i) = {}
    BY <2>1, Zenon DEF ValueStep, At
  <2> QED BY <2>2
<1>3. CASE i \in 1 .. Len(text)
  <2>1. parenthesized(text, v, i) \subseteq Result(text, i)
    BY <1>3, ParenthesizedTyped
  <2>2. matches(Rule[text[i]]) \subseteq Target
    BY DEF matches
  <2>3. [matcher |-> matches(Rule[text[i]]), next |-> i + 1] \in Result(text, i)
    BY <1>1, <1>3, <2>2 DEF Result
  <2>4. \/ ValueStep(text, v, i) = {[matcher |-> matches(Rule[text[i]]), next |-> i + 1]}
        \/ ValueStep(text, v, i) = parenthesized(text, v, i)
        \/ ValueStep(text, v, i) = {}
    BY DEF ValueStep
  <2> QED BY <2>1, <2>3, <2>4
<1> QED BY <1>1, <1>2, <1>3

LEMMA ValueStepAgrees ==
  ASSUME NEW text, IsSequence(text), NEW v, NEW w, NEW i \in 1 .. Len(text) + 1,
         i <= Len(text) => Typed(text, v, i + 1) /\ \A k \in i + 1 .. Len(text) + 1 : v[k] = w[k]
  PROVE  ValueStep(text, v, i) = ValueStep(text, w, i)
<1>1. Len(text) \in Nat
  BY UnspacedAt
<1>2. At(text, i, "(") => i \in 1 .. Len(text)
  BY <1>1 DEF At
<1>3. At(text, i, "(") => parenthesized(text, v, i) = parenthesized(text, w, i)
  BY <1>2, ParenthesizedAgrees
<1> QED BY <1>3, Zenon DEF ValueStep

(* value() satisfies the equation it is defined by, because every result   *)
(* is behind its position.                                                 *)
LEMMA ValueUnfolds ==
  ASSUME NEW text, IsSequence(text)
  PROVE  /\ \A i \in 1 .. Len(text) + 1 : value(text)[i] = ValueStep(text, value(text), i)
         /\ Typed(text, value(text), 1)
<1> DEFINE n == Len(text)
           V == value(text)
           Unfolds(g, i) == g = [k \in i .. n + 1 |-> ValueStep(text, g, k)]
           S == {i \in 1 .. n + 1 : \E g : Unfolds(g, i) /\ Typed(text, g, i)}
           T == {i \in 1 .. n + 1 : Typed(text, V, i)}
<1>1. n \in Nat /\ n + 1 \in 1 .. n + 1
  BY UnspacedAt
<1>2. \A g : ValueStep(text, g, n + 1) = {}
  <2>1. ~(n + 1 <= n)
    BY <1>1
  <2> QED BY <2>1, Zenon DEF ValueStep, At
<1>3. n + 1 \in S
  <2> DEFINE g == [k \in n + 1 .. n + 1 |-> {}]
  <2>1. Unfolds(g, n + 1) /\ Typed(text, g, n + 1)
    BY <1>1, <1>2 DEF Typed
  <2> HIDE DEF g, Unfolds
  <2> QED BY <1>1, <2>1
<1>4. ASSUME NEW i \in 1 .. n, i + 1 \in S PROVE i \in S
  <2>1. PICK g : Unfolds(g, i + 1) /\ Typed(text, g, i + 1)
    BY <1>4
  <2> DEFINE h == [k \in i .. n + 1 |-> ValueStep(text, g, k)]
  <2>2. \A k \in i + 1 .. n + 1 : g[k] = h[k]
    BY <1>1, <2>1
  <2>3. ASSUME NEW k \in i .. n + 1
        PROVE  /\ k \in 1 .. n + 1
               /\ k <= n => Typed(text, g, k + 1) /\ \A m \in k + 1 .. n + 1 : g[m] = h[m]
    <3>1. k \in 1 .. n + 1 /\ \A m \in k + 1 .. n + 1 : m \in i + 1 .. n + 1
      BY <1>1
    <3> HIDE DEF h, Unfolds
    <3> QED BY <2>1, <2>2, <3>1 DEF Typed
  <2>4. \A k \in i .. n + 1 : ValueStep(text, g, k) = ValueStep(text, h, k)
    <3> HIDE DEF h, Unfolds
    <3> QED BY <2>3, ValueStepAgrees
  <2>5. \A k \in i .. n + 1 : ValueStep(text, g, k) \subseteq Result(text, k)
    <3> HIDE DEF h, Unfolds
    <3> QED BY <2>3, ValueStepTyped
  <2>6. Unfolds(h, i) /\ Typed(text, h, i)
    BY <2>4, <2>5 DEF Typed
  <2> HIDE DEF h, Unfolds
  <2> QED BY <1>1, <2>6
<1>5. 1 .. n + 1 \subseteq S
  <2> DEFINE lo == 1
             hi == n + 1
  <2> HIDE DEF S
  <2>1. lo \in Int /\ hi \in Int /\ lo <= hi /\ hi \in S
    BY <1>1, <1>3
  <2>2. \A i \in lo .. hi - 1 : i + 1 \in S => i \in S
    BY <1>1, <1>4
  <2> HIDE DEF lo, hi
  <2>3. lo .. hi \subseteq S
    BY <2>1, <2>2, Downwards
  <2> QED BY <2>3 DEF lo, hi
<1>6. \E g : Unfolds(g, 1)
  <2>1. 1 \in S
    <3> HIDE DEF S
    <3> QED BY <1>1, <1>5
  <2> HIDE DEF Unfolds
  <2> QED BY <2>1
<1>7. Unfolds(V, 1)
  BY <1>6 DEF value, ValueStep
<1> HIDE DEF V
<1>8. \A i \in 1 .. n + 1 : V[i] = ValueStep(text, V, i)
  BY <1>7
<1>9. n + 1 \in T
  BY <1>1, <1>2, <1>8 DEF Typed
<1>10. ASSUME NEW i \in 1 .. n, i + 1 \in T PROVE i \in T
  <2>1. Typed(text, V, i + 1) /\ i \in 1 .. n + 1
    BY <1>1, <1>10
  <2>2. V[i] \subseteq Result(text, i)
    BY <1>8, <2>1, ValueStepTyped
  <2>3. \A k \in i .. n + 1 : k = i \/ k \in i + 1 .. n + 1
    BY <1>1
  <2> QED BY <2>1, <2>2, <2>3 DEF Typed
<1>11. 1 .. n + 1 \subseteq T
  <2> DEFINE lo == 1
             hi == n + 1
  <2> HIDE DEF T
  <2>1. lo \in Int /\ hi \in Int /\ lo <= hi /\ hi \in T
    BY <1>1, <1>9
  <2>2. \A i \in lo .. hi - 1 : i + 1 \in T => i \in T
    BY <1>1, <1>10
  <2> HIDE DEF lo, hi
  <2>3. lo .. hi \subseteq T
    BY <2>1, <2>2, Downwards
  <2> QED BY <2>3 DEF lo, hi
<1>12. 1 \in T
  <2> HIDE DEF T
  <2> QED BY <1>1, <1>11
<1> QED BY <1>8, <1>12 DEF V
-----------------------------------------------------------------------------
(* From the first position of a range up to its last one.                  *)
LEMMA Upwards ==
  ASSUME NEW lo \in Int, NEW hi \in Int, lo <= hi, NEW S,
         lo \in S, \A i \in lo .. hi - 1 : i \in S => i + 1 \in S
  PROVE  lo .. hi \subseteq S
<1> SUFFICES ASSUME NEW j \in lo .. hi, j \notin S PROVE FALSE
  OBVIOUS
<1> DEFINE T == {k \in lo .. j : k \notin S}
<1>1. j \in T /\ j \in Int /\ lo <= j
  OBVIOUS
<1>2. ASSUME NEW i \in lo .. j - 1, i + 1 \in T PROVE i \in T
  <2>1. i \in lo .. hi - 1 /\ i \in lo .. j
    OBVIOUS
  <2> QED BY <1>2, <2>1
<1>3. lo .. j \subseteq T
  <2> HIDE DEF T
  <2> QED BY <1>1, <1>2, Downwards
<1>4. lo \in lo .. j
  OBVIOUS
<1> QED BY <1>3, <1>4

(* The sentences that are a chain.                                         *)
LEMMA ChainsAre ==
  ASSUME NEW v, NEW n
  PROVE  \A e : e \in Chains(v, n) <=>
           \E k \in 1 .. n - 2 : \E l \in v[k] : \E r \in v[n - 1 - k] : \E op \in {"&&", "||"} :
             e = Chain(op, l, r)
<1> DEFINE Of(k) == {Chain(op, l, r) : l \in v[k], r \in v[n - 1 - k], op \in {"&&", "||"}}
<1>1. \A k, e : e \in Of(k) <=>
        \E l \in v[k] : \E r \in v[n - 1 - k] : \E op \in {"&&", "||"} :
          e = Chain(op, l, r)
  OBVIOUS
<1>2. Chains(v, n) = UNION {Of(k) : k \in 1 .. n - 2}
  BY DEF Chains
<1> HIDE DEF Of
<1>3. \A e : e \in Chains(v, n) <=> \E k \in 1 .. n - 2 : e \in Of(k)
  BY <1>2
<1> QED BY <1>1, <1>3

IsChain(v, n, e) ==
  \E k \in 1 .. n - 2 : \E l \in v[k] : \E r \in v[n - 1 - k] : \E op \in {"&&", "||"} :
    e = Chain(op, l, r)

LEMMA ChainOf ==
  ASSUME NEW v, NEW n, NEW e \in Chains(v, n)
  PROVE  IsChain(v, n, e)
BY ChainsAre DEF IsChain

LEMMA ChainsAgree ==
  ASSUME NEW v, NEW w, NEW n \in Int, \A k \in 1 .. n - 2 : v[k] = w[k]
  PROVE  Chains(v, n) = Chains(w, n)
<1>1. \A k \in 1 .. n - 2 : v[k] = w[k] /\ v[n - 1 - k] = w[n - 1 - k]
  <2>1. \A k \in 1 .. n - 2 : n - 1 - k \in 1 .. n - 2
    OBVIOUS
  <2> QED BY <2>1
<1> DEFINE Of(u, k) == {Chain(op, l, r) : l \in u[k], r \in u[n - 1 - k], op \in {"&&", "||"}}
<1>2. \A k \in 1 .. n - 2 : Of(v, k) = Of(w, k)
  BY <1>1
<1>3. \A u : Chains(u, n) = UNION {Of(u, k) : k \in 1 .. n - 2}
  BY DEF Chains
<1> HIDE DEF Of
<1>4. UNION {Of(v, k) : k \in 1 .. n - 2} = UNION {Of(w, k) : k \in 1 .. n - 2}
  BY <1>2
<1> QED BY <1>3, <1>4

(* The values of a length, from the shorter ones.                          *)
ValuesStep(v, n) ==
  CASE n = 1 -> {[text |-> <<token>>, matcher |-> matches(Rule[token])] : token \in DOMAIN Rule}
    [] n > 2 -> {Parenthesis(e) : e \in v[n - 2] \cup Chains(v, n - 2)}
    [] OTHER -> {}

(* Values satisfies the equation it is defined by.                         *)
LEMMA ValuesUnfolds == \A n \in 0 .. MaxTokens : Values[n] = ValuesStep(Values, n)
<1> DEFINE Unfolds(g, m) == g = [k \in 0 .. m |-> ValuesStep(g, k)]
           S == {m \in 0 .. MaxTokens : \E g : Unfolds(g, m)}
<1>1. MaxTokens \in Nat
  BY MatcherAssumption
<1>2. 0 \in S
  <2> DEFINE g == [k \in 0 .. 0 |-> {}]
  <2>1. Unfolds(g, 0)
    BY DEF ValuesStep
  <2> HIDE DEF g, Unfolds
  <2> QED BY <1>1, <2>1
<1>3. ASSUME NEW m \in 0 .. MaxTokens - 1, m \in S PROVE m + 1 \in S
  <2>1. PICK g : Unfolds(g, m)
    BY <1>3
  <2> DEFINE h == [k \in 0 .. m + 1 |-> ValuesStep(g, k)]
  <2>2. \A k \in 0 .. m : g[k] = h[k]
    BY <1>1, <2>1
  <2>3. ASSUME NEW k \in 0 .. m + 1 PROVE ValuesStep(g, k) = ValuesStep(h, k)
    <3>1. k > 2 => k - 2 \in 0 .. m /\ k - 2 \in Int /\ \A j \in 1 .. k - 2 - 2 : j \in 0 .. m
      BY <1>1
    <3> HIDE DEF h
    <3>2. k > 2 => g[k - 2] = h[k - 2] /\ Chains(g, k - 2) = Chains(h, k - 2)
      BY <2>2, <3>1, ChainsAgree
    <3> QED BY <3>2, Zenon DEF ValuesStep
  <2>4. Unfolds(h, m + 1)
    BY <2>3
  <2>5. m + 1 \in 0 .. MaxTokens
    BY <1>1
  <2> HIDE DEF h, Unfolds
  <2> QED BY <2>4, <2>5
<1>4. 0 .. MaxTokens \subseteq S
  <2> DEFINE lo == 0
  <2> HIDE DEF S
  <2>1. lo \in Int /\ MaxTokens \in Int /\ lo <= MaxTokens /\ lo \in S
    BY <1>1, <1>2
  <2>2. \A i \in lo .. MaxTokens - 1 : i \in S => i + 1 \in S
    BY <1>3
  <2> HIDE DEF lo
  <2>3. lo .. MaxTokens \subseteq S
    BY <2>1, <2>2, Upwards
  <2> QED BY <2>3 DEF lo
<1>5. \E g : Unfolds(g, MaxTokens)
  <2>1. MaxTokens \in S
    <3> HIDE DEF S
    <3> QED BY <1>1, <1>4
  <2> HIDE DEF Unfolds
  <2> QED BY <2>1
<1>6. Unfolds(Values, MaxTokens)
  BY <1>5 DEF Values, ValuesStep
<1> QED BY <1>6, Zenon

(* A value is a rule, or a shorter value or a chain in parentheses.        *)
LEMMA ValuesAre ==
  ASSUME NEW n \in 0 .. MaxTokens, NEW e
  PROVE  e \in Values[n] <=>
           \/ n = 1 /\ \E token \in DOMAIN Rule : e = [text |-> <<token>>, matcher |-> matches(Rule[token])]
           \/ n > 2 /\ \E q \in Values[n - 2] \cup Chains(Values, n - 2) :
                         e = Parenthesis(q)
<1>1. Values[n] = ValuesStep(Values, n)
  BY ValuesUnfolds
<1> DEFINE v == Values
<1> HIDE DEF v
<1>2. e \in ValuesStep(v, n) <=>
        \/ n = 1 /\ \E token \in DOMAIN Rule : e = [text |-> <<token>>, matcher |-> matches(Rule[token])]
        \/ n > 2 /\ \E q \in v[n - 2] \cup Chains(v, n - 2) :
                      e = Parenthesis(q)
  <2>1. CASE n = 1
    BY <2>1 DEF ValuesStep
  <2>2. CASE n > 2
    <3> DEFINE C == v[n - 2] \cup Chains(v, n - 2)
    <3>1. ValuesStep(v, n) = {Parenthesis(q) : q \in C}
      BY <2>2 DEF ValuesStep
    <3> HIDE DEF C
    <3>2. e \in ValuesStep(v, n) <=>
            \E q \in C : e = Parenthesis(q)
      BY <3>1
    <3> QED BY <2>2, <3>2 DEF C
  <2>3. CASE n # 1 /\ ~(n > 2)
    BY <2>3 DEF ValuesStep
  <2> QED BY <2>1, <2>2, <2>3
<1> QED BY <1>1, <1>2 DEF v

Token == DOMAIN Rule \cup {"(", ")", "&&", "||"}
HasLength(e, n) == e.text \in Seq(Token) /\ Len(e.text) = n

(* A chain of two values is as long as they are, and one.                  *)
LEMMA ChainLength ==
  ASSUME NEW l, NEW r, NEW op \in {"&&", "||"}, NEW k \in Nat, NEW m \in Nat,
         HasLength(l, k), HasLength(r, m)
  PROVE  HasLength(Chain(op, l, r), k + 1 + m)
<1>1. op \in Token
  BY DEF Token
<1> DEFINE L == l.text
           R == r.text
           T == Token
<1>2. L \in Seq(T) /\ R \in Seq(T) /\ Len(L) = k /\ Len(R) = m /\ op \in T
  BY <1>1 DEF HasLength
<1> HIDE DEF L, R, T
<1>3. L \o <<op>> \in Seq(T) /\ Len(L \o <<op>>) = k + 1
  BY <1>2
<1>4. (L \o <<op>>) \o R \in Seq(T) /\ Len((L \o <<op>>) \o R) = k + 1 + m
  BY <1>2, <1>3
<1>5. Chain(op, l, r).text = (L \o <<op>>) \o R
  BY Zenon DEF Chain, L, R
<1> QED BY <1>4, <1>5 DEF HasLength, T

(* And one in parentheses, as long as it is without them, and two.         *)
LEMMA ParenthesisLength ==
  ASSUME NEW q, NEW c \in Nat, HasLength(q, c)
  PROVE  HasLength(Parenthesis(q), c + 2)
<1> DEFINE T == Token
           t == q.text
<1>1. t \in Seq(T) /\ Len(t) = c /\ "(" \in T /\ ")" \in T
  BY DEF HasLength, Token
<1> HIDE DEF T, t
<1>2. <<"(">> \o t \in Seq(T) /\ Len(<<"(">> \o t) = c + 1
  BY <1>1
<1>3. (<<"(">> \o t) \o <<")">> \in Seq(T) /\ Len((<<"(">> \o t) \o <<")">>) = c + 2
  BY <1>1, <1>2
<1>4. Parenthesis(q).text = (<<"(">> \o t) \o <<")">>
  BY DEF t, Parenthesis
<1> QED BY <1>3, <1>4 DEF HasLength, T

(* The sentences of n tokens have n tokens.                                *)
LEMMA SentenceLength ==
  ASSUME NEW n \in 0 .. MaxTokens
  PROVE  /\ \A e \in Values[n] : HasLength(e, n)
         /\ \A e \in Chains(Values, n) : HasLength(e, n)
<1> DEFINE S == {m \in 0 .. MaxTokens : \A k \in 0 .. m : \A e \in Values[k] : HasLength(e, k)}
<1>1. MaxTokens \in Nat
  BY MatcherAssumption
<1>2. ASSUME NEW m \in 0 .. MaxTokens, NEW c \in Int, c <= m + 2,
             \A k \in 0 .. m : \A e \in Values[k] : HasLength(e, k),
             NEW e \in Chains(Values, c)
      PROVE  HasLength(e, c)
  <2>1. PICK k \in 1 .. c - 2 : \E l \in Values[k] : \E r \in Values[c - 1 - k] : \E op \in {"&&", "||"} :
          e = Chain(op, l, r)
    BY ChainsAre
  <2>2. PICK l \in Values[k], r \in Values[c - 1 - k], op \in {"&&", "||"} :
          e = Chain(op, l, r)
    BY <2>1
  <2>3. /\ k \in 0 .. m /\ c - 1 - k \in 0 .. m /\ k \in Nat /\ c - 1 - k \in Nat
        /\ k + 1 + (c - 1 - k) = c
    BY <1>1, <1>2
  <2> DEFINE d == c - 1 - k
  <2>4. HasLength(l, k) /\ HasLength(r, d) /\ d \in Nat
    BY <1>2, <2>3
  <2> HIDE DEF d
  <2>5. HasLength(Chain(op, l, r), k + 1 + d)
    BY <2>3, <2>4, ChainLength
  <2> QED BY <2>2, <2>3, <2>5 DEF d
<1>3. 0 \in S
  <2>1. 0 \in 0 .. MaxTokens /\ \A k \in 0 .. 0 : k = 0
    BY <1>1
  <2>2. \A e : e \notin Values[0]
    BY <2>1, ValuesAre
  <2> QED BY <2>1, <2>2
<1>4. ASSUME NEW m \in 0 .. MaxTokens - 1, m \in S PROVE m + 1 \in S
  <2>1. m + 1 \in 0 .. MaxTokens /\ m \in 0 .. MaxTokens /\ \A k \in 0 .. m + 1 : k = m + 1 \/ k \in 0 .. m
    BY <1>1
  <2>2. \A k \in 0 .. m : \A e \in Values[k] : HasLength(e, k)
    BY <1>4
  <2>3. ASSUME NEW e \in Values[m + 1] PROVE HasLength(e, m + 1)
    <3>1. CASE m + 1 = 1
      <4>1. PICK token \in DOMAIN Rule : e = [text |-> <<token>>, matcher |-> matches(Rule[token])]
        BY <2>1, <3>1, ValuesAre
      <4>2. token \in Token
        BY DEF Token
      <4>3. <<token>> \in Seq(Token) /\ Len(<<token>>) = 1
        <5> DEFINE T == Token
        <5> HIDE DEF T
        <5>1. token \in T
          BY <4>2 DEF T
        <5>2. <<token>> \in Seq(T) /\ Len(<<token>>) = 1
          BY <5>1
        <5> QED BY <5>2 DEF T
      <4> QED BY <3>1, <4>1, <4>3 DEF HasLength
    <3>2. CASE m + 1 > 2
      <4>1. PICK q \in Values[m + 1 - 2] \cup Chains(Values, m + 1 - 2) :
              e = Parenthesis(q)
        BY <2>1, <3>2, ValuesAre
      <4> DEFINE c == m + 1 - 2
      <4>2. c \in 0 .. m /\ c \in Int /\ c <= m + 2 /\ m + 1 = c + 2 /\ c \in Nat
        BY <1>1, <3>2
      <4> HIDE DEF c
      <4>3. HasLength(q, c)
        BY <1>2, <2>1, <2>2, <4>1, <4>2 DEF c
      <4>4. HasLength(Parenthesis(q), c + 2)
        BY <4>2, <4>3, ParenthesisLength
      <4> QED BY <4>1, <4>2, <4>4
    <3> QED BY <2>1, <2>3, <3>1, <3>2, ValuesAre
  <2> QED BY <2>1, <2>2, <2>3
<1>5. 0 .. MaxTokens \subseteq S
  <2> DEFINE lo == 0
  <2> HIDE DEF S
  <2>1. lo \in Int /\ MaxTokens \in Int /\ lo <= MaxTokens /\ lo \in S
    BY <1>1, <1>3
  <2>2. \A i \in lo .. MaxTokens - 1 : i \in S => i + 1 \in S
    BY <1>4
  <2> HIDE DEF lo
  <2>3. lo .. MaxTokens \subseteq S
    BY <2>1, <2>2, Upwards
  <2> QED BY <2>3 DEF lo
<1>6. \A k \in 0 .. n : \A e \in Values[k] : HasLength(e, k)
  BY <1>5
<1>7. n \in 0 .. n /\ n \in Int /\ n <= n + 2
  BY <1>1
<1> QED BY <1>2, <1>6, <1>7
-----------------------------------------------------------------------------
(* What two texts begin with and end with is determined by where they are  *)
(* cut.                                                                    *)
LEMMA Cut ==
  ASSUME NEW A, NEW x \in Seq(A), NEW y \in Seq(A), NEW s \in Seq(A), NEW t \in Seq(A),
         x \o s = y \o t, Len(x) = Len(y)
  PROVE  x = y /\ s = t
<1>1. Len(x \o s) = Len(x) + Len(s) /\ Len(y \o t) = Len(y) + Len(t)
  BY ConcatProperties, Zenon
<1>2. Len(s) = Len(t) /\ Len(x) \in Nat /\ Len(s) \in Nat
  BY <1>1, LenProperties
<1>3. \A i \in 1 .. Len(x) : x[i] = y[i]
  <2> SUFFICES ASSUME NEW i \in 1 .. Len(x) PROVE x[i] = y[i]
    OBVIOUS
  <2>1. (x \o s)[i] = x[i] /\ (y \o t)[i] = y[i]
    BY <1>1, <1>2, ConcatProperties
  <2> QED BY <2>1
<1>4. \A i \in 1 .. Len(s) : s[i] = t[i]
  <2> SUFFICES ASSUME NEW i \in 1 .. Len(s) PROVE s[i] = t[i]
    OBVIOUS
  <2> DEFINE c == Len(x)
             k == c + i
  <2>1. k \in 1 .. c + Len(s) /\ k > c /\ k - c = i
    BY <1>2
  <2> HIDE DEF k
  <2>2. (x \o s)[k] = s[k - c] /\ (y \o t)[k] = t[k - c]
    BY <1>1, <1>2, <2>1, ConcatProperties
  <2> QED BY <2>1, <2>2
<1> QED BY <1>2, <1>3, <1>4, SeqEqual

Prepend(a, s) == <<a>> \o s

LEMMA CutFirst ==
  ASSUME NEW A, NEW a \in A, NEW b \in A, NEW s \in Seq(A), NEW t \in Seq(A),
         Prepend(a, s) = Prepend(b, t)
  PROVE  a = b /\ s = t
<1>1. <<a>> \in Seq(A) /\ <<b>> \in Seq(A) /\ Len(<<a>>) = 1 /\ Len(<<b>>) = 1
  OBVIOUS
<1>2. <<a>> = <<b>> /\ s = t
  BY <1>1, Cut, Zenon DEF Prepend
<1>3. <<a>> = <<b>> => a = b
  OBVIOUS
<1> QED BY <1>2, <1>3, Zenon

LEMMA NotEmpty ==
  ASSUME NEW A, NEW a \in A, NEW s \in Seq(A)
  PROVE  <<a>> \o s # <<>>
<1>1. <<a>> \in Seq(A) /\ Len(<<a>>) = 1
  OBVIOUS
<1>2. Len(<<a>> \o s) = 1 + Len(s) /\ Len(s) \in Nat
  BY <1>1
<1> DEFINE c == <<a>> \o s
<1> HIDE DEF c
<1>3. c # <<>>
  BY <1>2 DEF c
<1> QED BY <1>3 DEF c

(* The tokens of sentences are no spaces.                                  *)
LEMMA TokensAreNone ==
  ASSUME NEW text, IsSequence(text)
  PROVE  /\ Token \subseteq Alphabet(text) /\ "space" \notin Token
         /\ \A i \in 1 .. Len(text) : text[i] \in Alphabet(text)
<1>1. DOMAIN text = 1 .. Len(text)
  BY UnspacedAt
<1>2. \A i \in 1 .. Len(text) : text[i] \in Alphabet(text)
  BY <1>1 DEF Alphabet
<1>3. "space" \notin Token
  BY MatcherAssumption DEF Token
<1> QED BY <1>2, <1>3 DEF Token, Alphabet

(* Where the tokens from a position on begin with one, space() finds it.   *)
LEMMA FindToken ==
  ASSUME NEW text, IsSequence(text), NEW i \in 1 .. Len(text) + 1,
         NEW a \in Alphabet(text), NEW s \in Seq(Alphabet(text)), Unspaced(text)[i] = Prepend(a, s)
  PROVE  /\ space(text)[i] \in i .. Len(text)
         /\ At(text, space(text)[i], a) /\ text[space(text)[i]] = a
         /\ Unspaced(text)[space(text)[i] + 1] = s
<1> DEFINE n == Len(text)
           U == Unspaced(text)
           A == Alphabet(text)
           k == space(text)[i]
<1>1. k \in i .. n + 1 /\ ~At(text, k, "space") /\ U[k] = <<a>> \o s
  BY SpaceSkips, Zenon DEF Prepend
<1>2. /\ n \in Nat /\ U[n + 1] = <<>>
      /\ \A j \in 1 .. n : U[j] = IF text[j] = "space" THEN U[j + 1] ELSE <<text[j]>> \o U[j + 1]
      /\ \A j \in 1 .. n + 1 : U[j] \in Seq(A)
      /\ \A j \in 1 .. n : text[j] \in A
  BY UnspacedAt, TokensAreNone
<1> HIDE DEF n, U, A, k
<1>3. a \in A /\ s \in Seq(A) /\ i \in 1 .. n + 1
  BY DEF A, n
<1>4. k # n + 1
  BY <1>1, <1>2, <1>3, NotEmpty, Zenon
<1>5. k \in i .. n /\ k \in 1 .. n /\ k + 1 \in 1 .. n + 1 /\ k <= n
  BY <1>1, <1>2, <1>3, <1>4
<1>6. text[k] # "space"
  BY <1>1, <1>5 DEF At, n
<1>7. <<a>> \o s = <<text[k]>> \o U[k + 1]
  BY <1>1, <1>2, <1>5, <1>6, Zenon
<1>8. text[k] \in A /\ U[k + 1] \in Seq(A)
  BY <1>2, <1>5
<1>9. a = text[k] /\ s = U[k + 1]
  <2> DEFINE b == text[k]
             t == U[k + 1]
  <2>1. b \in A /\ t \in Seq(A) /\ Prepend(a, s) = Prepend(b, t)
    BY <1>7, <1>8 DEF Prepend
  <2> HIDE DEF b, t
  <2>2. a = b /\ s = t
    BY <1>3, <2>1, CutFirst
  <2> QED BY <2>2 DEF b, t
<1> QED BY <1>5, <1>9 DEF At, n, U, k

(* And the token it finds is the one they begin with.                      *)
LEMMA ReadToken ==
  ASSUME NEW text, IsSequence(text), NEW i \in 1 .. Len(text) + 1,
         NEW a \in Token, At(text, space(text)[i], a)
  PROVE  /\ space(text)[i] \in i .. Len(text)
         /\ Unspaced(text)[i] = Prepend(a, Unspaced(text)[space(text)[i] + 1])
<1> DEFINE n == Len(text)
           U == Unspaced(text)
           k == space(text)[i]
<1>1. k \in i .. n + 1 /\ U[k] = U[i]
  BY SpaceSkips
<1>2. /\ n \in Nat
      /\ \A j \in 1 .. n : U[j] = IF text[j] = "space" THEN U[j + 1] ELSE <<text[j]>> \o U[j + 1]
  BY UnspacedAt
<1>3. k <= n /\ text[k] = a /\ a # "space" /\ i \in 1 .. n + 1
  BY TokensAreNone DEF At
<1> HIDE DEF n, U, k
<1>4. k \in i .. n /\ k \in 1 .. n
  BY <1>1, <1>2, <1>3
<1>5. U[k] = <<a>> \o U[k + 1]
  BY <1>2, <1>3, <1>4, Zenon
<1> QED BY <1>1, <1>4, <1>5 DEF n, U, k, Prepend

(* The tokens from a position on are not more than those of the text, and  *)
(* there are some if no space ends it.                                     *)
LEMMA FewerTokens ==
  ASSUME NEW text, IsSequence(text), NEW i \in 1 .. Len(text) + 1, NEW max \in Nat,
         Len(Unspaced(text)[1]) <= max
  PROVE  Len(Unspaced(text)[i]) <= max
<1> DEFINE n == Len(text)
           U == Unspaced(text)
           A == Alphabet(text)
           S == {j \in 1 .. n + 1 : Len(U[j]) <= max}
<1>1. /\ n \in Nat
      /\ \A j \in 1 .. n : U[j] = IF text[j] = "space" THEN U[j + 1] ELSE <<text[j]>> \o U[j + 1]
      /\ \A j \in 1 .. n + 1 : U[j] \in Seq(A)
      /\ \A j \in 1 .. n : text[j] \in A
  BY UnspacedAt, TokensAreNone
<1> HIDE DEF U, A
<1>2. 1 \in S
  BY <1>1 DEF U
<1>3. ASSUME NEW j \in 1 .. n, j \in S PROVE j + 1 \in S
  <2>1. j + 1 \in 1 .. n + 1 /\ j \in 1 .. n + 1 /\ Len(U[j]) <= max
    BY <1>1, <1>3
  <2>2. U[j + 1] \in Seq(A) /\ text[j] \in A
    BY <1>1, <2>1
  <2>3. Len(<<text[j]>> \o U[j + 1]) = 1 + Len(U[j + 1]) /\ Len(U[j + 1]) \in Nat
    BY <2>2
  <2>4. Len(U[j]) = Len(U[j + 1]) \/ Len(U[j]) = 1 + Len(U[j + 1])
    BY <1>1, <2>3, Zenon
  <2>5. Len(U[j + 1]) <= max
    BY <2>1, <2>3, <2>4
  <2> QED BY <2>1, <2>5
<1>4. 1 .. n + 1 \subseteq S
  <2> DEFINE lo == 1
             hi == n + 1
  <2> HIDE DEF S
  <2>1. lo \in Int /\ hi \in Int /\ lo <= hi /\ lo \in S
    BY <1>1, <1>2
  <2>2. \A j \in lo .. hi - 1 : j \in S => j + 1 \in S
    BY <1>1, <1>3
  <2> HIDE DEF lo, hi
  <2>3. lo .. hi \subseteq S
    BY <2>1, <2>2, Upwards, Zenon
  <2> QED BY <2>3 DEF lo, hi
<1> QED BY <1>4 DEF U

LEMMA TokensRemain ==
  ASSUME NEW text, IsSequence(text), NEW i \in 1 .. Len(text), text[Len(text)] # "space"
  PROVE  Unspaced(text)[i] # <<>>
<1> DEFINE n == Len(text)
           U == Unspaced(text)
           A == Alphabet(text)
           S == {j \in 1 .. n : U[j] # <<>>}
<1>1. /\ n \in Nat /\ n \in 1 .. n
      /\ \A j \in 1 .. n : U[j] = IF text[j] = "space" THEN U[j + 1] ELSE <<text[j]>> \o U[j + 1]
      /\ \A j \in 1 .. n + 1 : U[j] \in Seq(A)
      /\ \A j \in 1 .. n : text[j] \in A
  BY UnspacedAt, TokensAreNone
<1> HIDE DEF U, A
<1>2. \A j \in 1 .. n : <<text[j]>> \o U[j + 1] # <<>>
  <2> SUFFICES ASSUME NEW j \in 1 .. n PROVE <<text[j]>> \o U[j + 1] # <<>>
    OBVIOUS
  <2>1. U[j + 1] \in Seq(A) /\ text[j] \in A
    BY <1>1
  <2> QED BY <2>1, NotEmpty
<1>3. n \in S
  BY <1>1, <1>2, Zenon
<1>4. ASSUME NEW j \in 1 .. n - 1, j + 1 \in S PROVE j \in S
  <2>1. j \in 1 .. n /\ U[j + 1] # <<>>
    BY <1>1, <1>4
  <2> QED BY <1>1, <1>2, <2>1, Zenon
<1>5. 1 .. n \subseteq S
  <2> DEFINE lo == 1
  <2> HIDE DEF S
  <2>1. lo \in Int /\ n \in Int /\ lo <= n /\ n \in S
    BY <1>1, <1>3
  <2>2. \A j \in lo .. n - 1 : j + 1 \in S => j \in S
    BY <1>1, <1>4
  <2> HIDE DEF lo, n
  <2>3. lo .. n \subseteq S
    BY <2>1, <2>2, Downwards, Zenon
  <2> QED BY <2>3 DEF lo
<1> QED BY <1>5 DEF U
-----------------------------------------------------------------------------
(* Four texts behind each other, however they are put together.            *)
Cat(x, y) == x \o y

LEMMA CatAssociative ==
  ASSUME NEW A
  PROVE  \A x, y, z \in Seq(A) : Cat(x, y) \in Seq(A) /\ Cat(Cat(x, y), z) = Cat(x, Cat(y, z))
<1> SUFFICES ASSUME NEW x \in Seq(A), NEW y \in Seq(A), NEW z \in Seq(A)
             PROVE  Cat(x, y) \in Seq(A) /\ Cat(Cat(x, y), z) = Cat(x, Cat(y, z))
  OBVIOUS
<1>1. (x \o y) \o z = x \o (y \o z)
  BY ConcatAssociative
<1> QED BY <1>1 DEF Cat

LEMMA Regroup ==
  ASSUME NEW A
  PROVE  \A w, x, y, z \in Seq(A) : Cat(Cat(Cat(w, x), y), z) = Cat(w, Cat(x, Cat(y, z)))
<1> SUFFICES ASSUME NEW w \in Seq(A), NEW x \in Seq(A), NEW y \in Seq(A), NEW z \in Seq(A)
             PROVE  Cat(Cat(Cat(w, x), y), z) = Cat(w, Cat(x, Cat(y, z)))
  OBVIOUS
<1>1. Cat(w, x) \in Seq(A) /\ Cat(y, z) \in Seq(A)
  BY CatAssociative
<1>2. Cat(Cat(Cat(w, x), y), z) = Cat(Cat(w, x), Cat(y, z))
  BY <1>1, CatAssociative
<1>3. Cat(Cat(w, x), Cat(y, z)) = Cat(w, Cat(x, Cat(y, z)))
  BY <1>1, CatAssociative
<1> QED BY <1>2, <1>3

(* A sentence in front of a text: the tokens it begins with.               *)
LEMMA ChainInFront ==
  ASSUME NEW A, Token \subseteq A, NEW l, NEW r, NEW op \in {"&&", "||"}, NEW k, NEW m,
         HasLength(l, k), HasLength(r, m), NEW s \in Seq(A)
  PROVE  /\ Cat(r.text, s) \in Seq(A) /\ Prepend(op, Cat(r.text, s)) \in Seq(A)
         /\ Cat(Chain(op, l, r).text, s) = Cat(l.text, Prepend(op, Cat(r.text, s)))
<1> DEFINE x == l.text
           y == r.text
           o == <<op>>
<1>1. x \in Seq(Token) /\ y \in Seq(Token) /\ op \in A
  BY DEF HasLength, Token
<1>2. x \in Seq(A) /\ y \in Seq(A) /\ o \in Seq(A)
  <2> DEFINE T == Token
  <2>1. T \subseteq A /\ x \in Seq(T) /\ y \in Seq(T)
    BY <1>1
  <2>2. o \in Seq(A)
    BY <1>1
  <2> HIDE DEF T, x, y, o
  <2> QED BY <2>1, <2>2
<1>3. Chain(op, l, r).text = (x \o o) \o y
  BY Zenon DEF Chain
<1>4. Prepend(op, y \o s) = o \o (y \o s)
  BY DEF Prepend
<1> HIDE DEF x, y, o
<1>5. y \o s \in Seq(A) /\ o \o (y \o s) \in Seq(A)
  BY <1>2, ConcatProperties
<1>6. ((x \o o) \o y) \o s = x \o (o \o (y \o s))
  <2>1. Cat(Cat(Cat(x, o), y), s) = Cat(x, Cat(o, Cat(y, s)))
    BY <1>2, Regroup
  <2> QED BY <2>1, Zenon DEF Cat
<1> QED BY <1>3, <1>4, <1>5, <1>6 DEF x, y, Cat

LEMMA ParenthesisInFront ==
  ASSUME NEW A, Token \subseteq A, NEW q, NEW m, HasLength(q, m), NEW s \in Seq(A)
  PROVE  /\ Prepend(")", s) \in Seq(A) /\ Cat(q.text, Prepend(")", s)) \in Seq(A)
         /\ Cat(Parenthesis(q).text, s) = Prepend("(", Cat(q.text, Prepend(")", s)))
<1> DEFINE x == q.text
           o == <<"(">>
           c == <<")">>
<1>1. x \in Seq(Token) /\ "(" \in A /\ ")" \in A
  BY DEF HasLength, Token
<1>2. x \in Seq(A) /\ o \in Seq(A) /\ c \in Seq(A)
  <2> DEFINE T == Token
  <2>1. T \subseteq A /\ x \in Seq(T)
    BY <1>1
  <2> HIDE DEF T, x
  <2> QED BY <1>1, <2>1
<1>3. Parenthesis(q).text = (o \o x) \o c
  BY DEF Parenthesis
<1>4. Prepend(")", s) = c \o s /\ Prepend("(", x \o Prepend(")", s)) = o \o (x \o (c \o s))
  BY DEF Prepend
<1> HIDE DEF x, o, c
<1>5. c \o s \in Seq(A) /\ x \o (c \o s) \in Seq(A)
  BY <1>2, ConcatProperties
<1>6. ((o \o x) \o c) \o s = o \o (x \o (c \o s))
  <2>1. Cat(Cat(Cat(o, x), c), s) = Cat(o, Cat(x, Cat(c, s)))
    BY <1>2, Regroup
  <2> QED BY <2>1, Zenon DEF Cat
<1> QED BY <1>3, <1>4, <1>5, <1>6, Zenon DEF x, Cat

(* What a sentence begins is as long as it is and what follows.            *)
LEMMA LengthInFront ==
  ASSUME NEW A, Token \subseteq A, NEW e, NEW m, HasLength(e, m), NEW s \in Seq(A)
  PROVE  e.text \in Seq(A) /\ Len(Cat(e.text, s)) = m + Len(s) /\ Len(s) \in Nat
<1> DEFINE x == e.text
           T == Token
<1>1. x \in Seq(T) /\ Len(x) = m /\ T \subseteq A
  BY DEF HasLength
<1> HIDE DEF x, T
<1>2. x \in Seq(A)
  BY <1>1
<1>3. Len(x \o s) = m + Len(s) /\ Len(s) \in Nat
  BY <1>1, <1>2, ConcatProperties, LenProperties, Zenon
<1> QED BY <1>2, <1>3 DEF x, Cat

(* Sentences are not empty, and what they begin is as long as both.        *)
LEMMA SentenceInFront ==
  ASSUME NEW A, Token \subseteq A, NEW m \in 0 .. MaxTokens,
         NEW e \in Values[m] \cup Chains(Values, m), NEW s \in Seq(A)
  PROVE  /\ m >= 1 /\ HasLength(e, m)
         /\ Len(Cat(e.text, s)) = m + Len(s) /\ Len(s) \in Nat /\ Cat(e.text, s) # <<>>
         /\ s = <<>> => Cat(e.text, s) = e.text
<1>1. HasLength(e, m)
  BY SentenceLength
<1>2. m # 0
  <2>1. e \in Values[m] => m # 0
    BY ValuesAre
  <2>2. e \in Chains(Values, m) => \E k \in 1 .. m - 2 : TRUE
    BY ChainsAre
  <2> QED BY <2>1, <2>2
<1>3. m >= 1
  BY <1>2
<1>4. e.text \in Seq(A) /\ Len(Cat(e.text, s)) = m + Len(s) /\ Len(s) \in Nat
  BY <1>1, LengthInFront
<1>5. Cat(e.text, s) # <<>>
  <2> DEFINE c == Cat(e.text, s)
  <2>1. Len(c) = m + Len(s)
    BY <1>4
  <2> HIDE DEF c
  <2>2. c # <<>>
    BY <1>3, <1>4, <2>1
  <2> QED BY <2>2 DEF c
<1>6. s = <<>> => Cat(e.text, s) = e.text
  BY <1>4, ConcatEmptySeq DEF Cat
<1> QED BY <1>1, <1>3, <1>4, <1>5, <1>6

(* Where tokens remain, space() stops at one.                              *)
LEMMA TokenAhead ==
  ASSUME NEW text, IsSequence(text), NEW i \in 1 .. Len(text) + 1, Unspaced(text)[i] # <<>>
  PROVE  space(text)[i] \in i .. Len(text) /\ text[space(text)[i]] # "space"
<1>1. /\ Len(text) \in Nat /\ Unspaced(text)[Len(text) + 1] = <<>>
      /\ space(text)[i] \in i .. Len(text) + 1 /\ ~At(text, space(text)[i], "space")
      /\ Unspaced(text)[space(text)[i]] = Unspaced(text)[i]
  BY UnspacedAt, SpaceSkips
<1>2. space(text)[i] # Len(text) + 1
  BY <1>1
<1>3. space(text)[i] \in i .. Len(text) /\ space(text)[i] <= Len(text)
  BY <1>1, <1>2
<1> QED BY <1>1, <1>3 DEF At
-----------------------------------------------------------------------------
(* The parser and the grammar.  ReadsAs: a result r at i stands for the    *)
(* sentence e, which the tokens from i to r.next are, and no space is its  *)
(* end.  Sound: every result of value() is for a value of the grammar.     *)
(* Complete: every value that the tokens begin with is a result.  Single:  *)
(* there is one result at most.                                            *)
ReadsAs(text, i, r, e) ==
  /\ text[r.next - 1] # "space" /\ e.matcher = r.matcher
  /\ Unspaced(text)[i] = Cat(e.text, Unspaced(text)[r.next])

Sound(text, i) ==
  \A r \in value(text)[i] : \E m \in 0 .. MaxTokens : \E e \in Values[m] : ReadsAs(text, i, r, e)

Complete(text, i) ==
  i <= Len(text) /\ text[i] # "space" =>
    \A m \in 0 .. MaxTokens : \A e \in Values[m] : \A s \in Seq(Alphabet(text)) :
      Unspaced(text)[i] = Cat(e.text, s) =>
        \E r \in value(text)[i] : r.matcher = e.matcher /\ Unspaced(text)[r.next] = s

Single(text, i) == \A q, r \in value(text)[i] : q = r

Parsed(text, i) == \A k \in i .. Len(text) + 1 : Sound(text, k) /\ Complete(text, k) /\ Single(text, k)

(* A text with no more tokens, spaces left out, than the grammar goes up   *)
(* to.                                                                     *)
Fits(text) == IsSequence(text) /\ Len(Unspaced(text)[1]) <= MaxTokens

(* A chain that is read is a chain of the grammar.                         *)
LEMMA ChainedSound ==
  ASSUME NEW text, Fits(text), NEW i \in 1 .. Len(text) + 1, Parsed(text, i),
         NEW op \in {"&&", "||"}, NEW r \in chained(text, value(text), op, i)
  PROVE  \E m \in 0 .. MaxTokens : \E e \in Chains(Values, m) : ReadsAs(text, i, r, e)
<1> DEFINE n == Len(text)
           U == Unspaced(text)
           A == Alphabet(text)
           V == value(text)
<1>1. IsSequence(text) /\ n \in Nat /\ MaxTokens \in Nat
  BY UnspacedAt, MatcherAssumption, Zenon DEF Fits
<1>2. PICK left \in V[i] : /\ At(text, space(text)[left.next], op)
                           /\ \E right \in V[Behind(text, left)] :
                                r = [matcher |-> Combine(op, left.matcher, right.matcher),
                                     next |-> right.next]
  BY ChainedIs
<1>3. PICK right \in V[Behind(text, left)] :
        r = [matcher |-> Combine(op, left.matcher, right.matcher), next |-> right.next]
  BY <1>2
<1> DEFINE k == space(text)[left.next]
           b == Behind(text, left)
<1>4. left \in Result(text, i)
  BY <1>1, ValueUnfolds DEF Typed
<1>5. left.next \in 1 .. n + 1 /\ k + 1 \in 1 .. n + 1 /\ b \in i .. n + 1 /\ b \in 1 .. n + 1 /\ i \in i .. n + 1
  <2>1. k + 1 \in i + 2 .. n + 1 /\ b \in i + 2 .. n + 1
    BY <1>1, <1>2, <1>4, BehindToken, Zenon
  <2>2. left.next \in i + 1 .. n + 1
    BY <1>4 DEF Result
  <2> HIDE DEF n, k, b
  <2>3. i \in 1 .. n + 1
    BY Zenon DEF n
  <2> QED BY <1>1, <2>1, <2>2, <2>3
<1>6. PICK x \in 0 .. MaxTokens : \E e \in Values[x] : ReadsAs(text, i, left, e)
  BY <1>5, Zenon DEF Parsed, Sound
<1>7. PICK y \in 0 .. MaxTokens : \E e \in Values[y] : ReadsAs(text, b, right, e)
  BY <1>5, Zenon DEF Parsed, Sound
<1>8. PICK l \in Values[x] : ReadsAs(text, i, left, l)
  BY <1>6
<1>9. PICK m \in Values[y] : ReadsAs(text, b, right, m)
  BY <1>7
<1>10. right.next \in 1 .. n + 1
  <2>1. right \in Result(text, b)
    BY <1>1, <1>5, ValueUnfolds, Zenon DEF Typed
  <2>2. right.next \in b + 1 .. n + 1
    BY <2>1 DEF Result
  <2> HIDE DEF n, b
  <2> QED BY <1>1, <1>5, <2>2
<1>11. U[right.next] \in Seq(A) /\ Token \subseteq A
  BY <1>1, <1>10, UnspacedAt, TokensAreNone, Zenon
<1>12. U[left.next] = Prepend(op, U[k + 1])
  <2>1. op \in Token
    BY Zenon DEF Token
  <2> QED BY <1>1, <1>2, <1>5, <2>1, ReadToken, Zenon
<1>13. U[k + 1] = U[b]
  BY <1>1, <1>5, SpaceSkips, Zenon DEF Behind
<1> DEFINE s == U[right.next]
<1>14. U[b] = Cat(m.text, s) /\ U[i] = Cat(l.text, U[left.next])
  BY <1>8, <1>9, Zenon DEF ReadsAs
<1>15. HasLength(l, x) /\ HasLength(m, y) /\ x >= 1 /\ y >= 1
  BY <1>11, SentenceInFront, Zenon
<1>16. Cat(Chain(op, l, m).text, s) = Cat(l.text, Prepend(op, Cat(m.text, s)))
  <2> HIDE DEF A, s
  <2>1. s \in Seq(A)
    BY <1>11, Zenon DEF s
  <2> QED BY <1>11, <1>15, <2>1, ChainInFront
<1>17. U[i] = Cat(Chain(op, l, m).text, s)
  BY <1>12, <1>13, <1>14, <1>16, Zenon
<1> DEFINE c == x + 1 + y
<1>18. HasLength(Chain(op, l, m), c)
  <2>1. x \in Nat /\ y \in Nat
    BY <1>1
  <2> QED BY <1>15, <2>1, ChainLength, Zenon
<1>19. c \in 0 .. MaxTokens
  <2>1. Len(U[i]) <= MaxTokens
    BY <1>1, FewerTokens, Zenon DEF Fits
  <2>2. Len(Cat(Chain(op, l, m).text, s)) = c + Len(s) /\ Len(s) \in Nat
    <3> HIDE DEF A, s, c
    <3>1. s \in Seq(A)
      BY <1>11 DEF s
    <3> QED BY <1>11, <1>18, <3>1, LengthInFront
  <2>3. c + Len(s) <= MaxTokens
    BY <1>17, <2>1, <2>2, Zenon
  <2> DEFINE rest == Len(s)
  <2> HIDE DEF rest
  <2>4. c + rest <= MaxTokens /\ rest \in Nat
    BY <2>2, <2>3, Zenon DEF rest
  <2> QED BY <1>1, <2>4
<1>20. Chain(op, l, m) \in Chains(Values, c)
  <2>1. x \in 1 .. c - 2 /\ c - 1 - x = y
    BY <1>1, <1>15
  <2> QED BY <2>1, ChainsAre, Zenon
<1>21. ReadsAs(text, i, r, Chain(op, l, m))
  <2>1. r.next = right.next /\ r.matcher = Combine(op, left.matcher, right.matcher)
    BY <1>3
  <2>2. Chain(op, l, m).matcher = Combine(op, l.matcher, m.matcher)
    BY Zenon DEF Chain
  <2>3. l.matcher = left.matcher /\ m.matcher = right.matcher /\ text[right.next - 1] # "space"
    BY <1>8, <1>9, Zenon DEF ReadsAs
  <2>4. Chain(op, l, m).matcher = r.matcher
    BY <2>1, <2>2, <2>3, Zenon
  <2> QED BY <1>17, <2>1, <2>3, <2>4, Zenon DEF ReadsAs
<1> QED BY <1>19, <1>20, <1>21, Zenon

(* So what is read at the top level is a sentence.                         *)
LEMMA TopLevelSound ==
  ASSUME NEW text, Fits(text), NEW i \in 1 .. Len(text) + 1, Parsed(text, i),
         NEW r \in top_level_expression(text, value(text), i)
  PROVE  \E m \in 0 .. MaxTokens : \E e \in Values[m] \cup Chains(Values, m) : ReadsAs(text, i, r, e)
<1>1. \/ r \in value(text)[i]
      \/ \E op \in {"&&", "||"} : r \in chained(text, value(text), op, i)
  BY DEF top_level_expression, chained_expression, Else
<1>2. CASE r \in value(text)[i]
  <2>1. i \in i .. Len(text) + 1
    BY UnspacedAt DEF Fits
  <2>2. \E m \in 0 .. MaxTokens : \E e \in Values[m] : ReadsAs(text, i, r, e)
    BY <1>2, <2>1, Zenon DEF Parsed, Sound
  <2> QED BY <2>2
<1>3. ASSUME NEW op \in {"&&", "||"}, r \in chained(text, value(text), op, i)
      PROVE  \E m \in 0 .. MaxTokens : \E e \in Values[m] \cup Chains(Values, m) : ReadsAs(text, i, r, e)
  <2>1. \E m \in 0 .. MaxTokens : \E e \in Chains(Values, m) : ReadsAs(text, i, r, e)
    BY <1>3, ChainedSound, Zenon
  <2> QED BY <2>1
<1> QED BY <1>1, <1>2, <1>3, Zenon

(* At the top level, too, there is one result at most: the value on the    *)
(* left is the only one, and it is followed by one operator.               *)
LEMMA TopLevelSingle ==
  ASSUME NEW text, Fits(text), NEW i \in 1 .. Len(text) + 1, Parsed(text, i)
  PROVE  \A q, r \in top_level_expression(text, value(text), i) : q = r
<1> DEFINE n == Len(text)
           V == value(text)
<1>1. IsSequence(text) /\ n \in Nat /\ i \in i .. n + 1
  BY UnspacedAt, Later, Zenon DEF Fits
<1>2. ASSUME NEW op \in {"&&", "||"}, NEW q \in chained(text, V, op, i), NEW r \in chained(text, V, op, i)
      PROVE  q = r
  <2>1. PICK left \in V[i] : /\ At(text, space(text)[left.next], op)
                             /\ \E right \in V[Behind(text, left)] :
                                  q = [matcher |-> Combine(op, left.matcher, right.matcher),
                                       next |-> right.next]
    BY ChainedIs
  <2>2. PICK other \in V[i] : /\ At(text, space(text)[other.next], op)
                              /\ \E right \in V[Behind(text, other)] :
                                   r = [matcher |-> Combine(op, other.matcher, right.matcher),
                                        next |-> right.next]
    BY ChainedIs
  <2>3. left = other
    BY <1>1, Zenon DEF Parsed, Single
  <2>4. left \in Result(text, i)
    BY <1>1, ValueUnfolds, Zenon DEF Typed
  <2>5. Behind(text, left) \in i .. n + 1
    <3>1. Behind(text, left) \in i + 2 .. n + 1
      BY <1>1, <2>1, <2>4, BehindToken, Zenon
    <3> QED BY <1>1, <3>1, Later, Zenon
  <2>6. \A x, y \in V[Behind(text, left)] : x = y
    BY <2>5, Zenon DEF Parsed, Single
  <2> QED BY <2>1, <2>2, <2>3, <2>6, Zenon
<1>3. \A q, r \in V[i] : q = r
  BY <1>1, Zenon DEF Parsed, Single
<1>4. \/ top_level_expression(text, V, i) = V[i]
      \/ \E op \in {"&&", "||"} : top_level_expression(text, V, i) = chained(text, V, op, i)
  BY Zenon DEF top_level_expression, chained_expression, Else
<1> QED BY <1>2, <1>3, <1>4, Zenon

(* Only the operator that follows the value on the left makes a chain.     *)
LEMMA OtherOperator ==
  ASSUME NEW text, Fits(text), NEW i \in 1 .. Len(text) + 1, Parsed(text, i),
         NEW left \in value(text)[i], NEW op, ~At(text, space(text)[left.next], op)
  PROVE  chained(text, value(text), op, i) = {}
<1>1. i \in i .. Len(text) + 1
  BY UnspacedAt, Later, Zenon DEF Fits
<1>2. \A q \in value(text)[i] : q = left
  BY <1>1, Zenon DEF Parsed, Single
<1>3. \A r : r \notin chained(text, value(text), op, i)
  BY <1>2, ChainedIs, Zenon
<1> QED BY <1>3, Zenon

(* A chain of the grammar that the tokens begin with is read.              *)
LEMMA ChainRead ==
  ASSUME NEW text, Fits(text), NEW i \in 1 .. Len(text), text[i] # "space", Parsed(text, i),
         NEW m \in 0 .. MaxTokens, NEW e \in Chains(Values, m), NEW s \in Seq(Alphabet(text)),
         Unspaced(text)[i] = Cat(e.text, s)
  PROVE  \E r \in top_level_expression(text, value(text), i) :
           r.matcher = e.matcher /\ Unspaced(text)[r.next] = s
<1> DEFINE n == Len(text)
           U == Unspaced(text)
           A == Alphabet(text)
           V == value(text)
<1>1. IsSequence(text) /\ n \in Nat /\ MaxTokens \in Nat /\ i \in i .. n + 1 /\ i \in 1 .. n + 1 /\ i <= n
  BY UnspacedAt, Inside, MatcherAssumption, Zenon DEF Fits
<1>2. PICK x \in 1 .. m - 2 : \E l \in Values[x] : \E z \in Values[m - 1 - x] : \E op \in {"&&", "||"} :
        e = Chain(op, l, z)
  <2>1. IsChain(Values, m, e)
    BY ChainOf, Zenon
  <2> QED BY <2>1, Zenon DEF IsChain
<1> DEFINE y == m - 1 - x
<1>3. x \in 0 .. MaxTokens /\ y \in 0 .. MaxTokens
  BY <1>1
<1>4. PICK l \in Values[x], z \in Values[y], op \in {"&&", "||"} : e = Chain(op, l, z)
  BY <1>2, Zenon
<1> HIDE DEF y
<1>5. Token \subseteq A /\ op \in Token /\ op \in A
  BY <1>1, TokensAreNone, Zenon DEF Token
<1>6. HasLength(l, x) /\ HasLength(z, y)
  BY <1>3, <1>5, SentenceInFront, Zenon
<1>7. /\ Cat(z.text, s) \in Seq(A) /\ Prepend(op, Cat(z.text, s)) \in Seq(A)
      /\ U[i] = Cat(l.text, Prepend(op, Cat(z.text, s)))
  <2> HIDE DEF A
  <2>1. s \in Seq(A)
    BY Zenon DEF A
  <2>2. /\ Cat(z.text, s) \in Seq(A) /\ Prepend(op, Cat(z.text, s)) \in Seq(A)
        /\ Cat(Chain(op, l, z).text, s) = Cat(l.text, Prepend(op, Cat(z.text, s)))
    <3>1. Token \subseteq A /\ s \in Seq(A) /\ HasLength(l, x) /\ HasLength(z, y)
      BY <1>5, <1>6, <2>1, Zenon
    <3> QED BY <3>1, ChainInFront
  <2> QED BY <1>4, <2>2, Zenon
<1>8. PICK left \in V[i] : left.matcher = l.matcher /\ U[left.next] = Prepend(op, Cat(z.text, s))
  <2> DEFINE t == Prepend(op, Cat(z.text, s))
  <2>1. t \in Seq(Alphabet(text)) /\ U[i] = Cat(l.text, t)
    BY <1>7
  <2>2. Complete(text, i)
    BY <1>1 DEF Parsed
  <2> HIDE DEF t
  <2>3. \E left \in V[i] : left.matcher = l.matcher /\ U[left.next] = t
    BY <1>1, <1>3, <2>1, <2>2 DEF Complete
  <2> QED BY <2>3 DEF t
<1> DEFINE k == space(text)[left.next]
           b == Behind(text, left)
<1>9. left \in Result(text, i)
  BY <1>1, ValueUnfolds DEF Typed
<1>10. left.next \in 1 .. n + 1
  <2>1. left.next \in i + 1 .. n + 1
    BY <1>9, Zenon DEF Result
  <2> QED BY <1>1, <2>1, Later, Zenon
<1>11. At(text, k, op) /\ text[k] = op /\ U[k + 1] = Cat(z.text, s)
  <2> DEFINE t == Cat(z.text, s)
  <2>1. op \in A /\ t \in Seq(A) /\ U[left.next] = Prepend(op, t)
    BY <1>5, <1>7, <1>8, Zenon
  <2> HIDE DEF t
  <2>2. At(text, k, op) /\ text[k] = op /\ U[k + 1] = t
    BY <1>1, <1>10, <2>1, FindToken
  <2> QED BY <2>2, Zenon DEF t
<1>12. k + 1 \in 1 .. n + 1 /\ b \in i .. n + 1
  <2>1. k + 1 \in i + 2 .. n + 1 /\ b \in i + 2 .. n + 1
    BY <1>1, <1>9, <1>11, BehindToken, Zenon
  <2> QED BY <1>1, <2>1, Later, Zenon
<1>13. U[b] = Cat(z.text, s)
  BY <1>1, <1>11, <1>12, SpaceSkips, Zenon DEF Behind
<1>14. b <= n /\ text[b] # "space"
  <2>1. U[k + 1] # <<>>
    <3> HIDE DEF A
    <3>1. s \in Seq(A) /\ z \in Values[y] \cup Chains(Values, y)
      BY <1>4, Zenon DEF A
    <3>2. Cat(z.text, s) # <<>>
      BY <1>3, <1>5, <3>1, SentenceInFront, Zenon
    <3> QED BY <1>11, <3>2, Zenon
  <2>2. b \in k + 1 .. n /\ text[b] # "space"
    BY <1>1, <1>12, <2>1, TokenAhead, Zenon DEF Behind
  <2> QED BY <1>1, <1>12, <2>2, Later, Zenon
<1>15. PICK right \in V[b] : right.matcher = z.matcher /\ U[right.next] = s
  <2>1. Complete(text, b)
    BY <1>12, Zenon DEF Parsed
  <2> HIDE DEF b
  <2> QED BY <1>3, <1>13, <1>14, <2>1, Zenon DEF Complete
<1> DEFINE r == [matcher |-> Combine(op, left.matcher, right.matcher), next |-> right.next]
<1>16. r \in chained(text, V, op, i)
  BY <1>11, <1>15, ChainedIs, Zenon
<1>17. \A other \in {"&&", "||"} : other # op => chained(text, V, other, i) = {}
  <2> SUFFICES ASSUME NEW other \in {"&&", "||"}, other # op PROVE chained(text, V, other, i) = {}
    BY Zenon
  <2>1. ~At(text, k, other)
    BY <1>11, Zenon DEF At
  <2> QED BY <1>1, <2>1, OtherOperator, Zenon
<1>18. r \in top_level_expression(text, V, i)
  <2> HIDE DEF r
  <2> QED BY <1>16, <1>17, Zenon DEF top_level_expression, chained_expression, Else
<1>19. r.matcher = e.matcher /\ U[r.next] = s
  BY <1>4, <1>8, <1>15, Zenon DEF Chain
<1> QED BY <1>18, <1>19, Zenon

(* And so is a value, when a parenthesis or nothing follows it.            *)
Ends(text, s) == s = <<>> \/ \E t \in Seq(Alphabet(text)) : s = Prepend(")", t)

LEMMA ValueRead ==
  ASSUME NEW text, Fits(text), NEW i \in 1 .. Len(text), text[i] # "space", Parsed(text, i),
         NEW m \in 0 .. MaxTokens, NEW e \in Values[m], NEW s \in Seq(Alphabet(text)), Ends(text, s),
         Unspaced(text)[i] = Cat(e.text, s)
  PROVE  \E r \in top_level_expression(text, value(text), i) :
           r.matcher = e.matcher /\ Unspaced(text)[r.next] = s
<1> DEFINE n == Len(text)
           U == Unspaced(text)
           A == Alphabet(text)
           V == value(text)
<1>1. IsSequence(text) /\ n \in Nat /\ i \in i .. n + 1 /\ i \in 1 .. n + 1 /\ i <= n
  BY UnspacedAt, Inside, Zenon DEF Fits
<1>2. PICK r \in V[i] : r.matcher = e.matcher /\ U[r.next] = s
  <2>1. Complete(text, i)
    BY <1>1 DEF Parsed
  <2> QED BY <1>1, <2>1, Zenon DEF Complete
<1>3. r.next \in 1 .. n + 1
  <2>1. r \in Result(text, i)
    BY <1>1, ValueUnfolds, Zenon DEF Typed
  <2>2. r.next \in i + 1 .. n + 1
    BY <2>1, Zenon DEF Result
  <2> QED BY <1>1, <2>2, Later, Zenon
<1>4. ASSUME NEW op \in {"&&", "||"} PROVE chained(text, V, op, i) = {}
  <2> SUFFICES ASSUME At(text, space(text)[r.next], op) PROVE FALSE
    BY <1>1, OtherOperator, Zenon
  <2> DEFINE k == space(text)[r.next]
             t == U[k + 1]
  <2>1. op \in Token /\ op \in A /\ ")" \in A /\ op # ")"
    BY <1>1, TokensAreNone, Zenon DEF Token
  <2>2. k \in r.next .. n /\ s = Prepend(op, t)
    BY <1>1, <1>2, <1>3, <2>1, ReadToken, Zenon
  <2>3. t \in Seq(A)
    <3>1. k + 1 \in 1 .. n + 1
      <4>1. k \in 1 .. n
        BY <1>1, <1>3, <2>2, Later, Zenon
      <4> QED BY <1>1, <4>1, Inside, Zenon
    <3> QED BY <1>1, <3>1, UnspacedAt, Zenon
  <2> HIDE DEF t, A
  <2>4. s # <<>>
    BY <2>1, <2>2, <2>3, NotEmpty, Zenon DEF Prepend
  <2>5. PICK u \in Seq(A) : s = Prepend(")", u)
    BY <2>4, Zenon DEF Ends, A
  <2>6. Prepend(op, t) = Prepend(")", u)
    BY <2>2, <2>5, Zenon
  <2> QED BY <2>1, <2>3, <2>6, CutFirst, Zenon
<1>5. top_level_expression(text, V, i) = V[i]
  BY <1>4, Zenon DEF top_level_expression, chained_expression, Else
<1> QED BY <1>2, <1>5, Zenon

(* What a text looks like that begins with a value.                        *)
LEMMA ValueBegins ==
  ASSUME NEW text, IsSequence(text), NEW i \in 1 .. Len(text), text[i] # "space",
         NEW m \in 0 .. MaxTokens, NEW e \in Values[m], NEW s \in Seq(Alphabet(text)),
         Unspaced(text)[i] = Cat(e.text, s)
  PROVE  \/ /\ text[i] \in DOMAIN Rule /\ Unspaced(text)[i + 1] = s
            /\ e = [text |-> <<text[i]>>, matcher |-> matches(Rule[text[i]])]
         \/ /\ text[i] = "(" /\ m > 2
            /\ \E q \in Values[m - 2] \cup Chains(Values, m - 2) :
                 e = Parenthesis(q) /\ Unspaced(text)[i + 1] = Cat(q.text, Prepend(")", s))
<1> DEFINE n == Len(text)
           U == Unspaced(text)
           A == Alphabet(text)
           b == text[i]
           t == U[i + 1]
<1>1. n \in Nat /\ MaxTokens \in Nat /\ Token \subseteq A
  BY UnspacedAt, MatcherAssumption, TokensAreNone
<1>2. b \in A /\ t \in Seq(A) /\ U[i] = Prepend(b, t)
  <2>1. i + 1 \in 1 .. n + 1
    BY <1>1
  <2> QED BY <2>1, UnspacedAt, TokensAreNone, Zenon DEF Prepend
<1>3. s \in Seq(A)
  OBVIOUS
<1>4. CASE m = 1
  <2>1. PICK token \in DOMAIN Rule : e = [text |-> <<token>>, matcher |-> matches(Rule[token])]
    BY <1>4, ValuesAre
  <2>2. Cat(e.text, s) = Prepend(token, s) /\ token \in A
    <3>1. token \in Token
      BY DEF Token
    <3> QED BY <1>1, <2>1, <3>1, Zenon DEF Cat, Prepend
  <2>3. Prepend(b, t) = Prepend(token, s)
    BY <1>2, <2>2, Zenon
  <2>4. b = token /\ t = s
    <3> HIDE DEF b, t, A
    <3> QED BY <1>2, <1>3, <2>2, <2>3, CutFirst
  <2> QED BY <2>1, <2>4
<1>5. CASE m > 2
  <2>1. PICK q \in Values[m - 2] \cup Chains(Values, m - 2) : e = Parenthesis(q)
    BY <1>5, ValuesAre
  <2>2. m - 2 \in 0 .. MaxTokens
    BY <1>1, <1>5
  <2>3. HasLength(q, m - 2)
    BY <2>2, SentenceLength, Zenon
  <2> DEFINE u == Cat(q.text, Prepend(")", s))
  <2>4. u \in Seq(A) /\ Cat(e.text, s) = Prepend("(", u)
    <3> HIDE DEF A
    <3>1. u \in Seq(A) /\ Cat(Parenthesis(q).text, s) = Prepend("(", u)
      BY <1>1, <1>3, <2>3, ParenthesisInFront
    <3> QED BY <2>1, <3>1, Zenon
  <2>5. Prepend(b, t) = Prepend("(", u) /\ "(" \in A
    BY <1>1, <1>2, <2>4, Zenon DEF Token
  <2>6. b = "(" /\ t = u
    <3> HIDE DEF b, t, A, u
    <3> QED BY <1>2, <2>4, <2>5, CutFirst
  <2> QED BY <1>5, <2>1, <2>6
<1> QED BY <1>4, <1>5, ValuesAre, Zenon
-----------------------------------------------------------------------------
(* The induction, from a position to the one in front of it.  A rule.      *)
LEMMA RuleParsed ==
  ASSUME NEW text, Fits(text), NEW i \in 1 .. Len(text), text[i] \in DOMAIN Rule
  PROVE  Sound(text, i) /\ Complete(text, i) /\ Single(text, i)
<1> DEFINE n == Len(text)
           U == Unspaced(text)
           r == [matcher |-> matches(Rule[text[i]]), next |-> i + 1]
           e == [text |-> <<text[i]>>, matcher |-> matches(Rule[text[i]])]
<1>1. IsSequence(text) /\ n \in Nat /\ i \in 1 .. n + 1 /\ i <= n /\ MaxTokens \in Nat /\ i + 1 \in 1 .. n + 1
  BY UnspacedAt, MatcherAssumption DEF Fits
<1>2. text[i] # "space" /\ text[i] # "("
  BY MatcherAssumption
<1>3. value(text)[i] = {r}
  <2>1. ~At(text, i, "(")
    BY <1>2 DEF At
  <2> QED BY <1>1, <2>1, ValueUnfolds, Zenon DEF ValueStep
<1>4. U[i] = Cat(e.text, U[i + 1])
  BY <1>1, <1>2, UnspacedAt, Zenon DEF Cat
<1>5. 1 \in 0 .. MaxTokens
  <2>1. Len(U[i]) <= MaxTokens
    BY <1>1, FewerTokens, Zenon DEF Fits
  <2> DEFINE A == Alphabet(text)
             a == text[i]
             s == U[i + 1]
  <2>2. a \in A /\ s \in Seq(A) /\ U[i] = <<a>> \o s
    BY <1>1, <1>4, UnspacedAt, TokensAreNone, Zenon DEF Cat
  <2> HIDE DEF A, a, s
  <2>3. Len(<<a>> \o s) = 1 + Len(s) /\ Len(s) \in Nat
    BY <2>2
  <2> DEFINE rest == Len(s)
  <2> HIDE DEF rest
  <2>4. 1 + rest <= MaxTokens /\ rest \in Nat
    BY <2>1, <2>2, <2>3, Zenon DEF rest
  <2> QED BY <1>1, <2>4
<1>6. Sound(text, i)
  <2>1. e \in Values[1]
    BY <1>5, ValuesAre, Zenon
  <2>2. r.next - 1 = i /\ r.next = i + 1 /\ e.matcher = r.matcher
    BY <1>1
  <2> HIDE DEF e, r
  <2>3. ReadsAs(text, i, r, e)
    BY <1>2, <1>4, <2>2, Zenon DEF ReadsAs
  <2> QED BY <1>3, <1>5, <2>1, <2>3, Zenon DEF Sound
<1>7. Complete(text, i)
  <2> SUFFICES ASSUME NEW m \in 0 .. MaxTokens, NEW d \in Values[m], NEW s \in Seq(Alphabet(text)),
                      U[i] = Cat(d.text, s)
               PROVE  r.matcher = d.matcher /\ U[r.next] = s
    BY <1>3, Zenon DEF Complete
  <2>1. U[i + 1] = s /\ d = e
    BY <1>1, <1>2, ValueBegins, Zenon
  <2> QED BY <2>1, Zenon
<1>8. Single(text, i)
  BY <1>3 DEF Single
<1> QED BY <1>6, <1>7, <1>8

(* A parenthesis.                                                          *)
LEMMA ParenthesisParsed ==
  ASSUME NEW text, Fits(text), NEW i \in 1 .. Len(text), text[i] = "(", Parsed(text, i + 1)
  PROVE  Sound(text, i) /\ Complete(text, i) /\ Single(text, i)
<1> DEFINE n == Len(text)
           U == Unspaced(text)
           A == Alphabet(text)
           V == value(text)
           a == i + 1
           j == space(text)[a]
<1>1. IsSequence(text) /\ n \in Nat /\ i \in 1 .. n + 1 /\ i <= n /\ MaxTokens \in Nat /\ a \in 1 .. n + 1
  BY UnspacedAt, MatcherAssumption DEF Fits
<1>2. j \in a .. n + 1 /\ U[j] = U[a]
  <2> HIDE DEF a
  <2> QED BY <1>1, SpaceSkips
<1>3. j \in 1 .. n + 1 /\ Parsed(text, j)
  <2>1. j \in 1 .. n + 1 /\ \A k \in j .. n + 1 : k \in a .. n + 1
    <3> HIDE DEF j, n
    <3> QED BY <1>1, <1>2
  <2> QED BY <2>1 DEF Parsed
<1>4. V[i] = parenthesized(text, V, i)
  <2>1. text[i] \notin DOMAIN Rule
    BY MatcherAssumption
  <2> QED BY <1>1, <2>1, ValueUnfolds, Zenon DEF ValueStep, At
<1>5. \A r : r \in V[i] <=>
        \E q \in top_level_expression(text, V, j) :
          /\ At(text, space(text)[q.next], ")")
          /\ r = [matcher |-> q.matcher, next |-> space(text)[q.next] + 1]
  BY <1>4, ParenthesizedIs
<1>6. Token \subseteq A /\ ")" \in Token /\ "(" \in Token /\ U[i] = Prepend("(", U[a])
  <2>1. text[i] # "space"
    OBVIOUS
  <2> QED BY <1>1, <2>1, UnspacedAt, TokensAreNone, Zenon DEF Token, Prepend
<1>7. Single(text, i)
  <2>1. \A q, r \in top_level_expression(text, V, j) : q = r
    BY <1>3, TopLevelSingle
  <2> QED BY <1>5, <2>1 DEF Single
<1>8. ASSUME NEW q \in top_level_expression(text, V, j) PROVE q.next \in 1 .. n + 1
  <2>1. Typed(text, V, 1) /\ 1 \in 1 .. n + 1
    BY <1>1, ValueUnfolds
  <2>2. q \in Result(text, j)
    <3> HIDE DEF j
    <3> QED BY <1>1, <1>3, <2>1, TopLevelTyped, Zenon
  <2>3. q.next \in j + 1 .. n + 1
    BY <2>2, Zenon DEF Result
  <2> HIDE DEF n, j
  <2> QED BY <1>1, <1>3, <2>3
<1>9. Sound(text, i)
  <2> SUFFICES ASSUME NEW r \in V[i]
               PROVE  \E m \in 0 .. MaxTokens : \E e \in Values[m] : ReadsAs(text, i, r, e)
    BY Zenon DEF Sound
  <2>1. PICK q \in top_level_expression(text, V, j) :
          /\ At(text, space(text)[q.next], ")")
          /\ r = [matcher |-> q.matcher, next |-> space(text)[q.next] + 1]
    BY <1>5, Zenon
  <2> DEFINE k == space(text)[q.next]
             s == U[k + 1]
  <2>2. q.next \in 1 .. n + 1
    BY <1>8, Zenon
  <2>3. k \in q.next .. n /\ U[q.next] = Prepend(")", s) /\ text[k] = ")"
    BY <1>1, <1>6, <2>1, <2>2, ReadToken, Zenon DEF At
  <2>4. k + 1 \in 1 .. n + 1 /\ k + 1 - 1 = k
    <3> HIDE DEF n, k
    <3> QED BY <1>1, <2>2, <2>3
  <2>5. s \in Seq(A)
    BY <1>1, <2>4, UnspacedAt
  <2>6. PICK x \in 0 .. MaxTokens : \E d \in Values[x] \cup Chains(Values, x) : ReadsAs(text, j, q, d)
    BY <1>3, TopLevelSound, Zenon
  <2>7. PICK d \in Values[x] \cup Chains(Values, x) : ReadsAs(text, j, q, d)
    BY <2>6, Zenon
  <2> DEFINE e == Parenthesis(d)
             m == x + 2
  <2>8. HasLength(d, x) /\ x >= 1
    BY <1>6, <2>5, SentenceInFront, Zenon
  <2>9. U[i] = Cat(e.text, s)
    <3>1. U[a] = Cat(d.text, Prepend(")", s))
      BY <1>2, <2>3, <2>7, Zenon DEF ReadsAs
    <3>2. Cat(e.text, s) = Prepend("(", Cat(d.text, Prepend(")", s)))
      <4> HIDE DEF A, s
      <4>1. Token \subseteq A /\ s \in Seq(A) /\ HasLength(d, x)
        BY <1>6, <2>5, <2>8, Zenon
      <4> QED BY <4>1, ParenthesisInFront
    <3> QED BY <1>6, <3>1, <3>2, Zenon
  <2>10. m \in 0 .. MaxTokens
    <3>1. Len(U[i]) <= MaxTokens
      BY <1>1, FewerTokens, Zenon DEF Fits
    <3>2. Len(U[i]) = m + Len(s) /\ Len(s) \in Nat
      <4>1. HasLength(e, m)
        <5>1. x \in Nat
          OBVIOUS
        <5> QED BY <2>8, <5>1, ParenthesisLength, Zenon
      <4> HIDE DEF A, s, e, m
      <4> QED BY <1>6, <2>5, <2>9, <4>1, LengthInFront
    <3> DEFINE rest == Len(s)
    <3>3. m + rest <= MaxTokens /\ rest \in Nat
      BY <3>1, <3>2, Zenon
    <3> HIDE DEF rest
    <3> QED BY <1>1, <3>3
  <2>11. e \in Values[m]
    <3>1. m > 2 /\ m - 2 = x
      BY <2>8
    <3> HIDE DEF m
    <3> QED BY <2>10, <3>1, ValuesAre
  <2>12. ReadsAs(text, i, r, e)
    <3>1. r.next = k + 1 /\ r.matcher = q.matcher /\ r.next - 1 = k
      <4>1. r.next = k + 1 /\ r.matcher = q.matcher
        BY <2>1, Zenon
      <4>2. k \in Nat
        <5>1. k \in 1 .. n
          BY <1>1, <2>2, <2>3, Later, Zenon
        <5> QED BY <1>1, <5>1, Inside, Zenon
      <4> HIDE DEF k
      <4> QED BY <4>1, <4>2
    <3>2. e.matcher = q.matcher
      BY <2>7, Zenon DEF ReadsAs, Parenthesis
    <3> HIDE DEF e, k
    <3> QED BY <2>3, <2>9, <3>1, <3>2, Zenon DEF ReadsAs
  <2> QED BY <2>10, <2>11, <2>12, Zenon
<1>10. Complete(text, i)
  <2> SUFFICES ASSUME NEW m \in 0 .. MaxTokens, NEW e \in Values[m], NEW s \in Seq(A),
                      U[i] = Cat(e.text, s)
               PROVE  \E r \in V[i] : r.matcher = e.matcher /\ U[r.next] = s
    BY DEF Complete
  <2>1. text[i] \notin DOMAIN Rule /\ text[i] # "space"
    BY MatcherAssumption, Zenon
  <2>2. m > 2 /\ \E q \in Values[m - 2] \cup Chains(Values, m - 2) :
                   e = Parenthesis(q) /\ U[a] = Cat(q.text, Prepend(")", s))
    <3>1. text[i] \in DOMAIN Rule \/ (text[i] = "(" /\ m > 2 /\ \E q \in Values[m - 2] \cup Chains(Values, m - 2) :
                   e = Parenthesis(q) /\ U[i + 1] = Cat(q.text, Prepend(")", s)))
      BY <1>1, <2>1, ValueBegins
    <3> QED BY <2>1, <3>1, Zenon
  <2> DEFINE x == m - 2
             t == Prepend(")", s)
  <2>3. PICK q \in Values[x] \cup Chains(Values, x) : e = Parenthesis(q) /\ U[a] = Cat(q.text, t)
    BY <2>2, Zenon
  <2>4. x \in 0 .. MaxTokens
    BY <1>1, <2>2
  <2> HIDE DEF x, a
  <2>5. t \in Seq(A) /\ Ends(text, t)
    <3>1. HasLength(q, x)
      BY <2>4, SentenceLength, Zenon
    <3>2. t \in Seq(A)
      <4> HIDE DEF A
      <4> QED BY <1>6, <3>1, ParenthesisInFront, Zenon
    <3> QED BY <3>2 DEF Ends
  <2>6. U[a] # <<>>
    <3> HIDE DEF A, t
    <3> QED BY <1>6, <2>3, <2>4, <2>5, SentenceInFront, Zenon
  <2>7. j \in a .. n /\ text[j] # "space"
    BY <1>1, <2>6, TokenAhead, Zenon
  <2>8. j \in 1 .. n
    <3> QED BY <1>1, <2>7, Later, Zenon
  <2>9. PICK d \in top_level_expression(text, V, j) : d.matcher = q.matcher /\ U[d.next] = t
    <3> HIDE DEF t, j
    <3>1. /\ U[j] = Cat(q.text, t) /\ text[j] # "space" /\ Parsed(text, j)
          /\ j \in 1 .. n /\ t \in Seq(A) /\ Ends(text, t)
      BY <1>2, <1>3, <2>3, <2>5, <2>7, <2>8, Zenon DEF j
    <3>2. CASE q \in Values[x]
      BY <2>4, <3>1, <3>2, ValueRead
    <3>3. CASE q \in Chains(Values, x)
      BY <2>4, <3>1, <3>3, ChainRead
    <3> QED BY <3>2, <3>3, Zenon
  <2> DEFINE k == space(text)[d.next]
             r == [matcher |-> d.matcher, next |-> k + 1]
  <2>10. d.next \in 1 .. n + 1
    BY <1>8, Zenon
  <2>11. At(text, k, ")") /\ U[k + 1] = s
    <3>1. ")" \in A /\ s \in Seq(A) /\ U[d.next] = Prepend(")", s)
      BY <1>6, <2>9, Zenon
    <3> QED BY <1>1, <2>10, <3>1, FindToken
  <2>12. r \in V[i]
    BY <1>5, <2>11, Zenon
  <2>13. r.matcher = e.matcher /\ U[r.next] = s
    BY <2>3, <2>9, <2>11, Zenon DEF Parenthesis
  <2> QED BY <2>12, <2>13, Zenon
<1> QED BY <1>7, <1>9, <1>10, Zenon

(* The results of value() are the values of the grammar, at any position.  *)
LEMMA AllParsed ==
  ASSUME NEW text, Fits(text)
  PROVE  Parsed(text, 1)
<1> DEFINE n == Len(text)
           S == {i \in 1 .. n + 1 : Parsed(text, i)}
<1>1. IsSequence(text) /\ n \in Nat /\ n + 1 \in 1 .. n + 1
  BY UnspacedAt DEF Fits
<1>2. n + 1 \in S
  <2>1. ~(n + 1 <= n) /\ \A k \in n + 1 .. n + 1 : k = n + 1
    BY <1>1
  <2>2. value(text)[n + 1] = {}
    <3>1. value(text)[n + 1] = ValueStep(text, value(text), n + 1)
      BY <1>1, ValueUnfolds, Zenon
    <3> QED BY <2>1, <3>1, Zenon DEF ValueStep, At
  <2>3. Sound(text, n + 1) /\ Complete(text, n + 1) /\ Single(text, n + 1)
    BY <2>1, <2>2, Zenon DEF Sound, Complete, Single
  <2> HIDE DEF n
  <2>4. Parsed(text, n + 1)
    BY <2>1, <2>3 DEF Parsed, n
  <2> QED BY <1>1, <2>4
<1>3. ASSUME NEW i \in 1 .. n, i + 1 \in S PROVE i \in S
  <2>1. /\ Parsed(text, i + 1) /\ i \in 1 .. n + 1 /\ i <= n
        /\ \A k \in i .. n + 1 : k = i \/ k \in i + 1 .. n + 1
    BY <1>1, <1>3
  <2>2. Sound(text, i) /\ Complete(text, i) /\ Single(text, i)
    <3>1. CASE text[i] \in DOMAIN Rule
      BY <3>1, RuleParsed, Zenon
    <3>2. CASE text[i] = "("
      BY <2>1, <3>2, ParenthesisParsed, Zenon
    <3>3. CASE text[i] \notin DOMAIN Rule /\ text[i] # "("
      <4>1. value(text)[i] = {}
        <5>1. value(text)[i] = ValueStep(text, value(text), i)
          BY <1>1, <2>1, ValueUnfolds, Zenon
        <5> QED BY <3>3, <5>1, Zenon DEF ValueStep, At
      <4>2. Complete(text, i)
        <5> SUFFICES ASSUME text[i] # "space", NEW m \in 0 .. MaxTokens, NEW e \in Values[m],
                            NEW s \in Seq(Alphabet(text)), Unspaced(text)[i] = Cat(e.text, s)
                     PROVE  FALSE
          BY DEF Complete
        <5> QED BY <1>1, <3>3, ValueBegins
      <4> QED BY <4>1, <4>2 DEF Sound, Single
    <3> QED BY <3>1, <3>2, <3>3, Zenon
  <2>3. Parsed(text, i)
    BY <2>1, <2>2 DEF Parsed
  <2> QED BY <2>1, <2>3, Zenon
<1>4. 1 .. n + 1 \subseteq S
  <2> DEFINE lo == 1
             hi == n + 1
  <2> HIDE DEF S
  <2>1. lo \in Int /\ hi \in Int /\ lo <= hi /\ hi \in S
    BY <1>1, <1>2
  <2>2. \A i \in lo .. hi - 1 : i + 1 \in S => i \in S
    BY <1>1, <1>3
  <2> HIDE DEF lo, hi
  <2>3. lo .. hi \subseteq S
    BY <2>1, <2>2, Downwards
  <2> QED BY <2>3 DEF lo, hi
<1>5. 1 \in 1 .. n + 1
  BY <1>1
<1>6. 1 \in S
  <2> HIDE DEF S
  <2> QED BY <1>4, <1>5, Zenon
<1> QED BY <1>6, Zenon

(* The parser accepts exactly the sentences of the grammar, however they   *)
(* are spaced but for spaces at the end, and the matcher it returns is     *)
(* what the grammar says of them.                                          *)
THEOREM ParserAgrees ==
  ASSUME NEW text, Fits(text)
  PROVE  parser(text) = Meaning(text) /\ parser(text) \subseteq SUBSET Target
<1> DEFINE n == Len(text)
           U == Unspaced(text)
           A == Alphabet(text)
           V == value(text)
           j == space(text)[1]
           top == top_level_expression(text, V, j)
<1>1. /\ IsSequence(text) /\ n \in Nat /\ 1 \in 1 .. n + 1 /\ MaxTokens \in Nat
      /\ U[1] \in Seq(A) /\ U[n + 1] = <<>> /\ <<>> \in Seq(A) /\ Token \subseteq A
  <2>1. IsSequence(text) /\ n \in Nat /\ 1 \in 1 .. n + 1
    BY UnspacedAt DEF Fits
  <2> QED BY <2>1, UnspacedAt, MatcherAssumption, TokensAreNone, EmptySeq, Zenon
<1>2. Parsed(text, 1)
  BY AllParsed, Zenon
<1>3. j \in 1 .. n + 1 /\ U[j] = U[1]
  BY <1>1, SpaceSkips, Zenon
<1>4. Parsed(text, j)
  <2>1. \A k \in j .. n + 1 : k \in 1 .. n + 1
    <3> QED BY <1>1, <1>3, Later, Zenon
  <2> QED BY <1>2, <2>1, Zenon DEF Parsed
<1>5. ASSUME NEW r \in top
      PROVE  r.matcher \in SUBSET Target /\ r.next \in 1 .. n + 1 /\ (r.next = n + 1 => n \in 1 .. n)
  <2>1. r \in Result(text, j)
    <3> HIDE DEF j
    <3> QED BY <1>1, <1>3, ValueUnfolds, TopLevelTyped, Zenon
  <2>2. r.next \in j + 1 .. n + 1 /\ r.matcher \in SUBSET Target
    BY <2>1 DEF Result
  <2> QED BY <1>1, <1>3, <2>2, Later, Zenon
<1>6. parser(text) = {r.matcher : r \in {r \in top : r.next = n + 1}}
  BY Zenon DEF parser
<1>7. ASSUME NEW r \in top, r.next = n + 1
      PROVE  /\ text[n] # "space" /\ n \in 1 .. n
             /\ \E e \in Sentences[Len(U[1])] : e.matcher = r.matcher /\ e.text = U[1]
  <2>1. PICK m \in 0 .. MaxTokens : \E e \in Values[m] \cup Chains(Values, m) : ReadsAs(text, j, r, e)
    BY <1>3, <1>4, TopLevelSound, Zenon
  <2>2. PICK e \in Values[m] \cup Chains(Values, m) : ReadsAs(text, j, r, e)
    BY <2>1, Zenon
  <2>3. e.matcher = r.matcher /\ U[1] = Cat(e.text, <<>>) /\ text[r.next - 1] # "space"
    BY <1>1, <1>3, <1>7, <2>2, Zenon DEF ReadsAs
  <2>4. HasLength(e, m) /\ Cat(e.text, <<>>) = e.text
    <3> HIDE DEF A
    <3> QED BY <1>1, SentenceInFront, Zenon
  <2>5. U[1] = e.text /\ Len(U[1]) = m
    BY <2>3, <2>4 DEF HasLength
  <2>6. e \in Sentences[m]
    BY DEF Sentences
  <2>7. r.next - 1 = n /\ n \in 1 .. n
    BY <1>1, <1>5, <1>7
  <2> QED BY <2>3, <2>5, <2>6, <2>7, Zenon
<1>8. ASSUME NEW e \in Sentences[Len(U[1])], e.text = U[1], n > 0 => text[n] # "space"
      PROVE  \E r \in top : r.next = n + 1 /\ r.matcher = e.matcher
  <2> DEFINE m == Len(U[1])
             s == <<>>
  <2>1. m \in 0 .. MaxTokens
    <3>1. m \in Nat
      BY <1>1, LenProperties
    <3> QED BY <1>1, <3>1 DEF Fits
  <2>2. e \in Values[m] \cup Chains(Values, m)
    BY <2>1 DEF Sentences
  <2> HIDE DEF m
  <2>3. Cat(e.text, s) = e.text /\ Cat(e.text, s) # <<>>
    <3> HIDE DEF A, s
    <3>1. s \in Seq(A) /\ s = <<>>
      BY <1>1 DEF s
    <3> QED BY <1>1, <2>1, <2>2, <3>1, SentenceInFront, Zenon
  <2>4. U[1] = Cat(e.text, s) /\ U[1] # <<>>
    BY <1>8, <2>3
  <2>5. j \in 1 .. n /\ text[j] # "space"
    BY <1>1, <2>4, TokenAhead
  <2>6. PICK r \in top : r.matcher = e.matcher /\ U[r.next] = s
    <3> HIDE DEF j, s
    <3>1. U[j] = Cat(e.text, s) /\ s \in Seq(Alphabet(text)) /\ Ends(text, s)
      BY <1>1, <1>3, <2>4, Zenon DEF Ends, s
    <3>2. CASE e \in Values[m]
      BY <1>4, <2>1, <2>5, <3>1, <3>2, ValueRead, Zenon
    <3>3. CASE e \in Chains(Values, m)
      BY <1>4, <2>1, <2>5, <3>1, <3>3, ChainRead, Zenon
    <3> QED BY <2>2, <3>2, <3>3, Zenon
  <2>7. r.next \in 1 .. n + 1
    BY <1>5, Zenon
  <2>8. text[n] # "space"
    <3> QED BY <1>1, <1>8, <2>5, Inside, Zenon
  <2>9. \A i \in 1 .. n : U[i] # <<>>
    BY <1>1, <2>8, TokensRemain, Zenon
  <2>10. r.next = n + 1
    <3>1. r.next \notin 1 .. n
      BY <2>6, <2>9, Zenon
    <3> QED BY <1>1, <2>7, <3>1, Later, Zenon
  <2> QED BY <2>6, <2>10
<1>9. text # <<>> <=> n > 0
  BY <1>1 DEF IsSequence
<1>10. \A x : x \in Meaning(text) <=>
         /\ n > 0 => text[n] # "space"
         /\ \E e \in Sentences[Len(U[1])] : e.text = U[1] /\ x = e.matcher
  <2>1. CASE text # <<>> /\ text[n] = "space"
    <3>1. Tokens(text) = {}
      BY <2>1, Zenon DEF Tokens
    <3>2. Meaning(text) = {}
      BY <3>1, Zenon DEF Meaning
    <3> QED BY <1>9, <2>1, <3>2, Zenon
  <2>2. CASE ~(text # <<>> /\ text[n] = "space")
    <3>1. Tokens(text) = {U[1]}
      BY <2>2, Zenon DEF Tokens
    <3>2. Meaning(text) = {e.matcher : e \in {e \in Sentences[Len(U[1])] : e.text = U[1]}}
      BY <3>1 DEF Meaning
    <3> QED BY <1>9, <2>2, <3>2, Zenon
  <2> QED BY <2>1, <2>2, Zenon
<1>11. \A x : x \in parser(text) <=> x \in Meaning(text)
  <2> SUFFICES ASSUME NEW x PROVE x \in parser(text) <=> x \in Meaning(text)
    BY Zenon
  <2> HIDE DEF top, U
  <2>1. ASSUME x \in parser(text) PROVE x \in Meaning(text)
    <3>1. PICK r \in top : r.next = n + 1 /\ x = r.matcher
      BY <1>6, <2>1, Zenon
    <3> QED BY <1>7, <1>10, <3>1, Zenon
  <2>2. ASSUME x \in Meaning(text) PROVE x \in parser(text)
    <3>1. PICK e \in Sentences[Len(U[1])] : e.text = U[1] /\ x = e.matcher
      BY <1>10, <2>2, Zenon
    <3>2. PICK r \in top : r.next = n + 1 /\ r.matcher = e.matcher
      BY <1>8, <1>10, <2>2, <3>1, Zenon
    <3> QED BY <1>6, <3>1, <3>2, Zenon
  <2> QED BY <2>1, <2>2, Zenon
<1>12. parser(text) = Meaning(text)
  BY <1>6, <1>11, Zenon DEF Meaning
<1>13. parser(text) \subseteq SUBSET Target
  BY <1>5, <1>6
<1> QED BY <1>12, <1>13, Zenon
=============================================================================
