---------------------------- MODULE DataLemmas ----------------------------
(***************************************************************************)
(* What holds of numbers, finite sets and sequences whatever they hold:    *)
(* induction over a set of numbers or of sequences (stated for sets, which *)
(* needs no operator parameter), and from it what recursive functions such *)
(* as FlattenSeq and FoldLeft compute for every input; and sums over       *)
(* finite sets.                                                            *)
(***************************************************************************)
EXTENDS Naturals, Sequences, FiniteSets, FiniteSetsExt, SequencesExt, SequenceTheorems,
        FiniteSetTheorems, WellFoundedInduction, TLAPS

\* A nonempty set of naturals has a least element.
LEMMA LeastNatural ==
    ASSUME NEW T, T \subseteq Nat, T # {}
    PROVE  \E x \in T : \A y \in T : x <= y
<1>1. PICK x \in T : \A y \in T : ~ (<<y, x>> \in OpToRel(<, Nat))
  BY NatLessThanWellFounded, WFMin
<1>2. \A y \in T : ~ (y < x)
  BY <1>1 DEF OpToRel
<1> QED
  BY <1>2

\* Induction over the naturals, for a set rather than a predicate.
LEMMA NatSetInduction ==
    ASSUME NEW T, 0 \in T, \A n \in Nat : n \in T => n + 1 \in T
    PROVE  Nat \subseteq T
<1> SUFFICES ASSUME Nat \ T # {} PROVE FALSE
  OBVIOUS
<1>1. PICK x \in Nat \ T : \A y \in Nat \ T : x <= y
  BY LeastNatural
<1>2. x # 0 /\ x - 1 \in Nat /\ x - 1 \in T
  BY <1>1
<1> QED
  BY <1>1, <1>2

\* A bounded set of naturals that is not empty has a greatest element.
LEMMA GreatestNatural ==
    ASSUME NEW T, T \subseteq Nat, T # {}, NEW b \in Nat, \A x \in T : x <= b
    PROVE  \E x \in T : \A y \in T : y <= x
<1> DEFINE U == {b - x : x \in T}
<1>1. U \subseteq Nat /\ U # {}
  <2>1. \A x \in T : b - x \in Nat
    OBVIOUS
  <2> QED
    BY <2>1
<1>2. PICK u \in U : \A v \in U : u <= v
  BY <1>1, LeastNatural
<1>3. PICK x \in T : u = b - x
  BY <1>2
<1>4. \A y \in T : b - x <= b - y
  BY <1>2, <1>3
<1> QED
  BY <1>3, <1>4

\* A set of at most one element has no two.
LEMMA AtMostOne ==
    ASSUME NEW S, IsFiniteSet(S), Cardinality(S) <= 1, NEW a \in S, NEW b \in S
    PROVE  a = b
<1>1. IsFiniteSet(S \ {a}) /\ Cardinality(S \ {a}) = Cardinality(S) - 1
  BY FS_RemoveElement
<1>2. Cardinality(S) \in Nat /\ Cardinality(S \ {a}) \in Nat
  BY <1>1, FS_CardinalityType
<1>3. Cardinality(S \ {a}) = 0
  BY <1>1, <1>2
<1>4. S \ {a} = {}
  BY <1>1, <1>3, FS_EmptySet
<1> QED
  BY <1>4

\* An upper bound that is in the set is its maximum.
LEMMA MaxIs ==
    ASSUME NEW S, NEW m \in S, \A x \in S : m >= x, \A x \in S : x \in Nat
    PROVE  Max(S) = m
<1>1. PICK c : c = CHOOSE x \in S : \A y \in S : x >= y
  OBVIOUS
<1>2. c \in S /\ \A y \in S : c >= y
  BY <1>1
<1>3. c >= m /\ m >= c /\ c \in Nat /\ m \in Nat
  BY <1>2
<1>4. c = m
  BY <1>3
<1> QED
  BY <1>1, <1>4 DEF Max

\* The maximum of two is one of them, and at least both.
LEMMA MaxOfTwo ==
    ASSUME NEW a \in Nat, NEW b \in Nat
    PROVE  /\ Max({a, b}) \in {a, b} /\ a <= Max({a, b}) /\ b <= Max({a, b})
           /\ Max({a, b}) \in Nat
<1>1. CASE a <= b
  <2>1. Max({a, b}) = b
    BY <1>1, MaxIs
  <2> QED
    BY <1>1, <2>1
<1>2. CASE ~ (a <= b)
  <2>1. Max({a, b}) = a
    BY <1>2, MaxIs
  <2> QED
    BY <1>2, <2>1
<1> QED
  BY <1>1, <1>2

\* What holds of the empty sequence, and of a sequence one element longer, holds of all.
LEMMA SeqSetInduction ==
    ASSUME NEW S, NEW T, << >> \in T,
           \A s \in Seq(S), e \in S : s \in T => Append(s, e) \in T
    PROVE  Seq(S) \subseteq T
<1> DEFINE N == {k \in Nat : \A s \in Seq(S) : Len(s) = k => s \in T}
<1>1. 0 \in N
  <2>1. \A s \in Seq(S) : Len(s) = 0 => s = << >>
    OBVIOUS
  <2> QED
    BY <2>1
<1>2. ASSUME NEW k \in Nat, k \in N PROVE k + 1 \in N
  <2> SUFFICES ASSUME NEW s \in Seq(S), Len(s) = k + 1 PROVE s \in T
    OBVIOUS
  <2>1. PICK q \in Seq(S), e \in S : s = Append(q, e)
    BY SequenceEmptyOrAppend
  <2>2. Len(q) = k
    BY <2>1
  <2> QED
    BY <1>2, <2>1, <2>2
<1>3. Nat \subseteq N
  <2> HIDE DEF N
  <2> QED
    BY <1>1, <1>2, NatSetInduction
<1> QED
  BY <1>3

\* The elements of a sequence one longer, and whether they differ.
LEMMA AppendElements ==
    ASSUME NEW S, NEW s \in Seq(S), NEW e \in S
    PROVE  /\ ToSet(Append(s, e)) = ToSet(s) \cup {e}
           /\ IsInjective(Append(s, e)) <=> IsInjective(s) /\ e \notin ToSet(s)
<1> DEFINE n == Len(s)
           a == Append(s, e)
<1>1. /\ n \in Nat /\ DOMAIN s = 1 .. n /\ DOMAIN a = 1 .. n + 1
      /\ \A i \in 1 .. n : a[i] = s[i]
      /\ a[n + 1] = e
  OBVIOUS
<1> HIDE DEF n, a
<1>2. ToSet(a) = ToSet(s) \cup {e}
  BY <1>1 DEF ToSet
<1>3. ASSUME IsInjective(a) PROVE IsInjective(s) /\ e \notin ToSet(s)
  BY <1>1, <1>3 DEF IsInjective, ToSet
<1>4. ASSUME IsInjective(s), e \notin ToSet(s) PROVE IsInjective(a)
  BY <1>1, <1>4 DEF IsInjective, ToSet
<1> QED
  BY <1>2, <1>3, <1>4 DEF a

\* h takes n steps of F from init.
Steps(h, n, init, F) == h[0] = init /\ \A i \in 1 .. n : h[i] = F[i][h[i - 1]]

\* Steps of a function can be taken one after the other ...
LEMMA StepsExist ==
    ASSUME NEW S, NEW init \in S, NEW n \in Nat, NEW F \in [1 .. n -> [S -> S]]
    PROVE  \E h \in [0 .. n -> S] : Steps(h, n, init, F)
<1> DEFINE T == {k \in Nat : k <= n => \E h \in [0 .. k -> S] : Steps(h, k, init, F)}
<1>1. 0 \in T
  <2> DEFINE h == [i \in 0 .. 0 |-> init]
  <2>1. h \in [0 .. 0 -> S] /\ Steps(h, 0, init, F)
    BY DEF Steps
  <2> QED
    BY <2>1
<1>2. ASSUME NEW k \in Nat, k \in T PROVE k + 1 \in T
  <2> SUFFICES ASSUME k + 1 <= n
               PROVE  \E h \in [0 .. k + 1 -> S] : Steps(h, k + 1, init, F)
    OBVIOUS
  <2>1. PICK f \in [0 .. k -> S] : Steps(f, k, init, F)
    BY <1>2
  <2> DEFINE g == [i \in 0 .. k + 1 |-> IF i = k + 1 THEN F[k + 1][f[k]] ELSE f[i]]
  <2>2. F[k + 1] \in [S -> S] /\ f[k] \in S /\ F[k + 1][f[k]] \in S
    <3>1. k + 1 \in 1 .. n /\ k \in 0 .. k
      OBVIOUS
    <3> QED
      BY <2>1, <3>1
  <2>3. g \in [0 .. k + 1 -> S]
    BY <2>2
  <2>4. ASSUME NEW i \in 1 .. k + 1 PROVE g[i] = F[i][g[i - 1]]
    <3>1. i - 1 \in 0 .. k /\ g[i - 1] = f[i - 1]
      OBVIOUS
    <3>2. CASE i = k + 1
      BY <3>1, <3>2
    <3>3. CASE i # k + 1
      <4>1. i \in 1 .. k /\ g[i] = f[i]
        BY <3>3
      <4> QED
        BY <2>1, <3>1, <4>1 DEF Steps
    <3> QED
      BY <3>2, <3>3
  <2>5. g[0] = init
    BY <2>1 DEF Steps
  <2> HIDE DEF g
  <2> QED
    BY <2>3, <2>4, <2>5 DEF Steps
<1>3. Nat \subseteq T
  <2> HIDE DEF T
  <2> QED
    BY <1>1, <1>2, NatSetInduction
<1> QED
  BY <1>3

\* ... and lead to one place.
LEMMA StepsAgree ==
    ASSUME NEW S, NEW init \in S, NEW n \in Nat, NEW F \in [1 .. n -> [S -> S]],
           NEW f, NEW h, Steps(f, n, init, F), Steps(h, n, init, F)
    PROVE  \A i \in 0 .. n : f[i] = h[i]
<1> DEFINE T == {k \in Nat : k <= n => f[k] = h[k]}
<1>1. 0 \in T
  BY DEF Steps
<1>2. ASSUME NEW k \in Nat, k \in T PROVE k + 1 \in T
  <2> SUFFICES ASSUME k + 1 <= n PROVE f[k + 1] = h[k + 1]
    OBVIOUS
  <2>1. f[k] = h[k]
    BY <1>2
  <2>2. k + 1 \in 1 .. n /\ (k + 1) - 1 = k
    OBVIOUS
  <2> QED
    BY <2>1, <2>2 DEF Steps
<1>3. Nat \subseteq T
  <2> HIDE DEF T
  <2> QED
    BY <1>1, <1>2, NatSetInduction
<1> QED
  BY <1>3

\* What holds at a place as soon as it holds behind it holds everywhere.
LEMMA DownwardInduction ==
    ASSUME NEW n \in Nat, NEW T,
           \A x \in 0 .. n : (\A y \in 0 .. n : y > x => y \in T) => x \in T
    PROVE  0 .. n \subseteq T
<1> DEFINE D == {k \in Nat : \A x \in 0 .. n : n - x < k => x \in T}
<1>1. 0 \in D
  OBVIOUS
<1>2. ASSUME NEW k \in Nat, k \in D PROVE k + 1 \in D
  <2>1. ASSUME NEW x \in 0 .. n, n - x < k + 1 PROVE x \in T
    <3>1. \A y \in 0 .. n : y > x => n - y < k
      BY <2>1
    <3> QED
      BY <1>2, <3>1
  <2> QED
    BY <2>1
<1>3. n + 1 \in D
  <2> HIDE DEF D
  <2> QED
    BY <1>1, <1>2, NatSetInduction
<1> QED
  BY <1>3

\* f looks up its own value further on, at J[x], as long as there is such a place.
Jumps(f, n, J, E, F) == \A x \in 0 .. n : f[x] = IF J[x] > x THEN F[x][f[J[x]]] ELSE E[x]

\* Such a function exists, although its steps go down from n.
LEMMA JumpsExist ==
    ASSUME NEW n \in Nat, NEW S, NEW J \in [0 .. n -> 0 .. n],
           NEW E \in [0 .. n -> S], NEW F \in [0 .. n -> [S -> S]]
    PROVE  \E f \in [0 .. n -> S] : Jumps(f, n, J, E, F)
<1> DEFINE Value(f, x) == IF J[x] > x THEN F[x][f[J[x]]] ELSE E[x]
           Right(f, x) == f[x] = Value(f, x)
           RightFrom(f, k) == \A x \in 0 .. n : n - x < k => Right(f, x)
           D == {k \in Nat : \E f \in [0 .. n -> S] : RightFrom(f, k)}
<1>1. 0 \in D
  <2>1. \A x \in 0 .. n : n - x < 0 => Right(E, x)
    OBVIOUS
  <2> QED
    BY <2>1
<1>2. ASSUME NEW k \in Nat, k \in D PROVE k + 1 \in D
  <2>1. PICK f \in [0 .. n -> S] : \A x \in 0 .. n : n - x < k => Right(f, x)
    BY <1>2
  <2>2. CASE k > n
    <3>1. RightFrom(f, k + 1)
      BY <2>1, <2>2
    <3> HIDE DEF RightFrom
    <3> QED
      BY <3>1
  <2>3. CASE k <= n
    <3>1. n - k \in 0 .. n
      BY <2>3
    <3>2. Value(f, n - k) \in S
      <4>1. /\ J[n - k] \in 0 .. n /\ E[n - k] \in S /\ F[n - k] \in [S -> S]
        BY <3>1
      <4>2. f[J[n - k]] \in S
        BY <4>1
      <4> QED
        BY <4>1, <4>2
    <3> DEFINE g == [f EXCEPT ![n - k] = Value(f, n - k)]
    <3>3. g \in [0 .. n -> S] /\ g[n - k] = Value(f, n - k)
          /\ \A y \in 0 .. n : y # n - k => g[y] = f[y]
      <4> HIDE DEF Value
      <4> QED
        BY <3>1, <3>2
    <3> HIDE DEF g
    <3>4. ASSUME NEW x \in 0 .. n, n - x < k + 1 PROVE Right(g, x)
      <4>1. x = n - k \/ (x # n - k /\ n - x < k)
        BY <3>4
      <4>2. g[x] = Value(f, x)
        BY <2>1, <3>3, <4>1
      <4>3. Value(f, x) = Value(g, x)
        <5>1. CASE J[x] > x
          <6>1. J[x] \in 0 .. n /\ J[x] # n - k
            BY <4>1, <5>1
          <6> QED
            BY <3>3, <5>1, <6>1
        <5>2. CASE ~ (J[x] > x)
          BY <5>2
        <5> QED
          BY <5>1, <5>2
      <4> QED
        BY <4>2, <4>3
    <3>5. RightFrom(g, k + 1)
      <4> HIDE DEF Right
      <4> QED
        BY <3>4
    <3> HIDE DEF RightFrom
    <3> QED
      BY <3>3, <3>5
  <2> QED
    BY <2>2, <2>3
<1>3. n + 1 \in D
  <2> HIDE DEF D
  <2> QED
    BY <1>1, <1>2, NatSetInduction
<1>4. PICK f \in [0 .. n -> S] : \A x \in 0 .. n : n - x < n + 1 => Right(f, x)
  BY <1>3
<1>5. \A x \in 0 .. n : Right(f, x)
  BY <1>4
<1> QED
  BY <1>5 DEF Jumps
-----------------------------------------------------------------------------
(* FlattenSeq *)

Concat(S, ss) == [i \in 1 .. Len(ss) |-> [x \in Seq(S) |-> x \o ss[i]]]

\* The steps of FlattenSeq map sequences over S to sequences over S.
LEMMA ConcatType ==
    ASSUME NEW S, NEW ss \in Seq(Seq(S))
    PROVE  Concat(S, ss) \in [1 .. Len(ss) -> [Seq(S) -> Seq(S)]] /\ << >> \in Seq(S)
<1>1. ASSUME NEW i \in 1 .. Len(ss) PROVE [x \in Seq(S) |-> x \o ss[i]] \in [Seq(S) -> Seq(S)]
  BY <1>1
<1> QED
  BY <1>1 DEF Concat

\* Flattening takes the sequences one after the other.
LEMMA FlattenSteps ==
    ASSUME NEW S, NEW ss \in Seq(Seq(S)), NEW h \in [0 .. Len(ss) -> Seq(S)],
           Steps(h, Len(ss), << >>, Concat(S, ss))
    PROVE  FlattenSeq(ss) = h[Len(ss)]
<1> DEFINE n == Len(ss)
           Is(f) == f = [i \in 1 .. n |-> IF i = 1 THEN ss[i] ELSE f[i - 1] \o ss[i]]
<1>1. CASE n = 0
  BY <1>1 DEF FlattenSeq, Steps
<1>2. CASE n # 0
  <2>1. ASSUME NEW i \in 1 .. n
        PROVE  h[i] = h[i - 1] \o ss[i] /\ h[i - 1] \in Seq(S) /\ ss[i] \in Seq(S)
    <3>1. n \in Nat /\ i - 1 \in 0 .. n
      OBVIOUS
    <3>2. h[i - 1] \in Seq(S)
      BY <3>1
    <3>3. ss[i] \in Seq(S)
      OBVIOUS
    <3>4. Concat(S, ss)[i][h[i - 1]] = h[i - 1] \o ss[i]
      BY <3>2, <3>3 DEF Concat
    <3> QED
      BY <3>2, <3>3, <3>4 DEF Steps
  <2>2. h[1] = ss[1]
    <3>1. 1 \in 1 .. n /\ 1 - 1 = 0
      BY <1>2
    <3>2. h[1] = h[0] \o ss[1] /\ ss[1] \in Seq(S)
      BY <2>1, <3>1
    <3>3. h[0] = << >>
      BY DEF Steps
    <3> QED
      BY <3>2, <3>3
  <2> DEFINE g == [i \in 1 .. n |-> h[i]]
  <2>3. ASSUME NEW i \in 1 .. n PROVE g[i] = IF i = 1 THEN ss[i] ELSE g[i - 1] \o ss[i]
    <3>1. CASE i = 1
      BY <2>2, <3>1
    <3>2. CASE i # 1
      <4>1. i - 1 \in 1 .. n
        BY <3>2
      <4> QED
        BY <2>1, <3>2, <4>1
    <3> QED
      BY <3>1, <3>2
  <2>4. Is(g)
    BY <2>3
  <2>5. PICK f : f = CHOOSE x : Is(x)
    OBVIOUS
  <2> HIDE DEF g
  <2>6. Is(f)
    BY <2>4, <2>5
  <2>7. FlattenSeq(ss) = f[n]
    BY <1>2, <2>5 DEF FlattenSeq
  <2>8. ASSUME NEW i \in 1 .. n PROVE f[i] = IF i = 1 THEN ss[i] ELSE f[i - 1] \o ss[i]
    BY <2>6
  <2> DEFINE T == {k \in Nat : k + 1 <= n => f[k + 1] = h[k + 1]}
  <2> HIDE DEF Is
  <2>9. 0 \in T
    BY <1>2, <2>2, <2>8
  <2>10. ASSUME NEW k \in Nat, k \in T PROVE k + 1 \in T
    <3> SUFFICES ASSUME k + 2 <= n PROVE f[k + 2] = h[k + 2]
      OBVIOUS
    <3>1. f[k + 1] = h[k + 1]
      BY <2>10
    <3>2. k + 2 \in 1 .. n /\ k + 2 # 1 /\ (k + 2) - 1 = k + 1
      OBVIOUS
    <3>3. f[k + 2] = f[k + 1] \o ss[k + 2] /\ h[k + 2] = h[k + 1] \o ss[k + 2]
      BY <2>1, <2>8, <3>2
    <3> QED
      BY <3>1, <3>3
  <2>11. Nat \subseteq T
    <3> HIDE DEF T
    <3> QED
      BY <2>9, <2>10, NatSetInduction
  <2>12. n - 1 \in Nat /\ (n - 1) + 1 = n
    BY <1>2
  <2>13. f[n] = h[n]
    <3>1. n - 1 \in T
      BY <2>11, <2>12
    <3> QED
      BY <2>12, <3>1
  <2> QED
    BY <2>7, <2>13
<1> QED
  BY <1>1, <1>2

\* What FlattenSeq returns, as functional programmers know it.
LEMMA FlattenEmpty == FlattenSeq(<< >>) = << >>
  BY DEF FlattenSeq

\* FlattenSeq of one more sequence is that sequence at the end.
LEMMA FlattenAppend ==
    ASSUME NEW S, NEW ss \in Seq(Seq(S)), NEW s \in Seq(S)
    PROVE  /\ FlattenSeq(ss) \in Seq(S)
           /\ FlattenSeq(Append(ss, s)) = FlattenSeq(ss) \o s
<1> DEFINE n == Len(ss)
           st == Append(ss, s)
<1>1. /\ n \in Nat /\ st \in Seq(Seq(S)) /\ Len(st) = n + 1
      /\ \A i \in 1 .. n : st[i] = ss[i]
      /\ st[n + 1] = s
  <2>1. s \in Seq(S) /\ ss \in Seq(Seq(S))
    OBVIOUS
  <2> DEFINE E == Seq(S)
  <2> HIDE DEF E
  <2>2. ASSUME NEW r \in E, NEW q \in Seq(E)
        PROVE  /\ Len(q) \in Nat /\ Append(q, r) \in Seq(E) /\ Len(Append(q, r)) = Len(q) + 1
               /\ \A i \in 1 .. Len(q) : Append(q, r)[i] = q[i]
               /\ Append(q, r)[Len(q) + 1] = r
    OBVIOUS
  <2> QED
    BY <2>1, <2>2 DEF E
<1> HIDE DEF n, st
<1>2. PICK h \in [0 .. n + 1 -> Seq(S)] : Steps(h, n + 1, << >>, Concat(S, st))
  <2>1. Concat(S, st) \in [1 .. n + 1 -> [Seq(S) -> Seq(S)]] /\ << >> \in Seq(S)
    BY <1>1, ConcatType
  <2> DEFINE E == Seq(S)
             m == n + 1
             F == Concat(S, st)
  <2>2. m \in Nat /\ F \in [1 .. m -> [E -> E]] /\ << >> \in E
    BY <1>1, <2>1
  <2> HIDE DEF E, m, F
  <2>3. \E h \in [0 .. m -> E] : Steps(h, m, << >>, F)
    BY <2>2, StepsExist
  <2> QED
    BY <2>3 DEF E, m, F
<1>3. FlattenSeq(st) = h[n + 1]
  BY <1>1, <1>2, FlattenSteps
<1>4. h[n] \in Seq(S) /\ h[n + 1] = h[n] \o s
  <2>1. n + 1 \in 1 .. n + 1 /\ (n + 1) - 1 = n /\ n \in 0 .. n + 1
    BY <1>1
  <2>2. h[n + 1] = Concat(S, st)[n + 1][h[n]] /\ h[n] \in Seq(S)
    BY <1>2, <2>1 DEF Steps
  <2>3. Concat(S, st)[n + 1] = [x \in Seq(S) |-> x \o s]
    BY <1>1, <2>1 DEF Concat
  <2> QED
    BY <2>2, <2>3
<1> DEFINE g == [i \in 0 .. n |-> h[i]]
<1>5. g \in [0 .. n -> Seq(S)]
  BY <1>1
<1>6. Steps(g, n, << >>, Concat(S, ss))
  <2>1. ASSUME NEW i \in 1 .. n PROVE g[i] = Concat(S, ss)[i][g[i - 1]]
    <3>1. i \in 1 .. n + 1 /\ i - 1 \in 0 .. n /\ i - 1 \in 0 .. n + 1 /\ i \in 0 .. n
      BY <1>1
    <3>2. g[i] = h[i] /\ g[i - 1] = h[i - 1] /\ h[i - 1] \in Seq(S)
      BY <3>1
    <3>3. h[i] = Concat(S, st)[i][h[i - 1]]
      BY <1>2, <3>1 DEF Steps
    <3>4. Concat(S, st)[i] = Concat(S, ss)[i]
      BY <1>1, <3>1 DEF Concat, n
    <3> QED
      BY <3>2, <3>3, <3>4
  <2>2. g[0] = << >>
    BY <1>1, <1>2 DEF Steps
  <2> HIDE DEF g
  <2> QED
    BY <2>1, <2>2 DEF Steps
<1>7. FlattenSeq(ss) = g[n]
  BY <1>5, <1>6, FlattenSteps DEF n
<1> QED
  BY <1>1, <1>3, <1>4, <1>7 DEF st

\* A sequence is its first k elements and the rest.
LEMMA CutInTwo ==
    ASSUME NEW S, NEW s \in Seq(S), NEW k \in 0 .. Len(s)
    PROVE  /\ SubSeq(s, k + 1, Len(s)) \in Seq(S)
           /\ SubSeq(s, 1, k) \o SubSeq(s, k + 1, Len(s)) = s
<1> DEFINE a == SubSeq(s, 1, k)
           b == SubSeq(s, k + 1, Len(s))
<1>1. Len(s) \in Nat /\ k \in Nat /\ k <= Len(s)
  OBVIOUS
<1>2. a \in Seq(S) /\ Len(a) = k /\ \A i \in 1 .. k : a[i] = s[i]
  BY <1>1
<1>3. b \in Seq(S) /\ Len(b) = Len(s) - k /\ \A i \in 1 .. Len(s) - k : b[i] = s[k + i]
  BY <1>1
<1> HIDE DEF a, b
<1>4. a \o b \in Seq(S) /\ Len(a \o b) = Len(s)
  BY <1>1, <1>2, <1>3
<1>5. ASSUME NEW i \in 1 .. Len(s) PROVE (a \o b)[i] = s[i]
  <2>1. CASE i <= k
    <3>1. (a \o b)[i] = a[i]
      BY <1>1, <1>2, <1>3, <2>1
    <3> QED
      BY <1>1, <1>2, <2>1, <3>1
  <2>2. CASE ~ (i <= k)
    <3>1. i - k \in 1 .. Len(s) - k /\ k + (i - k) = i
      BY <1>1, <2>2
    <3>2. (a \o b)[i] = b[i - k]
      BY <1>1, <1>2, <1>3, <2>2
    <3> QED
      BY <1>3, <3>1, <3>2
  <2> QED
    BY <2>1, <2>2
<1>6. a \o b = s
  <2> DEFINE c == a \o b
  <2>1. c \in Seq(S) /\ Len(c) = Len(s) /\ \A i \in 1 .. Len(s) : c[i] = s[i]
    BY <1>4, <1>5
  <2> HIDE DEF c
  <2>2. c = s
    BY <2>1, SeqEqual
  <2> QED
    BY <2>2 DEF c
<1> QED
  BY <1>3, <1>6 DEF a, b

\* The prefixes of a sequence are those of the longer one, and the whole is a prefix.
LEMMA AppendPrefixes ==
    ASSUME NEW S, NEW s \in Seq(S), NEW e \in S
    PROVE  /\ Append(s, e) \in Seq(S) /\ Len(Append(s, e)) = Len(s) + 1
           /\ Append(s, e)[Len(s) + 1] = e
           /\ \A i \in 1 .. Len(s) : /\ Append(s, e)[i] = s[i]
                                     /\ SubSeq(Append(s, e), 1, i) = SubSeq(s, 1, i)
           /\ SubSeq(Append(s, e), 1, Len(s) + 1) = Append(s, e)
<1> DEFINE t == Append(s, e)
<1>1. t \in Seq(S) /\ Len(t) = Len(s) + 1 /\ t[Len(s) + 1] = e /\ Len(s) \in Nat
      /\ \A i \in 1 .. Len(s) : t[i] = s[i]
  OBVIOUS
<1> HIDE DEF t
<1>2. ASSUME NEW i \in 1 .. Len(s) PROVE SubSeq(t, 1, i) = SubSeq(s, 1, i)
  <2> DEFINE a == SubSeq(t, 1, i)
             b == SubSeq(s, 1, i)
  <2>1. a \in Seq(S) /\ Len(a) = i /\ \A j \in 1 .. i : a[j] = t[j]
    BY <1>1
  <2>2. b \in Seq(S) /\ Len(b) = i /\ \A j \in 1 .. i : b[j] = s[j]
    BY <1>1
  <2>3. \A j \in 1 .. i : t[j] = s[j]
    BY <1>1
  <2> HIDE DEF a, b
  <2>4. a = b
    BY <2>1, <2>2, <2>3, SeqEqual
  <2> QED
    BY <2>4 DEF a, b
<1>3. SubSeq(t, 1, Len(s) + 1) = t
  <2> DEFINE a == SubSeq(t, 1, Len(s) + 1)
  <2>1. a \in Seq(S) /\ Len(a) = Len(t) /\ \A j \in 1 .. Len(t) : a[j] = t[j]
    BY <1>1
  <2> HIDE DEF a
  <2>2. a = t
    BY <1>1, <2>1, SeqEqual
  <2> QED
    BY <2>2 DEF a
<1> QED
  BY <1>1, <1>2, <1>3 DEF t

-----------------------------------------------------------------------------
(* Sums over finite sets *)

\* f[x] points for each x of S: the sum of f over S is how many there are.
Points(f, S) == UNION {{x} \X (1 .. f[x]) : x \in S}

Total(f, S) == Cardinality(Points(f, S))

\* What a fold over the subsets of S that adds up f returns for them.
Adds(sum, f, S) ==
    sum = [s \in SUBSET S |-> IF s = {} THEN 0
                              ELSE f[CHOOSE x \in s : TRUE] + sum[s \ {CHOOSE x \in s : TRUE}]]

\* A finite sum of naturals has finitely many points, so it is a natural.
LEMMA PointsAreFinite ==
    ASSUME NEW S, IsFiniteSet(S), NEW f, \A x \in S : f[x] \in Nat
    PROVE  IsFiniteSet(Points(f, S)) /\ Total(f, S) \in Nat
<1> DEFINE At(x) == {x} \X (1 .. f[x])
<1>1. ASSUME NEW x \in S PROVE IsFiniteSet(At(x))
  <2>1. IsFiniteSet({x}) /\ IsFiniteSet(1 .. f[x])
    <3>1. 1 \in Int /\ f[x] \in Int
      OBVIOUS
    <3> QED
      BY <3>1, FS_Singleton, FS_Interval
  <2> QED
    BY <2>1, FS_Product
<1>2. IsFiniteSet({At(x) : x \in S})
  <2> DEFINE g == [x \in S |-> At(x)]
  <2> HIDE DEF At
  <2>1. g \in Surjection(S, {At(x) : x \in S})
    BY DEF Surjection
  <2> QED
    BY <2>1, FS_Surjection
<1> HIDE DEF At
<1>3. IsFiniteSet(UNION {At(x) : x \in S})
  BY <1>1, <1>2, FS_UNION
<1> QED
  BY <1>3, FS_CardinalityType DEF Points, Total, At

\* The empty sum is zero.
LEMMA TotalEmpty == ASSUME NEW f PROVE Total(f, {}) = 0
  BY FS_EmptySet DEF Total, Points

\* The sum over two disjoint sets is the sum of their sums.
LEMMA TotalUnion ==
    ASSUME NEW S, IsFiniteSet(S), NEW T, IsFiniteSet(T), S \cap T = {},
           NEW f, \A x \in S \cup T : f[x] \in Nat
    PROVE  Total(f, S \cup T) = Total(f, S) + Total(f, T)
<1>1. Points(f, S \cup T) = Points(f, S) \cup Points(f, T)
  BY DEF Points
<1>2. Points(f, S) \cap Points(f, T) = {}
  BY DEF Points
<1>3. IsFiniteSet(Points(f, S)) /\ IsFiniteSet(Points(f, T))
  BY PointsAreFinite
<1>4. Cardinality(Points(f, S) \cup Points(f, T))
        = Cardinality(Points(f, S)) + Cardinality(Points(f, T)) - Cardinality({})
  BY <1>2, <1>3, FS_Union
<1>5. Cardinality(Points(f, S)) \in Nat /\ Cardinality(Points(f, T)) \in Nat /\ Cardinality({}) = 0
  BY <1>3, FS_CardinalityType, FS_EmptySet
<1>6. Total(f, S \cup T) = Cardinality(Points(f, S) \cup Points(f, T))
  BY <1>1, Zenon DEF Total
<1> QED
  BY <1>4, <1>5, <1>6 DEF Total

\* The sum over one element is its summand.
LEMMA TotalOne ==
    ASSUME NEW x, NEW f, f[x] \in Nat
    PROVE  Total(f, {x}) = f[x]
<1>1. Points(f, {x}) = {x} \X (1 .. f[x])
  BY DEF Points
<1>2. IsFiniteSet({x}) /\ Cardinality({x}) = 1
  BY FS_Singleton
<1>3. IsFiniteSet(1 .. f[x]) /\ Cardinality(1 .. f[x]) = f[x]
  BY FS_Interval
<1>4. Cardinality({x} \X (1 .. f[x])) = 1 * f[x]
  <2> DEFINE A == {x}
             B == 1 .. f[x]
  <2>1. IsFiniteSet(A) /\ Cardinality(A) = 1 /\ IsFiniteSet(B) /\ Cardinality(B) = f[x]
    BY <1>2, <1>3
  <2> HIDE DEF A, B
  <2>2. Cardinality(A \X B) = Cardinality(A) * Cardinality(B)
    BY <2>1, FS_Product
  <2> QED
    BY <2>1, <2>2 DEF A, B
<1>5. Total(f, {x}) = Cardinality({x} \X (1 .. f[x]))
  BY <1>1, Zenon DEF Total
<1> QED
  BY <1>4, <1>5

\* Functions that agree on a set have the same sum over it.
LEMMA TotalSame ==
    ASSUME NEW S, NEW f, NEW g, \A x \in S : f[x] = g[x]
    PROVE  Total(f, S) = Total(g, S)
  BY DEF Total, Points

\* A summand can be taken out of its sum.
LEMMA TotalSplit ==
    ASSUME NEW S, IsFiniteSet(S), NEW x \in S, NEW f, \A y \in S : f[y] \in Nat
    PROVE  Total(f, S) = f[x] + Total(f, S \ {x})
<1>1. S = (S \ {x}) \cup {x} /\ (S \ {x}) \cap {x} = {} /\ IsFiniteSet(S \ {x}) /\ IsFiniteSet({x})
  BY FS_Singleton, FS_Difference
<1>2. Total(f, S) = Total(f, S \ {x}) + Total(f, {x})
  BY <1>1, TotalUnion
<1>3. Total(f, S \ {x}) \in Nat
  BY <1>1, PointsAreFinite
<1> QED
  BY <1>2, <1>3, TotalOne

\* The sums over the subsets of S are what a fold that adds up f computes.
LEMMA TotalAdds ==
    ASSUME NEW S, IsFiniteSet(S), NEW f, \A x \in S : f[x] \in Nat
    PROVE  Adds([s \in SUBSET S |-> Total(f, s)], f, S)
<1> DEFINE sum == [s \in SUBSET S |-> Total(f, s)]
<1>1. ASSUME NEW s \in SUBSET S, s # {}
      PROVE  Total(f, s) = f[CHOOSE x \in s : TRUE] + Total(f, s \ {CHOOSE x \in s : TRUE})
  <2>1. IsFiniteSet(s) /\ (CHOOSE x \in s : TRUE) \in s
    BY <1>1, FS_Subset
  <2> QED
    BY <2>1, TotalSplit
<1>2. \A s \in SUBSET S : sum[s] = IF s = {} THEN 0
              ELSE f[CHOOSE x \in s : TRUE] + sum[s \ {CHOOSE x \in s : TRUE}]
  BY <1>1, TotalEmpty
<1> QED
  BY <1>2 DEF Adds

\* Whatever adds up f over the subsets of S gives S its sum.
LEMMA AddsTotal ==
    ASSUME NEW S, IsFiniteSet(S), NEW f, \A x \in S : f[x] \in Nat, NEW sum, Adds(sum, f, S)
    PROVE  sum[S] = Total(f, S)
<1> DEFINE Bad == {s \in SUBSET S : sum[s] # Total(f, s)}
<1> SUFFICES ASSUME Bad # {} PROVE FALSE
  OBVIOUS
<1>1. \A s \in SUBSET S : IsFiniteSet(s) /\ Cardinality(s) \in Nat
  BY FS_Subset, FS_CardinalityType
<1>2. PICK n \in {Cardinality(s) : s \in Bad} : \A m \in {Cardinality(s) : s \in Bad} : n <= m
  <2>1. {Cardinality(s) : s \in Bad} \subseteq Nat /\ {Cardinality(s) : s \in Bad} # {}
    BY <1>1
  <2> QED
    BY <2>1, LeastNatural
<1>3. PICK s \in Bad : Cardinality(s) = n
  BY <1>2
<1> DEFINE x == CHOOSE y \in s : TRUE
<1>4. s # {}
  BY <1>3, TotalEmpty DEF Adds
<1>5. x \in s
  BY <1>4
<1>6. sum[s] = f[x] + sum[s \ {x}]
  BY <1>4 DEF Adds
<1>7. Total(f, s) = f[x] + Total(f, s \ {x})
  BY <1>1, <1>5, TotalSplit
<1> HIDE DEF x
<1>8. Cardinality(s \ {x}) = n - 1 /\ n \in Nat
  BY <1>1, <1>3, <1>5, FS_RemoveElement
<1>9. s \ {x} \notin Bad
  BY <1>2, <1>8
<1> QED
  BY <1>3, <1>6, <1>7, <1>9

\* When one summand changes, the sum changes by as much.
LEMMA TotalChange ==
    ASSUME NEW S, IsFiniteSet(S), NEW x \in S, NEW f, NEW g,
           \A y \in S : f[y] \in Nat /\ g[y] \in Nat,
           \A y \in S \ {x} : g[y] = f[y]
    PROVE  /\ Total(f, S) \in Nat /\ Total(g, S) \in Nat
           /\ Total(g, S) + f[x] = Total(f, S) + g[x]
<1>1. Total(f, S) = f[x] + Total(f, S \ {x}) /\ Total(g, S) = g[x] + Total(g, S \ {x})
  BY TotalSplit
<1>2. Total(f, S \ {x}) = Total(g, S \ {x})
  BY TotalSame
<1>3. IsFiniteSet(S \ {x}) /\ \A y \in S \ {x} : f[y] \in Nat
  BY FS_Difference
<1>4. Total(f, S \ {x}) \in Nat
  BY <1>3, PointsAreFinite
<1> QED
  BY <1>1, <1>2, <1>4

-------------------------------------------------------------------------------
(* FoldLeft, which folds over the indices from the greatest down: for every *)
(* function of steps it exists, and takes the elements in their order.      *)

\* it folds F over the initial parts of 1 .. n, as FoldLeft does: by the greatest index.
FoldsOver(it, D, init, F) ==
    \A s \in SUBSET D : it[s] = IF s = {} THEN init ELSE F[Max(s)][it[s \ {Max(s)}]]

\* The greatest of a set of indices.
LEMMA MaxOfIndices ==
    ASSUME NEW n \in Nat, NEW s, s \subseteq 1 .. n, s # {}
    PROVE  Max(s) \in s /\ \A i \in s : i <= Max(s)
<1>1. s \subseteq Nat /\ \A i \in s : i <= n
  OBVIOUS
<1>2. PICK m \in s : \A i \in s : i <= m
  BY <1>1, GreatestNatural
<1>3. Max(s) = m
  <2>1. \A i \in s : m >= i
    BY <1>1, <1>2
  <2> QED
    BY <1>1, <2>1, MaxIs
<1> QED
  BY <1>2, <1>3

\* The function that FoldLeft chooses exists ...
LEMMA FoldExists ==
    ASSUME NEW S, NEW init \in S, NEW n \in Nat, NEW F \in [1 .. n -> [S -> S]]
    PROVE  \E it \in [SUBSET (1 .. n) -> S] : FoldsOver(it, 1 .. n, init, F)
<1> DEFINE Folds(k) == \E it \in [SUBSET (1 .. k) -> S] : FoldsOver(it, 1 .. k, init, F)
           T == {k \in Nat : k <= n => Folds(k)}
<1>1. Folds(0)
  <2> DEFINE it == [s \in SUBSET (1 .. 0) |-> init]
  <2>1. it \in [SUBSET (1 .. 0) -> S]
    OBVIOUS
  <2>2. \A s \in SUBSET (1 .. 0) : s = {}
    OBVIOUS
  <2>3. FoldsOver(it, 1 .. 0, init, F)
    BY <2>2 DEF FoldsOver
  <2> QED
    BY <2>1, <2>3
<1>2. ASSUME NEW k \in Nat, k + 1 <= n, Folds(k) PROVE Folds(k + 1)
  <2>1. PICK f \in [SUBSET (1 .. k) -> S] : FoldsOver(f, 1 .. k, init, F)
    BY <1>2
  <2> DEFINE g == [s \in SUBSET (1 .. k + 1) |->
                     IF k + 1 \in s THEN F[k + 1][f[s \ {k + 1}]] ELSE f[s]]
  <2>2. ASSUME NEW s \in SUBSET (1 .. k + 1)
        PROVE  /\ k + 1 \notin s => s \in SUBSET (1 .. k)
               /\ s \ {k + 1} \in SUBSET (1 .. k)
    OBVIOUS
  <2>3. g \in [SUBSET (1 .. k + 1) -> S]
    <3>1. k + 1 \in 1 .. n /\ F[k + 1] \in [S -> S]
      BY <1>2
    <3>2. ASSUME NEW s \in SUBSET (1 .. k + 1) PROVE g[s] \in S
      BY <2>1, <2>2, <3>1
    <3> QED
      BY <3>2
  <2>4. ASSUME NEW s \in SUBSET (1 .. k + 1)
        PROVE  g[s] = IF s = {} THEN init ELSE F[Max(s)][g[s \ {Max(s)}]]
    <3>1. CASE k + 1 \in s
      <4>1. \A i \in s : k + 1 >= i /\ i \in Nat
        OBVIOUS
      <4>2. Max(s) = k + 1
        BY <3>1, <4>1, MaxIs
      <4>3. g[s \ {k + 1}] = f[s \ {k + 1}]
        BY <2>2
      <4> HIDE DEF g
      <4>4. g[s] = F[k + 1][f[s \ {k + 1}]]
        BY <3>1 DEF g
      <4> QED
        BY <3>1, <4>2, <4>3, <4>4
    <3>2. CASE k + 1 \notin s
      <4>1. s \in SUBSET (1 .. k) /\ g[s] = f[s]
        BY <2>2, <3>2
      <4>2. CASE s = {}
        BY <2>1, <4>1, <4>2 DEF FoldsOver
      <4>3. CASE s # {}
        <5>1. Max(s) \in s
          BY <4>1, <4>3, MaxOfIndices
        <5>2. s \ {Max(s)} \in SUBSET (1 .. k + 1) /\ k + 1 \notin s \ {Max(s)}
          BY <3>2
        <5>3. g[s \ {Max(s)}] = f[s \ {Max(s)}]
          BY <5>2
        <5> HIDE DEF g
        <5>4. f[s] = F[Max(s)][f[s \ {Max(s)}]]
          BY <2>1, <4>1, <4>3 DEF FoldsOver
        <5> QED
          BY <4>1, <4>3, <5>3, <5>4
      <4> QED
        BY <4>2, <4>3
    <3> QED
      BY <3>1, <3>2
  <2> HIDE DEF g
  <2>5. FoldsOver(g, 1 .. k + 1, init, F)
    BY <2>4 DEF FoldsOver
  <2> QED
    BY <2>3, <2>5
<1> HIDE DEF Folds
<1>3. Nat \subseteq T
  <2>1. 0 \in T
    BY <1>1
  <2>2. ASSUME NEW k \in Nat, k \in T PROVE k + 1 \in T
    BY <1>2, <2>2
  <2> HIDE DEF T
  <2> QED
    BY <2>1, <2>2, NatSetInduction
<1>4. Folds(n)
  BY <1>3
<1> QED
  BY <1>4 DEF Folds

\* it takes the steps of F over initial parts of 1 .. n, as far as they stay in S.
Advances(it, S, n, init, F) ==
    /\ it[{}] = init
    /\ \A i \in 1 .. n : it[1 .. i - 1] \in S => it[1 .. i] = F[i][it[1 .. i - 1]]

\* h holds the values after each of n steps of F, and it takes those steps.
Runs(h, it, S, n, init, F) ==
    /\ init \in S /\ n \in Nat /\ F \in [1 .. n -> [S -> S]]
    /\ h \in [0 .. n -> S] /\ Steps(h, n, init, F) /\ Advances(it, S, n, init, F)

\* ... and any such function takes the elements one after the other.
LEMMA FoldValue ==
    ASSUME NEW S, NEW init, NEW n, NEW F, NEW h, NEW it, Runs(h, it, S, n, init, F)
    PROVE  it[1 .. n] = h[n]
<1>0. /\ init \in S /\ n \in Nat /\ F \in [1 .. n -> [S -> S]]
      /\ h \in [0 .. n -> S] /\ Steps(h, n, init, F) /\ Advances(it, S, n, init, F)
  BY DEF Runs
<1> DEFINE T == {k \in Nat : k <= n => it[1 .. k] = h[k]}
<1>1. 0 \in T
  <2>1. 1 .. 0 = {}
    OBVIOUS
  <2> QED
    BY <1>0, <2>1 DEF Steps, Advances
<1>2. ASSUME NEW k \in Nat, k \in T PROVE k + 1 \in T
  <2> SUFFICES ASSUME k + 1 <= n PROVE it[1 .. k + 1] = h[k + 1]
    OBVIOUS
  <2>1. it[1 .. k] = h[k] /\ h[k] \in S
    BY <1>0, <1>2
  <2>2. k + 1 \in 1 .. n /\ (k + 1) - 1 = k
    BY <1>0
  <2>3. it[1 .. k + 1] = F[k + 1][it[1 .. k]]
    BY <1>0, <2>1, <2>2 DEF Advances
  <2>4. h[k + 1] = F[k + 1][h[k]]
    BY <1>0, <2>2 DEF Steps
  <2> QED
    BY <2>1, <2>3, <2>4
<1>3. Nat \subseteq T
  <2> HIDE DEF T
  <2> QED
    BY <1>1, <1>2, NatSetInduction
<1> QED
  BY <1>0, <1>3

\* The initial parts of a set of indices.
LEMMA InitialPart ==
    ASSUME NEW n \in Nat, NEW i \in 1 .. n
    PROVE  /\ 1 .. i \in SUBSET (1 .. n) /\ 1 .. i # {}
           /\ Max(1 .. i) = i /\ (1 .. i) \ {i} = 1 .. i - 1
<1>1. i \in 1 .. i /\ \A j \in 1 .. i : i >= j /\ j \in Nat
  OBVIOUS
<1>2. Max(1 .. i) = i
  BY <1>1, MaxIs
<1> QED
  BY <1>2

\* What is in a flattened sequence is in one of its parts.
LEMMA FlattenElements ==
    ASSUME NEW S, NEW ss \in Seq(Seq(S))
    PROVE  /\ FlattenSeq(ss) \in Seq(S)
           /\ ToSet(FlattenSeq(ss)) = UNION {ToSet(ss[i]) : i \in DOMAIN ss}
<1> DEFINE E == Seq(S)
           T == {q \in Seq(E) : /\ FlattenSeq(q) \in Seq(S)
                                /\ ToSet(FlattenSeq(q)) = UNION {ToSet(q[i]) : i \in DOMAIN q}}
<1>1. << >> \in T
  <2>1. ToSet(<< >>) = {} /\ DOMAIN << >> = {} /\ << >> \in Seq(S) /\ << >> \in Seq(E)
    BY DEF ToSet
  <2> HIDE DEF E
  <2> QED
    BY <2>1, FlattenEmpty
<1>2. ASSUME NEW q \in Seq(E), NEW e \in E, q \in T PROVE Append(q, e) \in T
  <2>1. FlattenSeq(q) \in Seq(S) /\ FlattenSeq(Append(q, e)) = FlattenSeq(q) \o e
    BY FlattenAppend
  <2> DEFINE f == FlattenSeq(q)
             a == Append(q, e)
  <2>2. f \o e \in Seq(S) /\ ToSet(f \o e) = ToSet(f) \cup ToSet(e)
    <3> HIDE DEF f
    <3>1. f \in Seq(S) /\ e \in Seq(S)
      BY <2>1 DEF f
    <3>2. /\ f \o e \in Seq(S) /\ Len(f \o e) = Len(f) + Len(e)
          /\ \A i \in 1 .. Len(f) : (f \o e)[i] = f[i]
          /\ \A i \in 1 .. Len(e) : (f \o e)[Len(f) + i] = e[i]
      BY <3>1
    <3>3. DOMAIN f = 1 .. Len(f) /\ DOMAIN e = 1 .. Len(e) /\ Len(f) \in Nat /\ Len(e) \in Nat
          /\ DOMAIN (f \o e) = 1 .. Len(f) + Len(e)
      BY <3>1, <3>2
    <3>4. ASSUME NEW i \in 1 .. Len(f) + Len(e) PROVE (f \o e)[i] \in ToSet(f) \cup ToSet(e)
      <4>1. CASE i \in 1 .. Len(f)
        BY <3>2, <3>3, <4>1 DEF ToSet
      <4>2. CASE i \notin 1 .. Len(f)
        <5>1. i - Len(f) \in 1 .. Len(e) /\ Len(f) + (i - Len(f)) = i
          BY <3>3, <4>2
        <5>2. (f \o e)[i] = e[i - Len(f)]
          BY <3>2, <5>1
        <5> QED
          BY <3>3, <5>1, <5>2 DEF ToSet
      <4> QED
        BY <4>1, <4>2
    <3>5. ToSet(f \o e) \subseteq ToSet(f) \cup ToSet(e)
      BY <3>3, <3>4 DEF ToSet
    <3>6. ToSet(f) \subseteq ToSet(f \o e)
      BY <3>2, <3>3 DEF ToSet
    <3>7. ToSet(e) \subseteq ToSet(f \o e)
      <4>1. ASSUME NEW i \in 1 .. Len(e) PROVE e[i] \in ToSet(f \o e)
        <5>1. Len(f) + i \in 1 .. Len(f) + Len(e)
          BY <3>3
        <5> QED
          BY <3>2, <3>3, <5>1 DEF ToSet
      <4> QED
        BY <3>3, <4>1 DEF ToSet
    <3> QED
      BY <3>2, <3>5, <3>6, <3>7
  <2>3. a \in Seq(E) /\ DOMAIN a = DOMAIN q \cup {Len(q) + 1}
        /\ (\A i \in DOMAIN q : a[i] = q[i]) /\ a[Len(q) + 1] = e
    <3> HIDE DEF E
    <3> QED
      BY AppendProperties
  <2> HIDE DEF a
  <2>4. UNION {ToSet(a[i]) : i \in DOMAIN a} = (UNION {ToSet(q[i]) : i \in DOMAIN q}) \cup ToSet(e)
    <3>1. {ToSet(a[i]) : i \in DOMAIN a} = {ToSet(q[i]) : i \in DOMAIN q} \cup {ToSet(e)}
      <4>1. \A i \in DOMAIN q : ToSet(a[i]) = ToSet(q[i])
        BY <2>3
      <4>2. ToSet(a[Len(q) + 1]) = ToSet(e)
        BY <2>3
      <4> QED
        BY <2>3, <4>1, <4>2
    <3> QED
      BY <3>1
  <2>5. ToSet(f) = UNION {ToSet(q[i]) : i \in DOMAIN q}
    BY <1>2
  <2>6. FlattenSeq(a) = f \o e
    BY <2>1 DEF a
  <2>7. ToSet(FlattenSeq(a)) = UNION {ToSet(a[i]) : i \in DOMAIN a}
    <3> HIDE DEF f
    <3> QED
      BY <2>2, <2>4, <2>5, <2>6
  <2>8. FlattenSeq(a) \in Seq(S)
    BY <2>2, <2>6
  <2> QED
    BY <2>3, <2>7, <2>8 DEF a
<1>3. Seq(E) \subseteq T
  <2> HIDE DEF T, E
  <2> QED
    BY <1>1, <1>2, SeqSetInduction
<1> QED
  BY <1>3
=============================================================================
