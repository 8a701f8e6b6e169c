--------------------------- MODULE FoldInduction ---------------------------
\* What a fold over a sequence goes through, for any operator Op, and the induction over
\* the naturals it rests on.  The induction is stated with a set in the place of a
\* predicate, so that provers of first-order logic can use it.
EXTENDS Integers, Sequences, SequencesExt, WellFoundedInduction, TLAPS

CONSTANT Op(_, _)

Fold(base, seq) == FoldLeft(Op, base, seq)

\* A set with 0 and every successor of its naturals has all of them: the least natural
\* outside would have a predecessor inside.
LEMMA NaturalSetInduction ==
    ASSUME NEW T, 0 \in T, \A n \in Nat : n \in T => n + 1 \in T
    PROVE  \A n \in Nat : n \in T
<1>1. SUFFICES ASSUME NEW k \in Nat, k \notin T
               PROVE  FALSE
  OBVIOUS
<1> DEFINE R == OpToRel(<, Nat)
           M == {n \in Nat : n \notin T}
<1>2. IsWellFoundedOn(R, Nat)
  BY NatLessThanWellFounded
<1>3. PICK m \in M : \A y \in M : <<y, m>> \notin R
  <2>1. M \subseteq Nat /\ M # {}
    BY <1>1
  <2> HIDE DEF R, M
  <2> QED
    BY <1>2, <2>1, WFMin
<1>4. \A y \in M : ~(y < m)
  BY <1>3 DEF OpToRel
<1>5. m # 0 /\ m - 1 \in Nat /\ m - 1 \notin M
  BY <1>4
<1> QED
  BY <1>5

\* Folds.  A fold over a sequence is what the step by step trace of its operator ends in.

\* What defines a fold of Op over the first k elements of seq.
FoldOn(h, base, seq, k) ==
    h = [s \in SUBSET (1 .. k) |->
            IF s = {} THEN base ELSE Op(h[s \ {Max(s)}], seq[Max(s)])]

LEMMA MaxIsTop ==
    ASSUME NEW k \in Nat \ {0}, NEW s \in SUBSET (1 .. k), k \in s
    PROVE  Max(s) = k
<1>1. k \in s /\ \A y \in s : k >= y
  OBVIOUS
<1>2. Max(s) \in s /\ \A y \in s : Max(s) >= y
  BY <1>1 DEF Max
<1>3. Max(s) \in 1 .. k /\ Max(s) >= k
  BY <1>1, <1>2
<1> QED
  BY <1>3

LEMMA FoldExists ==
    ASSUME NEW base, NEW seq
    PROVE  \A k \in Nat : \E h : FoldOn(h, base, seq, k)
<1> DEFINE T == {k \in Nat : \E h : FoldOn(h, base, seq, k)}
<1>1. 0 \in T
  <2>1. FoldOn([s \in SUBSET (1 .. 0) |-> base], base, seq, 0)
    <3>1. 1 .. 0 = {}
      OBVIOUS
    <3> QED
      BY <3>1, Zenon DEF FoldOn
  <2> QED
    BY <2>1
<1>2. ASSUME NEW k \in Nat, k \in T
      PROVE  k + 1 \in T
  <2>1. PICK h : FoldOn(h, base, seq, k)
    BY <1>2
  <2> DEFINE S == SUBSET (1 .. k + 1)
             g == [s \in S |-> IF k + 1 \in s THEN Op(h[s \ {k + 1}], seq[k + 1]) ELSE h[s]]
  <2>2. ASSUME NEW s \in S
        PROVE  g[s] = IF s = {} THEN base ELSE Op(g[s \ {Max(s)}], seq[Max(s)])
    <3>1. CASE k + 1 \in s
      <4>1. Max(s) = k + 1
        BY <3>1, MaxIsTop
      <4>2. s \ {k + 1} \in S /\ k + 1 \notin s \ {k + 1}
        OBVIOUS
      <4>3. g[s \ {k + 1}] = h[s \ {k + 1}]
        BY <4>2
      <4>4. g[s] = Op(h[s \ {k + 1}], seq[k + 1])
        BY <3>1
      <4> QED
        BY <3>1, <4>1, <4>3, <4>4
    <3>2. CASE k + 1 \notin s
      <4>1. s \in SUBSET (1 .. k)
        BY <3>2
      <4>2. h[s] = IF s = {} THEN base ELSE Op(h[s \ {Max(s)}], seq[Max(s)])
        BY <2>1, <4>1 DEF FoldOn
      <4>3. g[s] = h[s]
        BY <3>2
      <4>4. g[s \ {Max(s)}] = h[s \ {Max(s)}]
        BY <3>2
      <4> QED
        BY <4>2, <4>3, <4>4
    <3> QED
      BY <3>1, <3>2
  <2>3. g = [s \in S |-> IF s = {} THEN base ELSE Op(g[s \ {Max(s)}], seq[Max(s)])]
    <3>1. g = [s \in S |-> g[s]]
      OBVIOUS
    <3> DEFINE rhs == [s \in S |-> IF s = {} THEN base ELSE Op(g[s \ {Max(s)}], seq[Max(s)])]
    <3>2. DOMAIN rhs = S /\ \A s \in S : rhs[s] = g[s]
      <4> HIDE DEF g
      <4> QED BY <2>2
    <3>3. rhs = [s \in S |-> rhs[s]]
      OBVIOUS
    <3> HIDE DEF g, rhs, S
    <3>4. [s \in S |-> rhs[s]] = [s \in S |-> g[s]]
      BY <3>2
    <3> QED
      BY <3>1, <3>3, <3>4 DEF rhs
  <2>4. FoldOn(g, base, seq, k + 1)
    <3> HIDE DEF g
    <3> QED
      BY <2>3 DEF FoldOn
  <2> QED
    BY <2>4
<1> HIDE DEF T
<1>3. \A k \in Nat : k \in T
  BY <1>1, <1>2, NaturalSetInduction
<1> QED
  BY <1>3 DEF T

\* What a fold of Op goes through.
IsTrace(g, base, seq, n) ==
    g[0] = base /\ \A i \in 1 .. n : g[i] = Op(g[i - 1], seq[i])

LEMMA FoldIsTrace ==
    ASSUME NEW base, NEW n \in Nat, NEW seq, DOMAIN seq = 1 .. n, NEW g,
           IsTrace(g, base, seq, n)
    PROVE  Fold(base, seq) = g[n]
<1> DEFINE It == CHOOSE h : FoldOn(h, base, seq, n)
<1>1. FoldOn(It, base, seq, n)
  BY FoldExists
<1>2. Fold(base, seq) = It[1 .. n]
  BY DEF Fold, FoldLeft, MapThenFoldSet, FoldOn
<1> DEFINE T == {k \in Nat : k <= n => It[1 .. k] = g[k]}
<1>3. 0 \in T
  <2>1. 1 .. 0 = {} /\ {} \in SUBSET (1 .. n)
    OBVIOUS
  <2>2. It[{}] = base
    BY <1>1, <2>1, Zenon DEF FoldOn
  <2> QED
    BY <2>1, <2>2 DEF IsTrace
<1>4. ASSUME NEW k \in Nat, k \in T
      PROVE  k + 1 \in T
  <2>1. SUFFICES ASSUME k + 1 <= n
                 PROVE  It[1 .. k + 1] = g[k + 1]
    OBVIOUS
  <2>2. 1 .. k + 1 \in SUBSET (1 .. n) /\ 1 .. k + 1 # {}
    BY <2>1
  <2>3. Max(1 .. k + 1) = k + 1
    BY MaxIsTop
  <2>4. (1 .. k + 1) \ {k + 1} = 1 .. k
    OBVIOUS
  <2>5. It[1 .. k + 1] = Op(It[(1 .. k + 1) \ {Max(1 .. k + 1)}], seq[Max(1 .. k + 1)])
    <3> HIDE DEF It
    <3> QED
      BY <1>1, <2>2, Zenon DEF FoldOn
  <2>6. It[1 .. k] = g[k]
    BY <1>4, <2>1
  <2>7. g[k + 1] = Op(g[k], seq[k + 1])
    BY <2>1 DEF IsTrace
  <2> QED
    BY <2>3, <2>4, <2>5, <2>6, <2>7
<1> HIDE DEF T
<1>5. \A k \in Nat : k \in T
  BY <1>3, <1>4, NaturalSetInduction
<1> QED
  BY <1>2, <1>5 DEF T

\* Such a trace exists.
LEMMA TraceExists ==
    ASSUME NEW base, NEW seq, NEW n \in Nat
    PROVE  \E g : IsTrace(g, base, seq, n)
<1>1. PICK h : FoldOn(h, base, seq, n)
  BY FoldExists
<1> DEFINE g == [i \in 0 .. n |-> h[1 .. i]]
<1>2. h[{}] = base
  <2>1. {} \in SUBSET (1 .. n)
    OBVIOUS
  <2> QED
    BY <1>1, <2>1, Zenon DEF FoldOn
<1>3. g[0] = base
  <2>1. 1 .. 0 = {}
    OBVIOUS
  <2> QED
    BY <1>2, <2>1
<1>4. ASSUME NEW i \in 1 .. n
      PROVE  g[i] = Op(g[i - 1], seq[i])
  <2>1. 1 .. i \in SUBSET (1 .. n) /\ 1 .. i # {}
    OBVIOUS
  <2>2. h[1 .. i] = Op(h[(1 .. i) \ {Max(1 .. i)}], seq[Max(1 .. i)])
    BY <1>1, <2>1, Zenon DEF FoldOn
  <2>3. Max(1 .. i) = i
    BY <2>1, MaxIsTop
  <2>4. (1 .. i) \ {i} = 1 .. i - 1
    OBVIOUS
  <2>5. g[i] = h[1 .. i] /\ g[i - 1] = h[1 .. i - 1]
    OBVIOUS
  <2> QED
    BY <2>2, <2>3, <2>4, <2>5
<1>5. IsTrace(g, base, seq, n)
  <2> HIDE DEF g
  <2> QED
    BY <1>3, <1>4 DEF IsTrace
<1> QED
  BY <1>5


=============================================================================
