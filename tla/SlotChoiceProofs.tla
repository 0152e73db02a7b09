-------------------------- MODULE SlotChoiceProofs --------------------------
(***************************************************************************)
(* A meeting's time is the right one and what is learned is borne out, for *)
(* any inputs that SlotChoice allows.  The invariant needs little, for the *)
(* inputs of a case never change; the work is in the lemmas about the      *)
(* loops: a fold goes through one value for each prefix of its sequence    *)
(* (FoldPrefixes), and an induction over these values says what            *)
(* distinct_past keeps, what merging an availability covers, what cutting  *)
(* busy blocks leaves, and which candidate a scan holds.  Folds and        *)
(* FlattenSeq are unfolded to the recursive functions they are defined by; *)
(* the induction is over sets of numbers.                                  *)
(***************************************************************************)
EXTENDS SlotChoice, SequenceTheorems, FiniteSetTheorems, WellFoundedInduction, TLAPS
-----------------------------------------------------------------------------
(* Induction over the natural numbers, by the least counterexample.         *)
LEMMA Induction ==
  ASSUME NEW S, 0 \in S, \A n \in Nat : n \in S => n + 1 \in S
  PROVE  Nat \subseteq S
<1> SUFFICES ASSUME NEW m \in Nat, m \notin S
             PROVE  FALSE
  OBVIOUS
<1>1. PICK x \in Nat \ S : \A y \in Nat \ S : ~(<<y, x>> \in OpToRel(<, Nat))
  <2>1. Nat \ S # {} /\ Nat \ S \subseteq Nat
    OBVIOUS
  <2> QED BY <2>1, NatLessThanWellFounded, WFMin
<1>2. x # 0 /\ x - 1 \in Nat /\ x - 1 < x
  OBVIOUS
<1>3. x - 1 \in S
  BY <1>1, <1>2 DEF OpToRel
<1> QED BY <1>2, <1>3

LEMMA MaxIs ==
  ASSUME NEW S, S \subseteq Int, NEW x \in S, \A y \in S : y <= x
  PROVE  Max(S) = x
<1>0. \E m \in S : \A y \in S : m >= y
  OBVIOUS
<1>1. Max(S) \in S /\ \A y \in S : Max(S) >= y
  BY <1>0 DEF Max
<1>2. Max(S) \in Int /\ Max(S) >= x /\ Max(S) <= x
  BY <1>1
<1>3. \A a, b \in Int : a >= b /\ a <= b => a = b
  OBVIOUS
<1> QED BY <1>2, <1>3

LEMMA MaxOfPositions ==
  ASSUME NEW n \in Nat, NEW z \in SUBSET (1..n), z # {}
  PROVE  Max(z) \in z /\ \A y \in z : y <= Max(z)
<1> DEFINE S == {k \in Nat : \A u \in SUBSET (1..k) : u # {} => \E x \in u : \A y \in u : y <= x}
<1>1. 0 \in S
  <2>1. \A u \in SUBSET (1..0) : u = {}
    OBVIOUS
  <2> QED BY <2>1
<1>2. ASSUME NEW k \in Nat, k \in S
      PROVE  k + 1 \in S
  <2> SUFFICES ASSUME NEW u \in SUBSET (1..(k + 1)), u # {}
               PROVE  \E x \in u : \A y \in u : y <= x
    OBVIOUS
  <2>1. CASE k + 1 \in u
    BY <2>1
  <2>2. CASE k + 1 \notin u
    <3>1. u \in SUBSET (1..k)
      BY <2>2
    <3> QED BY <1>2, <3>1
  <2> QED BY <2>1, <2>2
<1>3. n \in S
  <2> HIDE DEF S
  <2> QED BY <1>1, <1>2, Induction
<1>4. PICK x \in z : \A y \in z : y <= x
  BY <1>3
<1>5. z \subseteq Int
  OBVIOUS
<1> QED BY <1>4, <1>5, MaxIs

LEMMA MaxOfPrefix ==
  ASSUME NEW n \in Nat, n # 0
  PROVE  Max(1..n) = n /\ (1..n) \ {n} = 1..(n - 1)
<1>1. 1..n \subseteq Int /\ n \in 1..n /\ \A y \in 1..n : y <= n
  OBVIOUS
<1>2. \A y : y \in (1..n) \ {n} <=> y \in 1..(n - 1)
  OBVIOUS
<1>3. Max(1..n) = n
  BY <1>1, MaxIs
<1> QED BY <1>2, <1>3

LEMMA MaxOfTwo ==
  ASSUME NEW x \in Int, NEW y \in Int
  PROVE  /\ Max({x, y}) = IF x >= y THEN x ELSE y
         /\ Min({x, y}) = IF x <= y THEN x ELSE y
<1>1. Max({x, y}) = IF x >= y THEN x ELSE y
  BY MaxIs
<1>2. Min({x, y}) \in {x, y} /\ \A z \in {x, y} : Min({x, y}) <= z
  BY DEF Min
<1> QED BY <1>1, <1>2
-----------------------------------------------------------------------------
(* A fold over a sequence, whose step is a function, exists: the function   *)
(* that FoldLeft chooses then satisfies its recursive definition.           *)
FoldsFrom(base, step, s, N, g) ==
  \A z \in SUBSET (1..N) :
    g[z] = IF z = {} THEN base ELSE step[<<g[z \ {Max(z)}], s[Max(z)]>>]
LEMMA FoldExists ==
  ASSUME NEW N \in Nat, NEW T, NEW X, NEW s \in [1..N -> X], NEW base \in T,
         NEW step \in [T \X X -> T]
  PROVE  \E g \in [SUBSET (1..N) -> T] : FoldsFrom(base, step, s, N, g)
<1> DEFINE Folds(n, g) ==
      \A z \in SUBSET (1..n) :
        g[z] = IF z = {} THEN base ELSE step[<<g[z \ {Max(z)}], s[Max(z)]>>]
    Folded(n) == \E g \in [SUBSET (1..n) -> T] : Folds(n, g)
    S == {n \in Nat : n <= N => Folded(n)}
<1>1. 0 \in S
  <2> DEFINE g == [z \in SUBSET (1..0) |-> base]
  <2>1. g \in [SUBSET (1..0) -> T] /\ Folds(0, g)
    OBVIOUS
  <2> QED BY <2>1
<1>2. ASSUME NEW n \in Nat, n \in S
      PROVE  n + 1 \in S
  <2> SUFFICES ASSUME n + 1 <= N
               PROVE  Folded(n + 1)
    <3> HIDE DEF Folded
    <3> QED OBVIOUS
  <2>0. Folded(n)
    <3> HIDE DEF Folded
    <3> QED BY <1>2
  <2>1. PICK g \in [SUBSET (1..n) -> T] : Folds(n, g)
    BY <2>0
  <2>2. s[n + 1] \in X
    OBVIOUS
  <2>3. \A z \in SUBSET (1..(n + 1)) : z \ {n + 1} \in SUBSET (1..n)
    OBVIOUS
  <2> DEFINE h == [z \in SUBSET (1..(n + 1)) |->
                     IF n + 1 \in z THEN step[<<g[z \ {n + 1}], s[n + 1]>>] ELSE g[z]]
  <2>4. h \in [SUBSET (1..(n + 1)) -> T]
    <3> SUFFICES ASSUME NEW z \in SUBSET (1..(n + 1))
                 PROVE  (IF n + 1 \in z THEN step[<<g[z \ {n + 1}], s[n + 1]>>] ELSE g[z]) \in T
      OBVIOUS
    <3>1. CASE n + 1 \in z
      BY <2>2, <2>3, <3>1
    <3>2. CASE n + 1 \notin z
      BY <2>3, <3>2
    <3> QED BY <3>1, <3>2
  <2>5. ASSUME NEW z \in SUBSET (1..(n + 1))
        PROVE  h[z] = IF z = {} THEN base ELSE step[<<h[z \ {Max(z)}], s[Max(z)]>>]
    <3>1. CASE n + 1 \in z
      <4>1. Max(z) = n + 1
        <5>1. z \subseteq Int /\ \A y \in z : y <= n + 1
          OBVIOUS
        <5> QED BY <3>1, <5>1, MaxIs
      <4>2. h[z \ {n + 1}] = g[z \ {n + 1}]
        BY <2>3
      <4> QED BY <3>1, <4>1, <4>2
    <3>2. CASE n + 1 \notin z
      <4>1. z \in SUBSET (1..n) /\ h[z] = g[z]
        BY <2>3, <3>2
      <4>2. CASE z = {}
        BY <2>1, <4>1, <4>2
      <4>3. CASE z # {}
        <5> DEFINE u == z \ {Max(z)}
        <5>1. /\ u \in SUBSET (1..n) /\ u \in SUBSET (1..(n + 1))
              /\ n + 1 \notin u
          <6>1. u \subseteq z /\ z \subseteq 1..n /\ 1..n \subseteq 1..(n + 1) /\ n + 1 \notin 1..n
            BY <4>1
          <6> HIDE DEF u
          <6> QED BY <6>1
        <5> HIDE DEF u
        <5>3. h[u] = g[u]
          BY <5>1
        <5>2. h[z \ {Max(z)}] = g[z \ {Max(z)}]
          BY <5>3 DEF u
        <5> QED BY <2>1, <4>1, <4>3, <5>2
      <4> QED BY <4>2, <4>3
    <3> QED BY <3>1, <3>2
  <2> QED BY <2>4, <2>5
<1>3. N \in S
  <2> HIDE DEF S
  <2> QED BY <1>1, <1>2, Induction
<1>4. Folded(N)
  <2> HIDE DEF Folded
  <2> QED BY <1>3
<1> QED BY <1>4 DEF FoldsFrom

-----------------------------------------------------------------------------
(* Sequences: their elements, and orders in which they come.                *)
Ordered(s, R) == \A i, j \in 1..Len(s) : i < j => <<s[i], s[j]>> \in R
Across(s, t, R) == \A x \in ToSet(s), y \in ToSet(t) : <<x, y>> \in R

LEMMA ElementsAre ==
  ASSUME NEW T, NEW s \in Seq(T)
  PROVE  /\ ToSet(s) \subseteq T
         /\ \A i \in 1..Len(s) : s[i] \in ToSet(s)
         /\ \A x \in ToSet(s) : \E i \in 1..Len(s) : s[i] = x
BY LenProperties DEF ToSet

LEMMA Singletons ==
  ASSUME NEW T, NEW x \in T, NEW R
  PROVE  /\ <<x>> \in Seq(T) /\ ToSet(<<x>>) = {x} /\ Ordered(<<x>>, R)
         /\ << >> \in Seq(T) /\ ToSet(<< >>) = {} /\ Ordered(<< >>, R)
BY DEF ToSet, Ordered

LEMMA ConcatElements ==
  ASSUME NEW T, NEW s \in Seq(T), NEW t \in Seq(T)
  PROVE  s \o t \in Seq(T) /\ ToSet(s \o t) = ToSet(s) \union ToSet(t)
<1>1. /\ s \o t \in Seq(T) /\ Len(s \o t) = Len(s) + Len(t)
      /\ \A i \in 1..(Len(s) + Len(t)) :
           (s \o t)[i] = IF i <= Len(s) THEN s[i] ELSE t[i - Len(s)]
  BY ConcatProperties
<1>2. Len(s) \in Nat /\ Len(t) \in Nat
  BY LenProperties
<1>3. ASSUME NEW x \in ToSet(s \o t)
      PROVE  x \in ToSet(s) \union ToSet(t)
  <2>1. PICK i \in 1..(Len(s) + Len(t)) : (s \o t)[i] = x
    BY <1>1, <1>3, ElementsAre
  <2>2. i \in 1..Len(s) \/ i - Len(s) \in 1..Len(t)
    BY <1>2
  <2> QED BY <1>1, <1>2, <2>1, <2>2, ElementsAre
<1>4. ASSUME NEW x \in ToSet(s)
      PROVE  x \in ToSet(s \o t)
  <2>1. PICK i \in 1..Len(s) : s[i] = x
    BY <1>4, ElementsAre
  <2>2. i \in 1..(Len(s) + Len(t)) /\ i <= Len(s)
    BY <1>2
  <2>3. (s \o t)[i] = x
    BY <1>1, <2>1, <2>2
  <2> QED BY <1>1, <2>2, <2>3, ElementsAre
<1>5. ASSUME NEW x \in ToSet(t)
      PROVE  x \in ToSet(s \o t)
  <2>1. PICK i \in 1..Len(t) : t[i] = x
    BY <1>5, ElementsAre
  <2> DEFINE k == i + Len(s)
  <2>2. k \in 1..(Len(s) + Len(t)) /\ ~(k <= Len(s)) /\ k - Len(s) = i
    BY <1>2
  <2> HIDE DEF k
  <2>3. (s \o t)[k] = x
    BY <1>1, <2>1, <2>2
  <2> QED BY <1>1, <2>2, <2>3, ElementsAre
<1> QED BY <1>1, <1>3, <1>4, <1>5

LEMMA ConcatOrdered ==
  ASSUME NEW T, NEW s \in Seq(T), NEW t \in Seq(T), NEW R,
         Ordered(s, R), Ordered(t, R), Across(s, t, R)
  PROVE  Ordered(s \o t, R)
<1>1. /\ Len(s \o t) = Len(s) + Len(t)
      /\ \A i \in 1..(Len(s) + Len(t)) :
           (s \o t)[i] = IF i <= Len(s) THEN s[i] ELSE t[i - Len(s)]
  BY ConcatProperties
<1>2. Len(s) \in Nat /\ Len(t) \in Nat
  BY LenProperties
<1> SUFFICES ASSUME NEW i \in 1..(Len(s) + Len(t)), NEW j \in 1..(Len(s) + Len(t)), i < j
             PROVE  <<(s \o t)[i], (s \o t)[j]>> \in R
  BY <1>1 DEF Ordered
<1>3. CASE j <= Len(s)
  <2>1. i \in 1..Len(s) /\ j \in 1..Len(s) /\ i <= Len(s)
    BY <1>2, <1>3
  <2> QED BY <1>1, <1>3, <2>1 DEF Ordered
<1>4. CASE ~(i <= Len(s))
  <2>1. i - Len(s) \in 1..Len(t) /\ j - Len(s) \in 1..Len(t) /\ i - Len(s) < j - Len(s)
        /\ ~(j <= Len(s))
    BY <1>2, <1>4
  <2> QED BY <1>1, <1>4, <2>1 DEF Ordered
<1>5. CASE i <= Len(s) /\ ~(j <= Len(s))
  <2>1. i \in 1..Len(s) /\ j - Len(s) \in 1..Len(t)
    BY <1>2, <1>5
  <2>2. s[i] \in ToSet(s) /\ t[j - Len(s)] \in ToSet(t)
    BY <2>1, ElementsAre
  <2> QED BY <1>1, <1>5, <2>2 DEF Across
<1> QED BY <1>2, <1>3, <1>4, <1>5

(* FlattenSeq in steps: the first n of the sequences put together.          *)
LEMMA FlattenSteps ==
  ASSUME NEW T, NEW N \in Nat, NEW s \in [1..N -> Seq(T)]
  PROVE  \E h \in [0..N -> Seq(T)] :
           /\ h[0] = << >>
           /\ \A n \in 1..N : h[n] = h[n - 1] \o s[n]
           /\ FlattenSeq(s) = h[N]
<1>1. Len(s) = N /\ DOMAIN s = 1..N
  OBVIOUS
<1>2. CASE N = 0
  <2>1. s = << >>
    BY <1>2
  <2>2. FlattenSeq(s) = << >>
    BY <1>1, <1>2, <2>1 DEF FlattenSeq
  <2> DEFINE h == [n \in 0..N |-> << >>]
  <2>3. h \in [0..N -> Seq(T)] /\ h[0] = << >> /\ h[N] = << >>
    OBVIOUS
  <2>4. \A n \in 1..N : FALSE
    BY <1>2
  <2> HIDE DEF h
  <2> QED BY <2>2, <2>3, <2>4
<1>3. CASE N # 0
  <2> DEFINE Joins(g) == g = [i \in 1..N |-> IF i = 1 THEN s[i] ELSE g[i - 1] \o s[i]]
             Joined(n) == \E g \in [1..n -> Seq(T)] :
                            \A i \in 1..n : g[i] = IF i = 1 THEN s[i] ELSE g[i - 1] \o s[i]
             S == {n \in Nat : n <= N => Joined(n)}
  <2>1. 0 \in S
    <3>1. \A n \in 1..0 : FALSE
      OBVIOUS
    <3>2. [i \in 1..0 |-> << >>] \in [1..0 -> Seq(T)]
      OBVIOUS
    <3> QED BY <3>1, <3>2
  <2>2. ASSUME NEW n \in Nat, n \in S
        PROVE  n + 1 \in S
    <3> SUFFICES ASSUME n + 1 <= N
                 PROVE  Joined(n + 1)
      <4> HIDE DEF Joined
      <4> QED OBVIOUS
    <3>1. Joined(n)
      <4> HIDE DEF Joined
      <4> QED BY <2>2
    <3>2. PICK g \in [1..n -> Seq(T)] :
                 \A i \in 1..n : g[i] = IF i = 1 THEN s[i] ELSE g[i - 1] \o s[i]
      BY <3>1
    <3> DEFINE last == IF n = 0 THEN s[1] ELSE g[n] \o s[n + 1]
               f == [i \in 1..(n + 1) |-> IF i = n + 1 THEN last ELSE g[i]]
    <3>3. last \in Seq(T)
      <4>1. CASE n = 0
        BY <1>3, <4>1
      <4>2. CASE n # 0
        <5>1. g[n] \in Seq(T) /\ s[n + 1] \in Seq(T)
          BY <4>2
        <5> QED BY <4>2, <5>1, ConcatProperties
      <4> QED BY <4>1, <4>2
    <3>4. f \in [1..(n + 1) -> Seq(T)]
      <4> HIDE DEF last
      <4> QED BY <3>3
    <3>5. ASSUME NEW i \in 1..(n + 1)
          PROVE  f[i] = IF i = 1 THEN s[i] ELSE f[i - 1] \o s[i]
      <4>1. CASE i = n + 1
        <5>1. f[i] = last
          BY <4>1
        <5>2. i # 1 => f[i - 1] = g[n]
          BY <4>1
        <5> HIDE DEF f
        <5> QED BY <4>1, <5>1, <5>2
      <4>2. CASE i # n + 1
        <5>1. i \in 1..n /\ f[i] = g[i]
          BY <4>2
        <5>2. i # 1 => f[i - 1] = g[i - 1]
          BY <4>2
        <5> HIDE DEF f
        <5> QED BY <3>2, <5>1, <5>2
      <4> QED BY <4>1, <4>2
    <3> HIDE DEF f
    <3> QED BY <3>4, <3>5
  <2>3. Joined(N)
    <3>1. N \in S
      <4> HIDE DEF S
      <4> QED BY <2>1, <2>2, Induction
    <3> HIDE DEF Joined
    <3> QED BY <3>1
  <2>4. \E g : Joins(g)
    <3>1. PICK g \in [1..N -> Seq(T)] :
                 \A i \in 1..N : g[i] = IF i = 1 THEN s[i] ELSE g[i - 1] \o s[i]
      BY <2>3
    <3>2. Joins(g)
      BY <3>1
    <3> HIDE DEF Joins
    <3> QED BY <3>2
  <2>5. PICK g : Joins(g) /\ FlattenSeq(s) = g[N]
    <3> DEFINE g == CHOOSE g : g = [i \in 1..N |-> IF i = 1 THEN s[i] ELSE g[i - 1] \o s[i]]
    <3>1. Joins(g)
      BY <2>4
    <3>2. FlattenSeq(s) = g[N]
      BY <1>1, <1>3 DEF FlattenSeq
    <3> HIDE DEF g, Joins
    <3> QED BY <3>1, <3>2
  <2>6. \A i \in 1..N : g[i] = IF i = 1 THEN s[i] ELSE g[i - 1] \o s[i]
    BY <2>5
  <2> DEFINE h == [n \in 0..N |-> IF n = 0 THEN << >> ELSE g[n]]
             D == {n \in Nat : n <= N => h[n] \in Seq(T)}
  <2>7. ASSUME NEW n \in 1..N, h[n - 1] \in Seq(T)
        PROVE  h[n] = h[n - 1] \o s[n] /\ h[n] \in Seq(T)
    <3>1. h[n] = g[n] /\ h[n - 1] = (IF n = 1 THEN << >> ELSE g[n - 1]) /\ s[n] \in Seq(T)
      OBVIOUS
    <3>2. h[n] = h[n - 1] \o s[n]
      <4> HIDE DEF h
      <4>1. CASE n = 1
        BY <2>6, <3>1, <4>1, ConcatEmptySeq
      <4>2. CASE n # 1
        BY <2>6, <3>1, <4>2
      <4> QED BY <4>1, <4>2
    <3> HIDE DEF h
    <3> QED BY <2>7, <3>1, <3>2, ConcatProperties
  <2>8. \A n \in 0..N : h[n] \in Seq(T)
    <3>1. 0 \in D
      OBVIOUS
    <3>2. ASSUME NEW n \in Nat, n \in D
          PROVE  n + 1 \in D
      <4> HIDE DEF h
      <4> SUFFICES ASSUME n + 1 <= N PROVE h[n + 1] \in Seq(T)
        OBVIOUS
      <4>1. n + 1 \in 1..N /\ (n + 1) - 1 = n /\ h[n] \in Seq(T)
        BY <3>2
      <4> QED BY <2>7, <4>1
    <3>3. Nat \subseteq D
      <4> HIDE DEF D
      <4> QED BY <3>1, <3>2, Induction
    <3> HIDE DEF h
    <3> QED BY <3>3
  <2>9. h \in [0..N -> Seq(T)] /\ h[0] = << >> /\ h[N] = g[N]
    BY <1>3, <2>8
  <2>10. \A n \in 1..N : h[n] = h[n - 1] \o s[n]
    <3>1. \A n \in 1..N : n - 1 \in 0..N
      OBVIOUS
    <3> HIDE DEF h
    <3> QED BY <2>7, <2>8, <3>1
  <2> HIDE DEF h
  <2> QED BY <2>5, <2>9, <2>10
<1> QED BY <1>2, <1>3

-----------------------------------------------------------------------------
\* What is flattened: its elements are those of its parts, and it is ordered
\* when its parts are, each of them and one before the other.
LEMMA FlattenElements ==
  ASSUME NEW T, NEW N \in Nat, NEW s \in [1..N -> Seq(T)]
  PROVE  /\ FlattenSeq(s) \in Seq(T)
         /\ ToSet(FlattenSeq(s)) = UNION {ToSet(s[i]) : i \in 1..N}
<1>1. PICK h \in [0..N -> Seq(T)] :
             /\ h[0] = << >>
             /\ \A n \in 1..N : h[n] = h[n - 1] \o s[n]
             /\ FlattenSeq(s) = h[N]
  BY FlattenSteps
<1> DEFINE S == {n \in Nat : n <= N => ToSet(h[n]) = UNION {ToSet(s[i]) : i \in 1..n}}
<1>2. 0 \in S
  <2>1. {ToSet(s[i]) : i \in 1..0} = {}
    OBVIOUS
  <2>2. ToSet(h[0]) = {}
    BY <1>1 DEF ToSet
  <2> QED BY <2>1, <2>2
<1>3. ASSUME NEW n \in Nat, n \in S
      PROVE  n + 1 \in S
  <2> SUFFICES ASSUME n + 1 <= N
               PROVE  ToSet(h[n + 1]) = UNION {ToSet(s[i]) : i \in 1..(n + 1)}
    OBVIOUS
  <2>1. /\ n \in 0..N /\ n + 1 \in 1..N /\ (n + 1) - 1 = n
        /\ ToSet(h[n]) = UNION {ToSet(s[i]) : i \in 1..n}
    BY <1>3
  <2>2. h[n + 1] = h[n] \o s[n + 1] /\ h[n] \in Seq(T) /\ s[n + 1] \in Seq(T)
    BY <1>1, <2>1
  <2>3. ToSet(h[n + 1]) = ToSet(h[n]) \union ToSet(s[n + 1])
    BY <2>2, ConcatElements
  <2>4. 1..(n + 1) = (1..n) \union {n + 1}
    OBVIOUS
  <2>5. (UNION {ToSet(s[i]) : i \in 1..(n + 1)})
          = (UNION {ToSet(s[i]) : i \in 1..n}) \union ToSet(s[n + 1])
    BY <2>4
  <2> QED BY <2>1, <2>3, <2>5
<1>4. N \in S
  <2> HIDE DEF S
  <2> QED BY <1>2, <1>3, Induction
<1>5. ToSet(h[N]) = UNION {ToSet(s[i]) : i \in 1..N}
  BY <1>4
<1> QED BY <1>1, <1>5

LEMMA FlattenOrdered ==
  ASSUME NEW T, NEW N \in Nat, NEW s \in [1..N -> Seq(T)], NEW R,
         \A i \in 1..N : Ordered(s[i], R),
         \A i, j \in 1..N : i < j => Across(s[i], s[j], R)
  PROVE  Ordered(FlattenSeq(s), R)
<1>1. PICK h \in [0..N -> Seq(T)] :
             /\ h[0] = << >>
             /\ \A n \in 1..N : h[n] = h[n - 1] \o s[n]
             /\ FlattenSeq(s) = h[N]
  BY FlattenSteps
<1> DEFINE Early(n) == \A i \in 1..N : i > n => Across(h[n], s[i], R)
           S == {n \in Nat : n <= N => Ordered(h[n], R) /\ Early(n)}
<1>2. 0 \in S
  BY <1>1 DEF ToSet, Ordered, Across
<1>3. ASSUME NEW n \in Nat, n \in S
      PROVE  n + 1 \in S
  <2> SUFFICES ASSUME n + 1 <= N
               PROVE  Ordered(h[n + 1], R) /\ Early(n + 1)
    OBVIOUS
  <2>1. /\ n \in 0..N /\ n + 1 \in 1..N /\ (n + 1) - 1 = n
        /\ Ordered(h[n], R) /\ Early(n)
    BY <1>3
  <2>2. h[n + 1] = h[n] \o s[n + 1] /\ h[n] \in Seq(T) /\ s[n + 1] \in Seq(T)
    BY <1>1, <2>1
  <2>3. ToSet(h[n + 1]) = ToSet(h[n]) \union ToSet(s[n + 1])
    BY <2>2, ConcatElements
  <2>4. Ordered(h[n + 1], R)
    <3>1. Ordered(s[n + 1], R) /\ Across(h[n], s[n + 1], R)
      BY <2>1
    <3> QED BY <2>1, <2>2, <3>1, ConcatOrdered
  <2>5. ASSUME NEW i \in 1..N, i > n + 1
        PROVE  Across(h[n + 1], s[i], R)
    <3>1. Across(h[n], s[i], R) /\ Across(s[n + 1], s[i], R)
      BY <2>1, <2>5
    <3> QED BY <2>3, <3>1 DEF Across
  <2> QED BY <2>4, <2>5
<1>4. Nat \subseteq S
  <2> HIDE DEF S
  <2> QED BY <1>2, <1>3, Induction
<1> QED BY <1>1, <1>4

\* A filter: the wanted elements, in the order they had.
LEMMA ThoseAre ==
  ASSUME NEW T, NEW s \in Seq(T), NEW wanted
  PROVE  /\ Those(s, wanted) \in Seq(T)
         /\ ToSet(Those(s, wanted)) = ToSet(s) \cap wanted
         /\ \A R : Ordered(s, R) => Ordered(Those(s, wanted), R)
<1> DEFINE N == Len(s)
           parts == [i \in 1..N |-> IF s[i] \in wanted THEN <<s[i]>> ELSE << >>]
<1>1. N \in Nat /\ \A i \in 1..N : s[i] \in T
  BY LenProperties
<1>2. /\ \A i \in 1..N : parts[i] \in Seq(T) /\ \A R : Ordered(parts[i], R)
      /\ \A i \in 1..N : ToSet(parts[i]) = {s[i]} \cap wanted
  <2> SUFFICES ASSUME NEW i \in 1..N
               PROVE  parts[i] \in Seq(T) /\ (\A R : Ordered(parts[i], R))
                      /\ ToSet(parts[i]) = {s[i]} \cap wanted
    OBVIOUS
  <2>1. s[i] \in T
    BY <1>1
  <2>2. CASE s[i] \in wanted
    BY <2>1, <2>2, Singletons
  <2>3. CASE s[i] \notin wanted
    BY <2>1, <2>3, Singletons
  <2> QED BY <2>2, <2>3
<1>3. parts \in [1..N -> Seq(T)] /\ Those(s, wanted) = FlattenSeq(parts)
  BY <1>2 DEF Those
<1> HIDE DEF parts, N
<1>4. Those(s, wanted) \in Seq(T) /\ ToSet(Those(s, wanted)) = UNION {ToSet(parts[i]) : i \in 1..N}
  BY <1>1, <1>3, FlattenElements
<1>5. ASSUME NEW x
      PROVE  x \in ToSet(Those(s, wanted)) <=> x \in ToSet(s) \cap wanted
  BY <1>2, <1>4, ElementsAre DEF N
<1>6. ASSUME NEW R, Ordered(s, R)
      PROVE  Ordered(Those(s, wanted), R)
  <2>1. ASSUME NEW i \in 1..N, NEW j \in 1..N, i < j
        PROVE  Across(parts[i], parts[j], R)
    BY <1>2, <1>6, <2>1 DEF Across, Ordered, N
  <2> QED BY <1>1, <1>2, <1>3, <2>1, FlattenOrdered
<1> QED BY <1>4, <1>5, <1>6

-----------------------------------------------------------------------------
\* The values a fold goes through, one for each prefix of its sequence.
FoldsWithin(T, base, step, s, N, it) ==
  \A z \in SUBSET (1..N) :
    IF z = {} THEN it[z] = base
    ELSE it[z \ {Max(z)}] \in T => it[z] = step[<<it[z \ {Max(z)}], s[Max(z)]>>]
Successive(base, step, s, N, h) ==
  /\ h[0] = base
  /\ \A n \in 1..N : h[n] = step[<<h[n - 1], s[n]>>]
Reaches(T, base, step, s, N, end) ==
  \E h \in [0..N -> T] : Successive(base, step, s, N, h) /\ end = h[N]
LEMMA FoldPrefixes ==
  ASSUME NEW N \in Nat, NEW T, NEW X, NEW s \in [1..N -> X], NEW base \in T,
         NEW step \in [T \X X -> T], NEW it,
         FoldsWithin(T, base, step, s, N, it)
  PROVE  Reaches(T, base, step, s, N, it[1..N])
<1> DEFINE h == [n \in 0..N |-> it[1..n]]
           S == {n \in Nat : n <= N => h[n] \in T}
<1>1. h[0] = base
  <2>1. 1..0 = {} /\ {} \in SUBSET (1..N) /\ h[0] = it[1..0]
    OBVIOUS
  <2> HIDE DEF h
  <2> QED BY <2>1 DEF FoldsWithin
<1>2. ASSUME NEW n \in 1..N, h[n - 1] \in T
      PROVE  h[n] = step[<<h[n - 1], s[n]>>] /\ h[n] \in T
  <2>1. Max(1..n) = n /\ (1..n) \ {n} = 1..(n - 1)
    BY MaxOfPrefix
  <2>2. 1..n \in SUBSET (1..N) /\ 1..n # {}
    <3>1. n \in 1..n /\ \A x \in 1..n : x \in 1..N
      OBVIOUS
    <3> HIDE DEF h, S
    <3> QED BY <3>1
  <2>3. h[n - 1] = it[1..(n - 1)] /\ h[n] = it[1..n]
    OBVIOUS
  <2> HIDE DEF h
  <2>4. h[n] = step[<<h[n - 1], s[n]>>]
    BY <1>2, <2>1, <2>2, <2>3 DEF FoldsWithin
  <2> QED BY <1>2, <2>4
<1>3. N \in S /\ \A n \in 0..N : h[n] \in T
  <2>1. 0 \in S
    BY <1>1
  <2>2. ASSUME NEW n \in Nat, n \in S
        PROVE  n + 1 \in S
    <3> HIDE DEF h
    <3> SUFFICES ASSUME n + 1 <= N PROVE h[n + 1] \in T
      OBVIOUS
    <3>1. n + 1 \in 1..N /\ (n + 1) - 1 = n /\ h[n] \in T
      BY <2>2
    <3> QED BY <1>2, <3>1
  <2>3. Nat \subseteq S
    <3> HIDE DEF S
    <3> QED BY <2>1, <2>2, Induction
  <2> HIDE DEF h
  <2> QED BY <2>3
<1>4. \A n \in 1..N : h[n] = step[<<h[n - 1], s[n]>>]
  <2>1. \A n \in 1..N : n - 1 \in 0..N
    OBVIOUS
  <2> HIDE DEF h
  <2> QED BY <1>2, <1>3, <2>1
<1>5. h \in [0..N -> T] /\ it[1..N] = h[N]
  BY <1>3
<1> HIDE DEF h
<1> QED BY <1>1, <1>4, <1>5 DEF Successive, Reaches
-----------------------------------------------------------------------------
(* Learned preferences.                                                     *)
Observation == [id : Nat, series : Nat, past : BOOLEAN, peer : BOOLEAN,
                organized : BOOLEAN, shows : SUBSET Claims]
\* Pairs of observations that are not of one series.
Unrelated == {p \in Observation \X Observation : Name(p[1]) # Name(p[2])}

LEMMA SeenType ==
  ASSUME NEW kept \in Seq(Observation), NEW e \in Observation
  PROVE  Seen(kept, e) \in Seq(Observation)
BY AppendProperties DEF Seen

LEMMA DistinctSteps ==
  ASSUME NEW events \in Seq(Observation)
  PROVE  \E h \in [0..Len(events) -> Seq(Observation)] :
           /\ h[0] = << >>
           /\ \A n \in 1..Len(events) : h[n] = Seen(h[n - 1], events[n])
           /\ DistinctPast(events) = h[Len(events)]
<1> DEFINE N == Len(events)
           T == Seq(Observation)
           step == [p \in T \X Observation |-> Seen(p[1], p[2])]
           Folds(f) == f = [z \in SUBSET DOMAIN events |->
                              IF z = {} THEN << >>
                              ELSE Seen(f[z \ {Max(z)}], events[Max(z)])]
           it == CHOOSE f : f = [z \in SUBSET DOMAIN events |->
                              IF z = {} THEN << >>
                              ELSE Seen(f[z \ {Max(z)}], events[Max(z)])]
<1>1. N \in Nat /\ events \in [1..N -> Observation] /\ DOMAIN events = 1..N
  BY LenProperties
<1>2. step \in [T \X Observation -> T] /\ << >> \in T
  BY SeenType
<1>3. PICK g \in [SUBSET (1..N) -> T] : FoldsFrom(<< >>, step, events, N, g)
  <2> HIDE DEF T, N, step
  <2> QED BY <1>1, <1>2, FoldExists
<1>4. \A t \in T, e \in Observation : step[<<t, e>>] = Seen(t, e)
  OBVIOUS
<1>5. \A z \in SUBSET (1..N) : z # {} => events[Max(z)] \in Observation
  BY <1>1, MaxOfPositions
<1>6. Folds(g)
  <2>1. \A z \in SUBSET (1..N) :
          g[z] = IF z = {} THEN << >> ELSE Seen(g[z \ {Max(z)}], events[Max(z)])
    <3>1. \A z \in SUBSET (1..N) : z \ {Max(z)} \in SUBSET (1..N)
      OBVIOUS
    <3> HIDE DEF T, N, step
    <3> QED BY <1>3, <1>4, <1>5, <3>1 DEF FoldsFrom
  <2> HIDE DEF T, N, step
  <2> QED BY <1>1, <2>1
<1>7. Folds(it)
  BY <1>6
<1>8. DistinctPast(events) = it[1..N]
  BY <1>1 DEF DistinctPast, FoldLeft, MapThenFoldSet
<1> HIDE DEF it
<1>9. FoldsWithin(T, << >>, step, events, N, it)
  <2>1. \A z \in SUBSET (1..N) :
          it[z] = IF z = {} THEN << >> ELSE Seen(it[z \ {Max(z)}], events[Max(z)])
    BY <1>1, <1>7
  <2> HIDE DEF T, N, step, Folds
  <2> QED BY <1>4, <1>5, <2>1 DEF FoldsWithin
<1>10. Reaches(T, << >>, step, events, N, it[1..N])
  <2>1. /\ N \in Nat
        /\ events \in [1..N -> Observation]
        /\ << >> \in T
        /\ step \in [T \X Observation -> T]
        /\ FoldsWithin(T, << >>, step, events, N, it)
    BY <1>1, <1>2, <1>9
  <2> HIDE DEF T, N, step, Folds
  <2> QED BY <2>1, FoldPrefixes
<1>11. PICK h \in [0..N -> T] : Successive(<< >>, step, events, N, h) /\ it[1..N] = h[N]
  BY <1>10 DEF Reaches
<1>12. \A n \in 1..N : h[n - 1] \in T /\ events[n] \in Observation
  BY <1>1
<1>13. \A n \in 1..N : h[n] = Seen(h[n - 1], events[n])
  <2> HIDE DEF T, N, step, Folds
  <2> QED BY <1>4, <1>11, <1>12 DEF Successive
<1> HIDE DEF step, Folds
<1> QED BY <1>8, <1>11, <1>13 DEF Successive

\* What distinct_past keeps is past, and no two of one series.
LEMMA DistinctPastIs ==
  ASSUME NEW events \in Seq(Observation)
  PROVE  /\ DistinctPast(events) \in Seq(Observation)
         /\ ToSet(DistinctPast(events)) \subseteq {e \in ToSet(events) : e.past}
         /\ Ordered(DistinctPast(events), Unrelated)
<1> DEFINE N == Len(events)
           Past == {e \in ToSet(events) : e.past}
<1>1. PICK h \in [0..N -> Seq(Observation)] :
        /\ h[0] = << >>
        /\ \A n \in 1..N : h[n] = Seen(h[n - 1], events[n])
        /\ DistinctPast(events) = h[N]
  BY DistinctSteps
<1>2. N \in Nat /\ \A n \in 1..N : events[n] \in Observation /\ events[n] \in ToSet(events)
  BY LenProperties, ElementsAre
<1> DEFINE Fine(n) == ToSet(h[n]) \subseteq Past /\ Ordered(h[n], Unrelated)
           S == {n \in Nat : n <= N => Fine(n)}
<1>3. 0 \in S
  BY <1>1 DEF ToSet, Ordered
<1>4. ASSUME NEW n \in Nat, n \in S
      PROVE  n + 1 \in S
  <2> SUFFICES ASSUME n + 1 <= N PROVE Fine(n + 1)
    OBVIOUS
  <2>1. n \in 0..N /\ n + 1 \in 1..N /\ (n + 1) - 1 = n /\ Fine(n)
    BY <1>4
  <2> DEFINE e == events[n + 1]
             kept == h[n]
  <2>2. h[n + 1] = Seen(kept, e) /\ kept \in Seq(Observation) /\ e \in Observation
        /\ e \in ToSet(events)
    BY <1>1, <1>2, <2>1
  <2>3. ToSet(kept) \subseteq Past /\ Ordered(kept, Unrelated)
    BY <2>1
  <2> HIDE DEF e, kept
  <2>4. CASE e.past /\ \A i \in 1..Len(kept) : Name(kept[i]) # Name(e)
    <3> DEFINE one == <<e>>
    <3>1. h[n + 1] = kept \o one
      BY <2>2, <2>4, AppendIsConcat DEF Seen
    <3>2. one \in Seq(Observation) /\ ToSet(one) = {e} /\ Ordered(one, Unrelated)
      BY <2>2, Singletons
    <3> HIDE DEF one
    <3>3. Across(kept, one, Unrelated)
      BY <2>2, <2>4, <3>2, ElementsAre DEF Across, Unrelated
    <3>4. ToSet(h[n + 1]) = ToSet(kept) \union {e}
      BY <2>2, <3>1, <3>2, ConcatElements
    <3>5. Ordered(h[n + 1], Unrelated)
      BY <2>2, <2>3, <3>1, <3>2, <3>3, ConcatOrdered
    <3> QED BY <3>5, <2>2, <2>3, <2>4, <3>4
  <2>5. CASE ~(e.past /\ \A i \in 1..Len(kept) : Name(kept[i]) # Name(e))
    <3>1. h[n + 1] = kept
      BY <2>2, <2>5 DEF Seen
    <3> QED BY <2>3, <3>1
  <2> QED BY <2>4, <2>5
<1>5. N \in S
  <2> HIDE DEF S
  <2> QED BY <1>2, <1>3, <1>4, Induction
<1>6. Fine(N) /\ h[N] \in Seq(Observation)
  BY <1>2, <1>5
<1> QED BY <1>1, <1>6

LEMMA WithPeerIs ==
  ASSUME NEW events \in Seq(Observation)
  PROVE  /\ WithPeer(events) \in Seq(Observation)
         /\ ToSet(WithPeer(events)) = {e \in ToSet(events) : e.peer}
         /\ \A R : Ordered(events, R) => Ordered(WithPeer(events), R)
BY ThoseAre DEF WithPeer

\* The sample is a part of what distinct_past keeps.
LEMMA SampleIs ==
  ASSUME NEW events \in Seq(Observation)
  PROVE  /\ Sample(events) \in Seq(Observation)
         /\ ToSet(Sample(events)) \subseteq {e \in ToSet(events) : e.past}
         /\ Ordered(Sample(events), Unrelated)
<1> DEFINE recent == DistinctPast(events)
           others == Those(recent, {e \in ToSet(recent) : ~e.peer})
           all == WithPeer(recent) \o others
           n == Min({MaxSample, Len(all)})
<1>1. /\ recent \in Seq(Observation) /\ Ordered(recent, Unrelated)
      /\ ToSet(recent) \subseteq {e \in ToSet(events) : e.past}
  BY DistinctPastIs
<1> HIDE DEF recent
<1>2. /\ WithPeer(recent) \in Seq(Observation) /\ Ordered(WithPeer(recent), Unrelated)
      /\ ToSet(WithPeer(recent)) = {e \in ToSet(recent) : e.peer}
  BY <1>1, WithPeerIs
<1>3. /\ others \in Seq(Observation) /\ Ordered(others, Unrelated)
      /\ ToSet(others) = {e \in ToSet(recent) : ~e.peer}
  BY <1>1, ThoseAre
<1> HIDE DEF others
<1>4. Across(WithPeer(recent), others, Unrelated)
  <2> SUFFICES ASSUME NEW x \in ToSet(recent), NEW y \in ToSet(recent), x.peer, ~y.peer
               PROVE  <<x, y>> \in Unrelated
    BY <1>2, <1>3 DEF Across
  <2>1. PICK i \in 1..Len(recent), j \in 1..Len(recent) : recent[i] = x /\ recent[j] = y
    BY <1>1, ElementsAre
  <2>2. i # j /\ i \in Int /\ j \in Int
    BY <2>1
  <2>3. i < j \/ j < i
    BY <2>2
  <2> QED BY <1>1, <2>1, <2>3 DEF Ordered, Unrelated
<1>5. /\ all \in Seq(Observation) /\ Ordered(all, Unrelated)
      /\ ToSet(all) \subseteq {e \in ToSet(events) : e.past}
  BY <1>1, <1>2, <1>3, <1>4, ConcatElements, ConcatOrdered
<1>6. Sample(events) = SubSeq(all, 1, n)
  BY DEF Sample, recent, others
<1> HIDE DEF all
<1>7. n \in Nat /\ n <= Len(all)
  <2>1. PICK len \in Nat : len = Len(all)
    BY <1>5, LenProperties
  <2>2. MaxSample \in Nat
    BY SlotAssumption
  <2>3. Min({MaxSample, len}) = IF MaxSample <= len THEN MaxSample ELSE len
    <3>1. MaxSample \in Int /\ len \in Int
      BY <2>2
    <3> QED BY <3>1, MaxOfTwo
  <2> QED BY <2>1, <2>2, <2>3
<1>8. \A i \in 1..n : i \in 1..Len(all) /\ all[i] \in Observation /\ all[i] \in ToSet(all)
  BY <1>5, <1>7, ElementsAre
<1> HIDE DEF n
<1>9. /\ Sample(events) \in Seq(Observation) /\ Len(Sample(events)) = n
      /\ \A i \in 1..n : Sample(events)[i] = all[i]
  <2>1. /\ SubSeq(all, 1, n) \in Seq(Observation)
        /\ Len(SubSeq(all, 1, n)) = IF 1 <= n THEN n - 1 + 1 ELSE 0
        /\ \A i \in 1..(n - 1 + 1) : SubSeq(all, 1, n)[i] = all[1 + i - 1]
    <3>1. 1 \in Int /\ n \in Int
      BY <1>7
    <3> QED BY <1>8, <3>1, SubSeqProperties
  <2> QED BY <1>6, <1>7, <2>1
<1>10. ToSet(Sample(events)) \subseteq ToSet(all)
  BY <1>8, <1>9, ElementsAre
<1>11. Ordered(Sample(events), Unrelated)
  BY <1>5, <1>8, <1>9 DEF Ordered
<1> QED BY <1>5, <1>9, <1>10, <1>11

\* Three observations that bear out a claim.
Bearing(events, named, c, x) ==
  /\ x \in [1..3 -> ToSet(events)]
  /\ \A i \in 1..3 : x[i].past /\ x[i].id \in named /\ Shows(x[i], c)
  /\ \A i, j \in 1..3 : i # j => Name(x[i]) # Name(x[j])

LEMMA LearnedIs ==
  ASSUME NEW events \in Seq(Observation), NEW named, NEW claims, NEW c \in Learned(events, named, claims)
  PROVE  \E x : Bearing(events, named, c, x)
<1> DEFINE sample == Sample(events)
           evidence == Those(sample, {e \in ToSet(sample) : e.id \in named})
           all == DistinctPast(evidence)
           base == IF Len(WithPeer(all)) >= 3 THEN WithPeer(all) ELSE all
           shown == Those(base, {e \in ToSet(base) : Shows(e, c)})
<1>1. Len(shown) >= 3
  BY DEF Learned, Evidenced
<1>2. sample \in Seq(Observation) /\ ToSet(sample) \subseteq {e \in ToSet(events) : e.past}
  BY SampleIs
<1> HIDE DEF sample
<1>3. evidence \in Seq(Observation) /\ ToSet(evidence) \subseteq {e \in ToSet(sample) : e.id \in named}
  BY <1>2, ThoseAre
<1> HIDE DEF evidence
<1>4. all \in Seq(Observation) /\ ToSet(all) \subseteq ToSet(evidence) /\ Ordered(all, Unrelated)
  BY <1>3, DistinctPastIs
<1> HIDE DEF all
<1>5. base \in Seq(Observation) /\ ToSet(base) \subseteq ToSet(evidence) /\ Ordered(base, Unrelated)
  BY <1>4, WithPeerIs
<1> HIDE DEF base
<1>6. /\ shown \in Seq(Observation) /\ Ordered(shown, Unrelated)
      /\ ToSet(shown) = ToSet(base) \cap {e \in ToSet(base) : Shows(e, c)}
  BY <1>5, ThoseAre
<1> HIDE DEF shown
<1>7. 1..3 \subseteq 1..Len(shown)
  BY <1>1, <1>6, LenProperties
<1> DEFINE x == [i \in 1..3 |-> shown[i]]
<1>8. \A i \in 1..3 : x[i] = shown[i] /\ x[i] \in ToSet(shown)
  BY <1>6, <1>7, ElementsAre
<1>9. x \in [1..3 -> ToSet(events)]
  BY <1>2, <1>3, <1>5, <1>6, <1>8
<1> HIDE DEF x
<1>10. \A i \in 1..3 : x[i].past /\ x[i].id \in named /\ Shows(x[i], c)
  BY <1>2, <1>3, <1>5, <1>6, <1>8
<1>11. ASSUME NEW i \in 1..3, NEW j \in 1..3, i # j
       PROVE  Name(x[i]) # Name(x[j])
  <2>1. i < j \/ j < i
    BY <1>11
  <2>2. <<shown[i], shown[j]>> \in Unrelated \/ <<shown[j], shown[i]>> \in Unrelated
    BY <1>6, <1>7, <2>1 DEF Ordered
  <2> QED BY <1>8, <2>2 DEF Unrelated
<1> QED BY <1>9, <1>10, <1>11 DEF Bearing

-----------------------------------------------------------------------------
(* A booking page's appointment: the merged intervals cover what the list   *)
(* covers, with gaps between them.                                          *)
Gaps == {p \in Slot \X Slot : p[1].end < p[2].start}
Within(t, list) == \E i \in ToSet(list) : i.start <= t /\ t < i.end

LEMMA SlotFields ==
  ASSUME NEW s \in Slot
  PROVE  s.start \in Int /\ s.end \in Int
BY DEF Slot

Longer(m, i) == [m EXCEPT ![Len(m)].end = Max({@, i.end})]
Lengthened(m, i, longer) ==
  /\ longer \in Seq(Slot) /\ Len(longer) = Len(m)
  /\ \A j \in 1..Len(m) : j # Len(m) => longer[j] = m[j]
  /\ longer[Len(m)].start = m[Len(m)].start
  /\ longer[Len(m)].end = IF m[Len(m)].end >= i.end THEN m[Len(m)].end ELSE i.end
LEMMA ExtendIs ==
  ASSUME NEW merged \in Seq(Slot), NEW i \in Slot, merged # << >>
  PROVE  Lengthened(merged, i, Longer(merged, i))
<1> DEFINE n == Len(merged)
           top == IF merged[n].end >= i.end THEN merged[n].end ELSE i.end
           last == [start |-> merged[n].start, end |-> top]
<1>1. n \in Nat /\ n # 0 /\ n \in 1..n /\ merged \in [1..n -> Slot] /\ merged[n] \in Slot
  BY EmptySeq, LenProperties
<1>2. merged[n].start \in Int /\ merged[n].end \in Int /\ i.end \in Int
  BY <1>1, SlotFields
<1>3. Max({merged[n].end, i.end}) = top
  BY <1>2, MaxOfTwo
<1>4. [merged[n] EXCEPT !.end = top] = last /\ last \in Slot
  BY <1>1, <1>2 DEF Slot
<1>5. Longer(merged, i) = [merged EXCEPT ![n] = last]
  BY <1>1, <1>3, <1>4 DEF Longer
<1> DEFINE longer == Longer(merged, i)
<1>6. /\ longer \in Seq(Slot) /\ Len(longer) = n
      /\ \A j \in 1..n : longer[j] = IF j = n THEN last ELSE merged[j]
  BY <1>1, <1>4, <1>5, ExceptSeq
<1>7. last.start = merged[n].start /\ last.end = top
  OBVIOUS
<1> HIDE DEF last, longer
<1>8. \A j \in 1..n : j # n => longer[j] = merged[j]
  BY <1>6
<1>9. longer[n] = last
  BY <1>1, <1>6
<1> HIDE DEF n, top
<1>10. Lengthened(merged, i, longer)
  BY <1>6, <1>7, <1>8, <1>9 DEF Lengthened, n, top
<1> QED BY <1>10 DEF longer

LEMMA MergeType ==
  ASSUME NEW merged \in Seq(Slot), NEW i \in Slot
  PROVE  Merge(merged, i) \in Seq(Slot)
BY ExtendIs, AppendProperties DEF Merge, Longer, Lengthened

LEMMA MergeSteps ==
  ASSUME NEW list \in Seq(Slot)
  PROVE  \E h \in [0..Len(list) -> Seq(Slot)] :
           /\ h[0] = << >>
           /\ \A n \in 1..Len(list) : h[n] = Merge(h[n - 1], list[n])
           /\ FoldLeft(Merge, << >>, list) = h[Len(list)]
<1> DEFINE N == Len(list)
           T == Seq(Slot)
           step == [p \in T \X Slot |-> Merge(p[1], p[2])]
           Folds(f) == f = [z \in SUBSET DOMAIN list |->
                              IF z = {} THEN << >> ELSE Merge(f[z \ {Max(z)}], list[Max(z)])]
           it == CHOOSE f : f = [z \in SUBSET DOMAIN list |->
                              IF z = {} THEN << >> ELSE Merge(f[z \ {Max(z)}], list[Max(z)])]
<1>1. N \in Nat /\ list \in [1..N -> Slot] /\ DOMAIN list = 1..N
  BY LenProperties
<1>2. step \in [T \X Slot -> T] /\ << >> \in T
  BY MergeType
<1>3. PICK g \in [SUBSET (1..N) -> T] : FoldsFrom(<< >>, step, list, N, g)
  <2> HIDE DEF T, N, step
  <2> QED BY <1>1, <1>2, FoldExists
<1>4. \A t \in T, i \in Slot : step[<<t, i>>] = Merge(t, i)
  OBVIOUS
<1>5. \A z \in SUBSET (1..N) : z # {} => list[Max(z)] \in Slot
  BY <1>1, MaxOfPositions
<1>6. Folds(g)
  <2>1. \A z \in SUBSET (1..N) :
          g[z] = IF z = {} THEN << >> ELSE Merge(g[z \ {Max(z)}], list[Max(z)])
    <3>1. \A z \in SUBSET (1..N) : z \ {Max(z)} \in SUBSET (1..N)
      OBVIOUS
    <3> HIDE DEF T, N, step
    <3> QED BY <1>3, <1>4, <1>5, <3>1 DEF FoldsFrom
  <2> HIDE DEF T, N, step
  <2> QED BY <1>1, <2>1
<1>7. Folds(it)
  BY <1>6
<1>8. FoldLeft(Merge, << >>, list) = it[1..N]
  BY <1>1 DEF FoldLeft, MapThenFoldSet
<1> HIDE DEF it
<1>9. FoldsWithin(T, << >>, step, list, N, it)
  <2>1. \A z \in SUBSET (1..N) :
          it[z] = IF z = {} THEN << >> ELSE Merge(it[z \ {Max(z)}], list[Max(z)])
    BY <1>1, <1>7
  <2> HIDE DEF T, N, step, Folds
  <2> QED BY <1>4, <1>5, <2>1 DEF FoldsWithin
<1>10. Reaches(T, << >>, step, list, N, it[1..N])
  <2> HIDE DEF T, N, step, Folds
  <2> QED BY <1>1, <1>2, <1>9, FoldPrefixes
<1>11. PICK h \in [0..N -> T] : Successive(<< >>, step, list, N, h) /\ it[1..N] = h[N]
  BY <1>10 DEF Reaches
<1>12. \A n \in 1..N : h[n - 1] \in T /\ list[n] \in Slot
  BY <1>1
<1>13. \A n \in 1..N : h[n] = Merge(h[n - 1], list[n])
  <2> HIDE DEF T, N, step, Folds
  <2> QED BY <1>4, <1>11, <1>12 DEF Successive
<1> HIDE DEF step, Folds
<1> QED BY <1>8, <1>11, <1>13 DEF Successive

\* One interval merged into what came before it.
Merged(m) == m \in Seq(Slot) /\ Ordered(m, Gaps) /\ \A i \in ToSet(m) : i.start < i.end

LEMMA MergeStep ==
  ASSUME NEW m, Merged(m), NEW i \in Slot, \A x \in ToSet(m) : x.start <= i.start
  PROVE  /\ Merged(Merge(m, i))
         /\ \A x \in ToSet(Merge(m, i)) : x.start <= i.start
         /\ \A t \in Int : Within(t, Merge(m, i)) <=> Within(t, m) \/ (i.start <= t /\ t < i.end)
<1>0. m \in Seq(Slot) /\ ToSet(m) \subseteq Slot /\ i.start \in Int /\ i.end \in Int
  BY ElementsAre, SlotFields DEF Merged
<1>1. CASE i.start >= i.end
  <2>1. Merge(m, i) = m
    BY <1>1 DEF Merge
  <2>2. \A t \in Int : ~(i.start <= t /\ t < i.end)
    BY <1>0, <1>1
  <2> QED BY <2>1, <2>2
<1>2. CASE i.start < i.end /\ m # << >> /\ i.start <= Last(m).end
  <2> DEFINE n == Len(m)
  <2>1. PICK k : k = Merge(m, i)
    OBVIOUS
  <2>2. k = Longer(m, i)
    BY <1>0, <1>2, <2>1 DEF Merge, Longer
  <2>3. /\ k \in Seq(Slot) /\ Len(k) = n
        /\ \A j \in 1..n : j # n => k[j] = m[j]
        /\ k[n].start = m[n].start
        /\ k[n].end = IF m[n].end >= i.end THEN m[n].end ELSE i.end
    <3>1. Lengthened(m, i, k)
      BY <1>0, <1>2, <2>2, ExtendIs
    <3> QED BY <3>1 DEF Lengthened
  <2>4. n \in Nat /\ n \in 1..n /\ Last(m) = m[n]
    BY <1>0, <1>2, EmptySeq DEF Last
  <2> HIDE DEF n
  <2>5. \A j \in 1..n : m[j] \in Slot /\ m[j] \in ToSet(m) /\ k[j] \in Slot /\ k[j] \in ToSet(k)
    BY <1>0, <2>3, ElementsAre DEF n
  <2>6. \A j \in 1..n : m[j].start \in Int /\ m[j].end \in Int /\ k[j].start \in Int /\ k[j].end \in Int
    BY <2>5, SlotFields
  <2>7. \A j \in 1..n : /\ m[j].start < m[j].end /\ m[j].start <= i.start
                        /\ k[j].start < k[j].end /\ k[j].start <= i.start
    <3>1. \A j \in 1..n : m[j].start < m[j].end /\ m[j].start <= i.start
      BY <2>5 DEF Merged
    <3> QED BY <1>0, <2>3, <2>4, <2>6, <3>1
  <2>8. Ordered(k, Gaps)
    <3> SUFFICES ASSUME NEW a \in 1..n, NEW b \in 1..n, a < b
                 PROVE  <<k[a], k[b]>> \in Gaps
      BY <2>3 DEF Ordered
    <3>1. <<m[a], m[b]>> \in Gaps
      BY DEF Merged, Ordered, n
    <3>2. a # n /\ k[a] = m[a] /\ k[b].start = m[b].start
      BY <2>3, <2>4
    <3> QED BY <2>5, <3>1, <3>2 DEF Gaps
  <2>9. \A x \in ToSet(k) : \E j \in 1..n : k[j] = x
    BY <2>3, ElementsAre
  <2>10. \A x \in ToSet(m) : \E j \in 1..n : m[j] = x
    BY <1>0, ElementsAre DEF n
  <2>11. Merged(k) /\ \A x \in ToSet(k) : x.start <= i.start
    BY <2>3, <2>7, <2>8, <2>9 DEF Merged
  <2>12. ASSUME NEW t \in Int
         PROVE  Within(t, k) <=> Within(t, m) \/ (i.start <= t /\ t < i.end)
    <3>1. ASSUME NEW j \in 1..n, k[j].start <= t, t < k[j].end
          PROVE  Within(t, m) \/ (i.start <= t /\ t < i.end)
      <4>1. CASE j # n
        BY <2>3, <2>5, <3>1, <4>1 DEF Within
      <4>2. CASE j = n
        <5>1. (m[n].start <= t /\ t < m[n].end) \/ (i.start <= t /\ t < i.end)
          BY <1>0, <1>2, <2>3, <2>4, <2>6, <3>1, <4>2
        <5> QED BY <2>4, <2>5, <5>1 DEF Within
      <4> QED BY <4>1, <4>2
    <3>2. ASSUME NEW j \in 1..n, m[j].start <= t, t < m[j].end
          PROVE  Within(t, k)
      <4>1. CASE j # n
        BY <2>3, <2>5, <3>2, <4>1 DEF Within
      <4>2. CASE j = n
        <5>1. k[n].start <= t /\ t < k[n].end
          BY <1>0, <2>3, <2>4, <2>6, <3>2, <4>2
        <5> QED BY <2>4, <2>5, <5>1 DEF Within
      <4> QED BY <4>1, <4>2
    <3>3. ASSUME i.start <= t, t < i.end
          PROVE  Within(t, k)
      <4>1. m[n].start <= i.start
        BY <2>4, <2>7
      <4>2. k[n].start <= t /\ t < k[n].end
        BY <1>0, <2>3, <2>4, <2>6, <3>3, <4>1
      <4> QED BY <2>4, <2>5, <4>2 DEF Within
    <3> QED BY <2>9, <2>10, <3>1, <3>2, <3>3 DEF Within
  <2> QED BY <2>1, <2>11, <2>12
<1>3. CASE i.start < i.end /\ ~(m # << >> /\ i.start <= Last(m).end)
  <2> DEFINE one == <<i>>
  <2>1. one \in Seq(Slot) /\ ToSet(one) = {i} /\ Ordered(one, Gaps)
    BY Singletons
  <2>2. PICK k : k = Merge(m, i)
    OBVIOUS
  <2>3. k = m \o one
    BY <1>0, <1>3, <2>2, AppendIsConcat DEF Merge
  <2> HIDE DEF one
  <2>4. k \in Seq(Slot) /\ ToSet(k) = ToSet(m) \union {i}
    BY <1>0, <2>1, <2>3, ConcatElements
  <2>5. Across(m, one, Gaps)
    <3> SUFFICES ASSUME NEW x \in ToSet(m)
                 PROVE  <<x, i>> \in Gaps
      BY <2>1 DEF Across
    <3>1. PICK j \in 1..Len(m) : m[j] = x
      BY <1>0, ElementsAre
    <3>2. m # << >> /\ Len(m) \in 1..Len(m) /\ m[Len(m)] \in Slot
      BY <1>0, <3>1, EmptySeq, LenProperties
    <3>3. m[Len(m)].end < i.start
      <4>1. m[Len(m)].end \in Int
        BY <3>2, SlotFields
      <4> QED BY <1>0, <1>3, <3>2, <4>1 DEF Last
    <3>4. CASE j = Len(m)
      BY <1>0, <3>1, <3>3, <3>4 DEF Gaps
    <3>5. CASE j # Len(m)
      <4>1. j < Len(m)
        BY <3>2, <3>5
      <4>2. <<x, m[Len(m)]>> \in Gaps
        BY <3>1, <3>2, <4>1 DEF Merged, Ordered
      <4>3. x.end < m[Len(m)].start /\ m[Len(m)].start < m[Len(m)].end
        BY <1>0, <3>2, <4>2, ElementsAre DEF Gaps, Merged
      <4>4. x.end \in Int /\ m[Len(m)].start \in Int /\ m[Len(m)].end \in Int /\ x \in Slot
        BY <1>0, <3>2, SlotFields
      <4>5. x.end < i.start
        BY <1>0, <3>3, <4>3, <4>4
      <4> QED BY <4>4, <4>5 DEF Gaps
    <3> QED BY <3>4, <3>5
  <2>6. Ordered(k, Gaps)
    BY <1>0, <2>1, <2>3, <2>5, ConcatOrdered DEF Merged
  <2>7. Merged(k)
    BY <1>3, <2>4, <2>6 DEF Merged
  <2>8. \A x \in ToSet(k) : x.start <= i.start
    BY <1>0, <2>4
  <2>9. \A t \in Int : Within(t, k) <=> Within(t, m) \/ (i.start <= t /\ t < i.end)
    BY <2>4 DEF Within
  <2> QED BY <2>2, <2>7, <2>8, <2>9
<1> QED BY <1>0, <1>1, <1>2, <1>3

LEMMA MergedList ==
  ASSUME NEW list \in Seq(Slot),
         \A i, j \in 1..Len(list) : i < j => list[i].start <= list[j].start
  PROVE  /\ Merged(FoldLeft(Merge, << >>, list))
         /\ \A t \in Int : Within(t, FoldLeft(Merge, << >>, list)) <=> Within(t, list)
<1> DEFINE N == Len(list)
           In(t, i) == list[i].start <= t /\ t < list[i].end
<1>1. PICK h \in [0..N -> Seq(Slot)] :
        /\ h[0] = << >>
        /\ \A n \in 1..N : h[n] = Merge(h[n - 1], list[n])
        /\ FoldLeft(Merge, << >>, list) = h[N]
  BY MergeSteps
<1>2. N \in Nat /\ \A n \in 1..N : list[n] \in Slot /\ list[n] \in ToSet(list)
  BY LenProperties, ElementsAre
<1> DEFINE Before(n) == \A x \in ToSet(h[n]), k \in 1..N : n < k => x.start <= list[k].start
           Same(n) == \A t \in Int : Within(t, h[n]) <=> \E k \in 1..n : In(t, k)
           Fine(n) == Merged(h[n]) /\ Before(n) /\ Same(n)
           S == {n \in Nat : n <= N => Fine(n)}
<1>3. 0 \in S
  <2>1. ToSet(h[0]) = {} /\ Ordered(h[0], Gaps) /\ h[0] \in Seq(Slot)
    BY <1>1, Singletons
  <2>2. \A k \in 1..0 : FALSE
    OBVIOUS
  <2> QED BY <2>1, <2>2 DEF Merged, Within
<1>4. ASSUME NEW n \in Nat, n \in S
      PROVE  n + 1 \in S
  <2> SUFFICES ASSUME n + 1 <= N PROVE Fine(n + 1)
    <3> HIDE DEF Fine
    <3> QED OBVIOUS
  <2>1. n \in 0..N /\ n + 1 \in 1..N /\ (n + 1) - 1 = n /\ n < n + 1
    OBVIOUS
  <2>2. Fine(n)
    <3> HIDE DEF Fine
    <3> QED BY <1>4, <2>1
  <2> DEFINE i == list[n + 1]
             m == h[n]
  <2>3. h[n + 1] = Merge(m, i) /\ m \in Seq(Slot) /\ i \in Slot /\ i.start \in Int
    BY <1>1, <1>2, <2>1, SlotFields
  <2>4. Merged(m) /\ (\A x \in ToSet(m) : x.start <= i.start)
    BY <2>1, <2>2
  <2>5. \A k \in 1..N : n + 1 < k => i.start <= list[k].start /\ list[k].start \in Int
    BY <1>2, <2>1, SlotFields
  <2>6. \A t \in Int : Within(t, m) <=> \E k \in 1..n : In(t, k)
    BY <2>2
  <2>7. \A t : In(t, n + 1) <=> i.start <= t /\ t < i.end
    OBVIOUS
  <2> HIDE DEF i, m, In
  <2>8. /\ Merged(h[n + 1])
        /\ \A x \in ToSet(h[n + 1]) : x.start <= i.start
        /\ \A t \in Int : Within(t, h[n + 1]) <=> Within(t, m) \/ In(t, n + 1)
    BY <2>3, <2>4, <2>7, MergeStep
  <2>9. \A x \in ToSet(h[n + 1]) : x.start \in Int
    BY <2>8, ElementsAre, SlotFields DEF Merged
  <2>10. Before(n + 1)
    BY <2>3, <2>5, <2>8, <2>9
  <2>11. \A k : k \in 1..(n + 1) <=> k \in 1..n \/ k = n + 1
    OBVIOUS
  <2>12. Same(n + 1)
    BY <2>6, <2>8, <2>11
  <2> QED BY <2>8, <2>10, <2>12
<1>5. N \in S
  <2> HIDE DEF S
  <2> QED BY <1>2, <1>3, <1>4, Induction
<1>6. Fine(N)
  <2> HIDE DEF Fine
  <2> QED BY <1>2, <1>5
<1>7. \A t \in Int : Within(t, list) <=> \E k \in 1..N : In(t, k)
  BY <1>2, ElementsAre DEF Within
<1> QED BY <1>1, <1>6, <1>7

\* An interval of a merged list holds a slot if the list covers its time.
LEMMA HeldIsCovered ==
  ASSUME NEW m, Merged(m), NEW s \in Slot, s.start < s.end
  PROVE  (\E p \in ToSet(m) : p.start <= s.start /\ p.end >= s.end)
         <=> \A t \in s.start..(s.end - 1) : Within(t, m)
<1>1. /\ m \in Seq(Slot) /\ s.start \in Int /\ s.end \in Int
      /\ \A p \in ToSet(m) : p.start \in Int /\ p.end \in Int /\ p.start < p.end
  BY ElementsAre, SlotFields DEF Merged
<1>2. ASSUME NEW p \in ToSet(m), p.start <= s.start, p.end >= s.end, NEW t \in s.start..(s.end - 1)
      PROVE  Within(t, m)
  <2>1. p.start <= t /\ t < p.end
    BY <1>1, <1>2
  <2> QED BY <2>1 DEF Within
<1>3. ASSUME \A t \in s.start..(s.end - 1) : Within(t, m)
      PROVE  \E p \in ToSet(m) : p.start <= s.start /\ p.end >= s.end
  <2>1. s.start \in s.start..(s.end - 1)
    BY <1>1
  <2>2. PICK p \in ToSet(m) : p.start <= s.start /\ s.start < p.end
    BY <1>3, <2>1 DEF Within
  <2> SUFFICES ASSUME ~(p.end >= s.end)
               PROVE  FALSE
    BY <2>2
  <2>3. p.end \in s.start..(s.end - 1)
    BY <1>1, <2>2
  <2>4. PICK q \in ToSet(m) : q.start <= p.end /\ p.end < q.end
    BY <1>3, <2>3 DEF Within
  <2>5. PICK i \in 1..Len(m), j \in 1..Len(m) : m[i] = p /\ m[j] = q
    BY <1>1, ElementsAre
  <2>6. i < j \/ j < i \/ i = j
    OBVIOUS
  <2>7. <<p, q>> \in Gaps \/ <<q, p>> \in Gaps \/ p = q
    BY <2>5, <2>6 DEF Merged, Ordered
  <2>8. p.end < q.start \/ q.end < p.start \/ p.end = q.end
    BY <2>7 DEF Gaps
  <2>9. p.start < p.end /\ p.start \in Int /\ p.end \in Int /\ q.start \in Int /\ q.end \in Int
    BY <1>1
  <2> QED BY <2>4, <2>8, <2>9
<1> QED BY <1>2, <1>3
-----------------------------------------------------------------------------
(* The first of some slots.                                                 *)
LEMMA LowerBound ==
  ASSUME NEW list \in Seq(Slot)
  PROVE  \E low \in Int : \A s \in ToSet(list) : low <= s.start
<1> DEFINE N == Len(list)
           Bound(n) == \E low \in Int : \A i \in 1..n : low <= list[i].start
           S == {n \in Nat : n <= N => Bound(n)}
<1>1. N \in Nat /\ \A n \in 1..N : list[n].start \in Int
  BY LenProperties, SlotFields
<1>2. 0 \in S
  <2>1. \A i \in 1..0 : 0 <= list[i].start
    OBVIOUS
  <2> QED BY <2>1
<1>3. ASSUME NEW n \in Nat, n \in S
      PROVE  n + 1 \in S
  <2> SUFFICES ASSUME n + 1 <= N PROVE Bound(n + 1)
    OBVIOUS
  <2>0. Bound(n)
    <3> HIDE DEF Bound
    <3> QED BY <1>3
  <2>1. PICK low \in Int : \A i \in 1..n : low <= list[i].start
    BY <2>0
  <2>2. PICK x \in Int : x = list[n + 1].start
    BY <1>1
  <2>3. PICK y \in Int : y <= low /\ y <= x
    OBVIOUS
  <2>4. \A i \in 1..(n + 1) : y <= list[i].start
    <3> SUFFICES ASSUME NEW i \in 1..(n + 1) PROVE y <= list[i].start
      OBVIOUS
    <3>1. CASE i = n + 1
      BY <2>2, <2>3, <3>1
    <3>2. CASE i # n + 1
      <4>1. i \in 1..n /\ i \in 1..N
        BY <3>2
      <4> QED BY <1>1, <2>1, <2>3, <4>1
    <3> QED BY <3>1, <3>2
  <2> QED BY <2>4
<1>4. N \in S
  <2> HIDE DEF S
  <2> QED BY <1>1, <1>2, <1>3, Induction
<1>5. Bound(N)
  <2> HIDE DEF Bound
  <2> QED BY <1>1, <1>4
<1> QED BY <1>5, ElementsAre

LEMMA FirstIs ==
  ASSUME NEW slots \in SUBSET Slot, slots # {}, NEW low \in Int, \A s \in slots : low <= s.start
  PROVE  First(slots) \in slots /\ \A t \in slots : First(slots).start <= t.start
<1>1. \A s \in slots : s.start \in Int /\ s.start - low \in Nat
  BY SlotFields
<1> DEFINE D == {s.start - low : s \in slots}
<1>2. D # {} /\ D \subseteq Nat
  BY <1>1
<1>3. PICK d \in D : \A e \in D : ~(<<e, d>> \in OpToRel(<, Nat))
  <2> HIDE DEF D
  <2> QED BY <1>2, NatLessThanWellFounded, WFMin
<1>4. \A e \in D : d <= e
  <2> HIDE DEF D
  <2> SUFFICES ASSUME NEW e \in D PROVE d <= e
    OBVIOUS
  <2>1. d \in Nat /\ e \in Nat
    BY <1>2
  <2>2. ~(e < d)
    BY <1>3, <2>1 DEF OpToRel
  <2> QED BY <2>1, <2>2
<1>5. PICK s \in slots : d = s.start - low
  OBVIOUS
<1>6. ASSUME NEW t \in slots
      PROVE  s.start <= t.start
  <2>1. t.start - low \in D
    OBVIOUS
  <2>2. s.start - low <= t.start - low
    BY <1>4, <1>5, <2>1
  <2> QED BY <1>1, <2>2
<1> QED BY <1>6 DEF First

-----------------------------------------------------------------------------
\* Two mock agents: the slot found is the first of their common times.
LEMMA CommonSlotIsFirst ==
  ASSUME NEW c \in Mock
  PROVE  IsFirst(FirstCommonSlot(c.left, c.right, c.minutes), Common(c))
<1> DEFINE From(a, b) == Lasting(Max({a.start, b.start}), c.minutes)
           Long(a, b) == From(a, b).end <= Min({a.end, b.end})
           long == {p \in ToSet(c.left) \X ToSet(c.right) : c.minutes > 0 /\ Long(p[1], p[2])}
           fits == {From(p[1], p[2]) : p \in long}
           found == FirstCommonSlot(c.left, c.right, c.minutes)
           Fact(a, b) ==
             /\ From(a, b) \in Slot /\ From(a, b) = Lasting(From(a, b).start, c.minutes)
             /\ From(a, b).start \in Int /\ From(a, b).end = From(a, b).start + c.minutes
             /\ From(a, b).start >= a.start /\ From(a, b).start >= b.start
             /\ From(a, b).start = a.start \/ From(a, b).start = b.start
             /\ Long(a, b) <=> From(a, b).end <= a.end /\ From(a, b).end <= b.end
             /\ a.start \in Int /\ a.end \in Int /\ b.start \in Int /\ b.end \in Int
<1>1. /\ c.left \in Seq(Slot) /\ c.right \in Seq(Slot) /\ c.minutes \in Nat
      /\ ToSet(c.left) \subseteq Slot /\ ToSet(c.right) \subseteq Slot
  BY SlotAssumption, ElementsAre DEF Mock
<1>2. found = IF fits = {} THEN NoSlot ELSE First(fits)
  BY DEF FirstCommonSlot
<1> HIDE DEF found
<1>3. ASSUME NEW a \in ToSet(c.left), NEW b \in ToSet(c.right)
      PROVE  Fact(a, b)
  <2>1. a.start \in Int /\ a.end \in Int /\ b.start \in Int /\ b.end \in Int
    BY <1>1, SlotFields
  <2>2. PICK t : t = Max({a.start, b.start})
    OBVIOUS
  <2>3. t \in Int /\ t = (IF a.start >= b.start THEN a.start ELSE b.start)
    BY <2>1, <2>2, MaxOfTwo
  <2>4. From(a, b) = Lasting(t, c.minutes)
    BY <2>2
  <2>5. PICK e : e = Min({a.end, b.end})
    OBVIOUS
  <2>6. e = (IF a.end <= b.end THEN a.end ELSE b.end)
    BY <2>1, <2>5, MaxOfTwo
  <2>7. Long(a, b) <=> From(a, b).end <= e
    BY <2>5
  <2> HIDE DEF From, Long
  <2>8. /\ From(a, b) \in Slot /\ From(a, b).start = t /\ From(a, b).end = t + c.minutes
    BY <1>1, <2>3, <2>4 DEF Lasting, Slot
  <2> QED BY <1>1, <2>1, <2>3, <2>4, <2>6, <2>7, <2>8
<1> HIDE DEF Fact, From, Long
<1>4. ASSUME NEW s \in fits
      PROVE  s \in Common(c) /\ s \in Slot
  <2>1. PICK a \in ToSet(c.left), b \in ToSet(c.right) :
               c.minutes > 0 /\ Long(a, b) /\ s = From(a, b)
    OBVIOUS
  <2>2. Fact(a, b)
    BY <1>3
  <2>3. PICK t : t = From(a, b).start
    OBVIOUS
  <2>4. /\ t \in a.start..(a.end - c.minutes) /\ s = Lasting(t, c.minutes)
        /\ b.start <= s.start /\ s.end <= b.end /\ s \in Slot
    BY <1>1, <2>1, <2>2, <2>3 DEF Fact
  <2>5. Holds(c.right, s)
    BY <2>4 DEF Holds
  <2>6. c.minutes # 0
    BY <1>1, <2>1
  <2> HIDE DEF fits
  <2> QED BY <2>4, <2>5, <2>6 DEF Common
<1>5. ASSUME NEW s \in Common(c)
      PROVE  s.start \in Int /\ \E r \in fits : r.start <= s.start
  <2>1. PICK a \in ToSet(c.left) :
               s \in {Lasting(u, c.minutes) : u \in a.start..(a.end - c.minutes)} /\ Holds(c.right, s)
    BY DEF Common
  <2>2. PICK u \in a.start..(a.end - c.minutes) : s = Lasting(u, c.minutes)
    BY <2>1
  <2>3. PICK b \in ToSet(c.right) : b.start <= s.start /\ s.end <= b.end
    BY <2>1 DEF Holds
  <2>4. Fact(a, b)
    BY <1>3
  <2>5. c.minutes # 0
    BY DEF Common
  <2>6. s.start = u /\ s.end = u + c.minutes
    BY <2>2 DEF Lasting
  <2>7. u \in Int /\ a.start <= u /\ u + c.minutes <= a.end /\ c.minutes > 0
    BY <1>1, <2>4, <2>5 DEF Fact
  <2>8. Long(a, b) /\ From(a, b).start <= s.start
    BY <1>1, <2>3, <2>4, <2>6, <2>7 DEF Fact
  <2>9. From(a, b) \in fits
    <3>1. <<a, b>> \in long
      BY <2>7, <2>8
    <3> HIDE DEF long
    <3> QED BY <3>1
  <2> HIDE DEF fits
  <2> QED BY <2>6, <2>7, <2>8, <2>9
<1>6. CASE Common(c) = {}
  <2>1. fits = {}
    BY <1>4, <1>6
  <2> HIDE DEF fits
  <2> QED BY <1>2, <1>6, <2>1 DEF IsFirst, found
<1>7. CASE Common(c) # {}
  <2>1. fits # {} /\ fits \subseteq Slot
    <3> HIDE DEF fits
    <3> QED BY <1>4, <1>5, <1>7
  <2>2. PICK low \in Int : \A a \in ToSet(c.left) : low <= a.start
    BY <1>1, LowerBound
  <2>3. ASSUME NEW s \in fits
        PROVE  low <= s.start
    <3>1. PICK a \in ToSet(c.left), b \in ToSet(c.right) : s = From(a, b)
      OBVIOUS
    <3>2. Fact(a, b)
      BY <1>3
    <3> HIDE DEF fits
    <3> QED BY <2>2, <3>1, <3>2 DEF Fact
  <2> HIDE DEF fits
  <2>4. found = First(fits)
    BY <1>2, <2>1
  <2>5. found \in fits /\ \A t \in fits : found.start <= t.start
    BY <2>1, <2>3, <2>4, FirstIs
  <2>6. ASSUME NEW s \in Common(c)
        PROVE  found.start <= s.start
    <3>1. PICK r \in fits : r.start <= s.start
      BY <1>5
    <3>2. found.start <= r.start
      BY <2>5
    <3>3. found.start \in Int /\ r.start \in Int /\ s.start \in Int
      BY <1>5, <2>1, <2>5, SlotFields
    <3> QED BY <3>1, <3>2, <3>3
  <2>7. found \in Common(c)
    BY <1>4, <2>5
  <2>8. IsFirst(found, Common(c))
    BY <1>7, <2>6, <2>7 DEF IsFirst
  <2> QED BY <2>8 DEF found
<1> QED BY <1>6, <1>7

-----------------------------------------------------------------------------
\* A sorted list has the elements of the list, the earlier ones first.
LEMMA SortedIs ==
  ASSUME NEW list \in Seq(Slot), NEW coverage \in Sorted(list)
  PROVE  /\ coverage \in Seq(Slot)
         /\ ToSet(coverage) = ToSet(list)
         /\ \A i, j \in 1..Len(coverage) : i < j => coverage[i].start <= coverage[j].start
<1> DEFINE D == 1..Len(list)
<1>1. Len(list) \in Nat /\ DOMAIN list = D /\ \A i \in D : list[i] \in Slot
  BY LenProperties
<1>2. PICK o \in Bijection(D, D) :
        /\ coverage = [i \in D |-> list[o[i]]]
        /\ \A i, j \in D : i < j => list[o[i]].start <= list[o[j]].start
  BY <1>1 DEF Sorted
<1>3. (\A i \in D : o[i] \in D) /\ \A j \in D : \E i \in D : o[i] = j
  BY <1>2 DEF Bijection, Injection, Surjection
<1>4. coverage \in Seq(Slot) /\ Len(coverage) = Len(list) /\ \A i \in D : coverage[i] = list[o[i]]
  BY <1>1, <1>2, <1>3
<1>5. ASSUME NEW x \in ToSet(coverage)
      PROVE  x \in ToSet(list)
  <2>1. PICK i \in D : coverage[i] = x
    BY <1>4, ElementsAre
  <2>2. x = list[o[i]] /\ o[i] \in 1..Len(list)
    BY <1>3, <1>4, <2>1
  <2> QED BY <2>2, ElementsAre
<1>6. ASSUME NEW x \in ToSet(list)
      PROVE  x \in ToSet(coverage)
  <2>1. PICK j \in D : list[j] = x
    BY ElementsAre
  <2>2. PICK i \in D : o[i] = j
    BY <1>3
  <2> QED BY <1>4, <2>1, <2>2, ElementsAre
<1> QED BY <1>2, <1>4, <1>5, <1>6

LEMMA LaterDate ==
  ASSUME NEW s \in Int, NEW t \in Int, NEW tz \in Int, Date(s, tz) > Date(t, tz)
  PROVE  s > t
BY DEF Date, Day

LEMMA AppointmentIsFirst ==
  ASSUME NEW c \in Page, NEW coverage \in Sorted(c.visitor)
  PROVE  IsFirst(FirstHostSlot(FromTomorrow(c.host, c.zones[1], c.start), coverage,
                               Window(c.start)),
                 Appointments(c))
<1> DEFINE tz == c.zones[1]
           later == {s \in ToSet(c.host.slots) : Date(s.start, tz) > Date(c.start, tz)}
           host == FromTomorrow(c.host, tz, c.start)
           w == Window(c.start)
           merged == FoldLeft(Merge, << >>, coverage)
           Held(s) == \E p \in ToSet(merged) : p.start <= s.start /\ p.end >= s.end
           fits == {s \in ToSet(host.slots) :
                      /\ s.start >= w.start /\ s.end <= w.end /\ Length(s) = host.duration
                      /\ Held(s)}
           found == FirstHostSlot(host, coverage, w)
<1>1. /\ c.start \in Int /\ tz \in Int /\ c.visitor \in Seq(Slot)
      /\ c.host \in [duration : Nat \ {0}, slots : Seq(Slot)]
      /\ c.host.slots \in Seq(Slot) /\ c.host.duration \in Nat \ {0}
  BY SlotAssumption DEF Page
<1>2. found = IF fits = {} THEN NoSlot ELSE First(fits)
  BY DEF FirstHostSlot
<1>3. host.duration = c.host.duration /\ host.slots = Those(c.host.slots, later)
  BY <1>1 DEF FromTomorrow
<1>4. ToSet(host.slots) = later /\ ToSet(c.host.slots) \subseteq Slot
  <2> HIDE DEF later, host
  <2>1. ToSet(host.slots) = ToSet(c.host.slots) \cap later
    BY <1>1, <1>3, ThoseAre
  <2> QED BY <1>1, <2>1, ElementsAre DEF later
<1>5. w.start = c.start
  BY DEF Window
<1> HIDE DEF found, host, w, merged
<1>6. ASSUME NEW s \in Slot, s.start < s.end
      PROVE  Held(s) <=> Covered(c.visitor, s)
  <2>1. Merged(merged) /\ (\A t \in Int : Within(t, merged) <=> Within(t, coverage))
        /\ ToSet(coverage) = ToSet(c.visitor)
    BY <1>1, SortedIs, MergedList DEF merged
  <2>2. Held(s) <=> \A t \in s.start..(s.end - 1) : Within(t, merged)
    BY <1>6, <2>1, HeldIsCovered
  <2>3. s.start \in Int /\ s.end \in Int
    BY SlotFields
  <2>4. \A t \in s.start..(s.end - 1) :
          Within(t, merged) <=> \E i \in ToSet(c.visitor) : i.start <= t /\ t < i.end
    BY <2>1, <2>3 DEF Within
  <2> HIDE DEF Held
  <2> QED BY <2>2, <2>4 DEF Covered
<1> HIDE DEF Held
<1>7. fits = Appointments(c)
  <2>1. ASSUME NEW s \in later
        PROVE  /\ s \in Slot /\ s.start \in Int /\ s.end \in Int
               /\ s.start >= w.start
               /\ Length(s) = c.host.duration => s.start < s.end
    <3>1. s \in Slot /\ s.start \in Int /\ s.end \in Int
      BY <1>4, SlotFields
    <3>2. s.start > c.start
      BY <1>1, <3>1, LaterDate
    <3> QED BY <1>1, <1>5, <3>1, <3>2 DEF Length
  <2>2. ASSUME NEW s \in fits
        PROVE  s \in Appointments(c)
    <3>1. s \in later /\ s.end <= w.end /\ Length(s) = c.host.duration /\ Held(s)
      BY <1>3, <1>4
    <3>2. Covered(c.visitor, s)
      BY <1>6, <2>1, <3>1
    <3> QED BY <3>1, <3>2 DEF Appointments, w
  <2>3. ASSUME NEW s \in Appointments(c)
        PROVE  s \in fits
    <3>1. s \in later /\ s.end <= w.end /\ Length(s) = c.host.duration /\ Covered(c.visitor, s)
      BY DEF Appointments, w
    <3>2. Held(s) /\ s.start >= w.start
      BY <1>6, <2>1, <3>1
    <3> QED BY <1>3, <1>4, <3>1, <3>2
  <2> HIDE DEF fits
  <2> QED BY <2>2, <2>3
<1>8. fits \subseteq Slot
  BY <1>4
<1>9. CASE fits = {}
  <2> HIDE DEF fits
  <2>1. IsFirst(found, Appointments(c))
    BY <1>2, <1>7, <1>9 DEF IsFirst
  <2> QED BY <2>1 DEF found, host, w
<1>10. CASE fits # {}
  <2>1. PICK low \in Int : \A s \in ToSet(c.host.slots) : low <= s.start
    BY <1>1, LowerBound
  <2>2. \A s \in fits : low <= s.start
    BY <1>4, <2>1
  <2> HIDE DEF fits
  <2>3. found = First(fits)
    BY <1>2, <1>10
  <2>4. found \in fits /\ \A s \in fits : found.start <= s.start
    BY <1>8, <1>10, <2>2, <2>3, FirstIs
  <2>5. IsFirst(found, Appointments(c))
    BY <1>7, <1>10, <2>4 DEF IsFirst
  <2> QED BY <2>5 DEF found, host, w
<1> QED BY <1>9, <1>10

-----------------------------------------------------------------------------
(* Free time: the pieces that a set of busy blocks leaves of some slots.    *)
Proper == {s \in Slot : s.start < s.end}
After == {p \in Slot \X Slot : p[1].end <= p[2].start}
Inside(s, r) == r.start <= s.start /\ s.end <= r.end
ApartFrom(s, B) == \A b \in B : Apart(s, b)
Part(x, whole, B) == ApartFrom(x, B) /\ \E r \in ToSet(whole) : Inside(x, r)
Rest(list, whole, B) ==
  /\ list \in Seq(Proper) /\ Ordered(list, After)
  /\ \A x \in ToSet(list) : Part(x, whole, B)
  /\ \A s \in Proper : Part(s, whole, B) => \E x \in ToSet(list) : Inside(s, x)

LEMMA ProperFields ==
  ASSUME NEW s \in Proper
  PROVE  s \in Slot /\ s.start \in Int /\ s.end \in Int /\ s.start < s.end
BY DEF Proper, Slot

LEMMA InsideWhole ==
  ASSUME NEW s \in Proper, NEW r \in Proper, NEW q \in Proper, Inside(s, r), Inside(r, q)
  PROVE  Inside(s, q)
BY ProperFields DEF Inside

LEMMA InsideApart ==
  ASSUME NEW s \in Proper, NEW r \in Proper, NEW b \in Proper, Inside(s, r), Apart(r, b)
  PROVE  Apart(s, b)
BY ProperFields DEF Inside, Apart

LEMMA PairOrdered ==
  ASSUME NEW x \in Proper, NEW y \in Proper, x.end <= y.start
  PROVE  /\ <<x>> \o <<y>> \in Seq(Proper) /\ Ordered(<<x>> \o <<y>>, After)
         /\ ToSet(<<x>> \o <<y>>) = {x, y}
<1>1. /\ <<x>> \in Seq(Proper) /\ ToSet(<<x>>) = {x} /\ Ordered(<<x>>, After)
      /\ <<y>> \in Seq(Proper) /\ ToSet(<<y>>) = {y} /\ Ordered(<<y>>, After)
  BY Singletons
<1>2. Across(<<x>>, <<y>>, After)
  BY <1>1, ProperFields DEF Across, After
<1>3. /\ <<x>> \o <<y>> \in Seq(Proper)
      /\ ToSet(<<x>> \o <<y>>) = ToSet(<<x>>) \union ToSet(<<y>>)
  BY <1>1, ConcatElements
<1>4. Ordered(<<x>> \o <<y>>, After)
  BY <1>1, <1>2, ConcatOrdered
<1>5. {x} \union {y} = {x, y}
  OBVIOUS
<1> QED BY <1>1, <1>3, <1>4, <1>5

LEMMA PiecesAre ==
  ASSUME NEW r \in Proper, NEW b \in Proper
  PROVE  Rest(Pieces(r, b), <<r>>, {b})
<1> DEFINE left == [start |-> r.start, end |-> b.start]
           right == [start |-> b.end, end |-> r.end]
<1>1. /\ r.start \in Int /\ r.end \in Int /\ r.start < r.end
      /\ b.start \in Int /\ b.end \in Int /\ b.start < b.end
  BY ProperFields
<1>2. ToSet(<<r>>) = {r}
  BY Singletons
<1>3. \A s : Part(s, <<r>>, {b}) <=> Apart(s, b) /\ Inside(s, r)
  BY <1>2 DEF Part, ApartFrom
<1>4. CASE b.end <= r.start \/ b.start >= r.end
  <2>1. Pieces(r, b) = <<r>>
    BY <1>4 DEF Pieces
  <2>2. Apart(r, b) /\ Inside(r, r)
    BY <1>1, <1>4 DEF Apart, Inside
  <2>3. <<r>> \in Seq(Proper) /\ Ordered(<<r>>, After)
    BY Singletons
  <2> QED BY <1>2, <1>3, <2>1, <2>2, <2>3 DEF Rest
<1>5. CASE ~(b.end <= r.start \/ b.start >= r.end)
  <2>1. Pieces(r, b) = (IF b.start > r.start THEN <<left>> ELSE << >>)
                       \o (IF b.end < r.end THEN <<right>> ELSE << >>)
    BY <1>5 DEF Pieces
  <2>2. b.start > r.start => left \in Proper /\ Inside(left, r) /\ Apart(left, b)
    BY <1>1, <1>5 DEF Proper, Slot, Inside, Apart
  <2>3. b.end < r.end => right \in Proper /\ Inside(right, r) /\ Apart(right, b)
    BY <1>1, <1>5 DEF Proper, Slot, Inside, Apart
  <2>4. left.end <= right.start
    BY <1>1
  <2>5. ASSUME NEW s \in Proper, Apart(s, b), Inside(s, r)
        PROVE  \/ b.start > r.start /\ Inside(s, left)
               \/ b.end < r.end /\ Inside(s, right)
    <3>1. s.start \in Int /\ s.end \in Int /\ s.start < s.end
      BY ProperFields
    <3> QED BY <1>1, <2>5, <3>1 DEF Apart, Inside
  <2> HIDE DEF left, right
  <2>6. CASE b.start > r.start /\ b.end < r.end
    <3>1. Pieces(r, b) = <<left>> \o <<right>>
      BY <2>1, <2>6
    <3>2. ToSet(Pieces(r, b)) = {left, right} /\ Pieces(r, b) \in Seq(Proper)
          /\ Ordered(Pieces(r, b), After)
      BY <2>2, <2>3, <2>4, <2>6, <3>1, PairOrdered
    <3> QED BY <1>3, <2>2, <2>3, <2>5, <2>6, <3>2 DEF Rest
  <2>7. CASE b.start > r.start /\ ~(b.end < r.end)
    <3>1. Pieces(r, b) = <<left>>
      <4>1. Pieces(r, b) = <<left>> \o << >>
        BY <2>1, <2>7
      <4> QED BY <4>1
    <3>2. ToSet(Pieces(r, b)) = {left} /\ Pieces(r, b) \in Seq(Proper)
          /\ Ordered(Pieces(r, b), After)
      BY <2>2, <2>7, <3>1, Singletons
    <3> QED BY <1>3, <2>2, <2>5, <2>7, <3>2 DEF Rest
  <2>8. CASE ~(b.start > r.start) /\ b.end < r.end
    <3>1. Pieces(r, b) = <<right>>
      <4>1. Pieces(r, b) = << >> \o <<right>>
        BY <2>1, <2>8
      <4> QED BY <4>1
    <3>2. ToSet(Pieces(r, b)) = {right} /\ Pieces(r, b) \in Seq(Proper)
          /\ Ordered(Pieces(r, b), After)
      BY <2>3, <2>8, <3>1, Singletons
    <3> QED BY <1>3, <2>3, <2>5, <2>8, <3>2 DEF Rest
  <2>9. CASE ~(b.start > r.start) /\ ~(b.end < r.end)
    <3>1. Pieces(r, b) = << >>
      <4>1. Pieces(r, b) = << >> \o << >>
        BY <2>1, <2>9
      <4> QED BY <4>1
    <3>2. ToSet(Pieces(r, b)) = {} /\ Pieces(r, b) \in Seq(Proper)
          /\ Ordered(Pieces(r, b), After)
      <4>1. << >> \in Seq(Proper) /\ ToSet(<< >>) = {} /\ Ordered(<< >>, After)
        BY Singletons
      <4> QED BY <3>1, <4>1
    <3> QED BY <1>3, <2>5, <2>9, <3>2 DEF Rest
  <2> QED BY <2>6, <2>7, <2>8, <2>9
<1> QED BY <1>4, <1>5

\* Cutting a block out of what is left leaves what is apart from it too.
LEMMA CutIs ==
  ASSUME NEW list, NEW whole \in Seq(Proper), NEW B \in SUBSET Proper, Rest(list, whole, B),
         NEW b \in Proper
  PROVE  Rest(Cut(list, b), whole, B \union {b})
<1> DEFINE N == Len(list)
           parts == [i \in 1..N |-> Pieces(list[i], b)]
<1>1. /\ list \in Seq(Proper) /\ Ordered(list, After) /\ N \in Nat
      /\ \A i \in 1..N : list[i] \in Proper
  BY LenProperties DEF Rest
<1>2. \A i \in 1..N : Rest(parts[i], <<list[i]>>, {b})
  BY <1>1, PiecesAre
<1>3. Cut(list, b) = FlattenSeq(parts)
  BY DEF Cut
<1> HIDE DEF parts
<1>4. parts \in [1..N -> Seq(Proper)]
  <2>1. parts = [i \in 1..N |-> Pieces(list[i], b)]
    BY DEF parts
  <2> QED BY <1>2, <2>1 DEF Rest
<1>5. ASSUME NEW i \in 1..N, NEW x \in ToSet(parts[i])
      PROVE  x \in Proper /\ Apart(x, b) /\ Inside(x, list[i])
  <2>1. Part(x, <<list[i]>>, {b}) /\ parts[i] \in Seq(Proper)
    BY <1>2 DEF Rest
  <2>2. ToSet(<<list[i]>>) = {list[i]}
    BY <1>1, Singletons
  <2> QED BY <2>1, <2>2, ElementsAre DEF Part, ApartFrom
<1>6. Cut(list, b) \in Seq(Proper) /\ ToSet(Cut(list, b)) = UNION {ToSet(parts[i]) : i \in 1..N}
  BY <1>1, <1>3, <1>4, FlattenElements
<1>7. Ordered(Cut(list, b), After)
  <2>1. \A i \in 1..N : Ordered(parts[i], After)
    BY <1>2 DEF Rest
  <2>2. ASSUME NEW i \in 1..N, NEW j \in 1..N, i < j
        PROVE  Across(parts[i], parts[j], After)
    <3> SUFFICES ASSUME NEW x \in ToSet(parts[i]), NEW y \in ToSet(parts[j])
                 PROVE  <<x, y>> \in After
      BY DEF Across
    <3>1. x \in Proper /\ Inside(x, list[i]) /\ y \in Proper /\ Inside(y, list[j])
      BY <1>5
    <3>2. list[i].end <= list[j].start
      BY <1>1, <2>2 DEF Ordered, After
    <3>3. list[i] \in Proper /\ list[j] \in Proper
      BY <1>1
    <3> QED BY <3>1, <3>2, <3>3, ProperFields DEF After, Inside
  <2> QED BY <1>1, <1>3, <1>4, <2>1, <2>2, FlattenOrdered
<1>8. ASSUME NEW x \in ToSet(Cut(list, b))
      PROVE  Part(x, whole, B \union {b})
  <2>1. PICK i \in 1..N : x \in ToSet(parts[i])
    BY <1>6
  <2>2. x \in Proper /\ Apart(x, b) /\ Inside(x, list[i]) /\ list[i] \in Proper
    BY <1>1, <1>5, <2>1
  <2>3. Part(list[i], whole, B)
    BY <1>1, ElementsAre DEF Rest
  <2>4. ApartFrom(x, B)
    BY <2>2, <2>3, InsideApart DEF Part, ApartFrom
  <2>5. PICK r \in ToSet(whole) : Inside(list[i], r)
    BY <2>3 DEF Part
  <2>6. Inside(x, r)
    BY <2>2, <2>5, ElementsAre, InsideWhole
  <2> QED BY <2>2, <2>4, <2>6 DEF Part, ApartFrom
<1>9. ASSUME NEW s \in Proper, Part(s, whole, B \union {b})
      PROVE  \E x \in ToSet(Cut(list, b)) : Inside(s, x)
  <2>1. Part(s, whole, B) /\ Apart(s, b)
    BY <1>9 DEF Part, ApartFrom
  <2>2. PICK y \in ToSet(list) : Inside(s, y)
    BY <2>1 DEF Rest
  <2>3. PICK i \in 1..N : y = list[i]
    BY <1>1, ElementsAre
  <2>4. Part(s, <<list[i]>>, {b})
    <3>1. ToSet(<<list[i]>>) = {list[i]}
      BY <1>1, Singletons
    <3> QED BY <2>1, <2>2, <2>3, <3>1 DEF Part, ApartFrom
  <2>5. PICK x \in ToSet(parts[i]) : Inside(s, x)
    BY <1>2, <2>4 DEF Rest
  <2> QED BY <1>6, <2>5
<1> QED BY <1>6, <1>7, <1>8, <1>9 DEF Rest

LEMMA CutType ==
  ASSUME NEW list \in Seq(Proper), NEW b \in Proper
  PROVE  Cut(list, b) \in Seq(Proper)
<1> DEFINE N == Len(list)
           parts == [i \in 1..N |-> Pieces(list[i], b)]
<1>1. N \in Nat /\ \A i \in 1..N : list[i] \in Proper
  BY LenProperties
<1>2. \A i \in 1..N : Pieces(list[i], b) \in Seq(Proper)
  BY <1>1, PiecesAre DEF Rest
<1>3. parts \in [1..N -> Seq(Proper)]
  BY <1>2
<1>4. Cut(list, b) = FlattenSeq(parts)
  BY DEF Cut
<1> HIDE DEF parts
<1> QED BY <1>1, <1>3, <1>4, FlattenElements

LEMMA CutSteps ==
  ASSUME NEW whole \in Seq(Proper), NEW busy \in Seq(Proper)
  PROVE  \E h \in [0..Len(busy) -> Seq(Proper)] :
           /\ h[0] = whole
           /\ \A n \in 1..Len(busy) : h[n] = Cut(h[n - 1], busy[n])
           /\ FoldLeft(Cut, whole, busy) = h[Len(busy)]
<1> DEFINE N == Len(busy)
           T == Seq(Proper)
           step == [p \in T \X Proper |-> Cut(p[1], p[2])]
           Folds(f) == f = [z \in SUBSET DOMAIN busy |->
                              IF z = {} THEN whole ELSE Cut(f[z \ {Max(z)}], busy[Max(z)])]
           it == CHOOSE f : f = [z \in SUBSET DOMAIN busy |->
                              IF z = {} THEN whole ELSE Cut(f[z \ {Max(z)}], busy[Max(z)])]
<1>1. N \in Nat /\ busy \in [1..N -> Proper] /\ DOMAIN busy = 1..N
  BY LenProperties
<1>2. step \in [T \X Proper -> T] /\ whole \in T
  BY CutType
<1>3. PICK g \in [SUBSET (1..N) -> T] : FoldsFrom(whole, step, busy, N, g)
  <2> HIDE DEF T, N, step
  <2> QED BY <1>1, <1>2, FoldExists
<1>4. \A t \in T, e \in Proper : step[<<t, e>>] = Cut(t, e)
  OBVIOUS
<1>5. \A z \in SUBSET (1..N) : z # {} => busy[Max(z)] \in Proper
  BY <1>1, MaxOfPositions
<1>6. Folds(g)
  <2>1. \A z \in SUBSET (1..N) :
          g[z] = IF z = {} THEN whole ELSE Cut(g[z \ {Max(z)}], busy[Max(z)])
    <3>1. \A z \in SUBSET (1..N) : z \ {Max(z)} \in SUBSET (1..N)
      OBVIOUS
    <3> HIDE DEF T, N, step
    <3> QED BY <1>3, <1>4, <1>5, <3>1 DEF FoldsFrom
  <2> HIDE DEF T, N, step
  <2> QED BY <1>1, <2>1
<1>7. Folds(it)
  BY <1>6
<1>8. FoldLeft(Cut, whole, busy) = it[1..N]
  BY <1>1 DEF FoldLeft, MapThenFoldSet
<1> HIDE DEF it
<1>9. FoldsWithin(T, whole, step, busy, N, it)
  <2>1. \A z \in SUBSET (1..N) :
          it[z] = IF z = {} THEN whole ELSE Cut(it[z \ {Max(z)}], busy[Max(z)])
    BY <1>1, <1>7
  <2> HIDE DEF T, N, step, Folds
  <2> QED BY <1>4, <1>5, <2>1 DEF FoldsWithin
<1>10. Reaches(T, whole, step, busy, N, it[1..N])
  <2>1. /\ N \in Nat
        /\ busy \in [1..N -> Proper]
        /\ whole \in T
        /\ step \in [T \X Proper -> T]
        /\ FoldsWithin(T, whole, step, busy, N, it)
    BY <1>1, <1>2, <1>9
  <2> HIDE DEF T, N, step, Folds
  <2> QED BY <2>1, FoldPrefixes
<1>11. PICK h \in [0..N -> T] : Successive(whole, step, busy, N, h) /\ it[1..N] = h[N]
  BY <1>10 DEF Reaches
<1>12. \A n \in 1..N : h[n - 1] \in T /\ busy[n] \in Proper
  BY <1>1
<1>13. \A n \in 1..N : h[n] = Cut(h[n - 1], busy[n])
  <2> HIDE DEF T, N, step, Folds
  <2> QED BY <1>4, <1>11, <1>12 DEF Successive
<1> HIDE DEF step, Folds
<1> QED BY <1>8, <1>11, <1>13 DEF Successive

\* One busy block after the other: what is apart from all of them is left.
LEMMA LeftOver ==
  ASSUME NEW whole \in Seq(Proper), Ordered(whole, After), NEW busy \in Seq(Proper)
  PROVE  Rest(FoldLeft(Cut, whole, busy), whole, ToSet(busy))
<1> DEFINE N == Len(busy)
           Blocks(n) == {busy[k] : k \in 1..n}
<1>1. PICK h \in [0..N -> Seq(Proper)] :
        /\ h[0] = whole
        /\ \A n \in 1..N : h[n] = Cut(h[n - 1], busy[n])
        /\ FoldLeft(Cut, whole, busy) = h[N]
  BY CutSteps
<1>2. N \in Nat /\ \A n \in 1..N : busy[n] \in Proper
  BY LenProperties
<1> DEFINE S == {n \in Nat : n <= N => Rest(h[n], whole, Blocks(n))}
<1>3. 0 \in S
  <2>1. Blocks(0) = {}
    OBVIOUS
  <2>2. ASSUME NEW x \in ToSet(whole)
        PROVE  Inside(x, x)
    BY ElementsAre, ProperFields DEF Inside
  <2> HIDE DEF Blocks
  <2>3. Rest(whole, whole, {})
    BY <2>2 DEF Rest, Part, ApartFrom
  <2> QED BY <1>1, <2>1, <2>3
<1>4. ASSUME NEW n \in Nat, n \in S
      PROVE  n + 1 \in S
  <2> SUFFICES ASSUME n + 1 <= N PROVE Rest(h[n + 1], whole, Blocks(n + 1))
    OBVIOUS
  <2>1. n + 1 \in 1..N /\ (n + 1) - 1 = n /\ n \in 0..N
    OBVIOUS
  <2>2. Blocks(n + 1) = Blocks(n) \union {busy[n + 1]}
    <3>1. \A k : k \in 1..(n + 1) <=> k \in 1..n \/ k = n + 1
      OBVIOUS
    <3> QED BY <3>1
  <2>3. Blocks(n) \in SUBSET Proper
    BY <1>2, <2>1
  <2>4. Rest(h[n], whole, Blocks(n))
    BY <1>4, <2>1
  <2> HIDE DEF Blocks, S
  <2>5. Rest(Cut(h[n], busy[n + 1]), whole, Blocks(n) \union {busy[n + 1]})
    BY <1>2, <2>1, <2>3, <2>4, CutIs
  <2> QED BY <1>1, <2>1, <2>2, <2>5
<1>5. N \in S
  <2> HIDE DEF S
  <2> QED BY <1>2, <1>3, <1>4, Induction
<1>6. Blocks(N) = ToSet(busy)
  BY <1>2, ElementsAre
<1> HIDE DEF Blocks
<1> QED BY <1>1, <1>2, <1>5, <1>6
-----------------------------------------------------------------------------
\* The working hours of a day, within the window.
InHours(s, d, tz) ==
  /\ (d % 7) + 1 <= 5
  /\ d * Day + WorkStart - tz <= s.start /\ s.end <= d * Day + WorkEnd - tz
DayIs(list, d, tz, w) ==
  /\ list \in Seq(Proper) /\ Ordered(list, After)
  /\ \A s \in Proper : (\E r \in ToSet(list) : Inside(s, r)) <=> InHours(s, d, tz) /\ Inside(s, w)
LEMMA WorkingDayIs ==
  ASSUME NEW d \in Int, NEW tz \in Int, NEW w \in Slot
  PROVE  DayIs(WorkingDay(d, tz, w), d, tz, w)
<1> DEFINE x == d * Day + WorkStart - tz
           y == d * Day + WorkEnd - tz
           hours == [start |-> Max({x, w.start}), end |-> Min({y, w.end})]
<1>1. x \in Int /\ y \in Int /\ w.start \in Int /\ w.end \in Int
  BY SlotFields DEF Day, WorkStart, WorkEnd
<1>2. WorkingDay(d, tz, w) =
        IF (d % 7) + 1 <= 5 /\ hours.end > hours.start THEN <<hours>> ELSE << >>
  BY DEF WorkingDay
<1>3. \A s : InHours(s, d, tz) <=> (d % 7) + 1 <= 5 /\ x <= s.start /\ s.end <= y
  BY DEF InHours
<1> HIDE DEF x, y
<1>4. /\ hours.start = (IF x >= w.start THEN x ELSE w.start)
      /\ hours.end = (IF y <= w.end THEN y ELSE w.end)
  BY <1>1, MaxOfTwo
<1>5. hours = [start |-> hours.start, end |-> hours.end]
  OBVIOUS
<1> HIDE DEF hours
<1>6. hours.start \in Int /\ hours.end \in Int /\ hours \in Slot
  <2>1. hours.start \in Int /\ hours.end \in Int
    BY <1>1, <1>4
  <2> QED BY <1>5, <2>1 DEF Slot
<1>7. ASSUME NEW s \in Proper
      PROVE  InHours(s, d, tz) /\ Inside(s, w)
             <=> (d % 7) + 1 <= 5 /\ hours.end > hours.start /\ Inside(s, hours)
  <2>1. s.start \in Int /\ s.end \in Int /\ s.start < s.end
    BY ProperFields
  <2>2. x <= s.start /\ w.start <= s.start <=> hours.start <= s.start
    BY <1>1, <1>4, <2>1
  <2>3. s.end <= y /\ s.end <= w.end <=> s.end <= hours.end
    BY <1>1, <1>4, <2>1
  <2>4. hours.start <= s.start /\ s.end <= hours.end => hours.end > hours.start
    BY <1>6, <2>1
  <2> QED BY <1>3, <2>2, <2>3, <2>4 DEF Inside
<1>8. CASE (d % 7) + 1 <= 5 /\ hours.end > hours.start
  <2>1. hours \in Proper
    BY <1>6, <1>8 DEF Proper
  <2>2. <<hours>> \in Seq(Proper) /\ ToSet(<<hours>>) = {hours} /\ Ordered(<<hours>>, After)
    BY <2>1, Singletons
  <2> QED BY <1>2, <1>7, <1>8, <2>2 DEF DayIs
<1>9. CASE ~((d % 7) + 1 <= 5 /\ hours.end > hours.start)
  <2>1. << >> \in Seq(Proper) /\ ToSet(<< >>) = {} /\ Ordered(<< >>, After)
    <3>1. [start |-> 0, end |-> 1] \in Proper
      BY DEF Proper, Slot
    <3> QED BY <3>1, Singletons
  <2>2. WorkingDay(d, tz, w) = << >>
    BY <1>2, <1>9
  <2> QED BY <1>7, <1>9, <2>1, <2>2 DEF DayIs
<1> QED BY <1>8, <1>9

\* Different days' working hours follow one another.
LEMMA DaysFollow ==
  ASSUME NEW d \in Int, NEW e \in Int, d < e, NEW tz \in Int,
         NEW x \in Proper, NEW y \in Proper, InHours(x, d, tz), InHours(y, e, tz)
  PROVE  <<x, y>> \in After
<1>1. x \in Slot /\ y \in Slot /\ x.end \in Int /\ y.start \in Int
  BY ProperFields
<1>2. d * Day + WorkEnd - tz <= e * Day + WorkStart - tz
  BY DEF Day, WorkEnd, WorkStart
<1>3. x.end <= d * Day + WorkEnd - tz /\ e * Day + WorkStart - tz <= y.start
  BY DEF InHours
<1>4. d * Day + WorkEnd - tz \in Int /\ e * Day + WorkStart - tz \in Int
  BY DEF Day, WorkEnd, WorkStart
<1>5. x.end <= y.start
  BY <1>1, <1>2, <1>3, <1>4
<1> QED BY <1>1, <1>5 DEF After

(* working_slots: intervals in order, within the window, its working hours  *)
(* and apart from every busy block; and every slot of that kind is in one.  *)
Works(s, w, tz, B) == Inside(s, w) /\ ApartFrom(s, B) /\ \E d \in Int : InHours(s, d, tz)
FreeTime(list, w, tz, B) ==
  /\ list \in Seq(Proper) /\ Ordered(list, After)
  /\ \A x \in ToSet(list) : Works(x, w, tz, B)
  /\ \A s \in Proper : Works(s, w, tz, B) => \E x \in ToSet(list) : Inside(s, x)

LEMMA FreeTimeIs ==
  ASSUME NEW w \in Slot, NEW tz \in Int, NEW busy \in Seq(Proper)
  PROVE  FreeTime(WorkingSlots(w, tz, busy), w, tz, ToSet(busy))
<1> DEFINE first == Date(w.start, tz)
           n == Date(w.end, tz) - first + 1
           N == IF n >= 0 THEN n ELSE 0
           B == ToSet(busy)
           Whole(i) == WorkingDay(first + i - 1, tz, w)
           parts == [i \in 1..N |-> FoldLeft(Cut, Whole(i), busy)]
<1>1. first \in Int /\ n \in Int /\ N \in Nat /\ 1..n = 1..N
  <2>1. w.start \in Int /\ w.end \in Int
    BY SlotFields
  <2>2. first \in Int /\ Date(w.end, tz) \in Int
    BY <2>1 DEF Date, Day
  <2> HIDE DEF first
  <2>3. n \in Int
    BY <2>2
  <2>4. N \in Nat
    BY <2>3
  <2>5. \A i : i \in 1..n <=> i \in 1..N
    BY <2>3
  <2> HIDE DEF n, N
  <2> QED BY <2>2, <2>3, <2>4, <2>5
<1>2. WorkingSlots(w, tz, busy) = FlattenSeq(parts)
  <2>1. WorkingSlots(w, tz, busy) = FlattenSeq([i \in 1..n |-> FoldLeft(Cut, Whole(i), busy)])
    BY DEF WorkingSlots
  <2> HIDE DEF n, N, Whole
  <2> QED BY <1>1, <2>1
<1> HIDE DEF n, N, first
<1>3. \A i \in 1..N : first + i - 1 \in Int
  BY <1>1
<1>4. \A i \in 1..N : DayIs(Whole(i), first + i - 1, tz, w)
  BY <1>3, WorkingDayIs
<1> HIDE DEF Whole
<1>5. \A i \in 1..N : Rest(parts[i], Whole(i), B)
  BY <1>4, LeftOver DEF DayIs
<1>6. parts \in [1..N -> Seq(Proper)] /\ \A i \in 1..N : Ordered(parts[i], After)
  <2>1. parts = [i \in 1..N |-> parts[i]]
    OBVIOUS
  <2> HIDE DEF parts
  <2> QED BY <1>5, <2>1 DEF Rest
<1> HIDE DEF parts, B
<1>7. ASSUME NEW i \in 1..N, NEW x \in ToSet(parts[i])
      PROVE  x \in Proper /\ InHours(x, first + i - 1, tz) /\ Inside(x, w) /\ ApartFrom(x, B)
  <2>1. x \in Proper
    BY <1>6, ElementsAre
  <2>2. Part(x, Whole(i), B)
    BY <1>5 DEF Rest
  <2> QED BY <1>4, <2>1, <2>2 DEF Part, DayIs
<1>8. ASSUME NEW i \in 1..N, NEW j \in 1..N, i < j
      PROVE  Across(parts[i], parts[j], After)
  <2>1. first + i - 1 < first + j - 1
    BY <1>1, <1>8
  <2>2. ASSUME NEW x \in ToSet(parts[i]), NEW y \in ToSet(parts[j])
        PROVE  <<x, y>> \in After
    BY <1>3, <1>7, <2>1, DaysFollow
  <2> QED BY <2>2 DEF Across
<1>9. /\ FlattenSeq(parts) \in Seq(Proper) /\ Ordered(FlattenSeq(parts), After)
      /\ ToSet(FlattenSeq(parts)) = UNION {ToSet(parts[i]) : i \in 1..N}
  <2>1. Ordered(FlattenSeq(parts), After)
    BY <1>1, <1>6, <1>8, FlattenOrdered
  <2> QED BY <1>1, <1>6, <2>1, FlattenElements
<1>10. ASSUME NEW x \in ToSet(FlattenSeq(parts))
       PROVE  Works(x, w, tz, B)
  <2>1. PICK i \in 1..N : x \in ToSet(parts[i])
    BY <1>9
  <2> QED BY <1>3, <1>7, <2>1 DEF Works
<1>11. ASSUME NEW s \in Proper, Works(s, w, tz, B)
       PROVE  \E x \in ToSet(FlattenSeq(parts)) : Inside(s, x)
  <2>1. PICK d \in Int : InHours(s, d, tz)
    BY <1>11 DEF Works
  <2>2. PICK i \in 1..N : d = first + i - 1
    <3>1. /\ s.start \in Int /\ s.end \in Int /\ s.start < s.end
          /\ w.start <= s.start /\ s.end <= w.end
          /\ d * 288 + 108 - tz <= s.start /\ s.end <= d * 288 + 216 - tz
          /\ w.start \in Int /\ w.end \in Int
      BY <1>11, <2>1, ProperFields, SlotFields DEF Works, Inside, InHours, Day, WorkStart, WorkEnd
    <3>2. first = (w.start + tz) \div 288 /\ Date(w.end, tz) = (w.end + tz) \div 288
      BY DEF first, Date, Day
    <3>3. first <= d
      BY <3>1, <3>2
    <3>4. d <= Date(w.end, tz) /\ Date(w.end, tz) \in Int
      <4>1. d * 288 <= w.end + tz /\ w.end + tz \in Int
        BY <3>1
      <4>2. d <= (w.end + tz) \div 288 /\ (w.end + tz) \div 288 \in Int
        BY <4>1
      <4> QED BY <3>2, <4>2
    <3>5. n = Date(w.end, tz) - first + 1
      BY DEF n
    <3>6. d - first + 1 \in 1..n
      BY <1>1, <3>3, <3>4, <3>5
    <3>7. d = first + (d - first + 1) - 1
      BY <1>1
    <3> QED BY <1>1, <3>6, <3>7
  <2>3. PICK r \in ToSet(Whole(i)) : Inside(s, r)
    BY <1>4, <1>11, <2>1, <2>2 DEF Works, DayIs
  <2>4. Part(s, Whole(i), B)
    BY <1>11, <2>3 DEF Works, Part
  <2>5. PICK x \in ToSet(parts[i]) : Inside(s, x)
    BY <1>5, <2>4 DEF Rest, B
  <2> QED BY <1>9, <2>5
<1> QED BY <1>2, <1>9, <1>10, <1>11 DEF FreeTime, B

-----------------------------------------------------------------------------
(* The candidates of a proposed time.                                       *)
Lengths == {6, 9, 12}
Ascending(ds, all) ==
  /\ ds \in Seq(Lengths) /\ ToSet(ds) = all
  /\ \A i, j \in 1..Len(ds) : i < j => ds[i] < ds[j]
LEMMA DurationsAre ==
  ASSUME NEW a, NEW b, a.duration \in Lengths, b.duration \in Lengths
  PROVE  Ascending(Durations(a, b), {6, a.duration, b.duration})
<1> DEFINE all == {6, a.duration, b.duration}
           Fit(d) == ToSet(d) = all /\ \A i, j \in DOMAIN d : i < j => d[i] < d[j]
           Tuples == UNION {[1..n -> all] : n \in 1..3}
           ds == Durations(a, b)
<1>1. all = {6} \/ all = {6, 9} \/ all = {6, 12} \/ all = {6, 9, 12}
  BY DEF Lengths
<1>2. ds = CHOOSE d \in Tuples : Fit(d)
  BY DEF Durations
<1> HIDE DEF all, ds
<1>3. ASSUME NEW n \in 1..3, NEW d \in [1..n -> all]
      PROVE  d \in Tuples
  <2>1. [1..n -> all] \in {[1..m -> all] : m \in 1..3}
    OBVIOUS
  <2> QED BY <2>1
<1>4. \E d \in Tuples : Fit(d)
  <2>1. CASE all = {6}
    <3> DEFINE d == [i \in 1..1 |-> 6]
    <3>1. d \in [1..1 -> all] /\ DOMAIN d = 1..1
      BY <2>1
    <3>2. ToSet(d) = all
      BY <2>1 DEF ToSet
    <3>3. \A i, j \in 1..1 : i < j => d[i] < d[j]
      OBVIOUS
    <3> HIDE DEF d, Tuples
    <3> QED BY <1>3, <3>1, <3>2, <3>3
  <2>2. CASE all = {6, 9}
    <3> DEFINE d == [i \in 1..2 |-> IF i = 1 THEN 6 ELSE 9]
    <3>1. d \in [1..2 -> all] /\ DOMAIN d = 1..2 /\ d[1] = 6 /\ d[2] = 9
      BY <2>2
    <3> HIDE DEF d, Tuples
    <3>2. \A i : i \in 1..2 <=> i = 1 \/ i = 2
      OBVIOUS
    <3>3. ToSet(d) = all
      BY <2>2, <3>1, <3>2 DEF ToSet
    <3>4. \A i, j \in 1..2 : i < j => d[i] < d[j]
      BY <3>1
    <3> QED BY <1>3, <3>1, <3>3, <3>4
  <2>3. CASE all = {6, 12}
    <3> DEFINE d == [i \in 1..2 |-> IF i = 1 THEN 6 ELSE 12]
    <3>1. d \in [1..2 -> all] /\ DOMAIN d = 1..2 /\ d[1] = 6 /\ d[2] = 12
      BY <2>3
    <3> HIDE DEF d, Tuples
    <3>2. \A i : i \in 1..2 <=> i = 1 \/ i = 2
      OBVIOUS
    <3>3. ToSet(d) = all
      BY <2>3, <3>1, <3>2 DEF ToSet
    <3>4. \A i, j \in 1..2 : i < j => d[i] < d[j]
      BY <3>1
    <3> QED BY <1>3, <3>1, <3>3, <3>4
  <2>4. CASE all = {6, 9, 12}
    <3> DEFINE d == [i \in 1..3 |-> IF i = 1 THEN 6 ELSE IF i = 2 THEN 9 ELSE 12]
    <3>1. d \in [1..3 -> all] /\ DOMAIN d = 1..3 /\ d[1] = 6 /\ d[2] = 9 /\ d[3] = 12
      BY <2>4
    <3> HIDE DEF d, Tuples
    <3>2. \A i : i \in 1..3 <=> i = 1 \/ i = 2 \/ i = 3
      OBVIOUS
    <3>3. ToSet(d) = all
      BY <2>4, <3>1, <3>2 DEF ToSet
    <3>4. \A i, j \in 1..3 : i < j => d[i] < d[j]
      BY <3>1
    <3> QED BY <1>3, <3>1, <3>3, <3>4
  <2> QED BY <1>1, <2>1, <2>2, <2>3, <2>4
<1>5. ds \in Tuples /\ Fit(ds)
  <2> HIDE DEF Tuples, Fit
  <2> QED BY <1>2, <1>4
<1>6. PICK n \in 1..3 : ds \in [1..n -> all]
  BY <1>5
<1>7. all \subseteq Lengths
  BY <1>1 DEF Lengths
<1>8. ds \in Seq(Lengths) /\ DOMAIN ds = 1..Len(ds)
  BY <1>6, <1>7
<1> QED BY <1>5, <1>8 DEF Ascending, all, ds

ShorterFirst == {p \in Slot \X Slot : p[1].start = p[2].start => p[1].end <= p[2].end}
LEMMA LastingIs ==
  ASSUME NEW t \in Int, NEW d \in Lengths
  PROVE  /\ Lasting(t, d) \in Proper
         /\ Lasting(t, d).start = t /\ Lasting(t, d).end = t + d
BY DEF Lasting, Proper, Slot, Lengths

\* The candidates that start at one time.
StartingAt(t, ds, end) ==
  FlattenSeq([j \in 1..Len(ds) |->
    IF t + ds[j] <= end THEN <<Lasting(t, ds[j])>> ELSE << >>])
LEMMA StartingAtIs ==
  ASSUME NEW t \in Int, NEW end \in Int, NEW all, NEW ds, Ascending(ds, all)
  PROVE  /\ StartingAt(t, ds, end) \in Seq(Proper)
         /\ Ordered(StartingAt(t, ds, end), ShorterFirst)
         /\ \A s : s \in ToSet(StartingAt(t, ds, end))
                   <=> \E d \in all : s = Lasting(t, d) /\ t + d <= end
<1> DEFINE N == Len(ds)
           parts == [j \in 1..N |-> IF t + ds[j] <= end THEN <<Lasting(t, ds[j])>> ELSE << >>]
<1>1. /\ N \in Nat /\ ds \in Seq(Lengths) /\ ToSet(ds) = all
      /\ \A j \in 1..N : ds[j] \in Lengths
      /\ \A i, j \in 1..N : i < j => ds[i] < ds[j]
  BY LenProperties DEF Ascending
<1>2. StartingAt(t, ds, end) = FlattenSeq(parts)
  BY DEF StartingAt
<1>3. ASSUME NEW j \in 1..N
      PROVE  /\ parts[j] \in Seq(Proper) /\ Ordered(parts[j], ShorterFirst)
             /\ \A s : s \in ToSet(parts[j]) <=> s = Lasting(t, ds[j]) /\ t + ds[j] <= end
  <2> DEFINE x == Lasting(t, ds[j])
  <2>1. x \in Proper
    BY <1>1, LastingIs
  <2> HIDE DEF x
  <2>2. /\ <<x>> \in Seq(Proper) /\ ToSet(<<x>>) = {x} /\ Ordered(<<x>>, ShorterFirst)
        /\ << >> \in Seq(Proper) /\ ToSet(<< >>) = {} /\ Ordered(<< >>, ShorterFirst)
    BY <2>1, Singletons
  <2>3. parts[j] = IF t + ds[j] <= end THEN <<x>> ELSE << >>
    BY DEF x
  <2> HIDE DEF parts
  <2>4. CASE t + ds[j] <= end
    <3>1. parts[j] = <<x>>
      BY <2>3, <2>4
    <3> QED BY <2>2, <2>4, <3>1 DEF x
  <2>5. CASE ~(t + ds[j] <= end)
    <3>1. parts[j] = << >>
      BY <2>3, <2>5
    <3> QED BY <2>2, <2>5, <3>1
  <2> QED BY <2>4, <2>5
<1>4. parts \in [1..N -> Seq(Proper)]
  <2>1. parts = [j \in 1..N |-> parts[j]]
    OBVIOUS
  <2> HIDE DEF parts
  <2> QED BY <1>3, <2>1
<1> HIDE DEF parts
<1>5. /\ FlattenSeq(parts) \in Seq(Proper)
      /\ ToSet(FlattenSeq(parts)) = UNION {ToSet(parts[j]) : j \in 1..N}
  BY <1>1, <1>4, FlattenElements
<1>6. ASSUME NEW i \in 1..N, NEW j \in 1..N, i < j
      PROVE  Across(parts[i], parts[j], ShorterFirst)
  <2>1. t + ds[i] <= t + ds[j]
    <3>1. ds[i] \in Int /\ ds[j] \in Int /\ ds[i] < ds[j]
      BY <1>1, <1>6 DEF Lengths
    <3> QED BY <3>1
  <2>2. \A k \in {i, j} : /\ Lasting(t, ds[k]) \in Slot
                          /\ Lasting(t, ds[k]).start = t /\ Lasting(t, ds[k]).end = t + ds[k]
    BY <1>1, LastingIs, ProperFields
  <2>3. <<Lasting(t, ds[i]), Lasting(t, ds[j])>> \in ShorterFirst
    BY <2>1, <2>2 DEF ShorterFirst
  <2> QED BY <1>3, <2>3 DEF Across
<1>7. Ordered(FlattenSeq(parts), ShorterFirst)
  BY <1>1, <1>3, <1>4, <1>6, FlattenOrdered
<1>8. \A s : s \in ToSet(FlattenSeq(parts)) <=> \E j \in 1..N : s = Lasting(t, ds[j]) /\ t + ds[j] <= end
  BY <1>3, <1>5
<1>9. \A s : (\E j \in 1..N : s = Lasting(t, ds[j]) /\ t + ds[j] <= end)
             <=> \E d \in all : s = Lasting(t, d) /\ t + d <= end
  BY <1>1, ElementsAre
<1> QED BY <1>2, <1>5, <1>7, <1>8, <1>9

\* What one pair of free intervals, and two lists of them, have to offer.
OnGrid(s, D) == \E q \in Int, d \in D : s = Lasting(q * Grid, d)
InOneOf(s, slots) == \E r \in slots : Inside(s, r)
Offers(list, D, L, R) ==
  /\ list \in Seq(Proper) /\ Ordered(list, ShorterFirst)
  /\ \A s : s \in ToSet(list) <=> s \in Proper /\ OnGrid(s, D) /\ InOneOf(s, L) /\ InOneOf(s, R)
LEMMA OverlapsAre ==
  ASSUME NEW l \in Proper, NEW r \in Proper, NEW D, NEW ds, Ascending(ds, D)
  PROVE  Offers(Overlaps(l, r, ds), D, {l}, {r})
<1> DEFINE m == Max({l.start, r.start})
           u == (m + Grid - 1) \div Grid
           from == FirstStart(l, r)
           end == Min({l.end, r.end})
           steps == IF from < end THEN ((end - 1 - from) \div Grid) + 1 ELSE 0
           parts == [k \in 1..steps |-> StartingAt(from + (k - 1) * Grid, ds, end)]
<1>1. Overlaps(l, r, ds) = FlattenSeq(parts)
  BY DEF Overlaps, StartingAt
<1>2. l.start \in Int /\ l.end \in Int /\ r.start \in Int /\ r.end \in Int
  BY ProperFields
<1>3. /\ m \in Int /\ end \in Int
      /\ \A t \in Int : m <= t <=> l.start <= t /\ r.start <= t
      /\ \A t \in Int : t <= end <=> t <= l.end /\ t <= r.end
  <2>1. m = (IF l.start >= r.start THEN l.start ELSE r.start) /\ end = (IF l.end <= r.end THEN l.end ELSE r.end)
    BY <1>2, MaxOfTwo
  <2> HIDE DEF m, end
  <2> QED BY <1>2, <2>1
<1>4. from = u * Grid
  BY DEF FirstStart
<1> HIDE DEF m, end, from
<1>5. u \in Int /\ \A q \in Int : m <= q * 3 <=> u <= q
  <2>1. u = (m + 2) \div 3
    BY <1>3 DEF Grid
  <2>2. u \in Int /\ 3 * u <= m + 2 /\ m + 2 < 3 * u + 3
    BY <1>3, <2>1
  <2> HIDE DEF u
  <2>3. ASSUME NEW q \in Int
        PROVE  m <= q * 3 <=> u <= q
    BY <1>3, <2>2
  <2> QED BY <2>2, <2>3
<1> HIDE DEF u
<1>6. from = 3 * u /\ from \in Int
  BY <1>4, <1>5 DEF Grid
<1>7. steps \in Nat /\ \A k \in Int : k \in 1..steps <=> 1 <= k /\ from + (k - 1) * 3 < end
  <2>1. steps = IF from < end THEN ((end - 1 - from) \div 3) + 1 ELSE 0
    BY DEF Grid
  <2>2. CASE from < end
    <3> DEFINE v == (end - 1 - from) \div 3
    <3>1. v \in Int /\ 3 * v <= end - 1 - from /\ end - 1 - from < 3 * v + 3
      BY <1>3, <1>6
    <3>2. steps = v + 1
      BY <2>1, <2>2
    <3> HIDE DEF v, steps
    <3>3. steps \in Nat
      BY <1>3, <1>6, <2>2, <3>1, <3>2
    <3>4. \A k \in Int : k \in 1..steps <=> 1 <= k /\ from + (k - 1) * 3 < end
      BY <1>3, <1>6, <3>1, <3>2
    <3> QED BY <3>3, <3>4
  <2>3. CASE ~(from < end)
    <3>1. steps = 0
      BY <2>1, <2>3
    <3> HIDE DEF steps
    <3> QED BY <1>3, <1>6, <2>3, <3>1
  <2> QED BY <2>2, <2>3
<1> HIDE DEF steps
<1>8. \A k \in 1..steps : /\ from + (k - 1) * Grid = (u + k - 1) * Grid
                          /\ from + (k - 1) * Grid \in Int
  BY <1>5, <1>6 DEF Grid
<1>9. ASSUME NEW k \in 1..steps
      PROVE  /\ parts[k] \in Seq(Proper) /\ Ordered(parts[k], ShorterFirst)
             /\ \A s : s \in ToSet(parts[k])
                       <=> \E d \in D : s = Lasting((u + k - 1) * Grid, d)
                                        /\ (u + k - 1) * Grid + d <= end
  <2> DEFINE t == (u + k - 1) * Grid
  <2>1. parts[k] = StartingAt(t, ds, end) /\ t \in Int
    BY <1>8
  <2> HIDE DEF parts, t
  <2>2. /\ parts[k] \in Seq(Proper) /\ Ordered(parts[k], ShorterFirst)
        /\ \A s : s \in ToSet(parts[k]) <=> \E d \in D : s = Lasting(t, d) /\ t + d <= end
    BY <1>3, <2>1, StartingAtIs
  <2> QED BY <2>2 DEF t
<1>10. parts \in [1..steps -> Seq(Proper)]
  <2>1. parts = [k \in 1..steps |-> parts[k]]
    OBVIOUS
  <2> HIDE DEF parts
  <2> QED BY <1>9, <2>1
<1> HIDE DEF parts
<1>11. /\ FlattenSeq(parts) \in Seq(Proper)
       /\ ToSet(FlattenSeq(parts)) = UNION {ToSet(parts[k]) : k \in 1..steps}
  BY <1>7, <1>10, FlattenElements
<1>12. D \subseteq Lengths
  BY ElementsAre DEF Ascending
<1>13. ASSUME NEW i \in 1..steps, NEW j \in 1..steps, i < j
       PROVE  Across(parts[i], parts[j], ShorterFirst)
  <2> SUFFICES ASSUME NEW x \in ToSet(parts[i]), NEW y \in ToSet(parts[j])
               PROVE  <<x, y>> \in ShorterFirst
    BY DEF Across
  <2>1. x \in Slot /\ y \in Slot
    BY <1>9, ElementsAre, ProperFields
  <2>2. x.start = (u + i - 1) * Grid /\ y.start = (u + j - 1) * Grid
    BY <1>9 DEF Lasting
  <2>3. x.start # y.start
    BY <1>5, <1>13, <2>2 DEF Grid
  <2> QED BY <2>1, <2>3 DEF ShorterFirst
<1>14. Ordered(FlattenSeq(parts), ShorterFirst)
  BY <1>7, <1>9, <1>10, <1>13, FlattenOrdered
<1>15. ASSUME NEW s \in ToSet(FlattenSeq(parts))
       PROVE  s \in Proper /\ OnGrid(s, D) /\ Inside(s, l) /\ Inside(s, r)
  <2>1. PICK k \in 1..steps : s \in ToSet(parts[k])
    BY <1>11
  <2>2. PICK d \in D : s = Lasting((u + k - 1) * Grid, d) /\ (u + k - 1) * Grid + d <= end
    BY <1>9, <2>1
  <2> DEFINE q == u + k - 1
  <2>3. q \in Int /\ u <= q /\ d \in Lengths /\ q * Grid \in Int
    BY <1>5, <1>12 DEF Grid
  <2>4. /\ s \in Proper /\ s.start = q * Grid /\ s.end = q * Grid + d
        /\ s.start \in Int /\ s.end \in Int
    <3> HIDE DEF q
    <3>1. s = Lasting(q * Grid, d)
      BY <2>2 DEF q
    <3> QED BY <2>3, <3>1, LastingIs, ProperFields
  <2>5. m <= s.start /\ s.end <= end
    BY <1>5, <2>2, <2>3, <2>4 DEF Grid
  <2>6. Inside(s, l) /\ Inside(s, r)
    BY <1>3, <2>4, <2>5 DEF Inside
  <2>7. OnGrid(s, D)
    BY <2>2, <2>3 DEF OnGrid
  <2> QED BY <2>4, <2>6, <2>7
<1>16. ASSUME NEW s \in Proper, OnGrid(s, D), Inside(s, l), Inside(s, r)
       PROVE  s \in ToSet(FlattenSeq(parts))
  <2>1. PICK q \in Int, d \in D : s = Lasting(q * Grid, d)
    BY <1>16 DEF OnGrid
  <2>2. d \in Lengths /\ q * Grid \in Int /\ q * Grid = q * 3
    BY <1>12 DEF Grid
  <2>3. s.start = q * 3 /\ s.end = q * 3 + d /\ s.start < s.end /\ s.start \in Int /\ s.end \in Int
    BY <2>1, <2>2, LastingIs, ProperFields
  <2>4. m <= s.start /\ s.end <= end
    BY <1>3, <1>16, <2>3 DEF Inside
  <2>5. u <= q
    BY <1>5, <2>3, <2>4
  <2> DEFINE k == q - u + 1
  <2>6. k \in 1..steps
    <3>1. k \in Int /\ 1 <= k /\ from + (k - 1) * 3 = q * 3
      BY <1>5, <1>6, <2>5
    <3>2. q * 3 < end
      BY <1>3, <2>3, <2>4
    <3> HIDE DEF k
    <3> QED BY <1>7, <3>1, <3>2
  <2>7. u + k - 1 = q
    BY <1>5
  <2> HIDE DEF k
  <2>8. q * Grid + d <= end
    BY <2>2, <2>3, <2>4
  <2>9. s \in ToSet(parts[k])
    BY <1>9, <2>1, <2>6, <2>7, <2>8
  <2> QED BY <1>11, <2>6, <2>9
<1> QED BY <1>1, <1>11, <1>14, <1>15, <1>16 DEF Offers, InOneOf

\* Slots in intervals that follow one another do not start at one time.
LEMMA StartsDiffer ==
  ASSUME NEW r \in Proper, NEW q \in Proper, <<r, q>> \in After \/ <<q, r>> \in After,
         NEW x \in Proper, NEW y \in Proper, Inside(x, r), Inside(y, q)
  PROVE  <<x, y>> \in ShorterFirst
<1>1. x.start # y.start
  BY ProperFields DEF Inside, After
<1> QED BY <1>1, ProperFields DEF ShorterFirst

\* The offers of one interval and a list, and of two lists.
Row(l, list, ds) == FlattenSeq([j \in 1..Len(list) |-> Overlaps(l, list[j], ds)])
LEMMA RowIs ==
  ASSUME NEW l \in Proper, NEW list \in Seq(Proper), Ordered(list, After),
         NEW D, NEW ds, Ascending(ds, D)
  PROVE  Offers(Row(l, list, ds), D, {l}, ToSet(list))
<1> DEFINE N == Len(list)
           parts == [j \in 1..N |-> Overlaps(l, list[j], ds)]
<1>1. N \in Nat /\ \A j \in 1..N : list[j] \in Proper /\ list[j] \in ToSet(list)
  BY LenProperties, ElementsAre
<1>2. \A j \in 1..N : Offers(parts[j], D, {l}, {list[j]})
  BY <1>1, OverlapsAre
<1>3. parts \in [1..N -> Seq(Proper)] /\ Row(l, list, ds) = FlattenSeq(parts)
  <2>1. parts = [j \in 1..N |-> parts[j]] /\ Row(l, list, ds) = FlattenSeq(parts)
    BY DEF Row
  <2> HIDE DEF parts
  <2> QED BY <1>2, <2>1 DEF Offers
<1> HIDE DEF parts
<1>4. \A j \in 1..N : \A s : s \in ToSet(parts[j])
        <=> s \in Proper /\ OnGrid(s, D) /\ Inside(s, l) /\ Inside(s, list[j])
  BY <1>2 DEF Offers, InOneOf
<1>5. ASSUME NEW i \in 1..N, NEW j \in 1..N, i < j
      PROVE  Across(parts[i], parts[j], ShorterFirst)
  <2>1. <<list[i], list[j]>> \in After
    BY <1>5 DEF Ordered
  <2> QED BY <1>1, <1>4, <2>1, StartsDiffer DEF Across
<1>6. Ordered(FlattenSeq(parts), ShorterFirst)
  <2>1. \A i \in 1..N : Ordered(parts[i], ShorterFirst)
    BY <1>2 DEF Offers
  <2> QED BY <1>1, <1>3, <1>5, <2>1, FlattenOrdered
<1>7. /\ FlattenSeq(parts) \in Seq(Proper)
      /\ ToSet(FlattenSeq(parts)) = UNION {ToSet(parts[j]) : j \in 1..N}
  BY <1>1, <1>3, FlattenElements
<1>8. \A s : InOneOf(s, ToSet(list)) <=> \E j \in 1..N : Inside(s, list[j])
  BY <1>1, ElementsAre DEF InOneOf
<1>9. \A s : InOneOf(s, {l}) <=> Inside(s, l)
  BY DEF InOneOf
<1>10. \A s : s \in ToSet(FlattenSeq(parts)) <=> \E j \in 1..N : s \in ToSet(parts[j])
  BY <1>7
<1>11. \A s : s \in ToSet(FlattenSeq(parts))
              <=> s \in Proper /\ OnGrid(s, D) /\ InOneOf(s, {l}) /\ InOneOf(s, ToSet(list))
  BY <1>4, <1>8, <1>9, <1>10
<1> QED BY <1>3, <1>6, <1>7, <1>11 DEF Offers

LEMMA OfferedAre ==
  ASSUME NEW left \in Seq(Proper), Ordered(left, After),
         NEW right \in Seq(Proper), Ordered(right, After),
         NEW D, NEW ds, Ascending(ds, D)
  PROVE  Offers(Offered(left, right, ds), D, ToSet(left), ToSet(right))
<1> DEFINE N == Len(left)
           parts == [i \in 1..N |-> Row(left[i], right, ds)]
<1>1. N \in Nat /\ \A i \in 1..N : left[i] \in Proper /\ left[i] \in ToSet(left)
  BY LenProperties, ElementsAre
<1>2. \A i \in 1..N : Offers(parts[i], D, {left[i]}, ToSet(right))
  BY <1>1, RowIs
<1>3. parts \in [1..N -> Seq(Proper)] /\ Offered(left, right, ds) = FlattenSeq(parts)
  <2>1. parts = [i \in 1..N |-> parts[i]] /\ Offered(left, right, ds) = FlattenSeq(parts)
    BY DEF Row, Offered
  <2> HIDE DEF parts
  <2> QED BY <1>2, <2>1 DEF Offers
<1> HIDE DEF parts
<1>4. \A i \in 1..N : \A s : s \in ToSet(parts[i])
        <=> s \in Proper /\ OnGrid(s, D) /\ Inside(s, left[i]) /\ InOneOf(s, ToSet(right))
  BY <1>2 DEF Offers, InOneOf
<1>5. ASSUME NEW i \in 1..N, NEW j \in 1..N, i < j
      PROVE  Across(parts[i], parts[j], ShorterFirst)
  <2>1. <<left[i], left[j]>> \in After
    BY <1>5 DEF Ordered
  <2> QED BY <1>1, <1>4, <2>1, StartsDiffer DEF Across
<1>6. Ordered(FlattenSeq(parts), ShorterFirst)
  <2>1. \A i \in 1..N : Ordered(parts[i], ShorterFirst)
    BY <1>2 DEF Offers
  <2> QED BY <1>1, <1>3, <1>5, <2>1, FlattenOrdered
<1>7. /\ FlattenSeq(parts) \in Seq(Proper)
      /\ ToSet(FlattenSeq(parts)) = UNION {ToSet(parts[i]) : i \in 1..N}
  BY <1>1, <1>3, FlattenElements
<1>8. \A s : InOneOf(s, ToSet(left)) <=> \E i \in 1..N : Inside(s, left[i])
  BY <1>1, ElementsAre DEF InOneOf
<1>10. \A s : s \in ToSet(FlattenSeq(parts)) <=> \E i \in 1..N : s \in ToSet(parts[i])
  BY <1>7
<1>11. \A s : s \in ToSet(FlattenSeq(parts))
              <=> s \in Proper /\ OnGrid(s, D) /\ InOneOf(s, ToSet(left)) /\ InOneOf(s, ToSet(right))
  BY <1>4, <1>8, <1>10
<1> QED BY <1>3, <1>6, <1>7, <1>11 DEF Offers

-----------------------------------------------------------------------------
(* The scan of the candidates.                                              *)
Ranks == Int \X Int \X Int
LEMMA HigherIsOrder ==
  ASSUME NEW a \in Ranks, NEW b \in Ranks
  PROVE  /\ ~Higher(a, a)
         /\ Higher(a, b) => ~Higher(b, a)
         /\ a = b \/ Higher(a, b) \/ Higher(b, a)
BY DEF Ranks, Higher

LEMMA HigherIsTransitive ==
  ASSUME NEW a \in Ranks, NEW b \in Ranks, NEW c \in Ranks, Higher(a, b)
  PROVE  ~Higher(c, b) => Higher(a, c)
BY DEF Ranks, Higher

LEMMA RankType ==
  ASSUME NEW s \in Slot, NEW tz, NEW p
  PROVE  Rank(s, tz, p) \in Ranks /\ Rank(s, tz, p)[3] = -s.start
<1> DEFINE x == Score(s, tz[1], p[1])
           y == Score(s, tz[2], p[2])
<1>1. x \in Int /\ y \in Int
  BY DEF Score
<1>2. Rank(s, tz, p) = <<Min({x, y}), x + y, -s.start>>
  BY DEF Rank
<1> HIDE DEF x, y
<1>3. Min({x, y}) \in Int
  BY <1>1, MaxOfTwo
<1> QED BY <1>1, <1>2, <1>3, SlotFields DEF Ranks

Fit(s, c) == \A side \in Sides : Eligible(s, c.zones[side], c.tastes[side], c.start)
RankOf(s, c) == Rank(s, c.zones, c.tastes)
Take(best, s, c) == Better(best, s, c.zones, c.tastes, c.start)
Scanned(list, c) ==
  FoldLeft(LAMBDA best, s : Better(best, s, c.zones, c.tastes, c.start), NoSlot, list)
LEMMA TakeIs ==
  ASSUME NEW best, NEW s, NEW c
  PROVE  Take(best, s, c) = IF /\ Fit(s, c)
                               /\ best = NoSlot \/ Higher(RankOf(s, c), RankOf(best, c))
                            THEN s ELSE best
BY DEF Take, Better, Fit, RankOf

LEMMA ScanSteps ==
  ASSUME NEW list \in Seq(Proper), NEW c
  PROVE  \E h \in [0..Len(list) -> Slot] :
           /\ h[0] = NoSlot
           /\ \A n \in 1..Len(list) : h[n] = Take(h[n - 1], list[n], c)
           /\ Scanned(list, c) = h[Len(list)]
<1> DEFINE N == Len(list)
           step == [q \in Slot \X Proper |-> Take(q[1], q[2], c)]
           Folds(f) == f = [z \in SUBSET DOMAIN list |->
                              IF z = {} THEN NoSlot
                              ELSE Better(f[z \ {Max(z)}], list[Max(z)], c.zones, c.tastes, c.start)]
           it == CHOOSE f : f = [z \in SUBSET DOMAIN list |->
                              IF z = {} THEN NoSlot
                              ELSE Better(f[z \ {Max(z)}], list[Max(z)], c.zones, c.tastes, c.start)]
<1>1. N \in Nat /\ list \in [1..N -> Proper] /\ DOMAIN list = 1..N
  BY LenProperties
<1>2. step \in [Slot \X Proper -> Slot] /\ NoSlot \in Slot
  <2>1. \A t \in Slot, e \in Proper : Take(t, e, c) \in Slot
    BY TakeIs, ProperFields
  <2> QED BY <2>1 DEF NoSlot, Slot
<1>3. PICK g \in [SUBSET (1..N) -> Slot] : FoldsFrom(NoSlot, step, list, N, g)
  <2> HIDE DEF N, step
  <2> QED BY <1>1, <1>2, FoldExists
<1>4. \A t \in Slot, e \in Proper : step[<<t, e>>] = Take(t, e, c)
  OBVIOUS
<1>5. \A z \in SUBSET (1..N) : z # {} => list[Max(z)] \in Proper
  BY <1>1, MaxOfPositions
<1>6. Folds(g)
  <2>1. \A z \in SUBSET (1..N) :
          g[z] = IF z = {} THEN NoSlot ELSE Take(g[z \ {Max(z)}], list[Max(z)], c)
    <3>1. \A z \in SUBSET (1..N) : z \ {Max(z)} \in SUBSET (1..N)
      OBVIOUS
    <3> HIDE DEF N, step
    <3> QED BY <1>3, <1>4, <1>5, <3>1 DEF FoldsFrom
  <2> HIDE DEF N, step
  <2> QED BY <1>1, <2>1 DEF Take
<1>7. Folds(it)
  BY <1>6
<1>8. Scanned(list, c) = it[1..N]
  BY <1>1 DEF Scanned, FoldLeft, MapThenFoldSet
<1> HIDE DEF it
<1>9. FoldsWithin(Slot, NoSlot, step, list, N, it)
  <2>1. \A z \in SUBSET (1..N) :
          it[z] = IF z = {} THEN NoSlot ELSE Take(it[z \ {Max(z)}], list[Max(z)], c)
    BY <1>1, <1>7 DEF Take
  <2> HIDE DEF N, step, Folds
  <2> QED BY <1>4, <1>5, <2>1 DEF FoldsWithin
<1>10. Reaches(Slot, NoSlot, step, list, N, it[1..N])
  <2>1. /\ N \in Nat
        /\ list \in [1..N -> Proper]
        /\ NoSlot \in Slot
        /\ step \in [Slot \X Proper -> Slot]
        /\ FoldsWithin(Slot, NoSlot, step, list, N, it)
    BY <1>1, <1>2, <1>9
  <2> HIDE DEF N, step, Folds
  <2> QED BY <2>1, FoldPrefixes
<1>11. PICK h \in [0..N -> Slot] : Successive(NoSlot, step, list, N, h) /\ it[1..N] = h[N]
  BY <1>10 DEF Reaches
<1>12. \A n \in 1..N : h[n - 1] \in Slot /\ list[n] \in Proper
  BY <1>1
<1>13. \A n \in 1..N : h[n] = Take(h[n - 1], list[n], c)
  <2> HIDE DEF N, step, Folds
  <2> QED BY <1>4, <1>11, <1>12 DEF Successive
<1> HIDE DEF step, Folds
<1> QED BY <1>8, <1>11, <1>13 DEF Successive

\* What the scan holds after n candidates: the first of the best so far.
Leads(list, k, n, c) ==
  /\ Fit(list[k], c)
  /\ \A i \in 1..n : Fit(list[i], c) =>
       /\ ~Higher(RankOf(list[i], c), RankOf(list[k], c))
       /\ i < k => Higher(RankOf(list[k], c), RankOf(list[i], c))
Holding(x, list, n, c) ==
  \/ x = NoSlot /\ \A i \in 1..n : ~Fit(list[i], c)
  \/ \E k \in 1..n : x = list[k] /\ Leads(list, k, n, c)

LEMMA TakeHolds ==
  ASSUME NEW list \in Seq(Proper), NEW c, NEW n \in Nat, n + 1 <= Len(list), NEW x \in Slot,
         Holding(x, list, n, c)
  PROVE  Holding(Take(x, list[n + 1], c), list, n + 1, c)
<1> DEFINE s == list[n + 1]
           R(i) == RankOf(list[i], c)
<1>1. Len(list) \in Nat /\ \A i \in 1..Len(list) : list[i] \in Proper /\ R(i) \in Ranks
  BY LenProperties, ProperFields, RankType DEF RankOf
<1>2. n + 1 \in 1..Len(list) /\ (\A i : i \in 1..(n + 1) <=> i \in 1..n \/ i = n + 1)
      /\ (\A i \in 1..n : i \in 1..Len(list) /\ i < n + 1 /\ ~(n + 1 < i))
  BY <1>1
<1>3. \A i \in 1..Len(list) : list[i] # NoSlot
  BY <1>1, ProperFields DEF NoSlot
<1> HIDE DEF R
<1>4. CASE ~Fit(s, c)
  <2>1. Take(x, s, c) = x
    BY <1>4, TakeIs
  <2> QED BY <1>2, <1>4, <2>1 DEF Holding, Leads
<1>5. CASE Fit(s, c) /\ x = NoSlot
  <2>1. Take(x, s, c) = s
    BY <1>5, TakeIs
  <2>2. \A i \in 1..n : ~Fit(list[i], c)
    BY <1>2, <1>3, <1>5 DEF Holding
  <2>3. ~Higher(R(n + 1), R(n + 1))
    BY <1>1, <1>2, HigherIsOrder
  <2>4. Leads(list, n + 1, n + 1, c)
    BY <1>2, <1>5, <2>2, <2>3 DEF Leads, R
  <2> QED BY <1>2, <2>1, <2>4 DEF Holding
<1>6. CASE Fit(s, c) /\ x # NoSlot
  <2>1. PICK k \in 1..n : x = list[k] /\ Leads(list, k, n, c)
    BY <1>6 DEF Holding
  <2>2. k \in 1..Len(list) /\ k \in 1..(n + 1) /\ k < n + 1
    BY <1>2
  <2>3. CASE Higher(R(n + 1), R(k))
    <3>1. Take(x, s, c) = s
      BY <1>6, <2>1, <2>3, TakeIs DEF R
    <3>2. ASSUME NEW i \in 1..n, Fit(list[i], c)
          PROVE  Higher(R(n + 1), R(i)) /\ ~Higher(R(i), R(n + 1))
      <4>1. ~Higher(R(i), R(k))
        BY <2>1, <3>2 DEF Leads, R
      <4>2. R(i) \in Ranks /\ R(k) \in Ranks /\ R(n + 1) \in Ranks
        BY <1>1, <1>2, <2>2
      <4>3. Higher(R(n + 1), R(i))
        BY <2>3, <4>1, <4>2, HigherIsTransitive
      <4> QED BY <4>2, <4>3, HigherIsOrder
    <3>3. ~Higher(R(n + 1), R(n + 1))
      BY <1>1, <1>2, HigherIsOrder
    <3>4. Leads(list, n + 1, n + 1, c)
      BY <1>2, <1>6, <3>2, <3>3 DEF Leads, R
    <3> QED BY <1>2, <3>1, <3>4 DEF Holding
  <2>4. CASE ~Higher(R(n + 1), R(k))
    <3>1. Take(x, s, c) = x
      BY <1>6, <2>1, <2>4, TakeIs DEF R
    <3>2. ~(n + 1 < k)
      BY <2>2
    <3>3. Leads(list, k, n + 1, c)
      BY <1>2, <2>1, <2>4, <3>2 DEF Leads, R
    <3> QED BY <2>1, <2>2, <3>1, <3>3 DEF Holding
  <2> QED BY <2>3, <2>4
<1> QED BY <1>4, <1>5, <1>6

LEMMA ScanIs ==
  ASSUME NEW list \in Seq(Proper), NEW c
  PROVE  Holding(Scanned(list, c), list, Len(list), c)
<1> DEFINE N == Len(list)
<1>1. PICK h \in [0..N -> Slot] :
        /\ h[0] = NoSlot
        /\ \A n \in 1..N : h[n] = Take(h[n - 1], list[n], c)
        /\ Scanned(list, c) = h[N]
  BY ScanSteps
<1>2. N \in Nat
  BY LenProperties
<1> DEFINE S == {n \in Nat : n <= N => Holding(h[n], list, n, c)}
<1>3. 0 \in S
  <2>1. \A i \in 1..0 : FALSE
    OBVIOUS
  <2>2. Holding(h[0], list, 0, c)
    BY <1>1, <2>1 DEF Holding
  <2> QED BY <2>2
<1>4. ASSUME NEW n \in Nat, n \in S
      PROVE  n + 1 \in S
  <2> SUFFICES ASSUME n + 1 <= N PROVE Holding(h[n + 1], list, n + 1, c)
    OBVIOUS
  <2>1. n + 1 \in 1..N /\ (n + 1) - 1 = n /\ n \in 0..N
    OBVIOUS
  <2>2. Holding(h[n], list, n, c) /\ h[n] \in Slot
    BY <1>2, <1>4, <2>1
  <2> HIDE DEF S
  <2>3. h[n + 1] = Take(h[n], list[n + 1], c)
    BY <1>1, <2>1
  <2> QED BY <2>2, <2>3, TakeHolds
<1>5. N \in S
  <2> HIDE DEF S
  <2> QED BY <1>2, <1>3, <1>4, Induction
<1> QED BY <1>1, <1>2, <1>5

-----------------------------------------------------------------------------
LEMMA DivMod ==
  ASSUME NEW n \in Int
  PROVE  /\ n % 288 >= 108 => (n \div 288) * 288 + 108 <= n
         /\ n % 288 <= 216 => n <= (n \div 288) * 288 + 216
         /\ n \div 288 \in Int
OBVIOUS

LEMMA ClockIs ==
  ASSUME NEW t \in Int, NEW tz \in Int, NEW d, d = Date(t, tz)
  PROVE  /\ Clock(t, tz) >= WorkStart => d * Day + WorkStart - tz <= t
         /\ Clock(t, tz) <= WorkEnd => t <= d * Day + WorkEnd - tz
         /\ d \in Int
<1>1. PICK n \in Int : n = t + tz
  OBVIOUS
<1>2. d = n \div 288 /\ Clock(t, tz) = n % 288
  BY <1>1 DEF Date, Clock, Day
<1>3. /\ Clock(t, tz) >= 108 => d * 288 + 108 <= n
      /\ Clock(t, tz) <= 216 => n <= d * 288 + 216
      /\ d \in Int
  BY <1>2, DivMod
<1>4. /\ d * 288 + 108 <= n => d * 288 + 108 - tz <= t
      /\ n <= d * 288 + 216 => t <= d * 288 + 216 - tz
  BY <1>1, <1>3
<1> QED BY <1>3, <1>4 DEF WorkStart, WorkEnd, Day

\* What a side could take lies within the working hours of a later day.
LEMMA EligibleWorks ==
  ASSUME NEW s \in Proper, NEW tz \in Int, NEW today \in Int, NEW p, Eligible(s, tz, p, today)
  PROVE  s.start > today /\ \E d \in Int : InHours(s, d, tz)
<1>1. s.start \in Int /\ s.end \in Int
  BY ProperFields
<1>2. s.start > today
  BY <1>1, LaterDate DEF Eligible
<1>3. PICK d : d = Date(s.start, tz)
  OBVIOUS
<1>4. /\ (d % 7) + 1 <= 5 /\ d = Date(s.end, tz)
      /\ Clock(s.start, tz) >= WorkStart /\ Clock(s.end, tz) <= WorkEnd
  BY <1>3 DEF Eligible, Weekday
<1>5. /\ d \in Int
      /\ d * Day + WorkStart - tz <= s.start /\ s.end <= d * Day + WorkEnd - tz
  BY <1>1, <1>3, <1>4, ClockIs
<1> QED BY <1>2, <1>4, <1>5 DEF InHours

\* The inputs of a proposed time.
LEMMA ConnectedTypes ==
  ASSUME NEW c \in Connected
  PROVE  /\ c.start \in Int /\ Window(c.start) \in Slot
         /\ Window(c.start).start = c.start
         /\ \A side \in Sides : /\ c.zones[side] \in Int
                                /\ c.busy[side] \in Seq(Proper)
                                /\ ToSet(c.busy[side]) \subseteq Proper
                                /\ c.tastes[side].duration \in Lengths
<1>1. c.start \in Starts /\ c.zones \in Zones /\ c.busy \in [Sides -> BusyLists]
      /\ c.tastes \in [Sides -> Tastes]
  BY DEF Connected
<1>2. c.start \in Int /\ Days \in Nat
  BY <1>1, SlotAssumption
<1>3. Window(c.start) \in Slot /\ Window(c.start).start = c.start
  BY <1>2 DEF Window, Slot, Day
<1>4. ASSUME NEW side \in Sides
      PROVE  /\ c.zones[side] \in Int
             /\ c.busy[side] \in Seq(Proper)
             /\ c.tastes[side].duration \in Lengths
  <2>1. c.zones[side] \in Int
    BY <1>1, SlotAssumption DEF Sides
  <2>2. c.tastes[side].duration \in Lengths
    BY <1>1, SlotAssumption DEF Lengths
  <2>3. /\ c.busy[side] \in Seq(Slot)
        /\ \A i \in 1..Len(c.busy[side]) : c.busy[side][i].start < c.busy[side][i].end
    BY <1>1, SlotAssumption
  <2> DEFINE b == c.busy[side]
  <2> HIDE DEF b
  <2>4. b \in Seq(Slot) /\ \A i \in 1..Len(b) : b[i].start < b[i].end
    BY <2>3 DEF b
  <2>5. Len(b) \in Nat /\ b \in [1..Len(b) -> Proper]
    BY <2>4, LenProperties DEF Proper
  <2>6. b \in Seq(Proper)
    BY <2>5
  <2> QED BY <2>1, <2>2, <2>6 DEF b
<1> QED BY <1>2, <1>3, <1>4, ElementsAre

\* The free time of a side, and the slots that are in it.
FreeOf(c, side) == WorkingSlots(Window(c.start), c.zones[side], c.busy[side])
LEMMA FreeOfIs ==
  ASSUME NEW c \in Connected, NEW side \in Sides
  PROVE  FreeTime(FreeOf(c, side), Window(c.start), c.zones[side], ToSet(c.busy[side]))
BY ConnectedTypes, FreeTimeIs DEF FreeOf

LEMMA FreeSlots ==
  ASSUME NEW c \in Connected, NEW side \in Sides, NEW s \in Proper
  PROVE  /\ InOneOf(s, ToSet(FreeOf(c, side))) =>
              Inside(s, Window(c.start)) /\ ApartFrom(s, ToSet(c.busy[side]))
         /\ /\ Eligible(s, c.zones[side], c.tastes[side], c.start)
            /\ s.end <= Window(c.start).end
            /\ ApartFrom(s, ToSet(c.busy[side]))
            => InOneOf(s, ToSet(FreeOf(c, side)))
<1> DEFINE w == Window(c.start)
           B == ToSet(c.busy[side])
           list == FreeOf(c, side)
<1>1. /\ c.start \in Int /\ w \in Slot /\ w.start = c.start /\ w.start \in Int /\ w.end \in Int
      /\ c.zones[side] \in Int /\ B \subseteq Proper
  BY ConnectedTypes, SlotFields
<1>2. FreeTime(list, w, c.zones[side], B)
  BY FreeOfIs
<1> HIDE DEF w, B, list
<1>3. ASSUME InOneOf(s, ToSet(list))
      PROVE  Inside(s, w) /\ ApartFrom(s, B)
  <2>1. PICK x \in ToSet(list) : Inside(s, x)
    BY <1>3 DEF InOneOf
  <2>2. x \in Proper /\ Works(x, w, c.zones[side], B)
    BY <1>2, ElementsAre DEF FreeTime
  <2>3. ApartFrom(s, B)
    BY <1>1, <2>1, <2>2, InsideApart DEF Works, ApartFrom
  <2>4. Inside(s, w)
    BY <1>1, <2>1, <2>2, ProperFields DEF Works, Inside
  <2> QED BY <2>3, <2>4
<1>4. ASSUME Eligible(s, c.zones[side], c.tastes[side], c.start), s.end <= w.end,
             ApartFrom(s, B)
      PROVE  InOneOf(s, ToSet(list))
  <2>1. s.start > c.start /\ \E d \in Int : InHours(s, d, c.zones[side])
    BY <1>1, <1>4, EligibleWorks
  <2>2. Inside(s, w)
    BY <1>1, <1>4, <2>1, ProperFields DEF Inside
  <2>3. Works(s, w, c.zones[side], B)
    BY <1>4, <2>1, <2>2 DEF Works
  <2> QED BY <1>2, <2>3 DEF FreeTime, InOneOf
<1> QED BY <1>3, <1>4 DEF w, B, list

Candidates(c) ==
  Offered(FreeOf(c, 1), FreeOf(c, 2), Durations(c.tastes[1], c.tastes[2]))
WantedLengths(c) == {6, c.tastes[1].duration, c.tastes[2].duration}
LEMMA CandidatesAre ==
  ASSUME NEW c \in Connected
  PROVE  /\ Offers(Candidates(c), WantedLengths(c), ToSet(FreeOf(c, 1)), ToSet(FreeOf(c, 2)))
         /\ WantedLengths(c) \subseteq Lengths
<1>1. 1 \in Sides /\ 2 \in Sides
  BY DEF Sides
<1>2. /\ FreeOf(c, 1) \in Seq(Proper) /\ Ordered(FreeOf(c, 1), After)
      /\ FreeOf(c, 2) \in Seq(Proper) /\ Ordered(FreeOf(c, 2), After)
  BY <1>1, FreeOfIs DEF FreeTime
<1>3. c.tastes[1].duration \in Lengths /\ c.tastes[2].duration \in Lengths
  BY <1>1, ConnectedTypes
<1>4. Ascending(Durations(c.tastes[1], c.tastes[2]), WantedLengths(c))
  BY <1>3, DurationsAre DEF WantedLengths
<1>5. WantedLengths(c) \subseteq Lengths
  BY <1>3 DEF WantedLengths, Lengths
<1> QED BY <1>2, <1>4, <1>5, OfferedAre DEF Candidates

LEMMA GoodAreCandidates ==
  ASSUME NEW c \in Connected
  PROVE  \A s : s \in GoodSlots(c) <=> s \in ToSet(Candidates(c)) /\ Fit(s, c)
<1> DEFINE D == WantedLengths(c)
           w == Window(c.start)
           Q == (c.start \div Grid)..(w.end \div Grid)
<1>1. /\ c.start \in Int /\ w \in Slot /\ w.start = c.start /\ w.end \in Int
  BY ConnectedTypes, SlotFields
<1>2. /\ D \subseteq Lengths
      /\ \A s : s \in ToSet(Candidates(c)) <=>
           /\ s \in Proper /\ OnGrid(s, D)
           /\ \A side \in Sides : InOneOf(s, ToSet(FreeOf(c, side)))
  BY CandidatesAre DEF Offers, Sides
<1>3. {6} \union {c.tastes[side].duration : side \in Sides} = D
  BY DEF WantedLengths, Sides
<1>4. \A s : Good(s, c) <=> /\ s.end <= w.end /\ Fit(s, c)
                            /\ \A side \in Sides : ApartFrom(s, ToSet(c.busy[side]))
  BY DEF Good, Fit, ApartFrom
<1>5. \A s : s \in GoodSlots(c) <=> (\E q \in Q, d \in D : s = Lasting(q * Grid, d)) /\ Good(s, c)
  <2> DEFINE E == {6} \union {c.tastes[side].duration : side \in Sides}
             T == {Lasting(q * Grid, d) : q \in Q, d \in E}
  <2>1. GoodSlots(c) = {s \in T : Good(s, c)}
    BY DEF GoodSlots
  <2>2. E = D
    BY <1>3
  <2> HIDE DEF Q, D, E, w
  <2>3. \A s : s \in T <=> \E q \in Q, d \in D : s = Lasting(q * Grid, d)
    BY <2>2
  <2> HIDE DEF T
  <2> QED BY <2>1, <2>3
<1> HIDE DEF D, w
<1>6. \A q \in Int : q \in Q <=> c.start < q * 3 + 3 /\ q * 3 <= w.end
  BY <1>1 DEF Grid
<1>7. Q \subseteq Int
  BY <1>1 DEF Grid
<1> HIDE DEF Q
<1>8. ASSUME NEW s \in GoodSlots(c)
      PROVE  s \in ToSet(Candidates(c)) /\ Fit(s, c)
  <2>1. PICK q \in Q, d \in D : s = Lasting(q * Grid, d)
    BY <1>5
  <2>2. s \in Proper /\ OnGrid(s, D)
    <3>1. q \in Int /\ q * Grid \in Int /\ d \in Lengths
      BY <1>2, <1>7 DEF Grid
    <3> QED BY <2>1, <3>1, LastingIs DEF OnGrid
  <2>3. s.end <= w.end /\ Fit(s, c) /\ \A side \in Sides : ApartFrom(s, ToSet(c.busy[side]))
    BY <1>4, <1>5
  <2>4. \A side \in Sides : InOneOf(s, ToSet(FreeOf(c, side)))
    BY <2>2, <2>3, FreeSlots DEF Fit, w
  <2> QED BY <1>2, <2>2, <2>3, <2>4
<1>9. ASSUME NEW s \in ToSet(Candidates(c)), Fit(s, c)
      PROVE  s \in GoodSlots(c)
  <2>1. s \in Proper /\ OnGrid(s, D) /\ \A side \in Sides : InOneOf(s, ToSet(FreeOf(c, side)))
    BY <1>2
  <2>2. /\ \A side \in Sides : ApartFrom(s, ToSet(c.busy[side]))
        /\ Inside(s, w)
    BY <2>1, FreeSlots DEF w, Sides
  <2>3. PICK q \in Int, d \in D : s = Lasting(q * Grid, d)
    BY <2>1 DEF OnGrid
  <2>4. s.start = q * 3 /\ s.end = q * 3 + d /\ d > 0 /\ d \in Int
    BY <1>2, <2>3 DEF Lasting, Grid, Lengths
  <2>5. q \in Q
    BY <1>1, <1>6, <2>2, <2>4 DEF Inside
  <2>6. Good(s, c)
    BY <1>4, <1>9, <2>2 DEF Inside
  <2> QED BY <1>5, <2>3, <2>5, <2>6
<1> QED BY <1>8, <1>9

\* The scan of the candidates returns the best of the good slots.
LEMMA BestIsProposed ==
  ASSUME NEW c \in Connected
  PROVE  IsBest(Select(FreeOf(c, 1), FreeOf(c, 2), c.zones, c.tastes, c.start), c)
<1> DEFINE list == Candidates(c)
           x == Scanned(list, c)
           N == Len(list)
<1>1. Select(FreeOf(c, 1), FreeOf(c, 2), c.zones, c.tastes, c.start) = x
  BY DEF Select, Scanned, Candidates
<1>2. list \in Seq(Proper) /\ Ordered(list, ShorterFirst)
  BY CandidatesAre DEF Offers
<1>3. \A s : s \in GoodSlots(c) <=> s \in ToSet(list) /\ Fit(s, c)
  BY GoodAreCandidates
<1> HIDE DEF x, list
<1>4. Holding(x, list, N, c)
  BY <1>2, ScanIs DEF x
<1>5. \A i \in 1..N : list[i] \in Proper /\ list[i] \in ToSet(list)
  BY <1>2, LenProperties, ElementsAre
<1>6. CASE GoodSlots(c) = {}
  <2>1. \A i \in 1..N : ~Fit(list[i], c)
    BY <1>3, <1>5, <1>6
  <2>2. x = NoSlot
    BY <1>4, <2>1 DEF Holding, Leads
  <2> QED BY <1>1, <1>6, <2>2 DEF IsBest
<1>7. CASE GoodSlots(c) # {}
  <2>1. PICK s \in ToSet(list) : Fit(s, c)
    BY <1>3, <1>7
  <2>2. \E i \in 1..N : Fit(list[i], c)
    BY <1>2, <2>1, ElementsAre
  <2>3. PICK k \in 1..N : x = list[k] /\ Leads(list, k, N, c)
    BY <1>4, <2>2 DEF Holding
  <2>4. x \in GoodSlots(c) /\ x \in Proper
    BY <1>3, <1>5, <2>3 DEF Leads
  <2>5. ASSUME NEW t \in GoodSlots(c), t # x
        PROVE  \/ Higher(RankOf(x, c), RankOf(t, c))
               \/ RankOf(x, c) = RankOf(t, c) /\ Length(x) < Length(t)
    <3>1. PICK i \in 1..N : t = list[i]
      BY <1>2, <1>3, ElementsAre
    <3>2. Fit(t, c) /\ t \in Proper /\ t \in Slot /\ x \in Slot
      BY <1>3, <1>5, <2>4, <3>1, ProperFields
    <3>3. /\ ~Higher(RankOf(t, c), RankOf(x, c))
          /\ i < k => Higher(RankOf(x, c), RankOf(t, c))
      BY <2>3, <3>1, <3>2 DEF Leads
    <3>4. /\ RankOf(t, c) \in Ranks /\ RankOf(t, c)[3] = -t.start
          /\ RankOf(x, c) \in Ranks /\ RankOf(x, c)[3] = -x.start
      BY <3>2, RankType DEF RankOf
    <3>5. CASE i < k
      BY <3>3, <3>5
    <3>6. CASE k < i
      <4>1. <<x, t>> \in ShorterFirst
        BY <1>2, <2>3, <3>1, <3>6 DEF Ordered
      <4>2. RankOf(x, c) = RankOf(t, c) \/ Higher(RankOf(x, c), RankOf(t, c))
        BY <3>3, <3>4, HigherIsOrder
      <4>3. ASSUME RankOf(x, c) = RankOf(t, c)
            PROVE  Length(x) < Length(t)
        <5>1. x.start \in Int /\ x.end \in Int /\ t.start \in Int /\ t.end \in Int
          BY <3>2, SlotFields
        <5>2. -x.start = -t.start
          BY <3>4, <4>3
        <5>3. x.start = t.start
          BY <5>1, <5>2
        <5>4. x.end <= t.end
          BY <4>1, <5>3 DEF ShorterFirst
        <5>5. x.end # t.end
          BY <2>5, <3>2, <5>3 DEF Slot
        <5> QED BY <5>1, <5>3, <5>4, <5>5 DEF Length
      <4> QED BY <4>2, <4>3
    <3>7. i # k
      BY <2>3, <2>5, <3>1
    <3> QED BY <3>5, <3>6, <3>7
  <2> QED BY <1>1, <1>7, <2>4, <2>5 DEF IsBest, RankOf
<1> QED BY <1>6, <1>7

-----------------------------------------------------------------------------
\* What is learned of a case's history is borne out by it.
LEMMA NumberedIs ==
  ASSUME NEW c \in History
  PROVE  /\ Numbered(c.events) \in Seq(Observation)
         /\ DOMAIN c.events = 1..Len(Numbered(c.events))
         /\ \A i \in DOMAIN c.events :
              /\ Numbered(c.events)[i].id = i
              /\ Numbered(c.events)[i].past = c.events[i].past
              /\ \A claim : Shows(Numbered(c.events)[i], claim) <=> Shows(c.events[i], claim)
<1> DEFINE numbered == Numbered(c.events)
<1>1. PICK n \in 0..MaxHistory : c.events \in [1..n -> Kinds]
  BY DEF History, Observed
<1>2. n \in Nat /\ DOMAIN c.events = 1..n
  BY <1>1, SlotAssumption
<1>3. ASSUME NEW i \in 1..n
      PROVE  /\ numbered[i] \in Observation
             /\ numbered[i].id = i
             /\ numbered[i].past = c.events[i].past
             /\ numbered[i].peer = c.events[i].peer
             /\ numbered[i].organized = c.events[i].organized
             /\ numbered[i].shows = c.events[i].shows
  <2>1. PICK e : e = c.events[i]
    OBVIOUS
  <2>2. e \in [id : Nat, series : Nat, past : BOOLEAN, peer : BOOLEAN,
               organized : BOOLEAN, shows : SUBSET Claims]
    BY <1>1, <2>1, SlotAssumption
  <2>3. numbered[i] = [e EXCEPT !.id = i]
    BY <1>2, <2>1 DEF Numbered
  <2> HIDE DEF numbered
  <2>4. i \in Nat
    OBVIOUS
  <2> QED BY <2>1, <2>2, <2>3, <2>4 DEF Observation
<1>4. numbered = [i \in 1..n |-> numbered[i]]
  BY <1>2 DEF Numbered
<1> HIDE DEF numbered
<1>5. numbered \in Seq(Observation) /\ Len(numbered) = n
  BY <1>2, <1>3, <1>4
<1>6. \A i \in 1..n : \A claim : Shows(numbered[i], claim) <=> Shows(c.events[i], claim)
  BY <1>3 DEF Shows
<1> QED BY <1>2, <1>3, <1>5, <1>6 DEF numbered

LEMMA LearnedIsBorneOut ==
  ASSUME NEW c \in History, NEW claim \in Learned(Numbered(c.events), c.named, c.claims)
  PROVE  BorneOut(claim, c)
<1> DEFINE numbered == Numbered(c.events)
<1>1. /\ numbered \in Seq(Observation) /\ DOMAIN c.events = 1..Len(numbered)
      /\ \A i \in DOMAIN c.events : /\ numbered[i].id = i
                                    /\ numbered[i].past = c.events[i].past
                                    /\ Shows(numbered[i], claim) <=> Shows(c.events[i], claim)
  BY NumberedIs
<1> HIDE DEF numbered
<1>2. PICK x : Bearing(numbered, c.named, claim, x)
  BY <1>1, LearnedIs DEF numbered
<1> DEFINE e == [i \in 1..3 |-> x[i].id]
<1>3. ASSUME NEW i \in 1..3
      PROVE  x[i].id \in DOMAIN c.events /\ numbered[x[i].id] = x[i]
  <2>1. x[i] \in ToSet(numbered)
    BY <1>2 DEF Bearing
  <2>2. PICK k \in 1..Len(numbered) : numbered[k] = x[i]
    BY <1>1, <2>1, ElementsAre
  <2> QED BY <1>1, <2>2
<1>4. e \in [1..3 -> DOMAIN c.events] /\ \A i \in 1..3 : e[i] = x[i].id
  BY <1>3
<1> HIDE DEF e
<1>5. \A i \in 1..3 : c.events[e[i]].past /\ Shows(c.events[e[i]], claim) /\ e[i] \in c.named
  BY <1>1, <1>2, <1>3, <1>4 DEF Bearing
<1>6. \A i, j \in 1..3 : i # j => Name(numbered[e[i]]) # Name(numbered[e[j]])
  BY <1>2, <1>3, <1>4 DEF Bearing
<1> QED BY <1>4, <1>5, <1>6 DEF BorneOut, numbered
-----------------------------------------------------------------------------
(* The two invariants, with what the answers are computed from: the inputs  *)
(* are never changed, and free time is that of the inputs.                  *)
CaseOK == case \in Connected \/ case \in Mock \/ case \in Page \/ case \in History
FreeOK ==
  free # Unknown =>
    case.kind = "connected" /\ free = [side \in Sides |-> FreeOf(case, side)]
IInv == CaseOK /\ FreeOK /\ ChoiceIsRight /\ LearnedIsEvidenced

LEMMA KindOf ==
  ASSUME CaseOK
  PROVE  /\ case.kind = "connected" => case \in Connected
         /\ case.kind = "mock" => case \in Mock
         /\ case.kind = "page" => case \in Page
         /\ case.kind = "history" => case \in History
BY DEF CaseOK, Connected, Mock, Page, History

LEMMA FoundIs ==
  ASSUME NEW x, answer' = Found(x)
  PROVE  Answer' = x /\ answer' # Unknown
BY DEF Answer, Found, Unknown

LEMMA InitIInv == Init => IInv
BY DEF Init, IInv, CaseOK, FreeOK, ChoiceIsRight, LearnedIsEvidenced, Answered

LEMMA StepIInv == IInv /\ [Next]_vars => IInv'
<1> SUFFICES ASSUME IInv, [Next]_vars PROVE IInv'
  OBVIOUS
<1> USE DEF IInv
<1>1. CASE ReadCalendars
  <2>1. case' = case /\ answer' = answer /\ case.kind = "connected"
        /\ free' = [side \in Sides |-> FreeOf(case, side)]
    BY <1>1 DEF ReadCalendars, FreeOf
  <2> QED BY <2>1 DEF CaseOK, FreeOK, ChoiceIsRight, LearnedIsEvidenced, Answered, Answer
<1>2. CASE Propose
  <2>1. case' = case /\ free' = free /\ case.kind = "connected" /\ free # Unknown
        /\ answer' = Found(Select(free[1], free[2], case.zones, case.tastes, case.start))
    BY <1>2 DEF Propose
  <2>2. case \in Connected /\ free[1] = FreeOf(case, 1) /\ free[2] = FreeOf(case, 2)
    BY <2>1, KindOf DEF FreeOK, Sides
  <2>3. IsBest(Answer', case)
    BY <2>1, <2>2, FoundIs, BestIsProposed
  <2> QED BY <2>1, <2>3 DEF CaseOK, FreeOK, ChoiceIsRight, LearnedIsEvidenced, Answered
<1>3. CASE FindCommonSlot
  <2>1. case' = case /\ free' = free /\ case.kind = "mock"
        /\ answer' = Found(FirstCommonSlot(case.left, case.right, case.minutes))
    BY <1>3 DEF FindCommonSlot
  <2>2. IsFirst(Answer', Common(case))
    BY <2>1, KindOf, FoundIs, CommonSlotIsFirst
  <2> QED BY <2>1, <2>2 DEF CaseOK, FreeOK, ChoiceIsRight, LearnedIsEvidenced, Answered
<1>4. CASE FindAppointment
  <2>1. case' = case /\ free' = free /\ case.kind = "page"
    BY <1>4 DEF FindAppointment
  <2>2. PICK coverage \in Sorted(case.visitor) :
          answer' = Found(FirstHostSlot(FromTomorrow(case.host, case.zones[1], case.start),
                                        coverage, Window(case.start)))
    BY <1>4 DEF FindAppointment
  <2>3. IsFirst(Answer', Appointments(case))
    BY <2>1, <2>2, KindOf, FoundIs, AppointmentIsFirst
  <2> QED BY <2>1, <2>3 DEF CaseOK, FreeOK, ChoiceIsRight, LearnedIsEvidenced, Answered
<1>5. CASE Learn
  <2>1. case' = case /\ free' = free /\ case.kind = "history"
        /\ answer' = Found(Learned(Numbered(case.events), case.named, case.claims))
    BY <1>5 DEF Learn
  <2>2. Answer' = Learned(Numbered(case.events), case.named, case.claims)
    BY <2>1, FoundIs
  <2>3. \A claim \in Answer' : BorneOut(claim, case)
    BY <2>1, <2>2, KindOf, LearnedIsBorneOut
  <2> QED BY <2>1, <2>3 DEF CaseOK, FreeOK, ChoiceIsRight, LearnedIsEvidenced, Answered
<1>6. CASE UNCHANGED vars
  BY <1>6 DEF vars, CaseOK, FreeOK, ChoiceIsRight, LearnedIsEvidenced, Answered, Answer
<1> QED BY <1>1, <1>2, <1>3, <1>4, <1>5, <1>6 DEF Next

LEMMA Invariance == Spec => []IInv
BY InitIInv, StepIInv, PTL DEF Spec

THEOREM RightChoice == Spec => []ChoiceIsRight
<1>1. IInv => ChoiceIsRight
  BY DEF IInv
<1> QED BY <1>1, Invariance, PTL

THEOREM EvidencedLearning == Spec => []LearnedIsEvidenced
<1>1. IInv => LearnedIsEvidenced
  BY DEF IInv
<1> QED BY <1>1, Invariance, PTL
=============================================================================
