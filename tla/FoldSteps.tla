------------------------------ MODULE FoldSteps ------------------------------
(***************************************************************************)
(* Induction over the naturals and over the steps of a fold, for the       *)
(* operator `Op' a module is instantiated with: Op(given, acc, x) is what  *)
(* the fold makes of `acc' when it comes to `x', `given' stands for all    *)
(* that stays the same from step to step.                                  *)
(***************************************************************************)
EXTENDS SequencesExt, FiniteSetTheorems, WellFoundedInduction, TLAPS

CONSTANT Op(_, _, _)

\* The accumulators of a fold, one before each element and one after the last.
Trace(given, base, seq, n, acc) ==
  /\ DOMAIN acc = 0 .. n
  /\ acc[0] = base
  /\ \A i \in 1 .. n : acc[i] = Op(given, acc[i - 1], seq[i])

Folded(given, base, seq) == FoldLeft(LAMBDA acc, x : Op(given, acc, x), base, seq)

\* The element a fold of a set comes to last, and that fold.
Pick(S) == CHOOSE x \in S : TRUE
FoldedSet(given, base, S) ==
  MapThenFoldSet(LAMBDA x, acc : Op(given, acc, x), base, LAMBDA x : x, LAMBDA s : Pick(s), S)

-----------------------------------------------------------------------------
(* Induction *)

\* A set that holds 0 and with each number the next holds every number.
LEMMA SetInduction ==
  ASSUME NEW S, 0 \in S, \A n \in Nat : n \in S => n + 1 \in S
  PROVE  \A n \in Nat : n \in S
<1> DEFINE T == Nat \ S
<1>1. SUFFICES ASSUME T # {} PROVE FALSE
  OBVIOUS
<1>2. PICK least \in T : \A y \in T : ~ (<<y, least>> \in OpToRel(<, Nat))
  BY <1>1, NatLessThanWellFounded, WFMin
<1>3. least # 0 /\ least \in Nat
  OBVIOUS
<1>4. least - 1 \in Nat /\ least - 1 < least
  BY <1>3
<1>5. least - 1 \notin T
  BY <1>2, <1>4, <1>3 DEF OpToRel
<1> QED
  BY <1>4, <1>5, <1>3

\* The same for the numbers up to a bound.
LEMMA BoundedInduction ==
  ASSUME NEW n \in Nat, NEW S, 0 \in S, \A i \in 1 .. n : i - 1 \in S => i \in S
  PROVE  \A i \in 0 .. n : i \in S
<1> DEFINE I == S \cup {i \in Nat : i > n}
<1>1. 0 \in I
  OBVIOUS
<1>2. \A i \in Nat : i \in I => i + 1 \in I
  <2> SUFFICES ASSUME NEW i \in Nat, i \in S, i + 1 <= n PROVE i + 1 \in S
    OBVIOUS
  <2>1. i + 1 \in 1 .. n /\ (i + 1) - 1 = i
    OBVIOUS
  <2> QED
    BY <2>1
<1> HIDE DEF I
<1>3. \A i \in Nat : i \in I
  BY <1>1, <1>2, SetInduction
<1> QED
  BY <1>3 DEF I

-----------------------------------------------------------------------------
(* The fold of a sequence *)

\* The greatest of a set is greater than all others.
LEMMA MaxIsGreatest ==
  ASSUME NEW S \in SUBSET Int, NEW m \in S, \A y \in S : m >= y
  PROVE  Max(S) = m
<1>1. \A x \in S : (\A y \in S : x >= y) => x = m
  OBVIOUS
<1>2. \E x \in S : \A y \in S : x >= y
  OBVIOUS
<1> QED
  BY <1>1, <1>2 DEF Max

\* Folding a sequence from the left goes through the accumulators of a trace.
LEMMA FoldTrace ==
  ASSUME NEW given, NEW base, NEW seq, NEW n \in Nat, DOMAIN seq = 1 .. n
  PROVE  \E acc : Trace(given, base, seq, n, acc) /\ Folded(given, base, seq) = acc[n]
<1> DEFINE Solves(g, m) ==
             g = [s \in SUBSET (1 .. m) |->
                    IF s = {} THEN base ELSE Op(given, g[s \ {Max(s)}], seq[Max(s)])]
           I == {m \in Nat : \E g : Solves(g, m)}
<1>1. 0 \in I
  <2> DEFINE g == [s \in SUBSET (1 .. 0) |-> base]
  <2>1. Solves(g, 0)
    OBVIOUS
  <2> QED
    BY <2>1
<1>2. ASSUME NEW m \in Nat, NEW s \in SUBSET (1 .. m + 1), m + 1 \in s
      PROVE  Max(s) = m + 1
  <2>1. s \in SUBSET Int /\ \A y \in s : m + 1 >= y
    OBVIOUS
  <2> QED
    BY <1>2, <2>1, MaxIsGreatest
<1>3. \A m \in Nat : m \in I => m + 1 \in I
  <2> SUFFICES ASSUME NEW m \in Nat, NEW g, Solves(g, m) PROVE \E h : Solves(h, m + 1)
    <3> HIDE DEF Solves
    <3> QED
      OBVIOUS
  <2> DEFINE h == [s \in SUBSET (1 .. m + 1) |->
                     IF m + 1 \in s THEN Op(given, g[s \ {m + 1}], seq[m + 1]) ELSE g[s]]
  <2>1. ASSUME NEW s \in SUBSET (1 .. m + 1)
        PROVE  h[s] = IF s = {} THEN base ELSE Op(given, h[s \ {Max(s)}], seq[Max(s)])
    <3>1. CASE m + 1 \in s
      <4>1. Max(s) = m + 1 /\ s # {}
        BY <1>2, <3>1
      <4>2. s \ {m + 1} \in SUBSET (1 .. m + 1) /\ m + 1 \notin s \ {m + 1}
        OBVIOUS
      <4>3. h[s \ {m + 1}] = g[s \ {m + 1}]
        BY <4>2
      <4> QED
        BY <3>1, <4>1, <4>3
    <3>2. CASE m + 1 \notin s
      <4>1. s \in SUBSET (1 .. m)
        BY <3>2
      <4>2. g[s] = IF s = {} THEN base ELSE Op(given, g[s \ {Max(s)}], seq[Max(s)])
        BY <4>1
      <4>3. s \ {Max(s)} \in SUBSET (1 .. m + 1) /\ m + 1 \notin s \ {Max(s)}
        BY <3>2
      <4>4. h[s \ {Max(s)}] = g[s \ {Max(s)}] /\ h[s] = g[s]
        BY <4>3, <3>2
      <4> QED
        BY <4>2, <4>4
    <3> QED
      BY <3>1, <3>2
  <2>2. Solves(h, m + 1)
    BY <2>1
  <2> QED
    BY <2>2
<1>4. \E g : Solves(g, n)
  <2> HIDE DEF I
  <2>1. \A m \in Nat : m \in I
    BY <1>1, <1>3, SetInduction
  <2> QED
    BY <2>1 DEF I
<1> DEFINE iter == CHOOSE g : Solves(g, n)
<1>5. Solves(iter, n)
  <2> HIDE DEF Solves
  <2> QED
    BY <1>4
<1>6. Folded(given, base, seq) = iter[1 .. n]
  BY DEF Folded, FoldLeft, MapThenFoldSet
<1> HIDE DEF iter
<1> DEFINE acc == [k \in 0 .. n |-> iter[1 .. k]]
<1>7. acc[0] = base
  BY <1>5
<1>8. ASSUME NEW i \in 1 .. n
      PROVE  acc[i] = Op(given, acc[i - 1], seq[i])
  <2> HIDE DEF acc
  <2>1. Max(1 .. i) = i
    <3>1. 1 .. i \in SUBSET Int /\ i \in 1 .. i /\ \A y \in 1 .. i : i >= y
      OBVIOUS
    <3> QED
      BY <3>1, MaxIsGreatest
  <2>2. (1 .. i) \ {i} = 1 .. i - 1
    OBVIOUS
  <2>3. 1 .. i \in SUBSET (1 .. n) /\ 1 .. i # {}
    OBVIOUS
  <2>4. iter[1 .. i] = Op(given, iter[1 .. i - 1], seq[i])
    BY <1>5, <2>1, <2>2, <2>3
  <2>5. i \in 0 .. n /\ i - 1 \in 0 .. n
    OBVIOUS
  <2> QED
    BY <2>4, <2>5 DEF acc
<1>9. Folded(given, base, seq) = acc[n]
  BY <1>6
<1>10. DOMAIN acc = 0 .. n
  OBVIOUS
<1> HIDE DEF acc
<1> QED
  BY <1>7, <1>8, <1>9, <1>10 DEF Trace

\* A fold has one trace.
LEMMA TraceIsUnique ==
  ASSUME NEW given, NEW base, NEW seq, NEW n \in Nat, NEW a, NEW b,
         Trace(given, base, seq, n, a), Trace(given, base, seq, n, b)
  PROVE  \A i \in 0 .. n : a[i] = b[i]
<1> DEFINE S == {i \in 0 .. n : a[i] = b[i]}
<1>1. 0 \in S
  BY DEF Trace
<1>2. \A i \in 1 .. n : i - 1 \in S => i \in S
  BY DEF Trace
<1> HIDE DEF S
<1>3. \A i \in 0 .. n : i \in S
  BY <1>1, <1>2, BoundedInduction
<1> QED
  BY <1>3 DEF S

\* The same for the folds: sequences whose elements act alike fold alike.
LEMMA FoldAlike ==
  ASSUME NEW given, NEW base, NEW n \in Nat, NEW s, NEW t,
         DOMAIN s = 1 .. n, DOMAIN t = 1 .. n,
         \A i \in 1 .. n : \A acc : Op(given, acc, s[i]) = Op(given, acc, t[i])
  PROVE  Folded(given, base, s) = Folded(given, base, t)
<1>1. PICK a : Trace(given, base, s, n, a) /\ Folded(given, base, s) = a[n]
  BY FoldTrace
<1>2. PICK b : Trace(given, base, t, n, b) /\ Folded(given, base, t) = b[n]
  BY FoldTrace
<1>3. Trace(given, base, t, n, a)
  BY <1>1 DEF Trace
<1>4. a[n] = b[n]
  BY <1>2, <1>3, TraceIsUnique
<1> QED
  BY <1>1, <1>2, <1>4

\* Folding nothing, and folding one element.
LEMMA FoldShort ==
  ASSUME NEW given, NEW base, NEW x
  PROVE  /\ Folded(given, base, <<>>) = base
         /\ Folded(given, base, <<x>>) = Op(given, base, x)
<1> DEFINE none == <<>>
           one == <<x>>
           n == 1
<1>0. DOMAIN none = 1 .. 0 /\ DOMAIN one = 1 .. n /\ one[1] = x /\ n \in Nat /\ n = 1
  OBVIOUS
<1> HIDE DEF none, one, n
<1>1. PICK a : Trace(given, base, none, 0, a) /\ Folded(given, base, none) = a[0]
  BY <1>0, FoldTrace
<1>2. PICK b : Trace(given, base, one, n, b) /\ Folded(given, base, one) = b[n]
  BY <1>0, FoldTrace
<1>3. b[n] = Op(given, b[0], one[1])
  <2>1. n \in 1 .. n /\ n - 1 = 0
    BY <1>0
  <2> QED
    BY <1>0, <1>2, <2>1 DEF Trace
<1> QED
  BY <1>0, <1>1, <1>2, <1>3 DEF Trace, none, one

\* Elements that leave the accumulator alone leave the fold at its base.
LEMMA FoldKeeps ==
  ASSUME NEW given, NEW base, NEW seq, NEW n \in Nat, DOMAIN seq = 1 .. n,
         \A i \in 1 .. n : Op(given, base, seq[i]) = base
  PROVE  Folded(given, base, seq) = base
<1>1. PICK a : Trace(given, base, seq, n, a) /\ Folded(given, base, seq) = a[n]
  BY FoldTrace
<1> DEFINE S == {i \in 0 .. n : a[i] = base}
<1>2. 0 \in S
  BY <1>1 DEF Trace
<1>3. \A i \in 1 .. n : i - 1 \in S => i \in S
  BY <1>1 DEF Trace
<1> HIDE DEF S
<1>4. \A i \in 0 .. n : i \in S
  BY <1>2, <1>3, BoundedInduction
<1> QED
  BY <1>1, <1>4 DEF S

\* A fold goes on where the fold of what came before ended.
LEMMA FoldConcat ==
  ASSUME NEW given, NEW base, NEW S, NEW s \in Seq(S), NEW t \in Seq(S)
  PROVE  Folded(given, base, s \o t) = Folded(given, Folded(given, base, s), t)
<1> DEFINE m == Len(s)
           n == Len(t)
           whole == s \o t
<1>1. m \in Nat /\ n \in Nat /\ DOMAIN s = 1 .. m /\ DOMAIN t = 1 .. n
  OBVIOUS
<1>2. DOMAIN whole = 1 .. m + n
  OBVIOUS
<1>3. \A i \in 1 .. m : whole[i] = s[i]
  OBVIOUS
<1>4. \A i \in 1 .. n : whole[m + i] = t[i]
  OBVIOUS
<1>5. PICK a : Trace(given, base, s, m, a) /\ Folded(given, base, s) = a[m]
  BY <1>1, FoldTrace
<1>6. PICK b : Trace(given, a[m], t, n, b) /\ Folded(given, a[m], t) = b[n]
  BY <1>1, FoldTrace
<1> HIDE DEF m, n, whole
<1> DEFINE c == [i \in 0 .. m + n |-> IF i <= m THEN a[i] ELSE b[i - m]]
<1>7. Trace(given, base, whole, m + n, c)
  <2>1. c[0] = base /\ DOMAIN c = 0 .. m + n
    BY <1>1, <1>5 DEF Trace
  <2>2. ASSUME NEW i \in 1 .. m + n PROVE c[i] = Op(given, c[i - 1], whole[i])
    <3>1. CASE i <= m
      <4>1. i \in 1 .. m /\ i - 1 \in 0 .. m + n /\ i - 1 <= m /\ i \in 0 .. m + n
        BY <1>1, <3>1
      <4>2. c[i] = a[i] /\ c[i - 1] = a[i - 1]
        BY <3>1, <4>1
      <4> QED
        BY <4>1, <4>2, <1>3, <1>5 DEF Trace
    <3>2. CASE i = m + 1
      <4>1. 1 \in 1 .. n /\ i - 1 = m /\ m \in 0 .. m + n /\ i \in 0 .. m + n /\ i - m = 1
        BY <1>1, <3>2
      <4>2. c[i] = b[1] /\ c[i - 1] = a[m]
        BY <1>1, <3>2, <4>1
      <4>3. b[1] = Op(given, b[0], t[1]) /\ b[0] = a[m]
        BY <1>6, <4>1 DEF Trace
      <4>4. whole[i] = t[1]
        BY <1>4, <3>2, <4>1
      <4> QED
        BY <4>2, <4>3, <4>4
    <3>3. CASE i > m + 1
      <4>1. i - m \in 1 .. n /\ i - 1 \in 0 .. m + n /\ i \in 0 .. m + n
            /\ (i - 1) - m = (i - m) - 1 /\ m + (i - m) = i
        BY <1>1, <3>3
      <4>2. c[i] = b[i - m] /\ c[i - 1] = b[(i - m) - 1]
        BY <1>1, <3>3, <4>1
      <4>3. b[i - m] = Op(given, b[(i - m) - 1], t[i - m])
        BY <1>6, <4>1 DEF Trace
      <4>4. whole[i] = t[i - m]
        BY <1>4, <4>1
      <4> QED
        BY <4>2, <4>3, <4>4
    <3> QED
      BY <1>1, <3>1, <3>2, <3>3
  <2> HIDE DEF c
  <2> QED
    BY <2>1, <2>2 DEF Trace
<1>8. c[m + n] = b[n]
  <2>1. CASE n = 0
    BY <1>1, <1>6, <2>1 DEF Trace
  <2>2. CASE n > 0
    BY <1>1, <2>2
  <2> QED
    BY <1>1, <2>1, <2>2
<1> HIDE DEF c
<1> DEFINE k == m + n
<1>9. k \in Nat /\ k \in 0 .. k /\ DOMAIN whole = 1 .. k /\ Trace(given, base, whole, k, c)
  BY <1>1, <1>2, <1>7
<1>10. c[k] = b[n]
  BY <1>8
<1> HIDE DEF k
<1>11. PICK d : Trace(given, base, whole, k, d) /\ Folded(given, base, whole) = d[k]
  BY <1>9, FoldTrace
<1>12. d[k] = c[k]
  BY <1>9, <1>11, TraceIsUnique
<1> QED
  BY <1>5, <1>6, <1>10, <1>11, <1>12 DEF whole

-----------------------------------------------------------------------------
(* Recursion over the naturals *)

\* A function defined by its value at 0 and by each next value exists.
Recursion(given, base, f) ==
  f = [n \in Nat |-> IF n = 0 THEN base ELSE Op(given, f[n - 1], n)]
Approximation(given, base, n, g) ==
  g = [i \in 0 .. n |-> IF i = 0 THEN base ELSE Op(given, g[i - 1], i)]
LEMMA RecursionExists ==
  ASSUME NEW given, NEW base
  PROVE  \E f : Recursion(given, base, f)
<1> DEFINE I == {n \in Nat : \E g : Approximation(given, base, n, g)}
<1>1. 0 \in I
  <2> DEFINE g == [i \in 0 .. 0 |-> base]
  <2>1. Approximation(given, base, 0, g)
    BY DEF Approximation
  <2> QED
    BY <2>1
<1>2. \A n \in Nat : n \in I => n + 1 \in I
  <2> SUFFICES ASSUME NEW n \in Nat, n \in I PROVE \E h : Approximation(given, base, n + 1, h)
    OBVIOUS
  <2>1. PICK g : Approximation(given, base, n, g)
    OBVIOUS
  <2> DEFINE h == [i \in 0 .. n + 1 |-> IF i <= n THEN g[i] ELSE Op(given, g[n], n + 1)]
  <2>2. ASSUME NEW i \in 0 .. n + 1
        PROVE  h[i] = IF i = 0 THEN base ELSE Op(given, h[i - 1], i)
    <3>1. CASE i <= n
      <4>1. i \in 0 .. n
        BY <3>1
      <4>2. h[i] = g[i] /\ g[i] = IF i = 0 THEN base ELSE Op(given, g[i - 1], i)
        BY <2>1, <4>1 DEF Approximation
      <4>3. i # 0 => h[i - 1] = g[i - 1]
        BY <4>1
      <4> HIDE DEF h
      <4> QED
        BY <4>2, <4>3
    <3>2. CASE i = n + 1
      <4>1. h[n] = g[n] /\ h[i] = Op(given, g[n], i) /\ i - 1 = n /\ i # 0
        BY <3>2
      <4> HIDE DEF h
      <4> QED
        BY <4>1
    <3> QED
      BY <3>1, <3>2
  <2>3. h = [i \in 0 .. n + 1 |-> h[i]]
    OBVIOUS
  <2> HIDE DEF h
  <2>4. Approximation(given, base, n + 1, h)
    BY <2>2, <2>3 DEF Approximation
  <2> QED
    BY <2>4
<1> HIDE DEF I
<1>3. \A n \in Nat : n \in I
  BY <1>1, <1>2, SetInduction
<1> DEFINE a(n) == CHOOSE g : Approximation(given, base, n, g)
           f == [n \in Nat |-> a(n)[n]]
<1>4. \A n \in Nat : Approximation(given, base, n, a(n))
  BY <1>3 DEF I
<1>5. ASSUME NEW n \in Nat
      PROVE  \A i \in 0 .. n : a(n + 1)[i] = a(n)[i]
  <2> DEFINE g == a(n)
             h == a(n + 1)
             S == {i \in 0 .. n : h[i] = g[i]}
  <2>1. Approximation(given, base, n, g) /\ Approximation(given, base, n + 1, h)
    BY <1>4
  <2> HIDE DEF g, h, a
  <2>2. 0 \in S
    BY <2>1 DEF Approximation
  <2>3. \A i \in 1 .. n : i - 1 \in S => i \in S
    BY <2>1 DEF Approximation
  <2> HIDE DEF S
  <2>4. \A i \in 0 .. n : i \in S
    BY <2>2, <2>3, BoundedInduction
  <2> QED
    BY <2>4 DEF S, g, h
<1>6. ASSUME NEW n \in Nat
      PROVE  f[n] = IF n = 0 THEN base ELSE Op(given, f[n - 1], n)
  <2> DEFINE g == a(n)
  <2>1. Approximation(given, base, n, g)
    BY <1>4
  <2>2. f[n] = g[n]
    OBVIOUS
  <2> HIDE DEF a, g
  <2>3. g[n] = IF n = 0 THEN base ELSE Op(given, g[n - 1], n)
    BY <2>1 DEF Approximation
  <2>4. ASSUME n # 0 PROVE g[n - 1] = f[n - 1]
    <3> DEFINE m == n - 1
    <3>1. m \in Nat /\ m + 1 = n /\ m \in 0 .. m
      BY <2>4
    <3> HIDE DEF m
    <3>2. a(m + 1)[m] = a(m)[m]
      BY <1>5, <3>1
    <3>3. f[m] = a(m)[m]
      BY <3>1
    <3>4. a(n)[m] = f[m]
      BY <3>1, <3>2, <3>3
    <3> QED
      BY <3>4 DEF m, g
  <2> HIDE DEF f
  <2> QED
    BY <2>2, <2>3, <2>4
<1>7. f = [n \in Nat |-> f[n]]
  OBVIOUS
<1> HIDE DEF f
<1>8. Recursion(given, base, f)
  BY <1>6, <1>7 DEF Recursion
<1> QED
  BY <1>8

-----------------------------------------------------------------------------
(* Induction over the subsets of a finite set *)

\* A set without an element has one element less.
LEMMA OneLess ==
  ASSUME NEW S, IsFiniteSet(S), NEW x \in S
  PROVE  /\ IsFiniteSet(S \ {x}) /\ Cardinality(S) \in Nat /\ Cardinality(S \ {x}) \in Nat
         /\ Cardinality(S \ {x}) = Cardinality(S) - 1
<1>1. IsFiniteSet(S \ {x})
  BY FS_RemoveElement
<1>2. Cardinality(S \ {x}) = Cardinality(S) - 1
  BY FS_RemoveElement
<1>3. Cardinality(S) \in Nat /\ Cardinality(S \ {x}) \in Nat
  BY <1>1, FS_CardinalityType
<1> QED
  BY <1>1, <1>2, <1>3

\* What holds of a subset when it holds of all smaller ones holds of every subset.
LEMMA SubsetInduction ==
  ASSUME NEW S, IsFiniteSet(S), NEW P,
         \A s \in SUBSET S : (\A t \in SUBSET s : t # s => t \in P) => s \in P
  PROVE  \A s \in SUBSET S : s \in P
<1> DEFINE I == {n \in Nat : \A s \in SUBSET S : Cardinality(s) <= n => s \in P}
<1>1. ASSUME NEW s \in SUBSET S, NEW t \in SUBSET s, t # s
      PROVE  /\ Cardinality(s) \in Nat /\ Cardinality(t) \in Nat
             /\ Cardinality(t) < Cardinality(s) /\ t \in SUBSET S
  <2>1. IsFiniteSet(s)
    BY FS_Subset
  <2>2. PICK x \in s : x \notin t
    BY <1>1
  <2>3. /\ IsFiniteSet(s \ {x}) /\ Cardinality(s) \in Nat /\ Cardinality(s \ {x}) \in Nat
        /\ Cardinality(s \ {x}) = Cardinality(s) - 1
    BY <2>1, OneLess
  <2>4. t \in SUBSET (s \ {x})
    BY <2>2
  <2>5. IsFiniteSet(t) /\ Cardinality(t) <= Cardinality(s \ {x})
    BY <2>3, <2>4, FS_Subset
  <2>6. Cardinality(t) \in Nat
    BY <2>5, FS_CardinalityType
  <2> QED
    BY <2>3, <2>5, <2>6
<1>2. 0 \in I
  <2> SUFFICES ASSUME NEW s \in SUBSET S, Cardinality(s) <= 0 PROVE s \in P
    OBVIOUS
  <2>1. \A t \in SUBSET s : t # s => Cardinality(t) \in Nat /\ Cardinality(t) < 0
    <3> SUFFICES ASSUME NEW t \in SUBSET s, t # s PROVE Cardinality(t) \in Nat /\ Cardinality(t) < 0
      OBVIOUS
    <3>1. Cardinality(s) \in Nat /\ Cardinality(t) \in Nat /\ Cardinality(t) < Cardinality(s)
      BY <1>1
    <3> QED
      BY <3>1
  <2> QED
    BY <2>1
<1>3. \A n \in Nat : n \in I => n + 1 \in I
  <2> SUFFICES ASSUME NEW n \in Nat, n \in I, NEW s \in SUBSET S, Cardinality(s) <= n + 1
               PROVE  s \in P
    OBVIOUS
  <2>1. ASSUME NEW t \in SUBSET s, t # s PROVE t \in P
    <3>1. /\ Cardinality(s) \in Nat /\ Cardinality(t) \in Nat
          /\ Cardinality(t) < Cardinality(s) /\ t \in SUBSET S
      BY <1>1, <2>1
    <3>2. Cardinality(t) <= n
      BY <3>1
    <3> QED
      BY <3>1, <3>2
  <2> QED
    BY <2>1
<1> HIDE DEF I
<1>4. \A n \in Nat : n \in I
  BY <1>2, <1>3, SetInduction
<1> SUFFICES ASSUME NEW s \in SUBSET S PROVE s \in P
  OBVIOUS
<1>5. Cardinality(s) \in Nat
  <2>1. IsFiniteSet(s)
    BY FS_Subset
  <2> QED
    BY <2>1, FS_CardinalityType
<1> QED
  BY <1>4, <1>5 DEF I

-----------------------------------------------------------------------------
(* The fold of a finite set *)

\* A table of the folds of all subsets.
Table(given, base, S, g) ==
  g = [s \in SUBSET S |-> IF s = {} THEN base ELSE Op(given, g[s \ {Pick(s)}], Pick(s))]

\* There is such a table.
LEMMA TableExists ==
  ASSUME NEW given, NEW base, NEW S, IsFiniteSet(S)
  PROVE  \E g : Table(given, base, S, g)
<1> DEFINE Sub(n) == {s \in SUBSET S : Cardinality(s) <= n}
           Solves(g, n) ==
             g = [s \in Sub(n) |-> IF s = {} THEN base ELSE Op(given, g[s \ {Pick(s)}], Pick(s))]
           I == {n \in Nat : \E g : Solves(g, n)}
<1>1. \A s \in SUBSET S : IsFiniteSet(s) /\ Cardinality(s) \in Nat /\ (s = {} <=> Cardinality(s) = 0)
  <2> SUFFICES ASSUME NEW s \in SUBSET S
               PROVE  IsFiniteSet(s) /\ Cardinality(s) \in Nat /\ (s = {} <=> Cardinality(s) = 0)
    OBVIOUS
  <2>1. IsFiniteSet(s)
    BY FS_Subset
  <2>2. Cardinality(s) \in Nat
    BY <2>1, FS_CardinalityType
  <2>3. s = {} <=> Cardinality(s) = 0
    BY <2>1, FS_EmptySet
  <2> QED
    BY <2>1, <2>2, <2>3
<1>2. ASSUME NEW s \in SUBSET S, s # {}
      PROVE  Pick(s) \in s /\ s \ {Pick(s)} \in SUBSET S
             /\ Cardinality(s \ {Pick(s)}) = Cardinality(s) - 1
  <2>1. Pick(s) \in s
    BY <1>2 DEF Pick
  <2>2. Cardinality(s \ {Pick(s)}) = Cardinality(s) - 1
    BY <1>1, <2>1, OneLess
  <2> QED
    BY <2>1, <2>2
<1>3. 0 \in I
  <2> DEFINE g == [s \in Sub(0) |-> base]
  <2>1. \A s \in Sub(0) : s = {}
    BY <1>1
  <2>2. Solves(g, 0)
    BY <2>1
  <2> QED
    BY <2>2
<1>4. \A n \in Nat : n \in I => n + 1 \in I
  <2> SUFFICES ASSUME NEW n \in Nat, NEW g, Solves(g, n) PROVE \E h : Solves(h, n + 1)
    <3> HIDE DEF Solves
    <3> QED
      OBVIOUS
  <2> DEFINE h == [s \in Sub(n + 1) |->
                     IF Cardinality(s) <= n THEN g[s] ELSE Op(given, g[s \ {Pick(s)}], Pick(s))]
  <2>1. ASSUME NEW s \in Sub(n + 1)
        PROVE  h[s] = IF s = {} THEN base ELSE Op(given, h[s \ {Pick(s)}], Pick(s))
    <3>1. CASE s = {}
      <4>1. Cardinality(s) <= n /\ s \in Sub(n)
        BY <1>1, <3>1
      <4>2. h[s] = g[s] /\ g[s] = base
        BY <3>1, <4>1
      <4> QED
        BY <3>1, <4>2
    <3>2. CASE s # {}
      <4> DEFINE rest == s \ {Pick(s)}
      <4>1. s \in SUBSET S /\ Cardinality(s) \in Nat /\ Cardinality(s) <= n + 1
        BY <1>1
      <4>2. rest \in SUBSET S /\ Cardinality(rest) = Cardinality(s) - 1
        BY <1>2, <3>2, <4>1
      <4>3. rest \in Sub(n) /\ rest \in Sub(n + 1) /\ Cardinality(rest) <= n
        BY <4>1, <4>2
      <4>4. h[rest] = g[rest]
        BY <4>3
      <4>5. CASE Cardinality(s) <= n
        <5>1. s \in Sub(n)
          BY <4>1, <4>5
        <5>2. g[s] = Op(given, g[rest], Pick(s))
          BY <3>2, <5>1
        <5>3. h[s] = g[s]
          BY <4>5
        <5> HIDE DEF h, rest
        <5> QED
          BY <3>2, <4>4, <5>2, <5>3 DEF rest
      <4>6. CASE ~(Cardinality(s) <= n)
        <5>1. h[s] = Op(given, g[rest], Pick(s))
          BY <4>6
        <5> HIDE DEF h, rest
        <5> QED
          BY <3>2, <4>4, <5>1 DEF rest
      <4> QED
        BY <4>5, <4>6
    <3> QED
      BY <3>1, <3>2
  <2>2. h = [s \in Sub(n + 1) |-> h[s]]
    OBVIOUS
  <2> HIDE DEF h, Sub
  <2>3. Solves(h, n + 1)
    BY <2>1, <2>2
  <2> HIDE DEF Solves
  <2> QED
    BY <2>3
<1> DEFINE c == Cardinality(S)
<1>5. c \in Nat
  BY FS_CardinalityType
<1>6. \E g : Solves(g, c)
  <2> HIDE DEF I, Solves, c
  <2>1. \A n \in Nat : n \in I
    BY <1>3, <1>4, SetInduction
  <2> QED
    BY <1>5, <2>1 DEF I
<1>7. Sub(c) = SUBSET S
  <2>1. \A s \in SUBSET S : Cardinality(s) <= Cardinality(S)
    BY FS_Subset
  <2> QED
    BY <2>1
<1>8. PICK g : Solves(g, c)
  BY <1>6
<1>9. Table(given, base, S, g)
  <2> HIDE DEF Sub, c
  <2> QED
    BY <1>7, <1>8 DEF Table
<1> QED
  BY <1>9

\* Tables agree on the sets they share.
LEMMA TablesAgree ==
  ASSUME NEW given, NEW base, NEW S, IsFiniteSet(S), NEW T \in SUBSET S,
         NEW g, NEW h, Table(given, base, S, g), Table(given, base, T, h)
  PROVE  \A s \in SUBSET T : g[s] = h[s]
<1> DEFINE P == {s \in SUBSET T : g[s] = h[s]}
<1>1. ASSUME NEW s \in SUBSET T, \A t \in SUBSET s : t # s => t \in P
      PROVE  s \in P
  <2>1. CASE s = {}
    BY <2>1 DEF Table
  <2>2. CASE s # {}
    <3>1. Pick(s) \in s
      BY <2>2 DEF Pick
    <3>2. g[s \ {Pick(s)}] = h[s \ {Pick(s)}]
      BY <1>1, <3>1
    <3>3. g[s] = Op(given, g[s \ {Pick(s)}], Pick(s))
      BY <2>2 DEF Table
    <3>4. h[s] = Op(given, h[s \ {Pick(s)}], Pick(s))
      BY <2>2 DEF Table
    <3> QED
      BY <3>2, <3>3, <3>4
  <2> QED
    BY <2>1, <2>2
<1>2. IsFiniteSet(T)
  BY FS_Subset
<1> HIDE DEF P
<1>3. \A s \in SUBSET T : s \in P
  BY <1>1, <1>2, SubsetInduction
<1> QED
  BY <1>3 DEF P

\* The fold of a finite set stands in such a table.
LEMMA SetFoldTable ==
  ASSUME NEW given, NEW base, NEW S, IsFiniteSet(S)
  PROVE  \E g : Table(given, base, S, g) /\ FoldedSet(given, base, S) = g[S]
<1> DEFINE iter == CHOOSE g : Table(given, base, S, g)
<1>1. Table(given, base, S, iter)
  BY TableExists
<1>2. FoldedSet(given, base, S) = iter[S]
  BY DEF FoldedSet, MapThenFoldSet, Table
<1> QED
  BY <1>1, <1>2

\* Folding a finite set takes the element picked from it after all others.
LEMMA SetFoldStep ==
  ASSUME NEW given, NEW base, NEW S, IsFiniteSet(S)
  PROVE  /\ FoldedSet(given, base, {}) = base
         /\ S # {} => /\ Pick(S) \in S
                      /\ FoldedSet(given, base, S) =
                           Op(given, FoldedSet(given, base, S \ {Pick(S)}), Pick(S))
<1>1. ASSUME NEW T, IsFiniteSet(T)
      PROVE  \E g : Table(given, base, T, g) /\ FoldedSet(given, base, T) = g[T]
  BY <1>1, SetFoldTable
<1>2. FoldedSet(given, base, {}) = base
  <2> DEFINE none == {}
  <2>1. IsFiniteSet(none)
    BY FS_EmptySet
  <2>2. PICK g : Table(given, base, none, g) /\ FoldedSet(given, base, none) = g[none]
    BY <1>1, <2>1
  <2> QED
    BY <2>2 DEF Table
<1>3. ASSUME S # {}
      PROVE  /\ Pick(S) \in S
             /\ FoldedSet(given, base, S) = Op(given, FoldedSet(given, base, S \ {Pick(S)}), Pick(S))
  <2> DEFINE T == S \ {Pick(S)}
  <2>1. Pick(S) \in S
    BY <1>3 DEF Pick
  <2>2. IsFiniteSet(T) /\ T \in SUBSET S
    BY FS_Subset
  <2>3. PICK g : Table(given, base, S, g) /\ FoldedSet(given, base, S) = g[S]
    BY <1>1
  <2>4. PICK h : Table(given, base, T, h) /\ FoldedSet(given, base, T) = h[T]
    BY <1>1, <2>2
  <2>5. g[T] = h[T]
    BY <2>2, <2>3, <2>4, TablesAgree
  <2>6. g[S] = Op(given, g[T], Pick(S))
    BY <1>3, <2>3 DEF Table
  <2> QED
    BY <2>1, <2>3, <2>4, <2>5, <2>6
<1> QED
  BY <1>2, <1>3
==============================================================================
