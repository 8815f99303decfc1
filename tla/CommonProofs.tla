---------------------------- MODULE CommonProofs ----------------------------
(***************************************************************************)
(* Lemmas that the proofs of several components share: the answer of a     *)
(* call that checks several things in order and fails with the first that  *)
(* is not kOk, the extremes of a set of numbers, the overlap of intervals, *)
(* the arrangement of a finite set by a comparison, sequences, division    *)
(* and coordinate transforms that keep distances.                          *)
(***************************************************************************)
EXTENDS Transforms, Orders, FiniteSetTheorems, SequenceTheorems, WellFoundedInduction, TLAPS

-----------------------------------------------------------------------------
(* The first failure *)

\* The least of the first five positions that a set holds.
LEMMA FirstOfFive ==
  ASSUME NEW failed \in SUBSET {1, 2, 3, 4, 5}, failed # {}
  PROVE  Min(failed) = IF 1 \in failed THEN 1 ELSE IF 2 \in failed THEN 2 ELSE
                       IF 3 \in failed THEN 3 ELSE IF 4 \in failed THEN 4 ELSE 5
<1>1. ASSUME NEW n \in failed, \A j \in failed \ {n} : n < j
      PROVE  Min(failed) = n
  <2>1. \A j \in failed : n <= j
    BY <1>1
  <2>2. ASSUME NEW x \in failed, \A j \in failed : x <= j PROVE x = n
    <3>1. x <= n
      BY <1>1, <2>2
    <3>2. x \in Nat /\ n \in Nat
      BY <1>1, <2>2
    <3> QED
      BY <1>1, <2>2, <3>1, <3>2
  <2> QED
    BY <1>1, <2>1, <2>2 DEF Min
<1>2. CASE 1 \in failed
  <2>1. \A j \in failed \ {1} : 1 < j
    OBVIOUS
  <2> QED
    BY <1>1, <1>2, <2>1
<1>3. CASE 1 \notin failed /\ 2 \in failed
  <2>1. \A j \in failed \ {2} : 2 < j
    BY <1>3
  <2> QED
    BY <1>1, <1>3, <2>1
<1>4. CASE failed \subseteq {3, 4, 5} /\ 3 \in failed
  <2>1. \A j \in failed \ {3} : 3 < j
    BY <1>4
  <2> QED
    BY <1>1, <1>4, <2>1
<1>5. CASE failed \subseteq {4, 5} /\ 4 \in failed
  <2>1. \A j \in failed \ {4} : 4 < j
    BY <1>5
  <2> QED
    BY <1>1, <1>5, <2>1
<1>6. CASE failed = {5}
  BY <1>1, <1>6
<1> QED
  BY <1>2, <1>3, <1>4, <1>5, <1>6

\* The first failure of two checks, and of three.
LEMMA FailureOrder ==
  ASSUME NEW a, NEW b, NEW c
  PROVE  /\ FirstFailure(<<a, b>>) = IF a # "kOk" THEN a ELSE b
         /\ FirstFailure(<<a, b, c>>) = IF a # "kOk" THEN a ELSE IF b # "kOk" THEN b ELSE c
<1>1. FirstFailure(<<a, b>>) = IF a # "kOk" THEN a ELSE b
  <2> DEFINE statuses == <<a, b>>
             failed == {i \in DOMAIN statuses : statuses[i] # "kOk"}
  <2>1. failed \in SUBSET {1, 2, 3, 4, 5} /\ (1 \in failed <=> a # "kOk") /\ (2 \in failed <=> b # "kOk")
        /\ failed \subseteq {1, 2}
    OBVIOUS
  <2>2. failed # {} => statuses[Min(failed)] = IF a # "kOk" THEN a ELSE b
    <3>1. failed # {} => Min(failed) = IF 1 \in failed THEN 1 ELSE 2
      <4> HIDE DEF failed
      <4> QED
        BY <2>1, FirstOfFive
    <3> QED
      BY <3>1
  <2> QED
    BY <2>2 DEF FirstFailure
<1>2. FirstFailure(<<a, b, c>>) = IF a # "kOk" THEN a ELSE IF b # "kOk" THEN b ELSE c
  <2> DEFINE statuses == <<a, b, c>>
             failed == {i \in DOMAIN statuses : statuses[i] # "kOk"}
  <2>1. failed \in SUBSET {1, 2, 3, 4, 5} /\ failed \subseteq {1, 2, 3}
        /\ (1 \in failed <=> a # "kOk") /\ (2 \in failed <=> b # "kOk") /\ (3 \in failed <=> c # "kOk")
    OBVIOUS
  <2>2. failed # {} => statuses[Min(failed)] = IF a # "kOk" THEN a ELSE IF b # "kOk" THEN b ELSE c
    <3>1. failed # {} => Min(failed) = IF 1 \in failed THEN 1 ELSE IF 2 \in failed THEN 2 ELSE 3
      <4> HIDE DEF failed
      <4> QED
        BY <2>1, FirstOfFive
    <3> QED
      BY <3>1
  <2> QED
    BY <2>2 DEF FirstFailure
<1> QED
  BY <1>1, <1>2

\* The answer is one of the checks', if any of them fails.
LEMMA FirstFailureIsOne ==
  ASSUME NEW a, NEW b, NEW c
  PROVE  /\ FirstFailure(<<a, b>>) \in {"kOk", a, b}
         /\ FirstFailure(<<a, b, c>>) \in {"kOk", a, b, c}
BY FailureOrder

\* Where nothing fails, every check has passed.
LEMMA AllPass ==
  ASSUME NEW a, NEW b, NEW c
  PROVE  /\ FirstFailure(<<a, b>>) = "kOk" => a = "kOk" /\ b = "kOk"
         /\ FirstFailure(<<a, b, c>>) = "kOk" => a = "kOk" /\ b = "kOk" /\ c = "kOk"
BY FailureOrder

\* Checks that answer within a set have their first failure in it.
LEMMA FailuresStayIn ==
  ASSUME NEW S, "kOk" \in S, NEW a \in S, NEW b \in S, NEW c \in S
  PROVE  FirstFailure(<<a, b>>) \in S /\ FirstFailure(<<a, b, c>>) \in S
BY FailureOrder

\* The first failure of five checks is one of them.
LEMMA FirstFailureOfFive ==
  ASSUME NEW a, NEW b, NEW c, NEW d, NEW e
  PROVE  FirstFailure(<<a, b, c, d, e>>) \in {"kOk", a, b, c, d, e}
<1> DEFINE statuses == <<a, b, c, d, e>>
           failed == {i \in DOMAIN statuses : statuses[i] # "kOk"}
<1>1. failed \in SUBSET {1, 2, 3, 4, 5}
  OBVIOUS
<1>2. failed # {} => statuses[Min(failed)] \in {a, b, c, d, e}
  <2>1. failed # {} => Min(failed) \in {1, 2, 3, 4, 5}
    <3> HIDE DEF failed
    <3> QED
      BY <1>1, FirstOfFive
  <2> QED
    BY <2>1
<1> QED
  BY <1>2 DEF FirstFailure

-----------------------------------------------------------------------------
(* Extremes *)

\* A set of numbers has a least.
LEMMA LeastOf ==
  ASSUME NEW S \in SUBSET Nat, S # {}
  PROVE  \E n \in S : \A m \in S : n <= m
<1> DEFINE T == Nat \ (Nat \ S)
<1>1. PICK least \in T : \A m \in T : ~ (<<m, least>> \in OpToRel(<, Nat))
  BY NatLessThanWellFounded, WFMin
<1>2. ASSUME NEW m \in T PROVE least <= m
  <2> SUFFICES ASSUME m < least PROVE FALSE
    OBVIOUS
  <2>1. <<m, least>> \in OpToRel(<, Nat)
    BY DEF OpToRel
  <2> QED
    BY <1>1, <2>1
<1> QED
  BY <1>2

\* The lesser and the greater of two.
LEMMA MinMaxOfTwo ==
  ASSUME NEW a \in Int, NEW b \in Int
  PROVE  /\ Min({a, b}) = IF a <= b THEN a ELSE b
         /\ Max({a, b}) = IF a >= b THEN a ELSE b
<1>1. ASSUME NEW x \in {a, b}, \A y \in {a, b} : x <= y PROVE x = IF a <= b THEN a ELSE b
  BY <1>1
<1>2. \E x \in {a, b} : \A y \in {a, b} : x <= y
  OBVIOUS
<1>3. ASSUME NEW x \in {a, b}, \A y \in {a, b} : x >= y PROVE x = IF a >= b THEN a ELSE b
  BY <1>3
<1>4. \E x \in {a, b} : \A y \in {a, b} : x >= y
  OBVIOUS
<1> QED
  BY <1>1, <1>2, <1>3, <1>4 DEF Min, Max

\* The extremes of a set that has them.
LEMMA LeastIs ==
  ASSUME NEW S \in SUBSET Int, NEW x \in S, \A y \in S : x <= y
  PROVE  Min(S) = x
<1>1. \A y \in S : (\A z \in S : y <= z) => y = x
  <2> SUFFICES ASSUME NEW y \in S, \A z \in S : y <= z PROVE y = x
    OBVIOUS
  <2>1. y <= x /\ x <= y /\ x \in Int /\ y \in Int
    OBVIOUS
  <2> QED
    BY <2>1
<1> QED
  BY <1>1 DEF Min

LEMMA GreatestIs ==
  ASSUME NEW S \in SUBSET Int, NEW x \in S, \A y \in S : x >= y
  PROVE  Max(S) = x
<1>1. \A y \in S : (\A z \in S : y >= z) => y = x
  <2> SUFFICES ASSUME NEW y \in S, \A z \in S : y >= z PROVE y = x
    OBVIOUS
  <2>1. y <= x /\ x <= y /\ x \in Int /\ y \in Int
    OBVIOUS
  <2> QED
    BY <2>1
<1> QED
  BY <1>1 DEF Max

-----------------------------------------------------------------------------
(* Overlaps *)

\* Rectangles overlap where both of their sides do.
LEMMA OverlapIs ==
  ASSUME NEW a \in Int, NEW m \in Int, NEW b \in Int, NEW n \in Int
  PROVE  /\ Overlap(a, m, b, n) \in Nat
         /\ (Overlap(a, m, b, n) > 0) <=> (m > 0 /\ n > 0 /\ a < b + n /\ b < a + m)
<1> DEFINE high == Min({a + m, b + n})
           low == Max({a, b})
<1>1. high = (IF a + m <= b + n THEN a + m ELSE b + n) /\ low = IF a >= b THEN a ELSE b
  BY MinMaxOfTwo
<1>2. high \in Int /\ low \in Int
  BY <1>1
<1>3. Overlap(a, m, b, n) = IF 0 >= high - low THEN 0 ELSE high - low
  <2>1. Overlap(a, m, b, n) = Max({0, high - low})
    BY DEF Overlap
  <2> HIDE DEF high, low
  <2> QED
    BY <1>2, <2>1, MinMaxOfTwo
<1> HIDE DEF high, low
<1> QED
  BY <1>1, <1>2, <1>3

\* It is no longer than either interval.
LEMMA OverlapWithin ==
  ASSUME NEW a \in Int, NEW m \in Int, NEW b \in Int, NEW n \in Int
  PROVE  /\ Overlap(a, m, b, n) = Overlap(b, n, a, m)
         /\ m >= 0 => Overlap(a, m, b, n) <= m
         /\ n >= 0 => Overlap(a, m, b, n) <= n
<1> DEFINE high == Min({a + m, b + n})
           low == Max({a, b})
<1>1. high = (IF a + m <= b + n THEN a + m ELSE b + n) /\ low = IF a >= b THEN a ELSE b
  BY MinMaxOfTwo
<1>2. high \in Int /\ low \in Int
  BY <1>1
<1>3. Overlap(a, m, b, n) = (IF 0 >= high - low THEN 0 ELSE high - low)
      /\ Overlap(b, n, a, m) = Overlap(a, m, b, n)
  <2>1. Overlap(a, m, b, n) = Max({0, high - low})
    BY DEF Overlap
  <2>2. {b + n, a + m} = {a + m, b + n} /\ {b, a} = {a, b}
    OBVIOUS
  <2>3. Overlap(b, n, a, m) = Max({0, high - low})
    BY <2>2 DEF Overlap
  <2> HIDE DEF high, low
  <2> QED
    BY <1>2, <2>1, <2>3, MinMaxOfTwo
<1> HIDE DEF high, low
<1> QED
  BY <1>1, <1>2, <1>3

\* An area is positive when both of its sides are.
LEMMA AreaIsPositive ==
  ASSUME NEW m \in Nat, NEW n \in Nat
  PROVE  m * n > 0 <=> (m > 0 /\ n > 0)
<1>1. CASE m = 0
  BY <1>1
<1>2. CASE n = 0
  BY <1>2
<1>3. CASE m > 0 /\ n > 0
  BY <1>3
<1> QED
  BY <1>1, <1>2, <1>3

-----------------------------------------------------------------------------
(* Arrangements *)

\* Whatever the comparison is, sorting only arranges: the result names each
\* member of the set exactly once.
LEMMA SortedArranges ==
  ASSUME NEW S, IsFiniteSet(S), NEW precedes
  PROVE  /\ Cardinality(S) \in Nat
         /\ DOMAIN SortedBy(S, precedes) = 1 .. Cardinality(S)
         /\ \A k \in 1 .. Cardinality(S) : SortedBy(S, precedes)[k] \in S
         /\ \A x \in S : \E k \in 1 .. Cardinality(S) : SortedBy(S, precedes)[k] = x
         /\ SortedBy(S, precedes) \in [1 .. Cardinality(S) -> S]
<1> DEFINE n == Cardinality(S)
           place == [x \in S |-> 1 + Cardinality({y \in S : <<y, x>> \in precedes})]
           arranged == SortedBy(S, precedes)
<1>1. n \in Nat /\ IsFiniteSet(1 .. n) /\ Cardinality(1 .. n) = n
  BY FS_CardinalityType, FS_Interval
<1>2. CASE Range(place) = 1 .. n
  <2>1. place \in Surjection(S, 1 .. n)
    BY <1>2 DEF Surjection, Range
  <2>2. IsInjective(place)
    <3> HIDE DEF place
    <3> QED
      BY <1>1, <2>1, FS_Surjection DEF Injection
  <2>3. arranged = [k \in 1 .. n |-> CHOOSE x \in S : place[x] = k]
    BY <1>2 DEF SortedBy
  <2>4. DOMAIN place = S
    OBVIOUS
  <2> HIDE DEF place, arranged, n
  <2>5. \A k \in 1 .. n : \E x \in S : place[x] = k
    BY <1>2, <2>4 DEF Range
  <2>6. \A k \in 1 .. n : arranged[k] \in S /\ place[arranged[k]] = k
    BY <2>3, <2>5
  <2>7. ASSUME NEW x \in S PROVE \E k \in 1 .. n : arranged[k] = x
    <3>1. place[x] \in 1 .. n
      BY <1>2, <2>4 DEF Range
    <3> QED
      BY <2>2, <2>4, <2>6, <3>1 DEF IsInjective
  <2> QED
    BY <1>1, <2>3, <2>6, <2>7 DEF n, arranged
<1>3. CASE Range(place) # 1 .. n
  <2>1. arranged = SetToSeq(S)
    BY <1>3 DEF SortedBy
  <2>2. \E f \in [1 .. n -> S] : IsInjective(f)
    BY FS_CardinalityType DEF ExistsBijection, Bijection, Injection
  <2>3. arranged \in [1 .. n -> S] /\ IsInjective(arranged)
    BY <2>1, <2>2 DEF SetToSeq
  <2> HIDE DEF arranged, n, place
  <2>4. arranged \in Injection(1 .. n, S)
    BY <2>3 DEF Injection
  <2>5. arranged \in Surjection(1 .. n, S)
    BY <1>1, <2>4, FS_Injection DEF n
  <2> QED
    BY <1>1, <2>3, <2>5 DEF Surjection, n, arranged
<1> QED
  BY <1>2, <1>3

\* A comparison that tells any two members apart in one direction.
StrictOrder(S, precedes) ==
  /\ \A x \in S : <<x, x>> \notin precedes
  /\ \A x, y, z \in S : <<x, y>> \in precedes /\ <<y, z>> \in precedes => <<x, z>> \in precedes
  /\ \A x, y \in S : x # y => <<x, y>> \in precedes \/ <<y, x>> \in precedes

\* By such a comparison the result is sorted: each member precedes those after it.
LEMMA SortedSorts ==
  ASSUME NEW S, IsFiniteSet(S), NEW precedes, StrictOrder(S, precedes)
  PROVE  \A i, j \in 1 .. Cardinality(S) :
           i < j => <<SortedBy(S, precedes)[i], SortedBy(S, precedes)[j]>> \in precedes
<1> DEFINE n == Cardinality(S)
           Below(x) == {y \in S : <<y, x>> \in precedes}
           place == [x \in S |-> 1 + Cardinality(Below(x))]
           arranged == SortedBy(S, precedes)
<1>1. n \in Nat /\ IsFiniteSet(1 .. n) /\ Cardinality(1 .. n) = n
  BY FS_CardinalityType, FS_Interval
<1>2. ASSUME NEW x \in S PROVE Cardinality(Below(x)) \in 0 .. n - 1 /\ IsFiniteSet(Below(x))
  <2>1. Below(x) \in SUBSET (S \ {x})
    BY DEF StrictOrder
  <2>2. IsFiniteSet(S \ {x}) /\ Cardinality(S \ {x}) = n - 1
    BY FS_RemoveElement
  <2> HIDE DEF Below, n
  <2>3. IsFiniteSet(Below(x)) /\ Cardinality(Below(x)) <= n - 1
    BY <2>1, <2>2, FS_Subset
  <2>4. Cardinality(Below(x)) \in Nat
    BY <2>3, FS_CardinalityType
  <2> QED
    BY <1>1, <2>3, <2>4
<1>3. ASSUME NEW x \in S, NEW y \in S, <<x, y>> \in precedes
      PROVE  Cardinality(Below(x)) < Cardinality(Below(y))
  <2>1. Below(x) \in SUBSET Below(y) /\ x \in Below(y) /\ x \notin Below(x)
    BY <1>3 DEF StrictOrder
  <2>2. /\ IsFiniteSet(Below(y))
        /\ Cardinality(Below(x)) \in Nat
        /\ Cardinality(Below(y)) \in Nat
    BY <1>1, <1>2
  <2> HIDE DEF Below
  <2>3. Cardinality(Below(x)) <= Cardinality(Below(y)) /\ Cardinality(Below(x)) # Cardinality(Below(y))
    BY <2>1, <2>2, FS_Subset
  <2> QED
    BY <2>2, <2>3
<1>4. \A x \in S : place[x] \in 1 .. n /\ place[x] = 1 + Cardinality(Below(x))
  <2> HIDE DEF Below, n
  <2>1. \A x \in S : place[x] = 1 + Cardinality(Below(x))
    OBVIOUS
  <2> HIDE DEF place
  <2> QED
    BY <1>1, <1>2, <2>1
<1>5. ASSUME NEW x \in S, NEW y \in S, <<x, y>> \in precedes PROVE place[x] < place[y]
  <2>1. /\ Cardinality(Below(x)) < Cardinality(Below(y))
        /\ Cardinality(Below(x)) \in Int
        /\ Cardinality(Below(y)) \in Int
    BY <1>1, <1>2, <1>3, <1>5
  <2>2. place[x] = 1 + Cardinality(Below(x)) /\ place[y] = 1 + Cardinality(Below(y))
    BY <1>4
  <2> HIDE DEF Below, place
  <2> QED
    BY <2>1, <2>2
<1>6. DOMAIN place = S
  OBVIOUS
<1> HIDE DEF place
<1>7. place \in Injection(S, 1 .. n)
  <2>1. place \in [S -> 1 .. n]
    <3>1. place = [x \in S |-> place[x]]
      BY DEF place
    <3> QED
      BY <1>4, <3>1
  <2>2. ASSUME NEW x \in S, NEW y \in S, place[x] = place[y] PROVE x = y
    <3>1. place[x] \in Int
      <4>1. place[x] \in 1 .. n
        BY <1>4
      <4> HIDE DEF n
      <4> QED
        BY <1>1, <4>1
    <3>2. ~(place[x] < place[y]) /\ ~(place[y] < place[x])
      BY <2>2, <3>1
    <3> QED
      BY <1>5, <3>2 DEF StrictOrder
  <2> QED
    BY <1>6, <2>1, <2>2 DEF Injection, IsInjective
<1>8. Range(place) = 1 .. n
  <2>1. place \in Surjection(S, 1 .. n)
    BY <1>1, <1>7, FS_Injection
  <2> QED
    BY <1>6, <2>1 DEF Surjection, Range
<1>9. arranged = [k \in 1 .. n |-> CHOOSE x \in S : place[x] = k]
  BY <1>8 DEF SortedBy, place
<1>10. \A k \in 1 .. n : arranged[k] \in S /\ place[arranged[k]] = k
  <2>1. \A k \in 1 .. n : \E x \in S : place[x] = k
    BY <1>6, <1>8 DEF Range
  <2> HIDE DEF arranged, n
  <2> QED
    BY <1>9, <2>1
<1> HIDE DEF arranged, n
<1>11. ASSUME NEW i \in 1 .. n, NEW j \in 1 .. n, i < j PROVE <<arranged[i], arranged[j]>> \in precedes
  <2>1. arranged[i] \in S /\ arranged[j] \in S /\ place[arranged[i]] = i /\ place[arranged[j]] = j
    BY <1>10
  <2>2. i \in Int /\ j \in Int /\ ~(j < i) /\ i # j
    BY <1>1, <1>11
  <2>3. <<arranged[j], arranged[i]>> \notin precedes
    BY <1>5, <2>1, <2>2
  <2> QED
    BY <2>1, <2>2, <2>3 DEF StrictOrder
<1> QED
  BY <1>11 DEF arranged, n

\* A function on 1 .. n is a sequence.
LEMMA NumberedIsSeq ==
  ASSUME NEW n \in Nat, NEW f, f = [i \in 1 .. n |-> f[i]]
  PROVE  f \in Seq(Range(f)) /\ Len(f) = n
<1>1. DOMAIN f = 1 .. n
  OBVIOUS
<1>2. f \in [1 .. n -> Range(f)]
  BY <1>1 DEF Range
<1> QED
  BY <1>1, <1>2

-----------------------------------------------------------------------------
(* Sequences and sets *)

\* The least of a set of naturals is in it.
LEMMA MinIsIn ==
  ASSUME NEW S \in SUBSET Nat, S # {}
  PROVE  Min(S) \in S /\ \A y \in S : Min(S) <= y
<1>1. PICK n \in S : \A m \in S : n <= m
  BY LeastOf
<1>2. Min(S) = n
  BY <1>1, LeastIs
<1> QED
  BY <1>1, <1>2

\* One sequence after another.
LEMMA Continued ==
  ASSUME NEW S, NEW s \in Seq(S), NEW t \in Seq(S)
  PROVE  /\ s \o t \in Seq(S) /\ Len(s \o t) = Len(s) + Len(t)
         /\ Len(s) \in Nat /\ Len(t) \in Nat
         /\ DOMAIN (s \o t) = 1 .. Len(s) + Len(t) /\ DOMAIN s = 1 .. Len(s) /\ DOMAIN t = 1 .. Len(t)
         /\ \A i \in 1 .. Len(s) : (s \o t)[i] = s[i]
         /\ \A i \in 1 .. Len(t) : (s \o t)[Len(s) + i] = t[i]
OBVIOUS

\* One more at the end.
LEMMA Appended ==
  ASSUME NEW S, NEW s \in Seq(S), NEW e \in S
  PROVE  /\ Len(s) \in Nat /\ Append(s, e) \in Seq(S) /\ Len(Append(s, e)) = Len(s) + 1
         /\ \A x \in 1 .. Len(s) : Append(s, e)[x] = s[x]
         /\ Append(s, e)[Len(s) + 1] = e
BY AppendProperties, LenProperties

LEMMA OneMore ==
  ASSUME NEW S, NEW s \in Seq(S), NEW e \in S
  PROVE  /\ s \o <<e>> \in Seq(S) /\ Len(s \o <<e>>) = Len(s) + 1 /\ Len(s) \in Nat
         /\ \A i \in 1 .. Len(s) : (s \o <<e>>)[i] = s[i]
         /\ (s \o <<e>>)[Len(s) + 1] = e
OBVIOUS

\* A sequence without one of its elements.
LEMMA RemoveAtIs ==
  ASSUME NEW S, NEW s \in Seq(S), NEW i \in 1 .. Len(s)
  PROVE  /\ RemoveAt(s, i) \in Seq(S) /\ Len(s) \in Nat /\ Len(RemoveAt(s, i)) = Len(s) - 1
         /\ \A j \in 1 .. Len(s) - 1 : RemoveAt(s, i)[j] = IF j < i THEN s[j] ELSE s[j + 1]
<1> DEFINE n == Len(s)
           before == SubSeq(s, 1, i - 1)
           after == SubSeq(s, i + 1, n)
<1>1. n \in Nat /\ i \in 1 .. n /\ \A j \in 1 .. n : s[j] \in S
  BY LenProperties, ElementOfSeq
<1>2. before \in Seq(S) /\ Len(before) = i - 1 /\ \A j \in 1 .. i - 1 : before[j] = s[j]
  <2>1. i - 1 \in Int /\ 1 \in Int /\ \A j \in 1 .. i - 1 : s[j] \in S
    BY <1>1
  <2>2. before \in Seq(S) /\ Len(before) = (IF 1 <= i - 1 THEN (i - 1) - 1 + 1 ELSE 0)
        /\ \A j \in 1 .. (i - 1) - 1 + 1 : before[j] = s[1 + j - 1]
    BY <1>1, <2>1, SubSeqProperties
  <2> HIDE DEF before
  <2> QED
    BY <1>1, <2>2
<1>3. after \in Seq(S) /\ Len(after) = n - i /\ \A j \in 1 .. n - i : after[j] = s[i + j]
  <2>1. i + 1 \in Int /\ n \in Int /\ \A j \in i + 1 .. n : s[j] \in S
    BY <1>1
  <2>2. after \in Seq(S) /\ Len(after) = (IF i + 1 <= n THEN n - (i + 1) + 1 ELSE 0)
        /\ \A j \in 1 .. n - (i + 1) + 1 : after[j] = s[(i + 1) + j - 1]
    BY <1>1, <2>1, SubSeqProperties
  <2> HIDE DEF after
  <2> QED
    BY <1>1, <2>2
<1>4. RemoveAt(s, i) = before \o after
  BY DEF RemoveAt
<1> HIDE DEF before, after, n
<1>5. /\ before \o after \in Seq(S) /\ Len(before \o after) = (i - 1) + (n - i)
      /\ \A j \in 1 .. i - 1 : (before \o after)[j] = before[j]
      /\ \A j \in 1 .. n - i : (before \o after)[(i - 1) + j] = after[j]
  <2>1. /\ before \o after \in Seq(S) /\ Len(before \o after) = Len(before) + Len(after)
        /\ \A j \in 1 .. Len(before) : (before \o after)[j] = before[j]
        /\ \A j \in 1 .. Len(after) : (before \o after)[Len(before) + j] = after[j]
    <3>1. before \in Seq(S) /\ after \in Seq(S)
      BY <1>2, <1>3
    <3> QED
      BY ONLY <3>1, Continued
  <2> QED
    BY <1>2, <1>3, <2>1
<1>6. ASSUME NEW j \in 1 .. n - 1 PROVE RemoveAt(s, i)[j] = IF j < i THEN s[j] ELSE s[j + 1]
  <2>1. CASE j < i
    <3>1. j \in 1 .. i - 1
      BY <1>1, <2>1
    <3> QED
      BY <1>2, <1>4, <1>5, <2>1, <3>1
  <2>2. CASE ~(j < i)
    <3>1. j - (i - 1) \in 1 .. n - i /\ (i - 1) + (j - (i - 1)) = j /\ i + (j - (i - 1)) = j + 1
      BY <1>1, <2>2
    <3>2. (before \o after)[j] = after[j - (i - 1)] /\ after[j - (i - 1)] = s[j + 1]
      BY <1>3, <1>5, <3>1
    <3> QED
      BY <1>4, <2>2, <3>2
  <2> QED
    BY <2>1, <2>2
<1> QED
  BY <1>1, <1>4, <1>5, <1>6 DEF n

\* One more in front.
LEMMA InFront ==
  ASSUME NEW S, NEW s \in Seq(S), NEW e \in S
  PROVE  /\ <<e>> \o s \in Seq(S) /\ Len(s) \in Nat /\ Len(<<e>> \o s) = Len(s) + 1
         /\ (<<e>> \o s)[1] = e
         /\ \A i \in 1 .. Len(s) : (<<e>> \o s)[i + 1] = s[i]
         /\ \A i \in 2 .. Len(s) + 1 : (<<e>> \o s)[i] = s[i - 1]
<1>1. /\ <<e>> \o s \in Seq(S) /\ Len(s) \in Nat /\ Len(<<e>> \o s) = Len(s) + 1
      /\ (<<e>> \o s)[1] = e
      /\ \A i \in 1 .. Len(s) : (<<e>> \o s)[i + 1] = s[i]
  OBVIOUS
<1> DEFINE longer == <<e>> \o s
           n == Len(s)
<1> HIDE DEF longer, n
<1>2. \A i \in 2 .. n + 1 : longer[i] = s[i - 1]
  <2> SUFFICES ASSUME NEW i \in 2 .. n + 1 PROVE longer[i] = s[i - 1]
    OBVIOUS
  <2>1. n \in Nat /\ \A j \in 1 .. n : longer[j + 1] = s[j]
    BY <1>1 DEF longer, n
  <2>2. i - 1 \in 1 .. n /\ (i - 1) + 1 = i
    BY <2>1
  <2> QED
    BY <2>1, <2>2
<1> QED
  BY <1>1, <1>2 DEF longer, n

\* A set in which each element of another has a place of its own.
LEMMA SameSize ==
  ASSUME NEW S, IsFiniteSet(S), NEW f, DOMAIN f = S, \A x, y \in S : f[x] = f[y] => x = y
  PROVE  LET T == {f[x] : x \in S}
         IN  IsFiniteSet(T) /\ Cardinality(T) = Cardinality(S)
<1> DEFINE T == {f[x] : x \in S}
           g == [x \in S |-> f[x]]
<1>1. g \in Bijection(S, T)
  <2>1. g \in [S -> T] /\ \A t \in T : \E x \in S : g[x] = t
    OBVIOUS
  <2>2. \A x, y \in S : g[x] = g[y] => x = y
    OBVIOUS
  <2> HIDE DEF T, g
  <2> QED
    BY <2>1, <2>2 DEF Bijection, Injection, Surjection, IsInjective
<1> HIDE DEF T, g
<1>2. ExistsBijection(S, T)
  BY <1>1 DEF ExistsBijection
<1> QED
  BY <1>2, FS_Bijection DEF T

\* Where nothing fails, every one of the checks has passed.
LEMMA NothingFailed ==
  ASSUME NEW statuses, NEW n \in Nat, DOMAIN statuses = 1 .. n, FirstFailure(statuses) = "kOk"
  PROVE  \A i \in 1 .. n : statuses[i] = "kOk"
<1> DEFINE failed == {i \in DOMAIN statuses : statuses[i] # "kOk"}
<1>1. FirstFailure(statuses) = IF failed = {} THEN "kOk" ELSE statuses[Min(failed)]
  BY DEF FirstFailure
<1>2. failed \in SUBSET Nat /\ \A i \in failed : statuses[i] # "kOk"
  OBVIOUS
<1>3. failed = {} => \A i \in 1 .. n : statuses[i] = "kOk"
  OBVIOUS
<1> HIDE DEF failed
<1>4. failed # {} => Min(failed) \in failed
  BY <1>2, MinIsIn
<1> QED
  BY <1>1, <1>2, <1>3, <1>4

-----------------------------------------------------------------------------
(* Arrangements of numbers *)

\* Numbers in ascending order: each once, the lesser before the greater.
LEMMA AscendingIs ==
  ASSUME NEW S \in SUBSET Int, IsFiniteSet(S)
  PROVE  /\ Cardinality(S) \in Nat
         /\ DOMAIN Ascending(S) = 1 .. Cardinality(S)
         /\ \A k \in 1 .. Cardinality(S) : Ascending(S)[k] \in S
         /\ \A x \in S : \E k \in 1 .. Cardinality(S) : Ascending(S)[k] = x
         /\ \A i, j \in 1 .. Cardinality(S) : i < j => Ascending(S)[i] < Ascending(S)[j]
<1> DEFINE less == {pair \in S \X S : pair[1] < pair[2]}
<1>1. StrictOrder(S, less)
  BY DEF StrictOrder
<1>2. Ascending(S) = SortedBy(S, less)
  BY DEF Ascending
<1>3. \A x, y : <<x, y>> \in less => x < y
  OBVIOUS
<1> HIDE DEF less
<1>4. \A i, j \in 1 .. Cardinality(S) : i < j => <<SortedBy(S, less)[i], SortedBy(S, less)[j]>> \in less
  BY <1>1, SortedSorts
<1> DEFINE sorted == SortedBy(S, less)
<1>5. /\ Cardinality(S) \in Nat /\ DOMAIN sorted = 1 .. Cardinality(S)
      /\ \A k \in 1 .. Cardinality(S) : sorted[k] \in S
      /\ \A x \in S : \E k \in 1 .. Cardinality(S) : sorted[k] = x
  BY SortedArranges
<1>6. \A i, j \in 1 .. Cardinality(S) : i < j => sorted[i] < sorted[j]
  BY <1>3, <1>4
<1> HIDE DEF sorted
<1>7. Ascending(S) = sorted
  BY <1>2 DEF sorted
<1> QED
  BY <1>5, <1>6, <1>7

\* The elements of a sequence at some of its places.
LEMMA ElementsAtIs ==
  ASSUME NEW n \in Nat, NEW seq, NEW places \in SUBSET (1 .. n)
  PROVE  /\ IsFiniteSet(places) /\ places \in SUBSET Int /\ Cardinality(places) \in Nat
         /\ DOMAIN Ascending(places) = 1 .. Cardinality(places)
         /\ ElementsAt(seq, places) = [k \in 1 .. Cardinality(places) |-> seq[Ascending(places)[k]]]
<1>1. IsFiniteSet(places) /\ places \in SUBSET Int
  <2>1. IsFiniteSet(1 .. n)
    BY FS_Interval
  <2>2. IsFiniteSet(places)
    BY <2>1, FS_Subset
  <2> QED
    BY <2>2
<1> QED
  BY <1>1, AscendingIs DEF ElementsAt

\* Some of n places hold the elements of a set, each of them once.
HoldEachOnce(n, f, chosen, T) ==
  /\ n \in Nat /\ chosen \in SUBSET (1 .. n)
  /\ \A i, j \in chosen : f[i] = f[j] => i = j
  /\ \A i \in chosen : f[i] \in T
  /\ \A t \in T : \E i \in chosen : f[i] = t

\* There are as many of those places as elements.
LEMMA AsManyPlaces ==
  ASSUME NEW n, NEW f, NEW chosen, NEW T, HoldEachOnce(n, f, chosen, T)
  PROVE  Cardinality(chosen) = Cardinality(T)
<1> DEFINE g == [i \in chosen |-> f[i]]
<1>a. /\ n \in Nat /\ chosen \in SUBSET (1 .. n)
      /\ \A i, j \in chosen : f[i] = f[j] => i = j
      /\ \A i \in chosen : f[i] \in T
      /\ \A t \in T : \E i \in chosen : f[i] = t
  BY DEF HoldEachOnce
<1>1. IsFiniteSet(chosen)
  <2>1. IsFiniteSet(1 .. n)
    BY <1>a, FS_Interval
  <2> QED
    BY <1>a, <2>1, FS_Subset
<1>2. g \in Bijection(chosen, T)
  <2>1. g \in [chosen -> T] /\ \A i \in chosen : g[i] = f[i]
    BY <1>a
  <2>2. \A t \in T : \E i \in chosen : g[i] = t
    BY <1>a, <2>1
  <2>3. \A i, j \in chosen : g[i] = g[j] => i = j
    BY <1>a, <2>1
  <2> HIDE DEF g
  <2>4. g \in Injection(chosen, T)
    BY <2>1, <2>3 DEF Injection, IsInjective
  <2>5. g \in Surjection(chosen, T)
    BY <2>1, <2>2 DEF Surjection
  <2> QED
    BY <2>4, <2>5 DEF Bijection
<1>3. ExistsBijection(chosen, T)
  BY <1>2 DEF ExistsBijection
<1> QED
  BY <1>1, <1>3, FS_Bijection

-----------------------------------------------------------------------------
(* Division *)

\* What division leaves.
LEMMA Divided ==
  ASSUME NEW x \in Int, NEW d \in Int, d > 0
  PROVE  /\ x \div d \in Int /\ d * (x \div d) \in Int
         /\ d * (x \div d) <= x /\ x < d * (x \div d) + d
<1> DEFINE q == x \div d
           r == x % d
<1>1. q \in Int /\ r \in Int /\ x = d * q + r /\ 0 <= r /\ r < d
  OBVIOUS
<1> HIDE DEF q, r
<1>2. d * q \in Int
  BY <1>1
<1>3. q \in Int /\ d * q \in Int /\ d * q <= x /\ x < d * q + d
  BY <1>1, <1>2
<1> QED
  BY <1>3 DEF q

\* The next multiple is one divisor further.
LEMMA NextMultiple ==
  ASSUME NEW i \in Int, NEW k \in Int, NEW d \in Int, d > 0, i < k
  PROVE  d * i + d <= d * k
<1>1. PICK n \in Nat : k = i + 1 + n
  <2>1. k - i - 1 \in Nat /\ k = i + 1 + (k - i - 1)
    OBVIOUS
  <2> QED
    BY <2>1
<1>2. d * k = d * i + d + d * n /\ d * n \in Nat /\ d * i \in Int
  BY <1>1
<1> QED
  BY <1>2

-----------------------------------------------------------------------------
(* Turns, mirrors and cuts *)

Signs == {-1, 1}

\* The coefficients of a map that keeps distances along the axes.
SquareTurn(a, b, c, d) ==
  \/ a \in Signs /\ d \in Signs /\ b = 0 /\ c = 0
  \/ b \in Signs /\ c \in Signs /\ a = 0 /\ d = 0

Rigid(t) == SquareTurn(t.a, t.b, t.c, t.d) /\ t.u \in Int /\ t.v \in Int /\ t.den = 1

\* Where a rigid map takes a point.
LEMMA RigidMoves ==
  ASSUME NEW t, Rigid(t), NEW x \in Int, NEW y \in Int
  PROVE  /\ TransformPoint(t, <<x, y>>) = <<t.a * x + t.b * y + t.u, t.c * x + t.d * y + t.v>>
         /\ t.a * x + t.b * y + t.u \in Int /\ t.c * x + t.d * y + t.v \in Int
<1>1. \A z \in Int : z \div 1 = z
  OBVIOUS
<1>2. TransformPoint(t, <<x, y>>) =
        <<(t.a * x + t.b * y + t.u) \div t.den, (t.c * x + t.d * y + t.v) \div t.den>>
  BY DEF TransformPoint
<1>3. t.a * x + t.b * y + t.u \in Int /\ t.c * x + t.d * y + t.v \in Int /\ t.den = 1
  BY DEF Rigid, SquareTurn, Signs
<1> QED
  BY <1>1, <1>2, <1>3

\* One coefficient of a product.
LEMMA SquareTurnProduct ==
  ASSUME NEW a, NEW b, NEW c, NEW d, SquareTurn(a, b, c, d), NEW e, NEW f, NEW g, NEW h, SquareTurn(e, f, g, h)
  PROVE  SquareTurn(e * a + f * c, e * b + f * d, g * a + h * c, g * b + h * d)
<1>1. CASE a \in Signs /\ d \in Signs /\ b = 0 /\ c = 0
  <2>1. CASE e \in Signs /\ h \in Signs /\ f = 0 /\ g = 0
    BY <1>1, <2>1 DEF SquareTurn, Signs
  <2>2. CASE f \in Signs /\ g \in Signs /\ e = 0 /\ h = 0
    BY <1>1, <2>2 DEF SquareTurn, Signs
  <2> QED
    BY <2>1, <2>2 DEF SquareTurn
<1>2. CASE b \in Signs /\ c \in Signs /\ a = 0 /\ d = 0
  <2>1. CASE e \in Signs /\ h \in Signs /\ f = 0 /\ g = 0
    BY <1>2, <2>1 DEF SquareTurn, Signs
  <2>2. CASE f \in Signs /\ g \in Signs /\ e = 0 /\ h = 0
    BY <1>2, <2>2 DEF SquareTurn, Signs
  <2> QED
    BY <2>1, <2>2 DEF SquareTurn
<1> QED
  BY <1>1, <1>2 DEF SquareTurn

\* The product of two rigid maps is the one after the other.
LEMMA ProductMoves ==
  ASSUME NEW first, Rigid(first), NEW second, Rigid(second)
  PROVE  /\ Rigid(Multiply(second, first))
         /\ \A x, y \in Int : TransformPoint(Multiply(second, first), <<x, y>>) =
                                TransformPoint(second, TransformPoint(first, <<x, y>>))
<1> DEFINE f == first
           s == second
           m == Multiply(s, f)
<1>1. /\ f.a \in Int /\ f.b \in Int /\ f.c \in Int /\ f.d \in Int /\ f.u \in Int /\ f.v \in Int /\ f.den = 1
      /\ s.a \in Int /\ s.b \in Int /\ s.c \in Int /\ s.d \in Int /\ s.u \in Int /\ s.v \in Int /\ s.den = 1
  BY DEF Rigid, SquareTurn, Signs
<1>2. /\ m.a = s.a * f.a + s.b * f.c /\ m.b = s.a * f.b + s.b * f.d
      /\ m.c = s.c * f.a + s.d * f.c /\ m.d = s.c * f.b + s.d * f.d
      /\ m.u = s.a * f.u + s.b * f.v + s.u * f.den /\ m.v = s.c * f.u + s.d * f.v + s.v * f.den
      /\ m.den = f.den * s.den
  BY DEF Multiply, Transform
<1>3. Rigid(m)
  <2>1. SquareTurn(m.a, m.b, m.c, m.d)
    BY <1>2, SquareTurnProduct DEF Rigid
  <2>2. m.u \in Int /\ m.v \in Int /\ m.den = 1
    BY <1>1, <1>2
  <2> QED
    BY <2>1, <2>2 DEF Rigid
<1>4. ASSUME NEW x \in Int, NEW y \in Int
      PROVE  TransformPoint(m, <<x, y>>) = TransformPoint(s, TransformPoint(f, <<x, y>>))
  <2> DEFINE p == f.a * x + f.b * y + f.u
             q == f.c * x + f.d * y + f.v
  <2>1. TransformPoint(f, <<x, y>>) = <<p, q>> /\ p \in Int /\ q \in Int
    BY RigidMoves
  <2>2. TransformPoint(s, <<p, q>>) = <<s.a * p + s.b * q + s.u, s.c * p + s.d * q + s.v>>
    <3> HIDE DEF p, q
    <3> QED
      BY <2>1, RigidMoves
  <2>3. TransformPoint(m, <<x, y>>) = <<m.a * x + m.b * y + m.u, m.c * x + m.d * y + m.v>>
    <3> HIDE DEF m
    <3> QED
      BY <1>3, RigidMoves
  <2>4. m.a * x + m.b * y + m.u = s.a * p + s.b * q + s.u
    BY <1>1, <1>2
  <2>5. m.c * x + m.d * y + m.v = s.c * p + s.d * q + s.v
    BY <1>1, <1>2
  <2> QED
    BY <2>1, <2>2, <2>3, <2>4, <2>5
<1> QED
  BY <1>3, <1>4

\* The inverse of a rigid map takes every point back.
LEMMA RigidComesBack ==
  ASSUME NEW t, Rigid(t)
  PROVE  /\ Inverse2D(t).status = "kOk"
         /\ \A x, y \in Int : TransformPoint(Inverse2D(t).value, TransformPoint(t, <<x, y>>)) = <<x, y>>
<1> DEFINE det == t.a * t.d - t.b * t.c
           s == IF det < 0 THEN -1 ELSE 1
           back == Transform(t.to, t.from,
                s * t.den * t.d, -s * t.den * t.b, s * (t.b * t.v - t.u * t.d),
                -s * t.den * t.c, s * t.den * t.a, s * (t.u * t.c - t.a * t.v), s * det)
<1>1. det \in Signs /\ s = det /\ s * det = 1
  BY DEF Rigid, SquareTurn, Signs
<1>2. Inverse2D(t) = Ok(back)
  BY <1>1 DEF Inverse2D, Signs
<1>3. /\ back.a = s * t.den * t.d /\ back.b = -s * t.den * t.b /\ back.u = s * (t.b * t.v - t.u * t.d)
      /\ back.c = -s * t.den * t.c /\ back.d = s * t.den * t.a /\ back.v = s * (t.u * t.c - t.a * t.v)
      /\ back.den = 1
  BY <1>1 DEF Transform
<1>4. Rigid(back)
  BY <1>1, <1>3 DEF Rigid, SquareTurn, Signs
<1>5. ASSUME NEW x \in Int, NEW y \in Int
      PROVE  TransformPoint(back, TransformPoint(t, <<x, y>>)) = <<x, y>>
  <2> DEFINE p == t.a * x + t.b * y + t.u
             q == t.c * x + t.d * y + t.v
  <2>1. TransformPoint(t, <<x, y>>) = <<p, q>> /\ p \in Int /\ q \in Int
    BY RigidMoves
  <2>2. TransformPoint(back, <<p, q>>) = <<back.a * p + back.b * q + back.u, back.c * p + back.d * q + back.v>>
    <3> HIDE DEF p, q, back
    <3> QED
      BY <1>4, <2>1, RigidMoves
  <2>3. back.a * p + back.b * q + back.u = x /\ back.c * p + back.d * q + back.v = y
    <3> HIDE DEF back
    <3>1. CASE t.a \in Signs /\ t.d \in Signs /\ t.b = 0 /\ t.c = 0
      BY <1>3, <3>1 DEF Rigid, Signs
    <3>2. CASE t.b \in Signs /\ t.c \in Signs /\ t.a = 0 /\ t.d = 0
      <4>1. t.den = 1 /\ t.u \in Int /\ t.v \in Int
        BY DEF Rigid
      <4>2. CASE t.b = 1 /\ t.c = 1
        BY <1>3, <3>2, <4>1, <4>2
      <4>3. CASE t.b = 1 /\ t.c = -1
        BY <1>3, <3>2, <4>1, <4>3
      <4>4. CASE t.b = -1 /\ t.c = 1
        BY <1>3, <3>2, <4>1, <4>4
      <4>5. CASE t.b = -1 /\ t.c = -1
        BY <1>3, <3>2, <4>1, <4>5
      <4> QED
        BY <3>2, <4>2, <4>3, <4>4, <4>5 DEF Signs
    <3> QED
      BY <3>1, <3>2 DEF Rigid, SquareTurn
  <2> QED
    BY <2>1, <2>2, <2>3
<1> QED
  BY <1>2, <1>5 DEF Ok
=============================================================================
