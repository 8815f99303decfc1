-------------------------- MODULE AlgorithmsProofs --------------------------
(***************************************************************************)
(* What the algorithms answer, for every job that is typed: suppression,   *)
(* the queries of the visual index and the labels of marks; the cells of a *)
(* grid, the view of a turned, mirrored and cut image, and the boxes made  *)
(* of connected components.                                                *)
(***************************************************************************)
EXTENDS Algorithms, CommonProofs, SequenceTheorems, TLAPS

\* What the suppression does with the next region.
VisitRegion(given, state, i) == KeepRegion(given.regions, given.params, state, i)

Visits == INSTANCE FoldSteps WITH Op <- VisitRegion

-----------------------------------------------------------------------------
(* Arrangements *)

\* Members of S, each of which precedes those after it.
Listing(S, precedes, a, m) ==
  /\ m \in Nat /\ DOMAIN a = 1 .. m /\ \A i \in 1 .. m : a[i] \in S
  /\ \A i, j \in 1 .. m : i < j => <<a[i], a[j]>> \in precedes

\* What is in the first list is in the second one too.
Covered(a, m, b, n) == \A i \in 1 .. m : \E j \in 1 .. n : b[j] = a[i]

\* Two lists of the same members are the same.
LEMMA OneSortedArrangement ==
  ASSUME NEW S, NEW precedes, StrictOrder(S, precedes),
         NEW a, NEW b, NEW m, NEW n, Listing(S, precedes, a, m), Listing(S, precedes, b, n),
         Covered(a, m, b, n), Covered(b, n, a, m)
  PROVE  m = n /\ \A i \in 1 .. m : a[i] = b[i]
<1>a. /\ m \in Nat /\ n \in Nat /\ DOMAIN a = 1 .. m /\ DOMAIN b = 1 .. n
      /\ \A i \in 1 .. m : a[i] \in S
      /\ \A j \in 1 .. n : b[j] \in S
      /\ \A i, j \in 1 .. m : i < j => <<a[i], a[j]>> \in precedes
      /\ \A i, j \in 1 .. n : i < j => <<b[i], b[j]>> \in precedes
  BY DEF Listing
<1>b. /\ \A i \in 1 .. m : \E j \in 1 .. n : b[j] = a[i]
      /\ \A j \in 1 .. n : \E i \in 1 .. m : a[i] = b[j]
  BY DEF Covered
<1>0. /\ \A x \in S : <<x, x>> \notin precedes
      /\ \A x, y \in S : <<x, y>> \in precedes => <<y, x>> \notin precedes
  BY <1>a DEF StrictOrder
<1>1. ASSUME NEW i \in 1 .. m, NEW j \in 1 .. m, a[i] = a[j] PROVE i = j
  <2>1. a[i] \in S /\ <<a[i], a[i]>> \notin precedes
    BY <1>a, <1>0
  <2>2. ~(i < j) /\ ~(j < i)
    BY <1>a, <1>1, <2>1
  <2> QED
    BY <1>a, <2>2
<1>2. ASSUME NEW i \in 1 .. n, NEW j \in 1 .. n, b[i] = b[j] PROVE i = j
  <2>1. b[i] \in S /\ <<b[i], b[i]>> \notin precedes
    BY <1>a, <1>0
  <2>2. ~(i < j) /\ ~(j < i)
    BY <1>a, <1>2, <2>1
  <2> QED
    BY <1>a, <2>2
<1> DEFINE Agree(j) == (j <= m <=> j <= n) /\ (j <= m => a[j] = b[j])
           P == {i \in Nat : \A j \in 1 .. i : Agree(j)}
<1>3. 0 \in P
  OBVIOUS
<1>4. ASSUME NEW i \in Nat, i \in P, i + 1 <= m PROVE i + 1 <= n /\ a[i + 1] = b[i + 1]
  <2> DEFINE k == i + 1
  <2>1. k \in 1 .. m /\ \A l \in 1 .. m : l < k => l <= n /\ a[l] = b[l]
    <3>1. \A l \in 1 .. m : l < k => l \in 1 .. i
      OBVIOUS
    <3> QED
      BY <1>a, <1>4, <3>1
  <2>2. PICK j \in 1 .. n : b[j] = a[k]
    BY <1>b, <2>1
  <2>3. j >= k
    BY <1>a, <1>1, <2>1, <2>2
  <2>4. k \in 1 .. n
    BY <1>a, <2>1, <2>3
  <2>5. PICK l \in 1 .. m : a[l] = b[k]
    BY <1>b, <2>4
  <2>6. l >= k
    BY <1>a, <1>2, <2>1, <2>4, <2>5
  <2>7. CASE j = k
    BY <1>a, <2>2, <2>4, <2>7
  <2>8. CASE l = k
    BY <1>a, <2>5, <2>4, <2>8
  <2>9. CASE j > k /\ l > k
    <3>1. <<b[k], b[j]>> \in precedes /\ <<a[k], a[l]>> \in precedes
      BY <1>a, <2>1, <2>4, <2>9
    <3> QED
      BY <1>a, <1>0, <2>1, <2>2, <2>4, <2>5, <3>1
  <2> QED
    BY <1>a, <2>1, <2>3, <2>6, <2>7, <2>8, <2>9
<1>5. ASSUME NEW i \in Nat, i \in P, i + 1 <= n PROVE i + 1 <= m
  <2> DEFINE k == i + 1
  <2>1. k \in 1 .. n /\ \A l \in 1 .. n : l < k => l <= m /\ a[l] = b[l]
    <3>1. \A l \in 1 .. n : l < k => l \in 1 .. i
      OBVIOUS
    <3> QED
      BY <1>a, <1>5, <3>1
  <2>2. PICK j \in 1 .. m : a[j] = b[k]
    BY <1>b, <2>1
  <2>3. j >= k
    BY <1>a, <1>2, <2>1, <2>2
  <2> QED
    BY <1>a, <2>3
<1>6. ASSUME NEW i \in Nat, i \in P PROVE i + 1 \in P
  <2>1. \A j \in 1 .. i + 1 : j \in 1 .. i \/ j = i + 1
    OBVIOUS
  <2>2. i + 1 <= m <=> i + 1 <= n
    BY <1>a, <1>4, <1>5, <1>6
  <2>3. i + 1 <= m => a[i + 1] = b[i + 1]
    BY <1>a, <1>4, <1>6
  <2>4. Agree(i + 1)
    BY <1>a, <2>2, <2>3
  <2>5. \A j \in 1 .. i : Agree(j)
    BY <1>a, <1>6
  <2> HIDE DEF Agree
  <2> QED
    BY <1>a, <2>1, <2>4, <2>5
<1> HIDE DEF P
<1>7. \A i \in Nat : i \in P
  BY <1>3, <1>6, Visits!SetInduction
<1>8. \A i \in Nat : \A j \in 1 .. i : Agree(j)
  BY <1>a, <1>7 DEF P
<1>9. \A i \in Nat : i > 0 => Agree(i)
  <2> HIDE DEF Agree
  <2>1. \A i \in Nat : i > 0 => i \in 1 .. i
    OBVIOUS
  <2> QED
    BY <1>a, <1>8, <2>1
<1>10. m = n
  BY <1>a, <1>9
<1>11. \A i \in 1 .. m : Agree(i)
  BY <1>a, <1>9
<1> QED
  BY <1>a, <1>10, <1>11

-----------------------------------------------------------------------------
(* The suppression of detections *)

\* What the proof needs to know of the regions.
Graded(regions, n) ==
  /\ n \in Nat /\ DOMAIN regions = 1 .. n
  /\ \A i \in 1 .. n : regions[i].confidence \in Int

Ranked(regions) == SortedBy(DOMAIN regions, Stronger(regions))

Suppression(regions, params) ==
  Visits!Folded([regions |-> regions, params |-> params], [kept |-> <<>>, suppressed |-> {}], Ranked(regions))

LEMMA SurvivorsAre ==
  ASSUME NEW regions, NEW params
  PROVE  Survivors(regions, params) = Suppression(regions, params).kept
BY DEF Survivors, Suppression, Ranked, VisitRegion, Visits!Folded, FoldLeft, Visits!FoldLeft,
       MapThenFoldSet, Visits!MapThenFoldSet, Max, Visits!Max

LEMMA StrongerIs ==
  ASSUME NEW regions, NEW n, Graded(regions, n), NEW i, NEW j
  PROVE  <<i, j>> \in Stronger(regions) <=>
           /\ i \in 1 .. n /\ j \in 1 .. n
           /\ \/ regions[i].confidence > regions[j].confidence
              \/ regions[i].confidence = regions[j].confidence /\ i < j
<1>1. n \in Nat /\ DOMAIN regions = 1 .. n /\ \A k \in 1 .. n : regions[k].confidence \in Int
  BY DEF Graded
<1>2. <<i, j>> \in Stronger(regions) => i \in 1 .. n /\ j \in 1 .. n
  BY <1>1 DEF Stronger
<1>3. ASSUME i \in 1 .. n, j \in 1 .. n
      PROVE  <<i, j>> \in Stronger(regions) <=>
               \/ regions[i].confidence > regions[j].confidence
               \/ regions[i].confidence = regions[j].confidence /\ i < j
  BY <1>1, <1>3 DEF Stronger
<1> QED
  BY <1>2, <1>3

\* The ranking is one of the regions, and strict.
LEMMA RankingIs ==
  ASSUME NEW regions, NEW n, Graded(regions, n)
  PROVE  /\ StrictOrder(1 .. n, Stronger(regions))
         /\ DOMAIN Ranked(regions) = 1 .. n
         /\ \A k \in 1 .. n : Ranked(regions)[k] \in 1 .. n
         /\ \A i \in 1 .. n : \E k \in 1 .. n : Ranked(regions)[k] = i
         /\ \A j, k \in 1 .. n : j < k => <<Ranked(regions)[j], Ranked(regions)[k]>> \in Stronger(regions)
<1> DEFINE S == 1 .. n
           c == [i \in S |-> regions[i].confidence]
<1>1. n \in Nat /\ IsFiniteSet(S) /\ Cardinality(S) = n /\ DOMAIN regions = S
  BY FS_Interval DEF Graded
<1>2. \A i \in S : c[i] \in Int /\ c[i] = regions[i].confidence
  BY DEF Graded
<1>3. \A i, j : <<i, j>> \in Stronger(regions) <=>
                  i \in S /\ j \in S /\ (c[i] > c[j] \/ (c[i] = c[j] /\ i < j))
  <2> SUFFICES ASSUME NEW i, NEW j
               PROVE  <<i, j>> \in Stronger(regions) <=>
                        i \in S /\ j \in S /\ (c[i] > c[j] \/ (c[i] = c[j] /\ i < j))
    OBVIOUS
  <2> HIDE DEF S, c
  <2> QED
    BY <1>1, <1>2, StrongerIs DEF S
<1>4. \A i \in S : i \in Int
  BY <1>1
<1> HIDE DEF S, c
<1>5. StrictOrder(S, Stronger(regions))
  BY <1>2, <1>3, <1>4 DEF StrictOrder
<1> DEFINE sorted == SortedBy(S, Stronger(regions))
<1>6. /\ DOMAIN sorted = 1 .. n
      /\ \A k \in 1 .. n : sorted[k] \in S
      /\ \A x \in S : \E k \in 1 .. n : sorted[k] = x
  BY <1>1, SortedArranges
<1>7. \A i, j \in 1 .. n : i < j => <<sorted[i], sorted[j]>> \in Stronger(regions)
  BY <1>1, <1>5, SortedSorts
<1>8. Ranked(regions) = sorted
  BY <1>1 DEF Ranked
<1> HIDE DEF sorted
<1> QED
  BY <1>5, <1>6, <1>7, <1>8 DEF S

-----------------------------------------------------------------------------
(* What is kept and what is not *)

\* The kept places k in a state that has come to the first t of the ranking.
KeptOf(regions, params, t, state) ==
  LET kept == state.kept
      m == Len(kept)
      ranked == Ranked(regions)
      Beats(i, j) == Suppresses(regions[i], regions[j], params)
  IN  /\ kept \in Seq(DOMAIN regions)
      /\ params.max_output > 0 => m <= params.max_output
      /\ \A x \in 1 .. m : \E s \in 1 .. t : kept[x] = ranked[s]
      /\ \A x, y \in 1 .. m : x < y => <<kept[x], kept[y]>> \in Stronger(regions) /\ ~Beats(kept[x], kept[y])
      /\ state.suppressed = {j \in DOMAIN regions : \E x \in 1 .. m : j # kept[x] /\ Beats(kept[x], j)}
      /\ \A s \in 1 .. t :
           \/ \E x \in 1 .. m : kept[x] = ranked[s]
           \/ \E x \in 1 .. m : /\ <<kept[x], ranked[s]>> \in Stronger(regions)
                                /\ \/ Beats(kept[x], ranked[s])
                                   \/ params.max_output > 0 /\ m = params.max_output /\ x = m

\* A sequence that grows by an element.
LEMMA KeepingStep ==
  ASSUME NEW regions, NEW n, Graded(regions, n), NEW params, params.max_output \in Nat,
         NEW t \in 1 .. n, NEW state, KeptOf(regions, params, t - 1, state)
  PROVE  KeptOf(regions, params, t, KeepRegion(regions, params, state, Ranked(regions)[t]))
<1> DEFINE kept == state.kept
           m == Len(kept)
           ranked == Ranked(regions)
           i == ranked[t]
           max == params.max_output
           S == 1 .. n
           Beats(a, b) == Suppresses(regions[a], regions[b], params)
           strong == Stronger(regions)
<1>1. /\ StrictOrder(S, strong) /\ i \in S
      /\ \A j, k \in 1 .. n : j < k => <<ranked[j], ranked[k]>> \in strong
      /\ DOMAIN regions = S /\ n \in Nat /\ max \in Nat
  BY RankingIs DEF Graded
<1>2. /\ kept \in Seq(S) /\ m \in Nat
      /\ max > 0 => m <= max
      /\ \A x \in 1 .. m : \E s \in 1 .. t - 1 : kept[x] = ranked[s]
      /\ \A x, y \in 1 .. m : x < y => <<kept[x], kept[y]>> \in strong /\ ~Beats(kept[x], kept[y])
      /\ state.suppressed = {j \in S : \E x \in 1 .. m : j # kept[x] /\ Beats(kept[x], j)}
      /\ \A s \in 1 .. t - 1 :
           \/ \E x \in 1 .. m : kept[x] = ranked[s]
           \/ \E x \in 1 .. m : /\ <<kept[x], ranked[s]>> \in strong
                                /\ Beats(kept[x], ranked[s]) \/ (max > 0 /\ m = max /\ x = m)
  BY <1>1, LenProperties DEF KeptOf
<1>3. \A x \in 1 .. m : kept[x] \in S /\ <<kept[x], i>> \in strong /\ kept[x] # i
  <2> SUFFICES ASSUME NEW x \in 1 .. m PROVE kept[x] \in S /\ <<kept[x], i>> \in strong /\ kept[x] # i
    OBVIOUS
  <2>1. PICK s \in 1 .. t - 1 : kept[x] = ranked[s]
    BY <1>2
  <2>2. s \in 1 .. n /\ s < t /\ t \in 1 .. n
    BY <1>1
  <2>3. <<kept[x], i>> \in strong
    BY <1>1, <2>1, <2>2
  <2>4. kept[x] \in S
    BY <2>1, <2>2, RankingIs
  <2> QED
    BY <1>1, <2>3, <2>4 DEF StrictOrder
<1> DEFINE next == KeepRegion(regions, params, state, i)
<1> HIDE DEF strong, S, i, ranked
<1> HIDE DEF next
<1>4. ASSUME i \in state.suppressed \/ (max > 0 /\ m >= max) PROVE KeptOf(regions, params, t, next)
  <2>1. next = state
    BY <1>4 DEF KeepRegion, next
  <2>2. \E x \in 1 .. m : <<kept[x], i>> \in strong /\ (Beats(kept[x], i) \/ (max > 0 /\ m = max /\ x = m))
    <3>1. CASE i \in state.suppressed
      BY <1>2, <1>3, <3>1
    <3>2. CASE max > 0 /\ m >= max
      <4>1. m = max /\ m \in 1 .. m
        BY <1>1, <1>2, <3>2
      <4> QED
        BY <1>3, <3>2, <4>1
    <3> QED
      BY <1>4, <3>1, <3>2
  <2>3. \A s \in 1 .. t : s \in 1 .. t - 1 \/ s = t
    BY <1>1
  <2>4. \A s \in 1 .. t - 1 : s \in 1 .. t
    BY <1>1
  <2>5. \A x \in 1 .. m : \E s \in 1 .. t : kept[x] = ranked[s]
    BY <1>2, <2>4
  <2>6. \A s \in 1 .. t :
          \/ \E x \in 1 .. m : kept[x] = ranked[s]
          \/ \E x \in 1 .. m : /\ <<kept[x], ranked[s]>> \in strong
                               /\ Beats(kept[x], ranked[s]) \/ (max > 0 /\ m = max /\ x = m)
    BY <1>2, <2>2, <2>3 DEF i
  <2> QED
    BY <1>1, <1>2, <2>1, <2>5, <2>6 DEF KeptOf, strong, ranked
<1>5. ASSUME ~(i \in state.suppressed \/ (max > 0 /\ m >= max)) PROVE KeptOf(regions, params, t, next)
  <2> DEFINE longer == Append(kept, i)
             more == state.suppressed \cup {j \in S \ {i} : Beats(i, j)}
  <2>1. next = [kept |-> longer, suppressed |-> more]
    BY <1>1, <1>5 DEF KeepRegion, next
  <2>2. next.kept = longer /\ next.suppressed = more
    BY <2>1
  <2>3. /\ longer \in Seq(S) /\ Len(longer) = m + 1
        /\ \A x \in 1 .. m : longer[x] = kept[x]
        /\ longer[m + 1] = i
    BY <1>1, <1>2, Appended
  <2> HIDE DEF longer, next
  <2>4. \A x \in 1 .. m + 1 : x \in 1 .. m \/ x = m + 1
    BY <1>2
  <2>5. \A x \in 1 .. m : x \in 1 .. m + 1
    BY <1>2
  <2>6. \A x \in 1 .. m : ~Beats(kept[x], i)
    BY <1>1, <1>2, <1>3, <1>5
  <2>7. \A s \in 1 .. t : s \in 1 .. t - 1 \/ s = t
    BY <1>1
  <2>8. \A s \in 1 .. t - 1 : s \in 1 .. t
    BY <1>1
  <2>9. max > 0 => m + 1 <= max
    BY <1>1, <1>2, <1>5
  <2>10. \A x \in 1 .. m + 1 : \E s \in 1 .. t : longer[x] = ranked[s]
    <3>1. t \in 1 .. t
      BY <1>1
    <3> QED
      BY <1>2, <2>3, <2>4, <2>8, <3>1 DEF i
  <2>11. \A x, y \in 1 .. m + 1 : x < y => <<longer[x], longer[y]>> \in strong /\ ~Beats(longer[x], longer[y])
    <3> SUFFICES ASSUME NEW x \in 1 .. m + 1, NEW y \in 1 .. m + 1, x < y
                 PROVE  <<longer[x], longer[y]>> \in strong /\ ~Beats(longer[x], longer[y])
      OBVIOUS
    <3>1. x \in 1 .. m
      BY <1>2
    <3>2. CASE y \in 1 .. m
      BY <1>2, <2>3, <3>1, <3>2
    <3>3. CASE y = m + 1
      BY <1>3, <2>3, <2>6, <3>1, <3>3
    <3> QED
      BY <2>4, <3>2, <3>3
  <2>12. more = {j \in S : \E x \in 1 .. m + 1 : j # longer[x] /\ Beats(longer[x], j)}
    <3>1. m + 1 \in 1 .. m + 1
      BY <1>2
    <3>2. \A j \in S : (\E x \in 1 .. m + 1 : j # longer[x] /\ Beats(longer[x], j)) <=>
                         (\E x \in 1 .. m : j # kept[x] /\ Beats(kept[x], j)) \/ (j # i /\ Beats(i, j))
      BY <2>3, <2>4, <2>5, <3>1
    <3> HIDE DEF Beats
    <3> QED
      BY <1>2, <3>2
  <2>13. \A s \in 1 .. t :
           \/ \E x \in 1 .. m + 1 : longer[x] = ranked[s]
           \/ \E x \in 1 .. m + 1 : /\ <<longer[x], ranked[s]>> \in strong
                                    /\ Beats(longer[x], ranked[s]) \/ (max > 0 /\ m + 1 = max /\ x = m + 1)
    <3> SUFFICES ASSUME NEW s \in 1 .. t
                 PROVE  \/ \E x \in 1 .. m + 1 : longer[x] = ranked[s]
                        \/ \E x \in 1 .. m + 1 : <<longer[x], ranked[s]>> \in strong /\ Beats(longer[x], ranked[s])
      OBVIOUS
    <3>1. CASE s = t
      <4>1. m + 1 \in 1 .. m + 1
        BY <1>2
      <4> QED
        BY <2>3, <3>1, <4>1 DEF i
    <3>2. CASE s \in 1 .. t - 1
      <4>1. ~(max > 0 /\ m = max)
        BY <1>1, <1>2, <1>5
      <4>2. PICK x \in 1 .. m :
              \/ kept[x] = ranked[s]
              \/ <<kept[x], ranked[s]>> \in strong /\ Beats(kept[x], ranked[s])
        BY <1>2, <3>2, <4>1
      <4> QED
        BY <2>3, <2>5, <4>2
    <3> QED
      BY <2>7, <3>1, <3>2
  <2> QED
    <3> DEFINE final == next.kept
               count == Len(final)
    <3>1. final = longer /\ count = m + 1
      BY <2>2, <2>3
    <3>2. next.suppressed = more
      BY <2>2
    <3> HIDE DEF final, count
    <3>3. /\ final \in Seq(S) /\ (max > 0 => count <= max)
          /\ \A x \in 1 .. count : \E s \in 1 .. t : final[x] = ranked[s]
          /\ \A x, y \in 1 .. count : x < y => <<final[x], final[y]>> \in strong /\ ~Beats(final[x], final[y])
      BY <2>3, <2>9, <2>10, <2>11, <3>1
    <3>4. next.suppressed = {j \in S : \E x \in 1 .. count : j # final[x] /\ Beats(final[x], j)}
      BY <2>12, <3>1, <3>2
    <3>5. \A s \in 1 .. t :
           \/ \E x \in 1 .. count : final[x] = ranked[s]
           \/ \E x \in 1 .. count : /\ <<final[x], ranked[s]>> \in strong
                                    /\ Beats(final[x], ranked[s]) \/ (max > 0 /\ count = max /\ x = count)
      BY <2>13, <3>1
    <3> QED
      BY <1>1, <3>3, <3>4, <3>5 DEF KeptOf, strong, ranked, final, count
<1> QED
  BY <1>4, <1>5 DEF next, i, ranked

\* What is kept in the end.
LEMMA KeptInTheEnd ==
  ASSUME NEW regions, NEW n, Graded(regions, n), NEW params, params.max_output \in Nat
  PROVE  \E state : KeptOf(regions, params, n, state) /\ Survivors(regions, params) = state.kept
<1> DEFINE given == [regions |-> regions, params |-> params]
           base == [kept |-> <<>>, suppressed |-> {}]
<1>1. n \in Nat /\ DOMAIN Ranked(regions) = 1 .. n /\ DOMAIN regions = 1 .. n
  BY RankingIs DEF Graded
<1>2. PICK a : Visits!Trace(given, base, Ranked(regions), n, a) /\ Suppression(regions, params) = a[n]
  <2> HIDE DEF given, base
  <2>1. \E a : Visits!Trace(given, base, Ranked(regions), n, a)
               /\ Visits!Folded(given, base, Ranked(regions)) = a[n]
    BY <1>1, Visits!FoldTrace
  <2> QED
    BY <2>1 DEF Suppression, given, base
<1>3. a[0] = base /\ \A t \in 1 .. n : a[t] = KeepRegion(regions, params, a[t - 1], Ranked(regions)[t])
  <2>1. given.regions = regions /\ given.params = params
    OBVIOUS
  <2> HIDE DEF given, base
  <2> QED
    BY <1>2, <2>1 DEF Visits!Trace, VisitRegion
<1> DEFINE P == {t \in 0 .. n : KeptOf(regions, params, t, a[t])}
<1>4. 0 \in P
  <2>1. base.kept = <<>> /\ base.suppressed = {} /\ Len(<<>>) = 0
    OBVIOUS
  <2> HIDE DEF base
  <2>2. KeptOf(regions, params, 0, a[0])
    BY <1>3, <2>1 DEF KeptOf
  <2> QED
    BY <1>1, <2>2
<1>5. ASSUME NEW t \in 1 .. n, t - 1 \in P PROVE t \in P
  <2>1. KeptOf(regions, params, t, KeepRegion(regions, params, a[t - 1], Ranked(regions)[t]))
    BY <1>5, KeepingStep
  <2> QED
    BY <1>1, <1>3, <2>1
<1> HIDE DEF P
<1>6. \A t \in 0 .. n : t \in P
  BY <1>1, <1>4, <1>5, Visits!BoundedInduction
<1>7. KeptOf(regions, params, n, a[n])
  BY <1>1, <1>6 DEF P
<1> QED
  BY <1>2, <1>7, SurvivorsAre

\* The same, told of the places that are kept.
LEMMA SurvivorsRule ==
  ASSUME NEW regions, NEW n, Graded(regions, n), NEW params, params.max_output \in Nat
  PROVE  LET kept == Survivors(regions, params)
             m == Len(kept)
             Beats(i, j) == Suppresses(regions[i], regions[j], params)
         IN  /\ m \in Nat /\ DOMAIN kept = 1 .. m /\ \A x \in 1 .. m : kept[x] \in 1 .. n
             /\ params.max_output > 0 => m <= params.max_output
             /\ \A x, y \in 1 .. m :
                  x < y => <<kept[x], kept[y]>> \in Stronger(regions) /\ ~Beats(kept[x], kept[y])
             /\ \A i \in 1 .. n :
                  \/ \E x \in 1 .. m : kept[x] = i
                  \/ \E x \in 1 .. m : /\ <<kept[x], i>> \in Stronger(regions)
                                       /\ \/ Beats(kept[x], i)
                                          \/ params.max_output > 0 /\ m = params.max_output /\ x = m
<1>1. PICK state : KeptOf(regions, params, n, state) /\ Survivors(regions, params) = state.kept
  BY KeptInTheEnd
<1> DEFINE kept == Survivors(regions, params)
           m == Len(kept)
           ranked == Ranked(regions)
           Beats(i, j) == Suppresses(regions[i], regions[j], params)
<1>7. kept = state.kept
  BY <1>1
<1> HIDE DEF kept
<1>2. /\ kept \in Seq(DOMAIN regions)
      /\ params.max_output > 0 => m <= params.max_output
      /\ \A x, y \in 1 .. m : x < y => <<kept[x], kept[y]>> \in Stronger(regions) /\ ~Beats(kept[x], kept[y])
      /\ \A s \in 1 .. n :
           \/ \E x \in 1 .. m : kept[x] = ranked[s]
           \/ \E x \in 1 .. m : /\ <<kept[x], ranked[s]>> \in Stronger(regions)
                                /\ \/ Beats(kept[x], ranked[s])
                                   \/ params.max_output > 0 /\ m = params.max_output /\ x = m
  BY <1>1, <1>7 DEF KeptOf
<1>3. DOMAIN regions = 1 .. n
  BY DEF Graded
<1>4. \A i \in 1 .. n : \E s \in 1 .. n : ranked[s] = i
  BY RankingIs
<1>5. /\ m \in Nat /\ DOMAIN kept = 1 .. m
      /\ \A x \in 1 .. m : kept[x] \in 1 .. n
  BY <1>2, <1>3, LenProperties, ElementOfSeq
<1> HIDE DEF m, ranked, Beats
<1>6. \A i \in 1 .. n :
        \/ \E x \in 1 .. m : kept[x] = i
        \/ \E x \in 1 .. m : /\ <<kept[x], i>> \in Stronger(regions)
                             /\ \/ Beats(kept[x], i)
                                \/ params.max_output > 0 /\ m = params.max_output /\ x = m
  BY <1>2, <1>4
<1> QED
  BY <1>2, <1>5, <1>6 DEF kept, m, Beats

-----------------------------------------------------------------------------
(* Suppression keeps the best *)

\* Products of lesser numbers are lesser.
LEMMA ProductIsLess ==
  ASSUME NEW a \in Nat, NEW b \in Nat, NEW c \in Nat, NEW d \in Nat, a <= c, b <= d
  PROVE  a * b <= c * d
<1>1. a * b <= c * b
  <2>1. \E k \in Nat : c = a + k
    <3>1. c - a \in Nat /\ c = a + (c - a)
      OBVIOUS
    <3> QED
      BY <3>1
  <2>2. PICK k \in Nat : c = a + k
    BY <2>1
  <2>3. c * b = a * b + k * b /\ k * b \in Nat /\ a * b \in Nat
    BY <2>2
  <2> QED
    BY <2>3
<1>2. c * b <= c * d
  <2>1. PICK k \in Nat : d = b + k
    <3>1. d - b \in Nat /\ d = b + (d - b)
      OBVIOUS
    <3> QED
      BY <3>1
  <2>2. c * d = c * b + c * k /\ c * k \in Nat /\ c * b \in Nat
    BY <2>1
  <2> QED
    BY <2>2
<1>3. a * b \in Int /\ c * b \in Int /\ c * d \in Int
  OBVIOUS
<1> QED
  BY <1>1, <1>2, <1>3

\* What two rectangles share is within both of them.
LEMMA SharedIs ==
  ASSUME NEW a \in RectRecord, NEW b \in RectRecord
  PROVE  /\ IntersectionArea(a, b) \in Nat /\ Area(a) \in Int /\ Area(b) \in Int
         /\ IntersectionArea(a, b) = IntersectionArea(b, a)
         /\ IntersectionArea(a, b) > 0 =>
              /\ Area(a) > 0 /\ IntersectionArea(a, b) <= Area(a)
              /\ Area(b) > 0 /\ IntersectionArea(a, b) <= Area(b)
<1> DEFINE across == Overlap(a.x, a.w, b.x, b.w)
           down == Overlap(a.y, a.h, b.y, b.h)
<1>1. /\ across \in Nat /\ (across > 0 => a.w > 0 /\ b.w > 0)
      /\ down \in Nat /\ (down > 0 => a.h > 0 /\ b.h > 0)
  BY OverlapIs DEF RectRecord
<1>2. /\ across = Overlap(b.x, b.w, a.x, a.w) /\ (a.w >= 0 => across <= a.w) /\ (b.w >= 0 => across <= b.w)
      /\ down = Overlap(b.y, b.h, a.y, a.h) /\ (a.h >= 0 => down <= a.h) /\ (b.h >= 0 => down <= b.h)
  BY OverlapWithin DEF RectRecord
<1>3. IntersectionArea(a, b) = across * down /\ IntersectionArea(b, a) = across * down
  BY <1>2 DEF IntersectionArea
<1> DEFINE aw == a.w
           ah == a.h
           bw == b.w
           bh == b.h
<1>4. aw \in Int /\ ah \in Int /\ bw \in Int /\ bh \in Int /\ Area(a) = aw * ah /\ Area(b) = bw * bh
  BY DEF RectRecord, Area
<1>5. /\ across > 0 => aw > 0 /\ bw > 0 /\ across <= aw /\ across <= bw
      /\ down > 0 => ah > 0 /\ bh > 0 /\ down <= ah /\ down <= bh
  BY <1>1, <1>2, <1>4
<1> HIDE DEF across, down, aw, ah, bw, bh
<1>6. across * down \in Nat /\ (across * down > 0 => across > 0 /\ down > 0)
  BY <1>1, AreaIsPositive
<1>7. ASSUME across > 0, down > 0
      PROVE  aw * ah > 0 /\ bw * bh > 0 /\ across * down <= aw * ah /\ across * down <= bw * bh
  <2>1. aw \in Nat /\ ah \in Nat /\ bw \in Nat /\ bh \in Nat
        /\ aw > 0 /\ ah > 0 /\ bw > 0 /\ bh > 0
        /\ across <= aw /\ across <= bw /\ down <= ah /\ down <= bh
    BY <1>4, <1>5, <1>7
  <2>2. aw * ah > 0 /\ bw * bh > 0
    BY <2>1, AreaIsPositive
  <2> QED
    BY <1>1, <2>1, <2>2, ProductIsLess
<1>8. aw * ah \in Int /\ bw * bh \in Int
  BY <1>4
<1> QED
  BY <1>3, <1>4, <1>6, <1>7, <1>8

\* Two regions conflict: they share more than the part that is allowed.
Conflict(a, b, params) ==
  LET shared == IntersectionArea(a.bounds, b.bounds)
  IN  /\ shared > 0
      /\ shared * params.iou[2] > params.iou[1] * (Area(a.bounds) + Area(b.bounds) - shared)
      /\ params.class_aware => a.class = b.class

LEMMA SuppressesIs ==
  ASSUME NEW a, NEW b, NEW params, a.bounds \in RectRecord, b.bounds \in RectRecord,
         params.iou \in Int \X Int, params.iou[1] >= 0
  PROVE  Suppresses(a, b, params) <=> Conflict(a, b, params)
<1> DEFINE shared == IntersectionArea(a.bounds, b.bounds)
           first == Area(a.bounds)
           second == Area(b.bounds)
           r == params.iou[1]
           q == params.iou[2]
           joint == first + second - shared
           ratio == IntersectionOverUnion(a.bounds, b.bounds)
<1>1. /\ shared \in Nat /\ first \in Int /\ second \in Int
      /\ shared > 0 => first > 0 /\ second > 0 /\ shared <= first
  BY SharedIs
<1>2. r \in Nat /\ q \in Int
  OBVIOUS
<1>3. ratio = IF first <= 0 \/ second <= 0 THEN <<0, 1>>
              ELSE IF joint > 0 THEN <<shared, joint>> ELSE <<0, 1>>
  BY DEF IntersectionOverUnion, Iou, Zero
<1>4. LessThan(params.iou, ratio) <=> ~(r * ratio[2] >= ratio[1] * q)
  BY DEF LessThan, AtLeast
<1>5. Suppresses(a, b, params) <=>
        LessThan(params.iou, ratio) /\ (params.class_aware => a.class = b.class)
  BY DEF Suppresses
<1>6. Conflict(a, b, params) <=>
        shared > 0 /\ shared * q > r * joint /\ (params.class_aware => a.class = b.class)
  BY DEF Conflict
<1> HIDE DEF shared, first, second, r, q, ratio
<1>7. CASE shared > 0
  <2>1. joint > 0 /\ joint \in Nat /\ ratio = <<shared, joint>>
    BY <1>1, <1>3, <1>7
  <2> HIDE DEF joint
  <2>2. LessThan(params.iou, ratio) <=> ~(r * joint >= shared * q)
    BY <1>4, <2>1
  <2>3. r * joint \in Int /\ shared * q \in Int
    BY <1>1, <1>2, <2>1
  <2> QED
    BY <1>5, <1>6, <1>7, <2>2, <2>3
<1>8. CASE shared = 0
  <2>1. ratio[1] = 0 /\ ratio[2] \in Nat
    BY <1>1, <1>3, <1>8
  <2>2. r * ratio[2] >= 0 /\ ratio[1] * q = 0
    <3> DEFINE d == ratio[2]
    <3>1. d \in Nat
      BY <2>1
    <3> HIDE DEF d
    <3>2. r * d >= 0
      BY <1>2, <3>1
    <3>3. 0 * q = 0
      BY <1>2
    <3> QED
      BY <2>1, <3>2, <3>3 DEF d
  <2> QED
    BY <1>4, <1>5, <1>6, <1>8, <2>2
<1> QED
  BY <1>1, <1>7, <1>8

-----------------------------------------------------------------------------
(* A filter before the suppression and after it *)

\* Places of P, the strongest first, that do not suppress each other, while
\* every other place of P is suppressed by a stronger one of them.
Kernel(regions, params, P, a, m) ==
  LET Beats(i, j) == Suppresses(regions[i], regions[j], params)
      strong == Stronger(regions)
  IN  /\ m \in Nat /\ DOMAIN a = 1 .. m /\ \A x \in 1 .. m : a[x] \in P
      /\ \A x, y \in 1 .. m : x < y => <<a[x], a[y]>> \in strong /\ ~Beats(a[x], a[y])
      /\ \A i \in P :
           \/ \E x \in 1 .. m : a[x] = i
           \/ \E x \in 1 .. m : <<a[x], i>> \in strong /\ Beats(a[x], i)

\* What is in one of them is in the other, when that is so of all that is stronger.
LEMMA KernelsAgreeNext ==
  ASSUME NEW regions, NEW n, Graded(regions, n), NEW params, NEW P \in SUBSET (1 .. n),
         NEW a, NEW m, Kernel(regions, params, P, a, m),
         NEW b, NEW e, Kernel(regions, params, P, b, e),
         NEW t \in 1 .. n,
         \A s \in 1 .. t - 1 : (\E x \in 1 .. e : b[x] = Ranked(regions)[s])
                                 => (\E x \in 1 .. m : a[x] = Ranked(regions)[s]),
         NEW z \in 1 .. m, a[z] = Ranked(regions)[t]
  PROVE  \E x \in 1 .. e : b[x] = Ranked(regions)[t]
<1> DEFINE ranked == Ranked(regions)
           strong == Stronger(regions)
           S == 1 .. n
           Beats(i, j) == Suppresses(regions[i], regions[j], params)
<1>1. /\ StrictOrder(S, strong)
      /\ \A i \in S : \E s \in 1 .. n : ranked[s] = i
      /\ \A j, k \in 1 .. n : j < k => <<ranked[j], ranked[k]>> \in strong
      /\ n \in Nat
  <2>1. n \in Nat
    BY DEF Graded
  <2>2. /\ StrictOrder(1 .. n, Stronger(regions))
        /\ \A i \in 1 .. n : \E k \in 1 .. n : Ranked(regions)[k] = i
        /\ \A j, k \in 1 .. n : j < k => <<Ranked(regions)[j], Ranked(regions)[k]>> \in Stronger(regions)
    BY RankingIs
  <2> QED
    BY <2>1, <2>2
<1>2. /\ m \in Nat /\ \A x \in 1 .. m : a[x] \in P
      /\ \A x, y \in 1 .. m : x < y => <<a[x], a[y]>> \in strong /\ ~Beats(a[x], a[y])
  BY DEF Kernel
<1>3. /\ \A x \in 1 .. e : b[x] \in P
      /\ \A i \in P : \/ \E x \in 1 .. e : b[x] = i
                      \/ \E x \in 1 .. e : <<b[x], i>> \in strong /\ Beats(b[x], i)
  BY DEF Kernel
<1>4. /\ \A x \in S : <<x, x>> \notin strong
      /\ \A x, y \in S : <<x, y>> \in strong => <<y, x>> \notin strong
  BY <1>1 DEF StrictOrder
<1> HIDE DEF strong, ranked, Beats, S
<1>5. SUFFICES ASSUME NEW y \in 1 .. e, <<b[y], a[z]>> \in strong, Beats(b[y], a[z]) PROVE FALSE
  BY <1>2, <1>3 DEF ranked
<1>6. b[y] \in S /\ a[z] \in S
  BY <1>2, <1>3 DEF S
<1>7. PICK r \in 1 .. n : ranked[r] = b[y]
  BY <1>1, <1>6
<1>8. r \in 1 .. t - 1
  <2>1. r # t
    BY <1>4, <1>5, <1>6, <1>7 DEF ranked
  <2>2. ~(t < r)
    <3> SUFFICES ASSUME t < r PROVE FALSE
      OBVIOUS
    <3>1. <<a[z], b[y]>> \in strong
      BY <1>1, <1>7 DEF ranked
    <3> QED
      BY <1>4, <1>5, <1>6, <3>1
  <2> QED
    BY <1>1, <2>1, <2>2
<1>9. PICK x \in 1 .. m : a[x] = b[y]
  BY <1>7, <1>8 DEF ranked
<1>10. x # z
  BY <1>4, <1>5, <1>6, <1>9
<1>11. ~(x < z)
  BY <1>2, <1>5, <1>9
<1>12. ~(z < x)
  <2> SUFFICES ASSUME z < x PROVE FALSE
    OBVIOUS
  <2>1. <<a[z], b[y]>> \in strong
    BY <1>2, <1>9
  <2> QED
    BY <1>4, <1>5, <1>6, <2>1
<1> QED
  BY <1>2, <1>10, <1>11, <1>12

\* There is one such sequence of places.
LEMMA OneKernel ==
  ASSUME NEW regions, NEW n, Graded(regions, n), NEW params, NEW P \in SUBSET (1 .. n),
         NEW a, NEW m, Kernel(regions, params, P, a, m),
         NEW b, NEW e, Kernel(regions, params, P, b, e)
  PROVE  m = e /\ \A x \in 1 .. m : a[x] = b[x]
<1> DEFINE ranked == Ranked(regions)
           S == 1 .. n
           Both(s) == (\E x \in 1 .. m : a[x] = ranked[s]) <=> (\E x \in 1 .. e : b[x] = ranked[s])
           G == {t \in 0 .. n : \A s \in 1 .. t : Both(s)}
<1>1. n \in Nat /\ StrictOrder(S, Stronger(regions)) /\ \A i \in S : \E s \in 1 .. n : ranked[s] = i
  <2>1. n \in Nat
    BY DEF Graded
  <2> QED
    BY <2>1, RankingIs
<1>2. 0 \in G
  BY <1>1
<1>3. ASSUME NEW t \in 1 .. n, t - 1 \in G PROVE t \in G
  <2>1. \A s \in 1 .. t - 1 : Both(s)
    BY <1>3
  <2>2. \A s \in 1 .. t - 1 : (\E x \in 1 .. e : b[x] = ranked[s]) => (\E x \in 1 .. m : a[x] = ranked[s])
    BY <2>1
  <2>3. \A s \in 1 .. t - 1 : (\E x \in 1 .. m : a[x] = ranked[s]) => (\E x \in 1 .. e : b[x] = ranked[s])
    BY <2>1
  <2>4. Both(t)
    <3> HIDE DEF G, S
    <3>1. ASSUME NEW z \in 1 .. m, a[z] = ranked[t] PROVE \E x \in 1 .. e : b[x] = ranked[t]
      BY <2>2, <3>1, KernelsAgreeNext
    <3>2. ASSUME NEW z \in 1 .. e, b[z] = ranked[t] PROVE \E x \in 1 .. m : a[x] = ranked[t]
      BY <2>3, <3>2, KernelsAgreeNext
    <3> QED
      BY <3>1, <3>2
  <2>5. \A s \in 1 .. t : s \in 1 .. t - 1 \/ s = t
    BY <1>1
  <2>6. \A s \in 1 .. t : Both(s)
    <3> HIDE DEF Both
    <3> QED
      BY <2>1, <2>4, <2>5
  <2>7. t \in 0 .. n
    BY <1>1
  <2> QED
    BY <2>6, <2>7
<1> HIDE DEF G
<1>4. \A t \in 0 .. n : t \in G
  BY <1>1, <1>2, <1>3, Visits!BoundedInduction
<1>5. \A s \in 1 .. n : Both(s)
  <2>1. n \in 0 .. n
    BY <1>1
  <2>2. n \in G
    BY <1>4, <2>1
  <2> QED
    BY <2>2 DEF G
<1>6. /\ m \in Nat /\ DOMAIN a = 1 .. m /\ \A x \in 1 .. m : a[x] \in S
      /\ e \in Nat /\ DOMAIN b = 1 .. e /\ \A x \in 1 .. e : b[x] \in S
      /\ \A x, y \in 1 .. m : x < y => <<a[x], a[y]>> \in Stronger(regions)
      /\ \A x, y \in 1 .. e : x < y => <<b[x], b[y]>> \in Stronger(regions)
  BY DEF Kernel
<1> HIDE DEF S, ranked
<1>7. Covered(a, m, b, e) /\ Covered(b, e, a, m)
  <2>1. ASSUME NEW x \in 1 .. m PROVE \E y \in 1 .. e : b[y] = a[x]
    <3>1. PICK s \in 1 .. n : ranked[s] = a[x]
      BY <1>1, <1>6
    <3>2. Both(s)
      BY <1>5
    <3> QED
      BY <2>1, <3>1, <3>2
  <2>2. ASSUME NEW x \in 1 .. e PROVE \E y \in 1 .. m : a[y] = b[x]
    <3>1. PICK s \in 1 .. n : ranked[s] = b[x]
      BY <1>1, <1>6
    <3>2. Both(s)
      BY <1>5
    <3> QED
      BY <2>2, <3>1, <3>2
  <2> QED
    BY <2>1, <2>2 DEF Covered
<1> DEFINE strong == Stronger(regions)
<1>8. StrictOrder(S, strong)
  BY <1>1
<1>9. Listing(S, strong, a, m) /\ Listing(S, strong, b, e)
  BY <1>6 DEF Listing
<1> HIDE DEF strong, Both
<1> QED
  BY <1>7, <1>8, <1>9, OneSortedArrangement

-----------------------------------------------------------------------------
\* With each place of P those of the regions that are as strong.
StrongClosed(regions, n, P) ==
  \A i \in P : \A j \in 1 .. n : regions[j].confidence >= regions[i].confidence => j \in P

\* What survives at the places of P alone.
FoundEarly(regions, params, P) ==
  LET early == Survivors(ElementsAt(regions, P), params)
  IN  [x \in DOMAIN early |-> Ascending(P)[early[x]]]

\* Where the survivors are that lie in P, and which ones those are.
LatePlaces(regions, params, P) ==
  LET kept == Survivors(regions, params)
  IN  {k \in DOMAIN kept : kept[k] \in P}

FoundLate(regions, params, P) ==
  LET late == LatePlaces(regions, params, P)
  IN  [x \in 1 .. Cardinality(late) |-> Survivors(regions, params)[Ascending(late)[x]]]

LEMMA EarlyKernel ==
  ASSUME NEW regions, NEW n, Graded(regions, n), NEW params, params.max_output = 0,
         NEW P \in SUBSET (1 .. n)
  PROVE  LET first == ElementsAt(regions, P)
             early == Survivors(first, params)
         IN  /\ Len(early) \in Nat /\ DOMAIN early = 1 .. Len(early)
             /\ Kernel(regions, params, P, FoundEarly(regions, params, P), Len(early))
             /\ \A x \in 1 .. Len(early) : first[early[x]] = regions[FoundEarly(regions, params, P)[x]]
<1> DEFINE o == Ascending(P)
           c == Cardinality(P)
           first == ElementsAt(regions, P)
           early == Survivors(first, params)
           m == Len(early)
           Beats(i, j) == Suppresses(regions[i], regions[j], params)
           Weak(i, j) == Suppresses(first[i], first[j], params)
           a == [x \in DOMAIN early |-> o[early[x]]]
<1>1. n \in Nat /\ DOMAIN regions = 1 .. n /\ \A i \in 1 .. n : regions[i].confidence \in Int
  BY DEF Graded
<1>2. /\ c \in Nat /\ DOMAIN o = 1 .. c /\ first = [k \in 1 .. c |-> regions[o[k]]]
      /\ \A k \in 1 .. c : o[k] \in P
      /\ \A x \in P : \E k \in 1 .. c : o[k] = x
      /\ \A i, j \in 1 .. c : i < j => o[i] < o[j]
  <2>1. /\ IsFiniteSet(P) /\ P \in SUBSET Int /\ Cardinality(P) \in Nat
        /\ DOMAIN Ascending(P) = 1 .. Cardinality(P)
        /\ ElementsAt(regions, P) = [k \in 1 .. Cardinality(P) |-> regions[Ascending(P)[k]]]
    <3>1. n \in Nat /\ P \in SUBSET (1 .. n)
      BY <1>1
    <3> QED
      BY ONLY <3>1, ElementsAtIs
  <2>2. /\ \A k \in 1 .. Cardinality(P) : Ascending(P)[k] \in P
        /\ \A x \in P : \E k \in 1 .. Cardinality(P) : Ascending(P)[k] = x
        /\ \A i, j \in 1 .. Cardinality(P) : i < j => Ascending(P)[i] < Ascending(P)[j]
    BY <2>1, AscendingIs
  <2> HIDE DEF o, c, first
  <2> QED
    BY <2>1, <2>2 DEF o, c, first
<1> HIDE DEF o, c, first
<1>3. \A k \in 1 .. c : o[k] \in 1 .. n /\ first[k] = regions[o[k]]
  BY <1>2
<1>4. Graded(first, c)
  BY <1>1, <1>2, <1>3 DEF Graded
<1>5. /\ m \in Nat /\ DOMAIN early = 1 .. m /\ \A x \in 1 .. m : early[x] \in 1 .. c
      /\ \A x, y \in 1 .. m : x < y => <<early[x], early[y]>> \in Stronger(first) /\ ~Weak(early[x], early[y])
      /\ \A i \in 1 .. c :
           \/ \E x \in 1 .. m : early[x] = i
           \/ \E x \in 1 .. m : <<early[x], i>> \in Stronger(first) /\ Weak(early[x], i)
  BY <1>4, SurvivorsRule
<1> HIDE DEF early, m
<1>6. \A i, j \in 1 .. c : <<i, j>> \in Stronger(first) => <<o[i], o[j]>> \in Stronger(regions)
  <2> SUFFICES ASSUME NEW i \in 1 .. c, NEW j \in 1 .. c, <<i, j>> \in Stronger(first)
               PROVE  <<o[i], o[j]>> \in Stronger(regions)
    OBVIOUS
  <2>1. \/ first[i].confidence > first[j].confidence
        \/ first[i].confidence = first[j].confidence /\ i < j
    BY <1>4, StrongerIs
  <2>2. \/ regions[o[i]].confidence > regions[o[j]].confidence
        \/ regions[o[i]].confidence = regions[o[j]].confidence /\ o[i] < o[j]
    BY <1>2, <1>3, <2>1
  <2>3. o[i] \in 1 .. n /\ o[j] \in 1 .. n
    BY <1>3
  <2> QED
    BY <2>2, <2>3, StrongerIs
<1>7. \A i, j \in 1 .. c : Weak(i, j) <=> Beats(o[i], o[j])
  BY <1>3
<1> HIDE DEF Weak, Beats
<1>8. \A x \in 1 .. m : a[x] = o[early[x]] /\ a[x] \in P
  BY <1>2, <1>5
<1>9. \A x, y \in 1 .. m : x < y => <<a[x], a[y]>> \in Stronger(regions) /\ ~Beats(a[x], a[y])
  <2> SUFFICES ASSUME NEW x \in 1 .. m, NEW y \in 1 .. m, x < y
               PROVE  <<a[x], a[y]>> \in Stronger(regions) /\ ~Beats(a[x], a[y])
    OBVIOUS
  <2>1. <<early[x], early[y]>> \in Stronger(first) /\ ~Weak(early[x], early[y])
    BY <1>5
  <2>2. early[x] \in 1 .. c /\ early[y] \in 1 .. c
    BY <1>5
  <2> QED
    BY <1>6, <1>7, <1>8, <2>1, <2>2
<1>10. \A i \in P :
         \/ \E x \in 1 .. m : a[x] = i
         \/ \E x \in 1 .. m : <<a[x], i>> \in Stronger(regions) /\ Beats(a[x], i)
  <2> SUFFICES ASSUME NEW i \in P
               PROVE  \/ \E x \in 1 .. m : a[x] = i
                      \/ \E x \in 1 .. m : <<a[x], i>> \in Stronger(regions) /\ Beats(a[x], i)
    OBVIOUS
  <2>1. PICK k \in 1 .. c : o[k] = i
    BY <1>2
  <2>2. CASE \E x \in 1 .. m : early[x] = k
    BY <1>8, <2>1, <2>2
  <2>3. ASSUME NEW x \in 1 .. m, <<early[x], k>> \in Stronger(first), Weak(early[x], k)
        PROVE  \E y \in 1 .. m : <<a[y], i>> \in Stronger(regions) /\ Beats(a[y], i)
    <3>1. early[x] \in 1 .. c
      BY <1>5
    <3>2. <<a[x], i>> \in Stronger(regions) /\ Beats(a[x], i)
      BY <1>6, <1>7, <1>8, <2>1, <2>3, <3>1
    <3> QED
      BY <3>2
  <2> QED
    BY <1>5, <2>2, <2>3
<1>11. DOMAIN a = 1 .. m
  BY <1>5
<1>12. Kernel(regions, params, P, a, m)
  <2> HIDE DEF a
  <2> QED
    BY <1>5, <1>8, <1>9, <1>10, <1>11 DEF Kernel, Beats
<1>13. \A x \in 1 .. m : first[early[x]] = regions[a[x]]
  BY <1>3, <1>5, <1>8
<1>14. a = FoundEarly(regions, params, P)
  BY DEF FoundEarly, early, first, o
<1> HIDE DEF a
<1> QED
  BY <1>5, <1>12, <1>13, <1>14 DEF first, early, m

LEMMA LateKernel ==
  ASSUME NEW regions, NEW n, Graded(regions, n), NEW params, params.max_output = 0,
         NEW P \in SUBSET (1 .. n), StrongClosed(regions, n, P)
  PROVE  LET kept == Survivors(regions, params)
             Q == LatePlaces(regions, params, P)
         IN  /\ Len(kept) \in Nat /\ DOMAIN kept = 1 .. Len(kept)
             /\ Cardinality(Q) \in Nat /\ DOMAIN Ascending(Q) = 1 .. Cardinality(Q)
             /\ \A x \in 1 .. Cardinality(Q) : Ascending(Q)[x] \in DOMAIN kept
             /\ Kernel(regions, params, P, FoundLate(regions, params, P), Cardinality(Q))
<1> DEFINE kept == Survivors(regions, params)
           m == Len(kept)
           Q == LatePlaces(regions, params, P)
           o == Ascending(Q)
           c == Cardinality(Q)
           Beats(i, j) == Suppresses(regions[i], regions[j], params)
           b == [x \in 1 .. c |-> kept[o[x]]]
<1>1. n \in Nat /\ DOMAIN regions = 1 .. n /\ \A i \in 1 .. n : regions[i].confidence \in Int
  BY DEF Graded
<1>2. /\ m \in Nat /\ DOMAIN kept = 1 .. m /\ \A x \in 1 .. m : kept[x] \in 1 .. n
      /\ \A x, y \in 1 .. m : x < y => <<kept[x], kept[y]>> \in Stronger(regions) /\ ~Beats(kept[x], kept[y])
      /\ \A i \in 1 .. n :
           \/ \E x \in 1 .. m : kept[x] = i
           \/ \E x \in 1 .. m : <<kept[x], i>> \in Stronger(regions) /\ Beats(kept[x], i)
  BY SurvivorsRule
<1>3. Q = {k \in 1 .. m : kept[k] \in P}
  <2> HIDE DEF m
  <2> QED
    BY <1>2 DEF LatePlaces
<1> HIDE DEF kept, m, Q, o, c, Beats
<1>4. IsFiniteSet(Q) /\ Q \in SUBSET Int
  <2>1. IsFiniteSet(1 .. m) /\ Q \in SUBSET (1 .. m)
    BY <1>2, <1>3, FS_Interval
  <2>2. IsFiniteSet(Q)
    BY <2>1, FS_Subset
  <2> QED
    BY <1>2, <2>1, <2>2
<1>5. /\ c \in Nat /\ DOMAIN o = 1 .. c
      /\ \A k \in 1 .. c : o[k] \in Q
      /\ \A x \in Q : \E k \in 1 .. c : o[k] = x
      /\ \A i, j \in 1 .. c : i < j => o[i] < o[j]
  BY <1>4, AscendingIs DEF o, c
<1>6. \A x \in 1 .. c : b[x] = kept[o[x]] /\ b[x] \in P /\ o[x] \in 1 .. m
  BY <1>3, <1>5
<1>7. \A x, y \in 1 .. c : x < y => <<b[x], b[y]>> \in Stronger(regions) /\ ~Beats(b[x], b[y])
  <2> SUFFICES ASSUME NEW x \in 1 .. c, NEW y \in 1 .. c, x < y
               PROVE  <<b[x], b[y]>> \in Stronger(regions) /\ ~Beats(b[x], b[y])
    OBVIOUS
  <2>1. o[x] \in 1 .. m /\ o[y] \in 1 .. m /\ o[x] < o[y]
    BY <1>5, <1>6
  <2> QED
    BY <1>2, <1>6, <2>1
<1>8. \A x \in 1 .. m : kept[x] \in P => \E y \in 1 .. c : b[y] = kept[x]
  <2> SUFFICES ASSUME NEW x \in 1 .. m, kept[x] \in P PROVE \E y \in 1 .. c : b[y] = kept[x]
    OBVIOUS
  <2>1. PICK y \in 1 .. c : o[y] = x
    BY <1>3, <1>5
  <2> QED
    BY <1>6, <2>1
<1>9. \A i \in P :
         \/ \E x \in 1 .. c : b[x] = i
         \/ \E x \in 1 .. c : <<b[x], i>> \in Stronger(regions) /\ Beats(b[x], i)
  <2> SUFFICES ASSUME NEW i \in P
               PROVE  \/ \E x \in 1 .. c : b[x] = i
                      \/ \E x \in 1 .. c : <<b[x], i>> \in Stronger(regions) /\ Beats(b[x], i)
    OBVIOUS
  <2>1. ASSUME NEW x \in 1 .. m, kept[x] = i PROVE \E y \in 1 .. c : b[y] = i
    BY <1>8, <2>1
  <2>2. ASSUME NEW x \in 1 .. m, <<kept[x], i>> \in Stronger(regions), Beats(kept[x], i)
        PROVE  \E y \in 1 .. c : <<b[y], i>> \in Stronger(regions) /\ Beats(b[y], i)
    <3>1. kept[x] \in 1 .. n /\ i \in 1 .. n
      BY <1>2
    <3>2. \/ regions[kept[x]].confidence > regions[i].confidence
          \/ regions[kept[x]].confidence = regions[i].confidence /\ kept[x] < i
      BY <2>2, StrongerIs
    <3>3. regions[kept[x]].confidence >= regions[i].confidence
      BY <1>1, <3>1, <3>2
    <3>4. kept[x] \in P
      BY <3>1, <3>3 DEF StrongClosed
    <3>5. PICK y \in 1 .. c : b[y] = kept[x]
      BY <1>8, <3>4
    <3> QED
      BY <2>2, <3>5
  <2> QED
    BY <1>2, <2>1, <2>2
<1>10. DOMAIN b = 1 .. c
  OBVIOUS
<1>11. Kernel(regions, params, P, b, c)
  <2> HIDE DEF b
  <2> QED
    BY <1>5, <1>6, <1>7, <1>9, <1>10 DEF Kernel, Beats
<1>12. b = FoundLate(regions, params, P)
  BY DEF FoundLate, Q, kept, o, c
<1> HIDE DEF b
<1> QED
  BY <1>2, <1>5, <1>6, <1>11, <1>12 DEF kept, m, Q, o, c

\* The filter may go before the suppression or after it.
LEMMA FilteredBeforeOrAfter ==
  ASSUME NEW regions, NEW n, Graded(regions, n), NEW params, params.max_output = 0,
         NEW P \in SUBSET (1 .. n), StrongClosed(regions, n, P)
  PROVE  LET kept == Survivors(regions, params)
             first == ElementsAt(regions, P)
             early == Survivors(first, params)
         IN  [k \in DOMAIN early |-> first[early[k]]] =
               ElementsAt([k \in DOMAIN kept |-> regions[kept[k]]], LatePlaces(regions, params, P))
<1> DEFINE kept == Survivors(regions, params)
           first == ElementsAt(regions, P)
           early == Survivors(first, params)
           m == Len(early)
           Q == LatePlaces(regions, params, P)
           e == Cardinality(Q)
           all == [k \in DOMAIN kept |-> regions[kept[k]]]
           a == FoundEarly(regions, params, P)
           b == FoundLate(regions, params, P)
<1>1. /\ m \in Nat /\ DOMAIN early = 1 .. m /\ Kernel(regions, params, P, a, m)
      /\ \A x \in 1 .. m : first[early[x]] = regions[a[x]]
  <2> HIDE DEF a
  <2>1. /\ Len(Survivors(ElementsAt(regions, P), params)) \in Nat
        /\ DOMAIN Survivors(ElementsAt(regions, P), params) = 1 .. Len(Survivors(ElementsAt(regions, P), params))
        /\ Kernel(regions, params, P, FoundEarly(regions, params, P), Len(Survivors(ElementsAt(regions, P), params)))
        /\ \A x \in 1 .. Len(Survivors(ElementsAt(regions, P), params)) :
             ElementsAt(regions, P)[Survivors(ElementsAt(regions, P), params)[x]]
               = regions[FoundEarly(regions, params, P)[x]]
    BY EarlyKernel
  <2> HIDE DEF m, early, first
  <2> QED
    BY <2>1 DEF m, early, first, a
<1>2. /\ e \in Nat /\ DOMAIN Ascending(Q) = 1 .. e
      /\ \A x \in 1 .. e : Ascending(Q)[x] \in DOMAIN kept
      /\ Kernel(regions, params, P, b, e)
  BY LateKernel
<1>3. ElementsAt(all, Q) = [k \in 1 .. e |-> all[Ascending(Q)[k]]]
  <2> HIDE DEF all, Q
  <2> QED
    BY <1>2 DEF ElementsAt
<1>4. \A x \in 1 .. e : all[Ascending(Q)[x]] = regions[kept[Ascending(Q)[x]]]
  <2> HIDE DEF kept
  <2> QED
    BY <1>2
<1>5. \A x \in 1 .. e : b[x] = kept[Ascending(Q)[x]]
  BY DEF FoundLate
<1> HIDE DEF Q, e, all, first, early, m, kept, a, b
<1>6. m = e /\ \A x \in 1 .. m : a[x] = b[x]
  BY <1>1, <1>2, OneKernel
<1>7. \A x \in 1 .. m : first[early[x]] = all[Ascending(Q)[x]]
  BY <1>1, <1>4, <1>5, <1>6
<1>8. [k \in 1 .. m |-> first[early[k]]] = [k \in 1 .. e |-> all[Ascending(Q)[k]]]
  BY <1>6, <1>7
<1> QED
  BY <1>1, <1>3, <1>8 DEF first, early, kept, all, Q

-----------------------------------------------------------------------------
(* What the suppression answers *)

\* A job of the suppression.
LEMMA SuppressJobIs ==
  ASSUME NEW given \in SuppressJob
  PROVE  \E n \in Nat :
           /\ Graded(given.regions, n) /\ DOMAIN given.regions = 1 .. n
           /\ \A i \in 1 .. n : given.regions[i].bounds \in RectRecord /\ given.regions[i].confidence \in Int
<1> DEFINE regions == given.regions
           n == Len(regions)
           Region == [bounds : RectRecord, class : Int, label : STRING, confidence : Int]
<1>1. regions \in Seq(Region)
  BY DEF SuppressJob
<1> HIDE DEF regions
<1>2. n \in Nat /\ DOMAIN regions = 1 .. n /\ \A i \in 1 .. n : regions[i] \in Region
  BY <1>1, LenProperties, ElementOfSeq
<1>3. \A i \in 1 .. n : regions[i].bounds \in RectRecord /\ regions[i].confidence \in Int
  BY <1>2
<1> HIDE DEF n, Region
<1>4. Graded(regions, n)
  BY <1>2, <1>3 DEF Graded
<1> QED
  BY <1>2, <1>3, <1>4 DEF regions

\* What the suppression answers when its parameters are legal.
LEMMA NmsIs ==
  ASSUME NEW regions, NEW params, params.iou \in Int \X Int, params.max_output \in Int
  PROVE  /\ Nms(regions, params).status = "kOk" =>
              /\ params.iou[1] >= 0 /\ params.max_output \in Nat
              /\ \A others : LET kept == Survivors(others, params)
                             IN  Nms(others, params) = Ok([k \in DOMAIN kept |-> others[kept[k]]])
<1> DEFINE legal == AtLeast(params.iou, Zero) /\ AtLeast(One, params.iou) /\ params.max_output >= 0
<1>1. \A others : Nms(others, params) =
        IF ~legal THEN Failed("kInvalidArgument")
        ELSE Ok([k \in DOMAIN Survivors(others, params) |-> others[Survivors(others, params)[k]]])
  BY DEF Nms
<1>2. legal => params.iou[1] >= 0 /\ params.max_output \in Nat
  <2>1. \A r \in Int, q \in Int : r * 1 >= 0 * q => r >= 0
    OBVIOUS
  <2>2. AtLeast(params.iou, Zero) <=> params.iou[1] * 1 >= 0 * params.iou[2]
    BY DEF AtLeast, Zero
  <2> HIDE DEF Zero
  <2> QED
    BY <2>1, <2>2
<1> HIDE DEF legal
<1>3. Failed("kInvalidArgument").status # "kOk"
  BY DEF Failed
<1> QED
  BY <1>1, <1>2, <1>3

\* The survivors, their ranks and what they conflict with.
LEMMA BestAreKept ==
  ASSUME NEW given \in SuppressJob, Nms(given.regions, given.nms).status = "kOk"
  PROVE  LET kept == Nms(given.regions, given.nms).value
             full == given.nms.max_output > 0 /\ Len(kept) = given.nms.max_output
         IN  /\ \A i, j \in DOMAIN kept : i < j =>
                  kept[i].confidence >= kept[j].confidence /\ ~Conflict(kept[i], kept[j], given.nms)
             /\ \A region \in ToSet(given.regions) \ ToSet(kept) :
                  \E i \in DOMAIN kept :
                    /\ kept[i].confidence >= region.confidence
                    /\ Conflict(kept[i], region, given.nms) \/ (full /\ i = Len(kept))
<1> DEFINE regions == given.regions
           params == given.nms
           places == Survivors(regions, params)
           m == Len(places)
           kept == [k \in DOMAIN places |-> regions[places[k]]]
           max == params.max_output
           Beats(i, j) == Suppresses(regions[i], regions[j], params)
<1>1. params.iou \in Int \X Int /\ max \in Int
  BY DEF SuppressJob
<1>2. /\ params.iou[1] >= 0 /\ max \in Nat
      /\ Nms(regions, params) = Ok(kept)
  BY <1>1, NmsIs
<1>3. Nms(regions, params).value = kept
  <2> HIDE DEF kept
  <2> QED
    BY <1>2 DEF Ok
<1>4. PICK n \in Nat :
        /\ Graded(regions, n) /\ DOMAIN regions = 1 .. n
        /\ \A i \in 1 .. n : regions[i].bounds \in RectRecord /\ regions[i].confidence \in Int
  BY SuppressJobIs
<1>5. /\ m \in Nat /\ DOMAIN places = 1 .. m /\ \A x \in 1 .. m : places[x] \in 1 .. n
      /\ max > 0 => m <= max
      /\ \A x, y \in 1 .. m : x < y => <<places[x], places[y]>> \in Stronger(regions) /\ ~Beats(places[x], places[y])
      /\ \A i \in 1 .. n :
           \/ \E x \in 1 .. m : places[x] = i
           \/ \E x \in 1 .. m : /\ <<places[x], i>> \in Stronger(regions)
                                /\ Beats(places[x], i) \/ (max > 0 /\ m = max /\ x = m)
  BY <1>2, <1>4, SurvivorsRule
<1> HIDE DEF regions, params, places, m, max, Beats
<1>6. \A i, j \in 1 .. n : Beats(i, j) <=> Conflict(regions[i], regions[j], params)
  BY <1>1, <1>2, <1>4, SuppressesIs DEF Beats
<1>7. \A i, j \in 1 .. n : <<i, j>> \in Stronger(regions) => regions[i].confidence >= regions[j].confidence
  <2> SUFFICES ASSUME NEW i \in 1 .. n, NEW j \in 1 .. n, <<i, j>> \in Stronger(regions)
               PROVE  regions[i].confidence >= regions[j].confidence
    OBVIOUS
  <2>1. \/ regions[i].confidence > regions[j].confidence
        \/ regions[i].confidence = regions[j].confidence /\ i < j
    BY <1>4, StrongerIs
  <2> QED
    BY <1>4, <2>1
<1>8. DOMAIN kept = 1 .. m /\ \A x \in 1 .. m : kept[x] = regions[places[x]]
  BY <1>5
<1>9. Len(kept) = m
  <2>1. kept \in Seq({regions[i] : i \in 1 .. n})
    BY <1>5, <1>8
  <2> HIDE DEF kept
  <2> QED
    BY <1>5, <1>8, <2>1, LenProperties
<1> HIDE DEF kept
<1>10. \A i, j \in DOMAIN kept : i < j =>
         kept[i].confidence >= kept[j].confidence /\ ~Conflict(kept[i], kept[j], params)
  <2> SUFFICES ASSUME NEW i \in 1 .. m, NEW j \in 1 .. m, i < j
               PROVE  kept[i].confidence >= kept[j].confidence /\ ~Conflict(kept[i], kept[j], params)
    BY <1>8
  <2>1. /\ <<places[i], places[j]>> \in Stronger(regions) /\ ~Beats(places[i], places[j])
        /\ places[i] \in 1 .. n /\ places[j] \in 1 .. n
    BY <1>5
  <2>2. regions[places[i]].confidence >= regions[places[j]].confidence
        /\ ~Conflict(regions[places[i]], regions[places[j]], params)
    BY <1>6, <1>7, <2>1
  <2> QED
    BY <1>8, <2>2
<1>11. ASSUME NEW region \in ToSet(regions) \ ToSet(kept)
       PROVE  \E i \in DOMAIN kept :
                /\ kept[i].confidence >= region.confidence
                /\ \/ Conflict(kept[i], region, params)
                   \/ max > 0 /\ Len(kept) = max /\ i = Len(kept)
  <2>1. PICK i \in 1 .. n : regions[i] = region
    BY <1>4 DEF ToSet
  <2>2. ~ \E x \in 1 .. m : places[x] = i
    BY <1>8, <1>11, <2>1 DEF ToSet
  <2>3. PICK x \in 1 .. m : /\ <<places[x], i>> \in Stronger(regions)
                            /\ Beats(places[x], i) \/ (max > 0 /\ m = max /\ x = m)
    BY <1>5, <2>2
  <2>4. places[x] \in 1 .. n
    BY <1>5
  <2>5. kept[x].confidence >= region.confidence
    BY <1>7, <1>8, <2>1, <2>3, <2>4
  <2>6. Beats(places[x], i) => Conflict(kept[x], region, params)
    BY <1>6, <1>8, <2>1, <2>4
  <2>7. x \in DOMAIN kept
    BY <1>8
  <2> QED
    BY <1>9, <2>3, <2>5, <2>6, <2>7
<1> QED
  BY <1>3, <1>10, <1>11 DEF regions, params, max

\* The two filters commute when the output is not limited and the filter looks
\* at nothing but the confidence.
LEMMA FiltersCommute ==
  ASSUME NEW given \in SuppressJob, Nms(given.regions, given.nms).status = "kOk",
         given.nms.max_output = 0, given.filter.classes = {}, given.filter.labels = {}
  PROVE  Then(FilterDetections(given.regions, given.filter), LAMBDA regions : Nms(regions, given.nms))
           = Then(Nms(given.regions, given.nms), LAMBDA regions : FilterDetections(regions, given.filter))
<1> DEFINE regions == given.regions
           params == given.nms
           least == given.filter.min_confidence
           kept == Survivors(regions, params)
           all == [k \in DOMAIN kept |-> regions[kept[k]]]
           P == {i \in DOMAIN regions : regions[i].confidence >= least}
           first == ElementsAt(regions, P)
           early == Survivors(first, params)
<1>1. params.iou \in Int \X Int /\ params.max_output \in Int /\ least \in Int
  BY DEF SuppressJob
<1>2. /\ Nms(regions, params) = Ok(all)
      /\ Nms(first, params) = Ok([k \in DOMAIN early |-> first[early[k]]])
  BY <1>1, NmsIs
<1>3. \A others : FilterDetections(others, given.filter) =
        IF least < 0 THEN Failed("kInvalidArgument")
        ELSE Ok(ElementsAt(others, {i \in DOMAIN others : others[i].confidence >= least}))
  BY DEF FilterDetections
<1>4. PICK n \in Nat :
        /\ Graded(regions, n) /\ DOMAIN regions = 1 .. n
        /\ \A i \in 1 .. n : regions[i].bounds \in RectRecord /\ regions[i].confidence \in Int
  BY SuppressJobIs
<1>5. StrongClosed(regions, n, P)
  <2> HIDE DEF least, regions
  <2> QED
    BY <1>1, <1>4 DEF StrongClosed
<1>6. P \in SUBSET (1 .. n)
  BY <1>4
<1>7. {i \in DOMAIN all : all[i].confidence >= least} = LatePlaces(regions, params, P)
  <2>1. /\ Len(kept) \in Nat /\ DOMAIN kept = 1 .. Len(kept) /\ \A x \in 1 .. Len(kept) : kept[x] \in 1 .. n
    BY <1>4, SurvivorsRule
  <2>2. DOMAIN all = DOMAIN kept /\ \A i \in DOMAIN kept : all[i] = regions[kept[i]]
    OBVIOUS
  <2> HIDE DEF all, kept, regions, least
  <2> QED
    BY <1>4, <2>1, <2>2 DEF LatePlaces, kept
<1>8. [k \in DOMAIN early |-> first[early[k]]] = ElementsAt(all, LatePlaces(regions, params, P))
  <2> HIDE DEF P
  <2> QED
    BY <1>4, <1>5, <1>6, FilteredBeforeOrAfter
<1> DEFINE late == LatePlaces(regions, params, P)
           before == [k \in DOMAIN early |-> first[early[k]]]
<1>9. /\ FilterDetections(regions, given.filter) =
           IF least < 0 THEN Failed("kInvalidArgument") ELSE Ok(first)
      /\ FilterDetections(all, given.filter) =
           IF least < 0 THEN Failed("kInvalidArgument") ELSE Ok(ElementsAt(all, late))
  BY <1>3, <1>7
<1> HIDE DEF all, P, first, early, late, before, least, regions, params
<1>10. /\ Nms(regions, params) = Ok(all) /\ Nms(first, params) = Ok(before) /\ before = ElementsAt(all, late)
  BY <1>2, <1>8 DEF before, late
<1>11. CASE least < 0
  <2>1. Failed("kInvalidArgument").status # "kOk" /\ Ok(all).status = "kOk" /\ Ok(all).value = all
    BY DEF Failed, Ok
  <2> QED
    BY <1>9, <1>10, <1>11, <2>1 DEF Then, regions, params
<1>12. CASE ~(least < 0)
  <2>1. Ok(first).status = "kOk" /\ Ok(first).value = first /\ Ok(all).status = "kOk" /\ Ok(all).value = all
    BY DEF Ok
  <2> QED
    BY <1>9, <1>10, <1>12, <2>1 DEF Then, regions, params
<1> QED
  BY <1>11, <1>12

\* Working out a job of the suppression.
LEMMA SuppressionStep ==
  ASSUME job \in SuppressJob, Suppress, UNCHANGED job
  PROVE  SuppressionKeepsTheBest'
<1> DEFINE best == Nms(job.regions, job.nms)
<1>1. /\ job' = job /\ answer'.best = best
      /\ answer'.filtered_first =
           Then(FilterDetections(job.regions, job.filter), LAMBDA regions : Nms(regions, job.nms))
      /\ answer'.filtered_last = Then(best, LAMBDA regions : FilterDetections(regions, job.filter))
  BY DEF Suppress
<1>2. ASSUME best.status = "kOk"
      PROVE  LET kept == best.value
                 full == job.nms.max_output > 0 /\ Len(kept) = job.nms.max_output
             IN  /\ \A i, j \in DOMAIN kept : i < j =>
                      kept[i].confidence >= kept[j].confidence /\ ~Conflict(kept[i], kept[j], job.nms)
                 /\ \A region \in ToSet(job.regions) \ ToSet(kept) :
                      \E i \in DOMAIN kept :
                        /\ kept[i].confidence >= region.confidence
                        /\ Conflict(kept[i], region, job.nms) \/ (full /\ i = Len(kept))
  BY <1>2, BestAreKept
<1>3. ASSUME best.status = "kOk", job.nms.max_output = 0, job.filter.classes = {}, job.filter.labels = {}
      PROVE  answer'.filtered_first = answer'.filtered_last
  BY <1>1, <1>3, FiltersCommute
<1> HIDE DEF best
<1> QED
  BY <1>1, <1>2, <1>3 DEF SuppressionKeepsTheBest, Answered, Conflict

-----------------------------------------------------------------------------
(* The pixels under a rectangle *)

PixelsOn(rect, w, h) == {p \in Grid(w, h) : ContainsPoint(rect, p)}

\* A rectangle with an extent.
Extended(rect) == rect \in RectRecord /\ rect.w > 0 /\ rect.h > 0

InImage(rect, w, h) == RectContains(Rect(0, 0, w, h), rect)

Span(begin, length) == begin .. begin + length - 1

LEMMA RectIs ==
  ASSUME NEW x, NEW y, NEW w, NEW h
  PROVE  Rect(x, y, w, h).x = x /\ Rect(x, y, w, h).y = y /\ Rect(x, y, w, h).w = w /\ Rect(x, y, w, h).h = h
BY DEF Rect

\* What an image contains of a rectangle.
LEMMA InImageIs ==
  ASSUME NEW rect \in RectRecord, NEW w \in Nat, NEW h \in Nat
  PROVE  InImage(rect, w, h) <=>
           rect.x >= 0 /\ rect.y >= 0 /\ rect.x + rect.w <= w /\ rect.y + rect.h <= h
<1>1. rect.x \in Int /\ rect.y \in Int /\ rect.w \in Int /\ rect.h \in Int
  BY DEF RectRecord
<1> QED
  BY <1>1, RectIs DEF InImage, RectContains

\* The points of a rectangle, counted.
LEMMA SpansAre ==
  ASSUME NEW rect, Extended(rect)
  PROVE  LET all == Span(rect.x, rect.w) \X Span(rect.y, rect.h)
         IN  IsFiniteSet(all) /\ Cardinality(all) = Area(rect) /\ Area(rect) \in Int
<1> DEFINE x == rect.x
           y == rect.y
           w == rect.w
           h == rect.h
<1>1. x \in Int /\ y \in Int /\ w \in Nat /\ h \in Nat /\ w > 0 /\ h > 0 /\ Area(rect) = w * h
  BY DEF Extended, RectRecord, Area
<1> HIDE DEF x, y, w, h
<1>2. IsFiniteSet(Span(x, w)) /\ Cardinality(Span(x, w)) = w
  <2>1. x + w - 1 \in Int /\ ~(x > x + w - 1) /\ (x + w - 1) - x + 1 = w
    BY <1>1
  <2> QED
    BY <1>1, <2>1, FS_Interval DEF Span
<1>3. IsFiniteSet(Span(y, h)) /\ Cardinality(Span(y, h)) = h
  <2>1. y + h - 1 \in Int /\ ~(y > y + h - 1) /\ (y + h - 1) - y + 1 = h
    BY <1>1
  <2> QED
    BY <1>1, <2>1, FS_Interval DEF Span
<1>4. w * h \in Int
  BY <1>1
<1> QED
  BY <1>1, <1>2, <1>3, <1>4, FS_Product DEF x, y, w, h

LEMMA PixelsOnIs ==
  ASSUME NEW rect, Extended(rect), NEW w \in Nat, NEW h \in Nat
  PROVE  /\ \A p : p \in PixelsOn(rect, w, h) <=>
                     /\ p \in Grid(w, h)
                     /\ p[1] \in Span(rect.x, rect.w) /\ p[2] \in Span(rect.y, rect.h)
         /\ PixelsOn(rect, w, h) \in SUBSET (Span(rect.x, rect.w) \X Span(rect.y, rect.h))
<1>1. rect.x \in Int /\ rect.y \in Int /\ rect.w \in Int /\ rect.h \in Int /\ rect.w > 0 /\ rect.h > 0
  BY DEF Extended, RectRecord
<1>2. \A p \in Grid(w, h) : p[1] \in Int /\ p[2] \in Int /\ p = <<p[1], p[2]>>
  BY DEF Grid
<1>3. \A p \in Grid(w, h) : ContainsPoint(rect, p) <=> p[1] \in Span(rect.x, rect.w) /\ p[2] \in Span(rect.y, rect.h)
  BY <1>1, <1>2 DEF ContainsPoint, Span
<1>4. \A p : p \in PixelsOn(rect, w, h) <=>
               /\ p \in Grid(w, h)
               /\ p[1] \in Span(rect.x, rect.w) /\ p[2] \in Span(rect.y, rect.h)
  BY <1>3 DEF PixelsOn
<1>5. ASSUME NEW p \in PixelsOn(rect, w, h) PROVE p \in Span(rect.x, rect.w) \X Span(rect.y, rect.h)
  BY <1>2, <1>4
<1> QED
  BY <1>4, <1>5

\* A rectangle in the image has as many pixels as its area says, one that
\* sticks out of it fewer.
LEMMA PixelsOfRect ==
  ASSUME NEW rect, Extended(rect), NEW w \in Nat, NEW h \in Nat
  PROVE  /\ InImage(rect, w, h) => Cardinality(PixelsOn(rect, w, h)) = Area(rect)
         /\ ~InImage(rect, w, h) => Cardinality(PixelsOn(rect, w, h)) < Area(rect)
<1> DEFINE xs == Span(rect.x, rect.w)
           ys == Span(rect.y, rect.h)
           all == xs \X ys
           on == PixelsOn(rect, w, h)
<1>1. rect.x \in Int /\ rect.y \in Int /\ rect.w \in Int /\ rect.h \in Int /\ rect.w > 0 /\ rect.h > 0
      /\ rect \in RectRecord
  BY DEF Extended, RectRecord
<1>2. IsFiniteSet(all) /\ Cardinality(all) = Area(rect) /\ Area(rect) \in Int
  BY SpansAre
<1>3. on \in SUBSET all /\ \A p : p \in on <=> p \in Grid(w, h) /\ p[1] \in xs /\ p[2] \in ys
  BY PixelsOnIs
<1>4. \A i : (i \in xs <=> i \in Int /\ rect.x <= i /\ i < rect.x + rect.w)
             /\ (i \in ys <=> i \in Int /\ rect.y <= i /\ i < rect.y + rect.h)
  BY <1>1 DEF Span
<1>5. InImage(rect, w, h) <=> rect.x >= 0 /\ rect.y >= 0 /\ rect.x + rect.w <= w /\ rect.y + rect.h <= h
  BY <1>1, InImageIs
<1> HIDE DEF xs, ys, on
<1>6. ASSUME InImage(rect, w, h) PROVE on = all
  <2>1. ASSUME NEW p \in all PROVE p \in Grid(w, h) /\ p[1] \in xs /\ p[2] \in ys
    <3>1. p[1] \in xs /\ p[2] \in ys /\ p = <<p[1], p[2]>>
      OBVIOUS
    <3>2. p[1] \in 0 .. w - 1 /\ p[2] \in 0 .. h - 1
      BY <1>1, <1>4, <1>5, <1>6, <3>1
    <3> QED
      BY <3>1, <3>2 DEF Grid
  <2> QED
    BY <1>3, <2>1
<1>7. ASSUME ~InImage(rect, w, h) PROVE on # all
  <2>1. rect.x \in xs /\ rect.x + rect.w - 1 \in xs /\ rect.y \in ys /\ rect.y + rect.h - 1 \in ys
    BY <1>1, <1>4
  <2>2. <<rect.x, rect.y>> \in all /\ <<rect.x + rect.w - 1, rect.y + rect.h - 1>> \in all
    BY <2>1
  <2>3. \A p \in on : p \in Grid(w, h)
    BY <1>3
  <2>4. <<rect.x, rect.y>> \in Grid(w, h) => rect.x >= 0 /\ rect.y >= 0
    BY <1>1 DEF Grid
  <2>5. <<rect.x + rect.w - 1, rect.y + rect.h - 1>> \in Grid(w, h) =>
          rect.x + rect.w <= w /\ rect.y + rect.h <= h
    BY <1>1 DEF Grid
  <2> QED
    BY <1>5, <1>7, <2>2, <2>3, <2>4, <2>5
<1> HIDE DEF all
<1>8. on # all => Cardinality(on) < Area(rect)
  <2>1. IsFiniteSet(on) /\ Cardinality(on) <= Cardinality(all) /\ (Cardinality(all) = Cardinality(on) => all = on)
    BY <1>2, <1>3, FS_Subset
  <2>2. Cardinality(on) \in Nat
    BY <2>1, FS_CardinalityType
  <2> QED
    BY <1>2, <2>1, <2>2
<1> QED
  BY <1>2, <1>6, <1>7, <1>8 DEF on

\* Rectangles in the image share a pixel exactly when they overlap.
LEMMA SharedPixels ==
  ASSUME NEW a, NEW b, Extended(a), Extended(b), NEW w \in Nat, NEW h \in Nat,
         InImage(a, w, h), InImage(b, w, h)
  PROVE  RectsOverlap(a, b) <=> PixelsOn(a, w, h) \cap PixelsOn(b, w, h) # {}
<1>1. /\ a.x \in Int /\ a.y \in Int /\ a.w \in Int /\ a.h \in Int /\ a.w > 0 /\ a.h > 0
      /\ b.x \in Int /\ b.y \in Int /\ b.w \in Int /\ b.h \in Int /\ b.w > 0 /\ b.h > 0
      /\ a \in RectRecord /\ b \in RectRecord
  BY DEF Extended, RectRecord
<1>2. /\ a.x >= 0 /\ a.y >= 0 /\ a.x + a.w <= w /\ a.y + a.h <= h
      /\ b.x >= 0 /\ b.y >= 0 /\ b.x + b.w <= w /\ b.y + b.h <= h
  BY <1>1, InImageIs
<1>3. \A p : p \in PixelsOn(a, w, h) \cap PixelsOn(b, w, h) <=>
               /\ p \in Grid(w, h)
               /\ p[1] \in Span(a.x, a.w) /\ p[2] \in Span(a.y, a.h)
               /\ p[1] \in Span(b.x, b.w) /\ p[2] \in Span(b.y, b.h)
  BY PixelsOnIs
<1>4. ASSUME RectsOverlap(a, b) PROVE PixelsOn(a, w, h) \cap PixelsOn(b, w, h) # {}
  <2> DEFINE left == IF a.x >= b.x THEN a.x ELSE b.x
             top == IF a.y >= b.y THEN a.y ELSE b.y
  <2>1. a.x < b.x + b.w /\ b.x < a.x + a.w /\ a.y < b.y + b.h /\ b.y < a.y + a.h
    BY <1>4 DEF RectsOverlap
  <2>2. /\ left \in Int /\ a.x <= left /\ b.x <= left /\ left < a.x + a.w /\ left < b.x + b.w
        /\ top \in Int /\ a.y <= top /\ b.y <= top /\ top < a.y + a.h /\ top < b.y + b.h
    BY <1>1, <2>1
  <2> HIDE DEF left, top
  <2>3. /\ left \in Span(a.x, a.w) /\ left \in Span(b.x, b.w) /\ left \in 0 .. w - 1
        /\ top \in Span(a.y, a.h) /\ top \in Span(b.y, b.h) /\ top \in 0 .. h - 1
    BY <1>1, <1>2, <2>2 DEF Span
  <2>4. <<left, top>> \in Grid(w, h) /\ <<left, top>>[1] = left /\ <<left, top>>[2] = top
    BY <2>3 DEF Grid
  <2>5. <<left, top>> \in PixelsOn(a, w, h) \cap PixelsOn(b, w, h)
    BY <1>3, <2>3, <2>4
  <2> QED
    BY <2>5
<1>5. ASSUME NEW p \in PixelsOn(a, w, h) \cap PixelsOn(b, w, h) PROVE RectsOverlap(a, b)
  <2>1. /\ p[1] \in Span(a.x, a.w) /\ p[2] \in Span(a.y, a.h)
        /\ p[1] \in Span(b.x, b.w) /\ p[2] \in Span(b.y, b.h)
    BY <1>3, <1>5
  <2>2. /\ p[1] \in Int /\ a.x <= p[1] /\ p[1] < a.x + a.w /\ b.x <= p[1] /\ p[1] < b.x + b.w
        /\ p[2] \in Int /\ a.y <= p[2] /\ p[2] < a.y + a.h /\ b.y <= p[2] /\ p[2] < b.y + b.h
    BY <1>1, <2>1 DEF Span
  <2> QED
    BY <1>1, <2>2 DEF RectsOverlap
<1> QED
  BY <1>4, <1>5

-----------------------------------------------------------------------------
(* Marks and their labels *)

\* Labels have an extent.
LEMMA ChipSizeIs ==
  ASSUME NEW mark \in Nat, NEW options, options.label_height \in Int
  PROVE  /\ ChipSize(mark, options)[1] \in Nat /\ ChipSize(mark, options)[1] > 0
         /\ ChipSize(mark, options)[2] \in Nat /\ ChipSize(mark, options)[2] > 0
<1> DEFINE digits == DecimalDigitCount(mark)
           height == options.label_height \div 6
           scale == Max({1, height})
           counts == {count \in 1 .. 10 : mark \div 10 ^ (count - 1) < 10 \/ count = 10}
<1>1. digits \in Nat
  <2>1. counts \in SUBSET Nat /\ 10 \in counts
    OBVIOUS
  <2>2. digits = Min(counts)
    BY DEF DecimalDigitCount
  <2> HIDE DEF counts, digits
  <2> QED
    BY <2>1, <2>2, MinIsIn
<1>2. scale \in Nat
  <2>1. height \in Int /\ 1 \in Int
    OBVIOUS
  <2> HIDE DEF height
  <2>2. scale = IF 1 >= height THEN 1 ELSE height
    BY <2>1, MinMaxOfTwo
  <2> QED
    BY <2>1, <2>2
<1>3. \A d \in Nat, s \in Nat : d * 3 * s \in Nat /\ 5 * s \in Nat
  OBVIOUS
<1>4. ChipSize(mark, options) = <<digits * 3 * scale + 2, 5 * scale + 2>>
  BY DEF ChipSize
<1> HIDE DEF digits, scale
<1> DEFINE across == digits * 3 * scale
           down == 5 * scale
<1>5. across \in Nat /\ down \in Nat /\ ChipSize(mark, options) = <<across + 2, down + 2>>
  BY <1>1, <1>2, <1>3, <1>4
<1> HIDE DEF across, down
<1> QED
  BY <1>5

\* The four places of a label.
LEMMA CandidatesAre ==
  ASSUME NEW box \in RectRecord, NEW size,
         size[1] \in Nat, size[1] > 0, size[2] \in Nat, size[2] > 0
  PROVE  /\ DOMAIN LabelCandidates(box, size) = 1 .. 4
         /\ \A i \in 1 .. 4 : Extended(LabelCandidates(box, size)[i])
<1>1. box.x \in Int /\ box.y \in Int /\ box.w \in Int /\ box.h \in Int
  BY DEF RectRecord
<1>2. \A y \in Int : Extended(Rect(box.x, y, size[1], size[2]))
  BY <1>1 DEF Extended, RectRecord, Rect
<1>3. LabelCandidates(box, size) =
        <<Rect(box.x, box.y - size[2] - 1, size[1], size[2]),
          Rect(box.x, box.y + box.h + 1, size[1], size[2]),
          Rect(box.x, box.y, size[1], size[2]),
          Rect(box.x, box.y + box.h - size[2], size[1], size[2])>>
  BY DEF LabelCandidates
<1>4. /\ Extended(Rect(box.x, box.y - size[2] - 1, size[1], size[2]))
      /\ Extended(Rect(box.x, box.y + box.h + 1, size[1], size[2]))
      /\ Extended(Rect(box.x, box.y, size[1], size[2]))
      /\ Extended(Rect(box.x, box.y + box.h - size[2], size[1], size[2]))
  BY <1>1, <1>2
<1> QED
  BY <1>3, <1>4

\* What is drawn of a region is a rectangle of whole numbers.
LEMMA IntersectIs ==
  ASSUME NEW a, NEW b \in RectRecord,
         a = Rect(a.x, a.y, a.w, a.h), a.x \in Int, a.y \in Int, a.w \in Int, a.h \in Int
  PROVE  Intersect(a, b) \in RectRecord
<1>1. b.x \in Int /\ b.y \in Int /\ b.w \in Int /\ b.h \in Int
  BY DEF RectRecord
<1>2. IntMax \in Int /\ IntMin \in Int /\ 0 \in Int
  BY IntMaxIsWhole DEF IntMin
<1>3. \A v, u \in Int : Min({v, u}) \in Int /\ Max({v, u}) \in Int
  BY MinMaxOfTwo
<1>4. \A v, l, u \in Int : Clamp(v, l, u) \in Int
  BY <1>3 DEF Clamp
<1>5. \A v, u \in Int : SaturatedDelta(v, u) \in Int
  <2> SUFFICES ASSUME NEW v \in Int, NEW u \in Int PROVE SaturatedDelta(v, u) \in Int
    OBVIOUS
  <2>1. u - v \in Int
    OBVIOUS
  <2>2. Max({0, u - v}) \in Int
    BY <1>2, <1>3, <2>1
  <2> QED
    BY <1>2, <1>3, <2>2 DEF SaturatedDelta
<1> DEFINE left == Max({a.x, b.x})
           top == Max({a.y, b.y})
           right == Min({a.x + a.w, b.x + b.w})
           bottom == Min({a.y + a.h, b.y + b.h})
<1>6. left \in Int /\ top \in Int /\ right \in Int /\ bottom \in Int
  <2>1. a.x + a.w \in Int /\ b.x + b.w \in Int /\ a.y + a.h \in Int /\ b.y + b.h \in Int
    BY <1>1
  <2> QED
    BY <1>1, <1>3, <2>1
<1>7. Intersect(a, b) =
        Rect(Clamp(left, IntMin, IntMax), Clamp(top, IntMin, IntMax),
             SaturatedDelta(left, right), SaturatedDelta(top, bottom))
  BY DEF Intersect
<1> HIDE DEF left, top, right, bottom
<1> QED
  BY <1>2, <1>4, <1>5, <1>6, <1>7 DEF Rect, RectRecord

LEMMA OverlapsBothWays ==
  ASSUME NEW a, NEW b
  PROVE  RectsOverlap(a, b) <=> RectsOverlap(b, a)
BY DEF RectsOverlap

AnyStroke == [rect : RectRecord, ink : {"outline", "chip"} \X Nat]

\* The first strokes and those after them.
LEMMA SideIs ==
  ASSUME NEW x \in Int, NEW y \in Int, NEW w \in Int, NEW h \in Int, NEW mark \in Nat
  PROVE  LET side == Stroke(Rect(x, y, w, h), <<"outline", mark>>)
         IN  side \in AnyStroke /\ side.ink[1] = "outline"
BY DEF Stroke, Rect, AnyStroke, RectRecord

\* The sides of a box are no labels.
LEMMA OutlineIs ==
  ASSUME NEW rect \in RectRecord, NEW thickness \in Int, NEW mark \in Nat
  PROVE  /\ Outline(rect, thickness, mark) \in Seq(AnyStroke) /\ Len(Outline(rect, thickness, mark)) = 4
         /\ \A i \in 1 .. 4 : Outline(rect, thickness, mark)[i].ink[1] = "outline"
<1>1. rect.x \in Int /\ rect.y \in Int /\ rect.w \in Int /\ rect.h \in Int
  BY DEF RectRecord
<1> DEFINE Side(x, y, w, h) == Stroke(Rect(x, y, w, h), <<"outline", mark>>)
           a == Side(rect.x, rect.y, rect.w, thickness)
           b == Side(rect.x, rect.y + rect.h - thickness, rect.w, thickness)
           c == Side(rect.x, rect.y, thickness, rect.h)
           d == Side(rect.x + rect.w - thickness, rect.y, thickness, rect.h)
<1>3. /\ a \in AnyStroke /\ b \in AnyStroke /\ c \in AnyStroke /\ d \in AnyStroke
      /\ a.ink[1] = "outline" /\ b.ink[1] = "outline" /\ c.ink[1] = "outline" /\ d.ink[1] = "outline"
  <2>1. rect.y + rect.h - thickness \in Int /\ rect.x + rect.w - thickness \in Int
    BY <1>1
  <2>2. a \in AnyStroke /\ a.ink[1] = "outline"
    BY <1>1, SideIs
  <2>3. b \in AnyStroke /\ b.ink[1] = "outline"
    BY <1>1, <2>1, SideIs
  <2>4. c \in AnyStroke /\ c.ink[1] = "outline"
    BY <1>1, SideIs
  <2>5. d \in AnyStroke /\ d.ink[1] = "outline"
    BY <1>1, <2>1, SideIs
  <2> HIDE DEF a, b, c, d
  <2> QED
    BY <2>2, <2>3, <2>4, <2>5
<1>4. Outline(rect, thickness, mark) = <<a, b, c, d>>
  BY DEF Outline
<1> HIDE DEF a, b, c, d
<1> QED
  BY <1>3, <1>4

-----------------------------------------------------------------------------
IsLabel(stroke) == stroke.ink[1] = "chip"

\* The labels lie in the image, one beside the other.
LabelsLie(strokes, chips, w, h) ==
  /\ strokes \in Seq(AnyStroke)
  /\ \A i \in 1 .. Len(strokes) : IsLabel(strokes[i]) =>
       Extended(strokes[i].rect) /\ InImage(strokes[i].rect, w, h) /\ strokes[i].rect \in chips
  /\ \A chip \in chips : \E i \in 1 .. Len(strokes) : IsLabel(strokes[i]) /\ strokes[i].rect = chip
  /\ \A i, j \in 1 .. Len(strokes) :
       i < j /\ IsLabel(strokes[i]) /\ IsLabel(strokes[j]) => ~RectsOverlap(strokes[i].rect, strokes[j].rect)

HasLabel(strokes, mark) == \E i \in 1 .. Len(strokes) : strokes[i].ink = <<"chip", mark>>

\* No place is free for the label of a box.
NoPlace(box, mark, options, chips, w, h) ==
  \A i \in 1 .. 4 :
    LET place == LabelCandidates(box, ChipSize(mark, options))[i]
    IN  Extended(place) /\ ~IsFree(place, chips, w, h)

\* Every box has its label, unless there was no place for it.
Labelled(marks, strokes, chips, options, w, h) ==
  \A mark \in 1 .. Len(marks) : \A box \in marks[mark] :
    box \in RectRecord /\
    (options.label_height = 0 \/ HasLabel(strokes, mark) \/ NoPlace(box, mark, options, chips, w, h))

\* A drawing of the first k regions.
Laid(drawing, k, options, w, h, colours) ==
  /\ DOMAIN drawing = {"w", "h", "strokes", "marks", "chips", "colours"}
  /\ drawing.w = w /\ drawing.h = h /\ drawing.colours = colours
  /\ drawing.marks \in Seq(SUBSET RectRecord) /\ Len(drawing.marks) = k
  /\ LabelsLie(drawing.strokes, drawing.chips, w, h)
  /\ Labelled(drawing.marks, drawing.strokes, drawing.chips, options, w, h)

\* Strokes that are no labels change nothing.
LEMMA PlainStrokes ==
  ASSUME NEW strokes, NEW chips, NEW w, NEW h, LabelsLie(strokes, chips, w, h),
         NEW more \in Seq(AnyStroke), \A i \in 1 .. Len(more) : ~IsLabel(more[i])
  PROVE  /\ LabelsLie(strokes \o more, chips, w, h)
         /\ \A mark : HasLabel(strokes, mark) => HasLabel(strokes \o more, mark)
<1> DEFINE all == strokes \o more
           m == Len(strokes)
           e == Len(more)
<1>1. strokes \in Seq(AnyStroke)
  BY DEF LabelsLie
<1>2. /\ all \in Seq(AnyStroke) /\ Len(all) = m + e /\ m \in Nat /\ e \in Nat
      /\ \A i \in 1 .. m : all[i] = strokes[i]
      /\ \A i \in 1 .. e : all[m + i] = more[i]
  BY <1>1, Continued
<1>3. /\ \A i \in 1 .. m : IsLabel(strokes[i]) =>
           Extended(strokes[i].rect) /\ InImage(strokes[i].rect, w, h) /\ strokes[i].rect \in chips
      /\ \A chip \in chips : \E i \in 1 .. m : IsLabel(strokes[i]) /\ strokes[i].rect = chip
      /\ \A i, j \in 1 .. m :
           i < j /\ IsLabel(strokes[i]) /\ IsLabel(strokes[j]) => ~RectsOverlap(strokes[i].rect, strokes[j].rect)
  BY DEF LabelsLie
<1> HIDE DEF all, m, e
<1>4. \A i \in 1 .. m + e : IsLabel(all[i]) => i \in 1 .. m
  <2> SUFFICES ASSUME NEW i \in 1 .. m + e, i \notin 1 .. m PROVE ~IsLabel(all[i])
    OBVIOUS
  <2>1. i - m \in 1 .. e /\ m + (i - m) = i
    BY <1>2
  <2>2. all[i] = more[i - m]
    BY <1>2, <2>1
  <2> QED
    BY <2>1, <2>2 DEF e
<1>5. \A i \in 1 .. m : i \in 1 .. m + e
  BY <1>2
<1>6. LabelsLie(all, chips, w, h)
  BY <1>2, <1>3, <1>4, <1>5 DEF LabelsLie
<1>7. ASSUME NEW mark, HasLabel(strokes, mark) PROVE HasLabel(all, mark)
  <2>1. PICK i \in 1 .. m : strokes[i].ink = <<"chip", mark>>
    BY <1>7 DEF HasLabel, m
  <2> QED
    BY <1>2, <1>5, <2>1 DEF HasLabel
<1> QED
  BY <1>6, <1>7 DEF all

\* A sequence and one more element.
\* A label at a free place.
LEMMA LabelAdded ==
  ASSUME NEW strokes, NEW chips, NEW w, NEW h, LabelsLie(strokes, chips, w, h), NEW mark \in Nat,
         NEW place, Extended(place), IsFree(place, chips, w, h)
  PROVE  LET all == strokes \o <<Stroke(place, <<"chip", mark>>)>>
         IN  /\ LabelsLie(all, chips \cup {place}, w, h)
             /\ HasLabel(all, mark)
             /\ \A other : HasLabel(strokes, other) => HasLabel(all, other)
<1> DEFINE label == Stroke(place, <<"chip", mark>>)
           more == <<label>>
           all == strokes \o more
           m == Len(strokes)
<1>1. strokes \in Seq(AnyStroke)
  BY DEF LabelsLie
<1>2. label \in AnyStroke /\ label.rect = place /\ label.ink = <<"chip", mark>> /\ IsLabel(label)
  BY DEF Stroke, AnyStroke, IsLabel, Extended
<1> HIDE DEF label
<1> HIDE DEF more
<1>4. /\ all \in Seq(AnyStroke) /\ Len(all) = m + 1 /\ m \in Nat
      /\ \A i \in 1 .. m : all[i] = strokes[i]
      /\ all[m + 1] = label
  BY <1>1, <1>2, OneMore DEF more
<1>5. /\ \A i \in 1 .. m : IsLabel(strokes[i]) =>
           Extended(strokes[i].rect) /\ InImage(strokes[i].rect, w, h) /\ strokes[i].rect \in chips
      /\ \A chip \in chips : \E i \in 1 .. m : IsLabel(strokes[i]) /\ strokes[i].rect = chip
      /\ \A i, j \in 1 .. m :
           i < j /\ IsLabel(strokes[i]) /\ IsLabel(strokes[j]) => ~RectsOverlap(strokes[i].rect, strokes[j].rect)
  BY DEF LabelsLie
<1>6. InImage(place, w, h) /\ \A chip \in chips : ~RectsOverlap(place, chip) /\ ~RectsOverlap(chip, place)
  BY OverlapsBothWays DEF IsFree, InImage
<1> HIDE DEF all, m
<1>7. \A i \in 1 .. m + 1 : i \in 1 .. m \/ i = m + 1
  BY <1>4
<1>8. (\A i \in 1 .. m : i \in 1 .. m + 1) /\ m + 1 \in 1 .. m + 1
  BY <1>4
<1>9. \A i \in 1 .. m + 1 : IsLabel(all[i]) =>
        Extended(all[i].rect) /\ InImage(all[i].rect, w, h) /\ all[i].rect \in chips \cup {place}
  BY <1>2, <1>4, <1>5, <1>6, <1>7
<1>10. \A chip \in chips \cup {place} : \E i \in 1 .. m + 1 : IsLabel(all[i]) /\ all[i].rect = chip
  <2>1. \A chip \in chips : \E i \in 1 .. m + 1 : IsLabel(all[i]) /\ all[i].rect = chip
    BY <1>4, <1>5, <1>8
  <2>2. IsLabel(all[m + 1]) /\ all[m + 1].rect = place
    BY <1>2, <1>4
  <2> QED
    BY <1>8, <2>1, <2>2
<1>11. \A i, j \in 1 .. m + 1 :
         i < j /\ IsLabel(all[i]) /\ IsLabel(all[j]) => ~RectsOverlap(all[i].rect, all[j].rect)
  <2> SUFFICES ASSUME NEW i \in 1 .. m + 1, NEW j \in 1 .. m + 1, i < j, IsLabel(all[i]), IsLabel(all[j])
               PROVE  ~RectsOverlap(all[i].rect, all[j].rect)
    OBVIOUS
  <2>1. i \in 1 .. m
    BY <1>4
  <2>2. CASE j \in 1 .. m
    BY <1>4, <1>5, <2>1, <2>2
  <2>3. CASE j = m + 1
    BY <1>2, <1>4, <1>5, <1>6, <2>1, <2>3
  <2> QED
    BY <1>7, <2>2, <2>3
<1>12. LabelsLie(all, chips \cup {place}, w, h)
  BY <1>4, <1>9, <1>10, <1>11 DEF LabelsLie
<1>13. HasLabel(all, mark)
  BY <1>2, <1>4, <1>8 DEF HasLabel
<1>14. ASSUME NEW other, HasLabel(strokes, other) PROVE HasLabel(all, other)
  <2>1. PICK i \in 1 .. m : strokes[i].ink = <<"chip", other>>
    BY <1>14 DEF HasLabel, m
  <2> QED
    BY <1>4, <1>8, <2>1 DEF HasLabel
<1> QED
  BY <1>12, <1>13, <1>14 DEF all, more, label

\* The boxes that were marked before keep what they have.
LEMMA StaysLabelled ==
  ASSUME NEW marks \in Seq(SUBSET RectRecord), NEW strokes, NEW chips, NEW options, NEW w, NEW h,
         Labelled(marks, strokes, chips, options, w, h),
         NEW more, NEW placed, chips \subseteq placed,
         \A mark : HasLabel(strokes, mark) => HasLabel(more, mark),
         NEW boxes \in SUBSET RectRecord,
         \A box \in boxes : \/ options.label_height = 0
                            \/ HasLabel(more, Len(marks) + 1)
                            \/ NoPlace(box, Len(marks) + 1, options, placed, w, h)
  PROVE  /\ Append(marks, boxes) \in Seq(SUBSET RectRecord) /\ Len(Append(marks, boxes)) = Len(marks) + 1
         /\ Labelled(Append(marks, boxes), more, placed, options, w, h)
<1> DEFINE all == Append(marks, boxes)
           m == Len(marks)
<1>1. /\ m \in Nat /\ all \in Seq(SUBSET RectRecord) /\ Len(all) = m + 1
      /\ \A i \in 1 .. m : all[i] = marks[i]
      /\ all[m + 1] = boxes
  BY AppendProperties, LenProperties
<1>2. \A box, mark : NoPlace(box, mark, options, chips, w, h) => NoPlace(box, mark, options, placed, w, h)
  BY DEF NoPlace, IsFree
<1>3. \A mark \in 1 .. m : \A box \in marks[mark] :
        box \in RectRecord /\
        (options.label_height = 0 \/ HasLabel(strokes, mark) \/ NoPlace(box, mark, options, chips, w, h))
  BY DEF Labelled
<1>4. \A box \in boxes : \/ options.label_height = 0
                         \/ HasLabel(more, m + 1)
                         \/ NoPlace(box, m + 1, options, placed, w, h)
  OBVIOUS
<1> HIDE DEF all, m
<1>5. \A mark \in 1 .. m + 1 : mark \in 1 .. m \/ mark = m + 1
  BY <1>1
<1>6. \A mark \in 1 .. m + 1 : \A box \in all[mark] :
        box \in RectRecord /\
        (options.label_height = 0 \/ HasLabel(more, mark) \/ NoPlace(box, mark, options, placed, w, h))
  BY <1>1, <1>2, <1>3, <1>4, <1>5
<1>7. Labelled(all, more, placed, options, w, h)
  BY <1>1, <1>6 DEF Labelled
<1> QED
  BY <1>1, <1>7 DEF all, m

-----------------------------------------------------------------------------
\* One more region is drawn.
LEMMA DrawingStep ==
  ASSUME NEW options, options.label_height \in Int, options.thickness \in Nat,
         NEW w \in Nat, NEW h \in Nat, NEW k \in Nat, NEW colours,
         NEW drawing, Laid(drawing, k, options, w, h, colours), NEW bounds \in RectRecord
  PROVE  Laid(DrawRegionMark(drawing, bounds, k + 1, options), k + 1, options, w, h, colours)
<1> DEFINE image == Rect(0, 0, w, h)
           Clamped(v) == Clamp(v, IntMin, IntMax)
           whole == Rect(Clamped(bounds.x), Clamped(bounds.y), Clamped(bounds.w), Clamped(bounds.h))
           clipped == Intersect(whole, image)
           thickness == Min({options.thickness, clipped.w, clipped.h})
           outline == Outline(clipped, thickness, k + 1)
           candidates == LabelCandidates(clipped, ChipSize(k + 1, options))
           free == {i \in DOMAIN candidates : IsFree(candidates[i], drawing.chips, w, h)}
           place == candidates[Min(free)]
           next == DrawRegionMark(drawing, bounds, k + 1, options)
           strokes == drawing.strokes
           chips == drawing.chips
           marks == drawing.marks
<1>1. /\ DOMAIN drawing = {"w", "h", "strokes", "marks", "chips", "colours"}
      /\ drawing.w = w /\ drawing.h = h /\ drawing.colours = colours
      /\ marks \in Seq(SUBSET RectRecord) /\ Len(marks) = k
      /\ LabelsLie(strokes, chips, w, h) /\ Labelled(marks, strokes, chips, options, w, h)
  BY DEF Laid
<1>2. next =
        IF clipped.w <= 0 \/ clipped.h <= 0 THEN [drawing EXCEPT !.marks = Append(drawing.marks, {})]
        ELSE IF options.label_height = 0 \/ free = {}
          THEN [drawing EXCEPT !.strokes = @ \o outline, !.marks = Append(drawing.marks, {clipped})]
        ELSE [drawing EXCEPT !.strokes = (@ \o outline) \o <<Stroke(place, <<"chip", k + 1>>)>>,
                             !.marks = Append(drawing.marks, {clipped}), !.chips = @ \cup {place}]
  BY <1>1 DEF DrawRegionMark
<1>3. clipped \in RectRecord
  <2>1. \A v \in Int : Clamped(v) \in Int
    <3>1. IntMax \in Int /\ IntMin \in Int
      BY IntMaxIsWhole DEF IntMin
    <3>2. \A v, u \in Int : Min({v, u}) \in Int /\ Max({v, u}) \in Int
      BY MinMaxOfTwo
    <3> QED
      BY <3>1, <3>2 DEF Clamp
  <2>2. bounds.x \in Int /\ bounds.y \in Int /\ bounds.w \in Int /\ bounds.h \in Int
    BY DEF RectRecord
  <2>3. image \in RectRecord
    BY DEF Rect, RectRecord
  <2> HIDE DEF Clamped, image
  <2>4. /\ whole = Rect(whole.x, whole.y, whole.w, whole.h)
        /\ whole.x \in Int /\ whole.y \in Int /\ whole.w \in Int /\ whole.h \in Int
    BY <2>1, <2>2 DEF Rect
  <2> HIDE DEF whole
  <2> QED
    BY <2>3, <2>4, IntersectIs
<1> HIDE DEF clipped
<1>4. ASSUME ~(clipped.w <= 0 \/ clipped.h <= 0)
      PROVE  outline \in Seq(AnyStroke) /\ \A i \in 1 .. Len(outline) : ~IsLabel(outline[i])
  <2> DEFINE sides == {options.thickness, clipped.w, clipped.h}
  <2>1. sides \in SUBSET Nat /\ sides # {}
    BY <1>3, <1>4 DEF RectRecord
  <2>2. thickness \in Int
    <3> HIDE DEF sides
    <3>1. Min(sides) \in sides
      BY <2>1, MinIsIn
    <3> QED
      BY <2>1, <3>1 DEF sides
  <2> HIDE DEF thickness
  <2>3. /\ outline \in Seq(AnyStroke) /\ Len(outline) = 4
        /\ \A i \in 1 .. 4 : outline[i].ink[1] = "outline"
    BY <1>3, <2>2, OutlineIs
  <2> HIDE DEF outline
  <2> QED
    BY <2>3 DEF IsLabel
<1>5. DOMAIN candidates = 1 .. 4 /\ \A i \in 1 .. 4 : Extended(candidates[i])
  BY <1>3, ChipSizeIs, CandidatesAre
<1>6. free \in SUBSET Nat /\ \A i \in free : i \in 1 .. 4 /\ IsFree(candidates[i], chips, w, h)
  <2> HIDE DEF candidates
  <2> QED
    BY <1>5
<1>7. free = {} => NoPlace(clipped, k + 1, options, chips, w, h)
  BY <1>5 DEF NoPlace
<1> HIDE DEF outline, candidates, free, next
<1>8. ASSUME NEW more, NEW placed, chips \subseteq placed, LabelsLie(more, placed, w, h),
             \A other : HasLabel(strokes, other) => HasLabel(more, other),
             NEW boxes \in SUBSET RectRecord,
             \A box \in boxes : \/ options.label_height = 0
                                \/ HasLabel(more, k + 1)
                                \/ NoPlace(box, k + 1, options, placed, w, h),
             next.w = w, next.h = h, next.colours = colours, next.strokes = more, next.chips = placed,
             next.marks = Append(marks, boxes), DOMAIN next = DOMAIN drawing
      PROVE  Laid(next, k + 1, options, w, h, colours)
  <2>1. k + 1 = Len(marks) + 1
    BY <1>1
  <2>2. \A box \in boxes : \/ options.label_height = 0
                           \/ HasLabel(more, Len(marks) + 1)
                           \/ NoPlace(box, Len(marks) + 1, options, placed, w, h)
    BY <1>8, <2>1
  <2>3. /\ Append(marks, boxes) \in Seq(SUBSET RectRecord) /\ Len(Append(marks, boxes)) = Len(marks) + 1
        /\ Labelled(Append(marks, boxes), more, placed, options, w, h)
    <3>1. /\ marks \in Seq(SUBSET RectRecord) /\ Labelled(marks, strokes, chips, options, w, h)
          /\ chips \subseteq placed /\ boxes \in SUBSET RectRecord
      BY <1>1, <1>8
    <3>2. \A other : HasLabel(strokes, other) => HasLabel(more, other)
      BY <1>8
    <3> HIDE DEF marks, strokes, chips
    <3> QED
      BY ONLY <2>2, <3>1, <3>2, StaysLabelled
  <2> QED
    BY <1>1, <1>8, <2>1, <2>3 DEF Laid
<1>9. CASE clipped.w <= 0 \/ clipped.h <= 0
  <2> DEFINE none == {}
             longer == Append(marks, none)
  <2>1. next = [drawing EXCEPT !.marks = longer]
    BY <1>2, <1>9
  <2>2. none \in SUBSET RectRecord
    OBVIOUS
  <2>3. \A box \in none : \/ options.label_height = 0
                          \/ HasLabel(strokes, k + 1)
                          \/ NoPlace(box, k + 1, options, chips, w, h)
    OBVIOUS
  <2>4. /\ next.w = w /\ next.h = h /\ next.colours = colours /\ next.strokes = strokes /\ next.chips = chips
        /\ next.marks = longer /\ DOMAIN next = DOMAIN drawing
    <3> HIDE DEF longer
    <3> QED
      BY <1>1, <2>1
  <2> HIDE DEF none
  <2> QED
    BY <1>1, <1>8, <2>2, <2>3, <2>4 DEF next
<1>10. ASSUME ~(clipped.w <= 0 \/ clipped.h <= 0), options.label_height = 0 \/ free = {}
       PROVE  Laid(next, k + 1, options, w, h, colours)
  <2> DEFINE one == {clipped}
             longer == Append(marks, one)
             more == strokes \o outline
  <2>1. next = [drawing EXCEPT !.strokes = more, !.marks = longer]
    BY <1>2, <1>10
  <2>2. one \in SUBSET RectRecord
    BY <1>3
  <2>3. LabelsLie(more, chips, w, h) /\ \A other : HasLabel(strokes, other) => HasLabel(more, other)
    BY <1>1, <1>4, <1>10, PlainStrokes
  <2>4. \A box \in one : \/ options.label_height = 0
                         \/ HasLabel(more, k + 1)
                         \/ NoPlace(box, k + 1, options, chips, w, h)
    BY <1>7, <1>10
  <2>5. /\ next.w = w /\ next.h = h /\ next.colours = colours /\ next.strokes = more /\ next.chips = chips
        /\ next.marks = longer /\ DOMAIN next = DOMAIN drawing
    <3> HIDE DEF longer, more
    <3> QED
      BY <1>1, <2>1
  <2> HIDE DEF one, more
  <2> QED
    BY <1>8, <2>2, <2>3, <2>4, <2>5
<1>11. ASSUME ~(clipped.w <= 0 \/ clipped.h <= 0), ~(options.label_height = 0 \/ free = {})
       PROVE  Laid(next, k + 1, options, w, h, colours)
  <2> DEFINE one == {clipped}
             longer == Append(marks, one)
             sides == strokes \o outline
             more == sides \o <<Stroke(place, <<"chip", k + 1>>)>>
             placed == chips \cup {place}
  <2>1. next = [drawing EXCEPT !.strokes = more, !.marks = longer, !.chips = placed]
    BY <1>2, <1>11
  <2>2. one \in SUBSET RectRecord
    BY <1>3
  <2>3. LabelsLie(sides, chips, w, h) /\ \A other : HasLabel(strokes, other) => HasLabel(sides, other)
    BY <1>1, <1>4, <1>11, PlainStrokes
  <2>4. Extended(place) /\ IsFree(place, chips, w, h)
    <3>1. Min(free) \in free
      BY <1>6, <1>11, MinIsIn
    <3> QED
      BY <1>5, <1>6, <3>1
  <2>5. LabelsLie(more, placed, w, h) /\ HasLabel(more, k + 1)
        /\ \A other : HasLabel(sides, other) => HasLabel(more, other)
    <3> HIDE DEF sides, place
    <3>1. k + 1 \in Nat
      OBVIOUS
    <3> QED
      BY <2>3, <2>4, <3>1, LabelAdded
  <2>6. /\ next.w = w /\ next.h = h /\ next.colours = colours /\ next.strokes = more /\ next.chips = placed
        /\ next.marks = longer /\ DOMAIN next = DOMAIN drawing
    <3> HIDE DEF longer, more, placed
    <3> QED
      BY <1>1, <2>1
  <2>7. chips \subseteq placed
    OBVIOUS
  <2> HIDE DEF one, more, placed, sides
  <2> QED
    BY <1>8, <2>2, <2>3, <2>5, <2>6, <2>7
<1> QED
  BY <1>9, <1>10, <1>11 DEF next

-----------------------------------------------------------------------------
DrawMark(given, drawing, mark) == DrawRegionMark(drawing, given.regions[mark], mark, given.options)

Draws == INSTANCE FoldSteps WITH Op <- DrawMark

\* What is drawn before the first region.
Blank(background) ==
  [w |-> background.w, h |-> background.h, strokes |-> <<>>, marks |-> <<>>, chips |-> {},
   colours |-> [p \in DOMAIN background.pixels |-> SubSeq(Channels(background, p), 1, 3)]]

Places(regions) == [mark \in DOMAIN regions |-> mark]

LEMMA RenderIs ==
  ASSUME NEW background, NEW regions, NEW options, NEW polls,
         RenderSetOfMark(background, regions, options, polls).status = "kOk"
  PROVE  /\ ValidRenderOptions(options) /\ ValidImage(background)
         /\ RenderSetOfMark(background, regions, options, polls).value =
              Draws!Folded([regions |-> regions, options |-> options], Blank(background), Places(regions))
<1> DEFINE refusal == FirstFailure(
        <<polls[1],
          Requires(ValidRenderOptions(options), "kInvalidArgument"),
          Requires(ValidImage(background), "kInvalidArgument"),
          Requires(background.rotation = "k0", "kInvalidArgument"),
          Requires(background.format # "kNv12", "kUnsupportedFormat"),
          Requires(Len(regions) <= options.max_marks, "kBudgetExceeded"),
          Requires(background.w * background.h * 3 <= options.max_bytes, "kBudgetExceeded")>>)
           stops == FirstFailure([k \in 1 .. (Len(regions) + 63) \div 64 |-> polls[k + 1]])
           drawn == Draws!Folded([regions |-> regions, options |-> options], Blank(background), Places(regions))
<1>1. RenderSetOfMark(background, regions, options, polls) =
        IF refusal # "kOk" THEN Failed(refusal) ELSE IF stops # "kOk" THEN Failed(stops) ELSE Ok(drawn)
  BY DEF RenderSetOfMark, Blank, Places, DrawMark, Draws!Folded, FoldLeft, Draws!FoldLeft,
         MapThenFoldSet, Draws!MapThenFoldSet, Max, Draws!Max
<1>2. refusal = "kOk" => ValidRenderOptions(options) /\ ValidImage(background)
  <2> DEFINE checks == <<polls[1],
          Requires(ValidRenderOptions(options), "kInvalidArgument"),
          Requires(ValidImage(background), "kInvalidArgument"),
          Requires(background.rotation = "k0", "kInvalidArgument"),
          Requires(background.format # "kNv12", "kUnsupportedFormat"),
          Requires(Len(regions) <= options.max_marks, "kBudgetExceeded"),
          Requires(background.w * background.h * 3 <= options.max_bytes, "kBudgetExceeded")>>
  <2>1. /\ DOMAIN checks = 1 .. 7
        /\ checks[2] = Requires(ValidRenderOptions(options), "kInvalidArgument")
        /\ checks[3] = Requires(ValidImage(background), "kInvalidArgument")
    OBVIOUS
  <2> HIDE DEF checks
  <2>2. ASSUME FirstFailure(checks) = "kOk" PROVE checks[2] = "kOk" /\ checks[3] = "kOk"
    <3>1. \A i \in 1 .. 7 : checks[i] = "kOk"
      BY <2>1, <2>2, NothingFailed
    <3> QED
      BY <3>1
  <2>3. /\ checks[2] = "kOk" => ValidRenderOptions(options)
        /\ checks[3] = "kOk" => ValidImage(background)
    BY <2>1 DEF Requires
  <2> QED
    BY <2>2, <2>3 DEF checks
<1> HIDE DEF refusal, stops, drawn
<1>3. refusal = "kOk" /\ stops = "kOk"
  BY <1>1 DEF Failed
<1> QED
  BY <1>1, <1>2, <1>3 DEF Ok, drawn

\* A drawing is laid out as it should be.
LEMMA DrawnAreLaid ==
  ASSUME NEW background, NEW regions \in Seq(RectRecord), NEW options \in RenderOptions, NEW polls,
         RenderSetOfMark(background, regions, options, polls).status = "kOk"
  PROVE  LET drawn == RenderSetOfMark(background, regions, options, polls).value
         IN  /\ background.w \in Nat /\ background.h \in Nat
             /\ Laid(drawn, Len(regions), options, background.w, background.h, drawn.colours)
             /\ DOMAIN drawn.colours = Grid(background.w, background.h)
<1> DEFINE w == background.w
           h == background.h
           n == Len(regions)
           given == [regions |-> regions, options |-> options]
           base == Blank(background)
           drawn == RenderSetOfMark(background, regions, options, polls).value
           colours == base.colours
<1>1. /\ ValidRenderOptions(options) /\ ValidImage(background)
      /\ drawn = Draws!Folded(given, base, Places(regions))
  BY RenderIs
<1>2. w \in Nat /\ h \in Nat /\ DOMAIN background.pixels = Grid(w, h)
  BY <1>1, MaxDimensionIsWhole DEF ValidImage
<1>3. options.label_height \in Int /\ options.thickness \in Nat
  BY <1>1 DEF ValidRenderOptions, RenderOptions
<1>4. n \in Nat /\ DOMAIN regions = 1 .. n /\ \A i \in 1 .. n : regions[i] \in RectRecord
  BY LenProperties, ElementOfSeq
<1>5. DOMAIN Places(regions) = 1 .. n /\ \A i \in 1 .. n : Places(regions)[i] = i
  <2> HIDE DEF n
  <2> QED
    BY <1>4 DEF Places
<1>6. /\ DOMAIN base = {"w", "h", "strokes", "marks", "chips", "colours"}
      /\ base.w = w /\ base.h = h /\ base.strokes = <<>> /\ base.marks = <<>> /\ base.chips = {}
      /\ DOMAIN colours = Grid(w, h)
  BY <1>2 DEF Blank
<1>7. given.regions = regions /\ given.options = options
  OBVIOUS
<1> HIDE DEF given, base, drawn, n, w, h, colours
<1>8. PICK a : Draws!Trace(given, base, Places(regions), n, a)
               /\ Draws!Folded(given, base, Places(regions)) = a[n]
  BY <1>4, <1>5, Draws!FoldTrace
<1> DEFINE P == {t \in 0 .. n : Laid(a[t], t, options, w, h, colours)}
<1>9. 0 \in P
  <2> DEFINE none == <<>>
  <2>1. none \in Seq(AnyStroke) /\ none \in Seq(SUBSET RectRecord) /\ Len(none) = 0
    OBVIOUS
  <2>2. base.strokes = none /\ base.marks = none /\ base.chips = {}
    BY <1>6
  <2> HIDE DEF none
  <2>3. LabelsLie(none, {}, w, h) /\ Labelled(none, none, {}, options, w, h)
    BY <2>1 DEF LabelsLie, Labelled
  <2>4. Laid(base, 0, options, w, h, colours)
    BY <1>6, <2>1, <2>2, <2>3 DEF Laid, colours
  <2>5. a[0] = base
    BY <1>8 DEF Draws!Trace
  <2> QED
    BY <1>4, <2>4, <2>5
<1>10. ASSUME NEW t \in 1 .. n, t - 1 \in P PROVE t \in P
  <2> DEFINE k == t - 1
  <2>1. k \in Nat /\ k + 1 = t /\ t \in 0 .. n /\ Laid(a[k], k, options, w, h, colours)
    BY <1>4, <1>10
  <2>2. a[t] = DrawRegionMark(a[k], regions[t], t, options)
    BY <1>5, <1>7, <1>8 DEF Draws!Trace, DrawMark
  <2> HIDE DEF k
  <2>3. Laid(DrawRegionMark(a[k], regions[t], k + 1, options), k + 1, options, w, h, colours)
    BY <1>2, <1>3, <1>4, <2>1, DrawingStep
  <2> QED
    BY <2>1, <2>2, <2>3
<1> HIDE DEF P
<1>11. \A t \in 0 .. n : t \in P
  BY <1>4, <1>9, <1>10, Draws!BoundedInduction
<1>12. Laid(a[n], n, options, w, h, colours)
  BY <1>4, <1>11 DEF P
<1>13. drawn = a[n]
  BY <1>1, <1>8
<1>14. drawn.colours = colours
  BY <1>12, <1>13 DEF Laid
<1> QED
  BY <1>2, <1>6, <1>12, <1>13, <1>14 DEF drawn, n, w, h

\* Drawing marks.
LEMMA DrawingAnswers ==
  ASSUME job.regions \in Seq(RectRecord), job.options \in RenderOptions, DrawMarks, UNCHANGED job
  PROVE  LabelsStayApart'
<1> SUFFICES ASSUME answer'.status = "kOk" PROVE LabelsStayApart'
  BY DEF LabelsStayApart, Answered
<1> DEFINE drawn == answer'.value
           w == job.background.w
           h == job.background.h
           strokes == drawn.strokes
           Labels == {k \in DOMAIN strokes : strokes[k].ink[1] = "chip"}
           On(rect) == {p \in DOMAIN drawn.colours : ContainsPoint(rect, p)}
<1>1. answer' = RenderSetOfMark(job.background, job.regions, job.options, job.polls) /\ job' = job
  BY DEF DrawMarks
<1>2. /\ w \in Nat /\ h \in Nat
      /\ Laid(drawn, Len(job.regions), job.options, w, h, drawn.colours)
      /\ DOMAIN drawn.colours = Grid(w, h)
  BY <1>1, DrawnAreLaid
<1>3. \A rect : On(rect) = PixelsOn(rect, w, h)
  BY <1>2 DEF PixelsOn
<1>4. /\ Len(drawn.marks) = Len(job.regions)
      /\ drawn.marks \in Seq(SUBSET RectRecord)
      /\ LabelsLie(strokes, drawn.chips, w, h)
      /\ Labelled(drawn.marks, strokes, drawn.chips, job.options, w, h)
  BY <1>2 DEF Laid
<1>5. /\ DOMAIN strokes = 1 .. Len(strokes) /\ DOMAIN drawn.marks = 1 .. Len(drawn.marks)
      /\ strokes \in Seq(AnyStroke) /\ \A k \in Labels : IsLabel(strokes[k])
      /\ \A k \in 1 .. Len(strokes) : IsLabel(strokes[k]) => k \in Labels
  BY <1>4, LenProperties DEF LabelsLie, IsLabel
<1>6. \A k \in Labels : /\ Extended(strokes[k].rect) /\ InImage(strokes[k].rect, w, h)
                        /\ strokes[k].rect \in drawn.chips
  BY <1>4, <1>5 DEF LabelsLie
<1>7. \A k \in Labels : Cardinality(On(strokes[k].rect)) = Area(strokes[k].rect)
  <2> SUFFICES ASSUME NEW k \in Labels PROVE Cardinality(On(strokes[k].rect)) = Area(strokes[k].rect)
    OBVIOUS
  <2> DEFINE rect == strokes[k].rect
  <2>1. Extended(rect) /\ InImage(rect, w, h)
    BY <1>6
  <2> HIDE DEF rect
  <2>2. Cardinality(PixelsOn(rect, w, h)) = Area(rect)
    BY <1>2, <2>1, PixelsOfRect
  <2> QED
    BY <1>3, <2>2 DEF rect
<1>8. \A k, l \in Labels : k < l => On(strokes[k].rect) \cap On(strokes[l].rect) = {}
  <2> SUFFICES ASSUME NEW k \in Labels, NEW l \in Labels, k < l
               PROVE  On(strokes[k].rect) \cap On(strokes[l].rect) = {}
    OBVIOUS
  <2>1. ~RectsOverlap(strokes[k].rect, strokes[l].rect)
    BY <1>4, <1>5 DEF LabelsLie
  <2> QED
    BY <1>2, <1>3, <1>6, <2>1, SharedPixels
<1>9. ASSUME NEW mark \in DOMAIN drawn.marks, NEW box \in drawn.marks[mark],
             {strokes[k].rect : k \in {k \in Labels : strokes[k].ink[2] = mark}} = {},
             job.options.label_height > 0,
             NEW place \in ToSet(LabelCandidates(box, ChipSize(mark, job.options)))
      PROVE  \/ Cardinality(On(place)) < Area(place)
             \/ \E k \in Labels : On(place) \cap On(strokes[k].rect) # {}
  <2>1. ~HasLabel(strokes, mark)
    <3> SUFFICES ASSUME NEW k \in 1 .. Len(strokes), strokes[k].ink = <<"chip", mark>> PROVE FALSE
      BY DEF HasLabel
    <3>1. k \in Labels /\ strokes[k].ink[2] = mark
      BY <1>5
    <3>2. k \in {l \in Labels : strokes[l].ink[2] = mark}
      BY <3>1
    <3> QED
      BY <1>9, <3>2
  <2>2. job.options.label_height # 0
    BY <1>9 DEF RenderOptions
  <2>3. box \in RectRecord /\ NoPlace(box, mark, job.options, drawn.chips, w, h)
    BY <1>4, <1>5, <1>9, <2>1, <2>2 DEF Labelled
  <2>4. DOMAIN LabelCandidates(box, ChipSize(mark, job.options)) = 1 .. 4
    BY DEF LabelCandidates
  <2>5. PICK i \in 1 .. 4 : place = LabelCandidates(box, ChipSize(mark, job.options))[i]
    BY <2>4 DEF ToSet
  <2>6. Extended(place) /\ ~IsFree(place, drawn.chips, w, h)
    BY <2>3, <2>5 DEF NoPlace
  <2>7. CASE ~InImage(place, w, h)
    BY <1>2, <1>3, <2>6, <2>7, PixelsOfRect
  <2>8. CASE InImage(place, w, h)
    <3>1. PICK chip \in drawn.chips : RectsOverlap(place, chip)
      BY <2>6, <2>8 DEF IsFree, InImage
    <3>2. PICK k \in 1 .. Len(strokes) : IsLabel(strokes[k]) /\ strokes[k].rect = chip
      BY <1>4 DEF LabelsLie
    <3>3. k \in Labels
      BY <1>5, <3>2
    <3>4. Extended(chip) /\ InImage(chip, w, h)
      BY <1>6, <3>2, <3>3
    <3>5. On(place) \cap On(chip) # {}
      BY <1>2, <1>3, <2>6, <2>8, <3>1, <3>4, SharedPixels
    <3> QED
      BY <3>2, <3>3, <3>5
  <2> QED
    BY <2>7, <2>8
<1> DEFINE Place(mark) == {strokes[k].rect : k \in {k \in Labels : strokes[k].ink[2] = mark}}
<1>10. \A mark \in DOMAIN drawn.marks : \A box \in drawn.marks[mark] :
         Place(mark) = {} /\ job.options.label_height > 0 =>
           \A place \in ToSet(LabelCandidates(box, ChipSize(mark, job.options))) :
             \/ Cardinality(On(place)) < Area(place)
             \/ \E k \in Labels : On(place) \cap On(strokes[k].rect) # {}
  BY <1>9
<1>11. LabelsAreApart(job.regions, job.options, drawn)
  <2> HIDE DEF drawn
  <2> QED
    BY <1>4, <1>7, <1>8, <1>10 DEF LabelsAreApart
<1>12. LabelsStayApart' <=>
         (Answered("marks") /\ answer.status = "kOk" => LabelsAreApart(job.regions, job.options, answer.value))'
  BY DEF LabelsStayApart, LabelsAreApart
<1> QED
  BY <1>1, <1>11, <1>12

DropOne(given, cache, n) == DropTail(cache)
Drops == INSTANCE FoldSteps WITH Op <- DropOne
-----------------------------------------------------------------------------
(* The visual index *)

VisualEntry == [key : Int, bytes : Int, value : PrintRecord, live : BOOLEAN]

\* A cache whose entries are all in the index, one for each key.
Shelf(cache) ==
  /\ DOMAIN cache = {"entries", "used", "max"}
  /\ cache.entries \in Seq(VisualEntry)
  /\ \A i \in 1 .. Len(cache.entries) : cache.entries[i].live
  /\ \A i, j \in 1 .. Len(cache.entries) : i # j => cache.entries[i].key # cache.entries[j].key

KeysOf(cache) == {cache.entries[i].key : i \in 1 .. Len(cache.entries)}

\* The keys of A stand before all others.
Fronted(cache, A) ==
  \A i, j \in 1 .. Len(cache.entries) :
    i < j /\ cache.entries[j].key \in A => cache.entries[i].key \in A

\* The entry of a key that is held.
LEMMA HeldIs ==
  ASSUME NEW cache, Shelf(cache), NEW key
  PROVE  /\ Holds(cache, key) <=> key \in KeysOf(cache)
         /\ Holds(cache, key) =>
              LET i == CHOOSE j \in LiveAt(cache, key) : TRUE
              IN  i \in 1 .. Len(cache.entries) /\ cache.entries[i].key = key
<1>1. DOMAIN cache.entries = 1 .. Len(cache.entries)
  BY LenProperties DEF Shelf
<1>2. LiveAt(cache, key) = {i \in 1 .. Len(cache.entries) : cache.entries[i].key = key}
  BY <1>1 DEF LiveAt, Shelf
<1>3. Holds(cache, key) <=> LiveAt(cache, key) # {}
  BY DEF Holds
<1> QED
  BY <1>2, <1>3 DEF KeysOf

\* A cache without one of its entries.
LEMMA WithoutIs ==
  ASSUME NEW cache, Shelf(cache), NEW p \in 1 .. Len(cache.entries),
         NEW next, DOMAIN next = {"entries", "used", "max"}, next.entries = RemoveAt(cache.entries, p)
  PROVE  /\ Shelf(next) /\ KeysOf(next) = KeysOf(cache) \ {cache.entries[p].key}
         /\ \A A : Fronted(cache, A) => Fronted(next, A)
<1> DEFINE e == cache.entries
           f == next.entries
           n == Len(e)
           m == n - 1
           From(j) == IF j < p THEN j ELSE j + 1
<1>1. /\ e \in Seq(VisualEntry)
      /\ \A i \in 1 .. n : e[i].live
      /\ \A i, j \in 1 .. n : i # j => e[i].key # e[j].key
  BY DEF Shelf
<1>2. /\ f \in Seq(VisualEntry) /\ n \in Nat /\ Len(f) = m
      /\ \A j \in 1 .. m : f[j] = e[From(j)]
  <2> DEFINE less == RemoveAt(e, p)
  <2>1. /\ less \in Seq(VisualEntry) /\ n \in Nat /\ Len(less) = n - 1
        /\ \A j \in 1 .. n - 1 : less[j] = IF j < p THEN e[j] ELSE e[j + 1]
    BY <1>1, RemoveAtIs
  <2> HIDE DEF less, e
  <2> QED
    BY <2>1 DEF less, e
<1>3. p \in 1 .. n
  OBVIOUS
<1> HIDE DEF e, f, n
<1>4. \A j \in 1 .. m : From(j) \in 1 .. n /\ From(j) # p
  BY <1>2, <1>3
<1>5. \A i, j \in 1 .. m : i < j => From(i) < From(j)
  BY <1>2, <1>3
<1>6. \A i \in 1 .. n : i # p => \E j \in 1 .. m : From(j) = i
  <2> SUFFICES ASSUME NEW i \in 1 .. n, i # p PROVE \E j \in 1 .. m : From(j) = i
    OBVIOUS
  <2>1. CASE i < p
    BY <1>2, <1>3, <2>1
  <2>2. CASE i > p
    <3>1. i - 1 \in 1 .. m /\ ~(i - 1 < p) /\ (i - 1) + 1 = i
      BY <1>2, <1>3, <2>2
    <3> QED
      BY <3>1
  <2> QED
    BY <1>2, <1>3, <2>1, <2>2
<1>7. \A i, j \in 1 .. m : i # j => From(i) # From(j)
  BY <1>2, <1>3
<1> HIDE DEF m, From
<1>8. Shelf(next)
  <2>1. \A i \in 1 .. m : f[i].live
    BY <1>1, <1>2, <1>4
  <2>2. \A i, j \in 1 .. m : i # j => f[i].key # f[j].key
    <3> SUFFICES ASSUME NEW i \in 1 .. m, NEW j \in 1 .. m, i # j PROVE f[i].key # f[j].key
      OBVIOUS
    <3>1. From(i) \in 1 .. n /\ From(j) \in 1 .. n /\ From(i) # From(j)
      BY <1>4, <1>7
    <3>2. e[From(i)].key # e[From(j)].key
      BY <1>1, <3>1
    <3> QED
      BY <1>2, <3>2
  <2> QED
    BY <1>2, <2>1, <2>2 DEF Shelf, f
<1>9. KeysOf(next) = KeysOf(cache) \ {e[p].key}
  <2>1. \A i \in 1 .. m : f[i].key # e[p].key
    BY <1>1, <1>2, <1>3, <1>4
  <2>2. \A i \in 1 .. n : e[i].key # e[p].key => \E j \in 1 .. m : f[j].key = e[i].key
    BY <1>2, <1>6
  <2>3. KeysOf(next) = {f[i].key : i \in 1 .. m} /\ KeysOf(cache) = {e[i].key : i \in 1 .. n}
    BY <1>2 DEF KeysOf, e, f, n
  <2>4. ASSUME NEW k, k \in {f[i].key : i \in 1 .. m}
        PROVE  k \in {e[i].key : i \in 1 .. n} /\ k # e[p].key
    BY <1>2, <1>4, <2>1, <2>4
  <2>5. ASSUME NEW k, k \in {e[i].key : i \in 1 .. n}, k # e[p].key
        PROVE  k \in {f[i].key : i \in 1 .. m}
    BY <2>2, <2>5
  <2> QED
    BY <2>3, <2>4, <2>5
<1>10. ASSUME NEW A, Fronted(cache, A) PROVE Fronted(next, A)
  <2>1. \A i, j \in 1 .. n : i < j /\ e[j].key \in A => e[i].key \in A
    BY <1>10 DEF Fronted, e, n
  <2>2. \A i, j \in 1 .. m : i < j /\ f[j].key \in A => f[i].key \in A
    BY <1>2, <1>4, <1>5, <2>1
  <2> QED
    BY <1>2, <2>2 DEF Fronted, f
<1> QED
  BY <1>8, <1>9, <1>10 DEF e

\* A new entry before the others.
LEMMA AheadOfAll ==
  ASSUME NEW cache, Shelf(cache), NEW entry \in VisualEntry, entry.live, entry.key \notin KeysOf(cache),
         NEW next, DOMAIN next = {"entries", "used", "max"}, next.entries = <<entry>> \o cache.entries
  PROVE  /\ Shelf(next) /\ KeysOf(next) = KeysOf(cache) \cup {entry.key}
         /\ \A A : Fronted(cache, A) => Fronted(next, A \cup {entry.key})
<1> DEFINE e == cache.entries
           f == next.entries
           n == Len(e)
<1>1. /\ e \in Seq(VisualEntry)
      /\ \A i \in 1 .. n : e[i].live
      /\ \A i, j \in 1 .. n : i # j => e[i].key # e[j].key
  BY DEF Shelf
<1>2. /\ f \in Seq(VisualEntry) /\ n \in Nat /\ Len(f) = n + 1 /\ f[1] = entry
      /\ \A i \in 1 .. n : f[i + 1] = e[i]
      /\ \A i \in 2 .. n + 1 : f[i] = e[i - 1]
  <2> HIDE DEF e
  <2>1. f = <<entry>> \o e
    BY DEF e
  <2> HIDE DEF f
  <2> QED
    BY <1>1, <2>1, InFront
<1>3. \A i \in 1 .. n : e[i].key # entry.key
  BY DEF KeysOf
<1> HIDE DEF e, f, n
<1>4. \A i \in 1 .. n + 1 : i = 1 \/ (i \in 2 .. n + 1 /\ i - 1 \in 1 .. n)
  BY <1>2
<1>5. (\A i \in 1 .. n : i + 1 \in 1 .. n + 1) /\ 1 \in 1 .. n + 1
  BY <1>2
<1>6. Shelf(next)
  <2>1. \A i \in 1 .. n + 1 : f[i].live
    BY <1>1, <1>2, <1>4
  <2>2. \A i, j \in 1 .. n + 1 : i # j => f[i].key # f[j].key
    <3> SUFFICES ASSUME NEW i \in 1 .. n + 1, NEW j \in 1 .. n + 1, i # j PROVE f[i].key # f[j].key
      OBVIOUS
    <3>1. CASE i = 1
      BY <1>2, <1>3, <1>4, <3>1
    <3>2. CASE j = 1
      BY <1>2, <1>3, <1>4, <3>2
    <3>3. CASE i # 1 /\ j # 1
      <4>1. i - 1 \in 1 .. n /\ j - 1 \in 1 .. n /\ i - 1 # j - 1
        BY <1>4, <3>3
      <4>2. f[i] = e[i - 1] /\ f[j] = e[j - 1]
        BY <1>2, <1>4, <3>3
      <4> QED
        BY <1>1, <4>1, <4>2
    <3> QED
      BY <3>1, <3>2, <3>3
  <2> QED
    BY <1>2, <2>1, <2>2 DEF Shelf, f
<1>7. KeysOf(next) = KeysOf(cache) \cup {entry.key}
  <2>1. KeysOf(next) = {f[i].key : i \in 1 .. n + 1} /\ KeysOf(cache) = {e[i].key : i \in 1 .. n}
    BY <1>2 DEF KeysOf, e, f, n
  <2>2. \A i \in 1 .. n + 1 : f[i].key = entry.key \/ \E j \in 1 .. n : f[i].key = e[j].key
    BY <1>2, <1>4
  <2>3. \A i \in 1 .. n : \E j \in 1 .. n + 1 : f[j].key = e[i].key
    BY <1>2, <1>5
  <2>4. \E j \in 1 .. n + 1 : f[j].key = entry.key
    BY <1>2, <1>5
  <2>5. ASSUME NEW k, k \in {f[i].key : i \in 1 .. n + 1}
        PROVE  k = entry.key \/ k \in {e[i].key : i \in 1 .. n}
    BY <2>2, <2>5
  <2>6. ASSUME NEW k, k = entry.key \/ k \in {e[i].key : i \in 1 .. n}
        PROVE  k \in {f[i].key : i \in 1 .. n + 1}
    BY <2>3, <2>4, <2>6
  <2> QED
    BY <2>1, <2>5, <2>6
<1>8. ASSUME NEW A, Fronted(cache, A) PROVE Fronted(next, A \cup {entry.key})
  <2>1. \A i, j \in 1 .. n : i < j /\ e[j].key \in A => e[i].key \in A
    BY <1>8 DEF Fronted, e, n
  <2>2. \A i, j \in 1 .. n + 1 :
          i < j /\ f[j].key \in A \cup {entry.key} => f[i].key \in A \cup {entry.key}
    <3> SUFFICES ASSUME NEW i \in 1 .. n + 1, NEW j \in 1 .. n + 1, i < j, f[j].key \in A \cup {entry.key}
                 PROVE  f[i].key \in A \cup {entry.key}
      OBVIOUS
    <3>1. CASE i = 1
      BY <1>2, <3>1
    <3>2. CASE i # 1
      <4>1. /\ i - 1 \in 1 .. n /\ j - 1 \in 1 .. n /\ i - 1 < j - 1
            /\ f[i] = e[i - 1] /\ f[j] = e[j - 1]
        BY <1>2, <1>4, <3>2
      <4>2. e[j - 1].key \in A
        BY <1>3, <4>1
      <4> QED
        BY <2>1, <4>1, <4>2
    <3> QED
      BY <3>1, <3>2
  <2> QED
    BY <1>2, <2>2 DEF Fronted, f
<1> QED
  BY <1>6, <1>7, <1>8

\* The entries of a cache are the first of another's.
Leads(room, cache) ==
  /\ Len(room.entries) <= Len(cache.entries)
  /\ \A i \in 1 .. Len(room.entries) : room.entries[i] = cache.entries[i]

\* An entry that stays in the index is left as it is.
LEMMA StaysLive ==
  ASSUME NEW entry \in VisualEntry, entry.live, NEW key, entry.key # key
  PROVE  [entry EXCEPT !.live = @ /\ entry.key # key] = entry
<1>1. (entry.live /\ entry.key # key) = entry.live
  BY DEF VisualEntry
<1>2. [entry EXCEPT !.live = @ /\ entry.key # key] = [entry EXCEPT !.live = entry.live]
  BY <1>1
<1>3. [entry EXCEPT !.live = entry.live] = entry
  BY DEF VisualEntry
<1> QED
  BY <1>2, <1>3

\* The index forgets the key of the last entry, which no other has.
LEMMA DropTailIs ==
  ASSUME NEW cache, Shelf(cache), cache.entries # <<>>
  PROVE  /\ Shelf(DropTail(cache)) /\ Leads(DropTail(cache), cache)
         /\ Len(cache.entries) \in Nat \ {0}
         /\ Len(DropTail(cache).entries) = Len(cache.entries) - 1
<1> DEFINE e == cache.entries
           n == Len(e)
           m == n - 1
           tail == Last(e)
           rest == Front(e)
           Unindexed(entry) == [entry EXCEPT !.live = @ /\ entry.key # tail.key]
           kept == [i \in DOMAIN rest |-> Unindexed(rest[i])]
           next == DropTail(cache)
<1>1. next.entries = kept /\ DOMAIN next = {"entries", "used", "max"}
  BY DEF DropTail, Shelf
<1>2. /\ e \in Seq(VisualEntry)
      /\ \A i \in 1 .. n : e[i].live
      /\ \A i, j \in 1 .. n : i # j => e[i].key # e[j].key
  BY DEF Shelf
<1>3. n \in Nat \ {0} /\ \A i \in 1 .. n : e[i] \in VisualEntry
  BY <1>2, EmptySeq, LenProperties, ElementOfSeq
<1>4. tail = e[n]
  BY DEF Last
<1>5. rest \in Seq(VisualEntry) /\ Len(rest) = m /\ \A i \in 1 .. m : rest[i] = e[i]
  <2> DEFINE front == SubSeq(e, 1, m)
  <2>1. m \in Int /\ 1 \in Int /\ \A i \in 1 .. m : e[i] \in VisualEntry
    BY <1>3
  <2>2. front \in Seq(VisualEntry) /\ Len(front) = (IF 1 <= m THEN m - 1 + 1 ELSE 0)
        /\ \A i \in 1 .. m - 1 + 1 : front[i] = e[1 + i - 1]
    BY <1>2, <2>1, SubSeqProperties
  <2>3. rest = front
    BY DEF Front
  <2> HIDE DEF front, e, rest
  <2> QED
    BY <1>3, <2>2, <2>3
<1> HIDE DEF e, n, tail, rest
<1>6. m \in Nat /\ DOMAIN rest = 1 .. m
  BY <1>3, <1>5, LenProperties
<1>7. \A i \in 1 .. m : i \in 1 .. n /\ i # n
  BY <1>3
<1>8. n \in 1 .. n
  BY <1>3
<1> HIDE DEF m
<1>9. \A i \in 1 .. m : kept[i] = e[i]
  <2> SUFFICES ASSUME NEW i \in 1 .. m PROVE kept[i] = e[i]
    OBVIOUS
  <2>1. e[i] \in VisualEntry /\ e[i].live /\ e[i].key # tail.key
    BY <1>2, <1>3, <1>4, <1>7, <1>8
  <2>2. kept[i] = Unindexed(e[i])
    BY <1>5, <1>6
  <2> QED
    BY <2>1, <2>2, StaysLive
<1>10. kept = [i \in 1 .. m |-> kept[i]] /\ DOMAIN kept = 1 .. m
  BY <1>6
<1> HIDE DEF kept, Unindexed
<1>11. kept \in Seq(VisualEntry) /\ Len(kept) = m
  <2>1. kept \in [1 .. m -> VisualEntry]
    BY <1>3, <1>7, <1>9, <1>10
  <2>2. kept \in Seq(VisualEntry)
    BY <1>6, <2>1, SeqDef
  <2> QED
    BY <1>6, <1>10, <2>2, LenProperties
<1> HIDE DEF next
<1>12. Shelf(next)
  <2>1. \A i \in 1 .. m : kept[i].live
    BY <1>2, <1>7, <1>9
  <2>2. \A i, j \in 1 .. m : i # j => kept[i].key # kept[j].key
    BY <1>2, <1>7, <1>9
  <2> QED
    BY <1>1, <1>11, <2>1, <2>2 DEF Shelf
<1>13. m <= n /\ m = n - 1
  BY <1>3 DEF m
<1> QED
  BY <1>1, <1>3, <1>9, <1>11, <1>12, <1>13 DEF Leads, next, e, n

\* Room is made from the end of the list.
LEMMA MadeRoomIs ==
  ASSUME NEW cache, Shelf(cache), NEW bytes
  PROVE  Shelf(MadeRoom(cache, bytes)) /\ Leads(MadeRoom(cache, bytes), cache)
<1> DEFINE Dropping(f) == f = [n \in Nat |-> IF n = 0 THEN cache ELSE DropTail(f[n - 1])]
           Drop == CHOOSE f : Dropping(f)
           len == Len(cache.entries)
           Enough(n) == Drop[n].used + bytes <= cache.max \/ Drop[n].entries = <<>>
           First(n) == n \in 0 .. len /\ Enough(n) /\ \A m \in 0 .. n - 1 : ~Enough(m)
           stop == CHOOSE n \in 0 .. len : Enough(n) /\ \A m \in 0 .. n - 1 : ~Enough(m)
<1>1. MadeRoom(cache, bytes) = Drop[stop]
  BY DEF MadeRoom
<1>2. Dropping(Drop)
  <2>1. PICK f : Drops!Recursion(0, cache, f)
    BY Drops!RecursionExists
  <2>2. Dropping(f)
    BY <2>1 DEF Drops!Recursion, DropOne
  <2> HIDE DEF Dropping
  <2> QED
    BY <2>2
<1> HIDE DEF Drop
<1>3. len \in Nat
  BY LenProperties DEF Shelf
<1> DEFINE Sound(c, n) == Shelf(c) /\ Len(c.entries) = len - n /\ Leads(c, cache)
           P == {n \in 0 .. len : Sound(Drop[n], n)}
<1>4. 0 \in P
  <2>1. Drop[0] = cache
    BY <1>2
  <2>2. Leads(cache, cache)
    BY <1>3 DEF Leads
  <2> QED
    BY <1>3, <2>1, <2>2
<1>5. ASSUME NEW n \in 1 .. len, n - 1 \in P PROVE n \in P
  <2>1. Drop[n] = DropTail(Drop[n - 1])
    BY <1>2, <1>3
  <2> DEFINE before == Drop[n - 1]
  <2>2. Shelf(before) /\ Len(before.entries) = len - (n - 1) /\ Leads(before, cache)
    BY <1>5
  <2> HIDE DEF before
  <2>3. before.entries # <<>>
    BY <1>3, <2>2, EmptySeq
  <2>4. Sound(DropTail(before), n)
    <3> DEFINE some == Len(before.entries)
               next == DropTail(before)
    <3>1. /\ Shelf(next) /\ Leads(next, before)
          /\ Len(next.entries) = some - 1 /\ some \in Nat \ {0}
      BY <2>2, <2>3, DropTailIs
    <3>2. some = len - (n - 1)
      BY <2>2
    <3> HIDE DEF some, next
    <3>3. some - 1 = len - n
      BY <1>3, <3>2
    <3>4. Leads(next, cache)
      BY <1>3, <2>2, <3>1, <3>2 DEF Leads, some
    <3> QED
      BY <3>1, <3>3, <3>4 DEF next
  <2> QED
    BY <1>3, <2>1, <2>4 DEF before
<1> HIDE DEF P
<1>6. \A n \in 0 .. len : n \in P
  BY <1>3, <1>4, <1>5, Drops!BoundedInduction
<1>7. \A n \in 0 .. len : Sound(Drop[n], n)
  BY <1>6 DEF P
<1>8. Enough(len)
  <2> DEFINE all == Drop[len]
  <2>1. Sound(all, len)
    BY <1>3, <1>7
  <2> HIDE DEF all
  <2>2. all.entries \in Seq(VisualEntry) /\ Len(all.entries) = 0
    BY <1>3, <2>1 DEF Shelf
  <2> QED
    BY <2>2, EmptySeq DEF all
<1> HIDE DEF Sound
<1>9. \E n \in 0 .. len : First(n)
  <2> DEFINE Q == {n \in 0 .. len : Enough(n)}
  <2> HIDE DEF Enough
  <2>1. Q \in SUBSET Nat /\ Q # {}
    BY <1>3, <1>8
  <2> HIDE DEF Q
  <2>2. PICK n \in Q : \A m \in Q : n <= m
    BY <2>1, LeastOf
  <2>3. n \in 0 .. len /\ Enough(n)
    BY <2>2 DEF Q
  <2>4. ASSUME NEW m \in 0 .. n - 1 PROVE ~Enough(m)
    BY <1>3, <2>2, <2>3, <2>4 DEF Q
  <2> QED
    BY <2>3, <2>4
<1>10. First(stop)
  BY <1>9
<1> HIDE DEF stop
<1>11. Sound(Drop[stop], stop)
  BY <1>7, <1>10
<1> QED
  BY <1>1, <1>11 DEF Sound

\* Taking a key out.
LEMMA ErasedIs ==
  ASSUME NEW cache, Shelf(cache), NEW key
  PROVE  LET next == Erased(cache, key)
         IN  /\ Shelf(next) /\ KeysOf(next) = KeysOf(cache) \ {key}
             /\ \A A : Fronted(cache, A) => Fronted(next, A)
<1> DEFINE next == Erased(cache, key)
           i == CHOOSE j \in LiveAt(cache, key) : TRUE
<1>1. CASE ~Holds(cache, key)
  <2>1. next = cache /\ key \notin KeysOf(cache)
    BY <1>1, HeldIs DEF Erased
  <2> QED
    BY <2>1
<1>2. CASE Holds(cache, key)
  <2>1. i \in 1 .. Len(cache.entries) /\ cache.entries[i].key = key
    BY <1>2, HeldIs
  <2>2. next.entries = RemoveAt(cache.entries, i) /\ DOMAIN next = {"entries", "used", "max"}
    BY <1>2 DEF Erased, Shelf
  <2> HIDE DEF i, next
  <2>3. /\ Shelf(next) /\ KeysOf(next) = KeysOf(cache) \ {cache.entries[i].key}
        /\ \A A : Fronted(cache, A) => Fronted(next, A)
    BY <2>1, <2>2, WithoutIs
  <2> QED
    BY <2>1, <2>3 DEF next
<1> QED
  BY <1>1, <1>2

\* What is dropped to make room stood behind all that is left.
LEMMA DroppedFromTheEnd ==
  ASSUME NEW cache, Shelf(cache), NEW room, Shelf(room), Leads(room, cache),
         NEW A, Fronted(cache, A), NEW k, k \in A, k \in KeysOf(cache), k \notin KeysOf(room)
  PROVE  KeysOf(room) \subseteq A
<1> DEFINE n == Len(cache.entries)
           m == Len(room.entries)
<1>1. n \in Nat /\ m \in Nat /\ m <= n
  BY LenProperties DEF Shelf, Leads
<1>2. PICK j \in 1 .. n : cache.entries[j].key = k
  BY DEF KeysOf
<1>3. \A i \in 1 .. m : room.entries[i] = cache.entries[i]
  BY DEF Leads
<1>4. ~(j <= m)
  BY <1>1, <1>2, <1>3 DEF KeysOf
<1>5. ASSUME NEW i \in 1 .. m PROVE room.entries[i].key \in A
  <2>1. i \in 1 .. n /\ i < j
    BY <1>1, <1>2, <1>4
  <2> QED
    BY <1>2, <1>3, <2>1 DEF Fronted
<1> QED
  BY <1>5 DEF KeysOf

LEMMA LeadingKeys ==
  ASSUME NEW cache, Shelf(cache), NEW room, Shelf(room), Leads(room, cache)
  PROVE  KeysOf(room) \subseteq KeysOf(cache)
<1> DEFINE n == Len(cache.entries)
           m == Len(room.entries)
<1>1. n \in Nat /\ m \in Nat /\ m <= n
  BY LenProperties DEF Shelf, Leads
<1>2. \A i \in 1 .. m : i \in 1 .. n /\ room.entries[i] = cache.entries[i]
  BY <1>1 DEF Leads
<1> QED
  BY <1>2 DEF KeysOf

\* Filing an entry: if it drops one of a group that stood in front, then
\* what is left is of that group, or is the new entry.
LEMMA FilingIs ==
  ASSUME NEW cache, Shelf(cache), NEW side \in Int, NEW entry \in [id : Int, print : PrintRecord]
  PROVE  LET next == File(side, cache, entry)
         IN  /\ Shelf(next)
             /\ \A A : Fronted(cache, A) /\ A \cap (KeysOf(cache) \ KeysOf(next)) # {} =>
                  KeysOf(next) \subseteq A \cup {entry.id}
<1> DEFINE next == File(side, cache, entry)
           id == entry.id
           bytes == EntryBytes(side)
           erased == Erased(cache, id)
           room == MadeRoom(erased, bytes)
           new == Entry(id, bytes, entry.print, TRUE)
<1>1. CASE bytes > cache.max
  <2>1. next = cache
    BY <1>1 DEF File, VisualInsert, Stored
  <2> QED
    BY <2>1
<1>2. CASE ~(bytes > cache.max)
  <2>1. /\ Shelf(erased) /\ KeysOf(erased) = KeysOf(cache) \ {id}
        /\ \A A : Fronted(cache, A) => Fronted(erased, A)
    BY ErasedIs
  <2>2. next = Pushed(erased, id, bytes, entry.print, NoFault)
    BY <1>2 DEF File, VisualInsert, Stored
  <2> HIDE DEF erased
  <2>3. Shelf(room) /\ Leads(room, erased)
    BY <2>1, MadeRoomIs
  <2>4. KeysOf(room) \subseteq KeysOf(erased)
    BY <2>1, <2>3, LeadingKeys
  <2>5. next = [room EXCEPT !.entries = <<new>> \o @, !.used = @ + bytes]
    BY <2>2 DEF Pushed, NoFault
  <2> HIDE DEF room, next
  <2>6. next.entries = <<new>> \o room.entries /\ DOMAIN next = {"entries", "used", "max"}
    BY <2>3, <2>5 DEF Shelf
  <2>7. new \in VisualEntry /\ new.live /\ new.key = id
    BY DEF Entry, VisualEntry, EntryBytes, Overhead
  <2> HIDE DEF new
  <2>8. Shelf(next) /\ KeysOf(next) = KeysOf(room) \cup {id}
    <3>1. new.key \notin KeysOf(room)
      BY <2>1, <2>4, <2>7
    <3> QED
      BY <2>3, <2>6, <2>7, <3>1, AheadOfAll
  <2>9. ASSUME NEW A, Fronted(cache, A), A \cap (KeysOf(cache) \ KeysOf(next)) # {}
        PROVE  KeysOf(next) \subseteq A \cup {id}
    <3>1. PICK k \in A : k \in KeysOf(cache) /\ k \notin KeysOf(next)
      BY <2>9
    <3>2. k \in KeysOf(erased) /\ k \notin KeysOf(room)
      BY <2>1, <2>8, <3>1
    <3>3. Fronted(erased, A)
      BY <2>1, <2>9
    <3>4. KeysOf(room) \subseteq A
      BY <2>1, <2>3, <3>1, <3>2, <3>3, DroppedFromTheEnd
    <3> QED
      BY <2>8, <3>4
  <2> QED
    BY <2>8, <2>9 DEF next
<1> QED
  BY <1>1, <1>2

\* A hit leaves its place for the front.
LEMMA PromotionIs ==
  ASSUME NEW cache, Shelf(cache), NEW key \in KeysOf(cache)
  PROVE  LET next == Promoted(cache, key)
         IN  /\ Shelf(next) /\ KeysOf(next) = KeysOf(cache)
             /\ \A A : Fronted(cache, A) => Fronted(next, A \cup {key})
<1> DEFINE next == Promoted(cache, key)
           i == CHOOSE j \in LiveAt(cache, key) : TRUE
           hit == cache.entries[i]
           less == [cache EXCEPT !.entries = RemoveAt(@, i)]
<1>1. Holds(cache, key)
  BY HeldIs
<1>2. i \in 1 .. Len(cache.entries) /\ cache.entries[i].key = key
  BY <1>1, HeldIs
<1>3. next = [cache EXCEPT !.entries = <<cache.entries[i]>> \o RemoveAt(cache.entries, i)]
  BY <1>1 DEF Promoted
<1> HIDE DEF i, next
<1>4. next.entries = <<hit>> \o RemoveAt(cache.entries, i) /\ DOMAIN next = {"entries", "used", "max"}
  BY <1>3 DEF Shelf
<1>5. less.entries = RemoveAt(cache.entries, i) /\ DOMAIN less = {"entries", "used", "max"}
  BY DEF Shelf
<1>6. hit \in VisualEntry /\ hit.live /\ hit.key = key
  <2>1. cache.entries \in Seq(VisualEntry)
    BY DEF Shelf
  <2>2. cache.entries[i] \in VisualEntry
    BY <1>2, <2>1, ElementOfSeq
  <2> QED
    BY <1>2, <2>2 DEF Shelf
<1> HIDE DEF less
<1>7. /\ Shelf(less) /\ KeysOf(less) = KeysOf(cache) \ {cache.entries[i].key}
      /\ \A A : Fronted(cache, A) => Fronted(less, A)
  BY <1>2, <1>5, WithoutIs
<1>8. next.entries = <<hit>> \o less.entries
  BY <1>4, <1>5
<1> HIDE DEF hit
<1>9. hit.key \notin KeysOf(less)
  BY <1>6, <1>7 DEF hit
<1>10. /\ Shelf(next) /\ KeysOf(next) = KeysOf(less) \cup {hit.key}
       /\ \A A : Fronted(less, A) => Fronted(next, A \cup {hit.key})
  BY <1>4, <1>6, <1>7, <1>8, <1>9, AheadOfAll
<1> QED
  BY <1>2, <1>6, <1>7, <1>10 DEF next

Files == INSTANCE FoldSteps WITH Op <- File

PromoteHit(given, cache, hit) == Promoted(cache, hit.id)
Promotes == INSTANCE FoldSteps WITH Op <- PromoteHit

LEMMA AllFiled ==
  ASSUME NEW side \in Int, NEW budget, NEW entries \in Seq([id : Int, print : PrintRecord])
  PROVE  Shelf(FoldLeft(LAMBDA index, entry : File(side, index, entry), EmptyCache(budget), entries))
<1> DEFINE empty == EmptyCache(budget)
           n == Len(entries)
<1>1. FoldLeft(LAMBDA index, entry : File(side, index, entry), empty, entries)
        = Files!Folded(side, empty, entries)
  BY DEF Files!Folded, FoldLeft, Files!FoldLeft, MapThenFoldSet, Files!MapThenFoldSet, Max, Files!Max
<1>2. Shelf(empty)
  <2>1. empty.entries = <<>> /\ DOMAIN empty = {"entries", "used", "max"}
    BY DEF EmptyCache
  <2>2. <<>> \in Seq(VisualEntry) /\ Len(<<>>) = 0
    OBVIOUS
  <2> HIDE DEF empty
  <2> QED
    BY <2>1, <2>2 DEF Shelf
<1> HIDE DEF empty
<1>3. n \in Nat /\ DOMAIN entries = 1 .. n /\ \A i \in 1 .. n : entries[i] \in [id : Int, print : PrintRecord]
  BY LenProperties, ElementOfSeq
<1> HIDE DEF n
<1>4. PICK a : Files!Trace(side, empty, entries, n, a) /\ Files!Folded(side, empty, entries) = a[n]
  BY <1>3, Files!FoldTrace
<1> DEFINE S == {i \in 0 .. n : Shelf(a[i])}
<1>5. 0 \in S
  BY <1>2, <1>3, <1>4 DEF Files!Trace
<1>6. ASSUME NEW i \in 1 .. n, i - 1 \in S PROVE i \in S
  <2>1. a[i] = File(side, a[i - 1], entries[i])
    BY <1>4 DEF Files!Trace
  <2>2. Shelf(a[i - 1]) /\ entries[i] \in [id : Int, print : PrintRecord]
    BY <1>3, <1>6
  <2> DEFINE before == a[i - 1]
             entry == entries[i]
  <2> HIDE DEF before, entry
  <2>3. Shelf(File(side, before, entry))
    BY <2>2, FilingIs DEF before, entry
  <2> QED
    BY <2>1, <2>3 DEF before, entry
<1> HIDE DEF S
<1>7. \A i \in 0 .. n : i \in S
  BY ONLY <1>3, <1>5, <1>6, Files!BoundedInduction
<1>8. n \in S
  BY <1>3, <1>7
<1>9. Shelf(a[n])
  BY <1>8 DEF S
<1> QED
  BY <1>1, <1>4, <1>9 DEF empty

PromotedBy(cache, hits) == FoldLeft(LAMBDA c, hit : Promoted(c, hit.id), cache, hits)

LEMMA AllPromoted ==
  ASSUME NEW cache, Shelf(cache), NEW n \in Nat, NEW hits, DOMAIN hits = 1 .. n,
         \A i \in 1 .. n : hits[i].id \in KeysOf(cache)
  PROVE  LET next == PromotedBy(cache, hits)
         IN  /\ Shelf(next) /\ KeysOf(next) = KeysOf(cache)
             /\ Fronted(next, {hits[i].id : i \in 1 .. n})
<1>1. PromotedBy(cache, hits) = Promotes!Folded(0, cache, hits)
  BY DEF PromotedBy, PromoteHit, Promotes!Folded, FoldLeft, Promotes!FoldLeft, MapThenFoldSet, Promotes!MapThenFoldSet,
         Max, Promotes!Max
<1>2. PICK a : Promotes!Trace(0, cache, hits, n, a) /\ Promotes!Folded(0, cache, hits) = a[n]
  BY Promotes!FoldTrace
<1> DEFINE Ids(m) == {hits[i].id : i \in 1 .. m}
           Sound(c, m) == Shelf(c) /\ KeysOf(c) = KeysOf(cache) /\ Fronted(c, Ids(m))
           S == {m \in 0 .. n : Sound(a[m], m)}
<1>3. 0 \in S
  <2>1. Fronted(cache, Ids(0))
    BY DEF Fronted
  <2>2. a[0] = cache
    BY <1>2 DEF Promotes!Trace
  <2>3. Sound(cache, 0)
    BY <2>1
  <2> HIDE DEF Sound
  <2> QED
    BY <2>2, <2>3
<1>4. ASSUME NEW m \in 1 .. n, m - 1 \in S PROVE m \in S
  <2> DEFINE before == a[m - 1]
             key == hits[m].id
             ids == Ids(m - 1)
  <2>1. a[m] = Promoted(before, key)
    BY <1>2 DEF Promotes!Trace, PromoteHit
  <2>2. Shelf(before) /\ KeysOf(before) = KeysOf(cache) /\ Fronted(before, ids) /\ key \in KeysOf(cache)
    BY <1>4
  <2>3. Ids(m) = ids \cup {key}
    <3>1. \A i : i \in 1 .. m <=> i \in 1 .. m - 1 \/ i = m
      OBVIOUS
    <3> QED
      BY <3>1
  <2> HIDE DEF before, key, ids
  <2> DEFINE next == Promoted(before, key)
  <2>4. /\ Shelf(next) /\ KeysOf(next) = KeysOf(before)
        /\ Fronted(next, ids \cup {key})
    BY <2>2, PromotionIs
  <2> HIDE DEF next
  <2>5. Sound(next, m)
    BY <2>2, <2>3, <2>4
  <2> HIDE DEF Sound
  <2>6. Sound(a[m], m) /\ m \in 0 .. n
    BY <2>1, <2>5 DEF next
  <2> QED
    BY ONLY <2>6 DEF S
<1> HIDE DEF S
<1>5. \A m \in 0 .. n : m \in S
  BY ONLY n \in Nat, <1>3, <1>4, Promotes!BoundedInduction
<1>6. n \in S
  BY <1>5
<1> QED
  BY <1>1, <1>2, <1>6 DEF S

\* What a query finds, and how it ranks that.
Finds(print, thresholds) ==
  \/ print.same
  \/ thresholds.hash < Full /\ print.hash >= thresholds.hash
  \/ thresholds.ncc < Full /\ print.ncc >= thresholds.ncc

LayerOf(print, thresholds) ==
  IF print.same THEN 0 ELSE IF thresholds.hash < Full /\ print.hash >= thresholds.hash THEN 1 ELSE 2

SimilarityOf(print, thresholds) ==
  IF print.same THEN Full
  ELSE IF thresholds.hash < Full /\ print.hash >= thresholds.hash THEN print.hash ELSE print.ncc

Thresholds == [hash : Int, ncc : Int]
Hit == [layer : 0 .. 2, similarity : Int, id : Int]

HitOn(entry, thresholds) ==
  [layer |-> LayerOf(entry.value, thresholds), similarity |-> SimilarityOf(entry.value, thresholds),
   id |-> entry.key]

FoundAt(cache, thresholds) ==
  {i \in 1 .. Len(cache.entries) : Finds(cache.entries[i].value, thresholds)}

LEMMA HitsAre ==
  ASSUME NEW print \in PrintRecord, NEW thresholds \in Thresholds
  PROVE  Hits(print, thresholds) =
           IF Finds(print, thresholds)
             THEN {[layer |-> LayerOf(print, thresholds), similarity |-> SimilarityOf(print, thresholds)]}
             ELSE {}
BY DEF Hits, Finds, LayerOf, SimilarityOf, PrintRecord, Thresholds

LEMMA HitIsTyped ==
  ASSUME NEW entry \in VisualEntry, NEW thresholds \in Thresholds
  PROVE  HitOn(entry, thresholds) \in Hit
BY DEF HitOn, Hit, LayerOf, SimilarityOf, VisualEntry, PrintRecord, Thresholds, Full

\* No two hits are of one rank.
LEMMA RanksDiffer ==
  ASSUME NEW F \in SUBSET Hit, \A a, b \in F : a.id = b.id => a = b
  PROVE  StrictOrder(F, {pair \in F \X F : Ahead(pair[1], pair[2])})
<1> DEFINE order == {pair \in F \X F : Ahead(pair[1], pair[2])}
<1>1. \A a, b \in F : <<a, b>> \in order <=> Ahead(a, b)
  OBVIOUS
<1>2. \A a \in F : ~Ahead(a, a)
  BY DEF Ahead, Hit
<1>3. \A a, b, c \in F : Ahead(a, b) /\ Ahead(b, c) => Ahead(a, c)
  BY DEF Ahead, Hit
<1>4. \A a, b \in F : a # b => Ahead(a, b) \/ Ahead(b, a)
  BY DEF Ahead, Hit
<1> HIDE DEF order
<1> QED
  BY <1>1, <1>2, <1>3, <1>4 DEF StrictOrder, order

\* The best of what is found, in the order of their ranks.
LEMMA CandidatesAreBest ==
  ASSUME NEW cache, Shelf(cache), NEW thresholds \in Thresholds, NEW limit \in Nat
  PROVE  LET hits == Candidates(cache, thresholds, limit)
             n == Len(hits)
             found == {cache.entries[i].key : i \in FoundAt(cache, thresholds)}
         IN  /\ n \in Nat /\ DOMAIN hits = 1 .. n
             /\ n = Min({limit, Cardinality(found)})
             /\ \A i \in 1 .. n : hits[i].id \in found
             /\ \A i, j \in 1 .. n : hits[i].id = hits[j].id => i = j
             /\ \A i, j \in 1 .. n : i < j =>
                  \/ hits[i].layer < hits[j].layer
                  \/ hits[i].layer = hits[j].layer /\ hits[i].similarity >= hits[j].similarity
<1> DEFINE e == cache.entries
           len == Len(e)
           P == FoundAt(cache, thresholds)
           H == [i \in P |-> HitOn(e[i], thresholds)]
           K == [i \in P |-> e[i].key]
           F == UNION {{[layer |-> h.layer, similarity |-> h.similarity, id |-> x.key] :
                          h \in Hits(x.value, thresholds)} : x \in ToSet(e)}
           order == {pair \in F \X F : Ahead(pair[1], pair[2])}
           ranked == SortedBy(F, order)
           most == Min({limit, Len(ranked)})
           hits == SubSeq(ranked, 1, most)
<1>1. Candidates(cache, thresholds, limit) = hits
  BY DEF Candidates
<1>2. /\ e \in Seq(VisualEntry) /\ len \in Nat /\ DOMAIN e = 1 .. len
      /\ \A i \in 1 .. len : e[i] \in VisualEntry
      /\ \A i, j \in 1 .. len : e[i].key = e[j].key => i = j
  BY LenProperties, ElementOfSeq DEF Shelf
<1>3. P \in SUBSET (1 .. len) /\ \A i \in 1 .. len : i \in P <=> Finds(e[i].value, thresholds)
  BY DEF FoundAt
<1>4. ToSet(e) = {e[i] : i \in 1 .. len}
  BY <1>2 DEF ToSet
<1> HIDE DEF e, len, P
<1>5. F = {H[i] : i \in P}
  <2>1. ASSUME NEW i \in 1 .. len
        PROVE  {[layer |-> h.layer, similarity |-> h.similarity, id |-> e[i].key] :
                  h \in Hits(e[i].value, thresholds)} = IF i \in P THEN {H[i]} ELSE {}
    <3>1. e[i].value \in PrintRecord
      BY <1>2 DEF VisualEntry
    <3>2. Hits(e[i].value, thresholds) =
           IF i \in P
             THEN {[layer |-> LayerOf(e[i].value, thresholds), similarity |-> SimilarityOf(e[i].value, thresholds)]}
             ELSE {}
      BY <1>3, <3>1, HitsAre
    <3> DEFINE layer == LayerOf(e[i].value, thresholds)
               similarity == SimilarityOf(e[i].value, thresholds)
    <3>3. i \in P => H[i] = [layer |-> layer, similarity |-> similarity, id |-> e[i].key]
      BY DEF HitOn
    <3> DEFINE some == Hits(e[i].value, thresholds)
    <3>4. some = IF i \in P THEN {[layer |-> layer, similarity |-> similarity]} ELSE {}
      BY <3>2
    <3> HIDE DEF layer, similarity, H, some
    <3>5. CASE i \in P
      <4> DEFINE one == [layer |-> layer, similarity |-> similarity]
      <4>1. some = {one} /\ one.layer = layer /\ one.similarity = similarity
        BY <3>4, <3>5
      <4> HIDE DEF one
      <4>2. {[layer |-> h.layer, similarity |-> h.similarity, id |-> e[i].key] : h \in some}
              = {[layer |-> one.layer, similarity |-> one.similarity, id |-> e[i].key]}
        BY <4>1
      <4> QED
        BY <3>3, <3>5, <4>1, <4>2 DEF some
    <3>6. CASE i \notin P
      BY <3>4, <3>6 DEF some
    <3> QED
      BY <3>5, <3>6
  <2>2. ASSUME NEW x, x \in F PROVE \E i \in P : x = H[i]
    <3>1. PICK i \in 1 .. len :
            x \in {[layer |-> h.layer, similarity |-> h.similarity, id |-> e[i].key] :
                     h \in Hits(e[i].value, thresholds)}
      BY <1>4, <2>2
    <3> QED
      BY <2>1, <3>1
  <2>3. ASSUME NEW i \in P PROVE H[i] \in F
    <3>1. i \in 1 .. len /\ e[i] \in ToSet(e)
      BY <1>3, <1>4
    <3>2. H[i] \in {[layer |-> h.layer, similarity |-> h.similarity, id |-> e[i].key] :
                      h \in Hits(e[i].value, thresholds)}
      BY <2>1, <3>1
    <3> QED
      BY <3>1, <3>2
  <2> QED
    BY <2>2, <2>3
<1>6. \A i \in P : H[i] \in Hit /\ H[i].id = e[i].key /\ K[i] = e[i].key
  <2> SUFFICES ASSUME NEW i \in P PROVE H[i] \in Hit /\ H[i].id = e[i].key /\ K[i] = e[i].key
    OBVIOUS
  <2>1. e[i] \in VisualEntry
    BY <1>2, <1>3
  <2>2. HitOn(e[i], thresholds) \in Hit
    BY <2>1, HitIsTyped
  <2> QED
    BY <2>2 DEF HitOn
<1>7. \A i, j \in P : e[i].key = e[j].key => i = j
  BY <1>2, <1>3
<1>8. DOMAIN H = P /\ DOMAIN K = P
  OBVIOUS
<1> HIDE DEF F, H, K
<1> DEFINE found == {K[i] : i \in P}
           size == Cardinality(P)
<1>9. IsFiniteSet(P) /\ IsFiniteSet(F) /\ Cardinality(F) = size /\ Cardinality(found) = size /\ size \in Nat
  <2>1. IsFiniteSet(1 .. len)
    BY <1>2, FS_Interval
  <2>2. IsFiniteSet(P)
    BY <1>3, <2>1, FS_Subset
  <2>3. \A i, j \in P : H[i] = H[j] => i = j
    BY <1>6, <1>7
  <2>4. \A i, j \in P : K[i] = K[j] => i = j
    BY <1>6, <1>7
  <2>5. IsFiniteSet({H[i] : i \in P}) /\ Cardinality({H[i] : i \in P}) = Cardinality(P)
    BY <1>8, <2>2, <2>3, SameSize
  <2>6. Cardinality({K[i] : i \in P}) = Cardinality(P)
    BY <1>8, <2>2, <2>4, SameSize
  <2> QED
    BY <1>5, <2>2, <2>5, <2>6, FS_CardinalityType
<1>10. StrictOrder(F, order)
  <2>1. F \in SUBSET Hit
    BY <1>5, <1>6
  <2>2. \A a, b \in F : a.id = b.id => a = b
    BY <1>5, <1>6, <1>7
  <2> QED
    BY <2>1, <2>2, RanksDiffer
<1>11. \A pair \in order : Ahead(pair[1], pair[2])
  OBVIOUS
<1> HIDE DEF order, size
<1>12. /\ DOMAIN ranked = 1 .. size
       /\ \A k \in 1 .. size : ranked[k] \in F
  BY <1>9, SortedArranges
<1>13. \A i, j \in 1 .. size : i < j => <<ranked[i], ranked[j]>> \in order
  BY <1>9, <1>10, SortedSorts
<1>14. ranked = [k \in 1 .. size |-> ranked[k]] /\ Len(ranked) = size
  <2>1. ranked \in [1 .. size -> F]
    BY <1>9, SortedArranges
  <2>2. ranked \in Seq(F)
    BY <1>9, <2>1, SeqDef
  <2> QED
    BY <1>9, <2>1, <2>2, LenProperties
<1>15. \A i, j \in 1 .. size : i < j => Ahead(ranked[i], ranked[j])
  BY <1>11, <1>13
<1> HIDE DEF ranked
<1>16. most \in Nat /\ most <= size /\ most = Min({limit, size})
  BY <1>9, <1>14, MinMaxOfTwo
<1> HIDE DEF most
<1>17. /\ Len(hits) = most /\ DOMAIN hits = 1 .. most
       /\ \A i \in 1 .. most : hits[i] = ranked[i] /\ i \in 1 .. size
  <2>1. \A i \in 1 .. most : ranked[i] \in F
    BY <1>9, <1>12, <1>16
  <2>2. 1 \in Int /\ most \in Int
    BY <1>16
  <2>3. /\ hits \in Seq(F) /\ Len(hits) = (IF 1 <= most THEN most - 1 + 1 ELSE 0)
        /\ \A i \in 1 .. most - 1 + 1 : hits[i] = ranked[1 + i - 1]
    BY <2>1, <2>2, SubSeqProperties
  <2> HIDE DEF hits
  <2>4. DOMAIN hits = 1 .. Len(hits)
    BY <2>3, LenProperties
  <2>5. Len(hits) = most
    BY <1>16, <2>3
  <2>6. \A i \in 1 .. most : i \in 1 .. most - 1 + 1 /\ 1 + i - 1 = i /\ i \in 1 .. size
    BY <1>9, <1>16
  <2> QED
    BY <2>3, <2>4, <2>5, <2>6
<1> HIDE DEF hits
<1>18. \A i \in 1 .. most : hits[i] \in F
  BY <1>12, <1>17
<1>19. \A i \in 1 .. most : hits[i] \in Hit /\ hits[i].id \in found
  BY <1>5, <1>6, <1>18
<1>20. \A i, j \in 1 .. most : i < j => Ahead(hits[i], hits[j])
  BY <1>15, <1>17
<1>21. \A i, j \in 1 .. most : i < j =>
         \/ hits[i].layer < hits[j].layer
         \/ hits[i].layer = hits[j].layer /\ hits[i].similarity >= hits[j].similarity
  BY <1>19, <1>20 DEF Ahead, Hit
<1>22. \A i, j \in 1 .. most : hits[i].id = hits[j].id => i = j
  <2> SUFFICES ASSUME NEW i \in 1 .. most, NEW j \in 1 .. most, hits[i].id = hits[j].id, i < j PROVE FALSE
    BY <1>16
  <2>1. hits[i] = hits[j]
    BY <1>5, <1>6, <1>7, <1>18
  <2>2. Ahead(hits[i], hits[i])
    BY <1>20, <2>1
  <2> QED
    BY <1>19, <2>2 DEF Ahead, Hit
<1>23. found = {e[i].key : i \in P}
  BY <1>6
<1> QED
  BY <1>1, <1>9, <1>16, <1>17, <1>19, <1>21, <1>22, <1>23 DEF e, P

LEMMA LookUpJobIs ==
  ASSUME job \in LookUpJob
  PROVE  /\ job.side \in Int /\ job.entries \in Seq([id : Int, print : PrintRecord])
         /\ job.another \in [id : Int, print : PrintRecord] /\ job.thresholds \in Thresholds /\ job.limit \in Nat
BY DEF LookUpJob, Thresholds

\* Working out a job of the visual index.
LEMMA LookUpStep ==
  ASSUME job \in LookUpJob, LookUp, UNCHANGED job
  PROVE  QueriesAnswerTheBest'
<1> DEFINE filed == FoldLeft(LAMBDA index, entry : File(job.side, index, entry),
                             EmptyCache(job.budget), job.entries)
           hits == Candidates(filed, job.thresholds, job.limit)
           promoted == PromotedBy(filed, hits)
           after == File(job.side, promoted, job.another)
           n == Len(hits)
           answered == {hits[i].id : i \in 1 .. n}
           id == job.another.id
<1>1. /\ job.side \in Int /\ job.entries \in Seq([id : Int, print : PrintRecord])
      /\ job.another \in [id : Int, print : PrintRecord] /\ job.thresholds \in Thresholds /\ job.limit \in Nat
  BY LookUpJobIs
<1>2. answer' = [filed |-> filed, hits |-> hits, after |-> after] /\ job' = job
  BY DEF LookUp, VisualQuery, PromotedBy
<1>3. Shelf(filed)
  BY <1>1, AllFiled
<1> HIDE DEF filed
<1> DEFINE found == {filed.entries[i].key : i \in FoundAt(filed, job.thresholds)}
<1>4. /\ n \in Nat /\ DOMAIN hits = 1 .. n
      /\ n = Min({job.limit, Cardinality(found)})
      /\ \A i \in 1 .. n : hits[i].id \in found
      /\ \A i, j \in 1 .. n : hits[i].id = hits[j].id => i = j
      /\ \A i, j \in 1 .. n : i < j =>
           \/ hits[i].layer < hits[j].layer
           \/ hits[i].layer = hits[j].layer /\ hits[i].similarity >= hits[j].similarity
  BY <1>1, <1>3, CandidatesAreBest
<1>5. found \subseteq KeysOf(filed)
  BY DEF FoundAt, KeysOf
<1> HIDE DEF hits, found, n
<1>a. n \in Nat /\ DOMAIN hits = 1 .. n /\ Len(hits) = n
  BY <1>4 DEF n
<1>b. \A i \in 1 .. n : hits[i].id \in found
  BY <1>4
<1>c. \A i, j \in 1 .. n : hits[i].id = hits[j].id => i = j
  BY <1>4
<1>d. \A i, j \in 1 .. n : i < j =>
        \/ hits[i].layer < hits[j].layer
        \/ hits[i].layer = hits[j].layer /\ hits[i].similarity >= hits[j].similarity
  BY <1>4
<1>e. n = Min({job.limit, Cardinality(found)})
  BY <1>4
<1>6. /\ Shelf(promoted) /\ KeysOf(promoted) = KeysOf(filed) /\ Fronted(promoted, answered)
  <2>1. \A i \in 1 .. n : hits[i].id \in KeysOf(filed)
    BY <1>b, <1>5
  <2>2. /\ Shelf(promoted) /\ KeysOf(promoted) = KeysOf(filed)
        /\ Fronted(promoted, {hits[i].id : i \in 1 .. n})
    BY <1>3, <1>a, <2>1, AllPromoted
  <2> QED
    BY <2>2
<1> HIDE DEF promoted
<1>7. /\ Shelf(after)
      /\ answered \cap (KeysOf(promoted) \ KeysOf(after)) # {} => KeysOf(after) \subseteq answered \cup {id}
  <2> HIDE DEF answered
  <2> QED
    BY <1>1, <1>6, FilingIs
<1> HIDE DEF after
<1>8. Cardinality(answered) = n
  <2> DEFINE ids == [i \in 1 .. n |-> hits[i].id]
  <2>1. DOMAIN ids = 1 .. n /\ \A i, j \in 1 .. n : ids[i] = ids[j] => i = j
    BY <1>c
  <2>2. answered = {ids[i] : i \in 1 .. n}
    OBVIOUS
  <2>3. IsFiniteSet(1 .. n) /\ Cardinality(1 .. n) = n
    BY <1>a, FS_Interval
  <2> HIDE DEF ids, answered
  <2> DEFINE S == 1 .. n
  <2>4. DOMAIN ids = S /\ IsFiniteSet(S) /\ \A i, j \in S : ids[i] = ids[j] => i = j
    BY <2>1, <2>3
  <2>5. Cardinality({ids[i] : i \in S}) = Cardinality(S)
    <3> HIDE DEF S
    <3> QED
      BY ONLY <2>4, SameSize
  <2> QED
    BY <2>2, <2>3, <2>5
<1>9. KeysOf(filed) = {filed.entries[i].key : i \in DOMAIN filed.entries}
  BY <1>3, LenProperties DEF Shelf, KeysOf
<1>10. KeysOf(after) = {after.entries[i].key : i \in DOMAIN after.entries}
  BY <1>7, LenProperties DEF Shelf, KeysOf
<1> DEFINE evicted == {filed.entries[i].key : i \in DOMAIN filed.entries}
                        \ {after.entries[i].key : i \in DOMAIN after.entries}
<1>11. evicted \cap answered # {} =>
         \A i \in DOMAIN after.entries : after.entries[i].key \in answered \cup {id}
  <2>1. evicted = KeysOf(promoted) \ KeysOf(after)
    BY <1>6, <1>9, <1>10
  <2> HIDE DEF evicted, answered
  <2> SUFFICES ASSUME evicted \cap answered # {}, NEW i \in DOMAIN after.entries
               PROVE  after.entries[i].key \in answered \cup {id}
    OBVIOUS
  <2>2. after.entries[i].key \in KeysOf(after)
    BY <1>10
  <2>3. KeysOf(after) \subseteq answered \cup {id}
    <3> DEFINE some == evicted \cap answered
    <3>1. answered \cap (KeysOf(promoted) \ KeysOf(after)) = some
      BY <2>1
    <3>2. some # {}
      OBVIOUS
    <3> HIDE DEF some
    <3> QED
      BY <1>7, <3>1, <3>2
  <2> QED
    BY <2>2, <2>3
<1>12. found = {filed.entries[i].key : i \in {i \in DOMAIN filed.entries :
                  \/ filed.entries[i].value.same
                  \/ job.thresholds.hash < Full /\ filed.entries[i].value.hash >= job.thresholds.hash
                  \/ job.thresholds.ncc < Full /\ filed.entries[i].value.ncc >= job.thresholds.ncc}}
  <2>1. DOMAIN filed.entries = 1 .. Len(filed.entries)
    BY <1>3, LenProperties DEF Shelf
  <2> QED
    BY <2>1 DEF found, FoundAt, Finds
<1>14. BestAnswers(job, filed, hits, after)
  <2>1. answered = {hits[i].id : i \in DOMAIN hits}
    BY <1>a
  <2>2. answered \subseteq found
    BY <1>b
  <2> HIDE DEF answered
  <2>3. /\ answered \subseteq found /\ Len(hits) = Cardinality(answered)
        /\ Len(hits) = Min({job.limit, Cardinality(found)})
        /\ \A i, j \in DOMAIN hits : i < j =>
             \/ hits[i].layer < hits[j].layer
             \/ hits[i].layer = hits[j].layer /\ hits[i].similarity >= hits[j].similarity
    BY <1>8, <1>a, <1>d, <1>e, <2>2
  <2> QED
    BY ONLY <1>11, <1>12, <2>1, <2>3 DEF BestAnswers
<1>15. QueriesAnswerTheBest' <=>
         (Answered("lookup") => BestAnswers(job, answer.filed, answer.hits, answer.after))'
  BY DEF QueriesAnswerTheBest
<1>16. (BestAnswers(job, answer.filed, answer.hits, answer.after))'
         <=> BestAnswers(job', answer'.filed, answer'.hits, answer'.after)
  BY DEF BestAnswers
<1> QED
  BY <1>2, <1>14, <1>15, <1>16

-----------------------------------------------------------------------------
(* The cells of a grid *)

\* Along one side of the image: a place is in exactly one of the spans that
\* the cells take, the last of which may be cut.
OneSpanHolds(p, length, side, count, k) ==
  /\ count \in Int /\ k \in 0 .. count - 1 /\ k * side \in Int
  /\ \A i \in 0 .. count - 1 :
       /\ i * side \in Int /\ Min({side, length - i * side}) \in Int
       /\ Min({side, length - i * side}) > 0
       /\ i * side <= p /\ p < i * side + Min({side, length - i * side}) <=> i = k
  /\ k * side + (p - k * side) = p

LEMMA SpansTile ==
  ASSUME NEW length \in Int, NEW side \in Int, length > 0, side > 0, NEW p \in 0 .. length - 1,
         NEW count, count = CeilDiv(length, side), NEW k, k = Min({p \div side, count - 1})
  PROVE  OneSpanHolds(p, length, side, count, k)
<1> DEFINE q == p \div side
<1>1. /\ q \in Int /\ side * q \in Int /\ side * q <= p /\ p < side * q + side
      /\ p \in Int /\ p >= 0 /\ p < length
  BY Divided
<1>2. /\ count \in Int /\ side * count \in Int
      /\ side * count <= length + side - 1 /\ length + side - 1 < side * count + side
  <2> DEFINE x == length + side - 1
  <2>1. x \in Int
    OBVIOUS
  <2>2. count = x \div side
    BY DEF CeilDiv
  <2> HIDE DEF x
  <2>3. count \in Int /\ side * count \in Int /\ side * count <= x /\ x < side * count + side
    BY <2>1, <2>2, Divided
  <2> QED
    BY <2>3 DEF x
<1> HIDE DEF q
<1>3. 0 <= q
  <2> SUFFICES ASSUME q < 0 PROVE FALSE
    BY <1>1
  <2>1. side * q + side <= side * 0
    BY <1>1, NextMultiple
  <2> QED
    BY <1>1, <2>1
<1>4. q < count
  <2> SUFFICES ASSUME count <= q PROVE FALSE
    BY <1>1, <1>2
  <2>1. side * count <= side * q
    <3>1. CASE count = q
      BY <1>1, <3>1
    <3>2. CASE count < q
      BY <1>1, <1>2, <3>2, NextMultiple
    <3> QED
      BY <1>1, <1>2, <3>1, <3>2
  <2> QED
    BY <1>1, <1>2, <2>1
<1>5. Min({q, count - 1}) = q
  <2>1. q <= count - 1 /\ q \in Int /\ count - 1 \in Int
    BY <1>1, <1>2, <1>4
  <2>2. {q, count - 1} \in SUBSET Int /\ q \in {q, count - 1} /\ \A z \in {q, count - 1} : q <= z
    BY <2>1
  <2> QED
    BY <2>2, LeastIs
<1>6. q \in 0 .. count - 1 /\ q * side \in Int /\ q * side + (p - q * side) = p /\ q * side = side * q
  BY <1>1, <1>2, <1>3, <1>4
<1>7. ASSUME NEW i \in 0 .. count - 1
      PROVE  /\ i * side \in Int /\ Min({side, length - i * side}) \in Int
             /\ Min({side, length - i * side}) > 0
             /\ i * side <= p /\ p < i * side + Min({side, length - i * side}) <=> i = q
  <2> DEFINE at == i * side
             long == Min({side, length - at})
  <2>1. i \in Int /\ i < count /\ at \in Int /\ at = side * i
    BY <1>2
  <2>2. at + side <= side * count
    BY <1>2, <2>1, NextMultiple
  <2> HIDE DEF at
  <2>3. at < length
    BY <1>2, <2>1, <2>2
  <2>4. long \in Int /\ long > 0 /\ long <= side /\ long <= length - at /\ (long = side \/ long = length - at)
    <3>1. side \in Int /\ length - at \in Int
      BY <2>1
    <3>2. long = IF side <= length - at THEN side ELSE length - at
      BY <3>1, MinMaxOfTwo
    <3> HIDE DEF long
    <3> QED
      BY <2>1, <2>3, <3>2
  <2> HIDE DEF long
  <2>5. ASSUME i = q PROVE at <= p /\ p < at + long
    <3>1. at = side * q
      BY <2>1, <2>5
    <3> QED
      BY <1>1, <2>1, <2>4, <3>1
  <2>6. ASSUME at <= p, p < at + long PROVE i = q
    <3>1. ~(i < q)
      <4> SUFFICES ASSUME i < q PROVE FALSE
        OBVIOUS
      <4>1. side * i + side <= side * q
        BY <1>1, <2>1, NextMultiple
      <4> QED
        BY <1>1, <2>1, <2>4, <2>6, <4>1
    <3>2. ~(q < i)
      <4> SUFFICES ASSUME q < i PROVE FALSE
        OBVIOUS
      <4>1. side * q + side <= side * i
        BY <1>1, <2>1, NextMultiple
      <4> QED
        BY <1>1, <2>1, <2>6, <4>1
    <3> QED
      BY <1>1, <2>1, <3>1, <3>2
  <2> QED
    BY <2>1, <2>4, <2>5, <2>6 DEF at, long
<1> QED
  BY <1>2, <1>5, <1>6, <1>7 DEF q, OneSpanHolds

\* The cells of a grid tile the image that it divides.
LEMMA DividingTiles ==
  ASSUME job \in GridJob, DivideIntoCells, job' = job
  PROVE  CellsTile'
<1> SUFFICES ASSUME answer'.status = "kOk"
             PROVE  LET cells == answer'.value.cells
                    IN  \A point \in Grid(job.w, job.h) :
                          /\ {cell \in DOMAIN cells : ContainsPoint(cells[cell], point)} =
                               {answer'.value.places[point].cell}
                          /\ answer'.value.points[point] = point
                          /\ answer'.value.beyond = "kInvalidArgument"
  BY DEF CellsTile, Answered
<1> DEFINE made == MakeGridPartition(job.w, job.h, job.side)
           grid == made.value
           space == Grid(job.w, job.h)
           bounds == [cell \in Cells(grid) |-> GridCellBounds(grid, cell).value]
           places == [point \in space |-> GridLocate(grid, point).value]
           points == [point \in space |-> GridImagePoint(grid, GridLocate(grid, point).value).value]
           w == job.w
           h == job.h
           side == job.side
           columns == CeilDiv(w, side)
           rows == CeilDiv(h, side)
<1>1. w \in Int /\ h \in Int /\ side \in Int
  BY DEF GridJob
<1>2. answer' = Then(made, LAMBDA one : Ok([cells |-> [cell \in Cells(one) |-> GridCellBounds(one, cell).value],
                     places |-> [point \in space |-> GridLocate(one, point).value],
                     points |-> [point \in space |->
                                   GridImagePoint(one, GridLocate(one, point).value).value],
                     beyond |-> GridLocate(one, <<w, 0>>).status]))
  BY DEF DivideIntoCells
<1>3. made.status = "kOk"
  BY <1>2 DEF Then
<1>4. answer'.value = [cells |-> bounds, places |-> places, points |-> points,
                       beyond |-> GridLocate(grid, <<w, 0>>).status]
  BY <1>2, <1>3 DEF Then, Ok
<1> DEFINE refused == w <= 0 \/ h <= 0 \/ side \notin 1 .. 4096
           overflows == Max({w, h}) + side - 1 > IntMax
           division == [w |-> w, h |-> h, side |-> side, columns |-> columns, rows |-> rows]
<1>a. made = IF refused THEN Failed("kInvalidArgument") ELSE IF overflows THEN Undefined ELSE Ok(division)
  BY DEF MakeGridPartition
<1>5. w > 0 /\ h > 0 /\ side > 0
  <2>1. ~refused
    <3> HIDE DEF refused, overflows, division, made
    <3> QED
      BY <1>3, <1>a DEF Failed
  <2>2. side \in 1 .. 4096 /\ ~(w <= 0) /\ ~(h <= 0)
    BY <2>1
  <2> HIDE DEF w, h, side
  <2> QED
    BY <1>1, <2>2
<1>6. grid = division
  <2> HIDE DEF refused, overflows, division, made
  <2>1. ~refused /\ ~overflows
    BY <1>3, <1>a DEF Failed, Undefined
  <2> QED
    BY <1>a, <2>1 DEF Ok
<1> HIDE DEF w, h, side, columns, rows, made
<1>7. /\ grid.w = w /\ grid.h = h /\ grid.side = side /\ grid.columns = columns /\ grid.rows = rows
      /\ Cells(grid) = (0 .. columns - 1) \X (0 .. rows - 1)
      /\ space = (0 .. w - 1) \X (0 .. h - 1)
  BY <1>6 DEF Cells, Grid, w, h
<1>8. GridLocate(grid, <<w, 0>>).status = "kInvalidArgument"
  <2>1. <<w, 0>> \notin Grid(grid.w, grid.h)
    BY <1>1, <1>7 DEF Grid
  <2> QED
    BY <2>1 DEF GridLocate, Failed
<1> HIDE DEF space
<1>9. ASSUME NEW point \in space
      PROVE  /\ {cell \in Cells(grid) : ContainsPoint(GridCellBounds(grid, cell).value, point)} =
                  {GridLocate(grid, point).value.cell}
             /\ GridImagePoint(grid, GridLocate(grid, point).value).value = point
  <2> DEFINE x == point[1]
             y == point[2]
             column == Min({x \div side, columns - 1})
             row == Min({y \div side, rows - 1})
             location == [cell |-> <<column, row>>, local |-> <<x - column * side, y - row * side>>]
             Long(i) == Min({side, w - i * side})
             High(j) == Min({side, h - j * side})
  <2>1. point = <<x, y>> /\ x \in 0 .. w - 1 /\ y \in 0 .. h - 1
    BY <1>7
  <2> HIDE DEF x, y
  <2>a. columns = CeilDiv(w, side) /\ column = Min({x \div side, columns - 1})
    BY DEF columns
  <2>b. rows = CeilDiv(h, side) /\ row = Min({y \div side, rows - 1})
    BY DEF rows
  <2>4. GridLocate(grid, point) = Ok(location)
    <3>1. point \in Grid(grid.w, grid.h)
      BY <1>7 DEF space, w, h
    <3> QED
      BY <1>7, <3>1 DEF GridLocate, x, y
  <2> HIDE DEF column, row
  <2>2. /\ columns \in Int /\ column \in 0 .. columns - 1 /\ column * side \in Int
        /\ \A i \in 0 .. columns - 1 :
             /\ i * side \in Int /\ Long(i) \in Int /\ Long(i) > 0
             /\ i * side <= x /\ x < i * side + Long(i) <=> i = column
        /\ column * side + (x - column * side) = x
    <3>1. OneSpanHolds(x, w, side, columns, column)
      BY <1>1, <1>5, <2>1, <2>a, SpansTile
    <3> QED
      BY <3>1 DEF OneSpanHolds
  <2>3. /\ rows \in Int /\ row \in 0 .. rows - 1 /\ row * side \in Int
        /\ \A j \in 0 .. rows - 1 :
             /\ j * side \in Int /\ High(j) \in Int /\ High(j) > 0
             /\ j * side <= y /\ y < j * side + High(j) <=> j = row
        /\ row * side + (y - row * side) = y
    <3>1. OneSpanHolds(y, h, side, rows, row)
      BY <1>1, <1>5, <2>1, <2>b, SpansTile
    <3> QED
      BY <3>1 DEF OneSpanHolds
  <2>5. GridLocate(grid, point).value.cell = <<column, row>> /\ location.cell \in Cells(grid)
    BY <1>7, <2>2, <2>3, <2>4 DEF Ok
  <2>6. GridImagePoint(grid, location) = Ok(<<column * side + (x - column * side), row * side + (y - row * side)>>)
    BY <1>7, <2>5 DEF GridImagePoint
  <2>7. ASSUME NEW i \in 0 .. columns - 1, NEW j \in 0 .. rows - 1
        PROVE  ContainsPoint(GridCellBounds(grid, <<i, j>>).value, point) <=> <<i, j>> = <<column, row>>
    <3>1. <<i, j>> \in Cells(grid)
      BY <1>7
    <3>2. GridCellBounds(grid, <<i, j>>).value = Rect(i * side, j * side, Long(i), High(j))
      BY <1>7, <3>1 DEF GridCellBounds, Ok
    <3>3. ContainsPoint(Rect(i * side, j * side, Long(i), High(j)), point) <=>
            /\ Long(i) > 0 /\ High(j) > 0
            /\ i * side <= x /\ x < i * side + Long(i) /\ j * side <= y /\ y < j * side + High(j)
      BY <2>1 DEF ContainsPoint, Rect, x, y
    <3>4. Long(i) > 0 /\ High(j) > 0
      BY <2>2, <2>3
    <3>5. i * side <= x /\ x < i * side + Long(i) <=> i = column
      BY <2>2
    <3>6. j * side <= y /\ y < j * side + High(j) <=> j = row
      BY <2>3
    <3> QED
      BY <3>2, <3>3, <3>4, <3>5, <3>6
  <2>8. {cell \in Cells(grid) : ContainsPoint(GridCellBounds(grid, cell).value, point)} = {<<column, row>>}
    BY <1>7, <2>2, <2>3, <2>7
  <2> QED
    BY <2>1, <2>2, <2>3, <2>4, <2>5, <2>6, <2>8 DEF Ok
<1>10. ASSUME NEW point \in space
       PROVE  {cell \in DOMAIN bounds : ContainsPoint(bounds[cell], point)} = {places[point].cell}
  <2>1. DOMAIN bounds = Cells(grid) /\ (\A cell \in Cells(grid) : bounds[cell] = GridCellBounds(grid, cell).value)
    OBVIOUS
  <2>2. places[point] = GridLocate(grid, point).value
    OBVIOUS
  <2> HIDE DEF bounds, places
  <2> QED
    BY <1>9, <2>1, <2>2
<1> QED
  BY <1>4, <1>8, <1>9, <1>10 DEF space

-----------------------------------------------------------------------------
(* Turns, mirrors and cuts *)

\* The box around four points on the sides of a rectangle, two on each.
LEMMA BoxOfSides ==
  ASSUME NEW x \in Int, NEW y \in Int, NEW w \in Nat, NEW h \in Nat, NEW S,
         S \subseteq {x, x + w} \X {y, y + h},
         \E p \in S : p[1] = x, \E p \in S : p[1] = x + w, \E p \in S : p[2] = y, \E p \in S : p[2] = y + h
  PROVE  BoundingRect(S) = Rect(x, y, w, h)
<1> DEFINE xs == {z[1] : z \in S}
           ys == {z[2] : z \in S}
<1>1. xs = {x, x + w} /\ ys = {y, y + h}
  OBVIOUS
<1> HIDE DEF xs, ys
<1>2. /\ xs \in SUBSET Int /\ x \in xs /\ x + w \in xs /\ (\A z \in xs : x <= z) /\ (\A z \in xs : x + w >= z)
      /\ ys \in SUBSET Int /\ y \in ys /\ y + h \in ys /\ (\A z \in ys : y <= z) /\ (\A z \in ys : y + h >= z)
  BY <1>1
<1>3. Min(xs) = x /\ Max(xs) = x + w /\ Min(ys) = y /\ Max(ys) = y + h
  BY <1>2, LeastIs, GreatestIs
<1>4. x + w - x = w /\ y + h - y = h
  OBVIOUS
<1>5. BoundingRect(S) = Rect(Min(xs), Min(ys), Max(xs) - Min(xs), Max(ys) - Min(ys))
  BY DEF BoundingRect, xs, ys
<1> QED
  BY <1>3, <1>4, <1>5

\* The view of an image: turned, mirrored and cut.
Viewed(given, x, y) ==
  LET turned == CASE given.rotation = "k0"   -> <<x, y>>
                  [] given.rotation = "k90"  -> <<given.h - y, x>>
                  [] given.rotation = "k180" -> <<given.w - x, given.h - y>>
                  [] given.rotation = "k270" -> <<y, given.w - x>>
      size == OrientedSize(given.rotation, given.w, given.h)
  IN  <<(IF given.horizontal THEN size[1] - turned[1] ELSE turned[1]) - given.crop.x,
        (IF given.vertical THEN size[2] - turned[2] ELSE turned[2]) - given.crop.y>>

\* Views of images come back, and lie where the crop puts them.
LEMMA ReorientingIsUndone ==
  ASSUME job \in ReorientJob, Reorient, job' = job
  PROVE  ViewsAreUndone'
<1> DEFINE w == job.w
           h == job.h
           size == OrientedSize(job.rotation, w, h)
           turned == MakeRotation(job.rotation, w, h, "kFrame", "kOriented")
           mirrored == MakeMirror(job.horizontal, job.vertical, size[1], size[2], "kOriented", "kMirrored")
           cut == MakeCrop(job.crop, "kMirrored", "kCropped")
           first == Multiply(mirrored, turned)
           there == Multiply(cut, first)
           corners == Corners(Rect(0, 0, w, h))
<1>1. /\ w \in Nat /\ h \in Nat /\ job.rotation \in {"k0", "k90", "k180", "k270"}
      /\ job.horizontal \in BOOLEAN /\ job.vertical \in BOOLEAN /\ job.crop.x \in Int /\ job.crop.y \in Int
  BY DEF ReorientJob, RectRecord, Rotations
<1>2. size = <<size[1], size[2]>> /\ size[1] \in Nat /\ size[2] \in Nat
  BY <1>1 DEF OrientedSize
<1>3. /\ turned.from = "kFrame" /\ turned.to = "kOriented"
      /\ mirrored.from = "kOriented" /\ mirrored.to = "kMirrored"
      /\ cut.from = "kMirrored" /\ cut.to = "kCropped"
  BY <1>1 DEF MakeRotation, MakeIdentity, MakeMirror, MakeCrop, MakeTranslation, Transform
<1>4. Rigid(turned)
  <2>1. CASE job.rotation = "k0"
    BY <1>1, <2>1 DEF Rigid, SquareTurn, Signs, MakeRotation, MakeIdentity, Transform
  <2>2. CASE job.rotation = "k90"
    BY <1>1, <2>2 DEF Rigid, SquareTurn, Signs, MakeRotation, Transform
  <2>3. CASE job.rotation = "k180"
    BY <1>1, <2>3 DEF Rigid, SquareTurn, Signs, MakeRotation, Transform
  <2>4. CASE job.rotation = "k270"
    BY <1>1, <2>4 DEF Rigid, SquareTurn, Signs, MakeRotation, Transform
  <2> QED
    BY <1>1, <2>1, <2>2, <2>3, <2>4
<1>5. Rigid(mirrored)
  <2> HIDE DEF size
  <2> QED
    BY <1>1, <1>2 DEF Rigid, SquareTurn, Signs, MakeMirror, Transform
<1>6. Rigid(cut)
  BY <1>1 DEF Rigid, SquareTurn, Signs, MakeCrop, MakeTranslation, Transform
<1>7. /\ answer'.there = Ok(there)
      /\ answer'.back = Inverse2D(there)
      /\ answer'.unmatched.status = "kCoordinateTransform"
  <2> DEFINE one == Compose(turned, mirrored)
             two == Then(one, LAMBDA begun : Compose(begun, cut))
  <2>1. answer' = [there |-> two, back |-> Then(two, Inverse2D), unmatched |-> Compose(turned, cut)]
    BY DEF Reorient
  <2> HIDE DEF turned, mirrored, cut
  <2>2. one = Ok(first)
    BY <1>3 DEF Compose
  <2>3. first.to = "kMirrored"
    BY <1>3 DEF Multiply, Transform
  <2>4. Compose(first, cut) = Ok(there)
    <3> HIDE DEF first
    <3> QED
      BY <1>3, <2>3 DEF Compose
  <2> HIDE DEF first, there, one
  <2>5. two = Ok(there)
    BY <2>2, <2>4 DEF Then, Ok
  <2>6. Then(two, Inverse2D) = Inverse2D(there)
    BY <2>5 DEF Then, Ok
  <2>7. Compose(turned, cut).status = "kCoordinateTransform"
    BY <1>3 DEF Compose, Failed
  <2> QED
    BY <2>1, <2>5, <2>6, <2>7
<1> HIDE DEF turned, mirrored, cut
<1>8. /\ Rigid(there)
      /\ \A x, y \in Int : TransformPoint(there, <<x, y>>) =
                             TransformPoint(cut, TransformPoint(mirrored, TransformPoint(turned, <<x, y>>)))
  <2>1. /\ Rigid(first)
        /\ \A x, y \in Int : TransformPoint(first, <<x, y>>) =
                               TransformPoint(mirrored, TransformPoint(turned, <<x, y>>))
    BY <1>4, <1>5, ProductMoves
  <2> HIDE DEF first
  <2>2. /\ Rigid(there)
        /\ \A x, y \in Int : TransformPoint(there, <<x, y>>) = TransformPoint(cut, TransformPoint(first, <<x, y>>))
    BY <1>6, <2>1, ProductMoves
  <2> QED
    BY <2>1, <2>2
<1>9. ASSUME NEW x \in Int, NEW y \in Int
      PROVE  TransformPoint(there, <<x, y>>) = Viewed(job, x, y)
  <2> DEFINE p == TransformPoint(turned, <<x, y>>)
             q == TransformPoint(mirrored, p)
             left == size[1]
             top == size[2]
  <2>1. /\ p = CASE job.rotation = "k0"   -> <<x, y>>
                [] job.rotation = "k90"  -> <<h - y, x>>
                [] job.rotation = "k180" -> <<w - x, h - y>>
                [] job.rotation = "k270" -> <<y, w - x>>
        /\ p = <<p[1], p[2]>> /\ p[1] \in Int /\ p[2] \in Int
    <3>1. p = <<turned.a * x + turned.b * y + turned.u, turned.c * x + turned.d * y + turned.v>>
      BY <1>4, RigidMoves
    <3>2. CASE job.rotation = "k0"
      BY <1>1, <3>1, <3>2 DEF turned, MakeRotation, MakeIdentity, Transform
    <3>3. CASE job.rotation = "k90"
      BY <1>1, <3>1, <3>3 DEF turned, MakeRotation, Transform
    <3>4. CASE job.rotation = "k180"
      BY <1>1, <3>1, <3>4 DEF turned, MakeRotation, Transform
    <3>5. CASE job.rotation = "k270"
      BY <1>1, <3>1, <3>5 DEF turned, MakeRotation, Transform
    <3> QED
      BY <1>1, <3>2, <3>3, <3>4, <3>5
  <2>2. Viewed(job, x, y) =
          <<(IF job.horizontal THEN left - p[1] ELSE p[1]) - job.crop.x,
            (IF job.vertical THEN top - p[2] ELSE p[2]) - job.crop.y>>
    <3> HIDE DEF p
    <3> QED
      BY <2>1 DEF Viewed
  <2> HIDE DEF p
  <2>3. q = <<IF job.horizontal THEN left - p[1] ELSE p[1], IF job.vertical THEN top - p[2] ELSE p[2]>>
    <3>1. q = <<mirrored.a * p[1] + mirrored.b * p[2] + mirrored.u, mirrored.c * p[1] + mirrored.d * p[2] + mirrored.v>>
      <4>1. TransformPoint(mirrored, <<p[1], p[2]>>) =
              <<mirrored.a * p[1] + mirrored.b * p[2] + mirrored.u, mirrored.c * p[1] + mirrored.d * p[2] + mirrored.v>>
        <5>1. p[1] \in Int /\ p[2] \in Int
          BY <2>1
        <5> QED
          BY <1>5, <5>1, RigidMoves
      <4> QED
        BY <2>1, <4>1
    <3> HIDE DEF size
    <3> QED
      BY <1>1, <1>2, <2>1, <3>1 DEF mirrored, MakeMirror, Transform
  <2> DEFINE s == IF job.horizontal THEN left - p[1] ELSE p[1]
             t == IF job.vertical THEN top - p[2] ELSE p[2]
  <2>4. s \in Int /\ t \in Int
    BY <1>1, <1>2, <2>1
  <2>5. TransformPoint(cut, <<s, t>>) = <<s - job.crop.x, t - job.crop.y>>
    <3> HIDE DEF s, t
    <3>1. TransformPoint(cut, <<s, t>>) = <<cut.a * s + cut.b * t + cut.u, cut.c * s + cut.d * t + cut.v>>
      BY <1>6, <2>4, RigidMoves
    <3> QED
      BY <1>1, <2>4, <3>1 DEF cut, MakeCrop, MakeTranslation, Transform
  <2>6. TransformPoint(there, <<x, y>>) = TransformPoint(cut, q)
    BY <1>8 DEF p
  <2> QED
    BY <2>2, <2>3, <2>5, <2>6
<1>10. /\ DOMAIN corners = 1 .. 4
       /\ corners[1] = <<0, 0>> /\ corners[2] = <<w, 0>> /\ corners[3] = <<w, h>> /\ corners[4] = <<0, h>>
       /\ corners = [i \in 1 .. 4 |-> corners[i]]
  <2>1. corners = <<<<0, 0>>, <<w, 0>>, <<w, h>>, <<0, h>>>>
    BY <1>1 DEF Corners, Rect
  <2> HIDE DEF corners
  <2> QED
    BY <2>1
<1>11. \A i \in 1 .. 4 : corners[i] = <<corners[i][1], corners[i][2]>> /\ corners[i][1] \in Int /\ corners[i][2] \in Int
  <2>1. 0 \in Int /\ w \in Int /\ h \in Int
    BY <1>1
  <2> HIDE DEF w, h, corners
  <2> QED
    BY <1>10, <2>1
<1> DEFINE seen == TransformPoints(there, corners)
<1> HIDE DEF corners, there
<1>12. DOMAIN seen = 1 .. 4 /\ \A i \in 1 .. 4 : seen[i] = Viewed(job, corners[i][1], corners[i][2])
  <2>1. DOMAIN seen = 1 .. 4 /\ \A i \in 1 .. 4 : seen[i] = TransformPoint(there, corners[i])
    BY <1>10 DEF TransformPoints
  <2> HIDE DEF seen
  <2> QED
    BY <1>9, <1>11, <2>1
<1>13. /\ Inverse2D(there).status = "kOk"
       /\ TransformPoints(Inverse2D(there).value, seen) = corners
  <2> DEFINE back == Inverse2D(there)
  <2>1. back.status = "kOk" /\ \A x, y \in Int : TransformPoint(back.value, TransformPoint(there, <<x, y>>)) = <<x, y>>
    BY <1>8, RigidComesBack
  <2> HIDE DEF back
  <2>2. ASSUME NEW i \in 1 .. 4 PROVE TransformPoint(back.value, seen[i]) = corners[i]
    <3>1. seen[i] = TransformPoint(there, corners[i])
      BY <1>10 DEF TransformPoints
    <3> HIDE DEF seen
    <3> QED
      BY <1>11, <2>1, <3>1
  <2>3. TransformPoints(back.value, seen) = [i \in 1 .. 4 |-> TransformPoint(back.value, seen[i])]
    <3> HIDE DEF seen
    <3> QED
      BY <1>12 DEF TransformPoints
  <2> HIDE DEF seen
  <2>4. TransformPoints(back.value, seen) = [i \in 1 .. 4 |-> corners[i]]
    BY <2>2, <2>3
  <2> QED
    BY <1>10, <2>1, <2>4 DEF back
<1>14. BoundingRect(ToSet(seen)) = Rect(-job.crop.x, -job.crop.y, size[1], size[2])
  <2> DEFINE x == -job.crop.x
             y == -job.crop.y
             sides == {x, x + size[1]} \X {y, y + size[2]}
  <2>1. /\ seen[1] = Viewed(job, 0, 0) /\ seen[2] = Viewed(job, w, 0)
        /\ seen[3] = Viewed(job, w, h) /\ seen[4] = Viewed(job, 0, h)
    BY <1>10, <1>12
  <2>2. ToSet(seen) = {seen[1], seen[2], seen[3], seen[4]}
    <3> HIDE DEF seen
    <3>1. 1 .. 4 = {1, 2, 3, 4}
      OBVIOUS
    <3> QED
      BY <1>12, <3>1 DEF ToSet
  <2> HIDE DEF seen
  <2>3. /\ {seen[1], seen[2], seen[3], seen[4]} \subseteq sides
        /\ \E p \in {seen[1], seen[2], seen[3], seen[4]} : p[1] = x
        /\ \E p \in {seen[1], seen[2], seen[3], seen[4]} : p[1] = x + size[1]
        /\ \E p \in {seen[1], seen[2], seen[3], seen[4]} : p[2] = y
        /\ \E p \in {seen[1], seen[2], seen[3], seen[4]} : p[2] = y + size[2]
    <3>1. CASE job.rotation = "k0"
      BY <1>1, <2>1, <3>1 DEF Viewed, OrientedSize
    <3>2. CASE job.rotation = "k90"
      BY <1>1, <2>1, <3>2 DEF Viewed, OrientedSize
    <3>3. CASE job.rotation = "k180"
      BY <1>1, <2>1, <3>3 DEF Viewed, OrientedSize
    <3>4. CASE job.rotation = "k270"
      BY <1>1, <2>1, <3>4 DEF Viewed, OrientedSize
    <3> QED
      BY <1>1, <3>1, <3>2, <3>3, <3>4
  <2>4. x \in Int /\ y \in Int
    BY <1>1
  <2> HIDE DEF x, y, size
  <2>5. BoundingRect(ToSet(seen)) = Rect(x, y, size[1], size[2])
    BY <1>2, <2>2, <2>3, <2>4, BoxOfSides
  <2> QED
    BY <2>5 DEF x, y
<1> QED
  BY <1>7, <1>13, <1>14 DEF ViewsAreUndone, Answered, Ok, corners

-----------------------------------------------------------------------------
(* Components *)

\* No element of a set touches one of another.
Apart(one, other) == \A a \in one, b \in other : ~Touching(a, b)

Cell == Int \X Int

LEMMA TouchingIsMutual ==
  /\ \A a \in Cell : Touching(a, a)
  /\ \A a, b \in Cell : Touching(a, b) => Touching(b, a)
BY DEF Touching, Cell

\* One round of the collection: what touches the cells that are reached.
GrowRound(cells, reached, round) == {cell \in cells : \E known \in reached : Touching(cell, known)}
Grows == INSTANCE FoldSteps WITH Op <- GrowRound

Reached(cells, seed, rounds) == Grows!FoldedSet(cells, {seed}, rounds)

LEMMA FiniteForGrows == \A S : Grows!IsFiniteSet(S) <=> IsFiniteSet(S)
BY DEF Grows!IsFiniteSet, IsFiniteSet

LEMMA CollectedIsReached ==
  ASSUME NEW cells, NEW seed
  PROVE  CollectComponent(cells, seed) = Reached(cells, seed, cells)
BY DEF CollectComponent, Reached, GrowRound, Grows!FoldedSet, Grows!MapThenFoldSet, Grows!Pick, FoldSet, MapThenFoldSet

\* What hangs together around its seed is not divided by a gap.
Around(seed, reached) == \A part \in SUBSET reached : seed \in part /\ Apart(part, reached \ part) => part = reached

\* What holds of the cells reached after some rounds: there are more of them
\* than rounds, or nothing else is to be reached.
ReachedWell(cells, seed, rounds) ==
  LET reached == Reached(cells, seed, rounds)
  IN  /\ seed \in reached /\ reached \in SUBSET cells
      /\ Around(seed, reached)
      /\ Cardinality(rounds) < Cardinality(reached) \/ Apart(reached, cells \ reached)

LEMMA OneRoundReaches ==
  ASSUME NEW cells \in SUBSET Cell, IsFiniteSet(cells), NEW seed \in cells,
         NEW rounds \in SUBSET cells, NEW last \in rounds,
         Reached(cells, seed, rounds) = GrowRound(cells, Reached(cells, seed, rounds \ {last}), last),
         ReachedWell(cells, seed, rounds \ {last})
  PROVE  ReachedWell(cells, seed, rounds)
<1> DEFINE before == Reached(cells, seed, rounds \ {last})
           after == Reached(cells, seed, rounds)
<1>1. /\ seed \in before /\ before \in SUBSET cells /\ Around(seed, before)
      /\ Cardinality(rounds \ {last}) < Cardinality(before) \/ Apart(before, cells \ before)
  BY DEF ReachedWell
<1>2. after = {cell \in cells : \E known \in before : Touching(cell, known)}
  BY DEF GrowRound
<1> HIDE DEF before, after
<1>3. before \subseteq after /\ after \in SUBSET cells
  BY <1>1, <1>2, TouchingIsMutual
<1>4. Around(seed, after)
  <2> SUFFICES ASSUME NEW part \in SUBSET after, seed \in part, Apart(part, after \ part) PROVE part = after
    BY DEF Around
  <2>1. part \cap before = before
    <3>1. Apart(part \cap before, before \ (part \cap before))
      BY <1>3 DEF Apart
    <3> QED
      BY <1>1, <3>1 DEF Around
  <2>2. ASSUME NEW b \in after PROVE b \in part
    <3>1. PICK known \in before : Touching(b, known)
      BY <1>2
    <3>2. known \in part /\ Touching(known, b)
      BY <1>1, <1>2, <2>1, <3>1, TouchingIsMutual
    <3> QED
      BY <3>2 DEF Apart
  <2> QED
    BY <2>2
<1>5. CASE Apart(before, cells \ before)
  <2>1. after = before
    <3>1. ASSUME NEW b \in after, b \notin before PROVE FALSE
      <4>1. PICK known \in before : Touching(b, known)
        BY <1>2
      <4>2. Touching(known, b) /\ b \in cells \ before
        BY <1>1, <1>2, <3>1, <4>1, TouchingIsMutual
      <4> QED
        BY <1>5, <4>2 DEF Apart
    <3> QED
      BY <1>3, <3>1
  <2> QED
    BY <1>1, <1>3, <1>4, <1>5, <2>1 DEF ReachedWell, after
<1>6. CASE ~Apart(before, cells \ before)
  <2>1. PICK a \in before, b \in cells \ before : Touching(a, b)
    BY <1>6 DEF Apart
  <2>2. b \in after
    BY <1>1, <1>2, <2>1, TouchingIsMutual
  <2>3. IsFiniteSet(before) /\ IsFiniteSet(after) /\ IsFiniteSet(rounds)
    BY <1>1, <1>3, FS_Subset
  <2>4. /\ Cardinality(before) \in Nat /\ Cardinality(after) \in Nat /\ Cardinality(rounds) \in Nat
        /\ Cardinality(rounds \ {last}) = Cardinality(rounds) - 1
    BY <2>3, FS_CardinalityType, FS_RemoveElement
  <2>5. /\ IsFiniteSet(before \cup {b})
        /\ Cardinality(before \cup {b}) = Cardinality(before) + 1
    BY <2>1, <2>3, FS_AddElement
  <2>6. Cardinality(before \cup {b}) <= Cardinality(after)
    <3>1. before \cup {b} \in SUBSET after
      BY <1>3, <2>2
    <3> QED
      BY <2>3, <3>1, FS_Subset
  <2>7. Cardinality(rounds) < Cardinality(after)
    BY <1>1, <1>6, <2>4, <2>5, <2>6
  <2> QED
    BY <1>1, <1>3, <1>4, <2>7 DEF ReachedWell, after
<1> QED
  BY <1>5, <1>6

\* Collecting reaches all that hangs together with the seed and nothing else.
LEMMA CollectingReachesAll ==
  ASSUME NEW cells \in SUBSET Cell, IsFiniteSet(cells), NEW seed \in cells
  PROVE  LET reached == CollectComponent(cells, seed)
         IN  /\ seed \in reached /\ reached \in SUBSET cells
             /\ Around(seed, reached) /\ Apart(reached, cells \ reached)
<1> DEFINE P == {rounds \in SUBSET cells : ReachedWell(cells, seed, rounds)}
<1>1. ASSUME NEW s \in SUBSET cells, \A t \in SUBSET s : t # s => t \in P
      PROVE  s \in P
  <2>1. IsFiniteSet(s)
    BY FS_Subset
  <2>2. /\ Grows!FoldedSet(cells, {seed}, {}) = {seed}
        /\ s # {} => /\ Grows!Pick(s) \in s
                     /\ Grows!FoldedSet(cells, {seed}, s) =
                          GrowRound(cells, Grows!FoldedSet(cells, {seed}, s \ {Grows!Pick(s)}), Grows!Pick(s))
    BY <2>1, FiniteForGrows, Grows!SetFoldStep
  <2>3. CASE s = {}
    <3>1. Reached(cells, seed, s) = {seed}
      BY <2>2, <2>3 DEF Reached
    <3>2. Cardinality(s) = 0 /\ Cardinality({seed}) = 1
      BY <2>3, FS_EmptySet, FS_Singleton
    <3>3. Around(seed, {seed})
      BY DEF Around
    <3> QED
      BY <3>1, <3>2, <3>3 DEF ReachedWell
  <2>4. CASE s # {}
    <3> DEFINE last == Grows!Pick(s)
    <3>1. last \in s /\ Reached(cells, seed, s) = GrowRound(cells, Reached(cells, seed, s \ {last}), last)
      BY <2>2, <2>4 DEF Reached
    <3> HIDE DEF last
    <3>2. s \ {last} \in P
      BY <1>1, <3>1
    <3>3. ReachedWell(cells, seed, s \ {last})
      BY <3>2
    <3> QED
      BY <3>1, <3>3, OneRoundReaches
  <2> QED
    BY <2>3, <2>4
<1> HIDE DEF P
<1>2. \A s \in SUBSET cells : s \in P
  BY <1>1, FiniteForGrows, Grows!SubsetInduction
<1>3. ReachedWell(cells, seed, cells)
  BY <1>2 DEF P
<1> DEFINE reached == Reached(cells, seed, cells)
<1>4. /\ seed \in reached /\ reached \in SUBSET cells /\ Around(seed, reached)
      /\ Cardinality(cells) < Cardinality(reached) \/ Apart(reached, cells \ reached)
  BY <1>3 DEF ReachedWell
<1> HIDE DEF reached
<1>5. Cardinality(reached) <= Cardinality(cells) /\ Cardinality(cells) \in Nat /\ Cardinality(reached) \in Nat
  <2>1. IsFiniteSet(reached)
    BY <1>4, FS_Subset
  <2> QED
    BY <1>4, <2>1, FS_Subset, FS_CardinalityType
<1> QED
  BY <1>4, <1>5, CollectedIsReached DEF reached

\* Which is a class of cells that touch.
LEMMA CollectedIsClass ==
  ASSUME NEW cells \in SUBSET Cell, IsFiniteSet(cells), NEW seed \in cells
  PROVE  CollectComponent(cells, seed) \in Classes(cells, Touching) /\ seed \in CollectComponent(cells, seed)
<1> DEFINE reached == CollectComponent(cells, seed)
<1>1. /\ seed \in reached /\ reached \in SUBSET cells
      /\ Around(seed, reached) /\ Apart(reached, cells \ reached)
  BY CollectingReachesAll
<1> HIDE DEF reached
<1>2. ASSUME NEW part \in (SUBSET reached) \ {{}, reached}, Apart(part, reached \ part) PROVE FALSE
  <2>1. CASE seed \in part
    BY <1>1, <1>2, <2>1 DEF Around
  <2>2. CASE seed \notin part
    <3>1. Apart(reached \ part, reached \ (reached \ part))
      BY <1>1, <1>2, TouchingIsMutual DEF Apart
    <3>2. reached \ part = reached
      BY <1>1, <2>2, <3>1 DEF Around
    <3> QED
      BY <3>2
  <2> QED
    BY <2>1, <2>2
<1>3. reached \in (SUBSET cells) \ {{}}
  BY <1>1
<1> QED
  BY <1>1, <1>2, <1>3 DEF Classes, Apart, reached

\* Classes that share an element are one.
LEMMA ClassesDoNotOverlap ==
  ASSUME NEW cells \in SUBSET Cell,
         NEW one \in Classes(cells, Touching), NEW other \in Classes(cells, Touching), one \cap other # {}
  PROVE  one = other
<1>1. \A class \in Classes(cells, Touching) :
        /\ class \in SUBSET cells /\ Apart(class, cells \ class)
        /\ \A part \in (SUBSET class) \ {{}, class} : ~Apart(part, class \ part)
  BY DEF Classes, Apart
<1>2. ASSUME NEW c \in Classes(cells, Touching), NEW d \in Classes(cells, Touching), c \cap d # {}
      PROVE  c \subseteq d
  <2> SUFFICES ASSUME ~(c \subseteq d) PROVE FALSE
    OBVIOUS
  <2>1. c \cap d \in (SUBSET c) \ {{}, c}
    BY <1>2
  <2>2. Apart(c \cap d, c \ (c \cap d))
    BY <1>1 DEF Apart
  <2> QED
    BY <1>1, <2>1, <2>2
<1> QED
  BY <1>2

\* The first cell in scan order is one of the cells.
LEMMA FirstCellIsOne ==
  ASSUME NEW cells \in SUBSET (Nat \X Nat), cells # {}
  PROVE  FirstCell(cells) \in cells
<1> DEFINE ys == {cell[2] : cell \in cells}
<1>1. ys \in SUBSET Nat /\ ys # {}
  OBVIOUS
<1>2. PICK y \in ys : \A z \in ys : y <= z
  BY <1>1, LeastOf
<1> DEFINE xs == {x \in Nat : <<x, y>> \in cells}
<1>3. xs \in SUBSET Nat /\ xs # {}
  BY <1>2
<1>4. PICK x \in xs : \A z \in xs : x <= z
  BY <1>3, LeastOf
<1>5. <<x, y>> \in cells
  BY <1>4
<1>6. ASSUME NEW other \in cells \ {<<x, y>>} PROVE ScanOrder(<<x, y>>, other)
  <2>1. other = <<other[1], other[2]>> /\ other[1] \in Nat /\ other[2] \in Nat /\ y \in Nat /\ x \in Nat
    BY <1>2, <1>4
  <2>2. y <= other[2]
    BY <1>2
  <2>3. CASE other[2] = y
    <3>1. other[1] \in xs
      BY <2>1, <2>3
    <3>2. x <= other[1] /\ x # other[1]
      BY <1>4, <2>1, <2>3, <3>1
    <3> QED
      BY <2>1, <2>3, <3>2 DEF ScanOrder
  <2> QED
    BY <2>1, <2>2, <2>3 DEF ScanOrder
<1> QED
  BY <1>5, <1>6 DEF FirstCell

\* One component more, if any is left.
CollectNext(cells, found, round) ==
  LET left == cells \ UNION ToSet(found)
  IN  IF left = {} THEN found ELSE Append(found, CollectComponent(cells, FirstCell(left)))
Lists == INSTANCE FoldSteps WITH Op <- CollectNext

Found(cells, rounds) == Lists!FoldedSet(cells, <<>>, rounds)

LEMMA FiniteForLists == \A S : Lists!IsFiniteSet(S) <=> IsFiniteSet(S)
BY DEF Lists!IsFiniteSet, IsFiniteSet

LEMMA ComponentsAreFound ==
  ASSUME NEW cells
  PROVE  ComponentsOf(cells) = Found(cells, cells)
BY DEF ComponentsOf, Found, CollectNext, Lists!FoldedSet, Lists!MapThenFoldSet, Lists!Pick, FoldSet, MapThenFoldSet

CellsOf(found) == UNION ToSet(found)

\* After some rounds the components found are different classes, which hold as
\* many cells as there were rounds, or all.
FoundWell(cells, rounds) ==
  LET found == Found(cells, rounds)
  IN  /\ found \in Seq(Classes(cells, Touching))
      /\ \A i, j \in 1 .. Len(found) : found[i] = found[j] => i = j
      /\ Cardinality(rounds) <= Cardinality(CellsOf(found)) \/ CellsOf(found) = cells

\* The elements of a sequence with one more.
LEMMA OneMoreElement ==
  ASSUME NEW S, NEW s \in Seq(S), NEW e \in S
  PROVE  ToSet(Append(s, e)) = ToSet(s) \cup {e} /\ ToSet(s) \in SUBSET S
<1>1. /\ Len(s) \in Nat /\ Append(s, e) \in Seq(S) /\ Len(Append(s, e)) = Len(s) + 1
      /\ \A x \in 1 .. Len(s) : Append(s, e)[x] = s[x]
      /\ Append(s, e)[Len(s) + 1] = e
  BY Appended
<1>2. DOMAIN s = 1 .. Len(s) /\ DOMAIN Append(s, e) = 1 .. Len(s) + 1
  BY <1>1
<1>3. 1 .. Len(s) + 1 = (1 .. Len(s)) \cup {Len(s) + 1}
  BY <1>1
<1>4. \A i \in 1 .. Len(s) : s[i] \in S
  OBVIOUS
<1> QED
  BY <1>1, <1>2, <1>3, <1>4 DEF ToSet

LEMMA OneRoundFinds ==
  ASSUME NEW cells \in SUBSET (Nat \X Nat), IsFiniteSet(cells),
         NEW rounds \in SUBSET cells, NEW last \in rounds,
         Found(cells, rounds) = CollectNext(cells, Found(cells, rounds \ {last}), last),
         FoundWell(cells, rounds \ {last})
  PROVE  FoundWell(cells, rounds)
<1> DEFINE before == Found(cells, rounds \ {last})
           after == Found(cells, rounds)
           classes == Classes(cells, Touching)
           left == cells \ CellsOf(before)
           new == CollectComponent(cells, FirstCell(left))
<1>1. /\ before \in Seq(classes)
      /\ \A i, j \in 1 .. Len(before) : before[i] = before[j] => i = j
      /\ Cardinality(rounds \ {last}) <= Cardinality(CellsOf(before)) \/ CellsOf(before) = cells
  BY DEF FoundWell
<1>2. after = IF left = {} THEN before ELSE Append(before, new)
  BY DEF CollectNext, CellsOf
<1>3. \A class \in classes : class \in SUBSET cells
  BY DEF Classes
<1> HIDE DEF before, after, classes
<1>4. CellsOf(before) \in SUBSET cells
  <2>1. \A i \in DOMAIN before : before[i] \in classes
    BY <1>1
  <2> QED
    BY <1>3, <2>1 DEF CellsOf, ToSet
<1>5. CASE left = {}
  BY <1>1, <1>2, <1>4, <1>5 DEF FoundWell, after, classes
<1>6. CASE left # {}
  <2>1. FirstCell(left) \in left
    BY <1>6, FirstCellIsOne
  <2>2. new \in classes /\ FirstCell(left) \in new
    <3>1. cells \in SUBSET Cell
      BY DEF Cell
    <3> QED
      BY <2>1, <3>1, CollectedIsClass DEF classes
  <2> HIDE DEF new
  <2>3. /\ Len(before) \in Nat /\ after \in Seq(classes) /\ Len(after) = Len(before) + 1
        /\ \A x \in 1 .. Len(before) : after[x] = before[x]
        /\ after[Len(before) + 1] = new
    BY <1>1, <1>2, <1>6, <2>2, Appended
  <2>4. \A i \in 1 .. Len(before) : before[i] # new
    <3>1. \A i \in 1 .. Len(before) : before[i] \subseteq CellsOf(before)
      BY <1>1 DEF CellsOf, ToSet
    <3> QED
      BY <2>1, <2>2, <3>1
  <2>5. \A i, j \in 1 .. Len(after) : after[i] = after[j] => i = j
    <3> SUFFICES ASSUME NEW i \in 1 .. Len(after), NEW j \in 1 .. Len(after), after[i] = after[j] PROVE i = j
      OBVIOUS
    <3>1. (i \in 1 .. Len(before) \/ i = Len(before) + 1) /\ (j \in 1 .. Len(before) \/ j = Len(before) + 1)
      BY <2>3
    <3> QED
      BY <1>1, <2>3, <2>4, <3>1
  <2>6. CellsOf(after) = CellsOf(before) \cup new
    <3>1. ToSet(after) = ToSet(before) \cup {new}
      BY <1>1, <1>2, <1>6, <2>2, OneMoreElement
    <3> QED
      BY <3>1 DEF CellsOf
  <2>7. Cardinality(rounds) <= Cardinality(CellsOf(after))
    <3>1. CellsOf(after) \in SUBSET cells /\ FirstCell(left) \in CellsOf(after) /\ FirstCell(left) \notin CellsOf(before)
      BY <1>3, <1>4, <2>1, <2>2, <2>6
    <3>2. IsFiniteSet(CellsOf(before)) /\ IsFiniteSet(CellsOf(after)) /\ IsFiniteSet(rounds)
      BY <1>4, <3>1, FS_Subset
    <3>3. /\ Cardinality(CellsOf(before)) \in Nat /\ Cardinality(CellsOf(after)) \in Nat /\ Cardinality(rounds) \in Nat
          /\ Cardinality(rounds \ {last}) = Cardinality(rounds) - 1
      BY <3>2, FS_CardinalityType, FS_RemoveElement
    <3>4. Cardinality(CellsOf(before) \cup {FirstCell(left)}) = Cardinality(CellsOf(before)) + 1
      BY <3>1, <3>2, FS_AddElement
    <3>5. Cardinality(CellsOf(before) \cup {FirstCell(left)}) <= Cardinality(CellsOf(after))
      <4>1. CellsOf(before) \cup {FirstCell(left)} \in SUBSET CellsOf(after)
        BY <2>6, <3>1
      <4> QED
        BY <3>2, <4>1, FS_Subset
    <3>6. CellsOf(before) # cells
      BY <1>6
    <3> QED
      BY <1>1, <3>3, <3>4, <3>5, <3>6
  <2> QED
    BY <2>3, <2>5, <2>7 DEF FoundWell, after, classes
<1> QED
  BY <1>5, <1>6

\* The components of a finite set are its classes, each listed once.
LEMMA ComponentsAreClasses ==
  ASSUME NEW cells \in SUBSET (Nat \X Nat), IsFiniteSet(cells)
  PROVE  /\ ComponentsOf(cells) \in Seq(Classes(cells, Touching))
         /\ ToSet(ComponentsOf(cells)) = Classes(cells, Touching)
         /\ \A i, j \in DOMAIN ComponentsOf(cells) : ComponentsOf(cells)[i] = ComponentsOf(cells)[j] => i = j
<1> DEFINE P == {rounds \in SUBSET cells : FoundWell(cells, rounds)}
           classes == Classes(cells, Touching)
<1>1. ASSUME NEW s \in SUBSET cells, \A t \in SUBSET s : t # s => t \in P
      PROVE  s \in P
  <2>1. IsFiniteSet(s)
    BY FS_Subset
  <2>2. /\ Lists!FoldedSet(cells, <<>>, {}) = <<>>
        /\ s # {} => /\ Lists!Pick(s) \in s
                     /\ Lists!FoldedSet(cells, <<>>, s) =
                          CollectNext(cells, Lists!FoldedSet(cells, <<>>, s \ {Lists!Pick(s)}), Lists!Pick(s))
    BY <2>1, FiniteForLists, Lists!SetFoldStep
  <2>3. CASE s = {}
    <3>1. Found(cells, s) = <<>>
      BY <2>2, <2>3 DEF Found
    <3>2. Cardinality(s) = 0 /\ CellsOf(<<>>) = {} /\ Cardinality({}) = 0
      BY <2>3, FS_EmptySet DEF CellsOf, ToSet
    <3>3. <<>> \in Seq(classes) /\ \A i, j \in 1 .. Len(<<>>) : <<>>[i] = <<>>[j] => i = j
      <4> HIDE DEF classes
      <4>1. <<>> \in Seq(classes) /\ 1 .. Len(<<>>) = {}
        OBVIOUS
      <4> QED
        BY <4>1
    <3>4. Cardinality(s) <= Cardinality(CellsOf(<<>>))
      <4>1. Cardinality(CellsOf(<<>>)) = 0
        BY <3>2, Zenon
      <4> QED
        BY ONLY <3>2, <4>1
    <3>5. FoundWell(cells, s)
      BY <3>1, <3>3, <3>4 DEF FoundWell
    <3> QED
      BY <3>5
  <2>4. CASE s # {}
    <3> DEFINE last == Lists!Pick(s)
    <3>1. last \in s /\ Found(cells, s) = CollectNext(cells, Found(cells, s \ {last}), last)
      BY <2>2, <2>4 DEF Found
    <3> HIDE DEF last
    <3>2. s \ {last} \in P
      BY <1>1, <3>1
    <3>3. FoundWell(cells, s \ {last})
      BY <3>2
    <3> QED
      BY <3>1, <3>3, OneRoundFinds
  <2> QED
    BY <2>3, <2>4
<1> HIDE DEF P
<1>2. \A s \in SUBSET cells : s \in P
  BY <1>1, FiniteForLists, Lists!SubsetInduction
<1>3. FoundWell(cells, cells)
  BY <1>2 DEF P
<1> DEFINE found == Found(cells, cells)
<1>4. /\ found \in Seq(classes)
      /\ \A i, j \in 1 .. Len(found) : found[i] = found[j] => i = j
      /\ Cardinality(cells) <= Cardinality(CellsOf(found)) \/ CellsOf(found) = cells
  BY <1>3 DEF FoundWell
<1>5. \A class \in classes : class \in SUBSET cells /\ class # {}
  BY DEF Classes
<1>6. cells \in SUBSET Cell
  BY DEF Cell
<1>7. ASSUME NEW one \in classes, NEW other \in classes, one \cap other # {} PROVE one = other
  BY <1>6, <1>7, ClassesDoNotOverlap
<1> HIDE DEF found, classes
<1>8. DOMAIN found = 1 .. Len(found) /\ \A i \in DOMAIN found : found[i] \in classes
  BY <1>4
<1>9. CellsOf(found) = cells
  <2>1. CellsOf(found) \in SUBSET cells
    BY <1>5, <1>8 DEF CellsOf, ToSet
  <2>2. ASSUME Cardinality(cells) <= Cardinality(CellsOf(found)) PROVE CellsOf(found) = cells
    <3>1. IsFiniteSet(CellsOf(found)) /\ Cardinality(CellsOf(found)) <= Cardinality(cells)
      BY <2>1, FS_Subset
    <3>2. Cardinality(CellsOf(found)) \in Nat /\ Cardinality(cells) \in Nat
      BY <3>1, FS_CardinalityType
    <3>3. Cardinality(cells) = Cardinality(CellsOf(found))
      BY <2>2, <3>1, <3>2
    <3> QED
      BY <2>1, <3>3, FS_Subset
  <2> QED
    BY <1>4, <2>2
<1>10. ToSet(found) = classes
  <2>1. ASSUME NEW class \in classes PROVE class \in ToSet(found)
    <3>1. PICK c \in class : c \in cells
      BY <1>5
    <3>2. PICK i \in DOMAIN found : c \in found[i]
      BY <1>9, <3>1 DEF CellsOf, ToSet
    <3>3. found[i] = class
      BY <1>7, <1>8, <3>1, <3>2
    <3> QED
      BY <3>3 DEF ToSet
  <2> QED
    BY <1>8, <2>1 DEF ToSet
<1> QED
  BY <1>4, <1>8, <1>10, ComponentsAreFound DEF found, classes

-----------------------------------------------------------------------------
(* Boxes of components *)

\* The greatest of a bounded set of naturals.
LEMMA GreatestBelow ==
  ASSUME NEW bound \in Nat, NEW S \in SUBSET (0 .. bound), S # {}
  PROVE  Max(S) \in S /\ \A y \in S : Max(S) >= y
<1> DEFINE T == {bound - z : z \in S}
<1>1. T \in SUBSET Nat /\ T # {}
  <2>1. \A z \in S : bound - z \in Nat
    OBVIOUS
  <2> QED
    BY <2>1
<1>2. PICK n \in T : \A m \in T : n <= m
  BY <1>1, LeastOf
<1>3. PICK z \in S : n = bound - z
  BY <1>2
<1>4. \A y \in S : z >= y
  BY <1>2, <1>3
<1>5. Max(S) = z
  BY <1>4, GreatestIs
<1> QED
  BY <1>4, <1>5

\* The bounds of cells of an image lie in it.
LEMMA BoundsLieInside ==
  ASSUME NEW w \in Nat, NEW h \in Nat, NEW cells \in SUBSET Grid(w, h), cells # {}
  PROVE  LET box == CellBounds(cells)
         IN  /\ box.x \in Nat /\ box.y \in Nat /\ box.w \in Nat /\ box.h \in Nat
             /\ box.w > 0 /\ box.h > 0 /\ box.x + box.w <= w /\ box.y + box.h <= h
<1> DEFINE xs == {cell[1] : cell \in cells}
           ys == {cell[2] : cell \in cells}
<1>1. /\ xs \in SUBSET (0 .. w) /\ xs # {} /\ (\A x \in xs : x < w)
      /\ ys \in SUBSET (0 .. h) /\ ys # {} /\ (\A y \in ys : y < h)
  BY DEF Grid
<1>2. CellBounds(cells) = Rect(Min(xs), Min(ys), Max(xs) - Min(xs) + 1, Max(ys) - Min(ys) + 1)
  BY DEF CellBounds
<1> HIDE DEF xs, ys
<1>3. /\ Min(xs) \in xs /\ Max(xs) \in xs /\ Min(xs) <= Max(xs)
      /\ Min(ys) \in ys /\ Max(ys) \in ys /\ Min(ys) <= Max(ys)
  <2>1. /\ xs \in SUBSET Nat /\ ys \in SUBSET Nat
    BY <1>1
  <2> QED
    BY <1>1, <2>1, MinIsIn, GreatestBelow
<1>4. /\ Min(xs) \in Nat /\ Max(xs) \in Nat /\ Max(xs) < w
      /\ Min(ys) \in Nat /\ Max(ys) \in Nat /\ Max(ys) < h
  <2>1. \A z \in 0 .. w : z \in Nat
    OBVIOUS
  <2>2. \A z \in 0 .. h : z \in Nat
    OBVIOUS
  <2> QED
    BY <1>1, <1>3, <2>1, <2>2
<1> QED
  BY <1>2, <1>3, <1>4 DEF Rect

\* One component is taken or not.
TakeOne(taken, keep, box, max) ==
  IF taken.status # "kOk" THEN taken
  ELSE IF Len(taken.value) >= max THEN Failed("kBudgetExceeded")
  ELSE IF ~keep THEN taken
  ELSE Ok(Append(taken.value, box))

TakePlain(params, taken, c) == TakeOne(taken, c.count >= params.min_pixels, c.bounds, params.max_boxes)
Plains == INSTANCE FoldSteps WITH Op <- TakePlain

Scored(params, c) == c.count >= params.min_pixels /\ AtLeast(MeanScore(c), params.min_score)
Grown(params, whole, c) == [bounds |-> UnclipAabb(c.bounds, params.unclip, whole), confidence |-> MeanScore(c)]

TakeGrown(given, taken, c) ==
  TakeOne(taken, Scored(given.params, c), Grown(given.params, given.whole, c), given.params.max_boxes)
Grownups == INSTANCE FoldSteps WITH Op <- TakeGrown

\* A run through n components that is not refused.
Takes(n, a, kept, box, max) ==
  /\ a[0] = Ok(<<>>) /\ \A i \in 1 .. n : a[i] = TakeOne(a[i - 1], kept[i], box[i], max)
  /\ a[n].status = "kOk"

\* What it has taken: each box to be kept, once.
LEMMA TakenBoxes ==
  ASSUME NEW n \in Nat, NEW a, NEW kept \in [1 .. n -> BOOLEAN], NEW box, NEW max,
         Takes(n, a, kept, box, max)
  PROVE  LET chosen == {i \in 1 .. n : kept[i]}
         IN  /\ ToSet(a[n].value) = {box[i] : i \in chosen}
             /\ Len(a[n].value) = Cardinality(chosen)
             /\ DOMAIN a[n].value = 1 .. Len(a[n].value)
<1> DEFINE Chosen(k) == {i \in 1 .. k : kept[i]}
           S == {box[i] : i \in 1 .. n}
           Good(k) == /\ a[k].value \in Seq(S)
                      /\ ToSet(a[k].value) = {box[i] : i \in Chosen(k)}
                      /\ Len(a[k].value) = Cardinality(Chosen(k))
           J == {k \in 0 .. n : a[k].status = "kOk" => Good(k)}
<1>1. 0 \in J
  <2>1. a[0].value = <<>> /\ Chosen(0) = {}
    BY DEF Takes, Ok
  <2>2. <<>> \in Seq(S) /\ ToSet(<<>>) = {} /\ Len(<<>>) = 0
    BY DEF ToSet
  <2>3. Cardinality({}) = 0
    BY FS_EmptySet
  <2>4. Good(0)
    BY <2>1, <2>2, <2>3
  <2> HIDE DEF Good
  <2> QED
    BY <2>4
<1>2. ASSUME NEW k \in 1 .. n, k - 1 \in J PROVE k \in J
  <2> SUFFICES ASSUME a[k].status = "kOk" PROVE Good(k)
    <3> HIDE DEF Good
    <3> QED
      OBVIOUS
  <2> DEFINE before == a[k - 1]
  <2>1. a[k] = TakeOne(before, kept[k], box[k], max)
    BY DEF Takes
  <2>2. before.status = "kOk" /\ ~(Len(before.value) >= max)
    BY <2>1 DEF TakeOne, Failed
  <2>3. a[k] = IF ~kept[k] THEN before ELSE Ok(Append(before.value, box[k]))
    BY <2>1, <2>2 DEF TakeOne
  <2>4. Good(k - 1)
    <3> HIDE DEF Good
    <3> QED
      BY <1>2, <2>2
  <2> HIDE DEF before
  <2>5. 1 .. k = (1 .. k - 1) \cup {k} /\ k \notin 1 .. k - 1
    OBVIOUS
  <2>6. CASE ~kept[k]
    <3>1. Chosen(k) = Chosen(k - 1)
      BY <2>5, <2>6
    <3> QED
      BY <2>3, <2>4, <2>6, <3>1 DEF before
  <2>7. CASE kept[k]
    <3>1. Chosen(k) = Chosen(k - 1) \cup {k} /\ k \notin Chosen(k - 1)
      BY <2>5, <2>7
    <3>2. a[k].value = Append(before.value, box[k])
      BY <2>3, <2>7 DEF Ok
    <3>3. before.value \in Seq(S) /\ box[k] \in S
      BY <2>4 DEF before
    <3>4. Cardinality(Chosen(k)) = Cardinality(Chosen(k - 1)) + 1
      <4>1. IsFiniteSet(1 .. k - 1) /\ Chosen(k - 1) \in SUBSET (1 .. k - 1)
        BY FS_Interval
      <4>2. IsFiniteSet(Chosen(k - 1))
        BY <4>1, FS_Subset
      <4> QED
        BY <3>1, <4>2, FS_AddElement
    <3> HIDE DEF S, Chosen
    <3>5. /\ Append(before.value, box[k]) \in Seq(S)
          /\ Len(Append(before.value, box[k])) = Len(before.value) + 1
      BY <3>3, Appended
    <3>6. ToSet(Append(before.value, box[k])) = ToSet(before.value) \cup {box[k]}
      BY <3>3, OneMoreElement
    <3>7. ToSet(before.value) = {box[i] : i \in Chosen(k - 1)} /\ Len(before.value) = Cardinality(Chosen(k - 1))
      BY <2>4 DEF before
    <3> QED
      BY <3>1, <3>2, <3>4, <3>5, <3>6, <3>7
  <2> QED
    BY <2>6, <2>7
<1> HIDE DEF J
<1>3. \A k \in 0 .. n : k \in J
  BY <1>1, <1>2, Plains!BoundedInduction
<1>4. Good(n)
  <2> HIDE DEF Good
  <2> QED
    BY <1>3 DEF J, Takes
<1> QED
  BY <1>4

\* The boxes that are recovered, and those that grow, as traces.
PlainOf(found, params) ==
  LET Kept(c) == c.count >= params.min_pixels
      Box(c) == c.bounds
  IN  Boxes(found, params, Kept, Box)

GrownOf(found, params, whole) ==
  LET Kept(c) == c.count >= params.min_pixels /\ AtLeast(MeanScore(c), params.min_score)
      Box(c) == [bounds |-> UnclipAabb(c.bounds, params.unclip, whole), confidence |-> MeanScore(c)]
  IN  Boxes(found, params, Kept, Box)

LEMMA PlainBoxes ==
  ASSUME NEW n \in Nat, NEW found, DOMAIN found = 1 .. n, NEW params,
         PlainOf(found, params).status = "kOk"
  PROVE  LET boxes == PlainOf(found, params).value
             chosen == {i \in 1 .. n : found[i].count >= params.min_pixels}
         IN  /\ ToSet(boxes) = {found[i].bounds : i \in chosen}
             /\ Len(boxes) = Cardinality(chosen) /\ DOMAIN boxes = 1 .. Len(boxes)
<1> DEFINE all == PlainOf(found, params)
           kept == [i \in 1 .. n |-> found[i].count >= params.min_pixels]
           box == [i \in 1 .. n |-> found[i].bounds]
<1>1. all = Plains!Folded(params, Ok(<<>>), found)
  BY DEF PlainOf, Boxes, Plains!Folded, TakePlain, TakeOne, FoldLeft, Plains!FoldLeft,
         MapThenFoldSet, Plains!MapThenFoldSet, Max, Plains!Max
<1> DEFINE base == Ok(<<>>)
<1>2. PICK a : Plains!Trace(params, base, found, n, a) /\ Plains!Folded(params, base, found) = a[n]
  <2> HIDE DEF base
  <2> QED
    BY Plains!FoldTrace
<1>3. all = a[n] /\ all.status = "kOk"
  BY <1>1, <1>2
<1> HIDE DEF all
<1>4. a[0] = Ok(<<>>) /\ \A i \in 1 .. n : a[i] = TakeOne(a[i - 1], kept[i], box[i], params.max_boxes)
  BY <1>2 DEF Plains!Trace, TakePlain
<1>5. kept \in [1 .. n -> BOOLEAN]
  OBVIOUS
<1>6. /\ {i \in 1 .. n : kept[i]} = {i \in 1 .. n : found[i].count >= params.min_pixels}
      /\ \A i \in 1 .. n : box[i] = found[i].bounds
  OBVIOUS
<1> HIDE DEF kept, box
<1> DEFINE max == params.max_boxes
<1>b. \A i \in 1 .. n : a[i] = TakeOne(a[i - 1], kept[i], box[i], max)
  BY <1>4
<1>c. Takes(n, a, kept, box, max)
  BY <1>3, <1>4, <1>b DEF Takes
<1> HIDE DEF max
<1>7. LET chosen == {i \in 1 .. n : kept[i]}
      IN  /\ ToSet(a[n].value) = {box[i] : i \in chosen}
          /\ Len(a[n].value) = Cardinality(chosen)
          /\ DOMAIN a[n].value = 1 .. Len(a[n].value)
  BY <1>c, <1>5, TakenBoxes
<1> QED
  BY <1>3, <1>6, <1>7 DEF all

LEMMA GrownBoxes ==
  ASSUME NEW n \in Nat, NEW found, DOMAIN found = 1 .. n, NEW params, NEW whole,
         GrownOf(found, params, whole).status = "kOk"
  PROVE  \A taken \in ToSet(GrownOf(found, params, whole).value) :
           \E i \in 1 .. n : Scored(params, found[i]) /\ taken = Grown(params, whole, found[i])
<1> DEFINE all == GrownOf(found, params, whole)
           given == [params |-> params, whole |-> whole]
           kept == [i \in 1 .. n |-> Scored(params, found[i])]
           box == [i \in 1 .. n |-> Grown(params, whole, found[i])]
<1>a. given.params = params /\ given.whole = whole
  OBVIOUS
<1>1. all = Grownups!Folded(given, Ok(<<>>), found)
  BY DEF GrownOf, Boxes, Grownups!Folded, TakeGrown, TakeOne, Scored, Grown, FoldLeft, Grownups!FoldLeft,
         MapThenFoldSet, Grownups!MapThenFoldSet, Max, Grownups!Max
<1> HIDE DEF given
<1> DEFINE base == Ok(<<>>)
<1>2. PICK a : Grownups!Trace(given, base, found, n, a) /\ Grownups!Folded(given, base, found) = a[n]
  <2> HIDE DEF base
  <2> QED
    BY Grownups!FoldTrace
<1>3. all = a[n] /\ all.status = "kOk"
  BY <1>1, <1>2
<1> HIDE DEF all
<1>4. a[0] = Ok(<<>>) /\ \A i \in 1 .. n : a[i] = TakeOne(a[i - 1], kept[i], box[i], params.max_boxes)
  BY <1>a, <1>2 DEF Grownups!Trace, TakeGrown
<1>5. kept \in [1 .. n -> BOOLEAN]
  BY DEF Scored
<1>6. /\ {i \in 1 .. n : kept[i]} = {i \in 1 .. n : Scored(params, found[i])}
      /\ \A i \in 1 .. n : box[i] = Grown(params, whole, found[i])
  OBVIOUS
<1> HIDE DEF kept, box
<1> DEFINE max == params.max_boxes
<1>b. \A i \in 1 .. n : a[i] = TakeOne(a[i - 1], kept[i], box[i], max)
  BY <1>4
<1>c. Takes(n, a, kept, box, max)
  BY <1>3, <1>4, <1>b DEF Takes
<1> HIDE DEF max
<1>7. LET chosen == {i \in 1 .. n : kept[i]}
      IN  /\ ToSet(a[n].value) = {box[i] : i \in chosen}
          /\ Len(a[n].value) = Cardinality(chosen)
          /\ DOMAIN a[n].value = 1 .. Len(a[n].value)
  BY <1>c, <1>5, TakenBoxes
<1> QED
  BY <1>3, <1>6, <1>7 DEF all

\* A box that grows within an image holds the box that it grew from.
LEMMA GrowingKeeps ==
  ASSUME NEW box, NEW w \in Nat, NEW h \in Nat, NEW ratio \in Int \X (Nat \ {0}), ratio[1] >= 0,
         box.x \in Nat, box.y \in Nat, box.w \in Nat, box.h \in Nat, box.w > 0, box.h > 0,
         box.x + box.w <= w, box.y + box.h <= h
  PROVE  LET grown == UnclipAabb(box, ratio, Rect(0, 0, w, h))
             k == grown.scale
         IN  RectContains(grown.bounds, Rect(box.x * k, box.y * k, box.w * k, box.h * k))
<1> DEFINE k == 2 * (box.w + box.h) * ratio[2]
           offset == Area(box) * ratio[1]
           x == box.x * k
           y == box.y * k
           r == (box.x + box.w) * k
           b == (box.y + box.h) * k
           xm == 0 * k
           rm == (0 + w) * k
           bm == (0 + h) * k
           left == Max({xm, x - offset})
           top == Max({xm, y - offset})
           right == Min({rm, r + offset})
           bottom == Min({bm, b + offset})
<1>1. UnclipAabb(box, ratio, Rect(0, 0, w, h)) =
        [scale |-> k, bounds |-> Rect(left, top, right - left, bottom - top)]
  BY DEF UnclipAabb, Rect
<1>2. k \in Nat
  <2>1. 2 * (box.w + box.h) \in Nat /\ ratio[2] \in Nat
    OBVIOUS
  <2> DEFINE p == 2 * (box.w + box.h)
             q == ratio[2]
  <2> HIDE DEF p, q
  <2>2. p * q \in Nat
    BY <2>1 DEF p, q
  <2> QED
    BY <2>2 DEF p, q
<1>3. offset \in Nat
  <2> DEFINE p == box.w * box.h
             q == ratio[1]
  <2>1. p \in Nat /\ q \in Nat
    OBVIOUS
  <2> HIDE DEF p, q
  <2>2. p * q \in Nat
    BY <2>1
  <2> QED
    BY <2>2 DEF p, q, Area
<1> HIDE DEF k, offset
<1>4. /\ x \in Nat /\ y \in Nat /\ r = x + box.w * k /\ b = y + box.h * k
      /\ box.w * k \in Nat /\ box.h * k \in Nat
      /\ xm = 0 /\ rm = w * k /\ bm = h * k /\ rm \in Nat /\ bm \in Nat
  BY <1>2
<1>5. r <= rm /\ b <= bm
  <2>1. \A p, q \in Nat : p <= q => p * k <= q * k
    BY <1>2, ProductIsLess
  <2> QED
    BY <1>2, <2>1
<1> HIDE DEF x, y, r, b, xm, rm, bm
<1>6. /\ left <= x /\ top <= y /\ r <= right /\ b <= bottom
      /\ left \in Int /\ top \in Int /\ right \in Int /\ bottom \in Int
  <2>0. xm \in Int /\ x - offset \in Int /\ y - offset \in Int
    BY <1>3, <1>4
  <2> DEFINE xo == x - offset
             yo == y - offset
  <2>5. /\ Max({xm, xo}) = IF xm >= xo THEN xm ELSE xo
        /\ Max({xm, yo}) = IF xm >= yo THEN xm ELSE yo
    <3> HIDE DEF xo, yo
    <3>1. xo \in Int /\ yo \in Int
      BY <2>0 DEF xo, yo
    <3> QED
      BY <2>0, <3>1, MinMaxOfTwo
  <2>1. left = IF xm >= x - offset THEN xm ELSE x - offset
    BY <2>5
  <2>2. top = IF xm >= y - offset THEN xm ELSE y - offset
    BY <2>5
  <2>3. right = IF rm <= r + offset THEN rm ELSE r + offset
    BY <1>3, <1>4, MinMaxOfTwo
  <2>4. bottom = IF bm <= b + offset THEN bm ELSE b + offset
    BY <1>3, <1>4, MinMaxOfTwo
  <2> HIDE DEF left, top, right, bottom
  <2> QED
    BY <1>3, <1>4, <1>5, <2>1, <2>2, <2>3, <2>4
<1> HIDE DEF left, top, right, bottom
<1>7. RectContains(Rect(left, top, right - left, bottom - top), Rect(x, y, box.w * k, box.h * k))
  BY <1>4, <1>6 DEF RectContains, Rect
<1> QED
  BY <1>1, <1>7 DEF x, y

\* Neighbours are cells that touch and differ, so they make the same classes.
LEMMA NeighboursMakeTheClasses ==
  ASSUME NEW cells \in SUBSET Cell
  PROVE  LET Adjacent(a, b) == a # b /\ (a[1] - b[1]) \in -1 .. 1 /\ (a[2] - b[2]) \in -1 .. 1
         IN  Classes(cells, Adjacent) = Classes(cells, Touching)
<1> DEFINE Adjacent(a, b) == a # b /\ (a[1] - b[1]) \in -1 .. 1 /\ (a[2] - b[2]) \in -1 .. 1
           ApartN(one, other) == \A a \in one, b \in other : ~Adjacent(a, b)
<1>1. ASSUME NEW one \in SUBSET cells, NEW other \in SUBSET cells, one \cap other = {}
      PROVE  ApartN(one, other) <=> Apart(one, other)
  <2>1. \A a, b \in Cell : a # b => (Adjacent(a, b) <=> Touching(a, b))
    BY DEF Touching, Cell
  <2>2. \A a \in one, b \in other : a # b /\ a \in Cell /\ b \in Cell
    BY <1>1
  <2> HIDE DEF Adjacent
  <2> QED
    BY <2>1, <2>2 DEF Apart
<1>2. Classes(cells, Adjacent) =
        {class \in (SUBSET cells) \ {{}} :
           /\ ApartN(class, cells \ class)
           /\ \A part \in (SUBSET class) \ {{}, class} : ~ApartN(part, class \ part)}
  BY DEF Classes
<1>3. Classes(cells, Touching) =
        {class \in (SUBSET cells) \ {{}} :
           /\ Apart(class, cells \ class)
           /\ \A part \in (SUBSET class) \ {{}, class} : ~Apart(part, class \ part)}
  BY DEF Classes, Apart
<1> HIDE DEF ApartN, Adjacent
<1>4. ASSUME NEW class \in SUBSET cells
      PROVE  /\ ApartN(class, cells \ class) <=> Apart(class, cells \ class)
             /\ \A part \in (SUBSET class) \ {{}, class} :
                  ApartN(part, class \ part) <=> Apart(part, class \ part)
  <2>1. class \cap (cells \ class) = {} /\ cells \ class \in SUBSET cells
    OBVIOUS
  <2>2. ASSUME NEW part \in SUBSET class
        PROVE  part \in SUBSET cells /\ class \ part \in SUBSET cells /\ part \cap (class \ part) = {}
    OBVIOUS
  <2> QED
    BY <1>1, <2>1, <2>2
<1>5. Classes(cells, Adjacent) = Classes(cells, Touching)
  BY <1>2, <1>3, <1>4
<1> QED
  BY <1>5 DEF Adjacent

Bright(map, threshold) == {p \in DOMAIN map.pixels : map.pixels[p][1] >= threshold}

\* What the components of an image are, when it is not refused.
LEMMA ComponentsGiven ==
  ASSUME NEW map, NEW threshold, NEW budget, FindComponents(map, threshold, budget).status = "kOk"
  PROVE  LET bright == Bright(map, threshold)
             comps == ComponentsOf(bright)
             found == FindComponents(map, threshold, budget).value
         IN  /\ map.w \in Nat /\ map.h \in Nat
             /\ bright \in SUBSET Grid(map.w, map.h) /\ bright \in SUBSET (Nat \X Nat)
             /\ IsFiniteSet(bright)
             /\ DOMAIN found = DOMAIN comps
             /\ \A i \in DOMAIN comps : found[i].bounds = CellBounds(comps[i]) /\ found[i].count = Cardinality(comps[i])
<1> DEFINE bright == Bright(map, threshold)
           comps == ComponentsOf(bright)
           Brightness(p) == map.pixels[p][1]
           found == [i \in DOMAIN comps |->
                       [bounds |-> CellBounds(comps[i]), count |-> Cardinality(comps[i]),
                        sum |-> MapThenSumSet(Brightness, comps[i])]]
<1>1. ValidImage(map) /\ FindComponents(map, threshold, budget) = Ok(found)
  BY DEF FindComponents, Failed, Ok, Bright
<1>2. map.w \in Nat /\ map.h \in Nat /\ DOMAIN map.pixels = Grid(map.w, map.h)
  BY <1>1, MaxDimensionIsWhole DEF ValidImage
<1>3. bright \in SUBSET Grid(map.w, map.h)
  BY <1>2 DEF Bright
<1>4. Grid(map.w, map.h) \in SUBSET (Nat \X Nat) /\ IsFiniteSet(Grid(map.w, map.h))
  <2>1. IsFiniteSet(0 .. map.w - 1) /\ IsFiniteSet(0 .. map.h - 1)
    <3>1. map.w - 1 \in Int /\ map.h - 1 \in Int
      BY <1>2
    <3> QED
      BY <3>1, FS_Interval
  <2>2. IsFiniteSet(Grid(map.w, map.h))
    BY <2>1, FS_Product DEF Grid
  <2> QED
    BY <1>2, <2>2 DEF Grid
<1>5. bright \in SUBSET (Nat \X Nat) /\ IsFiniteSet(bright)
  BY <1>3, <1>4, FS_Subset
<1>6. FindComponents(map, threshold, budget).value = found
  BY <1>1 DEF Ok
<1>7. DOMAIN found = DOMAIN comps
      /\ \A i \in DOMAIN comps : found[i].bounds = CellBounds(comps[i]) /\ found[i].count = Cardinality(comps[i])
  OBVIOUS
<1> QED
  BY <1>2, <1>3, <1>5, <1>6, <1>7

\* The boxes that are recovered: those of the large components, each once.
LEMMA RecoveredBoxes ==
  ASSUME NEW map, NEW params, RecoverContourBoxes(map, params).status = "kOk"
  PROVE  LET comps == ComponentsOf(Bright(map, params.threshold))
             chosen == {i \in DOMAIN comps : Cardinality(comps[i]) >= params.min_pixels}
             boxes == RecoverContourBoxes(map, params).value
         IN  /\ FindComponents(map, params.threshold, params.budget).status = "kOk"
             /\ ToSet(boxes) = {CellBounds(comps[i]) : i \in chosen}
             /\ Len(boxes) = Cardinality(chosen) /\ DOMAIN boxes = 1 .. Len(boxes)
<1> DEFINE result == FindComponents(map, params.threshold, params.budget)
           found == result.value
           comps == ComponentsOf(Bright(map, params.threshold))
           boxes == RecoverContourBoxes(map, params).value
<1>1. result.status = "kOk" /\ RecoverContourBoxes(map, params) = PlainOf(found, params)
  <2>1. ValidBoxParams(params)
    BY DEF RecoverContourBoxes, Failed
  <2>2. RecoverContourBoxes(map, params) = IF result.status = "kOk" THEN PlainOf(found, params) ELSE result
    BY <2>1 DEF RecoverContourBoxes, Then, PlainOf
  <2> HIDE DEF result
  <2> QED
    BY <2>2
<1>2. /\ DOMAIN found = DOMAIN comps
      /\ \A i \in DOMAIN comps : found[i].bounds = CellBounds(comps[i]) /\ found[i].count = Cardinality(comps[i])
      /\ Bright(map, params.threshold) \in SUBSET (Nat \X Nat) /\ IsFiniteSet(Bright(map, params.threshold))
  BY <1>1, ComponentsGiven
<1> HIDE DEF result
<1>3. PICK n \in Nat : DOMAIN comps = 1 .. n
  <2>1. comps \in Seq(Classes(Bright(map, params.threshold), Touching))
    BY <1>2, ComponentsAreClasses
  <2> QED
    BY <2>1
<1> HIDE DEF comps
<1>4. LET chosen == {i \in 1 .. n : found[i].count >= params.min_pixels}
      IN  /\ ToSet(boxes) = {found[i].bounds : i \in chosen}
          /\ Len(boxes) = Cardinality(chosen) /\ DOMAIN boxes = 1 .. Len(boxes)
  <2>1. DOMAIN found = 1 .. n
    BY <1>2, <1>3
  <2>2. PlainOf(found, params).status = "kOk"
    BY <1>1
  <2> HIDE DEF found
  <2>3. LET chosen == {i \in 1 .. n : found[i].count >= params.min_pixels}
            taken == PlainOf(found, params).value
        IN  /\ ToSet(taken) = {found[i].bounds : i \in chosen}
            /\ Len(taken) = Cardinality(chosen) /\ DOMAIN taken = 1 .. Len(taken)
    BY <2>1, <2>2, PlainBoxes
  <2> QED
    BY <1>1, <2>3
<1> DEFINE chosen == {i \in DOMAIN comps : Cardinality(comps[i]) >= params.min_pixels}
<1>5. {i \in 1 .. n : found[i].count >= params.min_pixels} = chosen
  BY <1>2, <1>3
<1>6. {found[i].bounds : i \in chosen} = {CellBounds(comps[i]) : i \in chosen}
  BY <1>2
<1> HIDE DEF found, boxes, chosen
<1>7. /\ ToSet(boxes) = {found[i].bounds : i \in chosen}
      /\ Len(boxes) = Cardinality(chosen) /\ DOMAIN boxes = 1 .. Len(boxes)
  BY <1>4, <1>5
<1> QED
  BY <1>1, <1>6, <1>7 DEF comps, chosen, boxes, result

\* The boxes that grow: each one from a large component.
LEMMA GrownFromBoxes ==
  ASSUME NEW map, NEW params, DbPostprocessAabb(map, params).status = "kOk"
  PROVE  LET comps == ComponentsOf(Bright(map, params.threshold))
             whole == Rect(0, 0, map.w, map.h)
           boxes == DbPostprocessAabb(map, params).value
         IN  /\ ~(params.unclip[1] < 0)
             /\ FindComponents(map, params.threshold, params.budget).status = "kOk"
             /\ \A box \in ToSet(boxes) :
                  \E i \in DOMAIN comps :
                    /\ Cardinality(comps[i]) >= params.min_pixels
                    /\ box.bounds = UnclipAabb(CellBounds(comps[i]), params.unclip, Rect(0, 0, map.w, map.h))
<1> DEFINE result == FindComponents(map, params.threshold, params.budget)
           found == result.value
           comps == ComponentsOf(Bright(map, params.threshold))
           whole == Rect(0, 0, map.w, map.h)
           boxes == DbPostprocessAabb(map, params).value
<1>1. ~(params.unclip[1] < 0) /\ result.status = "kOk" /\ DbPostprocessAabb(map, params) = GrownOf(found, params, whole)
  <2>1. ValidBoxParams(params) /\ ~(params.unclip[1] < 0) /\ AtLeast(<<10, 1>>, params.unclip)
        /\ AtLeast(params.min_score, Zero) /\ AtLeast(One, params.min_score)
    BY DEF DbPostprocessAabb, Failed
  <2>2. DbPostprocessAabb(map, params) = IF result.status = "kOk" THEN GrownOf(found, params, whole) ELSE result
    BY <2>1 DEF DbPostprocessAabb, Then, GrownOf
  <2> HIDE DEF result, found, whole
  <2>5. ~(params.unclip[1] < 0)
    BY <2>1
  <2>6. result.status = "kOk"
    BY <2>2
  <2> QED
    BY <2>2, <2>5, <2>6
<1>2. /\ DOMAIN found = DOMAIN comps
      /\ \A i \in DOMAIN comps : found[i].bounds = CellBounds(comps[i]) /\ found[i].count = Cardinality(comps[i])
      /\ Bright(map, params.threshold) \in SUBSET (Nat \X Nat) /\ IsFiniteSet(Bright(map, params.threshold))
  BY <1>1, ComponentsGiven
<1> HIDE DEF result, whole
<1>3. PICK n \in Nat : DOMAIN comps = 1 .. n
  <2>1. comps \in Seq(Classes(Bright(map, params.threshold), Touching))
    BY <1>2, ComponentsAreClasses
  <2> QED
    BY <2>1
<1> HIDE DEF comps
<1>4. \A taken \in ToSet(boxes) :
        \E i \in 1 .. n : Scored(params, found[i]) /\ taken = Grown(params, whole, found[i])
  <2>1. DOMAIN found = 1 .. n
    BY <1>2, <1>3
  <2>2. GrownOf(found, params, whole).status = "kOk"
    BY <1>1
  <2> HIDE DEF found
  <2>3. \A taken \in ToSet(GrownOf(found, params, whole).value) :
          \E i \in 1 .. n : Scored(params, found[i]) /\ taken = Grown(params, whole, found[i])
    BY <2>1, <2>2, GrownBoxes
  <2> QED
    BY <1>1, <2>3
<1> HIDE DEF boxes, found
<1>5. ASSUME NEW box \in ToSet(boxes)
      PROVE  \E i \in DOMAIN comps :
               /\ Cardinality(comps[i]) >= params.min_pixels
               /\ box.bounds = UnclipAabb(CellBounds(comps[i]), params.unclip, whole)
  <2>1. PICK i \in 1 .. n : Scored(params, found[i]) /\ box = Grown(params, whole, found[i])
    BY <1>4
  <2>2. found[i].bounds = CellBounds(comps[i]) /\ found[i].count = Cardinality(comps[i]) /\ i \in DOMAIN comps
    BY <1>2, <1>3
  <2>3. found[i].count >= params.min_pixels
    BY <2>1 DEF Scored
  <2>4. box.bounds = UnclipAabb(found[i].bounds, params.unclip, whole)
    BY <2>1 DEF Grown
  <2> QED
    BY <2>2, <2>3, <2>4
<1> QED
  BY <1>1, <1>5 DEF comps, boxes, result, whole

Large(map, params) ==
  {class \in Classes(Bright(map, params.threshold), Touching) : Cardinality(class) >= params.min_pixels}

\* The boxes recovered are the bounds of the large classes of bright cells.
LEMMA RecoveredAreComponents ==
  ASSUME NEW map, NEW params, RecoverContourBoxes(map, params).status = "kOk"
  PROVE  LET boxes == RecoverContourBoxes(map, params).value
         IN  /\ ToSet(boxes) = {CellBounds(class) : class \in Large(map, params)}
             /\ Len(boxes) = Cardinality(Large(map, params)) /\ DOMAIN boxes = 1 .. Len(boxes)
<1> DEFINE bright == Bright(map, params.threshold)
           comps == ComponentsOf(bright)
           classes == Classes(bright, Touching)
           chosen == {i \in DOMAIN comps : Cardinality(comps[i]) >= params.min_pixels}
           boxes == RecoverContourBoxes(map, params).value
           least == params.min_pixels
<1>1. /\ FindComponents(map, params.threshold, params.budget).status = "kOk"
      /\ ToSet(boxes) = {CellBounds(comps[i]) : i \in chosen}
      /\ Len(boxes) = Cardinality(chosen) /\ DOMAIN boxes = 1 .. Len(boxes)
  BY RecoveredBoxes
<1>2. bright \in SUBSET (Nat \X Nat) /\ IsFiniteSet(bright)
  BY <1>1, ComponentsGiven
<1>3. /\ comps \in Seq(classes) /\ ToSet(comps) = classes
      /\ \A i, j \in DOMAIN comps : comps[i] = comps[j] => i = j
  BY <1>2, ComponentsAreClasses
<1> HIDE DEF bright, comps
<1>4. PICK n \in Nat : DOMAIN comps = 1 .. n
  BY <1>3
<1>5. classes = {comps[i] : i \in DOMAIN comps}
  BY <1>3 DEF ToSet
<1>6. Large(map, params) = {class \in classes : Cardinality(class) >= least}
  BY DEF Large, bright
<1>9. chosen = {i \in DOMAIN comps : Cardinality(comps[i]) >= least}
  OBVIOUS
<1> HIDE DEF chosen, classes, least
<1>7. Large(map, params) = {comps[i] : i \in chosen}
  BY <1>5, <1>6, <1>9
<1>8. Cardinality(chosen) = Cardinality({comps[i] : i \in chosen})
  <2>1. chosen \in SUBSET (1 .. n) /\ \A i, j \in chosen : comps[i] = comps[j] => i = j
    BY <1>3, <1>4, <1>9
  <2> DEFINE T == {comps[i] : i \in chosen}
  <2>2. (\A i \in chosen : comps[i] \in T) /\ \A t \in T : \E i \in chosen : comps[i] = t
    OBVIOUS
  <2> HIDE DEF T
  <2>4. HoldEachOnce(n, comps, chosen, T)
    BY <2>1, <2>2 DEF HoldEachOnce
  <2>3. Cardinality(chosen) = Cardinality(T)
    BY <2>4, AsManyPlaces
  <2> QED
    BY <2>3 DEF T
<1>10. {CellBounds(comps[i]) : i \in chosen} = {CellBounds(class) : class \in {comps[i] : i \in chosen}}
  OBVIOUS
<1> HIDE DEF boxes
<1>11. ToSet(boxes) = {CellBounds(class) : class \in Large(map, params)}
  BY <1>1, <1>7, <1>10
<1>12. Len(boxes) = Cardinality(Large(map, params))
  BY <1>1, <1>7, <1>8
<1> QED
  BY <1>1, <1>11, <1>12 DEF boxes

\* A grown box holds the bounds of a large class.
LEMMA GrownHoldComponents ==
  ASSUME NEW map, NEW params, NEW ratio \in Int \X (Nat \ {0}), params.unclip = ratio,
         DbPostprocessAabb(map, params).status = "kOk"
  PROVE  \A box \in ToSet(DbPostprocessAabb(map, params).value) :
           \E class \in Large(map, params) :
             LET plain == CellBounds(class)
                 grown == box.bounds
             IN  RectContains(grown.bounds,
                   Rect(plain.x * grown.scale, plain.y * grown.scale, plain.w * grown.scale, plain.h * grown.scale))
<1> DEFINE bright == Bright(map, params.threshold)
           comps == ComponentsOf(bright)
           classes == Classes(bright, Touching)
           boxes == DbPostprocessAabb(map, params).value
<1>1. /\ ~(params.unclip[1] < 0)
      /\ FindComponents(map, params.threshold, params.budget).status = "kOk"
      /\ \A box \in ToSet(boxes) :
           \E i \in DOMAIN comps :
             /\ Cardinality(comps[i]) >= params.min_pixels
             /\ box.bounds = UnclipAabb(CellBounds(comps[i]), params.unclip, Rect(0, 0, map.w, map.h))
  BY GrownFromBoxes
<1>2. /\ bright \in SUBSET (Nat \X Nat) /\ IsFiniteSet(bright)
      /\ map.w \in Nat /\ map.h \in Nat /\ bright \in SUBSET Grid(map.w, map.h)
  BY <1>1, ComponentsGiven
<1>3. comps \in Seq(classes) /\ ToSet(comps) = classes
  BY <1>2, ComponentsAreClasses
<1>r. ratio[1] >= 0
  BY <1>1
<1> HIDE DEF boxes
<1>4. ASSUME NEW box \in ToSet(boxes)
      PROVE  \E class \in Large(map, params) :
               LET plain == CellBounds(class)
                   grown == box.bounds
               IN  RectContains(grown.bounds,
                     Rect(plain.x * grown.scale, plain.y * grown.scale,
                          plain.w * grown.scale, plain.h * grown.scale))
  <2>1. PICK i \in DOMAIN comps :
               /\ Cardinality(comps[i]) >= params.min_pixels
               /\ box.bounds = UnclipAabb(CellBounds(comps[i]), ratio, Rect(0, 0, map.w, map.h))
    BY <1>1
  <2> DEFINE class == comps[i]
  <2> HIDE DEF comps
  <2>2. class \in classes
    BY <1>3 DEF ToSet
  <2>3. class \in Large(map, params)
    BY <2>1, <2>2 DEF Large
  <2>4. class \in SUBSET Grid(map.w, map.h) /\ class # {}
    BY <1>2, <2>2 DEF Classes
  <2> DEFINE plain == CellBounds(class)
  <2>5. /\ plain.x \in Nat /\ plain.y \in Nat /\ plain.w \in Nat /\ plain.h \in Nat
        /\ plain.w > 0 /\ plain.h > 0 /\ plain.x + plain.w <= map.w /\ plain.y + plain.h <= map.h
    BY <1>2, <2>4, BoundsLieInside
  <2> HIDE DEF class, plain
  <2>6. LET grown == UnclipAabb(plain, ratio, Rect(0, 0, map.w, map.h))
            k == grown.scale
        IN  RectContains(grown.bounds, Rect(plain.x * k, plain.y * k, plain.w * k, plain.h * k))
    BY <1>2, <1>r, <2>5, GrowingKeeps
  <2>7. box.bounds = UnclipAabb(plain, ratio, Rect(0, 0, map.w, map.h))
    BY <2>1 DEF plain, class
  <2> QED
    BY <2>3, <2>6, <2>7 DEF plain
<1> QED
  BY <1>4 DEF boxes

LEMMA FindingBoxes ==
  ASSUME FindBoxes, job' = job, job.params \in BoxParameters
  PROVE  BoxesAreComponents'
<1> DEFINE recovered == RecoverContourBoxes(job.map, job.params)
           unclipped == DbPostprocessAabb(job.map, job.params)
           Adjacent(a, b) == a # b /\ (a[1] - b[1]) \in -1 .. 1 /\ (a[2] - b[2]) \in -1 .. 1
           bright == {p \in DOMAIN job.map.pixels : job.map.pixels[p][1] >= job.params.threshold}
           large == {class \in Classes(bright, Adjacent) : Cardinality(class) >= job.params.min_pixels}
           boxes == recovered.value
           Scaled(box, k) == Rect(box.x * k, box.y * k, box.w * k, box.h * k)
           TheBoxes == ToSet(boxes) = {CellBounds(class) : class \in large} /\ Len(boxes) = Cardinality(large)
           TheGrown == \A i \in DOMAIN unclipped.value :
                         LET grown == unclipped.value[i].bounds
                         IN  \E j \in DOMAIN boxes : RectContains(grown.bounds, Scaled(boxes[j], grown.scale))
<1>1. answer' = [recovered |-> recovered, unclipped |-> unclipped]
  BY DEF FindBoxes
<1>2. answer'.recovered = recovered /\ answer'.unclipped = unclipped
  BY <1>1
<1>3. SUFFICES ASSUME recovered.status = "kOk" PROVE TheBoxes /\ (unclipped.status = "kOk" => TheGrown)
  BY <1>2 DEF BoxesAreComponents, Classes
<1>4. /\ ToSet(boxes) = {CellBounds(class) : class \in Large(job.map, job.params)}
      /\ Len(boxes) = Cardinality(Large(job.map, job.params)) /\ DOMAIN boxes = 1 .. Len(boxes)
  BY <1>3, RecoveredAreComponents
<1>5. large = Large(job.map, job.params)
  <2>1. bright = Bright(job.map, job.params.threshold)
    BY DEF Bright
  <2>2. bright \in SUBSET Cell
    <3>1. FindComponents(job.map, job.params.threshold, job.params.budget).status = "kOk"
      BY <1>3, RecoveredBoxes
    <3>2. Bright(job.map, job.params.threshold) \in SUBSET (Nat \X Nat)
      BY <3>1, ComponentsGiven
    <3> QED
      BY <2>1, <3>2 DEF Cell
  <2>3. Classes(bright, Adjacent) = Classes(bright, Touching)
    <3> HIDE DEF bright
    <3> QED
      BY <2>2, NeighboursMakeTheClasses
  <2> QED
    BY <2>1, <2>3 DEF Large
<1>6. TheBoxes
  BY <1>4, <1>5
<1>7. ASSUME unclipped.status = "kOk" PROVE TheGrown
  <2>1. PICK ratio \in Int \X (Nat \ {0}) : job.params.unclip = ratio
    BY DEF BoxParameters
  <2>2. \A box \in ToSet(unclipped.value) :
           \E class \in Large(job.map, job.params) :
             LET plain == CellBounds(class)
                 grown == box.bounds
             IN  RectContains(grown.bounds,
                   Rect(plain.x * grown.scale, plain.y * grown.scale, plain.w * grown.scale, plain.h * grown.scale))
    BY <1>7, <2>1, GrownHoldComponents
  <2> SUFFICES ASSUME NEW i \in DOMAIN unclipped.value
               PROVE  LET grown == unclipped.value[i].bounds
                      IN  \E j \in DOMAIN boxes : RectContains(grown.bounds, Scaled(boxes[j], grown.scale))
    OBVIOUS
  <2> DEFINE grown == unclipped.value[i].bounds
  <2>3. unclipped.value[i] \in ToSet(unclipped.value)
    BY DEF ToSet
  <2>4. PICK class \in Large(job.map, job.params) :
           RectContains(grown.bounds, Scaled(CellBounds(class), grown.scale))
    BY <2>2, <2>3
  <2>5. CellBounds(class) \in ToSet(boxes)
    BY <1>4
  <2>6. PICK j \in DOMAIN boxes : boxes[j] = CellBounds(class)
    <3> HIDE DEF boxes
    <3> QED
      BY <2>5 DEF ToSet
  <2> HIDE DEF boxes, Scaled, grown, unclipped
  <2>7. RectContains(grown.bounds, Scaled(boxes[j], grown.scale))
    BY <2>4, <2>6
  <2>8. \E l \in DOMAIN boxes : RectContains(grown.bounds, Scaled(boxes[l], grown.scale))
    BY <2>7
  <2> QED
    BY <2>8 DEF grown
<1> QED
  BY <1>6, <1>7

-----------------------------------------------------------------------------
(* One job, one answer *)

\* The kind of the job decides which algorithm works it out.
LEMMA KindDecides ==
  ASSUME Evaluate
  PROVE  /\ job.kind = "suppress" => Suppress
         /\ job.kind = "lookup" => LookUp
         /\ job.kind = "marks" => DrawMarks
         /\ job.kind = "grid" => DivideIntoCells
         /\ job.kind = "fuse" => Fuse
         /\ job.kind = "boxes" => FindBoxes
         /\ job.kind = "relate" => Relate
         /\ job.kind = "lines" => MergeLines
         /\ job.kind = "reorient" => Reorient
<1>1. Fuse => job.kind = "fuse"
  BY DEF Fuse
<1>2. FindBoxes => job.kind = "boxes"
  BY DEF FindBoxes
<1>3. MergeLines => job.kind = "lines"
  BY DEF MergeLines
<1>4. Suppress => job.kind = "suppress"
  BY DEF Suppress
<1>5. LookUp => job.kind = "lookup"
  BY DEF LookUp
<1>6. CompareImages => job.kind = "compare"
  BY DEF CompareImages
<1>7. Pad => job.kind = "pad"
  BY DEF Pad
<1>8. Reorient => job.kind = "reorient"
  BY DEF Reorient
<1>9. Refine => job.kind = "refine"
  BY DEF Refine
<1>10. EstimateShift => job.kind = "shift"
  BY DEF EstimateShift
<1>11. DivideIntoCells => job.kind = "grid"
  BY DEF DivideIntoCells
<1>12. DrawMarks => job.kind = "marks"
  BY DEF DrawMarks
<1>13. MergeSegments => job.kind = "merge"
  BY DEF MergeSegments
<1>14. Propose => job.kind = "propose"
  BY DEF Propose
<1>15. Relate => job.kind = "relate"
  BY DEF Relate
<1>16. React => job.kind = "react"
  BY DEF React
<1>17. Verify => job.kind = "verify"
  BY DEF Verify
<1> QED
  BY <1>1, <1>2, <1>3, <1>4, <1>5, <1>6, <1>7, <1>8, <1>9, <1>10, <1>11, <1>12, <1>13, <1>14, <1>15, <1>16,
     <1>17 DEF Evaluate

\* Where several candidates compete, the strongest stay.  Suppression keeps
\* regions that do not conflict, and each one it drops lost to a stronger one
\* that it kept or to a full output (nms and filter_detections in
\* detection_postprocess.cpp); a query of the visual index answers with the
\* best entries, the last to be evicted (visual_index.cpp); and the labels of
\* marks stay apart, a box without one had no free place (set_of_mark.cpp).
THEOREM TheBestStay == Spec => []KeptAreTheBest
<1> DEFINE Inv == job \in Jobs /\ KeptAreTheBest
<1>1. Init => Inv
  BY DEF Init, KeptAreTheBest, SuppressionKeepsTheBest, QueriesAnswerTheBest, LabelsStayApart, Answered
<1>2. Inv /\ [Next]_vars => Inv'
  <2> SUFFICES ASSUME Inv, [Next]_vars PROVE Inv'
    OBVIOUS
  <2>1. CASE UNCHANGED vars
    BY <2>1 DEF vars, KeptAreTheBest, SuppressionKeepsTheBest, QueriesAnswerTheBest, LabelsStayApart, Answered
  <2>2. CASE Next
    <3>1. Evaluate /\ job' = job /\ job \in Jobs
      BY <2>2 DEF Next
    <3>2. SuppressionKeepsTheBest'
      <4>1. CASE job.kind = "suppress"
        <5>1. job \in SuppressJob
          BY <3>1, <4>1, JobsAreTyped
        <5>2. Suppress
          BY <3>1, <4>1, KindDecides
        <5> QED
          BY <3>1, <5>1, <5>2, SuppressionStep
      <4>2. CASE job.kind # "suppress"
        BY <3>1, <4>2 DEF SuppressionKeepsTheBest, Answered
      <4> QED
        BY <4>1, <4>2
    <3>3. QueriesAnswerTheBest'
      <4>1. CASE job.kind = "lookup"
        <5>1. job \in LookUpJob
          BY <3>1, <4>1, JobsAreTyped
        <5>2. LookUp
          BY <3>1, <4>1, KindDecides
        <5> QED
          BY <3>1, <5>1, <5>2, LookUpStep
      <4>2. CASE job.kind # "lookup"
        BY <3>1, <4>2 DEF QueriesAnswerTheBest, Answered
      <4> QED
        BY <4>1, <4>2
    <3>4. LabelsStayApart'
      <4>1. CASE job.kind = "marks"
        <5>1. job.regions \in Seq(RectRecord) /\ job.options \in RenderOptions
          BY <3>1, <4>1, JobsAreTyped
        <5>2. DrawMarks
          BY <3>1, <4>1, KindDecides
        <5> QED
          BY <3>1, <5>1, <5>2, DrawingAnswers
      <4>2. CASE job.kind # "marks"
        BY <3>1, <4>2 DEF LabelsStayApart, Answered
      <4> QED
        BY <4>1, <4>2
    <3> QED
      BY <3>1, <3>2, <3>3, <3>4 DEF KeptAreTheBest
  <2> QED
    BY <2>1, <2>2
<1>3. Inv => KeptAreTheBest
  OBVIOUS
<1> QED
  BY <1>1, <1>2, <1>3, PTL DEF Spec

\* Every pixel of a divided image is in exactly one cell of the grid, the one that
\* it is located in, and comes back from its place in that cell; a point beyond
\* the image is refused (render/grid_partition.cpp).
THEOREM CellsTileTheImage == Spec => []CellsTile
<1> DEFINE Inv == job \in Jobs /\ CellsTile
<1>1. Init => Inv
  BY DEF Init, CellsTile, Answered
<1>2. Inv /\ [Next]_vars => Inv'
  <2> SUFFICES ASSUME Inv, [Next]_vars PROVE Inv'
    OBVIOUS
  <2>1. CASE UNCHANGED vars
    BY <2>1 DEF vars, CellsTile, Answered
  <2>2. CASE Next
    <3>1. Evaluate /\ job' = job /\ job \in Jobs
      BY <2>2 DEF Next
    <3>2. CASE job.kind = "grid"
      <4>1. job \in GridJob
        BY <3>1, <3>2, JobsAreTyped
      <4>2. DivideIntoCells
        BY <3>1, <3>2, KindDecides
      <4> QED
        BY <3>1, <4>1, <4>2, DividingTiles
    <3>3. CASE job.kind # "grid"
      BY <3>1, <3>3 DEF CellsTile, Answered
    <3> QED
      BY <3>2, <3>3
  <2> QED
    BY <2>1, <2>2
<1>3. Inv => CellsTile
  OBVIOUS
<1> QED
  BY <1>1, <1>2, <1>3, PTL DEF Spec

\* A chain of a turn, mirrors and a cut is accepted for every image, its inverse
\* takes the corners of the view back to those of the image, which go onto the
\* view, and a chain whose spaces do not meet is refused (core/transform.cpp).
THEOREM ViewsComeBack == Spec => []ViewsAreUndone
<1> DEFINE Inv == job \in Jobs /\ ViewsAreUndone
<1>1. Init => Inv
  BY DEF Init, ViewsAreUndone, Answered
<1>2. Inv /\ [Next]_vars => Inv'
  <2> SUFFICES ASSUME Inv, [Next]_vars PROVE Inv'
    OBVIOUS
  <2>1. CASE UNCHANGED vars
    BY <2>1 DEF vars, ViewsAreUndone, Answered
  <2>2. CASE Next
    <3>1. Evaluate /\ job' = job /\ job \in Jobs
      BY <2>2 DEF Next
    <3>2. CASE job.kind = "reorient"
      <4>1. job \in ReorientJob
        BY <3>1, <3>2, JobsAreTyped
      <4>2. Reorient
        BY <3>1, <3>2, KindDecides
      <4> QED
        BY <3>1, <4>1, <4>2, ReorientingIsUndone
    <3>3. CASE job.kind # "reorient"
      BY <3>1, <3>3 DEF ViewsAreUndone, Answered
    <3> QED
      BY <3>2, <3>3
  <2> QED
    BY <2>1, <2>2
<1>3. Inv => ViewsAreUndone
  OBVIOUS
<1> QED
  BY <1>1, <1>2, <1>3, PTL DEF Spec

\* The boxes of text are the bounds of the connected components of bright pixels
\* that are large enough, each of them once, and a box that grows holds one of
\* them (connected_components.cpp, text_postprocess.cpp): the pixels that a
\* component collects are all that can be reached, and no two components meet.
THEOREM BoxesAreTheComponents == Spec => []BoxesAreComponents
<1> DEFINE Inv == job \in Jobs /\ BoxesAreComponents
<1>1. Init => Inv
  BY DEF Init, BoxesAreComponents, Answered
<1>2. Inv /\ [Next]_vars => Inv'
  <2> SUFFICES ASSUME Inv, [Next]_vars PROVE Inv'
    OBVIOUS
  <2>1. CASE UNCHANGED vars
    BY <2>1 DEF vars, BoxesAreComponents, Answered, Classes
  <2>2. CASE Next
    <3>1. Evaluate /\ job' = job /\ job \in Jobs
      BY <2>2 DEF Next
    <3>2. CASE job.kind = "boxes"
      <4>1. job.params \in BoxParameters
        BY <3>1, <3>2, JobsAreTyped
      <4>2. FindBoxes
        BY <3>1, <3>2, KindDecides
      <4> QED
        BY <3>1, <4>1, <4>2, FindingBoxes
    <3>3. CASE job.kind # "boxes"
      BY <3>1, <3>3 DEF BoxesAreComponents, Answered, Classes
    <3> QED
      BY <3>2, <3>3
  <2> QED
    BY <2>1, <2>2
<1>3. Inv => BoxesAreComponents
  OBVIOUS
<1> QED
  BY <1>1, <1>2, <1>3, PTL DEF Spec
=============================================================================
