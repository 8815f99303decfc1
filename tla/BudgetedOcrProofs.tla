-------------------------- MODULE BudgetedOcrProofs --------------------------
(***************************************************************************)
(* Proofs about BudgetedOcr for every value of its constants.              *)
(***************************************************************************)
EXTENDS BudgetedOcr, CommonProofs, SequenceTheorems, TLAPS

-----------------------------------------------------------------------------
(* Where a timeout may come from *)

\* Only its context makes the preparation of a line time out.
LEMMA RecInputDoesNotTimeOut ==
  ASSUME NEW image, NEW bounds, NEW height, NEW width, NEW budget, NEW context,
         context # "kTimeout"
  PROVE  RecInput(image, bounds, height, width, budget, context).status # "kTimeout"
<1>1. \A line : Preprocessed(line, context).status # "kTimeout"
  BY DEF Preprocessed, PackImage, NormalizePpOcr, CancelledOnly, Then, Ok, Failed
<1>2. \A line, w, h : ResizeArea(line, w, h, budget).status # "kTimeout"
  BY DEF ResizeArea, Buffer, Then, Ok, Failed
<1>3. \A roi : Crop(image, roi, budget).status # "kTimeout"
  BY DEF Crop, Buffer, Then, Ok, Failed
<1> QED
  BY <1>1, <1>2, <1>3 DEF RecInput, Then

\* Neither does the decoding of a reading.
LEMMA DecodeLineDoesNotTimeOut ==
  ASSUME NEW steps, NEW charset
  PROVE  DecodeLine(steps, charset).status # "kTimeout"
BY DEF DecodeLine, CtcDecodeGreedy, Then, Ok, Failed

-----------------------------------------------------------------------------
(* The invariant: from the guard to its end a unit keeps its distance from *)
(* the deadline                                                            *)

UnitStays ==
  InUnit =>
    /\ unit_began \in Int
    /\ now - unit_began <= call.longest_unit
    /\ \A d \in call.deadline : unit_began + UnitUpperBound + Reserve <= d

Inv ==
  /\ call \in Calls /\ now \in Int
  /\ stage # "returned" => outcome.status = "kPending"
  /\ UnitStays

LEMMA CallTypes ==
  ASSUME call \in Calls
  PROVE  call.deadline \subseteq Int /\ call.longest_unit \in Nat /\ Reserve \in Nat
<1> DEFINE reserves == call.request.finalize_reserve
<1>1. \A reserve \in Nat : Max({reserve}) = reserve
  BY DEF Max
<1>2. reserves = {} \/ \E reserve \in Nat : reserves = {reserve}
  <2>1. reserves \subseteq Nat /\ \A r, s \in reserves : r = s
    BY CallsAreTimed
  <2> HIDE DEF reserves
  <2>2. CASE reserves = {}
    BY <2>2
  <2>3. ASSUME NEW r \in reserves PROVE reserves = {r} /\ r \in Nat
    BY <2>1, <2>3
  <2> QED
    BY <2>2, <2>3
<1>3. Reserve \in Nat
  BY <1>1, <1>2 DEF Reserve, request
<1> QED
  BY <1>3, CallsAreTimed

LEMMA UnitBoundType == UnitUpperBound \in Nat
BY BackendIsCreated, Zenon DEF AcceptedOptions

LEMMA InitIsInv == Init => Inv
BY DEF Init, Inv, UnitStays, InUnit, Failed

\* Only Guard, Tick and the end of a unit concern the invariant.
LEMMA NextKeepsInv == Inv /\ [Next]_vars => Inv'
<1> SUFFICES ASSUME Inv, [Next]_vars PROVE Inv'
  OBVIOUS
<1>a. call \in Calls /\ now \in Int
  BY DEF Inv
<1> USE DEF Inv, UnitStays, InUnit
<1>0. call \in Calls /\ now \in Int /\ call.deadline \subseteq Int /\ call.longest_unit \in Nat
      /\ Reserve \in Nat /\ UnitUpperBound \in Nat
  <2>1. call.deadline \subseteq Int /\ call.longest_unit \in Nat /\ Reserve \in Nat
    BY <1>a, CallTypes
  <2>2. UnitUpperBound \in Nat
    BY UnitBoundType
  <2> QED
    BY <1>a, <2>1, <2>2
<1>1. CASE UNCHANGED vars
  BY <1>1 DEF vars, Reserve, request
<1>2. CASE Cancel
  BY <1>2 DEF Cancel, Reserve, request
<1>3. CASE Tick
  BY <1>0, <1>3 DEF Tick, Reserve, request
<1>4. CASE Prepare
  BY <1>4 DEF Prepare, Return, Proceed
<1>5. CASE Enter
  BY <1>5 DEF Enter, Return, Proceed
<1>6. CASE BeginDetection
  BY <1>6 DEF BeginDetection, Return, Proceed
<1>7. CASE \E sighting \in Sightings : EndDetection(sighting)
  BY <1>7 DEF EndDetection, Return, Proceed
<1>8. CASE Poll
  BY <1>8 DEF Poll, Return, Proceed
<1>9. CASE Guard
  <2>1. CASE SoftBudgetSpent \/ NoRoomForUnit
    BY <1>9, <2>1 DEF Guard, Proceed
  <2>2. CASE ~(SoftBudgetSpent \/ NoRoomForUnit)
    <3>1. \A d \in call.deadline : now + UnitUpperBound + Reserve <= d
      BY <1>0, <2>2 DEF NoRoomForUnit
    <3>2. call' = call /\ now' = now /\ unit_began' = now /\ Reserve' = Reserve /\ stage' = "unit"
          /\ outcome' = outcome /\ stage = "guard"
      BY <1>9, <2>2 DEF Guard, Proceed, Reserve, request
    <3> QED
      BY <1>0, <3>1, <3>2
  <2> QED
    BY <2>1, <2>2
<1>10. CASE BeginUnit
  BY <1>10 DEF BeginUnit, Return, Proceed, Reserve, request
<1>11. CASE \E reading \in Readings : EndUnit(reading)
  BY <1>11 DEF EndUnit, Return, Proceed
<1>12. CASE Finalize
  BY <1>12 DEF Finalize, Return
<1> QED
  BY <1>1, <1>2, <1>3, <1>4, <1>5, <1>6, <1>7, <1>8, <1>9, <1>10, <1>11, <1>12 DEF Next

LEMMA Invariant == Spec => []Inv
BY InitIsInv, NextKeepsInv, PTL DEF Spec

-----------------------------------------------------------------------------
(* The theorem *)

\* While a unit runs that keeps its bound, the reserve is left and the context
\* has not timed out.
LEMMA RoomInUnit ==
  ASSUME Inv, InUnit, call.longest_unit <= UnitUpperBound
  PROVE  /\ \A d \in call.deadline : now + Reserve <= d
         /\ ContextStatus # "kTimeout"
<1>1. now \in Int /\ unit_began \in Int /\ call.deadline \subseteq Int /\ call.longest_unit \in Nat
      /\ Reserve \in Nat /\ UnitUpperBound \in Nat
  <2>1. call \in Calls /\ now \in Int
    BY DEF Inv
  <2>2. unit_began \in Int
    BY DEF Inv, UnitStays
  <2>3. UnitUpperBound \in Nat
    BY UnitBoundType
  <2> QED
    BY <2>1, <2>2, <2>3, CallTypes
<1>2. \A d \in call.deadline : now + Reserve <= d
  BY <1>1 DEF Inv, UnitStays
<1>3. ~DeadlineReached
  BY <1>1, <1>2 DEF DeadlineReached
<1> QED
  BY <1>2, <1>3 DEF ContextStatus

\* A step that leaves a unit leaves the reserve, and no call times out there.
LEMMA UnitEndsInTime ==
  ASSUME Inv, [Next]_vars
  PROVE  InUnit /\ stage' \notin {"unit", "forward"} /\ call.longest_unit <= UnitUpperBound =>
           /\ \A d \in call.deadline : now + Reserve <= d
           /\ outcome'.status # "kTimeout"
<1> SUFFICES ASSUME InUnit, stage' \notin {"unit", "forward"}, call.longest_unit <= UnitUpperBound
             PROVE  outcome'.status # "kTimeout"
  BY RoomInUnit
<1>1. ContextStatus # "kTimeout"
  BY RoomInUnit
<1>2. CASE BeginUnit
  <2> DEFINE input == RecInput(prepared_image, lines[Current].bounds, RecHeight, RecWidth, WorkBytes, ContextStatus)
             failure == FirstFailure(<<input.status, ContextStatus>>)
  <2>1. input.status # "kTimeout"
    BY <1>1, RecInputDoesNotTimeOut
  <2>2. failure # "kTimeout"
    BY <1>1, <2>1, FirstFailureIsOne
  <2>3. failure # "kOk" /\ outcome' = Failed(failure)
    BY <1>2 DEF BeginUnit, Return, Proceed
  <2> QED
    BY <2>2, <2>3 DEF Failed
<1>3. ASSUME NEW reading \in Readings, EndUnit(reading)
      PROVE  outcome'.status # "kTimeout"
  <2> DEFINE decoded == Then(reading, LAMBDA steps : DecodeLine(steps, Charset))
             failure == FirstFailure(<<reading.status, ContextStatus, decoded.status>>)
  <2>1. reading.status # "kTimeout"
    BY ReadingsDoNotTimeOut
  <2>2. decoded.status # "kTimeout"
    BY <2>1, DecodeLineDoesNotTimeOut DEF Then
  <2>3. failure # "kTimeout"
    <3> HIDE DEF decoded
    <3>1. failure \in {"kOk", reading.status, ContextStatus, decoded.status}
      BY FirstFailureIsOne
    <3> QED
      BY <1>1, <2>1, <2>2, <3>1
  <2>4. outcome' = Failed(failure) \/ outcome' = outcome
    BY <1>3 DEF EndUnit, Return, Proceed
  <2>5. outcome.status = "kPending"
    BY DEF Inv, InUnit
  <2> QED
    BY <2>3, <2>4, <2>5 DEF Failed
<1>4. BeginUnit \/ \E reading \in Readings : EndUnit(reading)
  BY DEF Next, vars, InUnit, Cancel, Tick, Prepare, Enter, BeginDetection, EndDetection, Poll, Guard, Finalize
<1> QED
  BY <1>2, <1>3, <1>4

\* The guard of the recognition loop leaves room for a unit and for the
\* reserve, whatever the clock, the caller and the models do.
THEOREM UnitsKeepTheReserve == Spec => UnitsLeaveTheReserve
<1>1. Inv /\ [Next]_vars =>
        [InUnit /\ stage' \notin {"unit", "forward"} /\ call.longest_unit <= UnitUpperBound =>
           /\ \A d \in call.deadline : now + Reserve <= d
           /\ outcome'.status # "kTimeout"]_vars
  BY UnitEndsInTime
<1> QED
  BY <1>1, Invariant, PTL DEF Spec, UnitsLeaveTheReserve

-----------------------------------------------------------------------------
(* The books of the recognition loop *)

\* The record of a line.
LineOf(id, bounds, score, state, text, confidence, order) ==
  [candidate_id |-> id, bounds |-> bounds, det_confidence |-> score, state |-> state, text |-> text,
   rec_confidence |-> confidence, execution_order |-> order]

\* A line has all the fields of a record, whatever they hold.
Shaped(line) ==
  line = LineOf(line.candidate_id, line.bounds, line.det_confidence, line.state, line.text,
                line.rec_confidence, line.execution_order)

\* What a unit writes into the record of a line.
Recognize(line, text, order) ==
  [line EXCEPT !.state = "kRecognized", !.text = text, !.rec_confidence = {1}, !.execution_order = order]

\* A line that was recognized as the one after `order' others.
RecognizedAs(line, order) ==
  line.state = "kRecognized" /\ line.rec_confidence # {} /\ line.execution_order = order

\* A line that is left for later.
LeftForLater(line) ==
  line.state = "kDeferred" /\ line.text = <<>> /\ line.rec_confidence = {} /\ line.execution_order = -1

\* The candidates are numbered as they stand, and those that come first in the
\* execution order are recognized, each with its place in it.
LinesKept ==
  /\ Len(lines) \in Nat /\ DOMAIN lines = 1 .. Len(lines)
  /\ \A i \in DOMAIN lines : Shaped(lines[i]) /\ lines[i].candidate_id = i - 1
  /\ \A k \in DOMAIN lines : /\ k <= executed => RecognizedAs(lines[ExecutionOrder[k]], k - 1)
                             /\ k > executed => LeftForLater(lines[ExecutionOrder[k]])

\* The loop recognizes what was selected, and stops early for its budget only.
LoopKept ==
  /\ executed \in Nat /\ executed <= SelectedCount
  /\ stage \in {"guard", "unit", "forward"} => executed < SelectedCount
  /\ stage = "finalize" => executed = SelectedCount \/ stop_reason = "kSoftBudget"

Books ==
  /\ call \in Calls
  /\ stage \in {"asked", "prepared", "detect", "detecting"} => executed = 0
  /\ stage \notin {"asked", "returned"} => request.max_rec_lines \in Nat \ {0}
  /\ stage \in {"poll", "guard", "unit", "forward", "finalize"} => LinesKept /\ LoopKept

\* How many of n lines a limit selects.
LEMMA SelectionIs ==
  ASSUME NEW m \in Nat \ {0}, NEW n \in Nat
  PROVE  /\ Min({m, n}) \in Nat /\ Min({m, n}) <= n
         /\ Min({m, n}) = 0 => n = 0
<1>1. Min({m, n}) = IF m <= n THEN m ELSE n
  BY MinMaxOfTwo
<1> QED
  BY <1>1

\* A function that names each number up to n once.
Arranges(f, n) ==
  /\ DOMAIN f = 1 .. n
  /\ \A k \in 1 .. n : f[k] \in 1 .. n
  /\ \A i \in 1 .. n : \E k \in 1 .. n : f[k] = i
  /\ \A j, k \in 1 .. n : f[j] = f[k] => j = k

\* Sorting the numbers up to n gives such a function.
LEMMA ArrangementIsBijection ==
  ASSUME NEW n \in Nat, NEW precedes, NEW f, f = SortedBy(1 .. n, precedes)
  PROVE  Arranges(f, n)
<1> DEFINE S == 1 .. n
<1>1. IsFiniteSet(S) /\ Cardinality(S) = n
  BY FS_Interval
<1>2. f = SortedBy(S, precedes)
  OBVIOUS
<1> HIDE DEF S
<1>3. /\ DOMAIN f = 1 .. n
      /\ \A k \in 1 .. n : f[k] \in S
      /\ \A i \in S : \E k \in 1 .. n : f[k] = i
  BY <1>1, <1>2, SortedArranges
<1>4. \A j, k \in 1 .. n : f[j] = f[k] => j = k
  <2> DEFINE g == [k \in 1 .. n |-> f[k]]
  <2>1. g \in Surjection(S, S)
    BY <1>3 DEF Surjection, S
  <2>2. \A k \in 1 .. n : g[k] = f[k]
    OBVIOUS
  <2> HIDE DEF g
  <2>3. g \in Injection(S, S)
    BY <1>1, <2>1, FS_Surjection
  <2> QED
    BY <2>2, <2>3 DEF Injection, IsInjective, S
<1> QED
  BY <1>3, <1>4 DEF S, Arranges

\* The execution order names each line once.
LEMMA OrderIsBijection ==
  ASSUME Len(lines) \in Nat, DOMAIN lines = 1 .. Len(lines)
  PROVE  Arranges(ExecutionOrder, Len(lines))
<1> DEFINE n == Len(lines)
           f == ExecutionOrder
<1>1. PICK precedes : f = SortedBy(1 .. n, precedes)
  BY DEF ExecutionOrder
<1>2. n \in Nat
  OBVIOUS
<1> HIDE DEF n, f
<1>3. Arranges(f, n)
  BY <1>1, <1>2, ArrangementIsBijection
<1> QED
  BY <1>3 DEF n, f

-----------------------------------------------------------------------------
(* The report *)

\* The numbers of the lines in each state.
LEMMA StatesAreCounted ==
  ASSUME LinesKept, executed \in 0 .. Len(lines)
  PROVE  /\ Cardinality({i \in DOMAIN lines : lines[i].state = "kRecognized"}) = executed
         /\ Cardinality({i \in DOMAIN lines : lines[i].state = "kDeferred"}) = Len(lines) - executed
         /\ {i \in DOMAIN lines : lines[i].state = "kReused"} = {}
         /\ {lines[i].execution_order : i \in {i \in DOMAIN lines : lines[i].state = "kRecognized"}}
              = 0 .. executed - 1
<1> DEFINE n == Len(lines)
           m == executed
           f == ExecutionOrder
           R == {i \in DOMAIN lines : lines[i].state = "kRecognized"}
           D == {i \in DOMAIN lines : lines[i].state = "kDeferred"}
           U == {i \in DOMAIN lines : lines[i].state = "kReused"}
           E == {lines[i].execution_order : i \in R}
<1>1. n \in Nat /\ m \in 0 .. n /\ DOMAIN lines = 1 .. n
  BY DEF LinesKept
<1>2. /\ \A k \in 1 .. n : f[k] \in 1 .. n
      /\ \A i \in 1 .. n : \E k \in 1 .. n : f[k] = i
      /\ \A j, k \in 1 .. n : f[j] = f[k] => j = k
  BY OrderIsBijection DEF LinesKept, Arranges
<1>3. \A k \in 1 .. n : /\ k <= m => RecognizedAs(lines[f[k]], k - 1)
                        /\ k > m => LeftForLater(lines[f[k]])
  BY DEF LinesKept
<1> HIDE DEF n, m, f
<1>4. \A k \in 1 .. n : /\ f[k] \in R <=> k <= m
                        /\ f[k] \in D <=> k > m
                        /\ f[k] \notin U
  <2> SUFFICES ASSUME NEW k \in 1 .. n
               PROVE  /\ f[k] \in R <=> k <= m
                      /\ f[k] \in D <=> k > m
                      /\ f[k] \notin U
    OBVIOUS
  <2>1. f[k] \in DOMAIN lines
    BY <1>1, <1>2
  <2>2. CASE k <= m
    <3>1. lines[f[k]].state = "kRecognized" /\ ~(k > m)
      BY <1>1, <1>3, <2>2 DEF RecognizedAs
    <3> QED
      BY <2>1, <2>2, <3>1
  <2>3. CASE k > m
    <3>1. lines[f[k]].state = "kDeferred" /\ ~(k <= m)
      BY <1>1, <1>3, <2>3 DEF LeftForLater
    <3> QED
      BY <2>1, <2>3, <3>1
  <2> QED
    BY <1>1, <2>2, <2>3
<1>5. R \subseteq 1 .. n /\ D = (1 .. n) \ R /\ U = {}
  <2>1. R \subseteq 1 .. n /\ D \subseteq 1 .. n /\ U \subseteq 1 .. n
    BY <1>1
  <2> HIDE DEF R, D, U
  <2>2. ASSUME NEW i \in 1 .. n PROVE (i \in D <=> i \notin R) /\ i \notin U
    <3>1. PICK k \in 1 .. n : f[k] = i
      BY <1>2
    <3>2. k <= m <=> ~(k > m)
      BY <1>1
    <3> QED
      BY <1>4, <3>1, <3>2
  <2> QED
    BY <2>1, <2>2
<1>6. E = 0 .. m - 1
  <2>1. ASSUME NEW i \in R PROVE lines[i].execution_order \in 0 .. m - 1
    <3>1. PICK k \in 1 .. n : f[k] = i
      BY <1>2, <1>5
    <3>2. k <= m /\ lines[i].execution_order = k - 1
      BY <1>3, <1>4, <3>1 DEF RecognizedAs
    <3> QED
      BY <1>1, <3>2
  <2>2. ASSUME NEW x \in 0 .. m - 1 PROVE \E i \in R : lines[i].execution_order = x
    <3>1. x + 1 \in 1 .. n /\ x + 1 <= m /\ x + 1 - 1 = x
      BY <1>1
    <3>2. f[x + 1] \in R /\ lines[f[x + 1]].execution_order = x + 1 - 1
      BY <1>3, <1>4, <3>1 DEF RecognizedAs
    <3> QED
      BY <3>1, <3>2
  <2> QED
    BY <2>1, <2>2
<1>7. IsFiniteSet(1 .. n) /\ Cardinality(1 .. n) = n
  BY <1>1, FS_Interval
<1>8. IsFiniteSet(1 .. m) /\ Cardinality(1 .. m) = m
  <2>1. m \in Nat
    BY <1>1
  <2> QED
    BY <2>1, FS_Interval
<1>9. Cardinality(R) = m /\ IsFiniteSet(R)
  <2> DEFINE g == [k \in 1 .. m |-> f[k]]
  <2>1. \A k \in 1 .. m : k \in 1 .. n /\ g[k] = f[k] /\ k <= m
    BY <1>1
  <2>2. g \in [1 .. m -> R]
    BY <1>4, <2>1
  <2>3. \A i \in R : \E k \in 1 .. m : g[k] = i
    <3> SUFFICES ASSUME NEW i \in R PROVE \E k \in 1 .. m : g[k] = i
      OBVIOUS
    <3>1. PICK k \in 1 .. n : f[k] = i
      BY <1>2, <1>5
    <3>2. k \in 1 .. m
      BY <1>1, <1>4, <3>1
    <3> QED
      BY <2>1, <3>1, <3>2
  <2> HIDE DEF g, R
  <2>4. g \in Bijection(1 .. m, R)
    BY <1>2, <2>1, <2>2, <2>3 DEF Bijection, Injection, Surjection, IsInjective
  <2>5. ExistsBijection(1 .. m, R)
    BY <2>4 DEF ExistsBijection
  <2> QED
    BY <1>8, <2>5, FS_Bijection
<1>10. Cardinality(D) = n - m
  <2> HIDE DEF R, D
  <2>1. (1 .. n) \cap R = R
    BY <1>5
  <2>2. Cardinality((1 .. n) \ R) = Cardinality(1 .. n) - Cardinality((1 .. n) \cap R)
    BY <1>7, FS_Difference
  <2> QED
    BY <1>5, <1>7, <1>9, <2>1, <2>2
<1> QED
  BY <1>5, <1>6, <1>9, <1>10 DEF n, m

\* What the loop leaves behind makes a report that agrees with itself.
LEMMA KeptBooksAgree ==
  ASSUME Books, stage = "finalize"
  PROVE  OcrBatchResultConsistent(OcrBatchResult)
<1> DEFINE n == Len(lines)
           m == executed
           report == OcrBatchResult
           R == {i \in DOMAIN lines : lines[i].state = "kRecognized"}
           D == {i \in DOMAIN lines : lines[i].state = "kDeferred"}
           U == {i \in DOMAIN lines : lines[i].state = "kReused"}
           C == {lines[i].candidate_id : i \in DOMAIN lines}
<1>1. /\ LinesKept /\ m \in Nat /\ m <= SelectedCount /\ n \in Nat /\ DOMAIN lines = 1 .. n
      /\ m = SelectedCount \/ stop_reason = "kSoftBudget"
      /\ SelectedCount \in Nat /\ SelectedCount <= n
  <2>1. request.max_rec_lines \in Nat \ {0} /\ LinesKept /\ LoopKept /\ Len(lines) \in Nat
    BY DEF Books, LinesKept
  <2>2. SelectedCount \in Nat /\ SelectedCount <= Len(lines)
    BY <2>1, SelectionIs DEF SelectedCount
  <2> QED
    BY <2>1, <2>2 DEF LinesKept, LoopKept
<1>2. m \in 0 .. n
  <2> HIDE DEF m, n
  <2> QED
    BY <1>1
<1>3. /\ Cardinality(R) = m /\ Cardinality(D) = n - m /\ U = {}
      /\ {lines[i].execution_order : i \in R} = 0 .. m - 1
  BY <1>1, <1>2, StatesAreCounted
<1>4. Cardinality(C) = n
  <2>1. C = 0 .. n - 1
    <3>1. \A i \in 1 .. n : lines[i].candidate_id = i - 1
      BY <1>1 DEF LinesKept
    <3>2. C = {i - 1 : i \in 1 .. n}
      BY <1>1, <3>1
    <3> HIDE DEF C, n
    <3>3. ASSUME NEW x \in 0 .. n - 1 PROVE \E i \in 1 .. n : x = i - 1
      <4>1. x + 1 \in 1 .. n /\ x = x + 1 - 1
        BY <1>1
      <4> QED
        BY <4>1
    <3>4. \A i \in 1 .. n : i - 1 \in 0 .. n - 1
      BY <1>1
    <3> QED
      BY <3>2, <3>3, <3>4
  <2> HIDE DEF C, n
  <2> QED
    BY <1>1, <2>1, FS_Interval
<1>5. Cardinality(U) = 0
  BY <1>3, FS_EmptySet
<1>6. D = {} <=> m = n
  <2>1. IsFiniteSet(D)
    <3>1. IsFiniteSet(1 .. n)
      <4> HIDE DEF n
      <4> QED
        BY <1>1, FS_Interval
    <3>2. D \in SUBSET (1 .. n)
      BY <1>1
    <3> HIDE DEF D, n
    <3> QED
      BY <3>1, <3>2, FS_Subset
  <2> HIDE DEF D, n, m
  <2>2. D = {} <=> Cardinality(D) = 0
    BY <2>1, FS_EmptySet
  <2> QED
    BY <1>1, <1>3, <2>2
<1>7. /\ report.lines = lines /\ report.detected_count = n /\ report.det_limit = DetLimit
      /\ report.recognized_count = Cardinality(R)
      /\ report.reused_count = Cardinality(U)
      /\ report.deferred_count = Cardinality(D)
      /\ report.rec_forward_count = m
      /\ report.stop_reason = FinalStop
      /\ report.completion = IF Cardinality(D) > 0 THEN "kPartial" ELSE "kComplete"
  BY DEF OcrBatchResult, LinesIn
<1>8. /\ InState(report, "kRecognized") = R
      /\ InState(report, "kDeferred") = D
      /\ InState(report, "kReused") = U
  BY <1>7 DEF InState
<1>9. \A i \in DOMAIN lines :
        /\ lines[i].candidate_id >= 0
        /\ i \in R => lines[i].rec_confidence # {}
        /\ i \in D => lines[i].text = <<>> /\ lines[i].rec_confidence = {} /\ lines[i].execution_order = -1
  <2> SUFFICES ASSUME NEW i \in 1 .. n
               PROVE  /\ lines[i].candidate_id >= 0
                      /\ i \in R => lines[i].rec_confidence # {}
                      /\ i \in D => lines[i].text = <<>> /\ lines[i].rec_confidence = {} /\ lines[i].execution_order = -1
    BY <1>1
  <2>1. PICK k \in 1 .. n : ExecutionOrder[k] = i
    BY <1>1, OrderIsBijection DEF Arranges
  <2>2. \/ RecognizedAs(lines[i], k - 1)
        \/ LeftForLater(lines[i])
    BY <1>1, <2>1 DEF LinesKept
  <2>3. lines[i].candidate_id >= 0
    BY <1>1 DEF LinesKept
  <2> QED
    BY <2>2, <2>3 DEF RecognizedAs, LeftForLater
<1> HIDE DEF R, D, U, C, n, m, report
<1>10. LineRecordsConsistent(report)
  <2>1. Cardinality({lines[i].candidate_id : i \in DOMAIN lines}) = Len(lines)
    BY <1>4 DEF C, n
  <2>2. {lines[i].execution_order : i \in R} = 0 .. Cardinality(R) - 1
    BY <1>3
  <2>3. R \subseteq DOMAIN lines /\ D \subseteq DOMAIN lines
    BY DEF R, D
  <2> QED
    BY <1>7, <1>8, <1>9, <2>1, <2>2, <2>3 DEF LineRecordsConsistent
<1>11. StopReasonConsistent(report)
  <2>1. FinalStop = IF m < SelectedCount THEN stop_reason
                    ELSE IF SelectedCount < n THEN "kRecLineLimit" ELSE "kCompleted"
    BY DEF FinalStop, m, n
  <2>2. CASE m = n
    <3>1. FinalStop = "kCompleted" /\ ~(Cardinality(D) > 0)
      BY <1>1, <1>3, <2>1, <2>2
    <3> QED
      BY <1>6, <1>7, <1>8, <2>2, <3>1 DEF StopReasonConsistent
  <2>3. CASE m # n
    <3>1. FinalStop # "kCompleted" /\ Cardinality(D) > 0
      BY <1>1, <1>3, <2>1, <2>3
    <3> QED
      BY <1>6, <1>7, <1>8, <2>3, <3>1 DEF StopReasonConsistent
  <2> QED
    BY <2>2, <2>3
<1>12. DetLimit > 0
  BY BackendIsCreated DEF AcceptedOptions, MaxBoxesLimit
<1>13. n = m + 0 + (n - m) /\ m = m + 0
  BY <1>1
<1> QED
  <2>1. /\ report.detected_count = Len(report.lines)
        /\ report.detected_count = report.recognized_count + report.reused_count + report.deferred_count
        /\ report.reused_count = 0
        /\ report.rec_forward_count = report.recognized_count + report.reused_count
    BY <1>3, <1>5, <1>7, <1>13 DEF n
  <2>2. report.det_limit_hit => report.det_limit > 0
    BY <1>7, <1>12
  <2> QED
    BY <1>10, <1>11, <2>1, <2>2 DEF OcrBatchResultConsistent, report

-----------------------------------------------------------------------------
(* The steps of the loop *)

\* The execution order depends on nothing that a unit writes.
LEMMA OrderStays ==
  ASSUME DOMAIN lines' = DOMAIN lines, call' = call,
         \A i \in DOMAIN lines : /\ lines'[i].bounds = lines[i].bounds
                                /\ lines'[i].det_confidence = lines[i].det_confidence
                                /\ lines'[i].candidate_id = lines[i].candidate_id
  PROVE  ExecutionOrder' = ExecutionOrder
<1>1. prepared_call' = prepared_call /\ request' = request
  BY DEF prepared_call, request
<1>2. ASSUME NEW i \in DOMAIN lines
      PROVE  /\ Priority(lines[i])' = Priority(lines[i])
             /\ ReadingKey(lines'[i]) = ReadingKey(lines[i])
  BY <1>1 DEF Priority, ReadingKey
<1>3. ASSUME NEW i \in DOMAIN lines, NEW j \in DOMAIN lines
      PROVE  ExecutesBefore(lines[i], lines[j])' = ExecutesBefore(lines[i], lines[j])
  BY <1>1, <1>2 DEF ExecutesBefore, OcrLineExecutesBefore, ExecutionKey
<1>4. {pair \in (DOMAIN lines') \X (DOMAIN lines') : ExecutesBefore(lines[pair[1]], lines[pair[2]])'}
        = {pair \in (DOMAIN lines) \X (DOMAIN lines) : ExecutesBefore(lines[pair[1]], lines[pair[2]])}
  BY <1>3
<1> QED
  BY <1>4 DEF ExecutionOrder

\* Nothing is recognized of the lines that the detection found.
LEMMA DetectionOpensTheBooks ==
  ASSUME Books, NEW sighting, EndDetection(sighting), stage' = "poll"
  PROVE  LinesKept' /\ LoopKept'
<1> DEFINE found == KeptBoxes(sighting.value)
           n == Cardinality(DOMAIN found)
<1>1. /\ lines' = ReadingOrderLines(found) /\ call' = call /\ executed' = executed /\ executed = 0
      /\ request.max_rec_lines \in Nat \ {0}
  BY DEF EndDetection, Books, Return, Proceed
<1>2. IsFiniteSet(DOMAIN found) /\ \A i \in DOMAIN found : \E bounds, score : found[i] = OcrLineRecord(bounds, score)
  <2> DEFINE boxes == sighting.value
             Back(box) == UnpadBounds(box.bounds, Canvas.value, prepared_image)
             scanned == {i \in 1 .. DetLimit : i <= Len(boxes)}
             these == {i \in scanned : boxes[i].confidence >= request.min_confidence /\ Back(boxes[i]).status = "kOk"}
             kept == SortedBy(these, {pair \in these \X these : pair[1] < pair[2]})
  <2>1. IsFiniteSet(these)
    <3>1. DetLimit \in Int
      BY BackendIsCreated DEF AcceptedOptions
    <3>2. IsFiniteSet(1 .. DetLimit)
      BY <3>1, FS_Interval
    <3>3. these \in SUBSET (1 .. DetLimit)
      OBVIOUS
    <3> HIDE DEF these
    <3> QED
      BY <3>2, <3>3, FS_Subset
  <2>2. found = [k \in DOMAIN kept |-> OcrLineRecord(Back(boxes[kept[k]]).value, boxes[kept[k]].confidence)]
    BY DEF KeptBoxes
  <2> HIDE DEF these
  <2>3. DOMAIN kept = 1 .. Cardinality(these) /\ Cardinality(these) \in Nat
    BY <2>1, SortedArranges
  <2> HIDE DEF kept, found, Back, boxes
  <2>4. IsFiniteSet(DOMAIN found)
    BY <2>2, <2>3, FS_Interval
  <2> QED
    BY <2>2, <2>4
<1> HIDE DEF found
<1>3. PICK precedes : LET order == SortedBy(DOMAIN found, precedes)
                      IN  lines' = [k \in DOMAIN order |-> [found[order[k]] EXCEPT !.candidate_id = k - 1]]
  BY <1>1 DEF ReadingOrderLines
<1> DEFINE order == SortedBy(DOMAIN found, precedes)
<1>4. n \in Nat /\ DOMAIN order = 1 .. n /\ \A k \in 1 .. n : order[k] \in DOMAIN found
  BY <1>2, SortedArranges
<1>5. lines' = [k \in DOMAIN order |-> [found[order[k]] EXCEPT !.candidate_id = k - 1]]
  BY <1>3
<1> HIDE DEF order, n
<1>6. lines' = [k \in 1 .. n |-> lines'[k]] /\ DOMAIN lines' = 1 .. n
  BY <1>4, <1>5
<1>7. Len(lines') = n
  BY <1>4, <1>6, NumberedIsSeq
<1>8. ASSUME NEW k \in 1 .. n
      PROVE  Shaped(lines'[k]) /\ lines'[k].candidate_id = k - 1 /\ LeftForLater(lines'[k])
  <2>1. PICK bounds, score : found[order[k]] = OcrLineRecord(bounds, score)
    BY <1>2, <1>4
  <2>2. lines'[k] = [OcrLineRecord(bounds, score) EXCEPT !.candidate_id = k - 1]
    BY <1>4, <1>5, <2>1
  <2>3. lines'[k] = [candidate_id |-> k - 1, bounds |-> bounds, det_confidence |-> score, state |-> "kDeferred",
                     text |-> <<>>, rec_confidence |-> {}, execution_order |-> -1]
    BY <2>2 DEF OcrLineRecord
  <2> QED
    BY <2>3 DEF Shaped, LineOf, LeftForLater
<1>9. \A k \in 1 .. n : ExecutionOrder'[k] \in 1 .. n
  <2>1. PICK before : ExecutionOrder' = SortedBy(1 .. n, before)
    BY <1>6 DEF ExecutionOrder
  <2> QED
    BY <1>4, <2>1, ArrangementIsBijection DEF Arranges
<1>10. \A k \in 1 .. n : ~(k <= 0) /\ k > 0
  BY <1>4
<1>11. LinesKept'
  BY <1>1, <1>4, <1>6, <1>7, <1>8, <1>9, <1>10 DEF LinesKept
<1>12. LoopKept'
  <2>1. SelectedCount' = Min({request.max_rec_lines, n})
    BY <1>1, <1>7 DEF SelectedCount, request
  <2>2. SelectedCount' \in Nat
    BY <1>1, <1>4, <2>1, SelectionIs
  <2>3. 0 \in Nat /\ 0 <= SelectedCount'
    BY <2>2
  <2> QED
    BY <1>1, <2>3 DEF LoopKept
<1> QED
  BY <1>11, <1>12

\* Only the fields that a unit writes change.
LEMMA RecognizedRecord ==
  ASSUME NEW line, Shaped(line), NEW text, NEW m
  PROVE  Recognize(line, text, m)
           = LineOf(line.candidate_id, line.bounds, line.det_confidence, "kRecognized", text, {1}, m)
<1> DEFINE Line(state, words, sure, order) ==
             LineOf(line.candidate_id, line.bounds, line.det_confidence, state, words, sure, order)
           s == line.state
           t == line.text
           r == line.rec_confidence
           o == line.execution_order
<1>1. line = Line(s, t, r, o)
  BY DEF Shaped
<1> HIDE DEF s, t, r, o
<1>2. [Line(s, t, r, o) EXCEPT !.state = "kRecognized"] = Line("kRecognized", t, r, o)
  BY DEF LineOf
<1>3. [Line("kRecognized", t, r, o) EXCEPT !.text = text] = Line("kRecognized", text, r, o)
  BY DEF LineOf
<1>4. [Line("kRecognized", text, r, o) EXCEPT !.rec_confidence = {1}] = Line("kRecognized", text, {1}, o)
  BY DEF LineOf
<1>5. [Line("kRecognized", text, {1}, o) EXCEPT !.execution_order = m] = Line("kRecognized", text, {1}, m)
  BY DEF LineOf
<1> DEFINE given == Line(s, t, r, o)
           result == Line("kRecognized", text, {1}, m)
<1>6. Recognize(given, text, m) = result
  <2> HIDE DEF Line
  <2> QED
    BY <1>2, <1>3, <1>4, <1>5 DEF Recognize
<1>7. line = given
  BY <1>1
<1> HIDE DEF given
<1> QED
  BY <1>6, <1>7

\* A unit that ends recognizes the line that is next.
LEMMA UnitKeepsTheBooks ==
  ASSUME Books, NEW reading, EndUnit(reading), stage' = "poll"
  PROVE  LinesKept' /\ LoopKept'
<1> DEFINE n == Len(lines)
           m == executed
           f == ExecutionOrder
           c == Current
           text == Then(reading, LAMBDA steps : DecodeLine(steps, Charset)).value
           done == Recognize(lines[c], text, m)
<1>1. /\ LinesKept /\ LoopKept /\ stage = "forward"
      /\ m \in Nat /\ n \in Nat /\ DOMAIN lines = 1 .. n /\ m < SelectedCount
      /\ request.max_rec_lines \in Nat \ {0}
  BY DEF EndUnit, Books, LinesKept, LoopKept
<1>2. /\ lines' = [lines EXCEPT ![c] = done] /\ executed' = m + 1 /\ call' = call
  BY DEF EndUnit, Return, Proceed, Recognize
<1>3. SelectedCount \in Nat /\ SelectedCount <= n
  BY <1>1, SelectionIs DEF SelectedCount
<1>4. /\ \A k \in 1 .. n : f[k] \in 1 .. n
      /\ \A i \in 1 .. n : \E k \in 1 .. n : f[k] = i
      /\ \A j, k \in 1 .. n : f[j] = f[k] => j = k
  BY <1>1, OrderIsBijection DEF Arranges
<1>5. \A i \in 1 .. n : Shaped(lines[i]) /\ lines[i].candidate_id = i - 1
  BY <1>1 DEF LinesKept
<1>6. \A k \in 1 .. n : /\ k <= m => RecognizedAs(lines[f[k]], k - 1)
                        /\ k > m => LeftForLater(lines[f[k]])
  BY <1>1 DEF LinesKept
<1>7. c = f[m + 1]
  BY DEF Current
<1> HIDE DEF n, m, f, c, text
<1>8. m + 1 \in 1 .. n /\ c \in 1 .. n
  <2>1. m + 1 \in 1 .. n
    BY <1>1, <1>3
  <2> QED
    BY <1>4, <1>7, <2>1
<1>9. done = LineOf(lines[c].candidate_id, lines[c].bounds, lines[c].det_confidence, "kRecognized", text, {1}, m)
  BY <1>5, <1>8, RecognizedRecord
<1>10. /\ Shaped(done) /\ RecognizedAs(done, m)
       /\ done.candidate_id = lines[c].candidate_id
       /\ done.bounds = lines[c].bounds
       /\ done.det_confidence = lines[c].det_confidence
  BY <1>9 DEF Shaped, RecognizedAs, LineOf
<1> HIDE DEF done
<1>11. DOMAIN lines' = 1 .. n /\ \A i \in 1 .. n : lines'[i] = IF i = c THEN done ELSE lines[i]
  BY <1>1, <1>2, <1>8
<1>12. lines' = [i \in 1 .. n |-> lines'[i]]
  BY <1>1, <1>2
<1>13. Len(lines') = n
  BY <1>1, <1>12, NumberedIsSeq
<1>14. ExecutionOrder' = f
  BY <1>1, <1>2, <1>10, <1>11, OrderStays DEF f
<1>15. \A i \in 1 .. n : Shaped(lines'[i]) /\ lines'[i].candidate_id = i - 1
  BY <1>5, <1>8, <1>10, <1>11
<1>16. ASSUME NEW k \in 1 .. n
       PROVE  /\ k <= m + 1 => RecognizedAs(lines'[f[k]], k - 1)
              /\ k > m + 1 => LeftForLater(lines'[f[k]])
  <2>1. f[k] = c <=> k = m + 1
    BY <1>4, <1>7, <1>8
  <2>2. CASE k = m + 1
    <3>1. lines'[f[k]] = done /\ k - 1 = m /\ ~(k > m + 1)
      BY <1>1, <1>8, <1>11, <2>1, <2>2
    <3> QED
      BY <1>10, <3>1
  <2>3. CASE k # m + 1
    <3>1. lines'[f[k]] = lines[f[k]]
      BY <1>4, <1>11, <2>1, <2>3
    <3>2. (k <= m + 1 => k <= m) /\ (k > m + 1 => k > m)
      BY <1>1, <2>3
    <3> QED
      BY <1>6, <3>1, <3>2
  <2> QED
    BY <2>2, <2>3
<1>17. LinesKept'
  BY <1>1, <1>2, <1>11, <1>13, <1>14, <1>15, <1>16 DEF LinesKept
<1>18. LoopKept'
  <2>1. SelectedCount' = SelectedCount
    BY <1>2, <1>13 DEF SelectedCount, request, n
  <2>2. m + 1 \in Nat /\ m + 1 <= SelectedCount
    BY <1>1, <1>3
  <2> QED
    BY <1>2, <2>1, <2>2 DEF LoopKept
<1> QED
  BY <1>17, <1>18

\* The other steps that stay in the loop leave the lines alone.
LEMMA LinesStay ==
  ASSUME LinesKept, UNCHANGED <<lines, executed, call>>
  PROVE  LinesKept'
<1>1. ExecutionOrder' = ExecutionOrder
  BY DEF ExecutionOrder, ExecutesBefore, Priority, prepared_call, request
<1> QED
  BY <1>1 DEF LinesKept

\* A call that the preparation lets through selects at least one line.
LEMMA PreparedCallsSelect ==
  ASSUME call \in Calls, Preparations[call].status = "kOk"
  PROVE  request.max_rec_lines \in Nat \ {0}
<1> DEFINE made == [asked \in Calls |-> Preparation(asked)]
<1>1. Preparations[call] = Preparation(call)
  BY DEF Preparations, Table
<1> DEFINE image == call.frame.image
           roi == ExecutedRoi(image, call.request).value
           refused == RefusedCall(call)
           cropped == Crop(image, roi, WorkBudget(image))
           prepared == PrepareChain(cropped.value, roi, call.request.max_side, call.backend.accepts, image)
           batch == BackendRequest(prepared.value, call.request)
           valid == ValidateOcrBatchRequest(batch)
<1>2. valid = "kOk"
  <2> HIDE DEF image, roi, refused, cropped, prepared, batch, valid
  <2>1. Preparation(call).status = "kOk"
    BY <1>1
  <2> QED
    BY <2>1 DEF Preparation, Then, Failed, Ok, image, roi, refused, cropped, prepared, batch, valid
<1>3. ~(batch.max_rec_lines <= 0)
  <2> HIDE DEF batch
  <2> QED
    BY <1>2 DEF ValidateOcrBatchRequest
<1>4. batch.max_rec_lines = call.request.max_rec_lines
  BY DEF BackendRequest
<1>5. call.request.max_rec_lines \in Int
  BY RequestsAreTyped DEF BudgetedOcrRequest
<1> QED
  BY <1>3, <1>4, <1>5 DEF request

\* Every step keeps the books.
LEMMA NextKeepsTheBooks == Books /\ [Next]_vars => Books'
<1> SUFFICES ASSUME Books, [Next]_vars PROVE Books'
  OBVIOUS
<1>1. ASSUME UNCHANGED <<lines, executed, call, stop_reason>>, stage' \in {stage, "returned"}
      PROVE  Books'
  <2>1. request' = request /\ SelectedCount' = SelectedCount /\ (LinesKept => LinesKept')
    BY <1>1, LinesStay DEF request, SelectedCount
  <2> QED
    BY <1>1, <2>1 DEF Books, LoopKept
<1>2. CASE UNCHANGED vars
  BY <1>1, <1>2 DEF vars
<1>3. CASE Cancel \/ Tick \/ Finalize
  BY <1>1, <1>3 DEF Cancel, Tick, Finalize, Return
<1>4. CASE Prepare
  <2> DEFINE failure == FirstFailure(<<ContextStatus, Preparations[call].status>>)
  <2>1. CASE failure # "kOk"
    BY <1>1, <1>4, <2>1 DEF Prepare, Return
  <2>2. CASE failure = "kOk"
    <3> DEFINE status == Preparations[call].status
    <3> HIDE DEF status
    <3>a. FirstFailure(<<ContextStatus, status>>) = IF ContextStatus # "kOk" THEN ContextStatus ELSE status
      BY FailureOrder
    <3>1. Preparations[call].status = "kOk"
      BY <2>2, <3>a DEF status
    <3>2. request.max_rec_lines \in Nat \ {0}
      BY <3>1, PreparedCallsSelect DEF Books
    <3>3. stage = "asked" /\ stage' = "prepared" /\ UNCHANGED <<executed, call>> /\ request' = request
      BY <1>4, <2>2 DEF Prepare, Proceed, request
    <3> QED
      BY <3>2, <3>3 DEF Books
  <2> QED
    BY <2>1, <2>2
<1>5. CASE Enter \/ BeginDetection
  <2>1. CASE stage' = "returned"
    BY <1>1, <1>5, <2>1 DEF Enter, BeginDetection, Return, Proceed
  <2>2. CASE stage' # "returned"
    <3>1. /\ stage \in {"prepared", "detect"} /\ stage' \in {"detect", "detecting"}
          /\ UNCHANGED <<executed, call>> /\ request' = request
      BY <1>5, <2>2 DEF Enter, BeginDetection, Return, Proceed, request
    <3> QED
      BY <3>1 DEF Books
  <2> QED
    BY <2>1, <2>2
<1>6. ASSUME NEW sighting, EndDetection(sighting) PROVE Books'
  <2>1. CASE stage' = "returned"
    BY <1>1, <1>6, <2>1 DEF EndDetection, Return, Proceed
  <2>2. CASE stage' # "returned"
    <3>1. stage = "detecting" /\ stage' = "poll" /\ call' = call /\ request' = request
      BY <1>6, <2>2 DEF EndDetection, Return, Proceed, request
    <3>2. LinesKept' /\ LoopKept'
      BY <1>6, <3>1, DetectionOpensTheBooks
    <3> QED
      BY <3>1, <3>2 DEF Books
  <2> QED
    BY <2>1, <2>2
<1>7. ASSUME NEW reading, EndUnit(reading) PROVE Books'
  <2>1. CASE stage' = "returned"
    BY <1>1, <1>7, <2>1 DEF EndUnit, Return, Proceed
  <2>2. CASE stage' # "returned"
    <3>1. stage = "forward" /\ stage' = "poll" /\ call' = call /\ request' = request
      BY <1>7, <2>2 DEF EndUnit, Return, Proceed, request
    <3>2. LinesKept' /\ LoopKept'
      BY <1>7, <3>1, UnitKeepsTheBooks
    <3> QED
      BY <3>1, <3>2 DEF Books
  <2> QED
    BY <2>1, <2>2
<1>8. CASE Poll \/ Guard \/ BeginUnit
  <2>1. CASE stage' = "returned"
    BY <1>1, <1>8, <2>1 DEF Poll, Guard, BeginUnit, Return, Proceed
  <2>2. CASE stage' # "returned"
    <3>1. /\ stage \in {"poll", "guard", "unit"} /\ stage' \in {"guard", "unit", "forward", "finalize"}
          /\ UNCHANGED <<lines, executed, call>> /\ request' = request
      BY <1>8, <2>2 DEF Poll, Guard, BeginUnit, Return, Proceed, request
    <3>2. LinesKept /\ LoopKept /\ LinesKept'
      BY <3>1, LinesStay DEF Books
    <3>3. SelectedCount' = SelectedCount
      BY <3>1 DEF SelectedCount
    <3>4. executed \in Nat /\ SelectedCount \in Nat /\ executed <= SelectedCount
      <4>1. request.max_rec_lines \in Nat \ {0} /\ Len(lines) \in Nat
        BY <3>1, <3>2 DEF Books, LinesKept
      <4>2. SelectedCount \in Nat
        BY <4>1, SelectionIs DEF SelectedCount
      <4> QED
        BY <3>2, <4>2 DEF LoopKept
    <3>5. /\ stage' \in {"guard", "unit", "forward"} => executed < SelectedCount
          /\ stage' = "finalize" => executed = SelectedCount \/ stop_reason' = "kSoftBudget"
      <4>1. CASE Poll
        <5>1. stage' = IF executed < SelectedCount THEN "guard" ELSE "finalize"
          BY <2>2, <4>1 DEF Poll, Return, Proceed
        <5>2. ~(executed < SelectedCount) => executed = SelectedCount
          BY <3>4
        <5> QED
          BY <5>1, <5>2
      <4>2. CASE Guard
        <5>1. stage = "guard" /\ (stage' = "unit" \/ (stage' = "finalize" /\ stop_reason' = "kSoftBudget"))
          BY <4>2 DEF Guard, Proceed
        <5> QED
          BY <3>2, <5>1 DEF LoopKept
      <4>3. CASE BeginUnit
        <5>1. stage = "unit" /\ stage' = "forward"
          BY <2>2, <4>3 DEF BeginUnit, Return, Proceed
        <5> QED
          BY <3>2, <5>1 DEF LoopKept
      <4> QED
        BY <1>8, <4>1, <4>2, <4>3
    <3>6. LoopKept'
      BY <3>1, <3>3, <3>4, <3>5 DEF LoopKept
    <3> QED
      BY <3>1, <3>2, <3>6 DEF Books
  <2> QED
    BY <2>1, <2>2
<1> QED
  BY <1>2, <1>3, <1>4, <1>5, <1>6, <1>7, <1>8 DEF Next

\* Whichever limit ends the loop and whatever the models answer, for all calls
\* and options: the report that the backend hands over passes the session's
\* check, which never turns a good run into a backend failure.
THEOREM GoodRunsAreNotRefused == Spec => []ReportsAreConsistent
<1>1. Init => Books
  BY DEF Init, Books
<1>2. Books => ReportsAreConsistent
  BY KeptBooksAgree DEF ReportsAreConsistent
<1> QED
  BY <1>1, <1>2, NextKeepsTheBooks, PTL DEF Spec

-----------------------------------------------------------------------------
(* The execution order is sorted *)

\* Comparing sequences of numbers of one length from the front is a strict
\* order, in which no two of them are equivalent.
LEMMA LexicographicIsStrict ==
  ASSUME NEW n \in Nat, NEW a \in [1 .. n -> Int], NEW b \in [1 .. n -> Int], NEW c \in [1 .. n -> Int]
  PROVE  /\ ~Lexicographic(a, a)
         /\ Lexicographic(a, b) /\ Lexicographic(b, c) => Lexicographic(a, c)
         /\ a # b => Lexicographic(a, b) \/ Lexicographic(b, a)
<1>1. ~Lexicographic(a, a)
  BY DEF Lexicographic
<1>2. ASSUME Lexicographic(a, b), Lexicographic(b, c) PROVE Lexicographic(a, c)
  <2>1. PICK i \in 1 .. n : a[i] < b[i] /\ \A j \in 1 .. i - 1 : a[j] = b[j]
    BY <1>2 DEF Lexicographic
  <2>2. PICK k \in 1 .. n : b[k] < c[k] /\ \A j \in 1 .. k - 1 : b[j] = c[j]
    BY <1>2 DEF Lexicographic
  <2>3. CASE i <= k
    <3>1. a[i] < c[i]
      BY <2>1, <2>2, <2>3
    <3>2. \A j \in 1 .. i - 1 : a[j] = c[j]
      BY <2>1, <2>2, <2>3
    <3> QED
      BY <3>1, <3>2 DEF Lexicographic
  <2>4. CASE k < i
    <3>1. a[k] < c[k]
      BY <2>1, <2>2, <2>4
    <3>2. \A j \in 1 .. k - 1 : a[j] = c[j]
      BY <2>1, <2>2, <2>4
    <3> QED
      BY <3>1, <3>2 DEF Lexicographic
  <2> QED
    BY <2>3, <2>4
<1>3. ASSUME a # b PROVE Lexicographic(a, b) \/ Lexicographic(b, a)
  <2> DEFINE D == {i \in 1 .. n : a[i] # b[i]}
  <2>1. D # {} /\ D \in SUBSET Nat
    <3>1. a = [i \in 1 .. n |-> a[i]] /\ b = [i \in 1 .. n |-> b[i]]
      OBVIOUS
    <3>2. D # {}
      <4>1. (\A i \in 1 .. n : a[i] = b[i]) => a = b
        BY <3>1
      <4> QED
        BY <1>3, <4>1
    <3> QED
      BY <3>2
  <2>2. PICK i \in D : \A j \in D : i <= j
    BY <2>1, LeastOf
  <2>3. i \in 1 .. n /\ a[i] # b[i] /\ \A j \in 1 .. i - 1 : a[j] = b[j]
    BY <2>2
  <2>4. a[i] < b[i] \/ b[i] < a[i]
    BY <2>3
  <2> QED
    BY <2>3, <2>4 DEF Lexicographic
<1> QED
  BY <1>1, <1>2, <1>3

\* Of finitely many numbers one is the greatest.
LEMMA GreatestOf ==
  ASSUME NEW n \in Nat, NEW f, NEW S \in SUBSET (1 .. n), S # {}, \A i \in S : f[i] \in Int
  PROVE  Max({f[i] : i \in S}) \in {f[i] : i \in S}
<1> DEFINE Beats(i, k) == i \in S /\ \A j \in S : j >= k => f[i] >= f[j]
           K == {k \in Nat : \E i \in S : Beats(i, k)}
<1>1. K \in SUBSET Nat
  OBVIOUS
<1>2. n + 1 \in K
  <2>1. PICK i : i \in S
    OBVIOUS
  <2>2. \A j \in S : ~(j >= n + 1)
    OBVIOUS
  <2> QED
    BY <2>1, <2>2
<1>3. PICK k \in K : \A m \in K : k <= m
  <2> HIDE DEF K
  <2> QED
    BY <1>1, <1>2, LeastOf
<1>4. PICK i \in S : Beats(i, k)
  BY <1>3
<1>5. ASSUME NEW j \in S PROVE f[i] >= f[j]
  <2>1. CASE k = 0
    BY <1>4, <2>1
  <2>2. CASE k # 0
    <3>1. k - 1 \in Nat /\ k - 1 \notin K
      <4>1. k \in Nat
        BY <1>1, <1>3
      <4> HIDE DEF K
      <4>2. k - 1 \in Nat /\ ~(k <= k - 1)
        BY <2>2, <4>1
      <4> QED
        BY <1>3, <4>2
    <3>2. \A m \in S : ~Beats(m, k - 1)
      BY <3>1
    <3>3. PICK m \in S : m >= k - 1 /\ ~(f[i] >= f[m])
      BY <3>2
    <3>4. m = k - 1
      BY <1>3, <1>4, <3>3
    <3>5. \A l \in S : l >= k - 1 => l = m \/ l >= k
      BY <1>3, <3>4
    <3>6. \A l \in S : l >= k => f[m] >= f[l]
      BY <1>4, <3>3
    <3>7. Beats(m, k - 1)
      BY <3>5, <3>6
    <3> QED
      BY <3>2, <3>7
  <2> QED
    BY <2>1, <2>2
<1>6. \E x \in {f[j] : j \in S} : \A y \in {f[j] : j \in S} : x >= y
  BY <1>5
<1> QED
  BY <1>6 DEF Max

\* A rectangle of numbers that is not turned inside out.
Upright(rect) == rect \in RectRecord /\ rect.w >= 0 /\ rect.h >= 0

\* The bounds of a line are such a rectangle, and its score is a number.
WholeLine(line) == Upright(line.bounds) /\ line.det_confidence \in Int

\* The priority of a rectangle is that of an entry, or none.
LEMMA PriorityIsWhole ==
  ASSUME NEW bounds, NEW priorities, NEW n \in Nat, DOMAIN priorities = 1 .. n,
         \A i \in 1 .. n : priorities[i].priority \in Int
  PROVE  ResolveOcrLinePriority(bounds, priorities) \in Int
<1> DEFINE met == {i \in DOMAIN priorities : RectsOverlap(bounds, priorities[i].roi)}
           f == [i \in 1 .. n |-> priorities[i].priority]
<1>1. CASE met = {}
  BY <1>1 DEF ResolveOcrLinePriority
<1>2. CASE met # {}
  <2>1. {priorities[i].priority : i \in met} = {f[i] : i \in met} /\ \A i \in met : f[i] \in Int
    OBVIOUS
  <2>2. met \in SUBSET (1 .. n)
    OBVIOUS
  <2> HIDE DEF met, f
  <2>3. Max({f[i] : i \in met}) \in {f[i] : i \in met}
    BY <1>2, <2>1, <2>2, GreatestOf
  <2>4. Max({f[i] : i \in met}) \in Int
    BY <2>1, <2>3
  <2> QED
    BY <1>2, <2>1, <2>4 DEF ResolveOcrLinePriority, met
<1> QED
  BY <1>1, <1>2

\* Two and six numbers in a row.
LEMMA TwoAndSix ==
  ASSUME NEW s \in Seq(Int), NEW t \in Seq(Int), Len(s) = 2, Len(t) = 6
  PROVE  /\ s \o t \in Seq(Int) /\ Len(s \o t) = 8
         /\ \A i \in 1 .. 8 : (s \o t)[i] = IF i <= 2 THEN s[i] ELSE t[i - 2]
<1>1. Len(s) + Len(t) = 8
  OBVIOUS
<1>2. /\ s \o t \in Seq(Int) /\ Len(s \o t) = Len(s) + Len(t)
      /\ \A i \in 1 .. Len(s) + Len(t) : (s \o t)[i] = IF i <= Len(s) THEN s[i] ELSE t[i - Len(s)]
  BY ConcatProperties
<1> QED
  BY <1>1, <1>2

\* The key of a line is a sequence of eight numbers, the first of which is its
\* priority and the last its place.
LEMMA KeyIsWhole ==
  ASSUME NEW line, WholeLine(line), line.candidate_id \in Int, NEW priority \in Int, NEW selection
  PROVE  /\ ExecutionKey(line, priority, selection) \in [1 .. 8 -> Int]
         /\ ExecutionKey(line, priority, selection)[1] = -priority
         /\ ExecutionKey(line, priority, selection)[8] = line.candidate_id
<1> DEFINE score == IF selection = "kDetScore" THEN -line.det_confidence ELSE 0
           one == line.bounds.y
           two == line.bounds.x
           three == -line.bounds.w
           four == -line.bounds.h
           five == -line.det_confidence
           six == line.candidate_id
           low == -priority
<1>1. /\ low \in Int /\ score \in Int /\ one \in Int /\ two \in Int /\ three \in Int /\ four \in Int
      /\ five \in Int /\ six \in Int
  BY DEF WholeLine, Upright, RectRecord
<1>2. ExecutionKey(line, priority, selection) = <<low, score>> \o <<one, two, three, four, five, six>>
  BY DEF ExecutionKey, ReadingKey
<1> HIDE DEF score, one, two, three, four, five, six, low
<1>3. <<low, score>> \o <<one, two, three, four, five, six>> = <<low, score, one, two, three, four, five, six>>
  <2> DEFINE head == <<low, score>>
             tail == <<one, two, three, four, five, six>>
             whole == <<low, score, one, two, three, four, five, six>>
  <2>1. /\ head \in Seq(Int) /\ Len(head) = 2
        /\ tail \in Seq(Int) /\ Len(tail) = 6
        /\ whole \in Seq(Int) /\ Len(whole) = 8
    BY <1>1
  <2>2. head \o tail \in Seq(Int) /\ Len(head \o tail) = 8
    <3> HIDE DEF head, tail
    <3> QED
      BY <2>1, TwoAndSix
  <2>3. \A i \in 1 .. 8 : (head \o tail)[i] = whole[i]
    <3>1. \A i \in 1 .. 8 : (head \o tail)[i] = IF i <= 2 THEN head[i] ELSE tail[i - 2]
      <4> HIDE DEF head, tail
      <4> QED
        BY <2>1, TwoAndSix
    <3> QED
      BY <3>1
  <2> HIDE DEF head, tail, whole
  <2>4. head \o tail = whole
    BY <2>1, <2>2, <2>3, SeqEqual
  <2> QED
    BY <2>4 DEF head, tail, whole
<1> DEFINE key == <<low, score, one, two, three, four, five, six>>
<1>4. key \in [1 .. 8 -> Int] /\ key[1] = low /\ key[8] = six
  BY <1>1
<1> QED
  BY <1>2, <1>3, <1>4 DEF low, six

-----------------------------------------------------------------------------
(* Rectangles that keep their scale *)

\* The box around four corners.
LEMMA BoxAround ==
  ASSUME NEW x \in Int, NEW y \in Int, NEW w \in Nat, NEW h \in Nat,
         NEW S, S = {<<x, y>>, <<x + w, y>>, <<x + w, y + h>>, <<x, y + h>>}
  PROVE  BoundingRect(S) = Rect(x, y, w, h)
<1> DEFINE points == {<<x, y>>, <<x + w, y>>, <<x + w, y + h>>, <<x, y + h>>}
           xs == {z[1] : z \in points}
           ys == {z[2] : z \in points}
<1>1. xs = {x, x + w} /\ ys = {y, y + h}
  OBVIOUS
<1> HIDE DEF xs, ys
<1>2. /\ xs \in SUBSET Int /\ x \in xs /\ x + w \in xs /\ (\A z \in xs : x <= z) /\ (\A z \in xs : x + w >= z)
      /\ ys \in SUBSET Int /\ y \in ys /\ y + h \in ys /\ (\A z \in ys : y <= z) /\ (\A z \in ys : y + h >= z)
  BY <1>1
<1>3. Min(xs) = x /\ Max(xs) = x + w /\ Min(ys) = y /\ Max(ys) = y + h
  BY <1>2, LeastIs, GreatestIs
<1>4. x + w - x = w /\ y + h - y = h
  OBVIOUS
<1>5. BoundingRect(points) = Rect(Min(xs), Min(ys), Max(xs) - Min(xs), Max(ys) - Min(ys))
  BY DEF BoundingRect, xs, ys
<1> QED
  BY <1>3, <1>4, <1>5

\* A whole map that only turns and moves.
Turn(t, a, b, c, d) ==
  t.a = a /\ t.b = b /\ t.c = c /\ t.d = d /\ t.den = 1 /\ t.u \in Int /\ t.v \in Int

Turned(t) ==
  Turn(t, 1, 0, 0, 1) \/ Turn(t, 0, -1, 1, 0) \/ Turn(t, -1, 0, 0, -1) \/ Turn(t, 0, 1, -1, 0)

\* Where such a map takes a point.
LEMMA PointIs ==
  ASSUME NEW t, NEW x \in Int, NEW y \in Int
  PROVE  /\ Turn(t, 1, 0, 0, 1) => TransformPoint(t, <<x, y>>) = <<x + t.u, y + t.v>>
         /\ Turn(t, 0, -1, 1, 0) => TransformPoint(t, <<x, y>>) = <<t.u - y, x + t.v>>
         /\ Turn(t, -1, 0, 0, -1) => TransformPoint(t, <<x, y>>) = <<t.u - x, t.v - y>>
         /\ Turn(t, 0, 1, -1, 0) => TransformPoint(t, <<x, y>>) = <<y + t.u, t.v - x>>
<1>1. \A z \in Int : z \div 1 = z
  OBVIOUS
<1>2. TransformPoint(t, <<x, y>>) =
        <<(t.a * x + t.b * y + t.u) \div t.den, (t.c * x + t.d * y + t.v) \div t.den>>
  BY DEF TransformPoint
<1>3. ASSUME Turn(t, 1, 0, 0, 1) PROVE TransformPoint(t, <<x, y>>) = <<x + t.u, y + t.v>>
  <2>1. TransformPoint(t, <<x, y>>) =
          <<(1 * x + 0 * y + t.u) \div 1, (0 * x + 1 * y + t.v) \div 1>>
    BY <1>2, <1>3 DEF Turn
  <2>2. t.u \in Int /\ t.v \in Int
    BY <1>3 DEF Turn
  <2>3. 1 * x + 0 * y + t.u = x + t.u /\ 0 * x + 1 * y + t.v = y + t.v
    BY <2>2
  <2> QED
    BY <1>1, <2>1, <2>2, <2>3
<1>4. ASSUME Turn(t, 0, -1, 1, 0) PROVE TransformPoint(t, <<x, y>>) = <<t.u - y, x + t.v>>
  <2>1. TransformPoint(t, <<x, y>>) =
          <<(0 * x + (-1) * y + t.u) \div 1, (1 * x + 0 * y + t.v) \div 1>>
    BY <1>2, <1>4 DEF Turn
  <2>2. t.u \in Int /\ t.v \in Int
    BY <1>4 DEF Turn
  <2>3. 0 * x + (-1) * y + t.u = t.u - y /\ 1 * x + 0 * y + t.v = x + t.v
    BY <2>2
  <2> QED
    BY <1>1, <2>1, <2>2, <2>3
<1>5. ASSUME Turn(t, -1, 0, 0, -1) PROVE TransformPoint(t, <<x, y>>) = <<t.u - x, t.v - y>>
  <2>1. TransformPoint(t, <<x, y>>) =
          <<((-1) * x + 0 * y + t.u) \div 1, (0 * x + (-1) * y + t.v) \div 1>>
    BY <1>2, <1>5 DEF Turn
  <2>2. t.u \in Int /\ t.v \in Int
    BY <1>5 DEF Turn
  <2>3. (-1) * x + 0 * y + t.u = t.u - x /\ 0 * x + (-1) * y + t.v = t.v - y
    BY <2>2
  <2> QED
    BY <1>1, <2>1, <2>2, <2>3
<1>6. ASSUME Turn(t, 0, 1, -1, 0) PROVE TransformPoint(t, <<x, y>>) = <<y + t.u, t.v - x>>
  <2>1. TransformPoint(t, <<x, y>>) =
          <<(0 * x + 1 * y + t.u) \div 1, ((-1) * x + 0 * y + t.v) \div 1>>
    BY <1>2, <1>6 DEF Turn
  <2>2. t.u \in Int /\ t.v \in Int
    BY <1>6 DEF Turn
  <2>3. 0 * x + 1 * y + t.u = y + t.u /\ (-1) * x + 0 * y + t.v = t.v - x
    BY <2>2
  <2> QED
    BY <1>1, <2>1, <2>2, <2>3
<1> QED
  BY <1>3, <1>4, <1>5, <1>6

LEMMA CornersAre ==
  ASSUME NEW t, NEW r
  PROVE  {TransformPoint(t, Corners(r)[i]) : i \in 1 .. 4} =
           {TransformPoint(t, <<r.x, r.y>>), TransformPoint(t, <<r.x + r.w, r.y>>),
            TransformPoint(t, <<r.x + r.w, r.y + r.h>>), TransformPoint(t, <<r.x, r.y + r.h>>)}
<1>1. 1 .. 4 = {1, 2, 3, 4}
  OBVIOUS
<1>2. /\ Corners(r)[1] = <<r.x, r.y>> /\ Corners(r)[2] = <<r.x + r.w, r.y>>
      /\ Corners(r)[3] = <<r.x + r.w, r.y + r.h>> /\ Corners(r)[4] = <<r.x, r.y + r.h>>
  BY DEF Corners
<1> QED
  BY <1>1, <1>2

\* Where it takes a rectangle.
LEMMA TurnedRect ==
  ASSUME NEW t, NEW r, Upright(r)
  PROVE  /\ Turn(t, 1, 0, 0, 1) => TransformRect(t, r) = Rect(r.x + t.u, r.y + t.v, r.w, r.h)
         /\ Turn(t, 0, -1, 1, 0) => TransformRect(t, r) = Rect(t.u - r.y - r.h, r.x + t.v, r.h, r.w)
         /\ Turn(t, -1, 0, 0, -1) => TransformRect(t, r) = Rect(t.u - r.x - r.w, t.v - r.y - r.h, r.w, r.h)
         /\ Turn(t, 0, 1, -1, 0) => TransformRect(t, r) = Rect(r.y + t.u, t.v - r.x - r.w, r.h, r.w)
<1> DEFINE x == r.x
           y == r.y
           w == r.w
           h == r.h
           u == t.u
           v == t.v
           P(px, py) == TransformPoint(t, <<px, py>>)
           points == {P(x, y), P(x + w, y), P(x + w, y + h), P(x, y + h)}
<1>1. x \in Int /\ y \in Int /\ w \in Nat /\ h \in Nat
  BY DEF Upright, RectRecord
<1>2. TransformRect(t, r) = BoundingRect(points)
  BY CornersAre DEF TransformRect
<1>3. \A px, py \in Int :
        /\ Turn(t, 1, 0, 0, 1) => P(px, py) = <<px + u, py + v>>
        /\ Turn(t, 0, -1, 1, 0) => P(px, py) = <<u - py, px + v>>
        /\ Turn(t, -1, 0, 0, -1) => P(px, py) = <<u - px, v - py>>
        /\ Turn(t, 0, 1, -1, 0) => P(px, py) = <<py + u, v - px>>
  BY PointIs
<1> DEFINE Goal(ox, oy, ow, oh) == TransformRect(t, r) = Rect(ox, oy, ow, oh)
<1> HIDE DEF x, y, w, h, P
<1>4. ASSUME Turn(t, 1, 0, 0, 1) PROVE Goal(x + u, y + v, w, h)
  <2>1. u \in Int /\ v \in Int /\ \A px, py \in Int : P(px, py) = <<px + u, py + v>>
    BY <1>3, <1>4 DEF Turn
  <2> HIDE DEF u, v
  <2> DEFINE l == x + u
             k == y + v
  <2>2. points = {<<l, k>>, <<l + w, k>>, <<l + w, k + h>>, <<l, k + h>>}
    <3>1. P(x, y) = <<l, k>> /\ P(x + w, y) = <<l + w, k>>
          /\ P(x + w, y + h) = <<l + w, k + h>> /\ P(x, y + h) = <<l, k + h>>
      BY <1>1, <2>1
    <3> QED
      BY <3>1
  <2>3. l \in Int /\ k \in Int
    BY <1>1, <2>1
  <2> HIDE DEF l, k, points
  <2>4. BoundingRect(points) = Rect(l, k, w, h)
    BY <1>1, <2>2, <2>3, BoxAround
  <2> QED
    BY <1>2, <2>4 DEF l, k
<1>5. ASSUME Turn(t, 0, -1, 1, 0) PROVE Goal(u - y - h, x + v, h, w)
  <2>1. u \in Int /\ v \in Int /\ \A px, py \in Int : P(px, py) = <<u - py, px + v>>
    BY <1>3, <1>5 DEF Turn
  <2> HIDE DEF u, v
  <2> DEFINE l == u - y - h
             k == x + v
  <2>2. points = {<<l, k>>, <<l + h, k>>, <<l + h, k + w>>, <<l, k + w>>}
    <3>1. P(x, y) = <<l + h, k>> /\ P(x + w, y) = <<l + h, k + w>>
          /\ P(x + w, y + h) = <<l, k + w>> /\ P(x, y + h) = <<l, k>>
      BY <1>1, <2>1
    <3> QED
      BY <3>1
  <2>3. l \in Int /\ k \in Int
    BY <1>1, <2>1
  <2> HIDE DEF l, k, points
  <2>4. BoundingRect(points) = Rect(l, k, h, w)
    BY <1>1, <2>2, <2>3, BoxAround
  <2> QED
    BY <1>2, <2>4 DEF l, k
<1>6. ASSUME Turn(t, -1, 0, 0, -1) PROVE Goal(u - x - w, v - y - h, w, h)
  <2>1. u \in Int /\ v \in Int /\ \A px, py \in Int : P(px, py) = <<u - px, v - py>>
    BY <1>3, <1>6 DEF Turn
  <2> HIDE DEF u, v
  <2> DEFINE l == u - x - w
             k == v - y - h
  <2>2. points = {<<l, k>>, <<l + w, k>>, <<l + w, k + h>>, <<l, k + h>>}
    <3>1. P(x, y) = <<l + w, k + h>> /\ P(x + w, y) = <<l, k + h>>
          /\ P(x + w, y + h) = <<l, k>> /\ P(x, y + h) = <<l + w, k>>
      BY <1>1, <2>1
    <3> QED
      BY <3>1
  <2>3. l \in Int /\ k \in Int
    BY <1>1, <2>1
  <2> HIDE DEF l, k, points
  <2>4. BoundingRect(points) = Rect(l, k, w, h)
    BY <1>1, <2>2, <2>3, BoxAround
  <2> QED
    BY <1>2, <2>4 DEF l, k
<1>7. ASSUME Turn(t, 0, 1, -1, 0) PROVE Goal(y + u, v - x - w, h, w)
  <2>1. u \in Int /\ v \in Int /\ \A px, py \in Int : P(px, py) = <<py + u, v - px>>
    BY <1>3, <1>7 DEF Turn
  <2> HIDE DEF u, v
  <2> DEFINE l == y + u
             k == v - x - w
  <2>2. points = {<<l, k>>, <<l + h, k>>, <<l + h, k + w>>, <<l, k + w>>}
    <3>1. P(x, y) = <<l, k + w>> /\ P(x + w, y) = <<l, k>>
          /\ P(x + w, y + h) = <<l + h, k>> /\ P(x, y + h) = <<l + h, k + w>>
      BY <1>1, <2>1
    <3> QED
      BY <3>1
  <2>3. l \in Int /\ k \in Int
    BY <1>1, <2>1
  <2> HIDE DEF l, k, points
  <2>4. BoundingRect(points) = Rect(l, k, h, w)
    BY <1>1, <2>2, <2>3, BoxAround
  <2> QED
    BY <1>2, <2>4 DEF l, k
<1> QED
  BY <1>4, <1>5, <1>6, <1>7 DEF x, y, w, h

LEMMA MeetingIs ==
  ASSUME NEW a \in RectRecord, NEW b \in RectRecord
  PROVE  RectsOverlap(a, b) <=>
           /\ a.w > 0 /\ b.w > 0 /\ a.x < b.x + b.w /\ b.x < a.x + a.w
           /\ a.h > 0 /\ b.h > 0 /\ a.y < b.y + b.h /\ b.y < a.y + a.h
<1> DEFINE across == Overlap(a.x, a.w, b.x, b.w)
           down == Overlap(a.y, a.h, b.y, b.h)
<1>1. /\ across \in Nat /\ ((across > 0) <=> (a.w > 0 /\ b.w > 0 /\ a.x < b.x + b.w /\ b.x < a.x + a.w))
      /\ down \in Nat /\ ((down > 0) <=> (a.h > 0 /\ b.h > 0 /\ a.y < b.y + b.h /\ b.y < a.y + a.h))
  BY OverlapIs DEF RectRecord
<1>2. IntersectionArea(a, b) = across * down
  BY DEF IntersectionArea
<1> HIDE DEF across, down
<1>3. across * down > 0 <=> (across > 0 /\ down > 0)
  BY <1>1, AreaIsPositive
<1> QED
  BY <1>1, <1>2, <1>3 DEF RectsOverlap

-----------------------------------------------------------------------------
\* The way back turns the other way.
TurnsBack(t, s) ==
  /\ Turn(t, 1, 0, 0, 1) => Turn(s, 1, 0, 0, 1) /\ s.u = -t.u /\ s.v = -t.v
  /\ Turn(t, 0, -1, 1, 0) => Turn(s, 0, 1, -1, 0) /\ s.u = -t.v /\ s.v = t.u
  /\ Turn(t, -1, 0, 0, -1) => Turn(s, -1, 0, 0, -1) /\ s.u = t.u /\ s.v = t.v
  /\ Turn(t, 0, 1, -1, 0) => Turn(s, 0, -1, 1, 0) /\ s.u = t.v /\ s.v = -t.u

LEMMA TurnNumbers ==
  ASSUME NEW u \in Int, NEW v \in Int
  PROVE  /\ 1 * (0 * v - u * 1) = -u /\ 1 * (u * 0 - 1 * v) = -v
         /\ 1 * ((-1) * v - u * 0) = -v /\ 1 * (u * 1 - 0 * v) = u
         /\ 1 * (0 * v - u * (-1)) = u /\ 1 * (u * 0 - (-1) * v) = v
         /\ 1 * (1 * v - u * 0) = v /\ 1 * (u * (-1) - 0 * v) = -u
         /\ 1 * 1 * 0 = 0 /\ 1 * 1 * 1 = 1 /\ 1 * 1 * (-1) = -1
         /\ 0 - 1 * 1 * 0 = 0 /\ 0 - 1 * 1 * 1 = -1 /\ 0 - 1 * 1 * (-1) = 1 /\ 1 * 1 = 1
OBVIOUS

LEMMA InverseTurnsBack ==
  ASSUME NEW t, Turned(t)
  PROVE  Inverse2D(t).status = "kOk" /\ TurnsBack(t, Inverse2D(t).value)
<1> DEFINE Way(det, sign) ==
      Transform(t.to, t.from,
                sign * t.den * t.d, -sign * t.den * t.b, sign * (t.b * t.v - t.u * t.d),
                -sign * t.den * t.c, sign * t.den * t.a, sign * (t.u * t.c - t.a * t.v), sign * det)
           s == Inverse2D(t).value
<1>1. t.a * t.d - t.b * t.c = 1
  BY DEF Turned, Turn
<1>2. Inverse2D(t) = Ok(Way(1, 1))
  BY <1>1 DEF Inverse2D
<1>3. /\ s.a = 1 * t.den * t.d /\ s.b = 0 - 1 * t.den * t.b /\ s.u = 1 * (t.b * t.v - t.u * t.d)
      /\ s.c = 0 - 1 * t.den * t.c /\ s.d = 1 * t.den * t.a /\ s.v = 1 * (t.u * t.c - t.a * t.v)
      /\ s.den = 1 * 1
  <2>1. \A z \in Int : -z = 0 - z
    OBVIOUS
  <2>2. 1 * t.den * t.b \in Int /\ 1 * t.den * t.c \in Int
    BY DEF Turned, Turn
  <2>3. s.b = -(1 * t.den * t.b) /\ s.c = -(1 * t.den * t.c)
    BY <1>2 DEF Ok, Transform
  <2>4. s.b = 0 - 1 * t.den * t.b /\ s.c = 0 - 1 * t.den * t.c
    <3> HIDE DEF s
    <3> QED
      BY <2>1, <2>2, <2>3
  <2> QED
    BY <1>2, <2>4 DEF Ok, Transform
<1> HIDE DEF s
<1>4. ASSUME Turn(t, 1, 0, 0, 1) PROVE Turn(s, 1, 0, 0, 1) /\ s.u = -t.u /\ s.v = -t.v
  <2>1. t.u \in Int /\ t.v \in Int
    BY <1>4 DEF Turn
  <2>2. /\ s.a = 1 * 1 * 1 /\ s.b = 0 - 1 * 1 * 0 /\ s.u = 1 * (0 * t.v - t.u * 1)
        /\ s.c = 0 - 1 * 1 * 0 /\ s.d = 1 * 1 * 1 /\ s.v = 1 * (t.u * 0 - 1 * t.v)
        /\ s.den = 1 * 1
    BY <1>3, <1>4 DEF Turn
  <2>3. s.a = 1 /\ s.b = 0 /\ s.c = 0 /\ s.d = 1 /\ s.u = -t.u /\ s.v = -t.v /\ s.den = 1
    BY <2>1, <2>2, TurnNumbers
  <2> QED
    BY <2>1, <2>3 DEF Turn
<1>5. ASSUME Turn(t, 0, -1, 1, 0) PROVE Turn(s, 0, 1, -1, 0) /\ s.u = -t.v /\ s.v = t.u
  <2>1. t.u \in Int /\ t.v \in Int
    BY <1>5 DEF Turn
  <2>2. /\ s.a = 1 * 1 * 0 /\ s.b = 0 - 1 * 1 * (-1) /\ s.u = 1 * ((-1) * t.v - t.u * 0)
        /\ s.c = 0 - 1 * 1 * 1 /\ s.d = 1 * 1 * 0 /\ s.v = 1 * (t.u * 1 - 0 * t.v)
        /\ s.den = 1 * 1
    BY <1>3, <1>5 DEF Turn
  <2>3. s.a = 0 /\ s.b = 1 /\ s.c = (-1) /\ s.d = 0 /\ s.u = -t.v /\ s.v = t.u /\ s.den = 1
    BY <2>1, <2>2, TurnNumbers
  <2> QED
    BY <2>1, <2>3 DEF Turn
<1>6. ASSUME Turn(t, -1, 0, 0, -1) PROVE Turn(s, -1, 0, 0, -1) /\ s.u = t.u /\ s.v = t.v
  <2>1. t.u \in Int /\ t.v \in Int
    BY <1>6 DEF Turn
  <2>2. /\ s.a = 1 * 1 * (-1) /\ s.b = 0 - 1 * 1 * 0 /\ s.u = 1 * (0 * t.v - t.u * (-1))
        /\ s.c = 0 - 1 * 1 * 0 /\ s.d = 1 * 1 * (-1) /\ s.v = 1 * (t.u * 0 - (-1) * t.v)
        /\ s.den = 1 * 1
    BY <1>3, <1>6 DEF Turn
  <2>3. s.a = (-1) /\ s.b = 0 /\ s.c = 0 /\ s.d = (-1) /\ s.u = t.u /\ s.v = t.v /\ s.den = 1
    BY <2>1, <2>2, TurnNumbers
  <2> QED
    BY <2>1, <2>3 DEF Turn
<1>7. ASSUME Turn(t, 0, 1, -1, 0) PROVE Turn(s, 0, -1, 1, 0) /\ s.u = t.v /\ s.v = -t.u
  <2>1. t.u \in Int /\ t.v \in Int
    BY <1>7 DEF Turn
  <2>2. /\ s.a = 1 * 1 * 0 /\ s.b = 0 - 1 * 1 * 1 /\ s.u = 1 * (1 * t.v - t.u * 0)
        /\ s.c = 0 - 1 * 1 * (-1) /\ s.d = 1 * 1 * 0 /\ s.v = 1 * (t.u * (-1) - 0 * t.v)
        /\ s.den = 1 * 1
    BY <1>3, <1>7 DEF Turn
  <2>3. s.a = 0 /\ s.b = (-1) /\ s.c = 1 /\ s.d = 0 /\ s.u = t.v /\ s.v = -t.u /\ s.den = 1
    BY <2>1, <2>2, TurnNumbers
  <2> QED
    BY <2>1, <2>3 DEF Turn
<1>8. Inverse2D(t).status = "kOk"
  BY <1>2 DEF Ok
<1> QED
  BY <1>4, <1>5, <1>6, <1>7, <1>8 DEF TurnsBack, s

\* Turned and moved together, two rectangles overlap as before.
LEMMA OverlapTravels ==
  ASSUME NEW t, NEW s, Turned(t), TurnsBack(t, s), NEW b, NEW p, Upright(b), Upright(p)
  PROVE  RectsOverlap(b, TransformRect(t, p)) <=> RectsOverlap(TransformRect(s, b), p)
<1>1. /\ b \in RectRecord /\ p \in RectRecord /\ t.u \in Int /\ t.v \in Int
      /\ b.x \in Int /\ b.y \in Int /\ b.w \in Int /\ b.h \in Int
      /\ p.x \in Int /\ p.y \in Int /\ p.w \in Int /\ p.h \in Int
  BY DEF Upright, RectRecord, Turned, Turn
<1>2. ASSUME NEW x \in Int, NEW y \in Int, NEW w \in Int, NEW h \in Int
      PROVE  /\ Rect(x, y, w, h) \in RectRecord
             /\ Rect(x, y, w, h).x = x /\ Rect(x, y, w, h).y = y
             /\ Rect(x, y, w, h).w = w /\ Rect(x, y, w, h).h = h
  BY DEF Rect, RectRecord
<1>3. ASSUME NEW x \in Int, NEW y \in Int, NEW w \in Int, NEW h \in Int
      PROVE  /\ RectsOverlap(b, Rect(x, y, w, h)) <=>
                  /\ b.w > 0 /\ w > 0 /\ b.x < x + w /\ x < b.x + b.w
                  /\ b.h > 0 /\ h > 0 /\ b.y < y + h /\ y < b.y + b.h
             /\ RectsOverlap(Rect(x, y, w, h), p) <=>
                  /\ w > 0 /\ p.w > 0 /\ x < p.x + p.w /\ p.x < x + w
                  /\ h > 0 /\ p.h > 0 /\ y < p.y + p.h /\ p.y < y + h
  <2> DEFINE r == Rect(x, y, w, h)
  <2>1. r \in RectRecord /\ r.x = x /\ r.y = y /\ r.w = w /\ r.h = h
    BY <1>2
  <2> HIDE DEF r
  <2>2. /\ RectsOverlap(b, r) <=>
                  /\ b.w > 0 /\ r.w > 0 /\ b.x < r.x + r.w /\ r.x < b.x + b.w
                  /\ b.h > 0 /\ r.h > 0 /\ b.y < r.y + r.h /\ r.y < b.y + b.h
    BY <1>1, <2>1, MeetingIs
  <2>3. /\ RectsOverlap(r, p) <=>
                  /\ r.w > 0 /\ p.w > 0 /\ r.x < p.x + p.w /\ p.x < r.x + r.w
                  /\ r.h > 0 /\ p.h > 0 /\ r.y < p.y + p.h /\ p.y < r.y + r.h
    BY <1>1, <2>1, MeetingIs
  <2> QED
    BY <2>1, <2>2, <2>3 DEF r
<1>4. CASE Turn(t, 1, 0, 0, 1)
  <2>1. s.u = -t.u /\ s.v = -t.v /\ Turn(s, 1, 0, 0, 1)
    BY <1>4 DEF TurnsBack
  <2>2. TransformRect(t, p) = Rect(p.x + t.u, p.y + t.v, p.w, p.h)
    BY <1>4, TurnedRect
  <2>3. TransformRect(s, b) = Rect(b.x + s.u, b.y + s.v, b.w, b.h)
    BY <2>1, TurnedRect
  <2> DEFINE x == p.x + t.u
             y == p.y + t.v
             k == b.x + s.u
             l == b.y + s.v
  <2>4. x \in Int /\ y \in Int /\ k \in Int /\ l \in Int
    BY <1>1, <2>1
  <2>5. TransformRect(t, p) = Rect(x, y, p.w, p.h) /\ TransformRect(s, b) = Rect(k, l, b.w, b.h)
    BY <2>2, <2>3
  <2> HIDE DEF x, y, k, l
  <2>6. /\ RectsOverlap(b, TransformRect(t, p)) <=>
             /\ b.w > 0 /\ p.w > 0 /\ b.x < x + p.w /\ x < b.x + b.w
             /\ b.h > 0 /\ p.h > 0 /\ b.y < y + p.h /\ y < b.y + b.h
        /\ RectsOverlap(TransformRect(s, b), p) <=>
             /\ b.w > 0 /\ p.w > 0 /\ k < p.x + p.w /\ p.x < k + b.w
             /\ b.h > 0 /\ p.h > 0 /\ l < p.y + p.h /\ p.y < l + b.h
    <3>1. /\ RectsOverlap(b, Rect(x, y, p.w, p.h)) <=>
               /\ b.w > 0 /\ p.w > 0 /\ b.x < x + p.w /\ x < b.x + b.w
               /\ b.h > 0 /\ p.h > 0 /\ b.y < y + p.h /\ y < b.y + b.h
          /\ RectsOverlap(Rect(k, l, b.w, b.h), p) <=>
               /\ b.w > 0 /\ p.w > 0 /\ k < p.x + p.w /\ p.x < k + b.w
               /\ b.h > 0 /\ p.h > 0 /\ l < p.y + p.h /\ p.y < l + b.h
      BY <1>1, <1>3, <2>4
    <3> QED
      BY <2>5, <3>1
  <2> QED
    BY <1>1, <2>1, <2>6 DEF x, y, k, l
<1>5. CASE Turn(t, 0, -1, 1, 0)
  <2>1. s.u = -t.v /\ s.v = t.u /\ Turn(s, 0, 1, -1, 0)
    BY <1>5 DEF TurnsBack
  <2>2. TransformRect(t, p) = Rect(t.u - p.y - p.h, p.x + t.v, p.h, p.w)
    BY <1>5, TurnedRect
  <2>3. TransformRect(s, b) = Rect(b.y + s.u, s.v - b.x - b.w, b.h, b.w)
    BY <2>1, TurnedRect
  <2> DEFINE x == t.u - p.y - p.h
             y == p.x + t.v
             k == b.y + s.u
             l == s.v - b.x - b.w
  <2>4. x \in Int /\ y \in Int /\ k \in Int /\ l \in Int
    BY <1>1, <2>1
  <2>5. TransformRect(t, p) = Rect(x, y, p.h, p.w) /\ TransformRect(s, b) = Rect(k, l, b.h, b.w)
    BY <2>2, <2>3
  <2> HIDE DEF x, y, k, l
  <2>6. /\ RectsOverlap(b, TransformRect(t, p)) <=>
             /\ b.w > 0 /\ p.h > 0 /\ b.x < x + p.h /\ x < b.x + b.w
             /\ b.h > 0 /\ p.w > 0 /\ b.y < y + p.w /\ y < b.y + b.h
        /\ RectsOverlap(TransformRect(s, b), p) <=>
             /\ b.h > 0 /\ p.w > 0 /\ k < p.x + p.w /\ p.x < k + b.h
             /\ b.w > 0 /\ p.h > 0 /\ l < p.y + p.h /\ p.y < l + b.w
    <3>1. /\ RectsOverlap(b, Rect(x, y, p.h, p.w)) <=>
               /\ b.w > 0 /\ p.h > 0 /\ b.x < x + p.h /\ x < b.x + b.w
               /\ b.h > 0 /\ p.w > 0 /\ b.y < y + p.w /\ y < b.y + b.h
          /\ RectsOverlap(Rect(k, l, b.h, b.w), p) <=>
               /\ b.h > 0 /\ p.w > 0 /\ k < p.x + p.w /\ p.x < k + b.h
               /\ b.w > 0 /\ p.h > 0 /\ l < p.y + p.h /\ p.y < l + b.w
      BY <1>1, <1>3, <2>4
    <3> QED
      BY <2>5, <3>1
  <2> QED
    BY <1>1, <2>1, <2>6 DEF x, y, k, l
<1>6. CASE Turn(t, -1, 0, 0, -1)
  <2>1. s.u = t.u /\ s.v = t.v /\ Turn(s, -1, 0, 0, -1)
    BY <1>6 DEF TurnsBack
  <2>2. TransformRect(t, p) = Rect(t.u - p.x - p.w, t.v - p.y - p.h, p.w, p.h)
    BY <1>6, TurnedRect
  <2>3. TransformRect(s, b) = Rect(s.u - b.x - b.w, s.v - b.y - b.h, b.w, b.h)
    BY <2>1, TurnedRect
  <2> DEFINE x == t.u - p.x - p.w
             y == t.v - p.y - p.h
             k == s.u - b.x - b.w
             l == s.v - b.y - b.h
  <2>4. x \in Int /\ y \in Int /\ k \in Int /\ l \in Int
    BY <1>1, <2>1
  <2>5. TransformRect(t, p) = Rect(x, y, p.w, p.h) /\ TransformRect(s, b) = Rect(k, l, b.w, b.h)
    BY <2>2, <2>3
  <2> HIDE DEF x, y, k, l
  <2>6. /\ RectsOverlap(b, TransformRect(t, p)) <=>
             /\ b.w > 0 /\ p.w > 0 /\ b.x < x + p.w /\ x < b.x + b.w
             /\ b.h > 0 /\ p.h > 0 /\ b.y < y + p.h /\ y < b.y + b.h
        /\ RectsOverlap(TransformRect(s, b), p) <=>
             /\ b.w > 0 /\ p.w > 0 /\ k < p.x + p.w /\ p.x < k + b.w
             /\ b.h > 0 /\ p.h > 0 /\ l < p.y + p.h /\ p.y < l + b.h
    <3>1. /\ RectsOverlap(b, Rect(x, y, p.w, p.h)) <=>
               /\ b.w > 0 /\ p.w > 0 /\ b.x < x + p.w /\ x < b.x + b.w
               /\ b.h > 0 /\ p.h > 0 /\ b.y < y + p.h /\ y < b.y + b.h
          /\ RectsOverlap(Rect(k, l, b.w, b.h), p) <=>
               /\ b.w > 0 /\ p.w > 0 /\ k < p.x + p.w /\ p.x < k + b.w
               /\ b.h > 0 /\ p.h > 0 /\ l < p.y + p.h /\ p.y < l + b.h
      BY <1>1, <1>3, <2>4
    <3> QED
      BY <2>5, <3>1
  <2> QED
    BY <1>1, <2>1, <2>6 DEF x, y, k, l
<1>7. CASE Turn(t, 0, 1, -1, 0)
  <2>1. s.u = t.v /\ s.v = -t.u /\ Turn(s, 0, -1, 1, 0)
    BY <1>7 DEF TurnsBack
  <2>2. TransformRect(t, p) = Rect(p.y + t.u, t.v - p.x - p.w, p.h, p.w)
    BY <1>7, TurnedRect
  <2>3. TransformRect(s, b) = Rect(s.u - b.y - b.h, b.x + s.v, b.h, b.w)
    BY <2>1, TurnedRect
  <2> DEFINE x == p.y + t.u
             y == t.v - p.x - p.w
             k == s.u - b.y - b.h
             l == b.x + s.v
  <2>4. x \in Int /\ y \in Int /\ k \in Int /\ l \in Int
    BY <1>1, <2>1
  <2>5. TransformRect(t, p) = Rect(x, y, p.h, p.w) /\ TransformRect(s, b) = Rect(k, l, b.h, b.w)
    BY <2>2, <2>3
  <2> HIDE DEF x, y, k, l
  <2>6. /\ RectsOverlap(b, TransformRect(t, p)) <=>
             /\ b.w > 0 /\ p.h > 0 /\ b.x < x + p.h /\ x < b.x + b.w
             /\ b.h > 0 /\ p.w > 0 /\ b.y < y + p.w /\ y < b.y + b.h
        /\ RectsOverlap(TransformRect(s, b), p) <=>
             /\ b.h > 0 /\ p.w > 0 /\ k < p.x + p.w /\ p.x < k + b.h
             /\ b.w > 0 /\ p.h > 0 /\ l < p.y + p.h /\ p.y < l + b.w
    <3>1. /\ RectsOverlap(b, Rect(x, y, p.h, p.w)) <=>
               /\ b.w > 0 /\ p.h > 0 /\ b.x < x + p.h /\ x < b.x + b.w
               /\ b.h > 0 /\ p.w > 0 /\ b.y < y + p.w /\ y < b.y + b.h
          /\ RectsOverlap(Rect(k, l, b.h, b.w), p) <=>
               /\ b.h > 0 /\ p.w > 0 /\ k < p.x + p.w /\ p.x < k + b.h
               /\ b.w > 0 /\ p.h > 0 /\ l < p.y + p.h /\ p.y < l + b.w
      BY <1>1, <1>3, <2>4
    <3> QED
      BY <2>5, <3>1
  <2> QED
    BY <1>1, <2>1, <2>6 DEF x, y, k, l
<1> QED
  BY <1>4, <1>5, <1>6, <1>7 DEF Turned

-----------------------------------------------------------------------------
(* What the preparation makes *)

\* Where nothing fails, every check of a sequence has passed.
LEMMA NothingFails ==
  ASSUME NEW statuses, NEW n \in Nat, DOMAIN statuses = 1 .. n, FirstFailure(statuses) = "kOk"
  PROVE  \A i \in 1 .. n : statuses[i] = "kOk"
<1> DEFINE failed == {i \in DOMAIN statuses : statuses[i] # "kOk"}
<1> SUFFICES ASSUME failed # {} PROVE FALSE
  OBVIOUS
<1>1. failed \in SUBSET Nat
  OBVIOUS
<1>2. Min(failed) \in failed
  <2> HIDE DEF failed
  <2> QED
    BY <1>1, LeastOf DEF Min
<1>3. FirstFailure(statuses) = statuses[Min(failed)]
  BY DEF FirstFailure
<1> QED
  BY <1>2, <1>3

\* The checks that a call which is prepared has passed.
LEMMA AcceptedCall ==
  ASSUME NEW asked, RefusedCall(asked) = "kOk"
  PROVE  /\ ValidImage(asked.frame.image)
         /\ ValidRequest(asked.request) = "kOk"
         /\ asked.request.priority_space \in {"kOriented", "kFrame"}
         /\ ExecutedRoi(asked.frame.image, asked.request).status = "kOk"
<1> DEFINE one == Requires(asked.backend.present, "kBackendUnavailable")
           two == CheckFrame(asked.frame)
           three == ValidRequest(asked.request)
           four == Requires(asked.request.priority_space \in {"kOriented", "kFrame"}, "kInvalidArgument")
           five == Requires(asked.request.finalize_reserve # {} => asked.deadline # {}, "kInvalidArgument")
           six == Requires(ValidBackendInfo(asked.backend), "kBackendUnavailable")
           seven == ExecutedRoi(asked.frame.image, asked.request).status
           checks == <<one, two, three, four, five, six, seven>>
<1>1. FirstFailure(checks) = "kOk"
  BY DEF RefusedCall
<1> HIDE DEF one, two, three, four, five, six, seven
<1>2. 7 \in Nat /\ DOMAIN checks = 1 .. 7
  OBVIOUS
<1>3. \A i \in 1 .. 7 : checks[i] = "kOk"
  <2> HIDE DEF checks
  <2> QED
    BY <1>1, <1>2, NothingFails
<1>4. /\ checks[2] = "kOk" /\ checks[2] = two
      /\ checks[3] = "kOk" /\ checks[3] = three
      /\ checks[4] = "kOk" /\ checks[4] = four
      /\ checks[7] = "kOk" /\ checks[7] = seven
  BY <1>3
<1>5. two = "kOk" /\ three = "kOk" /\ four = "kOk" /\ seven = "kOk"
  BY <1>4
<1> QED
  BY <1>5 DEF two, three, four, seven, CheckFrame, Requires

\* What the preparation of a call is made of.
RoiOf(asked) == ExecutedRoi(asked.frame.image, asked.request).value
CropOf(asked) == Crop(asked.frame.image, RoiOf(asked), WorkBudget(asked.frame.image))
ChainOf(asked) ==
  PrepareChain(CropOf(asked).value, RoiOf(asked), asked.request.max_side, asked.backend.accepts,
               asked.frame.image)

LEMMA PreparationIs ==
  ASSUME NEW asked \in Calls, Preparations[asked].status = "kOk"
  PROVE  /\ RefusedCall(asked) = "kOk" /\ CropOf(asked).status = "kOk" /\ ChainOf(asked).status = "kOk"
         /\ Preparations[asked].value.image = ChainOf(asked).value
         /\ Preparations[asked].value.request = BackendRequest(ChainOf(asked).value, asked.request)
<1>1. Preparations[asked] = Preparation(asked)
  BY DEF Preparations, Table
<1> DEFINE image == asked.frame.image
           roi == ExecutedRoi(image, asked.request).value
           refused == RefusedCall(asked)
           cropped == Crop(image, roi, WorkBudget(image))
           prepared == PrepareChain(cropped.value, roi, asked.request.max_side, asked.backend.accepts, image)
           batch == BackendRequest(prepared.value, asked.request)
           valid == ValidateOcrBatchRequest(batch)
           made == [roi |-> roi, image |-> prepared.value, request |-> batch]
<1>2. refused = "kOk" /\ cropped.status = "kOk" /\ prepared.status = "kOk" /\ Preparation(asked) = Ok(made)
  <2> HIDE DEF image, roi, refused, cropped, prepared, batch, valid
  <2>1. Preparation(asked).status = "kOk"
    BY <1>1
  <2>2. Preparation(asked) = IF refused # "kOk" THEN Failed(refused)
                             ELSE IF cropped.status # "kOk" THEN cropped
                             ELSE IF prepared.status # "kOk" THEN prepared
                             ELSE IF valid # "kOk" THEN Failed(valid) ELSE Ok(made)
    BY DEF Preparation, Then, image, roi, refused, cropped, prepared, batch, valid
  <2> QED
    BY <2>1, <2>2 DEF Failed
<1>3. made.image = prepared.value /\ made.request = batch
  <2> HIDE DEF prepared, batch, roi
  <2> QED
    OBVIOUS
<1> QED
  BY <1>1, <1>2, <1>3 DEF RoiOf, CropOf, ChainOf, Ok

\* The transform into the space that a call names its priorities in.
WayIn(prepared, asked) ==
  IF asked.priority_space = "kFrame" THEN prepared.from_frame ELSE prepared.from_oriented

\* The entries of a prepared request are those of the caller, moved.
LEMMA EntriesAreMoved ==
  ASSUME NEW asked \in Calls, Preparations[asked].status = "kOk"
  PROVE  LET mine == asked.request.priorities
             moved == Preparations[asked].value.request.priorities
             way == WayIn(Preparations[asked].value.image, asked.request)
         IN  /\ Len(mine) \in Nat /\ DOMAIN mine = 1 .. Len(mine) /\ DOMAIN moved = 1 .. Len(mine)
             /\ \A i \in 1 .. Len(mine) : /\ mine[i].roi \in RectRecord /\ mine[i].priority \in Int
                                          /\ moved[i].priority = mine[i].priority
                                          /\ moved[i].roi = TransformRect(way, mine[i].roi)
<1> DEFINE mine == asked.request.priorities
           made == Preparations[asked].value.image
           moved == Preparations[asked].value.request.priorities
           way == WayIn(made, asked.request)
<1>1. asked.request \in BudgetedOcrRequest
  BY RequestsAreTyped
<1>0. mine \in Seq([roi : RectRecord, priority : Int])
  BY <1>1 DEF BudgetedOcrRequest
<1>2. Preparations[asked].value.request = BackendRequest(made, asked.request)
  BY PreparationIs
<1>3. moved = ConvertedPriorities(made, asked.request)
  BY <1>1, <1>2 DEF BackendRequest, BudgetedOcrRequest
<1>4. moved = [i \in DOMAIN mine |-> [mine[i] EXCEPT !.roi = TransformRect(way, @)]]
  BY <1>3 DEF ConvertedPriorities, WayIn
<1> HIDE DEF moved, way, mine
<1>5. Len(mine) \in Nat /\ DOMAIN mine = 1 .. Len(mine)
      /\ \A i \in 1 .. Len(mine) : mine[i] \in [roi : RectRecord, priority : Int]
  BY <1>0, ElementOfSeq, LenProperties
<1>6. ASSUME NEW i \in 1 .. Len(mine)
      PROVE  moved[i].priority = mine[i].priority /\ moved[i].roi = TransformRect(way, mine[i].roi)
  BY <1>4, <1>5
<1> QED
  BY <1>4, <1>5, <1>6 DEF moved, way, mine

-----------------------------------------------------------------------------
(* The lines of the detection *)

LEMMA ClampIsWhole ==
  ASSUME NEW v \in Int, NEW low \in Int, NEW high \in Int
  PROVE  Clamp(v, low, high) \in Int
<1> DEFINE lesser == Min({v, high})
<1>1. lesser \in Int
  BY MinMaxOfTwo
<1> HIDE DEF lesser
<1>2. Max({low, lesser}) \in Int
  BY <1>1, MinMaxOfTwo
<1> QED
  BY <1>2 DEF Clamp, lesser

\* A canvas is made of a valid image, with a scale and margins.
LEMMA CanvasIsWhole ==
  ASSUME NEW image, NEW side \in Nat \ {0}, NEW stride \in Nat \ {0}, NEW budget,
         DetCanvas(image, side, stride, budget).status = "kOk"
  PROVE  LET canvas == DetCanvas(image, side, stride, budget).value
         IN  /\ image.w \in Int /\ image.h \in Int
             /\ canvas.left \in Int /\ canvas.top \in Int
             /\ canvas.scale[1] \in Nat \ {0} /\ canvas.scale[2] \in Int
<1> DEFINE long == Max({image.w, image.h})
           scale == IF long > side THEN <<side, long>> ELSE One
           rw == RoundedSize(image.w, scale, side)
           rh == RoundedSize(image.h, scale, side)
           cw == ((rw + stride - 1) \div stride) * stride
           ch == ((rh + stride - 1) \div stride) * stride
           left == (cw - rw) \div 2
           top == (ch - rh) \div 2
           resized == ResizeArea(image, rw, rh, budget)
           buffer == Buffer("kRgb8", cw, ch, budget)
           canvas == DetCanvas(image, side, stride, budget).value
<1>1. resized.status = "kOk" /\ canvas.left = left /\ canvas.top = top /\ canvas.scale = scale
  <2>1. PICK painted : DetCanvas(image, side, stride, budget) =
          IF resized.status # "kOk" THEN resized
          ELSE IF buffer.status # "kOk" THEN buffer
          ELSE Ok([scale |-> scale, left |-> left, top |-> top, buffer |-> painted])
    <3> HIDE DEF rw, rh, cw, ch, left, top, scale, resized, buffer
    <3> QED
      BY DEF DetCanvas, Then, rw, rh, cw, ch, left, top, scale, resized, buffer, long
  <2> HIDE DEF resized, buffer, left, top, scale
  <2> QED
    BY <2>1 DEF Ok
<1>2. ValidImage(image)
  BY <1>1 DEF ResizeArea, Failed
<1>3. image.w \in 1 .. MaxDimension /\ image.h \in 1 .. MaxDimension /\ MaxDimension \in Nat
  BY <1>2, MaxDimensionIsWhole DEF ValidImage
<1>4. image.w \in Nat \ {0} /\ image.h \in Nat \ {0}
  BY <1>3
<1>5. long \in Nat \ {0}
  <2>1. long = IF image.w >= image.h THEN image.w ELSE image.h
    <3>1. image.w \in Int /\ image.h \in Int
      BY <1>4
    <3> QED
      BY <3>1, MinMaxOfTwo
  <2> HIDE DEF long
  <2> QED
    BY <1>4, <2>1
<1> HIDE DEF long
<1>6. scale[1] \in Nat \ {0} /\ scale[2] \in Nat \ {0}
  BY <1>5 DEF One
<1> HIDE DEF scale
<1>7. ASSUME NEW m \in Int, NEW n \in Nat \ {0} PROVE m \div n \in Int
  BY <1>7
<1>8. \A size \in Nat : RoundedSize(size, scale, side) \in Int
  <2> SUFFICES ASSUME NEW size \in Nat PROVE RoundedSize(size, scale, side) \in Int
    OBVIOUS
  <2>1. 2 * size * scale[1] + scale[2] \in Int /\ 2 * scale[2] \in Nat \ {0}
    BY <1>6
  <2>2. (2 * size * scale[1] + scale[2]) \div (2 * scale[2]) \in Int
    BY <1>7, <2>1
  <2> QED
    BY <2>2, ClampIsWhole DEF RoundedSize
<1>9. rw \in Int /\ rh \in Int
  BY <1>4, <1>8
<1> HIDE DEF rw, rh
<1>10. cw \in Int /\ ch \in Int
  <2>1. rw + stride - 1 \in Int /\ rh + stride - 1 \in Int
    BY <1>9
  <2>2. (rw + stride - 1) \div stride \in Int /\ (rh + stride - 1) \div stride \in Int
    BY <1>7, <2>1
  <2> QED
    BY <2>2
<1> HIDE DEF cw, ch
<1>11. left \in Int /\ top \in Int
  BY <1>9, <1>10
<1> HIDE DEF left, top
<1> QED
  BY <1>1, <1>4, <1>6, <1>11

\* What comes back from the canvas is not turned inside out.
LEMMA UnpaddedIsUpright ==
  ASSUME Canvas.status = "kOk", NEW bounds \in RectRecord,
         UnpadBounds(bounds, Canvas.value, prepared_image).status = "kOk"
  PROVE  Upright(UnpadBounds(bounds, Canvas.value, prepared_image).value)
<1> DEFINE canvas == Canvas.value
           image == prepared_image
           Back(v, pad) == ((v - pad) * canvas.scale[2]) \div canvas.scale[1]
           left == Max({0, Back(bounds.x, canvas.left)})
           top == Max({0, Back(bounds.y, canvas.top)})
           right == Min({image.w, Back(bounds.x + bounds.w, canvas.left)})
           bottom == Min({image.h, Back(bounds.y + bounds.h, canvas.top)})
<1>1. /\ image.w \in Int /\ image.h \in Int
      /\ canvas.left \in Int /\ canvas.top \in Int
      /\ canvas.scale[1] \in Nat \ {0} /\ canvas.scale[2] \in Int
  BY BackendIsCreated, CanvasIsWhole DEF AcceptedOptions, Canvas
<1>2. bounds.x \in Int /\ bounds.y \in Int /\ bounds.w \in Int /\ bounds.h \in Int
  BY DEF RectRecord
<1>3. UnpadBounds(bounds, canvas, image) =
        IF right <= left \/ bottom <= top THEN Failed("kCoordinateTransform")
        ELSE Ok(Rect(left, top, right - left, bottom - top))
  BY DEF UnpadBounds
<1> HIDE DEF canvas, image
<1>4. ASSUME NEW v \in Int, NEW pad \in Int PROVE Back(v, pad) \in Int
  <2>1. (v - pad) * canvas.scale[2] \in Int
    BY <1>1
  <2>2. \A m \in Int : \A n \in Nat \ {0} : m \div n \in Int
    OBVIOUS
  <2> QED
    BY <1>1, <2>1, <2>2
<1>5. /\ Back(bounds.x, canvas.left) \in Int /\ Back(bounds.y, canvas.top) \in Int
      /\ Back(bounds.x + bounds.w, canvas.left) \in Int /\ Back(bounds.y + bounds.h, canvas.top) \in Int
  <2>1. bounds.x + bounds.w \in Int /\ bounds.y + bounds.h \in Int
    BY <1>2
  <2> HIDE DEF Back
  <2> QED
    BY <1>1, <1>2, <1>4, <2>1
<1> HIDE DEF Back
<1>6. left \in Int /\ top \in Int /\ right \in Int /\ bottom \in Int
  <2>1. ASSUME NEW m \in Int, NEW n \in Int PROVE Max({m, n}) \in Int /\ Min({m, n}) \in Int
    BY MinMaxOfTwo
  <2>2. 0 \in Int
    OBVIOUS
  <2>3. left \in Int /\ top \in Int
    BY <1>5, <2>1, <2>2
  <2>4. right \in Int /\ bottom \in Int
    BY <1>1, <1>5, <2>1
  <2> QED
    BY <2>3, <2>4
<1> HIDE DEF left, top, right, bottom
<1>7. ~(right <= left) /\ ~(bottom <= top)
      /\ UnpadBounds(bounds, canvas, image).value = Rect(left, top, right - left, bottom - top)
  <2>1. UnpadBounds(bounds, canvas, image).status = "kOk"
    BY DEF canvas, image
  <2> QED
    BY <1>3, <2>1 DEF Failed, Ok
<1>8. right - left \in Int /\ bottom - top \in Int /\ right - left >= 0 /\ bottom - top >= 0
  BY <1>6, <1>7
<1>9. Upright(UnpadBounds(bounds, canvas, image).value)
  <2> DEFINE w == right - left
             h == bottom - top
  <2>1. UnpadBounds(bounds, canvas, image).value = Rect(left, top, w, h)
    BY <1>7
  <2>2. w \in Int /\ h \in Int /\ w >= 0 /\ h >= 0
    BY <1>8
  <2> HIDE DEF w, h
  <2> QED
    BY <1>6, <2>1, <2>2 DEF Upright, RectRecord, Rect
<1> QED
  BY <1>9 DEF canvas, image

\* So the lines that a detection keeps are whole.
LEMMA KeptBoxesAreWhole ==
  ASSUME Canvas.status = "kOk", NEW sighting \in Sightings, sighting.status = "kOk"
  PROVE  LET found == KeptBoxes(sighting.value)
         IN  /\ IsFiniteSet(DOMAIN found)
             /\ \A i \in DOMAIN found : \E bounds, score :
                  found[i] = OcrLineRecord(bounds, score) /\ Upright(bounds) /\ score \in Int
<1> DEFINE found == KeptBoxes(sighting.value)
           boxes == sighting.value
           Back(box) == UnpadBounds(box.bounds, Canvas.value, prepared_image)
           scanned == {i \in 1 .. DetLimit : i <= Len(boxes)}
           these == {i \in scanned : boxes[i].confidence >= request.min_confidence /\ Back(boxes[i]).status = "kOk"}
           kept == SortedBy(these, {pair \in these \X these : pair[1] < pair[2]})
<1>0. DetLimit \in Int
  BY BackendIsCreated DEF AcceptedOptions
<1>1. IsFiniteSet(these)
  <2>1. IsFiniteSet(1 .. DetLimit)
    BY <1>0, FS_Interval
  <2>2. these \in SUBSET (1 .. DetLimit)
    OBVIOUS
  <2> HIDE DEF these
  <2> QED
    BY <2>1, <2>2, FS_Subset
<1>2. found = [k \in DOMAIN kept |-> OcrLineRecord(Back(boxes[kept[k]]).value, boxes[kept[k]].confidence)]
  BY DEF KeptBoxes
<1>3. ASSUME NEW i \in these
      PROVE  Upright(Back(boxes[i]).value) /\ boxes[i].confidence \in Int
  <2>1. boxes \in Seq([bounds : RectRecord, confidence : Int])
    BY BoxesAreWhole
  <2>2. i \in 1 .. Len(boxes) /\ Back(boxes[i]).status = "kOk"
    <3>1. i \in 1 .. DetLimit /\ i <= Len(boxes) /\ Back(boxes[i]).status = "kOk"
      OBVIOUS
    <3>2. Len(boxes) \in Nat
      BY <2>1, LenProperties
    <3> HIDE DEF boxes, these, Back
    <3> QED
      BY <1>0, <3>1, <3>2
  <2>3. boxes[i] \in [bounds : RectRecord, confidence : Int]
    <3> HIDE DEF boxes, these, Back
    <3> QED
      BY <2>1, <2>2, ElementOfSeq
  <2> QED
    BY <2>2, <2>3, UnpaddedIsUpright
<1> HIDE DEF these
<1>4. DOMAIN kept = 1 .. Cardinality(these) /\ Cardinality(these) \in Nat
      /\ \A k \in 1 .. Cardinality(these) : kept[k] \in these
  BY <1>1, SortedArranges
<1> HIDE DEF kept, found, Back, boxes
<1>5. IsFiniteSet(DOMAIN found) /\ DOMAIN found = DOMAIN kept
  BY <1>2, <1>4, FS_Interval
<1>6. ASSUME NEW i \in DOMAIN found
      PROVE  \E bounds, score : found[i] = OcrLineRecord(bounds, score) /\ Upright(bounds) /\ score \in Int
  <2>1. kept[i] \in these /\ found[i] = OcrLineRecord(Back(boxes[kept[i]]).value, boxes[kept[i]].confidence)
    BY <1>2, <1>4, <1>5
  <2>2. Upright(Back(boxes[kept[i]]).value) /\ boxes[kept[i]].confidence \in Int
    BY <1>3, <2>1
  <2> QED
    BY <2>1, <2>2
<1> QED
  BY <1>5, <1>6 DEF found

-----------------------------------------------------------------------------
(* The ranks of the lines *)

\* No line that is left for later has a higher priority than one that was
\* recognized.
LinesRanked ==
  \A i, j \in DOMAIN lines :
    lines[i].state = "kRecognized" /\ lines[j].state = "kDeferred" => Priority(lines[i]) >= Priority(lines[j])

InLoop == stage \in {"poll", "guard", "unit", "forward", "finalize"}

\* In the loop the lines that come first in the execution order are ranked by
\* their priority, in the space of the prepared image.
PriorityRules == InLoop => LinesRanked

LEMMA PrioritiesAreWhole ==
  ASSUME NEW asked \in Calls, Preparations[asked].status = "kOk", NEW bounds
  PROVE  ResolveOcrLinePriority(bounds, Preparations[asked].value.request.priorities) \in Int
<1> DEFINE moved == Preparations[asked].value.request.priorities
           n == Len(asked.request.priorities)
<1>1. n \in Nat /\ DOMAIN moved = 1 .. n /\ \A i \in 1 .. n : moved[i].priority \in Int
  BY EntriesAreMoved
<1> HIDE DEF moved, n
<1>2. ResolveOcrLinePriority(bounds, moved) \in Int
  BY <1>1, PriorityIsWhole
<1> QED
  BY <1>2 DEF moved

LEMMA OrderRanksTheLines ==
  ASSUME LinesKept, executed \in Int, call \in Calls, Preparations[call].status = "kOk",
         \A i \in DOMAIN lines : WholeLine(lines[i])
  PROVE  LinesRanked
<1> DEFINE n == Len(lines)
           S == 1 .. n
           Key(i) == ExecutionKey(lines[i], Priority(lines[i]), request.selection)
           precedes == {pair \in S \X S : Lexicographic(Key(pair[1]), Key(pair[2]))}
           order == SortedBy(S, precedes)
<1>1. n \in Nat /\ DOMAIN lines = S /\ \A i \in S : lines[i].candidate_id = i - 1
  BY DEF LinesKept
<1>2. ExecutionOrder = order
  BY <1>1 DEF ExecutionOrder, ExecutesBefore, OcrLineExecutesBefore
<1>3. ASSUME NEW i \in S
      PROVE  /\ Priority(lines[i]) \in Int
             /\ Key(i) \in [1 .. 8 -> Int] /\ Key(i)[1] = -Priority(lines[i]) /\ Key(i)[8] = i - 1
  <2>1. Priority(lines[i]) \in Int
    BY PrioritiesAreWhole DEF Priority, prepared_call
  <2>2. WholeLine(lines[i]) /\ lines[i].candidate_id = i - 1 /\ i - 1 \in Int
    BY <1>1
  <2> QED
    BY <2>1, <2>2, KeyIsWhole
<1> HIDE DEF Key
<1>4. \A i, j \in S : <<i, j>> \in precedes <=> Lexicographic(Key(i), Key(j))
  OBVIOUS
<1>5. IsFiniteSet(S) /\ Cardinality(S) = n
  <2> HIDE DEF n
  <2> QED
    BY <1>1, FS_Interval
<1>6. \A i, j \in S : Key(i) = Key(j) => i = j
  <2> SUFFICES ASSUME NEW i \in S, NEW j \in S, Key(i) = Key(j) PROVE i = j
    OBVIOUS
  <2>1. i - 1 = j - 1
    BY <1>3
  <2> QED
    BY <1>1, <2>1
<1> HIDE DEF precedes, S, n
<1>7. StrictOrder(S, precedes)
  <2>1. \A x \in S : <<x, x>> \notin precedes
    BY <1>3, <1>4, LexicographicIsStrict
  <2>2. ASSUME NEW x \in S, NEW y \in S, NEW z \in S, <<x, y>> \in precedes, <<y, z>> \in precedes
        PROVE  <<x, z>> \in precedes
    <3>1. Lexicographic(Key(x), Key(y)) /\ Lexicographic(Key(y), Key(z))
      BY <1>4, <2>2
    <3>2. Lexicographic(Key(x), Key(z))
      BY <1>3, <3>1, LexicographicIsStrict
    <3> QED
      BY <1>4, <3>2
  <2>3. ASSUME NEW x \in S, NEW y \in S, x # y
        PROVE  <<x, y>> \in precedes \/ <<y, x>> \in precedes
    <3>1. Key(x) # Key(y)
      BY <1>6, <2>3
    <3>2. Lexicographic(Key(x), Key(y)) \/ Lexicographic(Key(y), Key(x))
      BY <1>3, <3>1, LexicographicIsStrict
    <3> QED
      BY <1>4, <3>2
  <2> QED
    BY <2>1, <2>2, <2>3 DEF StrictOrder
<1>8. \A k, l \in 1 .. n : k < l => <<order[k], order[l]>> \in precedes
  BY <1>5, <1>7, SortedSorts
<1>9. /\ \A k \in 1 .. n : order[k] \in S
      /\ \A i \in S : \E k \in 1 .. n : order[k] = i
  BY <1>5, SortedArranges
<1>10. ASSUME NEW k \in 1 .. n, NEW l \in 1 .. n, k < l
       PROVE  Priority(lines[order[k]]) >= Priority(lines[order[l]])
  <2> DEFINE a == Key(order[k])
             b == Key(order[l])
             p == Priority(lines[order[k]])
             q == Priority(lines[order[l]])
  <2>1. Lexicographic(a, b)
    BY <1>4, <1>8, <1>9, <1>10
  <2>2. a \in [1 .. 8 -> Int] /\ b \in [1 .. 8 -> Int] /\ p \in Int /\ q \in Int /\ a[1] = -p /\ b[1] = -q
    BY <1>3, <1>9
  <2> HIDE DEF a, b, p, q
  <2>3. PICK i \in 1 .. 8 : a[i] < b[i] /\ \A m \in 1 .. i - 1 : a[m] = b[m]
    BY <2>1, <2>2 DEF Lexicographic
  <2>4. ASSUME i = 1 PROVE p >= q
    BY <2>2, <2>3, <2>4
  <2>5. ASSUME i # 1 PROVE p >= q
    <3>1. 1 \in 1 .. i - 1
      BY <2>3, <2>5
    <3>2. a[1] = b[1]
      BY <2>3, <3>1
    <3> QED
      BY <2>2, <3>2
  <2>6. p >= q
    BY <2>4, <2>5
  <2> QED
    BY <2>6 DEF p, q
<1>11. ASSUME NEW i \in DOMAIN lines, NEW j \in DOMAIN lines,
              lines[i].state = "kRecognized", lines[j].state = "kDeferred"
       PROVE  Priority(lines[i]) >= Priority(lines[j])
  <2>1. PICK k \in 1 .. n : order[k] = i
    BY <1>1, <1>9
  <2>2. PICK l \in 1 .. n : order[l] = j
    BY <1>1, <1>9
  <2>3. /\ k <= executed => RecognizedAs(lines[i], k - 1)
        /\ k > executed => LeftForLater(lines[i])
        /\ l <= executed => RecognizedAs(lines[j], l - 1)
        /\ l > executed => LeftForLater(lines[j])
    BY <1>1, <1>2, <2>1, <2>2 DEF LinesKept, S
  <2>4. ~(k > executed) /\ ~(l <= executed)
    BY <1>11, <2>3 DEF RecognizedAs, LeftForLater
  <2>5. k < l
    BY <1>1, <2>4
  <2> QED
    BY <1>10, <2>1, <2>2, <2>5
<1> QED
  BY <1>11 DEF LinesRanked

-----------------------------------------------------------------------------
(* The invariant of the ranks *)

LinesWhole == \A i \in DOMAIN lines : WholeLine(lines[i]) /\ Shaped(lines[i])

WayBack == RecoveryTo(prepared_call.image, request.output_space)

\* What a good report hands over are the lines as the loop left them, moved
\* back.
Reported ==
  /\ stage = "returned" /\ Preparations[call].status = "kOk"
  /\ LinesWhole /\ LinesRanked
  /\ outcome.value.batch.lines = Recovered(lines, WayBack.value)

Ranks ==
  /\ stage \notin {"asked", "returned"} => Preparations[call].status = "kOk"
  /\ stage = "detecting" => Canvas.status = "kOk"
  /\ InLoop => LinesWhole
  /\ outcome.status = "kOk" => Reported

\* A call that fails leaves nothing to rank.
LEMMA FailureKeepsRanks ==
  ASSUME NEW failure, failure # "kOk", Return(Failed(failure))
  PROVE  Ranks'
BY DEF Return, Failed, Ranks, InLoop

\* A step inside a call that writes no line.
LEMMA ProgressKeepsRanks ==
  ASSUME Ranks, stage # "returned", UNCHANGED <<lines, call, outcome>>, stage' # "returned",
         InLoop' => InLoop,
         stage' # "asked" => Preparations[call].status = "kOk",
         stage' = "detecting" => Canvas.status = "kOk"
  PROVE  Ranks'
<1>1. outcome.status # "kOk"
  BY DEF Ranks, Reported
<1>2. Preparations[call]' = Preparations[call] /\ Canvas' = Canvas /\ LinesWhole' = LinesWhole
  BY DEF Preparations, Table, Canvas, prepared_image, prepared_call, LinesWhole
<1> QED
  BY <1>1, <1>2 DEF Ranks

\* The detection hands whole lines over.
LEMMA DetectionRanks ==
  ASSUME Ranks, NEW sighting \in Sightings, EndDetection(sighting)
  PROVE  Ranks'
<1> DEFINE failure == FirstFailure(<<sighting.status, ContextStatus>>)
           found == KeptBoxes(sighting.value)
<1>1. CASE failure # "kOk"
  <2>1. Return(Failed(failure))
    BY <1>1 DEF EndDetection
  <2> HIDE DEF failure
  <2> QED
    BY <1>1, <2>1, FailureKeepsRanks
<1>2. CASE failure = "kOk"
  <2>1. /\ stage = "detecting" /\ stage' = "poll" /\ UNCHANGED <<call, outcome>>
        /\ lines' = ReadingOrderLines(found)
    BY <1>2 DEF EndDetection, Proceed
  <2>2. sighting.status = "kOk"
    BY <1>2, AllPass
  <2>3. /\ IsFiniteSet(DOMAIN found)
        /\ \A i \in DOMAIN found : \E bounds, score :
             found[i] = OcrLineRecord(bounds, score) /\ Upright(bounds) /\ score \in Int
    BY <2>1, <2>2, KeptBoxesAreWhole DEF Ranks
  <2> HIDE DEF found
  <2>4. PICK precedes : LET order == SortedBy(DOMAIN found, precedes)
                        IN  lines' = [k \in DOMAIN order |-> [found[order[k]] EXCEPT !.candidate_id = k - 1]]
    BY <2>1 DEF ReadingOrderLines
  <2> DEFINE order == SortedBy(DOMAIN found, precedes)
  <2>5. \A k \in DOMAIN order : order[k] \in DOMAIN found
    BY <2>3, SortedArranges
  <2>6. lines' = [k \in DOMAIN order |-> [found[order[k]] EXCEPT !.candidate_id = k - 1]]
    BY <2>4
  <2> HIDE DEF order
  <2>7. ASSUME NEW k \in DOMAIN lines' PROVE WholeLine(lines'[k]) /\ Shaped(lines'[k])
    <3>1. k \in DOMAIN order /\ order[k] \in DOMAIN found
      BY <2>5, <2>6
    <3>2. PICK bounds, score : found[order[k]] = OcrLineRecord(bounds, score) /\ Upright(bounds) /\ score \in Int
      BY <2>3, <3>1
    <3>3. lines'[k] = [OcrLineRecord(bounds, score) EXCEPT !.candidate_id = k - 1]
      BY <2>6, <3>1, <3>2
    <3>4. lines'[k] = LineOf(k - 1, bounds, score, "kDeferred", <<>>, {}, -1)
      BY <3>3 DEF OcrLineRecord, LineOf
    <3> QED
      BY <3>2, <3>4 DEF WholeLine, Shaped, LineOf
  <2>8. LinesWhole'
    BY <2>7 DEF LinesWhole
  <2>9. Preparations[call]' = Preparations[call]
    BY <2>1 DEF Preparations, Table
  <2>10. outcome.status # "kOk"
    BY <2>1 DEF Ranks, Reported
  <2> QED
    BY <2>1, <2>8, <2>9, <2>10 DEF Ranks
<1> QED
  BY <1>1, <1>2

\* A unit writes neither the bounds nor the score of a line.
LEMMA UnitRanks ==
  ASSUME Books, Ranks, NEW reading, EndUnit(reading)
  PROVE  Ranks'
<1> DEFINE decoded == Then(reading, LAMBDA steps : DecodeLine(steps, Charset))
           failure == FirstFailure(<<reading.status, ContextStatus, decoded.status>>)
           c == Current
           done == Recognize(lines[c], decoded.value, executed)
<1>1. CASE failure # "kOk"
  <2>1. Return(Failed(failure))
    BY <1>1 DEF EndUnit
  <2> HIDE DEF failure
  <2> QED
    BY <1>1, <2>1, FailureKeepsRanks
<1>2. CASE failure = "kOk"
  <2>1. /\ stage = "forward" /\ stage' = "poll" /\ UNCHANGED <<call, outcome>>
        /\ lines' = [lines EXCEPT ![c] = done]
    BY <1>2 DEF EndUnit, Proceed, Recognize
  <2>2. LinesWhole
    BY <2>1 DEF Ranks, InLoop
  <2> DEFINE text == decoded.value
             m == executed
  <2>3. done = Recognize(lines[c], text, m)
    OBVIOUS
  <2> HIDE DEF c, done, decoded, text, m
  <2>4. ASSUME NEW k \in DOMAIN lines' PROVE WholeLine(lines'[k]) /\ Shaped(lines'[k])
    <3>1. k \in DOMAIN lines /\ lines'[k] = IF k = c THEN done ELSE lines[k]
      BY <2>1, <2>4
    <3>2. CASE k # c
      BY <2>2, <3>1, <3>2 DEF LinesWhole
    <3>3. CASE k = c
      <4>1. Shaped(lines[c]) /\ WholeLine(lines[c])
        BY <2>2, <3>1, <3>3 DEF LinesWhole
      <4>2. done = LineOf(lines[c].candidate_id, lines[c].bounds, lines[c].det_confidence, "kRecognized", text, {1}, m)
        BY <2>3, <4>1, RecognizedRecord
      <4>3. Shaped(done) /\ WholeLine(done)
        BY <4>1, <4>2 DEF Shaped, WholeLine, LineOf
      <4> QED
        BY <3>1, <3>3, <4>3
    <3> QED
      BY <3>2, <3>3
  <2>5. LinesWhole'
    BY <2>4 DEF LinesWhole
  <2>6. Preparations[call]' = Preparations[call] /\ Preparations[call].status = "kOk"
    BY <2>1 DEF Preparations, Table, Ranks
  <2>7. outcome.status # "kOk"
    BY <2>1 DEF Ranks, Reported
  <2> QED
    BY <2>1, <2>5, <2>6, <2>7 DEF Ranks
<1> QED
  BY <1>1, <1>2

\* The report is made of the lines as they are.
LEMMA ReportRanks ==
  ASSUME Books, Ranks, Finalize
  PROVE  Ranks'
<1> DEFINE batch == OcrBatchResult
           failure == FirstFailure(<<
             Requires(OcrBatchResultConsistent(batch), "kBackendFailure"),
             Requires(OwnedBytes(batch) <= request.max_report_bytes, "kBudgetExceeded")>>)
           back == WayBack
<1>1. /\ stage = "finalize" /\ stage' = "returned" /\ UNCHANGED <<call, lines>>
      /\ outcome' = IF failure # "kOk" THEN Failed(failure)
                    ELSE Then(back, LAMBDA recovery : Ok(BudgetedOcrReport(batch, recovery)))
  BY DEF Finalize, Return, WayBack
<1> HIDE DEF failure
<1>2. ASSUME outcome'.status = "kOk" PROVE outcome' = Ok(BudgetedOcrReport(batch, back.value))
  <2> HIDE DEF batch, back
  <2> QED
    BY <1>1, <1>2 DEF Then, Failed
<1>3. BudgetedOcrReport(batch, back.value).batch.lines = Recovered(lines, back.value)
  <2>1. batch.lines = lines /\ batch = [lines |-> lines, detected_count |-> batch.detected_count,
          det_limit |-> batch.det_limit, det_limit_hit |-> batch.det_limit_hit,
          recognized_count |-> batch.recognized_count, reused_count |-> batch.reused_count,
          deferred_count |-> batch.deferred_count, rec_forward_count |-> batch.rec_forward_count,
          stop_reason |-> batch.stop_reason, completion |-> batch.completion]
    BY DEF OcrBatchResult
  <2> HIDE DEF batch, back
  <2>2. [batch EXCEPT !.lines = Recovered(@, back.value)].lines = Recovered(lines, back.value)
    BY <2>1
  <2> QED
    BY <2>2 DEF BudgetedOcrReport
<1>4. LinesKept /\ executed \in Int /\ call \in Calls /\ Preparations[call].status = "kOk" /\ LinesWhole
  BY <1>1 DEF Books, LoopKept, Ranks, InLoop
<1>5. LinesRanked
  BY <1>4, OrderRanksTheLines DEF LinesWhole
<1>6. /\ Preparations[call]' = Preparations[call] /\ back' = back
      /\ LinesWhole' = LinesWhole /\ LinesRanked' = LinesRanked
  BY <1>1 DEF Preparations, Table, WayBack, prepared_call, request, LinesWhole, LinesRanked, Priority
<1>7. outcome'.status = "kOk" => outcome'.value.batch.lines = Recovered(lines, back.value)
  <2> HIDE DEF batch, back
  <2> QED
    BY <1>2, <1>3 DEF Ok
<1> QED
  BY <1>1, <1>4, <1>5, <1>6, <1>7 DEF Ranks, Reported, InLoop

LEMMA NextKeepsRanks == Books /\ Ranks /\ [Next]_vars => Ranks'
<1> SUFFICES ASSUME Books, Ranks, [Next]_vars PROVE Ranks'
  OBVIOUS
<1>1. CASE UNCHANGED vars
  BY <1>1 DEF vars, Ranks, Reported, WayBack, InLoop, LinesWhole, LinesRanked, Priority, Preparations, Table,
     prepared_call, request, Canvas, prepared_image
<1>2. CASE Cancel \/ Tick
  <2>1. stage # "returned" /\ UNCHANGED <<lines, call, outcome, stage>>
    BY <1>2 DEF Cancel, Tick
  <2> QED
    BY <2>1, ProgressKeepsRanks DEF Ranks, InLoop
<1>3. CASE Prepare
  <2> DEFINE status == Preparations[call].status
             failure == FirstFailure(<<ContextStatus, status>>)
  <2>1. CASE failure # "kOk"
    <3>1. Return(Failed(failure))
      BY <1>3, <2>1 DEF Prepare
    <3> HIDE DEF failure
    <3> QED
      BY <2>1, <3>1, FailureKeepsRanks
  <2>2. CASE failure = "kOk"
    <3>1. stage = "asked" /\ stage' = "prepared" /\ UNCHANGED <<lines, call, outcome>>
      BY <1>3, <2>2 DEF Prepare, Proceed
    <3>2. status = "kOk"
      <4> HIDE DEF status
      <4> QED
        BY <2>2, AllPass
    <3> QED
      BY <3>1, <3>2, ProgressKeepsRanks DEF InLoop
  <2> QED
    BY <2>1, <2>2
<1>4. CASE Enter
  <2> DEFINE failure == FirstFailure(<<ContextStatus,
                          Requires(prepared_image.format = "kRgb8", "kUnsupportedFormat"),
                          ValidateOcrBatchRequest(prepared_call.request)>>)
  <2>1. CASE failure # "kOk"
    <3>1. Return(Failed(failure))
      BY <1>4, <2>1 DEF Enter
    <3> HIDE DEF failure
    <3> QED
      BY <2>1, <3>1, FailureKeepsRanks
  <2>2. CASE failure = "kOk"
    <3>1. stage = "prepared" /\ stage' = "detect" /\ UNCHANGED <<lines, call, outcome>>
      BY <1>4, <2>2 DEF Enter, Proceed
    <3> QED
      BY <3>1, ProgressKeepsRanks DEF InLoop, Ranks
  <2> QED
    BY <2>1, <2>2
<1>5. CASE BeginDetection
  <2> DEFINE input == Then(Canvas, LAMBDA canvas : Preprocessed(canvas.buffer, ContextStatus))
             failure == FirstFailure(<<input.status, ContextStatus>>)
  <2>1. CASE failure # "kOk"
    <3>1. Return(Failed(failure))
      BY <1>5, <2>1 DEF BeginDetection
    <3> HIDE DEF failure
    <3> QED
      BY <2>1, <3>1, FailureKeepsRanks
  <2>2. CASE failure = "kOk"
    <3>1. stage = "detect" /\ stage' = "detecting" /\ UNCHANGED <<lines, call, outcome>>
      BY <1>5, <2>2 DEF BeginDetection, Proceed
    <3>2. input.status = "kOk"
      <4> HIDE DEF input
      <4> QED
        BY <2>2, AllPass
    <3>3. Canvas.status = "kOk"
      BY <3>2 DEF Then
    <3> QED
      BY <3>1, <3>3, ProgressKeepsRanks DEF InLoop, Ranks
  <2> QED
    BY <2>1, <2>2
<1>6. ASSUME NEW sighting \in Sightings, EndDetection(sighting) PROVE Ranks'
  BY <1>6, DetectionRanks
<1>7. CASE Poll
  <2>1. CASE executed < SelectedCount /\ ContextStatus # "kOk"
    BY <1>7, <2>1, FailureKeepsRanks DEF Poll
  <2>2. CASE ~(executed < SelectedCount /\ ContextStatus # "kOk")
    <3>1. stage = "poll" /\ stage' \in {"guard", "finalize"} /\ UNCHANGED <<lines, call, outcome>>
      BY <1>7, <2>2 DEF Poll, Proceed
    <3> QED
      BY <3>1, ProgressKeepsRanks DEF InLoop, Ranks
  <2> QED
    BY <2>1, <2>2
<1>8. CASE Guard
  <2>1. stage = "guard" /\ stage' \in {"unit", "finalize"} /\ UNCHANGED <<lines, call, outcome>>
    BY <1>8 DEF Guard, Proceed
  <2> QED
    BY <2>1, ProgressKeepsRanks DEF InLoop, Ranks
<1>9. CASE BeginUnit
  <2> DEFINE input == RecInput(prepared_image, lines[Current].bounds, RecHeight, RecWidth, WorkBytes, ContextStatus)
             failure == FirstFailure(<<input.status, ContextStatus>>)
  <2>1. CASE failure # "kOk"
    <3>1. Return(Failed(failure))
      BY <1>9, <2>1 DEF BeginUnit
    <3> HIDE DEF failure
    <3> QED
      BY <2>1, <3>1, FailureKeepsRanks
  <2>2. CASE failure = "kOk"
    <3>1. stage = "unit" /\ stage' = "forward" /\ UNCHANGED <<lines, call, outcome>>
      BY <1>9, <2>2 DEF BeginUnit, Proceed
    <3> QED
      BY <3>1, ProgressKeepsRanks DEF InLoop, Ranks
  <2> QED
    BY <2>1, <2>2
<1>10. ASSUME NEW reading \in Readings, EndUnit(reading) PROVE Ranks'
  BY <1>10, UnitRanks
<1>11. CASE Finalize
  BY <1>11, ReportRanks
<1> QED
  BY <1>1, <1>2, <1>3, <1>4, <1>5, <1>6, <1>7, <1>8, <1>9, <1>10, <1>11 DEF Next

\* Whenever the loop stops, in the space of the prepared image and for all
\* calls, options and answers of the models, the lines that were recognized are
\* those of the highest priorities.
THEOREM HighestPrioritiesFirst == Spec => []PriorityRules
<1>1. Init => Books /\ Ranks
  BY DEF Init, Books, Ranks, InLoop, Failed
<1>2. Books /\ Ranks => PriorityRules
  <2> SUFFICES ASSUME Books, Ranks, InLoop PROVE LinesRanked
    BY DEF PriorityRules
  <2>1. LinesKept /\ executed \in Int /\ call \in Calls /\ Preparations[call].status = "kOk" /\ LinesWhole
    BY DEF Books, LoopKept, Ranks, InLoop
  <2> QED
    BY <2>1, OrderRanksTheLines DEF LinesWhole
<1> QED
  BY <1>1, <1>2, NextKeepsTheBooks, NextKeepsRanks, PTL DEF Spec

-----------------------------------------------------------------------------
(* The way of a rectangle through the preparation *)

\* The view of a frame is a turn of its pixels.
LEMMA OrientationTurns ==
  ASSUME NEW image, ValidImage(image)
  PROVE  /\ Turned(FrameToOriented(image)) /\ FrameToOriented(image).to = "kOriented"
         /\ image.w \in Nat /\ image.h \in Nat
<1>1. image.w \in Nat /\ image.h \in Nat /\ image.rotation \in Rotations
  BY MaxDimensionIsWhole DEF ValidImage
<1> DEFINE w == RawDimensions(image)[1]
           h == RawDimensions(image)[2]
<1>2. w \in Int /\ h \in Int
  BY <1>1 DEF RawDimensions, OrientedSize
<1>3. FrameToOriented(image) = MakeRotation(image.rotation, w, h, "kFrame", "kOriented")
  BY DEF FrameToOriented
<1> HIDE DEF w, h
<1>4. CASE image.rotation = "k0"
  <2>1. FrameToOriented(image) = Transform("kFrame", "kOriented", 1, 0, 0, 0, 1, 0, 1)
    BY <1>3, <1>4 DEF MakeRotation, MakeIdentity
  <2> QED
    BY <1>1, <2>1 DEF Turned, Turn, Transform
<1>5. CASE image.rotation = "k90"
  <2>1. FrameToOriented(image) = Transform("kFrame", "kOriented", 0, -1, h, 1, 0, 0, 1)
    BY <1>3, <1>5 DEF MakeRotation
  <2> QED
    BY <1>1, <1>2, <2>1 DEF Turned, Turn, Transform
<1>6. CASE image.rotation = "k180"
  <2>1. FrameToOriented(image) = Transform("kFrame", "kOriented", -1, 0, w, 0, -1, h, 1)
    BY <1>3, <1>6 DEF MakeRotation
  <2> QED
    BY <1>1, <1>2, <2>1 DEF Turned, Turn, Transform
<1>7. CASE image.rotation = "k270"
  <2>1. FrameToOriented(image) = Transform("kFrame", "kOriented", 0, 1, 0, -1, 0, w, 1)
    BY <1>3, <1>7 DEF MakeRotation
  <2> QED
    BY <1>1, <1>2, <2>1 DEF Turned, Turn, Transform
<1> QED
  BY <1>1, <1>4, <1>5, <1>6, <1>7 DEF Rotations

\* Where a turn takes an upright rectangle, it is upright.
LEMMA TurnedIsUpright ==
  ASSUME NEW t, Turned(t), NEW r, Upright(r)
  PROVE  Upright(TransformRect(t, r))
<1>1. /\ r.x \in Int /\ r.y \in Int /\ r.w \in Nat /\ r.h \in Nat
      /\ t.u \in Int /\ t.v \in Int
  BY DEF Upright, RectRecord, Turned, Turn
<1>2. \A x, y \in Int : \A w, h \in Nat : Upright(Rect(x, y, w, h))
  BY DEF Upright, RectRecord, Rect
<1>3. CASE Turn(t, 1, 0, 0, 1)
  <2>1. TransformRect(t, r) = Rect(r.x + t.u, r.y + t.v, r.w, r.h)
    BY <1>3, TurnedRect
  <2> QED
    BY <1>1, <1>2, <2>1
<1>4. CASE Turn(t, 0, -1, 1, 0)
  <2>1. TransformRect(t, r) = Rect(t.u - r.y - r.h, r.x + t.v, r.h, r.w)
    BY <1>4, TurnedRect
  <2> QED
    BY <1>1, <1>2, <2>1
<1>5. CASE Turn(t, -1, 0, 0, -1)
  <2>1. TransformRect(t, r) = Rect(t.u - r.x - r.w, t.v - r.y - r.h, r.w, r.h)
    BY <1>5, TurnedRect
  <2> QED
    BY <1>1, <1>2, <2>1
<1>6. CASE Turn(t, 0, 1, -1, 0)
  <2>1. TransformRect(t, r) = Rect(r.y + t.u, t.v - r.x - r.w, r.h, r.w)
    BY <1>6, TurnedRect
  <2> QED
    BY <1>1, <1>2, <2>1
<1> QED
  BY <1>3, <1>4, <1>5, <1>6 DEF Turned

\* The part of the image that a call executes on.
LEMMA RoiIsWhole ==
  ASSUME NEW asked \in Calls, RefusedCall(asked) = "kOk"
  PROVE  RoiOf(asked) \in RectRecord
<1> DEFINE image == asked.frame.image
           request1 == asked.request
           whole == Rect(0, 0, image.w, image.h)
           roi == CHOOSE roi \in request1.roi : TRUE
           requested == IF request1.roi = NoRoi THEN whole
                        ELSE IF request1.roi_space = "kOriented" THEN roi
                        ELSE TransformRect(FrameToOriented(image), roi)
           left == Max({requested.x, whole.x})
           top == Max({requested.y, whole.y})
           right == Min({requested.x + requested.w, whole.x + whole.w})
           bottom == Min({requested.y + requested.h, whole.y + whole.h})
<1>1. /\ ValidImage(image) /\ ValidRequest(request1) = "kOk"
      /\ ExecutedRoi(image, request1).status = "kOk"
  BY AcceptedCall
<1>2. RoiOf(asked) = Intersect(requested, whole)
  BY <1>1 DEF RoiOf, ExecutedRoi, Ok, Failed
<1>3. request1.roi \in SUBSET RectRecord
  <2>1. request1 \in BudgetedOcrRequest
    BY RequestsAreTyped
  <2> QED
    BY <2>1 DEF BudgetedOcrRequest
<1>4. /\ Turned(FrameToOriented(image)) /\ image.w \in Nat /\ image.h \in Nat
  BY <1>1, OrientationTurns
<1>5. \A r \in request1.roi : Upright(r)
  BY <1>1, <1>3 DEF ValidRequest, Requires, Upright
<1>6. whole \in RectRecord
  BY <1>4 DEF Rect, RectRecord
<1>7. requested \in RectRecord
  <2>1. CASE request1.roi = NoRoi
    <3> HIDE DEF whole, roi, request1, image
    <3>1. requested = whole
      BY <2>1
    <3> QED
      BY <1>6, <3>1
  <2>2. CASE request1.roi # NoRoi
    <3>1. roi \in request1.roi
      BY <2>2 DEF NoRoi
    <3> HIDE DEF roi, request1, image
    <3>2. Upright(roi)
      BY <1>5, <3>1
    <3>3. roi \in RectRecord /\ TransformRect(FrameToOriented(image), roi) \in RectRecord
      BY <1>4, <3>2, TurnedIsUpright DEF Upright
    <3> HIDE DEF whole
    <3> QED
      BY <2>2, <3>3
  <2> QED
    BY <2>1, <2>2
<1> HIDE DEF whole, requested
<1>8. /\ requested.x \in Int /\ requested.y \in Int /\ requested.w \in Int /\ requested.h \in Int
      /\ whole.x \in Int /\ whole.y \in Int /\ whole.w \in Int /\ whole.h \in Int
  BY <1>6, <1>7 DEF RectRecord
<1>9. /\ requested.x + requested.w \in Int /\ requested.y + requested.h \in Int
      /\ whole.x + whole.w \in Int /\ whole.y + whole.h \in Int
  BY <1>8
<1>10. ASSUME NEW m \in Int, NEW n \in Int PROVE Max({m, n}) \in Int /\ Min({m, n}) \in Int
  BY MinMaxOfTwo
<1>11. left \in Int /\ top \in Int /\ right \in Int /\ bottom \in Int
  <2>1. left \in Int /\ top \in Int
    BY <1>8, <1>10
  <2>2. right \in Int /\ bottom \in Int
    BY <1>9, <1>10
  <2> QED
    BY <2>1, <2>2
<1>12. Intersect(requested, whole) =
         Rect(Clamp(left, IntMin, IntMax), Clamp(top, IntMin, IntMax),
              SaturatedDelta(left, right), SaturatedDelta(top, bottom))
  BY DEF Intersect
<1> HIDE DEF left, top, right, bottom
<1>13. IntMax \in Int /\ IntMin \in Int
  BY IntMaxIsWhole DEF IntMin
<1>14. ASSUME NEW m \in Int, NEW n \in Int PROVE SaturatedDelta(m, n) \in Int
  <2> DEFINE d == Max({0, n - m})
  <2>1. n - m \in Int /\ 0 \in Int
    OBVIOUS
  <2>2. d \in Int
    BY <1>10, <2>1
  <2> HIDE DEF d
  <2>3. Min({IntMax, d}) \in Int
    BY <1>10, <1>13, <2>2
  <2> QED
    BY <2>3 DEF SaturatedDelta, d
<1>15. /\ Clamp(left, IntMin, IntMax) \in Int /\ Clamp(top, IntMin, IntMax) \in Int
       /\ SaturatedDelta(left, right) \in Int /\ SaturatedDelta(top, bottom) \in Int
  BY <1>11, <1>13, <1>14, ClampIsWhole
<1> QED
  BY <1>2, <1>12, <1>15 DEF Rect, RectRecord

\* A crop has the size of its region.
LEMMA CropSize ==
  ASSUME NEW image, NEW roi, NEW max, Crop(image, roi, max).status = "kOk"
  PROVE  Crop(image, roi, max).value.w = roi.w /\ Crop(image, roi, max).value.h = roi.h
<1> DEFINE buffer == Buffer(image.format, roi.w, roi.h, max)
<1>1. PICK painted, chroma : Crop(image, roi, max) =
        IF buffer.status = "kOk" THEN Ok([buffer.value EXCEPT !.pixels = painted, !.chroma = chroma]) ELSE buffer
  <2> HIDE DEF buffer
  <2> QED
    BY DEF Crop, Then, Failed, buffer
<1>2. buffer.status = "kOk"
  BY <1>1
<1>3. PICK pixels, plane : buffer.value = Image(image.format, roi.w, roi.h, pixels, plane)
  BY <1>2 DEF Buffer, Failed, Ok
<1>4. Crop(image, roi, max).value = [Image(image.format, roi.w, roi.h, pixels, plane)
                                       EXCEPT !.pixels = painted, !.chroma = chroma]
  BY <1>1, <1>2, <1>3 DEF Ok
<1> QED
  BY <1>4 DEF Image

\* A converted image keeps its size.
LEMMA ConvertedSize ==
  ASSUME NEW image, NEW format, NEW max, ConvertColor(image, format, max).status = "kOk"
  PROVE  /\ ConvertColor(image, format, max).value.w = image.w
         /\ ConvertColor(image, format, max).value.h = image.h
<1> DEFINE buffer == Buffer(format, image.w, image.h, max)
           converted == ConvertColor(image, format, max)
<1>1. buffer.status = "kOk"
  <2> HIDE DEF buffer
  <2> QED
    BY DEF ConvertColor, Then, Failed, buffer
<1>2. PICK pixels, plane : buffer.value = Image(format, image.w, image.h, pixels, plane)
  BY <1>1 DEF Buffer, Failed, Ok
<1> DEFINE grays == [p \in DOMAIN buffer.value.pixels |-> <<Luma(image, p)>>]
           colours == [p \in DOMAIN buffer.value.pixels |-> Placed(Channels(image, p), format)]
           made == IF image.format = format
                     THEN [buffer.value EXCEPT !.pixels = image.pixels, !.chroma = image.chroma]
                   ELSE IF format = "kGray8" THEN [buffer.value EXCEPT !.pixels = grays]
                   ELSE [buffer.value EXCEPT !.pixels = colours]
<1>3. converted = Ok(made)
  <2>1. converted.status = "kOk"
    OBVIOUS
  <2>2. converted = Failed("kInvalidArgument") \/ converted = Failed("kUnsupportedFormat") \/ converted = Ok(made)
    <3> HIDE DEF buffer
    <3> QED
      BY <1>1 DEF ConvertColor, Then, buffer
  <2> HIDE DEF converted
  <2> QED
    BY <2>1, <2>2 DEF Failed
<1> HIDE DEF grays, colours
<1>4. made.w = image.w /\ made.h = image.h
  BY <1>2 DEF Image
<1> QED
  BY <1>3, <1>4 DEF Ok

\* The image that the model is given has the size of the crop.
LEMMA AcceptedSize ==
  ASSUME NEW cropped, NEW accepts \in Seq(STRING), NEW budget, AcceptedBuffer(cropped, accepts, budget).status = "kOk"
  PROVE  /\ AcceptedBuffer(cropped, accepts, budget).value.w = cropped.w
         /\ AcceptedBuffer(cropped, accepts, budget).value.h = cropped.h
<1> DEFINE converted == [i \in DOMAIN accepts |-> ConvertColor(cropped, accepts[i], budget)]
           reached == {i \in DOMAIN accepts : converted[i].status = "kOk"}
           answer == AcceptedBuffer(cropped, accepts, budget)
<1>1. \A i \in DOMAIN accepts : converted[i].status = "kOk" =>
        converted[i].value.w = cropped.w /\ converted[i].value.h = cropped.h
  BY ConvertedSize
<1>2. answer = IF cropped.format \in Range(accepts) THEN Ok(cropped)
               ELSE IF reached # {} THEN converted[Min(reached)]
               ELSE IF accepts = <<>> THEN Failed("kUnsupportedFormat")
               ELSE converted[Len(accepts)]
  BY DEF AcceptedBuffer
<1>3. DOMAIN accepts = 1 .. Len(accepts) /\ Len(accepts) \in Nat /\ (accepts # <<>> => Len(accepts) # 0)
  BY LenProperties, EmptySeq
<1>4. reached \in SUBSET Nat /\ reached \in SUBSET DOMAIN accepts
  BY <1>3
<1>5. answer.status = "kOk"
  OBVIOUS
<1>6. CASE cropped.format \in Range(accepts)
  BY <1>2, <1>6 DEF Ok
<1>7. CASE cropped.format \notin Range(accepts) /\ reached # {}
  <2>1. Min(reached) \in reached
    <3> HIDE DEF reached
    <3> QED
      BY <1>4, <1>7, LeastOf DEF Min
  <2>2. answer = converted[Min(reached)] /\ Min(reached) \in DOMAIN accepts
    BY <1>2, <1>4, <1>7, <2>1
  <2> HIDE DEF answer, converted, reached
  <2> QED
    BY <1>1, <1>5, <2>2 DEF answer
<1>8. CASE cropped.format \notin Range(accepts) /\ reached = {}
  <2>1. accepts # <<>> /\ answer = converted[Len(accepts)]
    BY <1>2, <1>5, <1>8 DEF Failed
  <2>2. Len(accepts) \in DOMAIN accepts
    BY <1>3, <2>1
  <2> HIDE DEF answer, converted, reached
  <2> QED
    BY <1>1, <1>5, <2>1, <2>2 DEF answer
<1> QED
  BY <1>6, <1>7, <1>8

\* The way into a prepared image that was not scaled turns and moves, from
\* either space.
LEMMA WayInTurns ==
  ASSUME NEW asked \in Calls, Preparations[asked].status = "kOk", Unscaled(asked)
  PROVE  Turned(WayIn(Preparations[asked].value.image, asked.request))
<1> DEFINE image == asked.frame.image
           roi == RoiOf(asked)
           limit == asked.request.max_side
           cropped == CropOf(asked)
           F == FrameToOriented(image)
           crop == MakeCrop(roi, "kOriented", "kCropped")
           frame == Compose(F, crop)
           budget == WorkBudget(image)
           buffer == AcceptedBuffer(cropped.value, asked.backend.accepts, budget)
           given == Prepared(buffer.value, MakeIdentity("kCropped", "kModelInput"), crop, frame.value)
           chain == ChainOf(asked)
<1>1. /\ RefusedCall(asked) = "kOk" /\ cropped.status = "kOk" /\ chain.status = "kOk"
      /\ Preparations[asked].value.image = chain.value
  BY PreparationIs
<1>2. roi \in RectRecord /\ Turned(F) /\ F.to = "kOriented" /\ limit \in Int
      /\ asked.backend.accepts \in Seq(STRING)
  <2>1. ValidImage(image)
    BY <1>1, AcceptedCall
  <2>2. asked.request \in BudgetedOcrRequest /\ asked.backend.accepts \in Seq(STRING)
    BY RequestsAreTyped
  <2>3. limit \in Int
    BY <2>2 DEF BudgetedOcrRequest
  <2> QED
    BY <1>1, <2>1, <2>2, <2>3, RoiIsWhole, OrientationTurns
<1>3. cropped.value.w = roi.w /\ cropped.value.h = roi.h
  BY <1>1, CropSize DEF CropOf
<1>4. frame = Ok(Multiply(crop, F))
  BY <1>2 DEF Compose, MakeCrop, MakeTranslation, Transform
<1>5. chain = IF buffer.status = "kOk" THEN Scaled(given, limit, budget) ELSE buffer
  <2> HIDE DEF buffer
  <2> QED
    BY <1>4 DEF ChainOf, PrepareChain, Then, Ok, given, buffer, CropOf
<1>6. buffer.status = "kOk"
  BY <1>1, <1>5
<1>7. buffer.value.w = roi.w /\ buffer.value.h = roi.h
  BY <1>2, <1>3, <1>6, AcceptedSize
<1> HIDE DEF buffer, cropped, frame, F, crop, budget
<1>8. given.buffer.w = roi.w /\ given.buffer.h = roi.h /\ given.from_oriented = crop /\ given.from_frame = frame.value
  BY <1>7 DEF Prepared
<1>9. limit <= 0 \/ Max({roi.w, roi.h}) <= limit
  <2>1. limit <= 0 \/ (roi.w <= limit /\ roi.h <= limit)
    BY DEF Unscaled, RoiOf
  <2>2. roi.w \in Int /\ roi.h \in Int
    BY <1>2 DEF RectRecord
  <2>3. Max({roi.w, roi.h}) \in {roi.w, roi.h}
    <3> HIDE DEF roi
    <3> QED
      BY <2>2, MinMaxOfTwo
  <2> QED
    BY <2>1, <2>3
<1>10. Scaled(given, limit, budget) = Ok(given)
  <2> HIDE DEF given, limit, roi
  <2> QED
    BY <1>8, <1>9 DEF Scaled
<1>11. chain.value = given
  BY <1>5, <1>6, <1>10 DEF Ok
<1>12. Turned(crop)
  <2>1. -roi.x \in Int /\ -roi.y \in Int
    BY <1>2 DEF RectRecord
  <2>2. crop = Transform("kOriented", "kCropped", 1, 0, -roi.x, 0, 1, -roi.y, 1)
    BY DEF crop, MakeCrop, MakeTranslation
  <2> QED
    BY <2>1, <2>2 DEF Turned, Turn, Transform
<1>13. Turned(frame.value)
  <2> DEFINE t == Multiply(crop, F)
             x == -roi.x
             y == -roi.y
  <2>1. x \in Int /\ y \in Int
    BY <1>2 DEF RectRecord
  <2>2. crop = Transform("kOriented", "kCropped", 1, 0, x, 0, 1, y, 1)
    BY DEF crop, MakeCrop, MakeTranslation
  <2> HIDE DEF x, y
  <2>3. /\ t.a = 1 * F.a + 0 * F.c /\ t.b = 1 * F.b + 0 * F.d /\ t.u = 1 * F.u + 0 * F.v + x * F.den
        /\ t.c = 0 * F.a + 1 * F.c /\ t.d = 0 * F.b + 1 * F.d /\ t.v = 0 * F.u + 1 * F.v + y * F.den
        /\ t.den = F.den * 1
    BY <2>2 DEF Multiply, Transform
  <2>4. /\ F.a \in Int /\ F.b \in Int /\ F.c \in Int /\ F.d \in Int /\ F.u \in Int /\ F.v \in Int /\ F.den = 1
    BY <1>2 DEF Turned, Turn
  <2> HIDE DEF t
  <2>5. \A z \in Int : 1 * z = z /\ 0 * z = 0 /\ z * 1 = z
    OBVIOUS
  <2>6. /\ t.a = F.a /\ t.b = F.b /\ t.c = F.c /\ t.d = F.d /\ t.den = 1
        /\ t.u \in Int /\ t.v \in Int
    BY <2>1, <2>3, <2>4, <2>5
  <2>7. Turned(t)
    BY <1>2, <2>6 DEF Turned, Turn
  <2> QED
    BY <1>4, <2>7 DEF Ok, t
<1>14. chain.value.from_oriented = crop /\ chain.value.from_frame = frame.value
  BY <1>8, <1>11
<1> QED
  BY <1>1, <1>12, <1>13, <1>14 DEF WayIn

-----------------------------------------------------------------------------
(* The ranks as the caller sees them *)

\* A caller finds for a reported line the priority that it competed with.
LEMMA CallersPriorityIs ==
  ASSUME PrioritiesKeepTheirScale, call \in Calls, Preparations[call].status = "kOk",
         request.output_space = request.priority_space,
         NEW line, WholeLine(line)
  PROVE  ResolveOcrLinePriority(TransformRect(WayBack.value, line.bounds), request.priorities) = Priority(line)
<1> DEFINE mine == call.request.priorities
           moved == Preparations[call].value.request.priorities
           t == WayIn(Preparations[call].value.image, call.request)
           s == WayBack.value
           n == Len(mine)
           here == TransformRect(s, line.bounds)
<1>1. /\ n \in Nat /\ DOMAIN mine = 1 .. n /\ DOMAIN moved = 1 .. n
      /\ \A i \in 1 .. n : /\ mine[i].roi \in RectRecord /\ mine[i].priority \in Int
                           /\ moved[i].priority = mine[i].priority
                           /\ moved[i].roi = TransformRect(t, mine[i].roi)
  BY EntriesAreMoved
<1>2. Priority(line) = ResolveOcrLinePriority(line.bounds, moved)
  BY DEF Priority, prepared_call
<1>3. WayBack = Inverse2D(t)
  <2>1. call.request.priority_space \in {"kOriented", "kFrame"}
    BY PreparationIs, AcceptedCall
  <2> QED
    BY <2>1 DEF WayBack, RecoveryTo, WayIn, request, prepared_call
<1>4. \A i \in 1 .. n : RectsOverlap(line.bounds, moved[i].roi) <=> RectsOverlap(here, mine[i].roi)
  <2>1. CASE mine = <<>>
    BY <1>1, <2>1
  <2>2. CASE mine # <<>>
    <3>1. Unscaled(call) /\ \A i \in 1 .. n : mine[i].roi.w >= 0 /\ mine[i].roi.h >= 0
      BY <1>1, <2>2 DEF PrioritiesKeepTheirScale
    <3>2. Turned(t)
      BY <3>1, WayInTurns
    <3>3. TurnsBack(t, s)
      BY <1>3, <3>2, InverseTurnsBack
    <3>4. \A i \in 1 .. n : Upright(mine[i].roi)
      BY <1>1, <3>1 DEF Upright
    <3> HIDE DEF mine, moved, t, s
    <3> QED
      BY <1>1, <3>2, <3>3, <3>4, OverlapTravels DEF WholeLine
  <2> QED
    BY <2>1, <2>2
<1> HIDE DEF mine, moved, t, s, n, here
<1>5. {i \in DOMAIN moved : RectsOverlap(line.bounds, moved[i].roi)} = {i \in DOMAIN mine : RectsOverlap(here, mine[i].roi)}
  BY <1>1, <1>4
<1> DEFINE met == {i \in DOMAIN mine : RectsOverlap(here, mine[i].roi)}
<1> DEFINE theirs == {moved[i].priority : i \in met}
           ours == {mine[i].priority : i \in met}
<1>6. theirs = ours
  BY <1>1
<1>7. ResolveOcrLinePriority(line.bounds, moved) = ResolveOcrLinePriority(here, mine)
  <2>1. ResolveOcrLinePriority(line.bounds, moved) = IF met = {} THEN 0 ELSE Max(theirs)
    BY <1>5 DEF ResolveOcrLinePriority
  <2>2. ResolveOcrLinePriority(here, mine) = IF met = {} THEN 0 ELSE Max(ours)
    BY DEF ResolveOcrLinePriority
  <2> HIDE DEF met, theirs, ours
  <2> QED
    BY <1>6, <2>1, <2>2
<1> QED
  BY <1>2, <1>7 DEF here, mine, s, request

\* The report ranks for the caller what the loop ranked for itself.
LEMMA ReportIsRanked ==
  ASSUME PrioritiesKeepTheirScale, Books, Ranks
  PROVE  CallersPriorityRules
<1> SUFFICES ASSUME outcome.status = "kOk", request.output_space = request.priority_space,
                    NEW i \in DOMAIN outcome.value.batch.lines, NEW j \in DOMAIN outcome.value.batch.lines,
                    outcome.value.batch.lines[i].state = "kRecognized",
                    outcome.value.batch.lines[j].state = "kDeferred"
             PROVE  CallersPriority(outcome.value.batch.lines[i]) >= CallersPriority(outcome.value.batch.lines[j])
  BY DEF CallersPriorityRules
<1> DEFINE reported == outcome.value.batch.lines
<1>1. /\ Preparations[call].status = "kOk" /\ LinesWhole /\ LinesRanked
      /\ reported = Recovered(lines, WayBack.value) /\ call \in Calls
  BY DEF Ranks, Reported, Books
<1>2. i \in DOMAIN reported /\ j \in DOMAIN reported
      /\ reported[i].state = "kRecognized" /\ reported[j].state = "kDeferred"
  OBVIOUS
<1> HIDE DEF reported
<1>3. reported = [k \in DOMAIN lines |-> [lines[k] EXCEPT !.bounds = TransformRect(WayBack.value, @)]]
  BY <1>1 DEF Recovered
<1>4. ASSUME NEW k \in DOMAIN lines
      PROVE  /\ reported[k].state = lines[k].state
             /\ reported[k].bounds = TransformRect(WayBack.value, lines[k].bounds)
  <2>1. Shaped(lines[k])
    BY <1>1 DEF LinesWhole
  <2>2. reported[k] = [lines[k] EXCEPT !.bounds = TransformRect(WayBack.value, @)]
    BY <1>3
  <2> QED
    BY <2>1, <2>2 DEF Shaped, LineOf
<1>5. ASSUME NEW k \in DOMAIN lines PROVE CallersPriority(reported[k]) = Priority(lines[k])
  <2>1. WholeLine(lines[k])
    BY <1>1 DEF LinesWhole
  <2> QED
    BY <1>1, <1>4, <2>1, CallersPriorityIs DEF CallersPriority
<1>6. i \in DOMAIN lines /\ j \in DOMAIN lines
  BY <1>2, <1>3
<1>7. Priority(lines[i]) >= Priority(lines[j])
  BY <1>1, <1>2, <1>4, <1>6 DEF LinesRanked
<1> QED
  BY <1>5, <1>6, <1>7 DEF reported

\* For all calls whose priorities keep their scale, all options and all answers
\* of the models: as the caller can tell from the report, no line that is left
\* for later has a higher priority than a line that was recognized.
THEOREM CallersPrioritiesRule ==
  ASSUME PrioritiesKeepTheirScale
  PROVE  Spec => []CallersPriorityRules
<1>1. Init => Books /\ Ranks
  BY DEF Init, Books, Ranks, InLoop, Failed
<1>2. Books /\ Ranks => CallersPriorityRules
  BY ReportIsRanked
<1> QED
  BY <1>1, <1>2, NextKeepsTheBooks, NextKeepsRanks, PTL DEF Spec
=============================================================================
