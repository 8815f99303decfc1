---------------------------- MODULE NanoTrackProofs ----------------------------
(***************************************************************************)
(* Proofs about NanoTrack for every value of its constants: for any image, *)
(* any answer of the models, and a context that stops at any point.        *)
(***************************************************************************)
EXTENDS NanoTrack, CommonProofs, TLAPS

-----------------------------------------------------------------------------
(* Where a blame may come from *)

\* The answers that blame the caller.
Blames == {"kInvalidArgument", "kUnsupportedFormat"}

\* The answers of the call's surroundings that do not.
Harmless == {"kOk", "kCancelled", "kTimeout", "kBackendFailure", "kBudgetExceeded"}

\* A poll of a context reports how it stops.
LEMMA PollsAreHarmless ==
  ASSUME NEW context, context.status \in Harmless, NEW point
  PROVE  CancellationStatus(context, point) \in Harmless
BY DEF CancellationStatus, Harmless

\* A crop fails by the budget or by the context.
LEMMA CropIsHarmless ==
  ASSUME NEW image, NEW center2, NEW side, NEW dst, NEW means, NEW left,
         NEW context, context.status \in Harmless
  PROVE  CropResizeRgb(image, center2, side, dst, means, left, context).status \in Harmless
<1> DEFINE inside == CancellationStatus(context, InCrop)
           after == CancellationStatus(context, AfterCrop)
           stopped == FirstFailure(<<inside, after>>)
           charged == Charge(left, dst * dst * 3 * FloatBytes)
<1>1. stopped \in Harmless
  <2>1. inside \in Harmless /\ after \in Harmless
    BY PollsAreHarmless
  <2> HIDE DEF inside, after
  <2> QED
    BY <2>1, FirstFailureIsOne DEF Harmless
<1>2. charged.status \in Harmless
  BY DEF Charge, Ok, Failed, Harmless
<1> HIDE DEF stopped, charged
<1>3. CASE charged.status # "kOk"
  BY <1>2, <1>3 DEF CropResizeRgb, Then, charged
<1>4. CASE charged.status = "kOk" /\ stopped # "kOk"
  BY <1>1, <1>4 DEF CropResizeRgb, Then, Failed, charged, stopped
<1>5. CASE charged.status = "kOk" /\ stopped = "kOk"
  BY <1>5 DEF CropResizeRgb, Then, Ok, Harmless, charged, stopped
<1> QED
  BY <1>3, <1>4, <1>5

\* A forward may blame its caller, which is the backend itself, of a bad
\* argument, and of nothing else.
LEMMA ForwardBlamesArgumentsOnly ==
  ASSUME NEW net, net.forward \in Harmless, NEW inputs, NEW wanted,
         NEW before \in Harmless, NEW after \in Harmless
  PROVE  RunMulti(net, inputs, wanted, before, after).status \in Harmless \cup {"kInvalidArgument"}
<1> DEFINE checked == CheckRunMultiArgs(net, inputs, wanted, before)
           status == FirstFailure(<<checked, net.forward, after>>)
<1>1. checked \in Harmless \cup {"kInvalidArgument"}
  <2>1. \A condition : Requires(condition, "kInvalidArgument") \in {"kOk", "kInvalidArgument"}
    BY DEF Requires
  <2>2. PICK a \in {"kOk", "kInvalidArgument"}, b \in {"kOk", "kInvalidArgument"},
             c \in {"kOk", "kInvalidArgument"}, d \in {"kOk", "kInvalidArgument"} :
          checked = FirstFailure(<<a, b, c, before, d>>)
    BY <2>1, Zenon DEF CheckRunMultiArgs
  <2> HIDE DEF checked
  <2> QED
    BY <2>2, FirstFailureOfFive DEF Harmless
<1> HIDE DEF checked
<1>2. status \in Harmless \cup {"kInvalidArgument"}
  <2> DEFINE S == Harmless \cup {"kInvalidArgument"}
  <2>1. "kOk" \in S /\ checked \in S /\ net.forward \in S /\ after \in S
    BY <1>1 DEF Harmless
  <2> HIDE DEF S
  <2>2. status \in S
    BY <2>1, FailuresStayIn
  <2> QED
    BY <2>2 DEF S
<1> HIDE DEF status
<1>3. RunMulti(net, inputs, wanted, before, after).status = status
  BY DEF RunMulti, Ok, Failed, status, checked
<1> QED
  BY <1>2, <1>3

\* What is left of the blame when the backend has remapped it.
LEMMA RemappedIsHarmless ==
  ASSUME NEW result, result.status \in Harmless \cup {"kInvalidArgument"}
  PROVE  /\ RemapModelContractError(result).status \in Harmless
         /\ RemapModelContractError(result).status = "kOk" => RemapModelContractError(result) = result
BY DEF RemapModelContractError, Failed, Harmless

\* A single forward fails as a forward of many.
LEMMA RunIsRunMulti ==
  ASSUME NEW net, net.forward \in Harmless, NEW blob, NEW tensor, NEW wanted,
         NEW before \in Harmless, NEW after \in Harmless
  PROVE  Run(net, blob, tensor, wanted, before, after).status \in Harmless \cup {"kInvalidArgument"}
<1> DEFINE many == RunMulti(net, <<[blob |-> blob, tensor |-> tensor]>>, <<wanted>>, before, after)
<1>1. many.status \in Harmless \cup {"kInvalidArgument"}
  BY ForwardBlamesArgumentsOnly
<1> HIDE DEF many
<1> QED
  BY <1>1 DEF Run, Then, Ok, Harmless, many

\* The feature of a crop.
LEMMA FeatureIsHarmless ==
  ASSUME NEW image, NEW bounds, NEW side, NEW dst, NEW means, NEW health,
         NEW context, context.status \in Harmless
  PROVE  Feature(image, bounds, side, dst, means, context, health).status \in Harmless
<1> DEFINE crop == CropResizeRgb(image, Center2(bounds), side, dst, means, WorkBudgetBytes, context)
           before == CancellationStatus(context, BeforeBackbone)
           after == CancellationStatus(context, AfterBackbone)
           net == BackboneNet(health, crop.value.tensor)
           feature == RemapModelContractError(
                        Run(net, "input", crop.value.tensor, "output", before, after))
<1>1. crop.status \in Harmless
  BY CropIsHarmless
<1>2. feature.status \in Harmless
  <2>1. before \in Harmless /\ after \in Harmless
    BY PollsAreHarmless
  <2>2. net.forward \in Harmless
    BY DEF BackboneNet, Harmless
  <2> HIDE DEF net, before, after, crop
  <2> QED
    BY <2>1, <2>2, RunIsRunMulti, RemappedIsHarmless
<1> HIDE DEF crop, feature
<1>3. CASE crop.status # "kOk"
  BY <1>1, <1>3 DEF Feature, Then, crop
<1>4. CASE crop.status = "kOk" /\ feature.status # "kOk"
  BY <1>2, <1>4 DEF Feature, Then, crop, feature
<1>5. CASE crop.status = "kOk" /\ feature.status = "kOk"
  BY <1>5 DEF Feature, Then, Ok, Harmless, crop, feature
<1> QED
  BY <1>3, <1>4, <1>5

\* The scan for the peak.
LEMMA ScanIsHarmless ==
  ASSUME NEW cls, NEW box, NEW session, NEW context, context.status \in Harmless
  PROVE  ScanResponsePeak(cls, box, session, context).status \in Harmless
<1>1. /\ CancellationStatus(context, InDecode) \in Harmless
      /\ CancellationStatus(context, AfterDecode) \in Harmless
  BY PollsAreHarmless
<1>2. \A condition : Requires(condition, "kBackendFailure") \in Harmless
  BY DEF Requires, Harmless
<1>3. \A condition : FirstFailure(<<CancellationStatus(context, InDecode),
                                    Requires(condition, "kBackendFailure"),
                                    CancellationStatus(context, AfterDecode)>>) \in Harmless
  <2>1. "kOk" \in Harmless
    BY DEF Harmless
  <2> QED
    BY <1>1, <1>2, <2>1, FailuresStayIn
<1> QED
  BY <1>3 DEF ScanResponsePeak, Ok, Failed, Harmless

-----------------------------------------------------------------------------
(* The two calls *)

\* The entry of a call: a malformed one is blamed, whatever the context says.
LEMMA EntryBlamesRightly ==
  ASSUME NEW asked, asked.context.status \in Harmless
  PROVE  /\ WellFormed(asked) => Accepted(asked) \in Harmless
         /\ ~WellFormed(asked) => Accepted(asked) \in Blames
<1> DEFINE valid == ValidateRequest(asked.image, asked.bounds)
           poll == CancellationStatus(asked.context, AtEntry)
<1>1. valid \in {"kOk"} \cup Blames
  <2> DEFINE S == {"kOk"} \cup Blames
  <2>1. /\ \A condition : Requires(condition, "kInvalidArgument") \in S
        /\ \A condition : Requires(condition, "kUnsupportedFormat") \in S
        /\ "kOk" \in S
    BY DEF Requires, Blames
  <2> HIDE DEF S
  <2>2. valid \in S
    BY <2>1, FailuresStayIn DEF ValidateRequest
  <2> QED
    BY <2>2 DEF S
<1>2. poll \in Harmless
  BY PollsAreHarmless
<1>3. Accepted(asked) = IF valid # "kOk" THEN valid ELSE poll
  <2> HIDE DEF valid, poll
  <2> QED
    BY FailureOrder DEF Accepted, valid, poll
<1>4. WellFormed(asked) <=> valid = "kOk"
  BY DEF WellFormed
<1> HIDE DEF valid, poll
<1> QED
  BY <1>1, <1>2, <1>3, <1>4

\* An initialization that passes its entry.
LEMMA InitializedIsHarmless ==
  ASSUME NEW asked, asked.context.status \in Harmless, Accepted(asked) = "kOk"
  PROVE  Initialized(asked).status \in Harmless
<1> DEFINE bounds == asked.bounds
           means == ChannelMeans(asked.image)
           template == Feature(asked.image, bounds, TemplateSide(bounds.w, bounds.h), ExemplarSize, means,
                               asked.context, asked.backbone)
           left == Charge(template.value.left, TensorBytes(template.value.feature))
           rest == Charge(left.value, ScoreSize * ScoreSize * FloatBytes)
<1>1. template.status \in Harmless
  BY FeatureIsHarmless
<1>2. left.status \in Harmless /\ rest.status \in Harmless
  BY DEF Charge, Ok, Failed, Harmless
<1> HIDE DEF bounds, means, template, left, rest
<1>3. \/ Initialized(asked).status \in {"kOk", "kBackendFailure"}
      \/ Initialized(asked) \in {template, left, rest}
  BY DEF Initialized, Then, Ok, Failed, bounds, means, template, left, rest
<1> QED
  BY <1>1, <1>2, <1>3 DEF Harmless

\* The decoding of an answer.
LEMMA DecodeIsHarmless ==
  ASSUME NEW cls, NEW box, NEW image, NEW bounds, NEW session, NEW context, context.status \in Harmless
  PROVE  DecodeUpdate(cls, box, image, bounds, session, context).status \in Harmless
<1> DEFINE peak == ScanResponsePeak(cls, box, session, context)
<1>1. peak.status \in Harmless
  BY ScanIsHarmless
<1> HIDE DEF peak
<1>2. \/ DecodeUpdate(cls, box, image, bounds, session, context).status \in {"kOk", "kBackendFailure"}
      \/ DecodeUpdate(cls, box, image, bounds, session, context) = peak
  BY DEF DecodeUpdate, Then, Ok, Failed, peak
<1> QED
  BY <1>1, <1>2 DEF Harmless

\* An update that passes its entry.
LEMMA UpdatedIsHarmless ==
  ASSUME NEW session, NEW asked, asked.context.status \in Harmless,
         asked.head.forward \in Harmless, Accepted(asked) = "kOk"
  PROVE  Updated(session, asked).status \in Harmless
<1> DEFINE context == asked.context
           crop_side == CropSide(TemplateSide(session.ref_w, session.ref_h))
           search == Feature(asked.image, asked.bounds, crop_side, InstanceSize, session.means,
                             context, asked.backbone)
           left == Charge(search.value.left, TensorBytes(search.value.feature))
           rest == Charge(left.value, 6 * ScoreSize * ScoreSize * FloatBytes + TensorBytes(session.feature))
           before == CancellationStatus(context, BeforeHead)
           after == CancellationStatus(context, AfterHead)
           net == HeadNet(asked.head)
           inputs == <<[blob |-> "input1", tensor |-> session.feature],
                       [blob |-> "input2", tensor |-> search.value.feature]>>
           maps == RemapModelContractError(RunMulti(net, inputs, <<"output1", "output2">>, before, after))
           decoded == DecodeUpdate(maps.value[1], maps.value[2], asked.image, asked.bounds, session, context)
<1>1. search.status \in Harmless
  BY FeatureIsHarmless
<1>2. left.status \in Harmless /\ rest.status \in Harmless
  BY DEF Charge, Ok, Failed, Harmless
<1>3. maps.status \in Harmless
  <2>1. before \in Harmless /\ after \in Harmless
    BY PollsAreHarmless
  <2>2. net.forward \in Harmless
    BY DEF HeadNet
  <2> HIDE DEF before, after, net, inputs
  <2> QED
    BY <2>1, <2>2, ForwardBlamesArgumentsOnly, RemappedIsHarmless
<1>4. decoded.status \in Harmless
  BY DecodeIsHarmless
<1>5. Updated(session, asked) \in {search, left, rest, maps, decoded}
  <2> HIDE DEF search, left, rest, maps, decoded
  <2> QED
    BY DEF Updated, Then, search, left, rest, maps, decoded, context, crop_side, before, after, net, inputs
<1> HIDE DEF search, left, rest, maps, decoded
<1> QED
  BY <1>1, <1>2, <1>3, <1>4, <1>5

\* What a call records of itself.
LEMMA RecordedCallsAreBlamedRightly ==
  ASSUME NEW target, NEW asked, asked.context.status \in Harmless, NEW status, NEW answered,
         Accepted(asked) # "kOk" => status = Accepted(asked),
         Accepted(asked) = "kOk" => status \in Harmless,
         Recorded(target, asked, status, answered)
  PROVE  CallersAreBlamedRightly'
<1>1. last'.well_formed = WellFormed(asked) /\ last'.status = status
  BY DEF Recorded
<1>2. WellFormed(asked) => status \in Harmless
  BY EntryBlamesRightly
<1>3. ~WellFormed(asked) => status \in Blames
  BY EntryBlamesRightly DEF Blames
<1>4. WellFormed(asked) \in BOOLEAN
  BY DEF WellFormed
<1> HIDE DEF WellFormed
<1> QED
  BY <1>1, <1>2, <1>3, <1>4 DEF CallersAreBlamedRightly, Harmless, Blames

\* Whatever the models answer and wherever the context stops, a well-formed
\* call is never blamed on its caller, and a malformed one always is: the
\* retry policy of the caller may rely on the code of the failure.
THEOREM BlameIsRight == Spec => []CallersAreBlamedRightly
<1>1. Init => CallersAreBlamedRightly
  BY DEF Init, CallersAreBlamedRightly
<1>2. ASSUME NEW asked \in Requests
      PROVE  asked.context.status \in Harmless /\ asked.head.forward \in Harmless
  BY StopsAndForwards DEF Harmless
<1>3. ASSUME NEW t \in Targets, NEW asked \in Requests, Initialize(t, asked)
      PROVE  CallersAreBlamedRightly'
  <2> DEFINE result == Initialized(asked)
  <2>1. Recorded(t, asked, result.status, {})
    BY <1>3 DEF Initialize
  <2>2. /\ Accepted(asked) # "kOk" => result.status = Accepted(asked)
        /\ Accepted(asked) = "kOk" => result.status \in Harmless
    <3>1. Accepted(asked) # "kOk" => result = Failed(Accepted(asked))
      BY Zenon DEF Initialized
    <3>2. Accepted(asked) = "kOk" => result.status \in Harmless
      BY <1>2, InitializedIsHarmless
    <3>3. \A status : Failed(status).status = status
      BY DEF Failed
    <3> HIDE DEF result
    <3> QED
      BY <3>1, <3>2, <3>3
  <2> HIDE DEF result
  <2> QED
    BY <1>2, <2>1, <2>2, RecordedCallsAreBlamedRightly
<1>4. ASSUME NEW t \in Targets, NEW asked \in Requests, Update(t, asked)
      PROVE  CallersAreBlamedRightly'
  <2> DEFINE result == Updated(sessions[t], asked)
  <2>1. \E answered : Recorded(t, asked, result.status, answered)
    BY <1>4 DEF Update
  <2>2. /\ Accepted(asked) # "kOk" => result.status = Accepted(asked)
        /\ Accepted(asked) = "kOk" => result.status \in Harmless
    <3>1. Accepted(asked) # "kOk" => result = Failed(Accepted(asked))
      BY Zenon DEF Updated
    <3>2. Accepted(asked) = "kOk" => result.status \in Harmless
      BY <1>2, UpdatedIsHarmless
    <3>3. \A status : Failed(status).status = status
      BY DEF Failed
    <3> HIDE DEF result
    <3> QED
      BY <3>1, <3>2, <3>3
  <2> HIDE DEF result
  <2> QED
    BY <1>2, <2>1, <2>2, RecordedCallsAreBlamedRightly
<1>5. ASSUME CallersAreBlamedRightly, UNCHANGED last
      PROVE  CallersAreBlamedRightly'
  BY <1>5 DEF CallersAreBlamedRightly
<1>6. CallersAreBlamedRightly /\ [Next]_vars => CallersAreBlamedRightly'
  BY <1>3, <1>4, <1>5 DEF Next, Discard, vars
<1> QED
  BY <1>1, <1>6, PTL DEF Spec

-----------------------------------------------------------------------------
(* The arithmetic of a search *)

\* The rounded root of a number.
LEMMA RootOfWhole ==
  ASSUME NEW n \in Nat
  PROVE  FloorRoot(n) \in Nat /\ (n >= 1 => FloorRoot(n) >= 1)
<1> DEFINE T == {k \in Nat : n < k * k}
<1>1. n + 1 \in T
  <2>1. n + 1 \in Nat /\ (n + 1) * (n + 1) = n * n + 2 * n + 1 /\ n * n >= 0
    OBVIOUS
  <2> QED
    BY <2>1
<1>2. PICK least \in T : \A k \in T : least <= k
  <2>1. T \in SUBSET Nat /\ T # {}
    BY <1>1
  <2> HIDE DEF T
  <2> QED
    BY <2>1, LeastOf
<1>3. least \in Nat /\ n < least * least
  OBVIOUS
<1>4. least # 0
  BY <1>3
<1> DEFINE r == least - 1
<1>5. r \in Nat /\ r < least /\ r + 1 = least
  BY <1>3, <1>4
<1>6. r * r <= n
  <2>1. r \notin T
    <3> HIDE DEF T, r
    <3> QED
      BY <1>2, <1>3, <1>5
  <2>2. r * r \in Int
    BY <1>5
  <2> QED
    BY <1>5, <2>1, <2>2
<1>7. n < (r + 1) * (r + 1)
  BY <1>3, <1>5
<1>8. r \in 0 .. n
  <2> HIDE DEF r
  <2>1. r = 0 \/ r * r >= r
    BY <1>5
  <2>2. r * r \in Int
    BY <1>5
  <2> QED
    BY <1>5, <1>6, <2>1, <2>2
<1> HIDE DEF r
<1> DEFINE root == FloorRoot(n)
<1>9. root \in 0 .. n /\ root * root <= n /\ n < (root + 1) * (root + 1)
  BY <1>6, <1>7, <1>8 DEF FloorRoot
<1> HIDE DEF root
<1>10. root = 0 => (root + 1) * (root + 1) = 1
  OBVIOUS
<1>11. root \in Nat
  BY <1>9
<1>12. n >= 1 => root >= 1
  BY <1>9, <1>10, <1>11
<1> QED
  BY <1>11, <1>12 DEF root

\* A part of a hundredfold is at most the hundredth.
LEMMA PercentOf ==
  ASSUME NEW x \in Int, NEW y \in Int, y > 0, 0 <= x, x <= 100 * y
  PROVE  x \div y \in 0 .. 100
<1> DEFINE q == x \div y
           r == x % y
<1>1. q \in Int /\ r \in Int /\ x = y * q + r /\ 0 <= r /\ r < y
  OBVIOUS
<1> HIDE DEF q, r
<1>2. q >= 0
  <2> SUFFICES ASSUME q <= -1 PROVE FALSE
    BY <1>1
  <2>1. y * q <= -y
    BY <1>1
  <2> QED
    BY <1>1, <2>1
<1>3. q <= 100
  <2> SUFFICES ASSUME q >= 101 PROVE FALSE
    BY <1>1
  <2>1. y * q >= 101 * y
    BY <1>1
  <2> QED
    BY <1>1, <2>1
<1> QED
  BY <1>1, <1>2, <1>3 DEF q

\* The product of positive numbers is positive.
LEMMA ProductIsPositive ==
  ASSUME NEW a \in Int, NEW b \in Int, a > 0, b > 0
  PROVE  a * b \in Int /\ a * b > 0
OBVIOUS

\* Smaller factors have the smaller product.
LEMMA ProductsCompare ==
  ASSUME NEW a \in Int, NEW b \in Int, NEW c \in Int, NEW d \in Int,
         0 <= a, a <= c, 0 <= b, b <= d
  PROVE  /\ a * b \in Int /\ c * d \in Int /\ 0 <= a * b /\ a * b <= c * d
         /\ 0 < c /\ 0 < d => 0 < c * d
<1>1. a * b <= c * b
  OBVIOUS
<1>2. c * b <= c * d
  OBVIOUS
<1>3. a * b \in Int /\ c * b \in Int /\ c * d \in Int
  OBVIOUS
<1>4. 0 <= a * b /\ (0 < c /\ 0 < d => 0 < c * d)
  OBVIOUS
<1> QED
  BY <1>1, <1>2, <1>3, <1>4

\* A part of the way to a positive number is positive.
LEMMA PartOfTheWay ==
  ASSUME NEW ref \in Int, NEW size \in Int, ref > 0, size > 0,
         NEW parts \in Int, parts > 0, NEW rate \in Int, 0 <= rate, rate <= parts
  PROVE  ref + ((size - ref) * rate) \div parts \in Int /\ ref + ((size - ref) * rate) \div parts > 0
<1> DEFINE way == (size - ref) * rate
           q == way \div parts
           r == way % parts
<1>1. way \in Int
  OBVIOUS
<1>2. CASE size >= ref
  <2>1. way >= 0
    BY <1>2
  <2> HIDE DEF way
  <2>2. q \in Int /\ r \in Int /\ way = parts * q + r /\ 0 <= r /\ r < parts
    BY <1>1
  <2> HIDE DEF q, r
  <2>3. q >= 0
    <3> SUFFICES ASSUME q <= -1 PROVE FALSE
      BY <2>2
    <3>1. parts * q <= -parts
      BY <2>2
    <3>2. parts * q \in Int
      BY <2>2
    <3> QED
      BY <1>1, <2>1, <2>2, <3>1, <3>2
  <2> QED
    BY <2>2, <2>3 DEF q, way
<1>3. CASE size < ref
  <2> DEFINE d == ref - size
  <2>1. d \in Int /\ d > 0 /\ d < ref /\ size - ref = -d
    BY <1>3
  <2>2. way >= -(d * parts)
    <3> DEFINE e == parts - rate
    <3>1. e \in Int /\ e >= 0 /\ rate = parts - e
      OBVIOUS
    <3>2. way = -(d * rate)
      <4>1. way = (-d) * rate
        BY <2>1
      <4> HIDE DEF d, way
      <4> QED
        BY <2>1, <4>1
    <3> HIDE DEF way, d, e
    <3>3. d * e >= 0 /\ d * e \in Int /\ d * parts \in Int /\ d * rate \in Int
      BY <2>1, <3>1
    <3>4. d * rate = d * parts - d * e
      BY <2>1, <3>1
    <3> QED
      BY <1>1, <3>2, <3>3, <3>4
  <2> HIDE DEF way
  <2>3. q \in Int /\ r \in Int /\ way = parts * q + r /\ 0 <= r /\ r < parts
    BY <1>1
  <2> HIDE DEF q, r, d
  <2>4. q >= -d
    <3> SUFFICES ASSUME q <= -d - 1 PROVE FALSE
      BY <2>1, <2>3
    <3> DEFINE f == -d - 1 - q
    <3>1. f \in Int /\ f >= 0 /\ q = -d - 1 - f
      BY <2>1, <2>3
    <3> HIDE DEF f
    <3>2. parts * q = -(d * parts) - parts - parts * f
      BY <2>1, <3>1
    <3>3. parts * f >= 0 /\ parts * f \in Int /\ d * parts \in Int
      BY <2>1, <3>1
    <3> QED
      BY <1>1, <2>2, <2>3, <3>2, <3>3
  <2>5. ref + q \in Int /\ ref + q > 0
    BY <2>1, <2>3, <2>4
  <2> QED
    BY <2>5 DEF q, way
<1> QED
  BY <1>2, <1>3

\* The reference of a session stays positive on its way to what was predicted.
LEMMA ReferenceStaysPositive ==
  ASSUME NEW ref \in Int, NEW size \in Int, ref > 0, size > 0,
         NEW penalty \in 0 .. 100, NEW score \in 0 .. 100, NEW learning \in 0 .. 100
  PROVE  /\ Moved(ref, size, penalty * score * learning) \in Int
         /\ Moved(ref, size, penalty * score * learning) > 0
<1>1. /\ Whole \in Int /\ Whole > 0
      /\ \A share \in {penalty, score, learning} : share \in Int /\ 0 <= share /\ share <= Whole
  BY DEF Whole
<1>2. /\ Whole * Whole \in Int /\ Whole * Whole > 0
      /\ penalty * score \in Int /\ 0 <= penalty * score /\ penalty * score <= Whole * Whole
  BY <1>1, ProductsCompare
<1> DEFINE parts == Whole * Whole * Whole
           rate == penalty * score * learning
<1>3. /\ parts \in Int /\ parts > 0 /\ rate \in Int /\ 0 <= rate /\ rate <= parts
  BY <1>1, <1>2, ProductsCompare
<1>4. Moved(ref, size, rate) = ref + ((size - ref) * rate) \div parts
  BY DEF Moved
<1> HIDE DEF parts, rate
<1>5. /\ ref + ((size - ref) * rate) \div parts \in Int
      /\ ref + ((size - ref) * rate) \div parts > 0
  BY <1>3, PartOfTheWay
<1>6. Moved(ref, size, rate) \in Int /\ Moved(ref, size, rate) > 0
  BY <1>4, <1>5
<1> QED
  BY <1>6 DEF rate

\* The options as numbers.
LEMMA Options ==
  /\ ExemplarSize \in Int /\ ExemplarSize > 0 /\ InstanceSize \in Int /\ TotalStride \in Int
  /\ ScoreSize \in Int /\ MaxLogit \in Int /\ MaxLogit >= 0
  /\ SizeLearningRate \in 0 .. 100 /\ WindowInfluence \in 0 .. 100
  /\ ContextAmount[1] \in Int /\ ContextAmount[2] \in Int
  /\ ContextAmount[1] >= 0 /\ ContextAmount[2] > 0
<1>1. ExemplarSize >= 1
  BY BackendIsCreated DEF AcceptedOptions
<1>2. ScoreSize \in 2 .. 128 /\ SizeLearningRate \in 0 .. 100 /\ WindowInfluence \in 0 .. 100
  BY BackendIsCreated DEF AcceptedOptions
<1>3. 0 <= ContextAmount[1] /\ ContextAmount[1] < ContextAmount[2]
  BY BackendIsCreated DEF AcceptedOptions
<1>4. {ExemplarSize, InstanceSize, TotalStride} \subseteq Int /\ MaxLogit \in Nat
      /\ ContextAmount \in Int \X Int
  BY NumbersAreWhole
<1>5. ContextAmount[1] \in Int /\ ContextAmount[2] \in Int
  BY <1>4
<1> QED
  BY <1>1, <1>2, <1>3, <1>4, <1>5

\* A quotient of a number that is not negative is not negative.
LEMMA QuotientIsWhole ==
  ASSUME NEW x \in Int, NEW y \in Int, y > 0
  PROVE  x \div y \in Int /\ (x >= 0 => x \div y >= 0)
<1> DEFINE q == x \div y
           r == x % y
<1>1. q \in Int /\ r \in Int /\ x = y * q + r /\ 0 <= r /\ r < y
  OBVIOUS
<1> HIDE DEF q, r
<1>2. ASSUME x >= 0 PROVE q >= 0
  <2> SUFFICES ASSUME q <= -1 PROVE FALSE
    BY <1>1
  <2>1. y * q <= -y /\ y * q \in Int
    BY <1>1
  <2> QED
    BY <1>1, <1>2, <2>1
<1> QED
  BY <1>1, <1>2 DEF q

\* Positive sizes have a positive side of the template and a positive padded size.
LEMMA SidesArePositive ==
  ASSUME NEW w \in Int, NEW h \in Int, w > 0, h > 0
  PROVE  /\ TemplateSide(w, h) \in Int /\ TemplateSide(w, h) > 0
         /\ PaddedSize(w, h) \in Int /\ PaddedSize(w, h) > 0
<1> DEFINE context == (ContextAmount[1] * (w + h)) \div ContextAmount[2]
<1>1. context \in Int /\ context >= 0
  <2>1. ContextAmount[1] * (w + h) \in Int /\ ContextAmount[1] * (w + h) >= 0
    <3> DEFINE sum == w + h
    <3>1. sum \in Int /\ sum >= 0
      OBVIOUS
    <3> HIDE DEF sum
    <3>2. ContextAmount[1] * sum \in Int /\ ContextAmount[1] * sum >= 0
      BY <3>1, Options
    <3> QED
      BY <3>2 DEF sum
  <2> QED
    BY <2>1, Options, QuotientIsWhole
<1>2. TemplateSide(w, h) = FloorRoot((w + context) * (h + context))
  BY DEF TemplateSide
<1> HIDE DEF context
<1>3. /\ (w + context) * (h + context) \in Nat /\ (w + context) * (h + context) >= 1
  <2>1. w + context \in Int /\ w + context > 0 /\ h + context \in Int /\ h + context > 0
    BY <1>1
  <2> DEFINE area == (w + context) * (h + context)
  <2>2. area \in Int /\ area > 0
    BY <2>1, ProductIsPositive
  <2> HIDE DEF area
  <2>3. area \in Nat /\ area >= 1
    BY <2>2
  <2> QED
    BY <2>3 DEF area
<1>4. /\ (3 * w + h) * (w + 3 * h) \in Nat /\ (3 * w + h) * (w + 3 * h) >= 1
  <2>1. 3 * w + h \in Int /\ 3 * w + h > 0 /\ w + 3 * h \in Int /\ w + 3 * h > 0
    OBVIOUS
  <2> DEFINE area == (3 * w + h) * (w + 3 * h)
  <2>2. area \in Int /\ area > 0
    BY <2>1, ProductIsPositive
  <2> HIDE DEF area
  <2>3. area \in Nat /\ area >= 1
    BY <2>2
  <2> QED
    BY <2>3 DEF area
<1> DEFINE a == (w + context) * (h + context)
           b == (3 * w + h) * (w + 3 * h)
<1>5. PaddedSize(w, h) = FloorRoot(b) /\ TemplateSide(w, h) = FloorRoot(a)
  BY <1>2 DEF PaddedSize
<1>6. a \in Nat /\ a >= 1 /\ b \in Nat /\ b >= 1
  BY <1>3, <1>4
<1> HIDE DEF a, b
<1>7. FloorRoot(a) \in Nat /\ FloorRoot(a) >= 1 /\ FloorRoot(b) \in Nat /\ FloorRoot(b) >= 1
  BY <1>6, RootOfWhole
<1> QED
  BY <1>5, <1>7

\* A ratio of two positive numbers, the greater first.
LEMMA ExcessOf ==
  ASSUME NEW a \in Int, NEW b \in Int, a > 0, b > 0
  PROVE  /\ Excess(<<a, b>>)[1] \in Int /\ Excess(<<a, b>>)[2] \in Int
         /\ 0 < Excess(<<a, b>>)[2] /\ Excess(<<a, b>>)[2] <= Excess(<<a, b>>)[1]
BY DEF Excess

\* What the sizes and shapes leave of a score is a share of it.
LEMMA PenaltyIsAShare ==
  ASSUME NEW box, box.w \in Int, box.w > 0, box.h \in Int, box.h > 0,
         NEW session, session.ref_w \in Int, session.ref_w > 0,
         session.ref_h \in Int, session.ref_h > 0,
         NEW reference, reference.side \in Int, reference.side > 0,
         reference.size \in Int, reference.size > 0
  PROVE  Penalty(box, session, reference) \in 0 .. 100
<1> DEFINE padded == PaddedSize(box.w, box.h)
           size == Excess(<<padded * reference.side, reference.size * ExemplarSize>>)
           shape == Excess(<<session.ref_w * box.h, session.ref_h * box.w>>)
<1>1. padded \in Int /\ padded > 0
  BY SidesArePositive
<1>2. size[1] \in Int /\ size[2] \in Int /\ 0 < size[2] /\ size[2] <= size[1]
  <2> DEFINE a == padded * reference.side
             b == reference.size * ExemplarSize
  <2> HIDE DEF padded
  <2>1. a \in Int /\ a > 0
    BY <1>1, ProductIsPositive
  <2>2. b \in Int /\ b > 0
    BY Options, ProductIsPositive
  <2> HIDE DEF a, b
  <2>3. Excess(<<a, b>>)[1] \in Int /\ Excess(<<a, b>>)[2] \in Int
         /\ 0 < Excess(<<a, b>>)[2] /\ Excess(<<a, b>>)[2] <= Excess(<<a, b>>)[1]
    BY <2>1, <2>2, ExcessOf
  <2> QED
    BY <2>3 DEF a, b
<1>3. shape[1] \in Int /\ shape[2] \in Int /\ 0 < shape[2] /\ shape[2] <= shape[1]
  <2> DEFINE a == session.ref_w * box.h
             b == session.ref_h * box.w
  <2>1. a \in Int /\ a > 0
    BY ProductIsPositive
  <2>2. b \in Int /\ b > 0
    BY ProductIsPositive
  <2> HIDE DEF a, b
  <2>3. Excess(<<a, b>>)[1] \in Int /\ Excess(<<a, b>>)[2] \in Int
         /\ 0 < Excess(<<a, b>>)[2] /\ Excess(<<a, b>>)[2] <= Excess(<<a, b>>)[1]
    BY <2>1, <2>2, ExcessOf
  <2> QED
    BY <2>3 DEF a, b
<1>4. Penalty(box, session, reference) = (100 * size[2] * shape[2]) \div (size[1] * shape[1])
  BY DEF Penalty
<1> DEFINE a == size[2]
           b == shape[2]
           c == size[1]
           d == shape[1]
<1>5. /\ a \in Int /\ b \in Int /\ c \in Int /\ d \in Int
      /\ 0 < a /\ a <= c /\ 0 < b /\ b <= d
  BY <1>2, <1>3
<1>6. Penalty(box, session, reference) = (100 * a * b) \div (c * d)
  BY <1>4
<1> HIDE DEF a, b, c, d, size, shape
<1> DEFINE less == a * b
           more == c * d
<1>7. less \in Int /\ more \in Int /\ 0 <= less /\ less <= more /\ 0 < more
  BY <1>5, ProductsCompare
<1>8. 100 * a * b = 100 * less
  BY <1>5
<1> HIDE DEF less, more
<1>9. 100 * less \in Int /\ 0 <= 100 * less /\ 100 * less <= 100 * more
  BY <1>7
<1>10. (100 * less) \div more \in 0 .. 100
  BY <1>7, <1>9, PercentOf
<1> QED
  BY <1>6, <1>8, <1>10 DEF more

\* The line that stands in for the sigmoid has its values among the hundredths.
LEMMA SigmoidIsAShare ==
  ASSUME NEW logit \in -MaxLogit .. MaxLogit
  PROVE  Sigmoid(logit) \in 0 .. 100
<1>1. MaxLogit \in Int /\ MaxLogit >= 0
  BY Options
<1> DEFINE x == 100 * (logit + MaxLogit + 1)
           y == 2 * MaxLogit + 2
<1>2. x \in Int /\ y \in Int /\ y > 0 /\ 0 <= x /\ x <= 100 * y
  BY <1>1
<1> HIDE DEF x, y
<1>3. x \div y \in 0 .. 100
  BY <1>2, PercentOf
<1> QED
  BY <1>3 DEF Sigmoid, x, y

-----------------------------------------------------------------------------
(* What a search finds *)

\* A session whose reference sizes can be divided by.
HasSize(session) ==
  session.ref_w \in Int /\ session.ref_w > 0 /\ session.ref_h \in Int /\ session.ref_h > 0

\* A cell's answers are numbers, or are not numbers.
Logits(cls) ==
  \A cell \in Grid(ScoreSize, ScoreSize) :
    cls.data[<<2, cell[1], cell[2]>>] = NaN \/ cls.data[<<2, cell[1], cell[2]>>] \in -MaxLogit .. MaxLogit
Distances(box) ==
  \A k \in 1 .. 4, cell \in Grid(ScoreSize, ScoreSize) :
    box.data[<<k, cell[1], cell[2]>>] = NaN \/ box.data[<<k, cell[1], cell[2]>>] \in Int

\* The boxes of usable cells have positive sizes.
LEMMA UsableIsPositive ==
  ASSUME NEW box, Distances(box), NEW cell \in Grid(ScoreSize, ScoreSize), Usable(box, cell)
  PROVE  /\ Predicted(box, cell).x \in Int /\ Predicted(box, cell).y \in Int
         /\ Predicted(box, cell).w \in Int /\ Predicted(box, cell).w > 0
         /\ Predicted(box, cell).h \in Int /\ Predicted(box, cell).h > 0
<1> DEFINE side(k) == box.data[<<k, cell[1], cell[2]>>]
<1>1. \A k \in 1 .. 4 : side(k) \in Int
  BY DEF Distances, Usable
<1>2. cell[1] \in Int /\ cell[2] \in Int
  BY Options DEF Grid
<1>3. Predicted(box, cell) =
        [x |-> TotalStride * cell[1] - side(1), y |-> TotalStride * cell[2] - side(2),
         w |-> side(1) + side(3), h |-> side(2) + side(4)]
  BY DEF Predicted, Rect
<1>4. Predicted(box, cell).w > 0 /\ Predicted(box, cell).h > 0
  BY DEF Usable
<1> HIDE DEF side
<1>5. side(1) \in Int /\ side(2) \in Int /\ side(3) \in Int /\ side(4) \in Int
  BY <1>1
<1>6. TotalStride * cell[1] \in Int /\ TotalStride * cell[2] \in Int
  BY <1>2, Options
<1> QED
  BY <1>3, <1>4, <1>5, <1>6

\* The window weighs with whole numbers.
LEMMA WindowIsWhole ==
  ASSUME NEW cell \in Grid(ScoreSize, ScoreSize)
  PROVE  CosineWindow(cell) \in Int
<1>1. \A i \in 0 .. ScoreSize - 1 : Hanning(i) \in Int
  <2> SUFFICES ASSUME NEW i \in 0 .. ScoreSize - 1 PROVE Hanning(i) \in Int
    OBVIOUS
  <2>1. ScoreSize \in Int /\ ScoreSize >= 2
    BY BackendIsCreated DEF AcceptedOptions
  <2> DEFINE least == Min({i, ScoreSize - 1 - i})
  <2>2. i \in Int /\ ScoreSize - 1 - i \in Int
    BY <2>1
  <2>3. least \in Int
    BY <2>2, MinMaxOfTwo
  <2> HIDE DEF least
  <2>4. 200 * least \in Int /\ ScoreSize - 1 \in Int /\ ScoreSize - 1 > 0
    BY <2>1, <2>3
  <2> DEFINE x == 200 * least
             y == ScoreSize - 1
  <2>5. x \in Int /\ y \in Int /\ y > 0
    BY <2>4
  <2> HIDE DEF x, y
  <2>6. x \div y \in Int
    BY <2>5, QuotientIsWhole
  <2> QED
    BY <2>6 DEF Hanning, x, y, least
<1>2. cell[1] \in 0 .. ScoreSize - 1 /\ cell[2] \in 0 .. ScoreSize - 1
  BY DEF Grid
<1> DEFINE x == Hanning(cell[1]) * Hanning(cell[2])
<1>3. x \in Int
  <2> DEFINE a == Hanning(cell[1])
             b == Hanning(cell[2])
  <2>1. a \in Int /\ b \in Int
    BY <1>1, <1>2
  <2> HIDE DEF a, b
  <2>2. a * b \in Int
    BY <2>1
  <2> QED
    BY <2>2 DEF a, b
<1> HIDE DEF x
<1>4. x \div 100 \in Int
  BY <1>3
<1> QED
  BY <1>4 DEF CosineWindow, x

\* Among finitely many cells one wins, and the winner is one of them.
LEMMA OneCellWins ==
  ASSUME NEW cells \in SUBSET Grid(ScoreSize, ScoreSize), cells # {},
         NEW response, \A cell \in cells : response[cell] \in Int
  PROVE  \E cell \in cells : \A other \in cells \ {cell} :
           \/ response[cell] > response[other]
           \/ response[cell] = response[other] /\ RowMajorBefore(cell, other)
<1> DEFINE precedes == {pair \in cells \X cells :
                          \/ response[pair[1]] > response[pair[2]]
                          \/ response[pair[1]] = response[pair[2]] /\ RowMajorBefore(pair[1], pair[2])}
           ranked == SortedBy(cells, precedes)
           n == Cardinality(cells)
<1>1. IsFiniteSet(cells)
  <2>1. IsFiniteSet(0 .. ScoreSize - 1)
    BY Options, FS_Interval
  <2>2. IsFiniteSet(Grid(ScoreSize, ScoreSize))
    BY <2>1, FS_Product DEF Grid
  <2> QED
    BY <2>2, FS_Subset
<1>2. \A x \in cells : /\ x = <<x[1], x[2]>> /\ x[1] \in Int /\ x[2] \in Int
  BY Options DEF Grid
<1>3. \A x, y \in cells : <<x, y>> \in precedes <=>
        \/ response[x] > response[y]
        \/ response[x] = response[y] /\ (x[2] < y[2] \/ (x[2] = y[2] /\ x[1] < y[1]))
  BY DEF RowMajorBefore
<1> HIDE DEF precedes
<1>4. StrictOrder(cells, precedes)
  <2>1. \A x \in cells : <<x, x>> \notin precedes
    BY <1>2, <1>3
  <2>2. ASSUME NEW x \in cells, NEW y \in cells, NEW z \in cells,
               <<x, y>> \in precedes, <<y, z>> \in precedes
        PROVE  <<x, z>> \in precedes
    <3>1. response[x] \in Int /\ response[y] \in Int /\ response[z] \in Int
      OBVIOUS
    <3>2. x[1] \in Int /\ x[2] \in Int /\ y[1] \in Int /\ y[2] \in Int /\ z[1] \in Int /\ z[2] \in Int
      BY <1>2
    <3> QED
      BY <1>3, <2>2, <3>1, <3>2
  <2>3. ASSUME NEW x \in cells, NEW y \in cells, x # y
        PROVE  <<x, y>> \in precedes \/ <<y, x>> \in precedes
    <3>1. response[x] \in Int /\ response[y] \in Int
      OBVIOUS
    <3>2. x[1] \in Int /\ x[2] \in Int /\ y[1] \in Int /\ y[2] \in Int
      BY <1>2
    <3>3. x[1] # y[1] \/ x[2] # y[2]
      BY <1>2, <2>3
    <3> QED
      BY <1>3, <3>1, <3>2, <3>3
  <2> QED
    BY <2>1, <2>2, <2>3 DEF StrictOrder
<1>5. /\ n \in Nat
      /\ \A k \in 1 .. n : ranked[k] \in cells
      /\ \A x \in cells : \E k \in 1 .. n : ranked[k] = x
  BY <1>1, SortedArranges
<1>6. \A i, j \in 1 .. n : i < j => <<ranked[i], ranked[j]>> \in precedes
  BY <1>1, <1>4, SortedSorts
<1> HIDE DEF ranked, n
<1>7. n >= 1
  BY <1>5
<1>8. 1 \in 1 .. n
  BY <1>5, <1>7
<1> DEFINE first == ranked[1]
<1>9. first \in cells
  BY <1>5, <1>8
<1>10. ASSUME NEW other \in cells, other # first PROVE <<first, other>> \in precedes
  <2>1. PICK k \in 1 .. n : ranked[k] = other
    BY <1>5
  <2>2. k # 1
    BY <1>10, <2>1
  <2>3. 1 < k
    BY <1>5, <2>2
  <2> QED
    BY <1>6, <1>8, <2>1, <2>3
<1> HIDE DEF first
<1>11. \A other \in cells \ {first} :
         \/ response[first] > response[other]
         \/ response[first] = response[other] /\ RowMajorBefore(first, other)
  BY <1>3, <1>9, <1>10 DEF RowMajorBefore
<1> QED
  BY <1>9, <1>11

\* What a scan finds: a box of positive size, shares for its penalty and score.
Found(peak) ==
  /\ peak.box.x \in Int /\ peak.box.y \in Int
  /\ peak.box.w \in Int /\ peak.box.w > 0 /\ peak.box.h \in Int /\ peak.box.h > 0
  /\ peak.penalty \in 0 .. 100 /\ peak.score \in 0 .. 100

\* A scan that succeeds has found one.
LEMMA ScanFinds ==
  ASSUME NEW cls, Logits(cls), NEW box, Distances(box), NEW session, HasSize(session), NEW context,
         ScanResponsePeak(cls, box, session, context).status = "kOk"
  PROVE  Found(ScanResponsePeak(cls, box, session, context).value)
<1> DEFINE usable == {cell \in Grid(ScoreSize, ScoreSize) : Usable(box, cell)}
           foreground(cell) == cls.data[<<2, cell[1], cell[2]>>]
           reference == [side |-> TemplateSide(session.ref_w, session.ref_h),
                         size |-> PaddedSize(session.ref_w, session.ref_h)]
           penalty == [cell \in usable |-> Penalty(Predicted(box, cell), session, reference)]
           response == [cell \in usable |->
                          Response(Sigmoid(foreground(cell)), penalty[cell], CosineWindow(cell))]
           Wins(cell) == \A other \in usable \ {cell} :
                           \/ response[cell] > response[other]
                           \/ response[cell] = response[other] /\ RowMajorBefore(cell, other)
           broken == usable = {} \/ \E cell \in usable : foreground(cell) = NaN
           failure == FirstFailure(<<CancellationStatus(context, InDecode),
                                     Requires(~broken, "kBackendFailure"),
                                     CancellationStatus(context, AfterDecode)>>)
           winner == CHOOSE cell \in usable : Wins(cell)
           found == [box |-> Predicted(box, winner), penalty |-> penalty[winner],
                     score |-> Sigmoid(foreground(winner))]
<1>1. ScanResponsePeak(cls, box, session, context) =
        IF failure # "kOk" THEN Failed(failure) ELSE Ok(found)
  BY DEF ScanResponsePeak
<1>2. ~broken /\ ScanResponsePeak(cls, box, session, context).value = found
  <2> HIDE DEF failure, found, broken
  <2>1. failure = "kOk" /\ ScanResponsePeak(cls, box, session, context) = Ok(found)
    BY <1>1 DEF Failed
  <2> DEFINE before == CancellationStatus(context, InDecode)
             sound == Requires(~broken, "kBackendFailure")
             after == CancellationStatus(context, AfterDecode)
  <2>2. sound = "kOk"
    <3>1. FirstFailure(<<before, sound, after>>) = "kOk"
      BY <2>1 DEF failure
    <3> HIDE DEF before, sound, after
    <3> QED
      BY <3>1, AllPass
  <2>3. ~broken
    BY <2>2 DEF Requires
  <2> QED
    BY <2>1, <2>3 DEF Ok
<1>3. \A cell \in usable : Sigmoid(foreground(cell)) \in 0 .. 100
  <2> SUFFICES ASSUME NEW cell \in usable PROVE Sigmoid(foreground(cell)) \in 0 .. 100
    OBVIOUS
  <2>1. foreground(cell) \in -MaxLogit .. MaxLogit
    BY <1>2 DEF Logits
  <2> HIDE DEF foreground
  <2> QED
    BY <2>1, SigmoidIsAShare
<1>4. \A cell \in usable : penalty[cell] \in 0 .. 100
  <2> SUFFICES ASSUME NEW cell \in usable PROVE penalty[cell] \in 0 .. 100
    OBVIOUS
  <2>1. reference.side \in Int /\ reference.side > 0 /\ reference.size \in Int /\ reference.size > 0
    BY SidesArePositive DEF HasSize
  <2> DEFINE at == Predicted(box, cell)
  <2>2. at.w \in Int /\ at.w > 0 /\ at.h \in Int /\ at.h > 0
    BY UsableIsPositive
  <2>3. penalty[cell] = Penalty(at, session, reference)
    OBVIOUS
  <2> HIDE DEF at, reference, penalty
  <2> QED
    BY <2>1, <2>2, <2>3, PenaltyIsAShare DEF HasSize
<1>5. \A cell \in usable : response[cell] \in Int
  <2> SUFFICES ASSUME NEW cell \in usable PROVE response[cell] \in Int
    OBVIOUS
  <2>1. CosineWindow(cell) \in Int
    BY WindowIsWhole
  <2> DEFINE s == Sigmoid(foreground(cell))
             p == penalty[cell]
             v == CosineWindow(cell)
  <2>2. response[cell] = p * s * (100 - WindowInfluence) + 100 * v * WindowInfluence
    BY DEF Response
  <2>3. s \in Int /\ p \in Int /\ v \in Int /\ WindowInfluence \in Int
    BY <1>3, <1>4, <2>1, Options
  <2> HIDE DEF s, p, v, response
  <2> QED
    BY <2>2, <2>3
<1>6. winner \in usable
  <2>1. \E cell \in usable : Wins(cell)
    <3>1. usable \in SUBSET Grid(ScoreSize, ScoreSize) /\ usable # {}
      BY <1>2
    <3> HIDE DEF usable, response
    <3> QED
      BY <1>5, <3>1, OneCellWins
  <2> HIDE DEF Wins, usable
  <2> QED
    BY <2>1
<1>7. /\ found.box = Predicted(box, winner) /\ found.penalty = penalty[winner]
      /\ found.score = Sigmoid(foreground(winner))
  OBVIOUS
<1>8. winner \in Grid(ScoreSize, ScoreSize) /\ Usable(box, winner)
  BY <1>6
<1> HIDE DEF winner, found
<1>9. found.penalty \in 0 .. 100 /\ found.score \in 0 .. 100
  BY <1>3, <1>4, <1>6, <1>7
<1> QED
  BY <1>2, <1>7, <1>8, <1>9, UsableIsPositive DEF Found

-----------------------------------------------------------------------------
(* What a call answers *)

\* A rectangle of whole numbers.
WholeRect(r) == r.x \in Int /\ r.y \in Int /\ r.w \in Int /\ r.h \in Int

\* What an update answers can be gone on with.
GoodAnswer(frame, image) ==
  /\ HasSize(frame)
  /\ frame.bounds.w > 0 /\ frame.bounds.h > 0
  /\ RectContains(Rect(0, 0, image.w, image.h), frame.bounds)

\* A place before the first is the first.
LEMMA NotBelowZero ==
  ASSUME NEW a \in Int
  PROVE  Max({0, a}) = (IF 0 >= a THEN 0 ELSE a) /\ Max({0, a}) \in Int
<1> DEFINE zero == 0
<1>1. zero \in Int
  OBVIOUS
<1> HIDE DEF zero
<1>2. Max({zero, a}) = IF zero >= a THEN zero ELSE a
  BY <1>1, MinMaxOfTwo
<1>3. Max({zero, a}) \in Int
  BY <1>1, <1>2
<1> QED
  BY <1>2, <1>3 DEF zero

\* The cut of a box has whole numbers.
LEMMA VisibleIsWhole ==
  ASSUME NEW box, WholeRect(box), NEW image, image.w \in Int, image.h \in Int
  PROVE  Visible(box, image).w \in Int /\ Visible(box, image).h \in Int
<1> DEFINE x == Max({0, box.x})
           y == Max({0, box.y})
           right == Min({image.w, box.x + box.w})
           bottom == Min({image.h, box.y + box.h})
<1>1. Visible(box, image) = [x |-> x, y |-> y, w |-> right - x, h |-> bottom - y]
  BY DEF Visible, Rect
<1>2. box.x \in Int /\ box.y \in Int /\ box.x + box.w \in Int /\ box.y + box.h \in Int
  BY DEF WholeRect
<1>3. x \in Int /\ y \in Int
  BY <1>2, NotBelowZero
<1>4. right \in Int /\ bottom \in Int
  BY <1>2, MinMaxOfTwo
<1> HIDE DEF x, y, right, bottom
<1> QED
  BY <1>1, <1>3, <1>4

\* The cut of a box that shows lies inside the image, and what shows has a size.
LEMMA VisibleIsInside ==
  ASSUME NEW box, WholeRect(box), NEW image, image.w \in Int, image.h \in Int,
         Visible(box, image).w > 0, Visible(box, image).h > 0
  PROVE  /\ RectContains(Rect(0, 0, image.w, image.h), Visible(box, image))
         /\ box.w > 0 /\ box.h > 0
<1> DEFINE x == Max({0, box.x})
           y == Max({0, box.y})
           right == Min({image.w, box.x + box.w})
           bottom == Min({image.h, box.y + box.h})
<1>1. Visible(box, image) = [x |-> x, y |-> y, w |-> right - x, h |-> bottom - y]
  BY DEF Visible, Rect
<1>2. box.x \in Int /\ box.y \in Int /\ box.w \in Int /\ box.h \in Int
  BY DEF WholeRect
<1>3. x = IF 0 >= box.x THEN 0 ELSE box.x
  BY <1>2, NotBelowZero
<1>4. y = IF 0 >= box.y THEN 0 ELSE box.y
  BY <1>2, NotBelowZero
<1>5. right = IF image.w <= box.x + box.w THEN image.w ELSE box.x + box.w
  BY <1>2, MinMaxOfTwo
<1>6. bottom = IF image.h <= box.y + box.h THEN image.h ELSE box.y + box.h
  BY <1>2, MinMaxOfTwo
<1> HIDE DEF x, y, right, bottom
<1>7. x \in Int /\ y \in Int /\ right \in Int /\ bottom \in Int
  BY <1>2, <1>3, <1>4, <1>5, <1>6
<1>8. right - x > 0 /\ bottom - y > 0
  BY <1>1
<1>9. box.w > 0 /\ box.h > 0
  BY <1>2, <1>3, <1>4, <1>5, <1>6, <1>7, <1>8
<1>10. x >= 0 /\ y >= 0 /\ x + (right - x) <= image.w /\ y + (bottom - y) <= image.h
  BY <1>2, <1>3, <1>4, <1>5, <1>6, <1>7
<1> QED
  BY <1>1, <1>9, <1>10 DEF RectContains, Rect

\* A box is mapped back to whole numbers.
LEMMA MappedBackIsWhole ==
  ASSUME NEW box, WholeRect(box), NEW bounds, WholeRect(bounds), NEW side \in Int
  PROVE  WholeRect(MappedBack(box, bounds, side))
<1> DEFINE Back(v) == (v * side) \div ExemplarSize
           Begin(center2, begin, length) ==
             (center2 + Back(2 * begin + length - InstanceSize) - Back(length)) \div 2
<1>1. \A v \in Int : Back(v) \in Int
  <2> SUFFICES ASSUME NEW v \in Int PROVE Back(v) \in Int
    OBVIOUS
  <2> DEFINE x == v * side
  <2>1. x \in Int
    OBVIOUS
  <2> HIDE DEF x
  <2>2. x \div ExemplarSize \in Int
    BY <2>1, Options, QuotientIsWhole
  <2> QED
    BY <2>2 DEF x
<1>2. \A c, b, l \in Int : Begin(c, b, l) \in Int
  <2> SUFFICES ASSUME NEW c \in Int, NEW b \in Int, NEW l \in Int PROVE Begin(c, b, l) \in Int
    OBVIOUS
  <2>1. 2 * b + l - InstanceSize \in Int
    BY Options
  <2> HIDE DEF Back
  <2>2. Back(2 * b + l - InstanceSize) \in Int /\ Back(l) \in Int
    BY <1>1, <2>1
  <2> QED
    BY <2>2
<1>3. Center2(bounds)[1] \in Int /\ Center2(bounds)[2] \in Int
  BY DEF Center2, WholeRect
<1>4. MappedBack(box, bounds, side) =
        [x |-> Begin(Center2(bounds)[1], box.x, box.w), y |-> Begin(Center2(bounds)[2], box.y, box.h),
         w |-> Back(box.w), h |-> Back(box.h)]
  BY DEF MappedBack, Rect
<1>5. box.x \in Int /\ box.y \in Int /\ box.w \in Int /\ box.h \in Int
  BY DEF WholeRect
<1> HIDE DEF Back, Begin
<1>6. Back(box.w) \in Int /\ Back(box.h) \in Int
  BY <1>1, <1>5
<1>7. Begin(Center2(bounds)[1], box.x, box.w) \in Int /\ Begin(Center2(bounds)[2], box.y, box.h) \in Int
  BY <1>2, <1>3, <1>5
<1> QED
  BY <1>4, <1>6, <1>7 DEF WholeRect

\* The decoding of an answer leaves a session of positive size, and a box inside the image.
LEMMA DecodeIsGood ==
  ASSUME NEW cls, ShapeOk(cls, 2) => Logits(cls), NEW box, ShapeOk(box, 4) => Distances(box),
         NEW image, image.w \in Int, image.h \in Int, NEW bounds, WholeRect(bounds),
         NEW session, HasSize(session), NEW context,
         DecodeUpdate(cls, box, image, bounds, session, context).status = "kOk"
  PROVE  GoodAnswer(DecodeUpdate(cls, box, image, bounds, session, context).value, image)
<1> DEFINE scan == ScanResponsePeak(cls, box, session, context)
           peak == scan.value
           side == TemplateSide(session.ref_w, session.ref_h)
           predicted == MappedBack(peak.box, bounds, side)
           visible == Visible(predicted, image)
           rate == peak.penalty * peak.score * SizeLearningRate
           decoded == DecodeUpdate(cls, box, image, bounds, session, context)
<1>1. decoded =
        IF ~(ShapeOk(cls, 2) /\ ShapeOk(box, 4)) THEN Failed("kBackendFailure")
        ELSE IF scan.status # "kOk" THEN scan
        ELSE IF visible.w <= 0 \/ visible.h <= 0 THEN Failed("kBackendFailure")
        ELSE Ok([bounds |-> visible, confidence |-> peak.score,
                 ref_w |-> Moved(session.ref_w, predicted.w, rate),
                 ref_h |-> Moved(session.ref_h, predicted.h, rate)])
  BY DEF DecodeUpdate, Then
<1> HIDE DEF decoded, scan, visible, rate, predicted
<1>2. decoded.status = "kOk"
  BY DEF decoded
<1>3. /\ ShapeOk(cls, 2) /\ ShapeOk(box, 4) /\ scan.status = "kOk"
      /\ ~(visible.w <= 0 \/ visible.h <= 0)
      /\ decoded.value = [bounds |-> visible, confidence |-> peak.score,
                          ref_w |-> Moved(session.ref_w, predicted.w, rate),
                          ref_h |-> Moved(session.ref_h, predicted.h, rate)]
  <2>1. ~ (Failed("kBackendFailure").status = "kOk")
    BY DEF Failed
  <2> QED
    BY <1>1, <1>2, <2>1 DEF Ok
<1>4. Found(peak)
  BY <1>3, ScanFinds DEF scan
<1> HIDE DEF peak
<1>5. WholeRect(predicted)
  <2>1. side \in Int
    BY SidesArePositive DEF HasSize
  <2>2. WholeRect(peak.box)
    BY <1>4 DEF Found, WholeRect
  <2> HIDE DEF side
  <2> QED
    BY <2>1, <2>2, MappedBackIsWhole DEF predicted
<1>6. visible.w > 0 /\ visible.h > 0
  <2>1. visible.w \in Int /\ visible.h \in Int
    BY <1>5, VisibleIsWhole DEF visible
  <2> QED
    BY <1>3, <2>1
<1>7. RectContains(Rect(0, 0, image.w, image.h), visible) /\ predicted.w > 0 /\ predicted.h > 0
  BY <1>5, <1>6, VisibleIsInside DEF visible
<1>8. /\ Moved(session.ref_w, predicted.w, rate) \in Int /\ Moved(session.ref_w, predicted.w, rate) > 0
      /\ Moved(session.ref_h, predicted.h, rate) \in Int /\ Moved(session.ref_h, predicted.h, rate) > 0
  BY <1>4, <1>5, <1>7, Options, ReferenceStaysPositive DEF rate, Found, WholeRect, HasSize
<1>9. GoodAnswer(decoded.value, image)
  BY <1>3, <1>6, <1>7, <1>8 DEF GoodAnswer, HasSize
<1> QED
  BY <1>9 DEF decoded

\* What an initialization answers: the size it was asked about, and a template
\* that the head can be fed with.
LEMMA InitializedIsGood ==
  ASSUME NEW asked, WholeRect(asked.bounds), Initialized(asked).status = "kOk"
  PROVE  \E feature, means :
           /\ Initialized(asked).value =
                [feature |-> feature, ref_w |-> asked.bounds.w, ref_h |-> asked.bounds.h, means |-> means]
           /\ TensorOk(feature) /\ asked.bounds.w > 0 /\ asked.bounds.h > 0
<1> DEFINE bounds == asked.bounds
           means == ChannelMeans(asked.image)
           template == Feature(asked.image, bounds, TemplateSide(bounds.w, bounds.h), ExemplarSize, means,
                               asked.context, asked.backbone)
           left == Charge(template.value.left, TensorBytes(template.value.feature))
           rest == Charge(left.value, ScoreSize * ScoreSize * FloatBytes)
           answer == [feature |-> template.value.feature, ref_w |-> bounds.w, ref_h |-> bounds.h,
                      means |-> means]
           result == Initialized(asked)
<1>1. result =
        IF Accepted(asked) # "kOk" THEN Failed(Accepted(asked))
        ELSE IF template.status # "kOk" THEN template
        ELSE IF ~TensorOk(template.value.feature) THEN Failed("kBackendFailure")
        ELSE IF left.status # "kOk" THEN left
        ELSE IF rest.status # "kOk" THEN rest
        ELSE Ok(answer)
  BY Zenon DEF Initialized, Then
<1>2. result.status = "kOk"
  OBVIOUS
<1> HIDE DEF result, template, left, rest, answer
<1>3. \A status : Failed(status).status = status
  BY DEF Failed
<1>4. Accepted(asked) = "kOk" /\ TensorOk(template.value.feature) /\ result = Ok(answer)
  BY <1>1, <1>2, <1>3
<1>5. bounds.w > 0 /\ bounds.h > 0
  <2>1. ValidateRequest(asked.image, asked.bounds) = "kOk"
    BY <1>4, AllPass DEF Accepted
  <2> DEFINE inside == /\ bounds.w > 0 /\ bounds.h > 0
                       /\ RectContains(Rect(0, 0, asked.image.w, asked.image.h), bounds)
             shown == Requires(inside, "kInvalidArgument")
             valid == Requires(ValidImage(asked.image), "kInvalidArgument")
             format == Requires(asked.image.format = "kRgb8", "kUnsupportedFormat")
  <2>2. FirstFailure(<<valid, format, shown>>) = "kOk"
    BY <2>1 DEF ValidateRequest
  <2>3. shown = "kOk"
    <3> HIDE DEF valid, format, shown
    <3> QED
      BY <2>2, AllPass
  <2>4. inside
    <3> HIDE DEF inside
    <3> QED
      BY <2>3 DEF Requires
  <2> QED
    BY <2>4
<1>6. result.value = answer
  BY <1>4 DEF Ok
<1>7. answer = [feature |-> template.value.feature, ref_w |-> asked.bounds.w, ref_h |-> asked.bounds.h,
                means |-> means]
  BY DEF answer
<1> HIDE DEF means
<1> QED
  BY <1>4, <1>5, <1>6, <1>7 DEF result

\* What an update answers.
LEMMA UpdatedIsGood ==
  ASSUME NEW session, HasSize(session), NEW asked \in Requests, Updated(session, asked).status = "kOk"
  PROVE  GoodAnswer(Updated(session, asked).value, asked.image)
<1> DEFINE context == asked.context
           crop_side == CropSide(TemplateSide(session.ref_w, session.ref_h))
           search == Feature(asked.image, asked.bounds, crop_side, InstanceSize, session.means,
                             context, asked.backbone)
           left == Charge(search.value.left, TensorBytes(search.value.feature))
           rest == Charge(left.value, 6 * ScoreSize * ScoreSize * FloatBytes + TensorBytes(session.feature))
           before == CancellationStatus(context, BeforeHead)
           after == CancellationStatus(context, AfterHead)
           net == HeadNet(asked.head)
           inputs == <<[blob |-> "input1", tensor |-> session.feature],
                       [blob |-> "input2", tensor |-> search.value.feature]>>
           wanted == <<"output1", "output2">>
           run == RunMulti(net, inputs, wanted, before, after)
           maps == RemapModelContractError(run)
           decoded == DecodeUpdate(maps.value[1], maps.value[2], asked.image, asked.bounds, session, context)
           result == Updated(session, asked)
<1>1. result =
        IF Accepted(asked) # "kOk" THEN Failed(Accepted(asked))
        ELSE IF search.status # "kOk" THEN search
        ELSE IF left.status # "kOk" THEN left
        ELSE IF rest.status # "kOk" THEN rest
        ELSE IF maps.status # "kOk" THEN maps
        ELSE decoded
  BY Zenon DEF Updated, Then
<1>2. result.status = "kOk"
  OBVIOUS
<1> HIDE DEF result, search, left, rest, maps, decoded
<1>3. result = decoded /\ maps.status = "kOk"
  <2>1. \A status : Failed(status).status = status
    BY DEF Failed
  <2> QED
    BY <1>1, <1>2, <2>1
<1>4. maps.value[1] = asked.head.cls /\ maps.value[2] = asked.head.box
  <2> HIDE DEF run
  <2>1. maps = run /\ run.status = "kOk"
    BY <1>3 DEF maps, RemapModelContractError, Failed
  <2> DEFINE status == FirstFailure(<<CheckRunMultiArgs(net, inputs, wanted, before), net.forward, after>>)
             outputs == [i \in DOMAIN wanted |-> net.outputs[wanted[i]]]
  <2>2. run = IF status # "kOk" THEN Failed(status) ELSE Ok(outputs)
    BY DEF RunMulti, run
  <2> HIDE DEF status, outputs
  <2>3. run.value = outputs
    BY <2>1, <2>2 DEF Failed, Ok
  <2>4. outputs[1] = net.outputs["output1"] /\ outputs[2] = net.outputs["output2"]
    BY DEF outputs
  <2>5. net.outputs["output1"] = asked.head.cls /\ net.outputs["output2"] = asked.head.box
    BY DEF HeadNet
  <2> QED
    BY <2>1, <2>3, <2>4, <2>5
<1>5. /\ ShapeOk(asked.head.cls, 2) => Logits(asked.head.cls)
      /\ ShapeOk(asked.head.box, 4) => Distances(asked.head.box)
      /\ asked.image.w \in Int /\ asked.image.h \in Int /\ WholeRect(asked.bounds)
  BY NumbersAreWhole DEF Logits, Distances, WholeRect
<1>6. decoded = DecodeUpdate(asked.head.cls, asked.head.box, asked.image, asked.bounds, session, context)
  BY <1>4 DEF decoded
<1>7. decoded.status = "kOk"
  BY <1>2, <1>3
<1>8. GoodAnswer(decoded.value, asked.image)
  BY <1>5, <1>6, <1>7, DecodeIsGood
<1> QED
  BY <1>3, <1>8 DEF result

\* A session that can be asked again: a size to divide by and a template to feed.
IsUsable(session) ==
  /\ \E feature, w, h, means :
       session = [feature |-> feature, ref_w |-> w, ref_h |-> h, means |-> means]
  /\ HasSize(session) /\ TensorOk(session.feature)

\* Every slot is empty or holds one.
SessionsKept ==
  /\ DOMAIN sessions = Targets
  /\ \A t \in Targets : sessions[t] = NoSession \/ IsUsable(sessions[t])

\* A slot may be given a usable session, or emptied.
LEMMA SlotIsReplaced ==
  ASSUME SessionsKept, NEW t \in Targets, NEW session, session = NoSession \/ IsUsable(session),
         sessions' = [sessions EXCEPT ![t] = session]
  PROVE  SessionsKept'
BY DEF SessionsKept

\* An update moves the two reference sizes and nothing else.
LEMMA AdvancedSession ==
  ASSUME NEW feature, NEW w, NEW h, NEW means, NEW frame
  PROVE  Advanced([feature |-> feature, ref_w |-> w, ref_h |-> h, means |-> means], frame)
           = [feature |-> feature, ref_w |-> frame.ref_w, ref_h |-> frame.ref_h, means |-> means]
<1> DEFINE Session(x, y) == [feature |-> feature, ref_w |-> x, ref_h |-> y, means |-> means]
           x == frame.ref_w
           y == frame.ref_h
<1> HIDE DEF x, y
<1>1. [Session(w, h) EXCEPT !.ref_w = x] = Session(x, h)
  OBVIOUS
<1>2. [Session(x, h) EXCEPT !.ref_h = y] = Session(x, y)
  OBVIOUS
<1>3. Advanced(Session(w, h), frame) = [[Session(w, h) EXCEPT !.ref_w = x] EXCEPT !.ref_h = y]
  <2> HIDE DEF Session
  <2> QED
    BY Zenon DEF Advanced, x, y
<1>4. Advanced(Session(w, h), frame) = [Session(x, h) EXCEPT !.ref_h = y]
  <2> HIDE DEF Session
  <2> QED
    BY <1>1, <1>3
<1>5. Advanced(Session(w, h), frame) = Session(x, y)
  <2> HIDE DEF Session
  <2> QED
    BY <1>2, <1>4
<1> QED
  BY <1>5 DEF x, y

\* After any history of calls, whatever the images show and the models answer, a
\* session can be asked again: its reference sizes are positive, its template has the shape the head is
\* fed with, and an update answers a box inside its image.
THEOREM SessionsSurviveAnyAnswer == Spec => []SessionsStayUsable
<1> DEFINE Inv == SessionsKept /\ SessionsStayUsable
           Answered == last # NoCall => \A frame \in last.answered :
             frame.bounds.w > 0 /\ frame.bounds.h > 0 /\ RectContains(frame.image, frame.bounds)
<1>1. SessionsKept /\ Answered => SessionsStayUsable
  BY DEF SessionsKept, SessionsStayUsable, HasSize, IsUsable, Live
<1>2. SessionsStayUsable => Answered
  BY DEF SessionsStayUsable
<1>3. Init => Inv
  <2> SUFFICES ASSUME Init PROVE SessionsKept /\ Answered
    BY <1>1
  <2> QED
    BY DEF Init, SessionsKept
<1>4. ASSUME NEW t \in Targets, NEW asked \in Requests, SessionsKept, Initialize(t, asked)
      PROVE  (SessionsKept /\ Answered)'
  <2> DEFINE result == Initialized(asked)
  <2>1. Recorded(t, asked, result.status, {})
    BY <1>4 DEF Initialize
  <2>2. Answered'
    <3> HIDE DEF result
    <3>1. last'.answered = {}
      BY <2>1 DEF Recorded
    <3> QED
      BY <3>1
  <2>3. SessionsKept'
    <3>1. CASE result.status # "kOk"
      <4>1. sessions' = sessions
        BY <1>4, <3>1 DEF Initialize
      <4> QED
        BY <1>4, <4>1 DEF SessionsKept
    <3>2. CASE result.status = "kOk"
      <4>1. sessions' = [sessions EXCEPT ![t] = result.value]
        BY <1>4, <3>2 DEF Initialize
      <4>2. WholeRect(asked.bounds)
        BY NumbersAreWhole DEF WholeRect
      <4>3. PICK feature, means :
              /\ result.value = [feature |-> feature, ref_w |-> asked.bounds.w, ref_h |-> asked.bounds.h,
                                 means |-> means]
              /\ TensorOk(feature) /\ asked.bounds.w > 0 /\ asked.bounds.h > 0
        BY <3>2, <4>2, InitializedIsGood
      <4> HIDE DEF result
      <4>4. IsUsable(result.value)
        <5>1. /\ result.value.ref_w = asked.bounds.w /\ result.value.ref_h = asked.bounds.h
              /\ result.value.feature = feature
          BY <4>3
        <5>2. HasSize(result.value) /\ TensorOk(result.value.feature)
          BY <4>2, <4>3, <5>1 DEF HasSize, WholeRect
        <5> QED
          BY <4>3, <5>2 DEF IsUsable
      <4> QED
        BY <1>4, <4>1, <4>4, SlotIsReplaced
    <3> QED
      BY <3>1, <3>2
  <2> QED
    BY <2>2, <2>3
<1>5. ASSUME NEW t \in Targets, NEW asked \in Requests, SessionsKept, Update(t, asked)
      PROVE  (SessionsKept /\ Answered)'
  <2> DEFINE result == Updated(sessions[t], asked)
             moved == Advanced(sessions[t], result.value)
  <2>1. IsUsable(sessions[t])
    BY <1>5 DEF Update, SessionsKept, Live
  <2>2. CASE result.status # "kOk"
    <3>1. sessions' = sessions /\ Recorded(t, asked, result.status, {})
      BY <1>5, <2>2 DEF Update
    <3> HIDE DEF result
    <3>2. last'.answered = {}
      BY <3>1 DEF Recorded
    <3> QED
      BY <1>5, <3>1, <3>2 DEF SessionsKept
  <2>3. CASE result.status = "kOk"
    <3> DEFINE answer == [image |-> Rect(0, 0, asked.image.w, asked.image.h), bounds |-> result.value.bounds]
    <3>1. sessions' = [sessions EXCEPT ![t] = moved] /\ Recorded(t, asked, "kOk", {answer})
      BY <1>5, <2>3 DEF Update
    <3>2. GoodAnswer(result.value, asked.image)
      BY <2>1, <2>3, UpdatedIsGood DEF IsUsable
    <3> HIDE DEF result
    <3>3. PICK feature, w, h, means :
            sessions[t] = [feature |-> feature, ref_w |-> w, ref_h |-> h, means |-> means]
      BY <2>1 DEF IsUsable
    <3>4. moved = [feature |-> feature, ref_w |-> result.value.ref_w, ref_h |-> result.value.ref_h,
                   means |-> means]
      BY <3>3, AdvancedSession
    <3>5. TensorOk(feature)
      BY <2>1, <3>3 DEF IsUsable
    <3> HIDE DEF moved
    <3>6. IsUsable(moved)
      BY <3>2, <3>4, <3>5 DEF GoodAnswer, HasSize, IsUsable
    <3>7. SessionsKept'
      BY <1>5, <3>1, <3>6, SlotIsReplaced
    <3>8. last'.answered = {answer}
      <4> HIDE DEF answer
      <4> QED
        BY <3>1 DEF Recorded
    <3>9. answer.bounds.w > 0 /\ answer.bounds.h > 0 /\ RectContains(answer.image, answer.bounds)
      BY <3>2 DEF GoodAnswer
    <3> HIDE DEF answer
    <3> QED
      BY <3>7, <3>8, <3>9
  <2> QED
    BY <2>2, <2>3
<1>6. ASSUME NEW t \in Targets, SessionsKept, Answered, Discard(t)
      PROVE  (SessionsKept /\ Answered)'
  <2>1. sessions' = [sessions EXCEPT ![t] = NoSession] /\ last' = last
    BY <1>6 DEF Discard
  <2>2. SessionsKept'
    BY <1>6, <2>1, SlotIsReplaced
  <2> QED
    BY <1>6, <2>1, <2>2
<1>7. ASSUME SessionsKept, Answered, UNCHANGED vars
      PROVE  (SessionsKept /\ Answered)'
  BY <1>7 DEF vars, SessionsKept
<1>8. Inv /\ [Next]_vars => Inv'
  <2>1. ASSUME Inv, [Next]_vars PROVE (SessionsKept /\ Answered)'
    BY <1>2, <1>4, <1>5, <1>6, <1>7, <2>1 DEF Next
  <2>2. (SessionsKept /\ Answered)' => SessionsStayUsable'
    BY DEF SessionsKept, SessionsStayUsable, HasSize, IsUsable, Live
  <2> QED
    BY <2>1, <2>2
<1>9. Inv => SessionsStayUsable
  OBVIOUS
<1> QED
  BY <1>3, <1>8, <1>9, PTL DEF Spec
=============================================================================
