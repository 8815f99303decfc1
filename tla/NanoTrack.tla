------------------------------ MODULE NanoTrack ------------------------------
(***************************************************************************)
(* The NanoTrack backend (integrations/tracker_nanotrack) behind the       *)
(* tracker contract (tracker_backend.hpp): one session for each target,    *)
(* with the template feature of its first look and the size it refers to.  *)
(*                                                                         *)
(* Sizes are whole pixels, geometric means are rounded down.  Scores,      *)
(* penalties and the window are whole hundredths; a straight line stands   *)
(* in for the sigmoid and a reciprocal for the exponential of the penalty, *)
(* which are monotone in the same sense and have the same fixed points.    *)
(***************************************************************************)
EXTENDS NcnnRuntime

CONSTANTS
  Targets,          \* one session slot for each
  Requests,         \* [image, bounds, context, backbone, head] of a call
  NoSession, NaN,   \* model values
  ExemplarSize, InstanceSize, ScoreSize, TotalStride,
  ContextAmount,    \* a ratio
  WindowInfluence, SizeLearningRate,  \* hundredths
  MaxLogit, WorkBudgetBytes,          \* options
  MaxReference      \* bound: no larger reference size is explored

VARIABLES
  sessions,         \* target |-> NoSession or [feature, ref_w, ref_h, means]
  last              \* what the last call was asked and answered

vars == <<sessions, last>>

\* NanoTrackerBackend::create refuses other options.
AcceptedOptions ==
  /\ ExemplarSize >= 1 /\ InstanceSize >= ExemplarSize
  /\ ScoreSize \in 2 .. 128 /\ TotalStride >= 1
  /\ 0 <= ContextAmount[1] /\ ContextAmount[1] < ContextAmount[2]
  /\ WindowInfluence \in 0 .. 100 /\ SizeLearningRate \in 0 .. 100
  /\ WorkBudgetBytes > 0

ASSUME BackendIsCreated == AcceptedOptions

\* A context stops by cancellation or by deadline, and a forward of the runtime
\* fails as a backend does.
ASSUME StopsAndForwards ==
  \A asked \in Requests :
    /\ asked.context.status \in {"kOk", "kCancelled", "kTimeout"}
    /\ asked.head.forward \in {"kOk", "kBackendFailure"}

(***************************************************************************)
(* Requests, budget, and the poll points of a call in their order.         *)
(***************************************************************************)
AtEntry == 1
InCrop == 2
AfterCrop == 3
BeforeBackbone == 4
AfterBackbone == 5
BeforeHead == 6
AfterHead == 7
InDecode == 8
AfterDecode == 9

\* A context stops at one of them, and stays stopped.
CancellationStatus(context, point) == IF point >= context.from THEN context.status ELSE "kOk"

ValidateRequest(image, bounds) ==
  FirstFailure(<<
    Requires(ValidImage(image), "kInvalidArgument"),
    Requires(image.format = "kRgb8", "kUnsupportedFormat"),
    Requires(/\ bounds.w > 0 /\ bounds.h > 0
             /\ RectContains(Rect(0, 0, image.w, image.h), bounds), "kInvalidArgument")>>)

FloatBytes == 4
TensorBytes(tensor) == FloatBytes * Cardinality(DOMAIN tensor.data)

\* What is left of a budget.
Charge(left, bytes) == IF bytes > left THEN Failed("kBudgetExceeded") ELSE Ok(left - bytes)

(***************************************************************************)
(* Crops.                                                                  *)
(***************************************************************************)
ChannelMeans(image) ==
  [c \in 1 .. 3 |-> MapThenSumSet(LAMBDA p : image.pixels[p][c], DOMAIN image.pixels)
                      \div (image.w * image.h)]

FloorRoot(n) == CHOOSE r \in 0 .. n : r * r <= n /\ n < (r + 1) * (r + 1)

\* s_z: the target with its context.
TemplateSide(ref_w, ref_h) ==
  LET context == (ContextAmount[1] * (ref_w + ref_h)) \div ContextAmount[2]
  IN  FloorRoot((ref_w + context) * (ref_h + context))

\* s_x: the same margin around it as InstanceSize has around ExemplarSize.
CropSide(template_side) == (template_side * InstanceSize) \div ExemplarSize

\* The square around half of `center2', sampled bilinearly; `means' surround
\* the image.  Positions are counted in parts of 2 * dst.
Sampled(image, center2, side, dst, means) ==
  LET parts == 2 * dst
      Position(center) == [d \in 0 .. dst - 1 |-> dst * center - dst * side + (2 * d + 1) * side - dst]
      px == Position(center2[1])
      py == Position(center2[2])
      At(x, y, c) == IF <<x, y>> \in DOMAIN image.pixels THEN image.pixels[<<x, y>>][c] ELSE means[c]
      Between(first, second, position) ==
        first * (parts - (position % parts)) + second * (position % parts)
      Value(x, y, c) ==
        LET x0 == x \div parts
            y0 == y \div parts
        IN  Between(Between(At(x0, y0, c), At(x0 + 1, y0, c), x),
                    Between(At(x0, y0 + 1, c), At(x0 + 1, y0 + 1, c), x), y) \div (parts * parts)
  IN  [cell \in Cells(3, dst, dst) |-> Value(px[cell[2]], py[cell[3]], cell[1])]

CropResizeRgb(image, center2, side, dst, means, left, context) ==
  Then(Charge(left, dst * dst * 3 * FloatBytes), LAMBDA rest :
    LET stopped == FirstFailure(<<CancellationStatus(context, InCrop), CancellationStatus(context, AfterCrop)>>)
    IN  IF stopped # "kOk" THEN Failed(stopped)
        ELSE Ok([left |-> rest,
                 tensor |-> Tensor(3, dst, dst, Sampled(image, center2, side, dst, means))]))

(***************************************************************************)
(* Forwards.  A network answers what it likes; a defect of it is the       *)
(* model's and never the caller's.                                         *)
(***************************************************************************)
RemapModelContractError_asIs(result) == result

RemapModelContractError(result) ==
  IF result.status = "kInvalidArgument" THEN Failed("kBackendFailure") ELSE result

\* A backbone passes the crop on as the feature, or is broken.
BackboneNet(health, crop) ==
  [blobs |-> IF health = "renamed" THEN {"input"} ELSE {"input", "output"},
   forward |-> IF health = "failing" THEN "kBackendFailure" ELSE "kOk",
   outputs |-> [blob \in {"output"} |->
     CASE health = "empty" -> Tensor(0, 0, 0, <<>>)
       [] health = "wide" -> Tensor(3, 2 * crop.w, crop.h, [cell \in Cells(3, 2 * crop.w, crop.h) |-> 0])
       [] OTHER -> crop]]

\* The feature of a crop and what is left of the budget.
Feature(image, bounds, side, dst, means, context, health) ==
  Then(CropResizeRgb(image, Center2(bounds), side, dst, means, WorkBudgetBytes, context), LAMBDA crop :
  Then(RemapModelContractError(
         Run(BackboneNet(health, crop.tensor), "input", crop.tensor, "output",
             CancellationStatus(context, BeforeBackbone), CancellationStatus(context, AfterBackbone))),
       LAMBDA feature : Ok([feature |-> feature, left |-> crop.left])))

(***************************************************************************)
(* The decoding of the response maps.  A cell of the grid is <<x, y>>.     *)
(***************************************************************************)
Hanning(i) == (200 * Min({i, ScoreSize - 1 - i})) \div (ScoreSize - 1)

CosineWindow(cell) == (Hanning(cell[1]) * Hanning(cell[2])) \div 100

Sigmoid(logit) == (100 * (logit + MaxLogit + 1)) \div (2 * MaxLogit + 2)

\* left, top, right and bottom as the head gives them.
Predicted(box, cell) ==
  LET side(k) == box.data[<<k, cell[1], cell[2]>>]
  IN  Rect(TotalStride * cell[1] - side(1), TotalStride * cell[2] - side(2), side(1) + side(3), side(2) + side(4))

Usable(box, cell) ==
  /\ \A k \in 1 .. 4 : box.data[<<k, cell[1], cell[2]>>] # NaN
  /\ Predicted(box, cell).w > 0 /\ Predicted(box, cell).h > 0

\* Twice the size of a box with its margin.
PaddedSize(w, h) == FloorRoot((3 * w + h) * (w + 3 * h))

Excess(ratio) == IF ratio[1] >= ratio[2] THEN ratio ELSE <<ratio[2], ratio[1]>>

\* The reference is compared in pixels of the crop.
Penalty(box, session, reference) ==
  LET size == Excess(<<PaddedSize(box.w, box.h) * reference.side, reference.size * ExemplarSize>>)
      shape == Excess(<<session.ref_w * box.h, session.ref_h * box.w>>)
  IN  (100 * size[2] * shape[2]) \div (size[1] * shape[1])

Response(score, penalty, window) ==
  penalty * score * (100 - WindowInfluence) + 100 * window * WindowInfluence

RowMajorBefore(a, b) == a[2] < b[2] \/ (a[2] = b[2] /\ a[1] < b[1])

ScanResponsePeak(cls, box, session, context) ==
  LET usable == {cell \in Grid(ScoreSize, ScoreSize) : Usable(box, cell)}
      foreground(cell) == cls.data[<<2, cell[1], cell[2]>>]
      reference == [side |-> TemplateSide(session.ref_w, session.ref_h),
                    size |-> PaddedSize(session.ref_w, session.ref_h)]
      penalty == [cell \in usable |-> Penalty(Predicted(box, cell), session, reference)]
      response == [cell \in usable |-> Response(Sigmoid(foreground(cell)), penalty[cell], CosineWindow(cell))]
      Wins(cell) == \A other \in usable \ {cell} :
                      \/ response[cell] > response[other]
                      \/ response[cell] = response[other] /\ RowMajorBefore(cell, other)
      broken == usable = {} \/ \E cell \in usable : foreground(cell) = NaN
      failure == FirstFailure(<<CancellationStatus(context, InDecode),
                                Requires(~broken, "kBackendFailure"),
                                CancellationStatus(context, AfterDecode)>>)
  IN  IF failure # "kOk" THEN Failed(failure)
      ELSE LET winner == CHOOSE cell \in usable : Wins(cell)
           IN  Ok([box |-> Predicted(box, winner), penalty |-> penalty[winner],
                   score |-> Sigmoid(foreground(winner))])

ShapeOk(tensor, channels) == tensor.channels = channels /\ tensor.w = ScoreSize /\ tensor.h = ScoreSize

\* Sizes are whole pixels.  The line that stands in for the sigmoid covers the
\* logits up to MaxLogit, and a head may answer what is not a number.
ASSUME NumbersAreWhole ==
  /\ {ExemplarSize, InstanceSize, TotalStride} \subseteq Int /\ MaxLogit \in Nat
  /\ ContextAmount \in Int \X Int
  /\ \A asked \in Requests :
       /\ {asked.image.w, asked.image.h, asked.bounds.x, asked.bounds.y, asked.bounds.w, asked.bounds.h}
            \subseteq Int
       /\ ShapeOk(asked.head.cls, 2) =>
            \A cell \in Grid(ScoreSize, ScoreSize) :
              LET logit == asked.head.cls.data[<<2, cell[1], cell[2]>>]
              IN  logit = NaN \/ logit \in -MaxLogit .. MaxLogit
       /\ ShapeOk(asked.head.box, 4) =>
            \A k \in 1 .. 4, cell \in Grid(ScoreSize, ScoreSize) :
              LET distance == asked.head.box.data[<<k, cell[1], cell[2]>>]
              IN  distance = NaN \/ distance \in Int

\* From the search crop to the image; the crop's middle is the prior's.
MappedBack(box, bounds, template_side) ==
  LET Back(v) == (v * template_side) \div ExemplarSize
      Begin(center2, begin, length) == (center2 + Back(2 * begin + length - InstanceSize) - Back(length)) \div 2
  IN  Rect(Begin(Center2(bounds)[1], box.x, box.w), Begin(Center2(bounds)[2], box.y, box.h),
           Back(box.w), Back(box.h))

Visible_sizeOnly(box, image) ==
  LET x == Max({0, box.x})
      y == Max({0, box.y})
  IN  Rect(x, y, Min({image.w, box.w}), Min({image.h, box.h}))

Visible(box, image) ==
  LET x == Max({0, box.x})
      y == Max({0, box.y})
  IN  Rect(x, y, Min({image.w, box.x + box.w}) - x, Min({image.h, box.y + box.h}) - y)

\* The reference moves towards the size that was predicted; the rate is a product
\* of three hundredths.
Whole == 100
Moved(ref, size, rate) == ref + ((size - ref) * rate) \div (Whole * Whole * Whole)

DecodeUpdate(cls, box, image, bounds, session, context) ==
  IF ~(ShapeOk(cls, 2) /\ ShapeOk(box, 4)) THEN Failed("kBackendFailure")
  ELSE Then(ScanResponsePeak(cls, box, session, context), LAMBDA peak :
    LET predicted == MappedBack(peak.box, bounds, TemplateSide(session.ref_w, session.ref_h))
        visible == Visible(predicted, image)
        rate == peak.penalty * peak.score * SizeLearningRate
    IN  IF visible.w <= 0 \/ visible.h <= 0 THEN Failed("kBackendFailure")
        ELSE Ok([bounds |-> visible, confidence |-> peak.score,
                 ref_w |-> Moved(session.ref_w, predicted.w, rate),
                 ref_h |-> Moved(session.ref_h, predicted.h, rate)]))

(***************************************************************************)
(* The two calls.                                                          *)
(***************************************************************************)
Accepted(asked) ==
  FirstFailure(<<ValidateRequest(asked.image, asked.bounds), CancellationStatus(asked.context, AtEntry)>>)

Initialized(asked) ==
  LET bounds == asked.bounds
      means == ChannelMeans(asked.image)
  IN  IF Accepted(asked) # "kOk" THEN Failed(Accepted(asked))
      ELSE Then(Feature(asked.image, bounds, TemplateSide(bounds.w, bounds.h), ExemplarSize, means,
                        asked.context, asked.backbone), LAMBDA template :
           IF ~TensorOk(template.feature) THEN Failed("kBackendFailure")
           ELSE Then(Charge(template.left, TensorBytes(template.feature)), LAMBDA left :
                Then(Charge(left, ScoreSize * ScoreSize * FloatBytes), LAMBDA rest :
                  Ok([feature |-> template.feature, ref_w |-> bounds.w, ref_h |-> bounds.h, means |-> means]))))

HeadNet(head) ==
  [blobs |-> head.blobs, forward |-> head.forward,
   outputs |-> [blob \in {"output1", "output2"} |-> IF blob = "output1" THEN head.cls ELSE head.box]]

Updated(session, asked) ==
  LET image == asked.image
      context == asked.context
      crop_side == CropSide(TemplateSide(session.ref_w, session.ref_h))
      response_bytes == 6 * ScoreSize * ScoreSize * FloatBytes
  IN  IF Accepted(asked) # "kOk" THEN Failed(Accepted(asked))
      ELSE Then(Feature(image, asked.bounds, crop_side, InstanceSize, session.means, context, asked.backbone),
                LAMBDA search :
           Then(Charge(search.left, TensorBytes(search.feature)), LAMBDA left :
           Then(Charge(left, response_bytes + TensorBytes(session.feature)), LAMBDA rest :
           Then(RemapModelContractError(
                  RunMulti(HeadNet(asked.head),
                           <<[blob |-> "input1", tensor |-> session.feature],
                             [blob |-> "input2", tensor |-> search.feature]>>,
                           <<"output1", "output2">>,
                           CancellationStatus(context, BeforeHead), CancellationStatus(context, AfterHead))),
                LAMBDA maps : DecodeUpdate(maps[1], maps[2], image, asked.bounds, session, context)))))

(***************************************************************************)
(* The actions.  Calls on one backend are serial.                          *)
(***************************************************************************)
Live == {t \in Targets : sessions[t] # NoSession}

WellFormed(asked) == ValidateRequest(asked.image, asked.bounds) = "kOk"

\* `answered': nothing, or the bounds that an update answers and their image.
Recorded(target, asked, status, answered) ==
  last' = [target |-> target, well_formed |-> WellFormed(asked), status |-> status, answered |-> answered]

\* A new session replaces the one in the slot.
Initialize(target, asked) ==
  LET result == Initialized(asked)
  IN  /\ sessions' = IF result.status = "kOk" THEN [sessions EXCEPT ![target] = result.value] ELSE sessions
      /\ Recorded(target, asked, result.status, {})

Advanced(session, frame) == [session EXCEPT !.ref_w = frame.ref_w, !.ref_h = frame.ref_h]

Update(target, asked) ==
  LET session == sessions[target]
      result == Updated(session, asked)
      advanced == Advanced(session, result.value)
  IN  /\ target \in Live
      /\ IF result.status # "kOk" THEN sessions' = sessions /\ Recorded(target, asked, result.status, {})
         ELSE /\ Max({advanced.ref_w, advanced.ref_h}) <= MaxReference
              /\ sessions' = [sessions EXCEPT ![target] = advanced]
              /\ Recorded(target, asked, "kOk",
                   {[image |-> Rect(0, 0, asked.image.w, asked.image.h), bounds |-> result.value.bounds]})

\* ~TrackerSession.
Discard(target) ==
  /\ target \in Live
  /\ sessions' = [sessions EXCEPT ![target] = NoSession]
  /\ UNCHANGED last

NoCall == [status |-> "kNone"]

Init == sessions = [t \in Targets |-> NoSession] /\ last = NoCall

Next ==
  \E t \in Targets :
    \/ \E asked \in Requests : Initialize(t, asked) \/ Update(t, asked)
    \/ Discard(t)

Spec == Init /\ [][Next]_vars

(***************************************************************************)
(* Properties.                                                             *)
(***************************************************************************)
\* The fusion side rebuilds a session on kBackendFailure, retries on a stop and
\* treats the other errors as its own.  Whatever the models answer, a
\* well-formed call is never blamed on the caller, and a malformed one always
\* is, under a stopped context too.
CallersAreBlamedRightly ==
  last # NoCall =>
    (last.well_formed <=> last.status \notin {"kInvalidArgument", "kUnsupportedFormat"})

\* Sessions stay usable: after any history of calls the reference sizes are
\* positive and the template has the shape that the head is fed with, and what
\* an update answers lies inside its image.
SessionsStayUsable ==
  /\ \A t \in Live : sessions[t].ref_w > 0 /\ sessions[t].ref_h > 0 /\ TensorOk(sessions[t].feature)
  /\ last # NoCall => \A frame \in last.answered :
       frame.bounds.w > 0 /\ frame.bounds.h > 0 /\ RectContains(frame.image, frame.bounds)
=============================================================================
