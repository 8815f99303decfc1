----------------------------- MODULE BudgetedOcr -----------------------------
(***************************************************************************)
(* One call of run_ocr_budgeted (perception_session.cpp) down to the       *)
(* budgeted PP-OCR backend (ppocr_budgeted.cpp): detection of the lines,   *)
(* recognition of as many as the budgets allow, and the report.            *)
(*                                                                         *)
(* The call polls its context and reads the clock between its steps; the   *)
(* caller may cancel, and time passes, before any of them.                 *)
(***************************************************************************)
EXTENDS CapabilityRequests, NcnnRuntime, OcrBatch

CONSTANTS
  Calls,            \* [frame, backend, request, deadline, longest_unit]
  Sightings,        \* what the detection may answer: boxes of the canvas in scan order
  Readings,         \* what the recognition may answer: scores of the classes
  Charset,
  DetSide, CanvasStride, DetLimit, RecHeight, RecWidth, WorkBytes, UnitUpperBound,   \* options
  MaxTime           \* bound: the clock stops here

VARIABLES
  call, now, cancelled,
  stage,            \* what the call does next
  entry_time,
  lines, det_limit_hit,
  executed,         \* lines recognized so far: the order of the next one
  unit_began,
  stop_reason,
  outcome           \* of the call: [status] or [status, value]

vars == <<call, now, cancelled, stage, entry_time, lines, det_limit_hit, executed, unit_began,
          stop_reason, outcome>>

request == call.request

\* The domain of the box cap.
MaxBoxesLimit == 65535

\* PpOcrBudgetedBackend::create refuses other options (the stride is 32 there).
AcceptedOptions ==
  /\ CanvasStride \in Nat \ {0}
  /\ DetSide \in Nat \ {0} /\ DetSide % CanvasStride = 0
  /\ DetLimit \in 1 .. MaxBoxesLimit
  /\ RecHeight \in Nat \ {0} /\ RecWidth \in Nat \ {0}
  /\ UnitUpperBound \in Nat

ASSUME BackendIsCreated == AcceptedOptions

\* Times are whole; at most one reserve is named, and a negative one is refused.
ASSUME CallsAreTimed ==
  \A asked \in Calls :
    /\ asked.deadline \subseteq Int /\ asked.longest_unit \in Nat
    /\ asked.request.finalize_reserve \subseteq Nat
    /\ \A r, s \in asked.request.finalize_reserve : r = s

\* Requests and boxes are of whole numbers; what is optional is a set.
BudgetedOcrRequest ==
  [roi : SUBSET RectRecord, roi_space : STRING, output_space : STRING, priority_space : STRING,
   max_side : Int, min_confidence : Int, max_rec_lines : Int, selection : STRING,
   priorities : Seq([roi : RectRecord, priority : Int]),
   soft_budget : SUBSET Int, finalize_reserve : SUBSET Int,
   max_priority_entries : Int, max_priority_bytes : Int, max_report_bytes : Int]

ASSUME RequestsAreTyped ==
  \A asked \in Calls : asked.request \in BudgetedOcrRequest /\ asked.backend.accepts \in Seq(STRING)
ASSUME BoxesAreWhole ==
  \A sighting \in Sightings :
    sighting.status = "kOk" => sighting.value \in Seq([bounds : RectRecord, confidence : Int])

\* The runtime has no clock: only the context of the call reports a timeout.
ASSUME ReadingsDoNotTimeOut == \A reading \in Readings : reading.status # "kTimeout"

(***************************************************************************)
(* The context.                                                            *)
(***************************************************************************)
DeadlineReached == \E d \in call.deadline : now > d

ContextStatus == IF cancelled THEN "kCancelled" ELSE IF DeadlineReached THEN "kTimeout" ELSE "kOk"

Cancel ==
  /\ stage # "returned" /\ ~cancelled
  /\ cancelled' = TRUE
  /\ UNCHANGED <<call, now, stage, entry_time, lines, det_limit_hit, executed, unit_began, stop_reason, outcome>>

InUnit == stage \in {"unit", "forward"}

\* A unit takes no longer than the model needs on this call.
Tick ==
  /\ stage # "returned" /\ now < MaxTime
  /\ InUnit => now - unit_began < call.longest_unit
  /\ now' = now + 1
  /\ UNCHANGED <<call, cancelled, stage, entry_time, lines, det_limit_hit, executed, unit_began, stop_reason, outcome>>

(***************************************************************************)
(* The session's part before the backend is called.                        *)
(***************************************************************************)
ConvertedPriorities_oriented(prepared, asked) ==
  [i \in DOMAIN asked.priorities |->
     [asked.priorities[i] EXCEPT !.roi = TransformRect(prepared.from_oriented, @)]]

ConvertedPriorities(prepared, asked) ==
  LET here == IF asked.priority_space = "kFrame" THEN prepared.from_frame ELSE prepared.from_oriented
  IN  [i \in DOMAIN asked.priorities |-> [asked.priorities[i] EXCEPT !.roi = TransformRect(here, @)]]

\* What is asked of the backend; every other field is passed on.
BackendRequest(prepared, asked) == [asked EXCEPT !.priorities = ConvertedPriorities(prepared, asked)]

RefusedCall(asked) ==
  FirstFailure(<<
    Requires(asked.backend.present, "kBackendUnavailable"),
    CheckFrame(asked.frame),
    ValidRequest(asked.request),
    Requires(asked.request.priority_space \in {"kOriented", "kFrame"}, "kInvalidArgument"),
    Requires(asked.request.finalize_reserve # {} => asked.deadline # {}, "kInvalidArgument"),
    Requires(ValidBackendInfo(asked.backend), "kBackendUnavailable"),
    ExecutedRoi(asked.frame.image, asked.request).status>>)

\* [roi, image, request], or why the call goes no further.
Preparation(asked) ==
  LET image == asked.frame.image
      roi == ExecutedRoi(image, asked.request).value
      refused == RefusedCall(asked)
  IN  IF refused # "kOk" THEN Failed(refused)
      ELSE Then(Crop(image, roi, WorkBudget(image)), LAMBDA cropped :
           Then(PrepareChain(cropped, roi, asked.request.max_side, asked.backend.accepts, image),
                LAMBDA prepared :
             LET batch == BackendRequest(prepared, asked.request)
                 valid == ValidateOcrBatchRequest(batch)
             IN  IF valid # "kOk" THEN Failed(valid)
                 ELSE Ok([roi |-> roi, image |-> prepared, request |-> batch])))

Preparations == Table([asked \in Calls |-> Preparation(asked)])

prepared_call == Preparations[call].value
prepared_image == prepared_call.image.buffer

Return(result) ==
  /\ stage' = "returned" /\ outcome' = result
  /\ UNCHANGED <<call, now, cancelled, entry_time, lines, det_limit_hit, executed, unit_began, stop_reason>>

Proceed(next) ==
  /\ stage' = next
  /\ UNCHANGED <<call, now, cancelled, outcome>>

Prepare ==
  /\ stage = "asked"
  /\ LET failure == FirstFailure(<<ContextStatus, Preparations[call].status>>)
     IN  IF failure # "kOk" THEN Return(Failed(failure))
         ELSE Proceed("prepared") /\ UNCHANGED <<entry_time, lines, det_limit_hit, executed, unit_began, stop_reason>>

\* The session's second poll and the checks at the entry of the backend.
Enter ==
  /\ stage = "prepared"
  /\ LET failure == FirstFailure(<<ContextStatus,
                                   Requires(prepared_image.format = "kRgb8", "kUnsupportedFormat"),
                                   ValidateOcrBatchRequest(prepared_call.request)>>)
     IN  IF failure # "kOk" THEN Return(Failed(failure))
         ELSE /\ Proceed("detect")
              /\ entry_time' = now
              /\ UNCHANGED <<lines, det_limit_hit, executed, unit_began, stop_reason>>

(***************************************************************************)
(* Detection.                                                              *)
(***************************************************************************)
Canvas == DetCanvas(prepared_image, DetSide, CanvasStride, WorkBytes)

DetNet(sighting) ==
  [blobs |-> {"x", "out"}, forward |-> sighting.status, outputs |-> [blob \in {"out"} |-> {}]]

BeginDetection ==
  /\ stage = "detect"
  /\ LET input == Then(Canvas, LAMBDA canvas : Preprocessed(canvas.buffer, ContextStatus))
         failure == FirstFailure(<<input.status, ContextStatus>>)
     IN  IF failure # "kOk" THEN Return(Failed(failure))
         ELSE Proceed("detecting") /\ UNCHANGED <<entry_time, lines, det_limit_hit, executed, unit_began, stop_reason>>

\* The first boxes of the scan up to the cap, without the faint ones and those
\* that lie in the padding.
KeptBoxes(boxes) ==
  LET Back(box) == UnpadBounds(box.bounds, Canvas.value, prepared_image)
      scanned == {i \in 1 .. DetLimit : i <= Len(boxes)}
      found == {i \in scanned : boxes[i].confidence >= request.min_confidence /\ Back(boxes[i]).status = "kOk"}
      kept == SortedBy(found, {pair \in found \X found : pair[1] < pair[2]})
  IN  [k \in DOMAIN kept |-> OcrLineRecord(Back(boxes[kept[k]]).value, boxes[kept[k]].confidence)]

ReadingOrderLines(found) ==
  LET Before(i, j) ==
        \/ OcrLineReadingLess(found[i], found[j])
        \/ ~OcrLineReadingLess(found[j], found[i]) /\ i < j
      order == SortedBy(DOMAIN found, {pair \in (DOMAIN found) \X (DOMAIN found) : Before(pair[1], pair[2])})
  IN  [k \in DOMAIN order |-> [found[order[k]] EXCEPT !.candidate_id = k - 1]]

EndDetection(sighting) ==
  /\ stage = "detecting"
  /\ LET failure == FirstFailure(<<sighting.status, ContextStatus>>)
     IN  IF failure # "kOk" THEN Return(Failed(failure))
         ELSE /\ Proceed("poll")
              /\ lines' = ReadingOrderLines(KeptBoxes(sighting.value))
              /\ det_limit_hit' = (Len(sighting.value) > DetLimit)
              /\ UNCHANGED <<entry_time, executed, unit_began, stop_reason>>

(***************************************************************************)
(* The bounded recognition loop.                                           *)
(***************************************************************************)
Priority(line) == ResolveOcrLinePriority(line.bounds, prepared_call.request.priorities)

ExecutesBefore(a, b) == OcrLineExecutesBefore(a, b, Priority(a), Priority(b), request.selection)

ExecutionOrder ==
  SortedBy(DOMAIN lines, {pair \in (DOMAIN lines) \X (DOMAIN lines) :
                            ExecutesBefore(lines[pair[1]], lines[pair[2]])})

SelectedCount == Min({request.max_rec_lines, Len(lines)})

Poll ==
  /\ stage = "poll"
  /\ IF executed < SelectedCount /\ ContextStatus # "kOk" THEN Return(Failed(ContextStatus))
     ELSE /\ Proceed(IF executed < SelectedCount THEN "guard" ELSE "finalize")
          /\ UNCHANGED <<entry_time, lines, det_limit_hit, executed, unit_began, stop_reason>>

SoftBudgetSpent == \E budget \in request.soft_budget : now - entry_time > budget

Reserve == IF request.finalize_reserve = {} THEN 0 ELSE Max(request.finalize_reserve)

NoRoomForUnit_reserveOnly == \E d \in call.deadline : d - now < Reserve

NoRoomForUnit == \E d \in call.deadline : d - now < UnitUpperBound + Reserve

Guard ==
  /\ stage = "guard"
  /\ IF SoftBudgetSpent \/ NoRoomForUnit
       THEN /\ Proceed("finalize")
            /\ stop_reason' = "kSoftBudget"
            /\ UNCHANGED <<entry_time, lines, det_limit_hit, executed, unit_began>>
       ELSE /\ Proceed("unit")
            /\ unit_began' = now
            /\ UNCHANGED <<entry_time, lines, det_limit_hit, executed, stop_reason>>

Current == ExecutionOrder[executed + 1]

BeginUnit ==
  /\ stage = "unit"
  /\ LET input == RecInput(prepared_image, lines[Current].bounds, RecHeight, RecWidth, WorkBytes, ContextStatus)
         failure == FirstFailure(<<input.status, ContextStatus>>)
     IN  IF failure # "kOk" THEN Return(Failed(failure))
         ELSE Proceed("forward") /\ UNCHANGED <<entry_time, lines, det_limit_hit, executed, unit_began, stop_reason>>

\* One failing line fails the call.
EndUnit(reading) ==
  LET decoded == Then(reading, LAMBDA steps : DecodeLine(steps, Charset))
      failure == FirstFailure(<<reading.status, ContextStatus, decoded.status>>)
  IN  /\ stage = "forward"
      /\ IF failure # "kOk" THEN Return(Failed(failure))
         ELSE /\ Proceed("poll")
              /\ lines' = [lines EXCEPT ![Current] =
                             [@ EXCEPT !.state = "kRecognized", !.text = decoded.value,
                                       !.rec_confidence = {1}, !.execution_order = executed]]
              /\ executed' = executed + 1
              /\ UNCHANGED <<entry_time, det_limit_hit, unit_began, stop_reason>>

(***************************************************************************)
(* The report, the session's checks of it, and the way back.               *)
(***************************************************************************)
LinesIn(state) == Cardinality({i \in DOMAIN lines : lines[i].state = state})

FinalStop_ofTheLoop == IF executed < SelectedCount THEN stop_reason ELSE "kCompleted"

FinalStop ==
  IF executed < SelectedCount THEN stop_reason
  ELSE IF SelectedCount < Len(lines) THEN "kRecLineLimit" ELSE "kCompleted"

OcrBatchResult ==
  [lines |-> lines, detected_count |-> Len(lines), det_limit |-> DetLimit, det_limit_hit |-> det_limit_hit,
   recognized_count |-> LinesIn("kRecognized"), reused_count |-> LinesIn("kReused"),
   deferred_count |-> LinesIn("kDeferred"), rec_forward_count |-> executed,
   stop_reason |-> FinalStop,
   completion |-> IF LinesIn("kDeferred") > 0 THEN "kPartial" ELSE "kComplete"]

BudgetedOcrReport(batch, recovery) ==
  [batch |-> [batch EXCEPT !.lines = Recovered(@, recovery)],
   output_space |-> request.output_space, source_id |-> SourceId, frame_sequence |-> call.frame.sequence,
   executed_roi |-> prepared_call.roi, backend_info |-> call.backend,
   request_digest |-> ParamsDigest(prepared_call.request)]

Finalize ==
  LET batch == OcrBatchResult
      failure == FirstFailure(<<
        Requires(OcrBatchResultConsistent(batch), "kBackendFailure"),
        Requires(OwnedBytes(batch) <= request.max_report_bytes, "kBudgetExceeded")>>)
  IN  /\ stage = "finalize"
      /\ Return(IF failure # "kOk" THEN Failed(failure)
                ELSE Then(RecoveryTo(prepared_call.image, request.output_space),
                          LAMBDA recovery : Ok(BudgetedOcrReport(batch, recovery))))

(***************************************************************************)
(* The specification.                                                      *)
(***************************************************************************)
Init ==
  /\ call \in Calls /\ now = 0 /\ cancelled = FALSE
  /\ stage = "asked" /\ entry_time = 0
  /\ lines = <<>> /\ det_limit_hit = FALSE /\ executed = 0 /\ unit_began = 0
  /\ stop_reason = "kCompleted" /\ outcome = Failed("kPending")

Next ==
  \/ Cancel \/ Tick
  \/ Prepare \/ Enter \/ BeginDetection
  \/ \E sighting \in Sightings : EndDetection(sighting)
  \/ Poll \/ Guard \/ BeginUnit
  \/ \E reading \in Readings : EndUnit(reading)
  \/ Finalize

Spec == Init /\ [][Next]_vars

(***************************************************************************)
(* Properties.                                                             *)
(***************************************************************************)
\* The pipeline and the contract keep their books apart: whichever limit ends
\* the loop, and whatever it has recognized by then, the report that the
\* backend hands over passes the consistency check of the session, so that the
\* check never turns a good run into a backend failure.
ReportsAreConsistent == stage = "finalize" => OcrBatchResultConsistent(OcrBatchResult)

\* A unit is started only where it fits: when units keep the bound that the
\* backend is configured with, each of them ends with the whole finalize
\* reserve left before the deadline, and none of them ever times out.
UnitsLeaveTheReserve ==
  [][InUnit /\ stage' \notin {"unit", "forward"} /\ call.longest_unit <= UnitUpperBound =>
       /\ \A d \in call.deadline : now + Reserve <= d
       /\ outcome'.status # "kTimeout"]_vars

\* The priority of a reported line as its caller reads it, in the caller's own
\* space.
CallersPriority(line) == ResolveOcrLinePriority(line.bounds, request.priorities)

\* A call whose region of interest is within its limit is not scaled.
Unscaled(asked) ==
  LET limit == asked.request.max_side
      roi == ExecutedRoi(asked.frame.image, asked.request).value
  IN  limit <= 0 \/ (roi.w <= limit /\ roi.h <= limit)

\* Scaling rounds the rectangles of the priorities and those of the lines, each
\* on its own way, and a rectangle that is turned inside out meets nothing until
\* the way into the prepared image turns it back.
PrioritiesKeepTheirScale ==
  \A asked \in Calls :
    asked.request.priorities = <<>>
      \/ /\ Unscaled(asked)
         /\ \A i \in DOMAIN asked.request.priorities :
              asked.request.priorities[i].roi.w >= 0 /\ asked.request.priorities[i].roi.h >= 0

\* Priorities are given in a space of the caller and compete in that of the
\* prepared image.  However early a run stops, no line that is left for later
\* has a higher priority, as the caller can tell from the report, than a line
\* that was recognized.
CallersPriorityRules ==
  outcome.status = "kOk" /\ request.output_space = request.priority_space =>
    LET reported == outcome.value.batch.lines
    IN  \A i, j \in DOMAIN reported :
          reported[i].state = "kRecognized" /\ reported[j].state = "kDeferred" =>
            CallersPriority(reported[i]) >= CallersPriority(reported[j])
=============================================================================
