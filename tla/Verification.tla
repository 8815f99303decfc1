---------------------------- MODULE Verification ----------------------------
(***************************************************************************)
(* What the object tracker asks of a frame (object_tracker.cpp): the       *)
(* change gate, which tells the tracks that a change report concerns, and  *)
(* verify_track, which looks for the templates of one track around the     *)
(* place where it is expected.  Neither changes the pool.                  *)
(*                                                                         *)
(* A track is [state, bounds2, center2, templates, baseline]: its bounds   *)
(* and its predicted center doubled, so that halves of pixels are whole,   *)
(* its templates as thumbnails of one side, and a set of at most one       *)
(* triple of descriptors in percents.                                      *)
(***************************************************************************)
EXTENDS Changes

(***************************************************************************)
(* The change gate.                                                        *)
(***************************************************************************)
RoisValid(regions) == \A i \in DOMAIN regions : regions[i].w > 0 /\ regions[i].h > 0

InHalves(rect) == Rect(2 * rect.x, 2 * rect.y, 2 * rect.w, 2 * rect.h)

\* The first region that shares an area with the track; touching is none.
FirstIntersectingRoi(regions, track) ==
  LET hit == {i \in DOMAIN regions : IntersectionArea(InHalves(regions[i]), track.bounds2) > 0}
  IN  IF hit = {} THEN {} ELSE {Min(hit)}

GateDecision(report, track) ==
  LET hit == FirstIntersectingRoi(report.regions, track)
  IN  IF track.state # "kTracking" THEN [decision |-> "kInactive", roi |-> {}]
      ELSE CASE report.classification = "kNone" -> [decision |-> "kReuse", roi |-> {}]
             [] report.classification = "kGlobal" -> [decision |-> "kVerify", roi |-> {}]
             [] report.classification = "kPartial" ->
                  [decision |-> IF hit = {} THEN "kReuse" ELSE "kVerify", roi |-> hit]

\* The tracks in the order of the pool.  The context is polled at the entry,
\* and before each track of a partial change; no part of a trace is published.
EvaluateChangeGate(report, tracks, stops) ==
  LET polled == IF report.classification = "kPartial" THEN 1 .. Len(tracks) + 1 ELSE {1}
      stop == FirstFailure([i \in 1 .. Max(polled) |-> stops[i]])
  IN  IF stops[1] # "kOk" THEN Failed(stops[1])
      ELSE IF ~RoisValid(report.regions) THEN Failed("kInvalidArgument")
      ELSE IF stop # "kOk" THEN Failed(stop)
      ELSE Ok([t \in DOMAIN tracks |-> GateDecision(report, tracks[t])])

(***************************************************************************)
(* The search.  Lengths of diagonals are whole.                            *)
(***************************************************************************)
Ceiling(a, b) == -((-a) \div b)

\* The pixels of the view that a rectangle, given in parts of a pixel, touches.
CoveringRoi(left, top, right, bottom, parts, view) ==
  LET x == Max({left \div parts, 0})
      y == Max({top \div parts, 0})
      roi == Rect(x, y, Min({Ceiling(right, parts), view.w}) - x, Min({Ceiling(bottom, parts), view.h}) - y)
  IN  IF roi.w <= 0 \/ roi.h <= 0 THEN Failed("kInvalidArgument") ELSE Ok(roi)

\* Around the predicted center, half a diagonal times the ratio wider per side.
ClampedVerificationRoi(track, ratio, view) ==
  LET parts == 4 * ratio[2]
      margin == ratio[1] * Root(Diagonal2(track.bounds2))
      Reach(length) == ratio[2] * length + margin
      x == 2 * ratio[2] * track.center2[1]
      y == 2 * ratio[2] * track.center2[2]
  IN  CoveringRoi(x - Reach(track.bounds2.w), y - Reach(track.bounds2.h),
                  x + Reach(track.bounds2.w), y + Reach(track.bounds2.h), parts, view)

\* The whole offsets that keep the bounds inside the region of interest, or
\* else no offset.
VerificationOffsetGrid(bounds2, roi) ==
  LET Lowest(begin, other) == Ceiling(2 * begin - other, 2)
      Highest(end, other) == (2 * end - other) \div 2
      xs == Lowest(roi.x, bounds2.x) .. Highest(roi.x + roi.w, bounds2.x + bounds2.w)
      ys == Lowest(roi.y, bounds2.y) .. Highest(roi.y + roi.h, bounds2.y + bounds2.h)
  IN  IF xs = {} \/ ys = {} THEN {<<0, 0>>} ELSE xs \X ys

PlannedScanWork(grid, track, format, options) ==
  LET Side(length) == Max({1, Ceiling(length, 2)})
      window == Side(track.bounds2.w) * Side(track.bounds2.h)
      thumbnail == options.side * options.side
      templates == Len(track.templates)
  IN  Cardinality(grid)
        * (2 * window * BytesPerPixel(format) + thumbnail + 2 * templates * thumbnail + 8 * templates)

Window(bounds2, offset, view) ==
  LET x == bounds2.x + 2 * offset[1]
      y == bounds2.y + 2 * offset[2]
  IN  CoveringRoi(x, y, x + bounds2.w, y + bounds2.h, 2, view)

\* Covariance and variances of two thumbnails, not normalised.  The correlation
\* is ordered by its sign and its square.
ThumbnailNcc(query, entry) ==
  LET places == DOMAIN query
      Sum(F(_)) == MapThenSumSet(F, places)
      Spread(F(_), G(_)) == Cardinality(places) * Sum(LAMBDA p : F(p) * G(p)) - Sum(F) * Sum(G)
      Query(p) == query[p][1]
      Entry(p) == entry[p][1]
      joint == Spread(Query, Entry)
      variances == Spread(Query, Query) * Spread(Entry, Entry)
  IN  IF variances > 0 THEN <<IF joint < 0 THEN -joint * joint ELSE joint * joint, variances>>
      ELSE IF query = entry THEN One ELSE Zero

\* One crop around all windows is converted once; each window is cut out of it.
ScanAppearanceResponses(track, grid, view, options, stops) ==
  LET xs == {offset[1] : offset \in grid}
      ys == {offset[2] : offset \in grid}
      Rows == Max(ys) - Min(ys) + 1
      first == Window(track.bounds2, <<Min(xs), Min(ys)>>, view)
      last == Window(track.bounds2, <<Max(xs), Max(ys)>>, view)
      stop == FirstFailure([row \in 1 .. Rows |-> stops[row]])
      budget == options.budget
      around == Rect(first.value.x, first.value.y,
                     last.value.x + last.value.w - first.value.x, last.value.y + last.value.h - first.value.y)
      Thumbnail(gray, offset) ==
        Then(Window(track.bounds2, offset, view), LAMBDA window :
        Then(Crop(gray, Rect(window.x - around.x, window.y - around.y, window.w, window.h), Unbounded), LAMBDA cut :
             ResizeArea(cut, options.side, options.side, budget)))
      Responses(gray) ==
        LET thumbnails == <<>> @@ [offset \in grid |-> Thumbnail(gray, offset)]
            failed == {offset \in grid : thumbnails[offset].status # "kOk"}
        IN  IF failed # {} THEN thumbnails[CHOOSE offset \in failed : TRUE]
            ELSE Ok(<<>> @@ [response \in grid \X DOMAIN track.templates |->
                       ThumbnailNcc(thumbnails[response[1]].value.pixels, track.templates[response[2]])])
  IN  IF {first.status, last.status} # {"kOk"} THEN Failed("kInvalidArgument")
      ELSE Then(Crop(view, around, budget), LAMBDA cut :
           Then(ConvertColor(cut, "kGray8", budget), LAMBDA gray :
             IF stop # "kOk" THEN Failed(stop) ELSE Responses(gray)))

(***************************************************************************)
(* Verdicts.                                                               *)
(***************************************************************************)
Chebyshev(offset) == Max({offset[1], -offset[1], offset[2], -offset[2]})

\* The best response, the nearest offset first, then in scan order.
SurfacePeak(grid, responses, t) ==
  LET Nearer(a, b) ==
        \/ Chebyshev(a) < Chebyshev(b)
        \/ Chebyshev(a) = Chebyshev(b) /\ ScanOrder(a, b)
      Better(a, b) ==
        \/ LessThan(responses[<<b, t>>], responses[<<a, t>>])
        \/ SameRatio(responses[<<a, t>>], responses[<<b, t>>]) /\ Nearer(a, b)
  IN  CHOOSE best \in grid : \A other \in grid \ {best} : Better(best, other)

\* A surface without relief has no peak; how far the peak of another stands out
\* (an irrational number) comes with the options.
PeakSidelobeRatio(grid, responses, t, options) ==
  IF \A a, b \in grid : SameRatio(responses[<<a, t>>], responses[<<b, t>>]) THEN 0
  ELSE options.sidelobes[t]

\* Thresholds are squared, as the responses are.
AppearanceVerdict(grid, responses, templates, options) ==
  LET peaks == <<>> @@ [t \in DOMAIN templates |-> SurfacePeak(grid, responses, t)]
      Ncc(t) == responses[<<peaks[t], t>>]
      Quality(t) == PeakSidelobeRatio(grid, responses, t, options)
      Better(t, u) ==
        \/ LessThan(Ncc(u), Ncc(t))
        \/ SameRatio(Ncc(t), Ncc(u)) /\ (Quality(t) > Quality(u) \/ (Quality(t) = Quality(u) /\ t < u))
      winner == CHOOSE t \in DOMAIN templates : \A u \in DOMAIN templates \ {t} : Better(t, u)
      trusted == Quality(winner) >= options.min_quality
  IN  [outcome |-> IF trusted /\ AtLeast(Ncc(winner), options.strong) THEN "kStrong"
                   ELSE IF trusted /\ AtLeast(Ncc(winner), options.weak) THEN "kWeak" ELSE "kNone",
       ncc |-> Ncc(winner), template |-> winner, offset |-> peaks[winner]]

\* Relative to the baseline, whose floor is a millionth (a percent is 10000).
StructureDeviation(now, base) ==
  LET Deviation(q) == <<10000 * Max({now[q] - base[q], base[q] - now[q]}), Max({10000 * base[q], 1})>>
  IN  {Deviation(q) : q \in DOMAIN now}

StructureVerdict(descriptors, baseline, tolerance) ==
  IF descriptors = {} THEN "kNotSupplied"
  ELSE IF baseline = {} THEN "kNoBaseline"
  ELSE IF \A now \in descriptors, base \in baseline : \A deviation \in StructureDeviation(now, base) :
            AtLeast(tolerance, deviation)
    THEN "kConsistent" ELSE "kDeviated"

VerifyTrack(track, view, descriptors, options, stops) ==
  LET roi == ClampedVerificationRoi(track, options.ratio, view)
      grid == VerificationOffsetGrid(track.bounds2, roi.value)
      planned == PlannedScanWork(grid, track, view.format, options)
  IN  IF \/ ~ValidImage(view) \/ track.state = "kTerminated" \/ track.templates = <<>>
         \/ track.bounds2.w <= 0 \/ track.bounds2.h <= 0
         \/ \E d \in descriptors : \E q \in DOMAIN d : d[q] \notin 0 .. 100
        THEN Failed("kInvalidArgument")
      ELSE IF roi.status # "kOk" THEN roi
      ELSE IF planned > options.budget THEN Failed("kBudgetExceeded")
      ELSE IF stops[1] # "kOk" THEN Failed(stops[1])
      ELSE Then(ScanAppearanceResponses(track, grid, view, options, Tail(stops)), LAMBDA responses :
             Ok([roi |-> roi.value,
                 appearance |-> AppearanceVerdict(grid, responses, track.templates, options),
                 structure |-> StructureVerdict(descriptors, track.baseline, options.tolerance)]))
=============================================================================
