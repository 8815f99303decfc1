-------------------------------- MODULE Shifts --------------------------------
(***************************************************************************)
(* The global shift between two frames, of shift_estimation.cpp: the       *)
(* integer translation of a central window of the thumbnail with the least *)
(* sum of absolute differences.                                            *)
(***************************************************************************)
EXTENDS Changes

Distance(a, b) == Max({a - b, b - a})

ValidShiftParams(params) ==
  /\ params.size \in MinThumbnail .. MaxThumbnail
  /\ params.max_shift >= 0 /\ 2 * params.max_shift <= params.size - 1
  /\ params.budget > 0

\* A stored signature may come from anywhere.
ValidSignature(signature) ==
  /\ signature.size \in MinThumbnail .. MaxThumbnail
  /\ DOMAIN signature.thumbnail = Grid(signature.size, signature.size)
  /\ signature.w \in 1 .. MaxDimension /\ signature.h \in 1 .. MaxDimension

\* The window keeps max_shift away from the borders, so that each candidate is
\* measured over as many pixels.
WindowSad(previous, current, size, max_shift, shift) ==
  LET Window == (max_shift .. size - max_shift - 1) \X (max_shift .. size - max_shift - 1)
      Off(p) == Distance(previous[p][1], current[<<p[1] + shift[1], p[2] + shift[2]>>][1])
  IN  MapThenSumSet(Off, Window)

Radius(shift) == Max({Distance(shift[1], 0), Distance(shift[2], 0)})

\* By the difference, then the nearest, then by dy, then by dx.
Wins(a, b, sad) ==
  \/ sad[a] < sad[b]
  \/ sad[a] = sad[b] /\ Radius(a) < Radius(b)
  \/ sad[a] = sad[b] /\ Radius(a) = Radius(b) /\ a[2] < b[2]
  \/ sad[a] = sad[b] /\ Radius(a) = Radius(b) /\ a[2] = b[2] /\ a[1] < b[1]

\* How far the winner stands out: (mean of the others - best) over their sum.
Confidence(sad, best) ==
  LET tail == (Cardinality(DOMAIN sad) - 1) * sad[best]
      others == MapThenSumSet(LAMBDA shift : sad[shift], DOMAIN sad \ {best})
  IN  IF others + tail > 0 THEN <<Max({0, others - tail}), others + tail>> ELSE Zero

\* The context is polled before each row of candidates, from the second poll.
SearchShift(previous, current, w, h, size, max_shift, polls) ==
  LET range == -max_shift .. max_shift
      rows == [k \in 1 .. 2 * max_shift + 1 |-> polls[k + 1]]
      sad == [shift \in range \X range |-> WindowSad(previous, current, size, max_shift, shift)]
      best == CHOOSE a \in DOMAIN sad : \A b \in DOMAIN sad \ {a} : Wins(a, b, sad)
  IN  IF FirstFailure(rows) # "kOk" THEN Failed(FirstFailure(rows))
      ELSE Ok([thumbnail |-> best, dx |-> <<best[1] * w, size>>, dy |-> <<best[2] * h, size>>,
               confidence |-> Confidence(sad, best)])

GrayThumbnailWithin(image, size, budget) ==
  Then(ResizeArea(image, size, size, budget), LAMBDA small : ConvertColor(small, "kGray8", budget))

EstimateGlobalShift(previous, current, params, polls) ==
  LET refusal == FirstFailure(
        <<Requires(ValidImage(previous) /\ ValidImage(current), "kInvalidArgument"),
          Requires(previous.w = current.w /\ previous.h = current.h, "kInvalidArgument"),
          Requires(ValidShiftParams(params), "kInvalidArgument"),
          polls[1]>>)
  IN  IF refusal # "kOk" THEN Failed(refusal)
      ELSE Then(GrayThumbnailWithin(previous, params.size, params.budget), LAMBDA before :
           Then(GrayThumbnailWithin(current, params.size, params.budget), LAMBDA after :
             SearchShift(before.pixels, after.pixels, previous.w, previous.h, params.size,
                         params.max_shift, polls)))

\* The thumbnails that the signatures carry decide, not params.size.
EstimateSignatureShift(previous, current, params, polls) ==
  LET refusal == FirstFailure(
        <<Requires(ValidShiftParams(params), "kInvalidArgument"),
          Requires(ValidSignature(previous) /\ ValidSignature(current), "kInvalidArgument"),
          Requires(previous.w = current.w /\ previous.h = current.h, "kInvalidArgument"),
          Requires(previous.size = current.size, "kInvalidArgument"),
          Requires(2 * params.max_shift <= previous.size - 1, "kInvalidArgument"),
          polls[1]>>)
  IN  IF refusal # "kOk" THEN Failed(refusal)
      ELSE SearchShift(previous.thumbnail, current.thumbnail, previous.w, previous.h, previous.size,
                       params.max_shift, polls)
=============================================================================
