----------------------------- MODULE CropRefine -----------------------------
(***************************************************************************)
(* refine_small_detections of crop_refine.cpp: small or doubtful proposals *)
(* are cut out of the image, enlarged, and given to the detector again.    *)
(* A proposal is [bounds, class, label, confidence]; the backend is a set  *)
(* of at most one record                                                   *)
(*                                                                         *)
(*   accepted  the pixel formats it takes, in its order of preference      *)
(*   answers   label of a proposal |-> what it finds in that crop          *)
(***************************************************************************)
EXTENDS Pixels

\* refine_target_side and per_crop_budget_bytes have their own limits.
CONSTANTS MaxTargetSide, MinCropBudget

ValidCropRefineParams(params) ==
  /\ AtLeast(params.expand, Zero) /\ AtLeast(<<4, 1>>, params.expand)
  /\ params.side \in 0 .. MaxTargetSide
  /\ params.confidence_below \in 0 .. 100
  /\ AtLeast(params.area_below, Zero) /\ AtLeast(One, params.area_below)
  /\ params.max_candidates >= 0 /\ params.min_refined \in 0 .. 99
  /\ params.budget >= MinCropBudget

\* The box, wider by a share of its size on each side, as whole pixels of the
\* image: at least one, also for a box outside of it.
CropRoi(box, expand, w, h) ==
  LET Span(begin, length, limit) ==
        LET low == Max({0, begin * expand[2] - length * expand[1]})
            high == Min({limit * expand[2], (begin + length) * expand[2] + length * expand[1]})
            first == Min({low \div expand[2], limit - 1})
        IN  <<first, Max({first + 1, Min({-(-high \div expand[2]), limit})})>>
      across == Span(box.x, box.w, w)
      down == Span(box.y, box.h, h)
  IN  Rect(across[1], down[1], across[2] - across[1], down[2] - down[1])

Doubtful(region, params, w, h) ==
  \/ region.confidence < params.confidence_below
  \/ params.area_below[1] > 0 /\ LessThan(<<Area(region.bounds), w * h>>, params.area_below)

\* The indices of the proposals to refine, the least confident first.
SelectCandidates(initial, params, w, h) ==
  LET weaker(i, j) ==
        \/ initial[i].confidence < initial[j].confidence
        \/ initial[i].confidence = initial[j].confidence /\ i < j
      doubtful == {i \in DOMAIN initial : Doubtful(initial[i], params, w, h)}
      ranked == SetToSortSeq(doubtful, weaker)
  IN  SubSeq(ranked, 1, Min({Len(ranked), params.max_candidates}))

\* A conversion that fails for whatever reason leaves the next format to try.
EnsureAcceptedFormat(image, accepted, budget) ==
  LET Attempt(found, format) ==
        IF found.status = "kOk" THEN found ELSE ConvertColor(image, format, budget)
  IN  IF image.format \in ToSet(accepted) THEN ConvertColor(image, image.format, budget)
      ELSE LET found == FoldLeft(Attempt, Failed("kUnsupportedFormat"), accepted)
           IN  IF found.status = "kOk" THEN found ELSE Failed("kUnsupportedFormat")

PrepareCrop(image, params) ==
  LET long == Max({image.w, image.h})
      ratio == <<params.side, long>>
  IN  IF params.side \in {0, long} THEN ConvertColor(image, image.format, params.budget)
      ELSE ResizeArea(image, RoundedSize(image.w, ratio, MaxDimension),
                      RoundedSize(image.h, ratio, MaxDimension), params.budget)

\* What a detector finds in the image it is shown.
Detect(image, found) ==
  CASE found = "failure" -> Failed("kBackendFailure")
    [] found = "nothing" -> Ok(<<>>)
    [] found = "whole" -> Ok(<<[bounds |-> Rect(0, 0, image.w, image.h), class |-> 0,
                                label |-> "whole", confidence |-> 90]>>)
    [] found = "corners" ->
         Ok(<<[bounds |-> Rect(0, 0, 1, 1), class |-> 0, label |-> "first", confidence |-> 90],
              [bounds |-> Rect(0, 0, 1, 1), class |-> 0, label |-> "faint", confidence |-> 5],
              [bounds |-> Rect(image.w - 1, image.h - 1, 1, 1), class |-> 0, label |-> "last",
               confidence |-> 80]>>)

\* The whole way of one proposal, and of the boxes found in it back again.
RefineCandidate(source, backend, proposal, params) ==
  LET roi == CropRoi(proposal.bounds, params.expand, source.w, source.h)
      ToModel(model) ==
        Compose(MakeCrop(roi, "kOriented", "kCropped"),
                MakeScale(<<model.w, roi.w>>, <<model.h, roi.h>>, "kCropped", "kModelInput"))
  IN  Then(Crop(source, roi, params.budget), LAMBDA cropped :
      Then(EnsureAcceptedFormat(cropped, backend.accepted, params.budget), LAMBDA accepted :
      Then(PrepareCrop(accepted, params), LAMBDA model :
      Then(Then(ToModel(model), Inverse2D), LAMBDA backward :
      Then(Detect(model, backend.answers[proposal.label]), LAMBDA found :
        LET strong == SelectSeq(found, LAMBDA region : region.confidence >= params.min_refined)
        IN  Ok([i \in DOMAIN strong |->
                  [strong[i] EXCEPT !.bounds = TransformRect(backward, @)]]))))))

\* The slot is found at the index that the proposal had in the input.
ReplaceSlot(output, index, refined) ==
  IF index > Len(output) THEN output
  ELSE SubSeq(output, 1, index - 1) \o refined \o SubSeq(output, index + 1, Len(output))

\* The context is polled before the work and before each candidate; polls
\* gives what each poll finds.
RefineSmallDetections(source, backends, initial, params, polls) ==
  LET backend == CHOOSE backend \in backends : TRUE
      candidates == SelectCandidates(initial, params, source.w, source.h)
      Visit(output, k) ==
        IF output.status # "kOk" THEN output
        ELSE IF polls[k + 1] # "kOk" THEN Failed(polls[k + 1])
        ELSE Then(RefineCandidate(source, backend, initial[candidates[k]], params), LAMBDA refined :
               Ok(ReplaceSlot(output.value, candidates[k], refined)))
      refusal == FirstFailure(
        <<Requires(ValidCropRefineParams(params), "kInvalidArgument"),
          Requires(ValidImage(source), "kInvalidArgument"),
          Requires(source.format # "kNv12", "kUnsupportedFormat"),
          Requires(backends # {}, "kBackendUnavailable")>>)
  IN  IF refusal # "kOk" THEN Failed(refusal)
      ELSE IF backend.accepted = <<>> THEN Failed("kBackendUnavailable")
      ELSE IF polls[1] # "kOk" THEN Failed(polls[1])
      ELSE FoldLeft(Visit, Ok(initial), [k \in DOMAIN candidates |-> k])
=============================================================================
