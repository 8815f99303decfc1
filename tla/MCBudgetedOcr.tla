---------------------------- MODULE MCBudgetedOcr ----------------------------
(* Values for the model-checking run of BudgetedOcr. *)
EXTENDS BudgetedOcr

Screen(rotation) ==
  [source |-> "screen", sequence |-> 1,
   image |-> [Image("kRgb8", 6, 4, [p \in Grid(6, 4) |-> <<10 * p[1], 10 * p[2], 0>>], <<>>)
                EXCEPT !.rotation = rotation]]

Backend == [present |-> TRUE, name |-> "ppocr", revision |-> "r1", accepts |-> <<"kRgb8">>]

\* The upper left, the upper right, and the whole lower half, each as the
\* caller names it in a space of the image.
Prefer(roi, priority) == [roi |-> roi, priority |-> priority]

Everything ==
  [roi |-> NoRoi, roi_space |-> "kOriented", output_space |-> "kOriented", priority_space |-> "kOriented",
   max_side |-> 0, min_confidence |-> 3, max_rec_lines |-> 2, selection |-> "kReadingOrder",
   priorities |-> <<>>, soft_budget |-> {}, finalize_reserve |-> {},
   max_priority_entries |-> 2, max_priority_bytes |-> 64, max_report_bytes |-> 64]

Call(frame, asked, deadline, longest_unit) ==
  [frame |-> frame, backend |-> Backend, request |-> asked, deadline |-> deadline,
   longest_unit |-> longest_unit]

\* In the raw frame of a view that was turned by 90 degrees, the lower half of
\* the view is the right half of the columns.
RawLowerHalf == [Everything EXCEPT !.output_space = "kFrame", !.priority_space = "kFrame",
                                   !.priorities = <<Prefer(Rect(2, 0, 2, 6), 2), Prefer(Rect(0, 0, 4, 2), 1)>>]
BestFirst == [Everything EXCEPT !.selection = "kDetScore", !.max_rec_lines = 1,
                                !.priorities = <<Prefer(Rect(0, 0, 2, 2), -1)>>]

MCCalls ==
  {Call(Screen("k90"), [RawLowerHalf EXCEPT !.soft_budget = {1}], {}, 1),
   Call(Screen("k0"), [Everything EXCEPT !.max_rec_lines = 9, !.finalize_reserve = {1}], {5}, 1),
   Call(Screen("k0"), BestFirst, {4}, 3),
   Call(Screen("k270"), [RawLowerHalf EXCEPT !.roi = {Rect(0, 0, 6, 3)}, !.output_space = "kCropped"], {3}, 1),
   Call(Screen("k0"), [Everything EXCEPT !.max_side = 3, !.max_report_bytes = 21], {}, 1),
   Call(Screen("k0"), [Everything EXCEPT !.finalize_reserve = {1}], {}, 1),
   Call(Screen("k0"), [BestFirst EXCEPT !.max_priority_bytes = 16], {}, 1)}

Box(x, y, w, confidence) == [bounds |-> Rect(x, y, w, 1), confidence |-> confidence]

\* Canvas columns 0 and 7 are padding.
MCSightings ==
  {Ok(<<Box(1, 0, 2, 5), Box(4, 0, 2, 9), Box(1, 2, 3, 7)>>),
   Ok(<<Box(0, 0, 1, 9), Box(1, 0, 2, 2), Box(2, 2, 3, 6), Box(4, 0, 2, 8)>>),
   Ok(<<>>),
   Failed("kBackendFailure")}

\* Scores of the blank and of three classes; the charset names two of them.
Likely(class) == [c \in 0 .. 3 |-> IF c = class THEN 2 ELSE 1]

MCReadings ==
  {Ok(<<Likely(1), Likely(1), Likely(0), Likely(2)>>), Ok(<<Likely(0)>>), Ok(<<Likely(3)>>),
   Failed("kBackendFailure")}

ASSUME PrioritiesKeepTheirScale

MCCharset == <<"a", "b">>
=============================================================================
