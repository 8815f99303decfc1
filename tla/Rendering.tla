------------------------------ MODULE Rendering ------------------------------
(***************************************************************************)
(* What is drawn for a reader of a snapshot: the grid of cells of          *)
(* grid_partition.cpp and the numbered marks of set_of_mark.cpp.  A marked *)
(* image is the background and the strokes over it, the last on top:       *)
(*   [rect, ink], ink = <<"outline" | "chip", mark>>.                      *)
(* The glyphs inside a chip are left out.                                  *)
(***************************************************************************)
EXTENDS Pixels

(***************************************************************************)
(* The grid.  A cell is <<column, row>>.                                   *)
(***************************************************************************)
\* ceil_div: the sum has 32 bits; "undefined" where it does not fit.
Undefined == Failed("undefined")
CeilDiv(value, divisor) == (value + divisor - 1) \div divisor

MakeGridPartition(w, h, side) ==
  IF w <= 0 \/ h <= 0 \/ side \notin 1 .. 4096 THEN Failed("kInvalidArgument")
  ELSE IF Max({w, h}) + side - 1 > IntMax THEN Undefined
  ELSE Ok([w |-> w, h |-> h, side |-> side, columns |-> CeilDiv(w, side), rows |-> CeilDiv(h, side)])

Cells(grid) == Grid(grid.columns, grid.rows)

GridCellBounds(grid, cell) ==
  LET x == cell[1] * grid.side
      y == cell[2] * grid.side
  IN  IF cell \notin Cells(grid) THEN Failed("kInvalidArgument")
      ELSE Ok(Rect(x, y, Min({grid.side, grid.w - x}), Min({grid.side, grid.h - y})))

GridLocate(grid, point) ==
  LET column == Min({point[1] \div grid.side, grid.columns - 1})
      row == Min({point[2] \div grid.side, grid.rows - 1})
  IN  IF point \notin Grid(grid.w, grid.h) THEN Failed("kInvalidArgument")
      ELSE Ok([cell |-> <<column, row>>,
               local |-> <<point[1] - column * grid.side, point[2] - row * grid.side>>])

GridImagePoint(grid, location) ==
  IF location.cell \notin Cells(grid) THEN Failed("kInvalidArgument")
  ELSE Ok(<<location.cell[1] * grid.side + location.local[1],
            location.cell[2] * grid.side + location.local[2]>>)

(***************************************************************************)
(* The marks.                                                              *)
(***************************************************************************)
ValidRenderOptions(options) ==
  /\ options.max_bytes > 0 /\ options.thickness \in 1 .. 16
  /\ options.label_height \in 0 .. 64 /\ options.max_marks > 0

Stroke(rect, ink) == [rect |-> rect, ink |-> ink]

\* The four sides of a box, inside of it.
Outline(rect, thickness, mark) ==
  LET Side(x, y, w, h) == Stroke(Rect(x, y, w, h), <<"outline", mark>>)
  IN  <<Side(rect.x, rect.y, rect.w, thickness),
        Side(rect.x, rect.y + rect.h - thickness, rect.w, thickness),
        Side(rect.x, rect.y, thickness, rect.h),
        Side(rect.x + rect.w - thickness, rect.y, thickness, rect.h)>>

\* At most ten digits: the number has 32 bits.
DecimalDigitCount(value) ==
  Min({count \in 1 .. 10 : value \div 10 ^ (count - 1) < 10 \/ count = 10})

\* The size of a label follows from its number and the scale of the digits,
\* 1 for a height below 12.
ChipSize(mark, options) ==
  LET scale == Max({1, options.label_height \div 6})
  IN  <<DecimalDigitCount(mark) * 3 * scale + 2, 5 * scale + 2>>

\* Above, below, inside at the top, inside at the bottom.
LabelCandidates(box, size) ==
  LET At(y) == Rect(box.x, y, size[1], size[2])
  IN  <<At(box.y - size[2] - 1), At(box.y + box.h + 1), At(box.y), At(box.y + box.h - size[2])>>

RectsOverlap(a, b) ==
  /\ a.x < b.x + b.w /\ b.x < a.x + a.w
  /\ a.y < b.y + b.h /\ b.y < a.y + a.h

IsFree(candidate, placed, w, h) ==
  /\ RectContains(Rect(0, 0, w, h), candidate)
  /\ \A other \in placed : ~RectsOverlap(candidate, other)

\* One region: its outline, and its label when one of the places is free.
DrawRegionMark(drawing, bounds, mark, options) ==
  LET image == Rect(0, 0, drawing.w, drawing.h)
      Clamped(v) == Clamp(v, IntMin, IntMax)
      clipped == Intersect(Rect(Clamped(bounds.x), Clamped(bounds.y), Clamped(bounds.w), Clamped(bounds.h)), image)
      outline == Outline(clipped, Min({options.thickness, clipped.w, clipped.h}), mark)
      candidates == LabelCandidates(clipped, ChipSize(mark, options))
      free == {i \in DOMAIN candidates : IsFree(candidates[i], drawing.chips, drawing.w, drawing.h)}
      place == candidates[Min(free)]
      Marked(drawn) == Append(drawing.marks, drawn)
  IN  IF clipped.w <= 0 \/ clipped.h <= 0 THEN [drawing EXCEPT !.marks = Marked({})]
      ELSE IF options.label_height = 0 \/ free = {}
        THEN [drawing EXCEPT !.strokes = @ \o outline, !.marks = Marked({clipped})]
      ELSE [drawing EXCEPT !.strokes = (@ \o outline) \o <<Stroke(place, <<"chip", mark>>)>>,
                           !.marks = Marked({clipped}), !.chips = @ \cup {place}]

\* The context is polled at the entry and before each 64th region.  marks
\* holds the drawn bounds of each region, none for one outside of the image.
RenderSetOfMark(background, regions, options, polls) ==
  LET refusal == FirstFailure(
        <<polls[1],
          Requires(ValidRenderOptions(options), "kInvalidArgument"),
          Requires(ValidImage(background), "kInvalidArgument"),
          Requires(background.rotation = "k0", "kInvalidArgument"),
          Requires(background.format # "kNv12", "kUnsupportedFormat"),
          Requires(Len(regions) <= options.max_marks, "kBudgetExceeded"),
          Requires(background.w * background.h * 3 <= options.max_bytes, "kBudgetExceeded")>>)
      stops == [k \in 1 .. (Len(regions) + 63) \div 64 |-> polls[k + 1]]
      blank == [w |-> background.w, h |-> background.h, strokes |-> <<>>, marks |-> <<>>, chips |-> {},
                colours |-> [p \in DOMAIN background.pixels |-> SubSeq(Channels(background, p), 1, 3)]]
      Draw(drawing, mark) == DrawRegionMark(drawing, regions[mark], mark, options)
  IN  IF refusal # "kOk" THEN Failed(refusal)
      ELSE IF FirstFailure(stops) # "kOk" THEN Failed(FirstFailure(stops))
      ELSE Ok(FoldLeft(Draw, blank, [mark \in DOMAIN regions |-> mark]))
=============================================================================
