------------------------------ MODULE Changes ------------------------------
(***************************************************************************)
(* What is made of the pixels: connected components (connected_components  *)
(* .cpp), the boxes of the text detector (text_postprocess.cpp), the       *)
(* suppression of overlapping detections (detection_postprocess.cpp) and   *)
(* the layered change detection (change_detection.cpp).                    *)
(***************************************************************************)
EXTENDS Pixels, Orders

(***************************************************************************)
(* Components of cells, 8-connected, in scan order of their first cell.    *)
(***************************************************************************)
Touching(a, b) == {a[1] - b[1], a[2] - b[2]} \subseteq -1 .. 1

ScanOrder(a, b) == a[2] < b[2] \/ (a[2] = b[2] /\ a[1] < b[1])

\* As many rounds as there are cells reach everything.
CollectComponent(cells, seed) ==
  LET Grow(round, reached) == {cell \in cells : \E known \in reached : Touching(cell, known)}
  IN  FoldSet(Grow, {seed}, cells)

FirstCell(cells) == CHOOSE cell \in cells : \A other \in cells \ {cell} : ScanOrder(cell, other)

ComponentsOf(cells) ==
  LET Collect(round, found) ==
        LET left == cells \ UNION ToSet(found)
        IN  IF left = {} THEN found ELSE Append(found, CollectComponent(cells, FirstCell(left)))
  IN  FoldSet(Collect, <<>>, cells)

\* The smallest rectangle of whole cells.
CellBounds(cells) ==
  LET xs == {cell[1] : cell \in cells}
      ys == {cell[2] : cell \in cells}
  IN  Rect(Min(xs), Min(ys), Max(xs) - Min(xs) + 1, Max(ys) - Min(ys) + 1)

FindComponents(gray, threshold, budget) ==
  LET Brightness(p) == gray.pixels[p][1]
      bright == {p \in DOMAIN gray.pixels : Brightness(p) >= threshold}
      found == ComponentsOf(bright)
  IN  IF ~ValidImage(gray) THEN Failed("kInvalidArgument")
      ELSE IF gray.format # "kGray8" THEN Failed("kUnsupportedFormat")
      ELSE IF (gray.w * gray.h + 7) \div 8 > budget THEN Failed("kBudgetExceeded")
      ELSE Ok([i \in DOMAIN found |->
                 [bounds |-> CellBounds(found[i]), count |-> Cardinality(found[i]),
                  sum |-> MapThenSumSet(Brightness, found[i])]])

(***************************************************************************)
(* Boxes of text.  The cap is tested before the filters of the component   *)
(* that comes next.                                                        *)
(***************************************************************************)
ValidBoxParams(params) ==
  /\ params.threshold >= 1 /\ params.min_pixels >= 0
  /\ params.max_boxes >= 1 /\ params.budget >= 1

Boxes(components, params, Kept(_), Box(_)) ==
  LET Take(answer, component) ==
        IF answer.status # "kOk" THEN answer
        ELSE IF Len(answer.value) >= params.max_boxes THEN Failed("kBudgetExceeded")
        ELSE IF ~Kept(component) THEN answer
        ELSE Ok(Append(answer.value, Box(component)))
  IN  FoldLeft(Take, Ok(<<>>), components)

MeanScore(component) == <<component.sum, 255 * component.count>>

\* Each side moves out by area * ratio / perimeter, up to the map; the box is
\* given by twice the perimeter, so that it is whole.
UnclipAabb(box, ratio, map) ==
  LET scale == 2 * (box.w + box.h) * ratio[2]
      offset == Area(box) * ratio[1]
      left == Max({map.x * scale, box.x * scale - offset})
      top == Max({map.y * scale, box.y * scale - offset})
      right == Min({(map.x + map.w) * scale, (box.x + box.w) * scale + offset})
      bottom == Min({(map.y + map.h) * scale, (box.y + box.h) * scale + offset})
  IN  [scale |-> scale, bounds |-> Rect(left, top, right - left, bottom - top)]

DbPostprocessAabb(map, params) ==
  LET whole == Rect(0, 0, map.w, map.h)
      Kept(c) == c.count >= params.min_pixels /\ AtLeast(MeanScore(c), params.min_score)
      Box(c) == [bounds |-> UnclipAabb(c.bounds, params.unclip, whole), confidence |-> MeanScore(c)]
  IN  IF ~ValidBoxParams(params) \/ params.unclip[1] < 0 \/ ~AtLeast(<<10, 1>>, params.unclip)
         \/ ~AtLeast(params.min_score, Zero) \/ ~AtLeast(One, params.min_score)
        THEN Failed("kInvalidArgument")
      ELSE Then(FindComponents(map, params.threshold, params.budget), LAMBDA found :
             Boxes(found, params, Kept, Box))

RecoverContourBoxes(binary, params) ==
  LET Kept(c) == c.count >= params.min_pixels
      Box(c) == c.bounds
  IN  IF ~ValidBoxParams(params) THEN Failed("kInvalidArgument")
      ELSE Then(FindComponents(binary, params.threshold, params.budget), LAMBDA found :
             Boxes(found, params, Kept, Box))

(***************************************************************************)
(* Detections: [bounds, class, label, confidence].                         *)
(***************************************************************************)
IntersectionOverUnion(a, b) == IF Area(a) <= 0 \/ Area(b) <= 0 THEN Zero ELSE Iou(a, b)

\* Regions of different classes suppress each other although the caller said no.
Suppresses_acrossClasses(kept, other, params) ==
  LessThan(params.iou, IntersectionOverUnion(kept.bounds, other.bounds))

Suppresses(kept, other, params) ==
  /\ params.class_aware => kept.class = other.class
  /\ LessThan(params.iou, IntersectionOverUnion(kept.bounds, other.bounds))

\* By confidence, and in the order of the input where that is equal.
Stronger(regions) ==
  {pair \in (DOMAIN regions) \X (DOMAIN regions) :
     \/ regions[pair[1]].confidence > regions[pair[2]].confidence
     \/ regions[pair[1]].confidence = regions[pair[2]].confidence /\ pair[1] < pair[2]}

KeepRegion(regions, params, state, i) ==
  IF i \in state.suppressed \/ (params.max_output > 0 /\ Len(state.kept) >= params.max_output)
    THEN state
  ELSE [kept |-> Append(state.kept, i),
        suppressed |-> state.suppressed \cup
          {j \in DOMAIN regions \ {i} : Suppresses(regions[i], regions[j], params)}]

\* The places of the regions that are kept, the strongest first.
Survivors(regions, params) ==
  FoldLeft(LAMBDA state, i : KeepRegion(regions, params, state, i), [kept |-> <<>>, suppressed |-> {}],
           SortedBy(DOMAIN regions, Stronger(regions))).kept

Nms(regions, params) ==
  IF ~AtLeast(params.iou, Zero) \/ ~AtLeast(One, params.iou) \/ params.max_output < 0
    THEN Failed("kInvalidArgument")
  ELSE LET kept == Survivors(regions, params)
       IN  Ok([k \in DOMAIN kept |-> regions[kept[k]]])

FilterDetections(regions, params) ==
  LET Kept(region) ==
        /\ region.confidence >= params.min_confidence
        /\ params.classes = {} \/ region.class \in params.classes
        /\ params.labels = {} \/ region.label \in params.labels
  IN  IF params.min_confidence < 0 THEN Failed("kInvalidArgument") 
      ELSE Ok(ElementsAt(regions, {i \in DOMAIN regions : Kept(regions[i])}))

(***************************************************************************)
(* Change detection.  A signature is [w, h, size, fingerprint, thumbnail]. *)
(***************************************************************************)
CONSTANTS MinThumbnail, MaxThumbnail, MaxBlocksPerSide

BlocksPerSide(size, block) == (size + block - 1) \div block

ValidChangeParams(params) ==
  /\ AtLeast(params.similarity, Zero) /\ AtLeast(One, params.similarity)
  /\ params.size \in MinThumbnail .. MaxThumbnail
  /\ params.block \in 1 .. params.size
  /\ BlocksPerSide(params.size, params.block) <= MaxBlocksPerSide
  /\ params.difference \in 0 .. 255
  /\ LessThan(Zero, params.area) /\ AtLeast(One, params.area)

ValidIgnored(params, w, h) ==
  \A region \in params.ignored :
    IsValid(region) /\ region.x >= 0 /\ region.y >= 0 /\ region.x + region.w <= w /\ region.y + region.h <= h

\* Both edges are rounded down.
FrameRect_floor(x0, x1, y0, y1, frame) ==
  LET Floor(t, length) == (t * length) \div frame.size
  IN  Rect(Floor(x0, frame.w), Floor(y0, frame.h),
           Floor(x1, frame.w) - Floor(x0, frame.w), Floor(y1, frame.h) - Floor(y0, frame.h))

\* The frame rectangle that covers the thumbnail cells [x0, x1) x [y0, y1).
FrameRect(x0, x1, y0, y1, frame) ==
  LET Floor(t, length) == (t * length) \div frame.size
      Ceil(t, length) == (t * length + frame.size - 1) \div frame.size
      left == Floor(x0, frame.w)
      top == Floor(y0, frame.h)
  IN  Rect(left, top, Ceil(x1, frame.w) - left, Ceil(y1, frame.h) - top)

BlockSpan(b, block, size) == b * block .. Min({(b + 1) * block, size}) - 1

\* The frame rectangle of the blocks in bounds (a rectangle of blocks).
BlockRect(bounds, block, frame) ==
  FrameRect(bounds.x * block, Min({(bounds.x + bounds.w) * block, frame.size}),
            bounds.y * block, Min({(bounds.y + bounds.h) * block, frame.size}), frame)

\* The mean difference of a block reaches the threshold.
Differs(previous, current, b, params) ==
  LET pixels == BlockSpan(b[1], params.block, current.size) \X BlockSpan(b[2], params.block, current.size)
      Difference(p) == LET d == previous.thumbnail[p][1] - current.thumbnail[p][1] IN Max({d, -d})
  IN  MapThenSumSet(Difference, pixels) >= params.difference * Cardinality(pixels)

ChangedBlocks(previous, current, params) ==
  LET side == BlocksPerSide(current.size, params.block)
      Ignored(b) == \E region \in params.ignored :
                      RectContains(region, BlockRect(Rect(b[1], b[2], 1, 1), params.block, current))
  IN  {b \in Grid(side, side) : ~Ignored(b) /\ Differs(previous, current, b, params)}

MakeChangeSignature(image, params) ==
  IF ~ValidImage(image) \/ ~ValidChangeParams(params) THEN Failed("kInvalidArgument")
  ELSE Then(Fingerprint(image), LAMBDA print :
       Then(GrayThumbnail(image, params.size, params.size), LAMBDA thumbnail :
         Ok([w |-> image.w, h |-> image.h, size |-> params.size, fingerprint |-> print,
             thumbnail |-> thumbnail.pixels])))

Report_swapped(classification, reason, previous, current, ratio, regions) ==
  [classification |-> classification, reason |-> reason, previous |-> current.fingerprint,
   current |-> previous.fingerprint, ratio |-> ratio, regions |-> regions]

Report(classification, reason, previous, current, ratio, regions) ==
  [classification |-> classification, reason |-> reason, previous |-> previous.fingerprint,
   current |-> current.fingerprint, ratio |-> ratio, regions |-> regions]

CompareSignatures(previous, current, params) ==
  LET changed == ChangedBlocks(previous, current, params)
      side == BlocksPerSide(current.size, params.block)
      ratio == <<Cardinality(changed), side * side>>
      found == ComponentsOf(changed)
      regions == [i \in DOMAIN found |-> BlockRect(CellBounds(found[i]), params.block, current)]
  IN  IF params.early_exit /\ AtLeast(Similarity(previous.fingerprint, current.fingerprint), params.similarity)
        THEN Report("kNone", "kFingerprintEarlyExit", previous, current, Zero, <<>>)
      ELSE Report(IF changed = {} THEN "kNone"
                  ELSE IF AtLeast(ratio, params.area) THEN "kGlobal" ELSE "kPartial",
                  "kBlockDiff", previous, current, ratio, regions)

\* The grid comes from the stored thumbnails, which must be of one size.
DetectChange(previous, current, params) ==
  IF \/ ~ValidChangeParams(params)
     \/ previous.size # current.size
     \/ params.block > current.size
     \/ BlocksPerSide(current.size, params.block) > MaxBlocksPerSide
     \/ ~ValidIgnored(params, current.w, current.h)
    THEN Failed("kInvalidArgument")
  ELSE Ok(CompareSignatures(previous, current, params))
=============================================================================
