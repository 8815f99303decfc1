----------------------------- MODULE Algorithms -----------------------------
(***************************************************************************)
(* The pure algorithms of the library, each put to work on a set of inputs *)
(* and compared with what its answer has to be whatever way it was found.  *)
(* A behaviour takes one job of Jobs and works it out in one step.         *)
(***************************************************************************)
EXTENDS Shifts, Texts, Caches, CropRefine, Geometry, Rendering, Attention, Verification

\* The jobs: records whose field `kind' names the algorithm.
CONSTANT Jobs

\* Detections, boxes and parameters are of whole numbers.
SuppressJob ==
  [kind : {"suppress"},
   regions : Seq([bounds : RectRecord, class : Int, label : STRING, confidence : Int]),
   nms : [iou : Int \X Int, class_aware : BOOLEAN, max_output : Int],
   filter : [min_confidence : Int, classes : SUBSET Int, labels : SUBSET STRING]]

PrintRecord == [same : BOOLEAN, hash : Int, ncc : Int]

LookUpJob ==
  [kind : {"lookup"}, side : Int, budget : Int, entries : Seq([id : Int, print : PrintRecord]),
   another : [id : Int, print : PrintRecord], thresholds : [hash : Int, ncc : Int], limit : Nat]

\* Ratios have positive denominators.
BoxParameters ==
  [threshold : Int, min_pixels : Int, max_boxes : Int, budget : Int,
   unclip : Int \X (Nat \ {0}), min_score : Int \X (Nat \ {0})]

GridJob == [kind : {"grid"}, w : Int, h : Int, side : Int]

\* Images have a size.
ReorientJob ==
  [kind : {"reorient"}, rotation : Rotations, w : Nat, h : Nat,
   horizontal : BOOLEAN, vertical : BOOLEAN, crop : RectRecord]

RenderOptions == [max_bytes : Int, thickness : Int, label_height : Int, max_marks : Int]

ASSUME JobsAreTyped ==
  \A given \in Jobs :
    /\ given.kind = "suppress" => given \in SuppressJob
    /\ given.kind = "lookup" => given \in LookUpJob
    /\ given.kind = "marks" => given.regions \in Seq(RectRecord) /\ given.options \in RenderOptions
    /\ given.kind = "boxes" => given.params \in BoxParameters
    /\ given.kind = "grid" => given \in GridJob
    /\ given.kind = "reorient" => given \in ReorientJob

VARIABLES job, answer

vars == <<job, answer>>

Pending == [status |-> "pending"]

(***************************************************************************)
(* The jobs.                                                               *)
(***************************************************************************)
\* An addition is [region, kind, space, cached, fault].
EvidenceOf(additions, max) ==
  FoldLeft(LAMBDA set, a : Add(set, a.region, a.kind, a.space, a.cached, max, a.fault).set,
           EmptyEvidence, additions)

Fuse ==
  /\ job.kind = "fuse"
  /\ LET items == EvidenceOf(job.additions, job.max).items
     IN  answer' = [items |-> items, image |-> job.image,
                    fused |-> FuseEvidence(items, job.image, job.options, job.stop)]

FindBoxes ==
  /\ job.kind = "boxes"
  /\ answer' = [recovered |-> RecoverContourBoxes(job.map, job.params),
                unclipped |-> DbPostprocessAabb(job.map, job.params)]

MergeLines ==
  /\ job.kind = "lines"
  /\ answer' = MergeTextLines(job.lines, job.params)

\* What is left after both filters, in the two orders they can be applied in.
Suppress ==
  /\ job.kind = "suppress"
  /\ answer' = [filtered_first |-> Then(FilterDetections(job.regions, job.filter),
                                        LAMBDA regions : Nms(regions, job.nms)),
                filtered_last |-> Then(Nms(job.regions, job.nms),
                                       LAMBDA regions : FilterDetections(regions, job.filter)),
                best |-> Nms(job.regions, job.nms)]

File(side, index, entry) == VisualInsert(index, side, entry.id, entry.print).cache

\* The entries are filed, queried, and one more is filed.
LookUp ==
  /\ job.kind = "lookup"
  /\ LET filed == FoldLeft(LAMBDA index, entry : File(job.side, index, entry),
                           EmptyCache(job.budget), job.entries)
         query == VisualQuery(filed, job.thresholds, job.limit)
     IN  answer' = [filed |-> filed, hits |-> query.answer,
                    after |-> File(job.side, query.cache, job.another)]

CompareImages ==
  /\ job.kind = "compare"
  /\ answer' = Then(MakeChangeSignature(job.previous, job.params), LAMBDA previous :
               Then(MakeChangeSignature(job.current, job.params), LAMBDA current :
                 DetectChange(previous, current, job.params)))

\* The letterboxed pixels, the transform that they went through, and the one
\* that is computed from the sizes alone.
Pad ==
  /\ job.kind = "pad"
  /\ answer' = [padded |-> Letterbox(job.image, job.w, job.h, job.value, "kOriented", "kPadded", Unbounded),
                computed |-> MakeLetterbox(job.image.w, job.image.h, job.w, job.h, "kOriented", "kPadded")]

\* A view of a raw image: turned, then mirrored, then cut.
Reorient ==
  /\ job.kind = "reorient"
  /\ LET size == OrientedSize(job.rotation, job.w, job.h)
         turned == MakeRotation(job.rotation, job.w, job.h, "kFrame", "kOriented")
         mirrored == MakeMirror(job.horizontal, job.vertical, size[1], size[2], "kOriented", "kMirrored")
         cut == MakeCrop(job.crop, "kMirrored", "kCropped")
     IN  answer' = [there |-> Then(Compose(turned, mirrored), LAMBDA first : Compose(first, cut)),
                    back |-> Then(Then(Compose(turned, mirrored), LAMBDA first : Compose(first, cut)),
                                  Inverse2D),
                    unmatched |-> Compose(turned, cut)]

\* Doubtful proposals are detected again in their crops.
Refine ==
  /\ job.kind = "refine"
  /\ answer' = RefineSmallDetections(job.source, job.backends, job.initial, job.params, job.polls)

\* The shift from an image to another, from the images and from signatures.
EstimateShift ==
  /\ job.kind = "shift"
  /\ LET SignatureOf(image) ==
           Then(GrayThumbnailWithin(image, job.params.size, job.params.budget), LAMBDA thumbnail :
             Ok([w |-> image.w, h |-> image.h, size |-> job.params.size, thumbnail |-> thumbnail.pixels]))
     IN  answer' = [estimate |-> EstimateGlobalShift(job.previous, job.current, job.params, job.polls),
                    stored |-> Then(SignatureOf(job.previous), LAMBDA previous :
                               Then(SignatureOf(job.current), LAMBDA current :
                                 EstimateSignatureShift(previous, current, job.params, job.polls)))]

\* The cells of a grid, and where each of its points is found.
DivideIntoCells ==
  /\ job.kind = "grid"
  /\ answer' = Then(MakeGridPartition(job.w, job.h, job.side), LAMBDA grid :
                 Ok([cells |-> [cell \in Cells(grid) |-> GridCellBounds(grid, cell).value],
                     places |-> [point \in Grid(job.w, job.h) |-> GridLocate(grid, point).value],
                     points |-> [point \in Grid(job.w, job.h) |->
                                   GridImagePoint(grid, GridLocate(grid, point).value).value],
                     beyond |-> GridLocate(grid, <<job.w, 0>>).status]))

DrawMarks ==
  /\ job.kind = "marks"
  /\ answer' = RenderSetOfMark(job.background, job.regions, job.options, job.polls)

MergeSegments ==
  /\ job.kind = "merge"
  /\ answer' = Then(FilterSegments(job.segments, job.filter), LAMBDA kept : MergeCollinear(kept, job.params))

Propose ==
  /\ job.kind = "propose"
  /\ answer' = ProposeRegions(job.segments, job.params, job.stop)

\* The view of a snapshot, and what the coordinator keeps of it.
Relate ==
  /\ job.kind = "relate"
  /\ LET view == BuildRelationView(job.snapshot, job.options, job.caps, job.stop)
     IN  answer' = [view |-> view, edges |-> CollectPartOfEdges(view)]

\* An image is compared with the one before it, and the report reaches the
\* gate of the tracker and, with the next snapshot, the plan.
React ==
  /\ job.kind = "react"
  /\ LET tracks == job.tracks
         Bounds(track) == Rect(track.bounds2.x \div 2, track.bounds2.y \div 2,
                               track.bounds2.w \div 2, track.bounds2.h \div 2)
         pool == [id \in DOMAIN tracks |-> [state |-> tracks[id].state, bounds |-> Bounds(tracks[id])]]
         Snapshot(report) == [job.snapshot EXCEPT !.change = report.classification, !.changed = report.regions]
     IN  answer' = Then(MakeChangeSignature(job.previous, job.params), LAMBDA previous :
                   Then(MakeChangeSignature(job.current, job.params), LAMBDA current :
                   Then(DetectChange(previous, current, job.params), LAMBDA report :
                     Ok([report |-> report,
                         gate |-> EvaluateChangeGate(report, tracks, job.polls),
                         plan |-> PlanAttention(job.conditions, Snapshot(report), job.current, job.bootstrap,
                                                pool, job.polls)]))))

Verify ==
  /\ job.kind = "verify"
  /\ answer' = VerifyTrack(job.track, job.view, job.descriptors, job.options, job.polls)

Init == job \in Jobs /\ answer = Pending

Evaluate ==
  \/ Fuse
  \/ FindBoxes
  \/ MergeLines
  \/ Suppress
  \/ LookUp
  \/ CompareImages
  \/ Pad
  \/ Reorient
  \/ Refine
  \/ EstimateShift
  \/ DivideIntoCells
  \/ DrawMarks
  \/ MergeSegments
  \/ Propose
  \/ Relate
  \/ React
  \/ Verify

Next == answer = Pending /\ Evaluate /\ UNCHANGED job

Spec == Init /\ [][Next]_vars

Answered(kind) == job.kind = kind /\ answer # Pending

(***************************************************************************)
(* Grouping.                                                               *)
(***************************************************************************)
\* The classes of the smallest equivalence that contains a symmetric relation:
\* nothing outside a class is linked to it, and it does not fall in two.
Classes(elements, Linked(_, _)) ==
  LET Separate(one, other) == \A a \in one, b \in other : ~Linked(a, b)
  IN  {class \in (SUBSET elements) \ {{}} :
         /\ Separate(class, elements \ class)
         /\ \A part \in (SUBSET class) \ {{}, class} : ~Separate(part, class \ part)}

\* The clusters of evidence are the classes of the gates, each item counts in
\* one region, the regions come in the order of their first items, and the
\* merges recorded for a region are just enough to join it.
ClustersAreClasses ==
  Answered("fuse") /\ answer.fused.status = "kOk" =>
    LET items == answer.items
        working == WorkingItems(items, answer.image, job.options).value
        Linked(i, j) ==
          /\ AssociatedBy(working[i].bounds, working[j].bounds, job.options) # {}
          /\ Compatible(working[i].item, working[j].item)
        regions == answer.fused.value.regions
        merges == answer.fused.value.merges
    IN  /\ Cardinality({items[i].id : i \in DOMAIN items}) = Len(items)
        /\ {ToSet(regions[r].ids) : r \in DOMAIN regions} =
             {{items[i].id : i \in class} : class \in Classes(DOMAIN items, Linked)}
        /\ \A r \in DOMAIN regions :
             /\ Len(merges[r]) = Len(regions[r].ids) - 1
             /\ \A s \in DOMAIN regions : r < s => regions[r].ids[1] < regions[s].ids[1]
             /\ \A i \in DOMAIN items :
                  items[i].id \in ToSet(regions[r].ids) =>
                    RectContains(regions[r].bounds, working[i].bounds)

\* The boxes of a map are those of its 8-connected components, in scan order,
\* and an unclipped box holds the one it grew from.
BoxesAreComponents ==
  Answered("boxes") /\ answer.recovered.status = "kOk" =>
    LET bright == {p \in DOMAIN job.map.pixels : job.map.pixels[p][1] >= job.params.threshold}
        Adjacent(a, b) == a # b /\ (a[1] - b[1]) \in -1 .. 1 /\ (a[2] - b[2]) \in -1 .. 1
        large == {class \in Classes(bright, Adjacent) : Cardinality(class) >= job.params.min_pixels}
        boxes == answer.recovered.value
        Scaled(box, k) == Rect(box.x * k, box.y * k, box.w * k, box.h * k)
    IN  /\ ToSet(boxes) = {CellBounds(class) : class \in large}
        /\ Len(boxes) = Cardinality(large)
        /\ answer.unclipped.status = "kOk" =>
             \A i \in DOMAIN answer.unclipped.value :
               LET grown == answer.unclipped.value[i].bounds
               IN  \E j \in DOMAIN boxes : RectContains(grown.bounds, Scaled(boxes[j], grown.scale))

\* Each box of text is on one line: the line covers it, and the text and the
\* confidence of a line are those of its boxes.
LinesLoseNothing ==
  Answered("lines") /\ answer.status = "kOk" =>
    LET Letters(lines) ==
          [i \in DOMAIN lines |->
             SelectSeq(lines[i].text, LAMBDA ch : ch \notin ToSet(job.params.separator))]
        merged == Letters(answer.lines)
        On(i, l) == ToSet(job.lines[i].text) \subseteq ToSet(merged[l])
    IN  /\ Len(FlattenSeq(merged)) = Len(FlattenSeq(Letters(job.lines)))
        /\ \A i \in DOMAIN job.lines :
             \E l \in DOMAIN merged :
               /\ On(i, l) /\ RectContains(answer.lines[l].bounds, job.lines[i].bounds)
               /\ answer.lines[l].confidence <= job.lines[i].confidence
        /\ \A l \in DOMAIN merged : \E i \in DOMAIN job.lines :
             On(i, l) /\ answer.lines[l].confidence = job.lines[i].confidence

\* A structure is a class of segments that meet at their ends; it is closed
\* when one of its segments can be taken away and its junctions still hang
\* together, and none of its segments stands alone.
StructuresAreClasses ==
  Answered("propose") /\ answer.status = "kOk" =>
    LET segments == SelectSeq(job.segments, HasLength)
        Meet(i, j) == \E p \in Ends(segments[i]), q \in Ends(segments[j]) : Close(p, q, job.params.radius)
        Points(class) == UNION {Ends(segments[i]) : i \in class}
        Junctions(class) == Classes(Points(class), LAMBDA p, q : Close(p, q, job.params.radius))
        Of(class, p) == CHOOSE junction \in Junctions(class) : p \in junction
        Joined(class, j, k) ==
          \E i \in class : {Of(class, segments[i].begin), Of(class, segments[i].end)} = {j, k}
        Closed(class) ==
          \E i \in class :
            /\ Of(class, segments[i].begin) # Of(class, segments[i].end)
            /\ Cardinality(Classes(Junctions(class), LAMBDA j, k : Joined(class \ {i}, j, k))) = 1
        found == {class \in Classes(DOMAIN segments, Meet) :
                    Cardinality(class) >= job.params.min_segments /\ Cardinality(Junctions(class)) >= 3}
        Listed(class) == SelectSeq([i \in DOMAIN segments |-> i], LAMBDA i : i \in class)
        SegmentsOf(class) == [k \in DOMAIN Listed(class) |-> segments[Listed(class)[k]]]
    IN  /\ job.params.max_openness2 = One =>
             Len(answer.value) = Cardinality(found)
               /\ {answer.value[i].segments : i \in DOMAIN answer.value} = {SegmentsOf(class) : class \in found}
        /\ \A i \in DOMAIN answer.value :
             /\ SameRatio(answer.value[i].support, One)
             /\ \A class \in found : answer.value[i].segments = SegmentsOf(class) =>
                  (answer.value[i].openness2 = Zero <=> Closed(class))

\* The rectangle around a structure holds its ends, and none along one of these
\* directions is smaller.
Directions == {v \in (-3 .. 3) \X (0 .. 3) : v # <<0, 0>>}

RectanglesAreSmallest ==
  Answered("propose") /\ answer.status = "kOk" =>
    \A i \in DOMAIN answer.value :
      LET points == UNION {Ends(s) : s \in ToSet(answer.value[i].segments)}
          chosen == answer.value[i].oriented
          around == Extents(points, chosen.origin, chosen.axis)
      IN  /\ around.u = chosen.u /\ around.v = chosen.v
          /\ \A v \in Directions : AtLeast(OrientedArea(Extents(points, chosen.origin, v)), OrientedArea(chosen))
          /\ AtLeast(<<Area(answer.value[i].tight), 1>>, OrientedArea(chosen))
          /\ RectContains(answer.value[i].context, answer.value[i].tight)

\* Segments on one line are merged into the unions of those that follow each
\* other without a wider gap, whatever their order.
MergedAreUnions ==
  Answered("merge") /\ answer.status = "kOk" /\ job.params.distance = 0 =>
    LET kept == {job.segments[i] : i \in {i \in DOMAIN job.segments :
                   HasLength(job.segments[i]) /\ PassesFilter(job.segments[i], job.filter)}}
        Follow(s, t) == CanMerge(s, t, job.params)
        Strongest(class) == Max({s.confidence : s \in class})
    IN  {[ends |-> BoundingRect(Ends(answer.value[i])), confidence |-> answer.value[i].confidence] :
           i \in DOMAIN answer.value} =
          {[ends |-> BoundingRect(UNION {Ends(s) : s \in class}), confidence |-> Strongest(class)] :
             class \in Classes(kept, Follow)}

\* The cells of a grid share no pixel and leave none out, and a point is in the
\* cell that it is located in.
CellsTile ==
  Answered("grid") /\ answer.status = "kOk" =>
    LET cells == answer.value.cells
    IN  \A point \in Grid(job.w, job.h) :
          /\ {cell \in DOMAIN cells : ContainsPoint(cells[cell], point)} = {answer.value.places[point].cell}
          /\ answer.value.points[point] = point
          /\ answer.value.beyond = "kInvalidArgument"

\* The entities of a view share no region and lose none: each has the bounds of
\* its first region, which each other one of it duplicates by itself, and no
\* two of these are duplicates of each other.  Entities that overlap have one
\* relation and the others none; the parts form no circle.
EntitiesPartitionRegions ==
  Answered("relate") /\ answer.view.status = "kOk" =>
    LET regions == job.snapshot.regions
        view == answer.view.value
        Members(e) == {i \in DOMAIN regions : regions[i].evidence \subseteq view.entities[e].evidence}
        Anchor(e) == Min(Members(e))
        Duplicates(i, j) == RelationOf(regions[i], regions[j], job.options) = "kDuplicate"
        Between(e, f) == {k \in DOMAIN view.relations : {view.relations[k].first, view.relations[k].second} = {e, f}}
        Whole(parts) == {part \in parts : \E other \in parts : part[2] = other[1]}
    IN  /\ \A i \in DOMAIN regions : \E e \in DOMAIN view.entities : i \in Members(e)
        /\ \A e \in DOMAIN view.entities :
             /\ view.entities[e].bounds = regions[Anchor(e)].bounds
             /\ \A i \in Members(e) \ {Anchor(e)} : Duplicates(Anchor(e), i)
             /\ UNION {ToSet(view.relations[k].merged) : k \in Between(e, e)} = Members(e) \ {Anchor(e)}
        /\ \A e, f \in DOMAIN view.entities :
             e < f => /\ Members(e) \cap Members(f) = {} /\ ~Duplicates(Anchor(e), Anchor(f))
                      /\ Cardinality(Between(e, f)) =
                           IF IntersectionArea(view.entities[e].bounds, view.entities[f].bounds) > 0 THEN 1 ELSE 0
        /\ \A parts \in (SUBSET answer.edges.value) \ {{}} : Whole(parts) # parts
        /\ RelationViewConsistent(view)

\* Whatever is grouped, evidence, pixels, boxes of text or segments, is grouped
\* by a relation of pairs: the groups are its classes, independent of the order
\* in which the pairs were met, every input is in exactly one of them, and the
\* rectangle around one is the smallest that holds it.
GroupsPartitionTheInputs ==
  /\ ClustersAreClasses /\ BoxesAreComponents /\ LinesLoseNothing
  /\ StructuresAreClasses /\ RectanglesAreSmallest /\ MergedAreUnions
  /\ CellsTile /\ EntitiesPartitionRegions

(***************************************************************************)
(* Ranking.                                                                *)
(***************************************************************************)
\* Suppression keeps regions that do not conflict; each one it drops lost to a
\* stronger one that it kept, or to a full output; and a filter by confidence
\* can be applied before or after it when the output is not capped.
SuppressionKeepsTheBest ==
  Answered("suppress") /\ answer.best.status = "kOk" =>
    LET kept == answer.best.value
        Conflict(a, b) ==
          LET shared == IntersectionArea(a.bounds, b.bounds)
          IN  /\ shared > 0
              /\ shared * job.nms.iou[2] > job.nms.iou[1] * (Area(a.bounds) + Area(b.bounds) - shared)
              /\ job.nms.class_aware => a.class = b.class
        full == job.nms.max_output > 0 /\ Len(kept) = job.nms.max_output
    IN  /\ \A i, j \in DOMAIN kept : i < j =>
             kept[i].confidence >= kept[j].confidence /\ ~Conflict(kept[i], kept[j])
        /\ \A region \in ToSet(job.regions) \ ToSet(kept) :
             \E i \in DOMAIN kept :
               /\ kept[i].confidence >= region.confidence
               /\ Conflict(kept[i], region) \/ (full /\ i = Len(kept))
        /\ job.nms.max_output = 0 /\ job.filter.classes = {} /\ job.filter.labels = {} =>
             answer.filtered_first = answer.filtered_last

\* A query answers with the best entries, best first, and what it answered
\* with is the last to be evicted.
BestAnswers(asked, filed, hits, after) ==
  LET thresholds == asked.thresholds
      Found(entry) ==
        \/ entry.value.same
        \/ thresholds.hash < Full /\ entry.value.hash >= thresholds.hash
        \/ thresholds.ncc < Full /\ entry.value.ncc >= thresholds.ncc
      found == {filed.entries[i].key :
                  i \in {i \in DOMAIN filed.entries : Found(filed.entries[i])}}
      evicted == {filed.entries[i].key : i \in DOMAIN filed.entries}
                   \ {after.entries[i].key : i \in DOMAIN after.entries}
      answered == {hits[i].id : i \in DOMAIN hits}
  IN  /\ answered \subseteq found /\ Len(hits) = Cardinality(answered)
      /\ Len(hits) = Min({asked.limit, Cardinality(found)})
      /\ \A i, j \in DOMAIN hits : i < j =>
           \/ hits[i].layer < hits[j].layer
           \/ hits[i].layer = hits[j].layer /\ hits[i].similarity >= hits[j].similarity
      /\ evicted \cap answered # {} =>
           \A i \in DOMAIN after.entries :
             after.entries[i].key \in answered \cup {asked.another.id}

QueriesAnswerTheBest == Answered("lookup") => BestAnswers(job, answer.filed, answer.hits, answer.after)

\* Labels share no pixel with each other and lie in the image, also after all
\* that is drawn later; a box without one had no place left for it.
LabelsAreApart(regions, options, drawn) ==
  LET pixels == DOMAIN drawn.colours
      Labels == {k \in DOMAIN drawn.strokes : drawn.strokes[k].ink[1] = "chip"}
      On(rect) == {p \in pixels : ContainsPoint(rect, p)}
      Place(mark) == {drawn.strokes[k].rect : k \in {k \in Labels : drawn.strokes[k].ink[2] = mark}}
  IN  /\ Len(drawn.marks) = Len(regions)
      /\ \A k \in Labels : Cardinality(On(drawn.strokes[k].rect)) = Area(drawn.strokes[k].rect)
      /\ \A k, l \in Labels : k < l => On(drawn.strokes[k].rect) \cap On(drawn.strokes[l].rect) = {}
      /\ \A mark \in DOMAIN drawn.marks : \A box \in drawn.marks[mark] :
           Place(mark) = {} /\ options.label_height > 0 =>
             LET places == ToSet(LabelCandidates(box, ChipSize(mark, options)))
             IN  \A place \in places :
                   \/ Cardinality(On(place)) < Area(place)
                   \/ \E k \in Labels : On(place) \cap On(drawn.strokes[k].rect) # {}

LabelsStayApart ==
  Answered("marks") /\ answer.status = "kOk" => LabelsAreApart(job.regions, job.options, answer.value)

\* Where several candidates compete, the strongest are the ones that stay, and
\* what gives way gives way to one of them.
KeptAreTheBest ==
  SuppressionKeepsTheBest /\ QueriesAnswerTheBest /\ LabelsStayApart

(***************************************************************************)
(* Changes.                                                                *)
(***************************************************************************)
\* The block comparison misses nothing that its threshold lets it see: when
\* every pixel under a block moved the same way by at least the threshold,
\* each of these pixels is inside a reported region, unless the caller ignores
\* them; and a frame without a difference reports none.
ChangesAreReported ==
  Answered("compare") /\ answer.status = "kOk" /\ answer.value.reason = "kBlockDiff" =>
    LET params == job.params
        frame == [w |-> job.current.w, h |-> job.current.h, size |-> params.size]
        Under(b) ==
          {p \in DOMAIN job.current.pixels :
             \E x \in BlockSpan(b[1], params.block, params.size),
                y \in BlockSpan(b[2], params.block, params.size) :
               /\ Coverage(x, p[1], frame.w, params.size) > 0
               /\ Coverage(y, p[2], frame.h, params.size) > 0}
        Moved(p, sign) == sign * (job.current.pixels[p][1] - job.previous.pixels[p][1]) >= params.difference
        Excused(pixels) == \E region \in params.ignored : \A p \in pixels : ContainsPoint(region, p)
        Reported(p) == \E i \in DOMAIN answer.value.regions : ContainsPoint(answer.value.regions[i], p)
        side == BlocksPerSide(params.size, params.block)
    IN  /\ \A b \in Grid(side, side) :
             \/ Excused(Under(b))
             \/ \A p \in Under(b) : Reported(p)
             \/ \A sign \in {-1, 1} : \E p \in Under(b) : ~Moved(p, sign)
        /\ job.current = job.previous => answer.value.classification = "kNone"
        /\ answer.value.classification = "kNone" <=> answer.value.regions = <<>>

\* Content that moved as a whole, with new content coming in at the border, is
\* found where it went: nothing is left of the difference there, and no nearer
\* shift explains the image as well.  The stored signatures tell the same.
ShiftsAreFound ==
  Answered("shift") /\ answer.estimate.status = "kOk" =>
    LET estimate == answer.estimate.value
        same == job.previous.w = job.params.size /\ job.previous.h = job.params.size
        range == -job.params.max_shift .. job.params.max_shift
        window == (job.params.max_shift .. job.params.size - job.params.max_shift - 1)
        Moved(s) == \A x \in window, y \in window :
                      job.current.pixels[<<x + s[1], y + s[2]>>] = job.previous.pixels[<<x, y>>]
        moved == {s \in range \X range : Moved(s)}
    IN  /\ answer.stored = answer.estimate
        /\ same /\ moved # {} =>
             /\ estimate.thumbnail \in moved
             /\ \A s \in moved : Radius(estimate.thumbnail) <= Radius(s)
             /\ moved # range \X range => SameRatio(estimate.confidence, One)
        /\ same /\ SameRatio(estimate.confidence, One) => estimate.thumbnail \in moved

\* A pixel that changed reaches everyone it concerns: the active tracks that
\* show it are verified, and it is looked at, as part of a region that the work
\* of the plan meets, or reported for reconsideration.  Nothing makes the whole
\* frame work unless the caller said so.
ChangesReachTheirReaders ==
  Answered("react") /\ answer.status = "kOk" =>
    LET gate == answer.value.gate
        plan == answer.value.plan
        Moved(p) == LET d == job.current.pixels[p][1] - job.previous.pixels[p][1]
                    IN  Max({d, -d}) >= job.params.difference
        changed == {p \in DOMAIN job.current.pixels : Moved(p)}
        Shows(track, p) == IntersectionArea(track.bounds2, Rect(2 * p[1], 2 * p[2], 2, 2)) > 0
        Reported(p) == \E record \in ToSet(plan.value.reconsiderations) : ContainsPoint(record.region, p)
        Worked(p) == \E item \in ToSet(plan.value.work), region \in ToSet(answer.value.report.regions) :
                       item.kind = "kFocus" /\ ContainsPoint(region, p) /\ IntersectionArea(item.roi, region) > 0
        Plain(i) == job.conditions[i].bind \/ ~HasSemantics(job.conditions[i])
    IN  /\ gate.status = "kOk" =>
             \A t \in DOMAIN job.tracks :
               /\ gate.value[t].decision = "kVerify" => job.tracks[t].state = "kTracking" /\ changed # {}
               /\ job.tracks[t].state = "kTracking" /\ (\E p \in changed : Shows(job.tracks[t], p))
                    => gate.value[t].decision = "kVerify"
        /\ plan.status = "kOk" =>
             /\ \A p \in changed : Reported(p) \/ Worked(p)
             /\ Len(plan.value.resolutions) = Len(job.conditions)
             /\ \A i, j \in DOMAIN plan.value.work : i < j => plan.value.work[i].condition # plan.value.work[j].condition
             /\ \A item \in ToSet(plan.value.work) :
                  item.kind = "kBootstrap" => job.bootstrap /\ ~Plain(item.condition)

\* The search of a track is what looking at every place by itself gives: all
\* whole moves that stay in the region of interest are tried, the place that is
\* named answers to its template at least as well as any place to any, none as
\* good is nearer, and a template that is there to be seen is recognised.
TargetsAreFound ==
  Answered("verify") /\ answer.status = "kOk" =>
    LET track == job.track
        found == answer.value.appearance
        roi == answer.value.roi
        At(offset) == [track.bounds2 EXCEPT !.x = @ + 2 * offset[1], !.y = @ + 2 * offset[2]]
        reach == -job.view.w .. job.view.w
        inside == {offset \in reach \X reach : RectContains(InHalves(roi), At(offset))}
        tried == IF inside = {} THEN {<<0, 0>>} ELSE inside
        Seen(offset) ==
          Then(Crop(job.view, Window(track.bounds2, offset, job.view).value, Unbounded), LAMBDA cut :
          Then(ConvertColor(cut, "kGray8", Unbounded), LAMBDA gray :
               ResizeArea(gray, job.options.side, job.options.side, Unbounded)))
        seen == <<>> @@ [offset \in tried |-> Seen(offset).value.pixels]
        Answer(offset, t) == ThumbnailNcc(seen[offset], track.templates[t])
    IN  /\ found.offset \in tried
        /\ SameRatio(Answer(found.offset, found.template), found.ncc)
        /\ \A offset \in tried, t \in DOMAIN track.templates :
             /\ AtLeast(found.ncc, Answer(offset, t))
             /\ t = found.template /\ SameRatio(Answer(offset, t), found.ncc)
                  => Chebyshev(found.offset) <= Chebyshev(offset)
             /\ seen[offset] = track.templates[t] => SameRatio(found.ncc, One)
        /\ found.outcome # "kNone" => \E offset \in tried : seen[offset] # seen[found.offset]

\* What changed between two images is told: the blocks that differ, and where
\* the content went; and it is told to those who have to look again.
ChangesAreSeen ==
  /\ ChangesAreReported /\ ShiftsAreFound
  /\ ChangesReachTheirReaders /\ TargetsAreFound

(***************************************************************************)
(* Coordinates.                                                            *)
(***************************************************************************)
\* What the refinement makes of one proposal: itself, or what was found of it.
Refined(i) ==
  IF ~Doubtful(job.initial[i], job.params, job.source.w, job.source.h) THEN <<job.initial[i]>>
  ELSE RefineCandidate(job.source, CHOOSE backend \in job.backends : TRUE,
                       job.initial[i], job.params).value

\* The refined proposals are where the proposals were in the input (the header:
\* "The output preserves the input order: untouched proposals pass through
\* unchanged, and each refined candidate is replaced by the backend's
\* results"), when the number of candidates is not limited.
RefinementReplacesItsCandidates ==
  Answered("refine") /\ answer.status = "kOk" /\ Len(job.initial) <= job.params.max_candidates =>
    answer.value = FlattenSeq([i \in DOMAIN job.initial |-> Refined(i)])

\* The part of the length that lies within the tolerance of the two principal
\* directions (the header: "Fraction of total segment length whose orientation
\* lies within `angle_tolerance_deg' of the structure's two principal
\* directions").
RectangularityIsTheAlignedFraction ==
  Answered("propose") /\ answer.status = "kOk" =>
    \A i \in DOMAIN answer.value :
      LET segments == answer.value[i].segments
          Aligned(s) == NearAxes(s, PrincipalDoubled(segments), job.params.cosine2)
      IN  SameRatio(answer.value[i].rectangularity,
                    <<TotalLength(segments, Aligned), TotalLength(segments, LAMBDA s : TRUE)>>)

\* The transform of a letterbox takes the image onto the part of the canvas
\* that was not padded, and is, but for rounding, the one that the sizes give.
PaddingSurroundsTheImage ==
  Answered("pad") /\ answer.padded.status = "kOk" =>
    LET padded == answer.padded.value
        image == Rect(0, 0, job.image.w, job.image.h)
        content == TransformRect(padded.transform, image)
        Painted(p) == padded.buffer.pixels[p] # [c \in DOMAIN padded.buffer.pixels[p] |-> job.value]
    IN  /\ {p \in DOMAIN padded.buffer.pixels : Painted(p)}
             = {p \in DOMAIN padded.buffer.pixels : ContainsPoint(content, p)}
        /\ answer.computed.status = "kOk"
        /\ LET ideal == TransformRect(answer.computed.value, image)
           IN  \A side \in {"x", "y", "w", "h"} : (ideal[side] - content[side]) \in -1 .. 1

\* A chain of turns, mirrors and cuts is undone by its inverse, and takes the
\* image onto the view of it; a chain whose spaces do not meet is refused.
ViewsAreUndone ==
  Answered("reorient") =>
    LET size == OrientedSize(job.rotation, job.w, job.h)
        corners == Corners(Rect(0, 0, job.w, job.h))
        there == TransformPoints(answer.there.value, corners)
    IN  /\ answer.there.status = "kOk" /\ answer.back.status = "kOk"
        /\ TransformPoints(answer.back.value, there) = corners
        /\ BoundingRect(ToSet(there)) = Rect(-job.crop.x, -job.crop.y, size[1], size[2])
        /\ answer.unmatched.status = "kCoordinateTransform"

\* What a detector finds in the crop of a proposal lies in the image, around
\* the proposal, whatever size the crop was given to the detector in.
RefinementsStayAround ==
  Answered("refine") /\ answer.status = "kOk" /\ Len(job.initial) = 1 =>
    LET proposal == job.initial[1]
        image == Rect(0, 0, job.source.w, job.source.h)
        found == job.backends # {} /\ Doubtful(proposal, job.params, job.source.w, job.source.h)
                   /\ job.params.max_candidates > 0
        visible == Intersect(image, proposal.bounds)
        boxes == {answer.value[i].bounds : i \in DOMAIN answer.value}
    IN  /\ ~found => answer.value = job.initial
        /\ found => \A box \in boxes : RectContains(image, box)
        /\ \A i \in DOMAIN answer.value :
             found /\ answer.value[i].label = "whole" /\ Area(visible) > 0
               => RectContains(answer.value[i].bounds, visible)

\* The coordinates that leave with pixels are those of the pixels.
TransformsFollowThePixels ==
  PaddingSurroundsTheImage /\ ViewsAreUndone /\ RefinementsStayAround
=============================================================================
