------------------------------- MODULE Fusion -------------------------------
(***************************************************************************)
(* EvidenceSet and fuse_evidence: every item of evidence is moved into the *)
(* target space, pairs that a gate associates are united, and each cluster *)
(* becomes one region.  An item is                                         *)
(*   [id, kind, space, source, region], region = [bounds, text, class,     *)
(*                                                label, confidence].      *)
(* Confidences, weights and similarities are whole numbers (percents).     *)
(* The display transform of the options is a set of at most one.           *)
(***************************************************************************)
EXTENDS Transforms, Orders

Context == {"kOk", "kCancelled", "kTimeout"}
TargetSpaces == {"kFrame", "kOriented", "kDisplay"}

(***************************************************************************)
(* The evidence set.                                                       *)
(***************************************************************************)
EmptyEvidence == [items |-> <<>>, next_id |-> 1]

ValidBounds(bounds) == bounds.w >= 0 /\ bounds.h >= 0

SourceOf(kind, cached) ==
  (CASE kind = "kExternal" -> {"external"} [] kind = "kText" -> {"ocr"}
     [] kind = "kDetection" -> {"detector"} [] kind = "kTemplate" -> {"template"})
  \cup (IF cached THEN {"cache"} ELSE {})

\* push(): the id is spent before the item is stored.
Push(set, item, max, fault) ==
  IF Len(set.items) >= max THEN [status |-> "kBudgetExceeded", set |-> set]
  ELSE IF fault THEN [status |-> "kBudgetExceeded", set |-> [set EXCEPT !.next_id = @ + 1]]
  ELSE [status |-> "kOk",
        set |-> [items |-> Append(set.items, [item EXCEPT !.id = set.next_id]),
                 next_id |-> set.next_id + 1]]

\* add_external, add_text, add_detection and add_template differ in the source
\* bit; external regions are never replayed from a cache.
Add(set, region, kind, space, cached, max, fault) ==
  IF ~ValidBounds(region.bounds) \/ space \notin TargetSpaces
    THEN [status |-> "kInvalidArgument", set |-> set]
  ELSE Push(set,
            [id |-> 0, kind |-> kind, space |-> space,
             source |-> SourceOf(kind, cached /\ kind # "kExternal"), region |-> region],
            max, fault)

EvidenceConfidence(item) ==
  IF item.kind = "kTemplate" THEN Clamp(item.region.confidence, 0, 100) ELSE item.region.confidence

(***************************************************************************)
(* Options and spaces.                                                     *)
(***************************************************************************)
Known(ratio) == AtLeast(ratio, Zero) /\ AtLeast(One, ratio)

ValidFusionOptions(options) ==
  /\ Known(options.iou) /\ Known(options.containment)
  /\ \A source \in DOMAIN options.weights : options.weights[source] >= 0
  /\ options.max_regions > 0
  /\ options.target \in TargetSpaces
  /\ \A display \in options.display : display.from = "kOriented" /\ display.to = "kDisplay"
  /\ options.target = "kDisplay" => options.display # {}

\* The transform from the space of an item into the target space.
SpaceConversion(space, image, options) ==
  LET target == options.target
      rotation == FrameToOriented(image)
      display == CHOOSE display \in options.display : TRUE
      FromOriented(first) ==
        Then(Inverse2D(rotation), LAMBDA back : Compose(first, back))
  IN  IF "kDisplay" \in {space, target} /\ options.display = {} THEN Failed("kInvalidArgument")
      ELSE CASE space = target -> Ok(MakeIdentity(space, space))
             [] space = "kDisplay" /\ target = "kOriented" -> Inverse2D(display)
             [] space = "kDisplay" /\ target = "kFrame" -> Then(Inverse2D(display), FromOriented)
             [] space = "kOriented" /\ target = "kDisplay" -> Ok(display)
             [] space = "kFrame" /\ target = "kDisplay" -> Compose(rotation, display)
             [] space = "kFrame" /\ target = "kOriented" -> Ok(rotation)
             [] space = "kOriented" /\ target = "kFrame" -> Inverse2D(rotation)
             [] OTHER -> Failed("kInvalidArgument")

\* The first item that cannot be converted fails the whole set.
WorkingItems(items, image, options) ==
  LET converted == [i \in DOMAIN items |-> SpaceConversion(items[i].space, image, options)]
      failed == {i \in DOMAIN items : converted[i].status # "kOk"}
  IN  IF failed # {} THEN converted[Min(failed)]
      ELSE Ok([i \in DOMAIN items |->
                 [item |-> items[i], bounds |-> TransformRect(converted[i].value, items[i].region.bounds)]])

(***************************************************************************)
(* Gates and clusters.                                                     *)
(***************************************************************************)
Containment(a, b) ==
  LET smaller == Min({Area(a), Area(b)})
  IN  IF smaller > 0 THEN <<IntersectionArea(a, b), smaller>> ELSE Zero

ClassKnown(region) == region.class >= 0 /\ region.label # ""

\* Two detections whose classes are known and differ.
Compatible(a, b) ==
  (a.kind = "kDetection" /\ b.kind = "kDetection" /\ ClassKnown(a.region) /\ ClassKnown(b.region))
    => a.region.class = b.region.class /\ a.region.label = b.region.label

AssociatedBy(a, b, options) ==
  IF AtLeast(Iou(a, b), options.iou) THEN {"kIou"}
  ELSE IF AtLeast(Containment(a, b), options.containment) THEN {"kContainment"}
  ELSE {}

\* Only the two items change their cluster, not those they brought along.
Unite_pairOnly(root, first, second) ==
  LET kept == Min({root[first], root[second]})
  IN  [root EXCEPT ![first] = kept, ![second] = kept]

\* Disjoint sets as the map to the smallest member, which is the root of the
\* code's parent links.
Unite(root, first, second) ==
  LET kept == Min({root[first], root[second]})
  IN  [i \in DOMAIN root |-> IF root[i] \in {root[first], root[second]} THEN kept ELSE root[i]]

PairOrder(n) ==
  LET pairs == {pair \in (1 .. n) \X (1 .. n) : pair[1] < pair[2]}
      before(a, b) == a[1] < b[1] \/ (a[1] = b[1] /\ a[2] < b[2])
  IN  SortedBy(pairs, {step \in pairs \X pairs : before(step[1], step[2])})

\* Pairs in id order; one that joins two clusters is recorded.
ScanPairs(working, options) ==
  LET Visit(state, pair) ==
        LET a == working[pair[1]]
            b == working[pair[2]]
            rule == AssociatedBy(a.bounds, b.bounds, options)
        IN  IF state.root[pair[1]] = state.root[pair[2]] \/ ~Compatible(a.item, b.item) \/ rule = {}
              THEN state
              ELSE [root |-> Unite(state.root, pair[1], pair[2]),
                    merges |-> Append(state.merges, [first |-> pair[1], second |-> pair[2], rule |-> rule])]
  IN  FoldLeft(Visit, [root |-> [i \in DOMAIN working |-> i], merges |-> <<>>], PairOrder(Len(working)))

(***************************************************************************)
(* Regions.                                                                *)
(***************************************************************************)
SourceWeight(item, options) ==
  LET ranking == <<"external", "ocr", "detector", "template">>
  IN  options.weights[ranking[Min({i \in DOMAIN ranking : ranking[i] \in item.source \/ i = 4})]]

TextOf(item) == IF item.kind \in {"kText", "kExternal"} THEN item.region.text ELSE <<>>

JoinedText(text, item) ==
  IF TextOf(item) = <<>> THEN text
  ELSE IF text = <<>> THEN TextOf(item)
  ELSE text \o <<"newline">> \o TextOf(item)

\* The detector's class or the platform's role, whichever comes first.
LabelOf(label, item) ==
  IF label = "" /\ item.kind \in {"kDetection", "kExternal"} THEN item.region.label ELSE label

SumOver(items, Amount(_)) == FoldLeft(LAMBDA sum, item : sum + Amount(item), 0, items)

AssembleRegion(members, working, options) ==
  LET items == [m \in DOMAIN members |-> working[members[m]].item]
      Weight(item) == SourceWeight(item, options)
      weights == SumOver(items, Weight)
      Weighted(item) == Weight(item) * EvidenceConfidence(item)
  IN  [bounds |-> FoldLeft(LAMBDA b, m : Union(b, working[m].bounds), working[Head(members)].bounds, Tail(members)),
       text |-> FoldLeft(JoinedText, <<>>, items),
       label |-> FoldLeft(LabelOf, "", items),
       source |-> UNION {items[m].source : m \in DOMAIN items},
       confidence |-> IF weights > 0 THEN <<SumOver(items, Weighted), weights>> ELSE Zero,
       ids |-> [m \in DOMAIN items |-> items[m].id]]

FusionOutput(working, options) ==
  LET scan == ScanPairs(working, options)
      found == {scan.root[i] : i \in DOMAIN working}
      roots == Ascending(found)
      Members(r) == Ascending({i \in DOMAIN working : scan.root[i] = r})
  IN  IF Len(roots) > options.max_regions THEN Failed("kBudgetExceeded")
      ELSE Ok([regions |-> [r \in DOMAIN roots |-> AssembleRegion(Members(roots[r]), working, options)],
               merges |-> [r \in DOMAIN roots |->
                             LET of == {k \in DOMAIN scan.merges : scan.root[scan.merges[k].first] = roots[r]}
                             IN  ElementsAt(scan.merges, of)]])

\* `stop' is the verdict of the context at the entry and between the stripes
\* of the scan.
FuseEvidence(items, image, options, stop) ==
  IF stop # "kOk" THEN Failed(stop)
  ELSE IF ~ValidFusionOptions(options) THEN Failed("kInvalidArgument")
  ELSE Then(WorkingItems(items, image, options), LAMBDA working : FusionOutput(working, options))
=============================================================================
