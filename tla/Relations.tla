------------------------------ MODULE Relations ------------------------------
(***************************************************************************)
(* The relation view of continuous_perception.cpp: the regions of a        *)
(* snapshot become entities, duplicates are absorbed by the first of them, *)
(* and every pair of entities that overlaps gets one relation.             *)
(*                                                                         *)
(* A region is [id, bounds, text, label, confidence, source, evidence] and *)
(* a snapshot [generation, space, regions, change].  The size of a view is *)
(* counted in records and references instead of bytes.                     *)
(***************************************************************************)
EXTENDS Fusion

(***************************************************************************)
(* The rule for a pair.                                                    *)
(***************************************************************************)
SizeRatio(a, b) ==
  LET larger == Max({Area(a), Area(b)})
  IN  IF larger > 0 THEN <<Min({Area(a), Area(b)}), larger>> ELSE Zero

DuplicateGeometry(a, b, rule) ==
  \/ AtLeast(Iou(a, b), rule.duplicate_iou)
  \/ /\ AtLeast(Containment(a, b), rule.duplicate_containment)
     /\ LessThan(rule.part_of_size, SizeRatio(a, b))

PartOfGeometry(a, b, rule) ==
  /\ AtLeast(Containment(a, b), rule.part_of_containment)
  /\ AtLeast(rule.part_of_size, SizeRatio(a, b))

ClassifyEntityRelation(a, b, compatible, reliable, rule) ==
  IF IntersectionArea(a, b) = 0 THEN "kNone"
  ELSE IF DuplicateGeometry(a, b, rule)
    THEN (CASE ~compatible -> "kConflict"
            [] compatible /\ reliable -> "kDuplicate"
            [] OTHER -> "kOverlap")
  ELSE IF PartOfGeometry(a, b, rule) /\ compatible THEN "kPartOf"
  ELSE "kOverlap"

\* Two claims contradict each other when both are made and differ.
EntitySemanticsCompatible(a, b) ==
  /\ a.label # "" /\ b.label # "" => a.label = b.label
  /\ a.text # "" /\ b.text # "" => a.text = b.text

RelationOf(a, b, options) ==
  ClassifyEntityRelation(a.bounds, b.bounds, EntitySemanticsCompatible(a, b),
    a.confidence >= options.min_merge /\ b.confidence >= options.min_merge, options.rule)

(***************************************************************************)
(* The view.                                                               *)
(***************************************************************************)
UsableRect(rect) == rect.w >= 0 /\ rect.h >= 0

ValidateRelationViewInput(options, snapshot, caps) ==
  FirstFailure(<<
    Requires(Min({options.max_entities, options.max_relations, options.max_size}) > 0, "kInvalidArgument"),
    Requires(options.max_entities <= caps.entities /\ options.max_relations <= caps.relations
               /\ options.max_size <= caps.size, "kBudgetExceeded"),
    Requires(options.min_merge \in 0 .. 100, "kInvalidArgument"),
    Requires(options.generation \subseteq {snapshot.generation}, "kInvalidArgument"),
    Requires(\A i \in DOMAIN snapshot.regions : UsableRect(snapshot.regions[i].bounds), "kInvalidArgument")>>)

\* Star-shaped groups: a region joins the first group whose anchor, its first
\* member, it duplicates, and otherwise becomes an anchor.
GroupDuplicates(regions, options) ==
  LET Join(groups, j) ==
        LET Takes(g) == RelationOf(regions[Head(groups[g])], regions[j], options) = "kDuplicate"
            taking == {g \in DOMAIN groups : Takes(g)}
        IN  IF taking = {} THEN Append(groups, <<j>>)
            ELSE [groups EXCEPT ![Min(taking)] = Append(@, j)]
  IN  FoldLeftDomain(Join, <<>>, regions)

\* The anchor decides; identity, sources and evidence come from all members.
KeptEntity(regions, group) ==
  LET members == {regions[i] : i \in ToSet(group)}
      ids == {member.id : member \in members} \ {0}
  IN  [bounds |-> regions[Head(group)].bounds,
       confidence |-> regions[Head(group)].confidence,
       id |-> IF ids = {} THEN 0 ELSE Min(ids),
       source |-> UNION {member.source : member \in members},
       evidence |-> UNION {member.evidence : member \in members}]

Record(kind, first, second, merged) ==
  [kind |-> kind, first |-> first, second |-> second, merged |-> merged]

DuplicateRecords(groups) ==
  LET absorbing == SelectSeq([e \in DOMAIN groups |-> e], LAMBDA e : Len(groups[e]) >= 2)
  IN  [k \in DOMAIN absorbing |->
         Record("kDuplicateEvidence", absorbing[k], absorbing[k], Tail(groups[absorbing[k]]))]

\* A part comes before its whole, the smaller area before the larger one.
PairRelations(regions, groups, options) ==
  LET Anchor(e) == regions[Head(groups[e])]
      Kind(pair) == RelationOf(Anchor(pair[1]), Anchor(pair[2]), options)
      Smaller(p, q) == Area(Anchor(p).bounds) < Area(Anchor(q).bounds)
      Edge(pair) ==
        IF Kind(pair) = "kPartOf" /\ Smaller(pair[2], pair[1])
        THEN Record("kPartOf", pair[2], pair[1], <<>>)
        ELSE Record(Kind(pair), pair[1], pair[2], <<>>)
      related == SelectSeq(PairOrder(Len(groups)),
                           LAMBDA pair : Kind(pair) \in {"kPartOf", "kOverlap", "kConflict"})
  IN  [k \in DOMAIN related |-> Edge(related[k])]

RelationViewSize(view) ==
  1 + SumOver(view.entities, LAMBDA e : 1 + Cardinality(e.evidence))
    + SumOver(view.relations, LAMBDA r : 1 + Len(r.merged))

ViewOf(snapshot, groups, relations) ==
  [space |-> snapshot.space,
   entities |-> [e \in DOMAIN groups |-> KeptEntity(snapshot.regions, groups[e])],
   relations |-> relations]

\* Fewer than 64 entities: the pairs poll the context once, before the first.
ViewFailure(view, options, stop) ==
  LET duplicates == SelectSeq(view.relations, LAMBDA r : r.kind = "kDuplicateEvidence")
  IN  FirstFailure(<<
        Requires(Len(view.entities) <= options.max_entities, "kBudgetExceeded"),
        Requires(Len(duplicates) <= options.max_relations, "kBudgetExceeded"),
        Requires(view.entities = <<>> \/ stop = "kOk", stop),
        Requires(Len(view.relations) <= options.max_relations, "kBudgetExceeded"),
        Requires(RelationViewSize(view) <= options.max_size, "kBudgetExceeded")>>)

Grouped(snapshot, groups, options) ==
  ViewOf(snapshot, groups, DuplicateRecords(groups) \o PairRelations(snapshot.regions, groups, options))

BuildRelationView(snapshot, options, caps, stop) ==
  LET validated == ValidateRelationViewInput(options, snapshot, caps)
      Checked(view) == LET failure == ViewFailure(view, options, stop)
                       IN  IF failure = "kOk" THEN Ok(view) ELSE Failed(failure)
  IN  IF validated # "kOk" THEN Failed(validated)
      ELSE Checked(Grouped(snapshot, GroupDuplicates(snapshot.regions, options), options))

\* The library's own check of a view; the ids of the records are their places.
RelationViewConsistent(view) ==
  \A k \in DOMAIN view.relations :
    LET r == view.relations[k]
    IN  /\ {r.first, r.second} \subseteq DOMAIN view.entities
        /\ \A i, j \in DOMAIN r.merged : i < j => r.merged[i] < r.merged[j]
        /\ IF r.kind = "kDuplicateEvidence" THEN r.merged # <<>>
           ELSE r.merged = <<>> /\ r.first # r.second
        /\ r.kind = "kPartOf" =>
             Area(view.entities[r.first].bounds) <= Area(view.entities[r.second].bounds)

\* What the coordinator keeps of a view: which identity is part of which.  A
\* view that could not be built counts as one without parts, unless the call
\* was stopped.
CollectPartOfEdges(view) ==
  LET Id(e) == view.value.entities[e].id
      parts == SelectSeq(view.value.relations,
                         LAMBDA r : r.kind = "kPartOf" /\ Id(r.first) # 0 /\ Id(r.second) # 0)
  IN  IF view.status \in {"kCancelled", "kTimeout"} THEN view
      ELSE IF view.status # "kOk" THEN Ok({})
      ELSE Ok({<<Id(parts[k].first), Id(parts[k].second)>> : k \in DOMAIN parts})
=============================================================================
