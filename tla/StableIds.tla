------------------------------ MODULE StableIds ------------------------------
(***************************************************************************)
(* StableIdTracker: one identity per fused region, carried over from frame *)
(* to frame by a gated greedy assignment.  The tracker is a record         *)
(*                                                                         *)
(*   previous  the regions of the last frame, [id, bounds, text]           *)
(*   next_id   the next identity to hand out                               *)
(*                                                                         *)
(* Regions are small enough for the distances between centers to be whole  *)
(* numbers (the diagonals are Pythagorean), so costs compare exactly.      *)
(***************************************************************************)
EXTENDS Texts, Orders, Functions

NewTracker == [previous |-> <<>>, next_id |-> 1]

ValidStableOptions(options) ==
  /\ AtLeast(options.iou, Zero) /\ AtLeast(One, options.iou)
  /\ AtLeast(options.center, Zero)
  /\ \A weight \in {options.weight_iou, options.weight_center, options.weight_text} : weight >= 0
  /\ options.weight_iou + options.weight_center + options.weight_text > 0
  /\ AtLeast(options.retention, Zero) /\ AtLeast(One, options.retention)
  /\ options.max_regions > 0

\* The signals that count: 1 - IoU, the displacement as a share of the gate's
\* radius, and the difference of the texts when both regions have one.
Cost(before, now, options) ==
  LET iou == Iou(before.bounds, now.bounds)
      shift == <<Root(CenterDistance2(before.bounds, now.bounds)) * options.center[2],
                 2 * options.center[1] * Root(Diagonal2(before.bounds))>>
      far == IF shift[2] > 0 THEN shift ELSE One
      same == TextSimilarity(before.text, now.text)
      text == IF before.text # <<>> /\ now.text # <<>> THEN options.weight_text ELSE 0
      weights == options.weight_iou + options.weight_center + text
  IN  <<options.weight_iou * (iou[2] - iou[1]) * far[2] * same[2]
          + options.weight_center * far[1] * iou[2] * same[2]
          + text * (same[2] - same[1]) * iou[2] * far[2],
        weights * iou[2] * far[2] * same[2]>>

\* displacement <= ratio * diagonal, squared.
NearEnough(before, now, options) ==
  CenterDistance2(before.bounds, now.bounds) * options.center[2] * options.center[2]
    <= 4 * options.center[1] * options.center[1] * Diagonal2(before.bounds)

Gated(before, now, options) ==
  AtLeast(Iou(before.bounds, now.bounds), options.iou) \/ NearEnough(before, now, options)

\* The pairs of the gate, cheapest first, without the regions that a confirmed
\* association has paired already.  A cost to which no weight applies (0 / 0) is
\* no number and compares with nothing.
CollectCandidates(previous, current, paired, options) ==
  LET pairs == {pair \in (DOMAIN previous) \X (DOMAIN current \ DOMAIN paired) :
                  Gated(previous[pair[1]], current[pair[2]], options)}
      cost == [pair \in pairs |-> Cost(previous[pair[1]], current[pair[2]], options)]
      Cheaper(a, b) ==
        /\ cost[a][2] > 0 /\ cost[b][2] > 0
        /\ \/ LessThan(cost[a], cost[b])
           \/ /\ SameRatio(cost[a], cost[b])
              /\ a[1] < b[1] \/ (a[1] = b[1] /\ a[2] < b[2])
  IN  SortedBy(pairs, {two \in pairs \X pairs : Cheaper(two[1], two[2])})

\* A match is a function from current to previous indices.
AssignGreedy(candidates, paired) ==
  LET Take(match, pair) ==
        IF pair[1] \in Range(match) \/ pair[2] \in DOMAIN match THEN match
        ELSE [c \in DOMAIN match \cup {pair[2]} |-> IF c = pair[2] THEN pair[1] ELSE match[c]]
  IN  FoldLeft(Take, paired, candidates)

\* A confirmed association is [region, id].
ValidAssociations(associations, current) ==
  /\ \A i \in DOMAIN associations :
       associations[i].id # 0 /\ associations[i].region \in DOMAIN current
  /\ \A i, j \in DOMAIN associations : i # j =>
       associations[i].region # associations[j].region /\ associations[i].id # associations[j].id

PreMatch(previous, associations) ==
  LET known == {a \in Range(associations) : \E p \in DOMAIN previous : previous[p].id = a.id}
  IN  [c \in {a.region : a \in known} |->
         CHOOSE p \in DOMAIN previous : \E a \in known : a.region = c /\ previous[p].id = a.id]

Assignments_reused(tracker, current, match) ==
  LET Fresh(c) == Cardinality({d \in 1 .. c - 1 : d \notin DOMAIN match})
      top == Max({0} \cup {tracker.previous[p].id : p \in DOMAIN tracker.previous})
  IN  [c \in DOMAIN current |->
         IF c \in DOMAIN match
           THEN [id |-> tracker.previous[match[c]].id, event |-> "kRetained"]
           ELSE [id |-> top + 1 + Fresh(c), event |-> "kNew"]]

\* Fresh identities follow the order of the current regions.
Assignments(tracker, current, match) ==
  LET Fresh(c) == Cardinality({d \in 1 .. c - 1 : d \notin DOMAIN match})
  IN  [c \in DOMAIN current |->
         IF c \in DOMAIN match
           THEN [id |-> tracker.previous[match[c]].id, event |-> "kRetained"]
           ELSE [id |-> tracker.next_id + Fresh(c), event |-> "kNew"]]

Lost(tracker, match) == DOMAIN tracker.previous \ Range(match)

\* New regions that swallowed two identities nobody carries on.
DetectMerges(tracker, current, match) ==
  {c \in DOMAIN current \ DOMAIN match :
     Cardinality({p \in Lost(tracker, match) :
       CenterInside(current[c].bounds, tracker.previous[p].bounds)}) >= 2}

\* A lost identity hosts two new regions; one that became the child of another
\* is no longer new.
Split(inside, state, p) ==
  LET children == inside[p] \ state.children
  IN  IF p \in DOMAIN inside /\ Cardinality(children) >= 2
        THEN [children |-> state.children \cup children, count |-> state.count + 1]
        ELSE state

\* The lost identities, one after the other.
DetectSplits(tracker, current, match, merged) ==
  LET new == DOMAIN current \ (DOMAIN match \cup merged)
      inside == [p \in Lost(tracker, match) |->
                   {c \in new : CenterInside(tracker.previous[p].bounds, current[c].bounds)}]
  IN  FoldLeftDomain(LAMBDA state, p : Split(inside, state, p), [children |-> {}, count |-> 0],
                     tracker.previous)

GenerationBump_byLossOnly(tracker, match, merged, splits, options) ==
  /\ tracker.previous # <<>>
  /\ LessThan(<<Cardinality(DOMAIN match), Len(tracker.previous)>>, options.retention)

GenerationBump(tracker, match, merged, splits, options) ==
  \/ splits.count > 0 \/ merged # {}
  \/ /\ tracker.previous # <<>>
     /\ LessThan(<<Cardinality(DOMAIN match), Len(tracker.previous)>>, options.retention)

AdvanceFaults == {"none", "work", "commit"}
Unadvanced(tracker, status) ==
  [status |-> status, tracker |-> tracker, assignments |-> <<>>, bump |-> FALSE]

\* What a region is reported as; the children of a split are never merged.
Events(named, merged, splits) ==
  [c \in DOMAIN named |->
     IF c \in merged THEN [named[c] EXCEPT !.event = "kMerged"]
     ELSE IF c \in splits.children THEN [named[c] EXCEPT !.event = "kSplitChild"]
     ELSE named[c]]

\* The identities that were handed out stay spent when the allocation that
\* fills the cleared frame again fails ("commit"): the previous frame is gone.
Commit(tracker, current, match, fault, assigned, bump) ==
  LET spent == tracker.next_id + Cardinality(DOMAIN current \ DOMAIN match)
      Carried(c) == [id |-> assigned[c].id, bounds |-> current[c].bounds, text |-> current[c].text]
  IN  IF fault = "commit" THEN Unadvanced([previous |-> <<>>, next_id |-> spent], "kBudgetExceeded")
      ELSE [status |-> "kOk",
            tracker |-> [previous |-> [c \in DOMAIN current |-> Carried(c)], next_id |-> spent],
            assignments |-> assigned, bump |-> bump]

\* The regions are matched, and what remains on both sides merged or split.
Matched(tracker, current, paired, options) ==
  AssignGreedy(CollectCandidates(tracker.previous, current, paired, options), paired)

Transition(tracker, current, match, merged, splits, options, fault) ==
  Commit(tracker, current, match, fault,
         Events(Assignments(tracker, current, match), merged, splits),
         GenerationBump(tracker, match, merged, splits, options))

Reassigned(tracker, current, match, options, fault) ==
  LET merged == DetectMerges(tracker, current, match)
  IN  Transition(tracker, current, match, merged, DetectSplits(tracker, current, match, merged), options, fault)

\* advance().  `stop' is the verdict of the context when it is asked, "kOk" to
\* go on; an allocation may fail before anything is written ("work") or later.
Advance(tracker, regions, options, stop, associations, fault) ==
  LET current == [c \in DOMAIN regions |->
                    [bounds |-> regions[c].bounds, text |-> NormalizedText(regions[c].text)]]
  IN  IF stop # "kOk" THEN Unadvanced(tracker, stop)
      ELSE IF ~ValidStableOptions(options) THEN Unadvanced(tracker, "kInvalidArgument")
      ELSE IF Len(regions) > options.max_regions THEN Unadvanced(tracker, "kBudgetExceeded")
      ELSE IF ~ValidAssociations(associations, current) THEN Unadvanced(tracker, "kInvalidArgument")
      ELSE IF fault = "work" THEN Unadvanced(tracker, "kBudgetExceeded")
      ELSE Reassigned(tracker, current,
                      Matched(tracker, current, PreMatch(tracker.previous, associations), options), options, fault)
=============================================================================
