------------------------------ MODULE Attention ------------------------------
(***************************************************************************)
(* Where the coordinator of continuous_perception.cpp looks next:          *)
(* plan_attention turns the conditions of the engaged policy into work on  *)
(* rectangles of the snapshot, and the changes outside of that work into   *)
(* reconsiderations.                                                       *)
(*                                                                         *)
(* A condition is [roi, space, bind, id, generation, text, label] with ""  *)
(* for no text and no label, the tracker's pool a function from the ids it *)
(* knows to [state, bounds].  The states and the spans of the entities are *)
(* the business of ContinuousPerception.                                   *)
(***************************************************************************)
EXTENDS Relations

HasRoi(condition) == condition.roi.w > 0 /\ condition.roi.h > 0
HasSemantics(condition) == condition.text # "" \/ condition.label # ""

ValidateCondition(condition) ==
  IF /\ condition.bind \/ HasRoi(condition) \/ HasSemantics(condition)
     /\ UsableRect(condition.roi)
     /\ condition.bind => condition.id # 0
    THEN "kOk" ELSE "kInvalidArgument"

(***************************************************************************)
(* Conversion.  Unlike SpaceConversion the size of the image is taken for  *)
(* that of the raw capture.                                                *)
(***************************************************************************)
CyclesRotation(image) == MakeRotation(image.rotation, image.w, image.h, "kFrame", "kOriented")

ConvertPlanRect(rect, from, to, image) ==
  CASE from = to -> Ok(rect)
    [] from = "kFrame" /\ to = "kOriented" -> Ok(TransformRect(CyclesRotation(image), rect))
    [] from = "kOriented" /\ to = "kFrame" ->
         Then(Inverse2D(CyclesRotation(image)), LAMBDA back : Ok(TransformRect(back, rect)))
    [] OTHER -> Failed("kInvalidArgument")

FullFrameRect(image, space) ==
  LET size == IF space = "kOriented" THEN OrientedSize(image.rotation, image.w, image.h)
              ELSE <<image.w, image.h>>
  IN  Rect(0, 0, size[1], size[2])

(***************************************************************************)
(* Focus.                                                                  *)
(***************************************************************************)
Unresolved(reason) == Ok([resolved |-> FALSE, reason |-> reason])
Focus(id, roi, space) == Ok([resolved |-> TRUE, id |-> id, roi |-> roi, space |-> space])

\* The first criterion a condition has decides; the first region that meets it
\* is the focus.
ResolveAttentionFocus(condition, snapshot) ==
  LET First(Meets(_), otherwise) ==
        LET meeting == {i \in DOMAIN snapshot.regions : Meets(snapshot.regions[i])}
            region == snapshot.regions[Min(meeting)]
        IN  IF meeting = {} THEN Unresolved(otherwise) ELSE Focus(region.id, region.bounds, snapshot.space)
  IN  IF ValidateCondition(condition) # "kOk" THEN Failed("kInvalidArgument")
      ELSE IF condition.bind
        THEN IF snapshot.generation # condition.generation THEN Unresolved("kStaleGeneration")
             ELSE First(LAMBDA region : region.id = condition.id, "kUnknownStableId")
      ELSE IF HasSemantics(condition)
        THEN First(LAMBDA region : /\ condition.text \in {"", region.text}
                                   /\ condition.label \in {"", region.label}, "kNotObserved")
      ELSE Focus(0, condition.roi, condition.space)

\* An identity that the snapshot does not show is looked up in the pool.
ResolveFocus(condition, snapshot, pool) ==
  LET seen == ResolveAttentionFocus(condition, snapshot)
      Unknown == seen.status = "kOk" /\ ~seen.value.resolved /\ seen.value.reason = "kUnknownStableId"
  IN  IF ~Unknown \/ condition.id \notin DOMAIN pool \/ pool[condition.id].state = "kTerminated" THEN seen
      ELSE IF pool[condition.id].state = "kLost" THEN Unresolved("kMissingLocalization")
      ELSE Focus(condition.id, pool[condition.id].bounds, "kOriented")

(***************************************************************************)
(* The plan.                                                               *)
(***************************************************************************)
ValidatePlanInput(snapshot, image) ==
  IF /\ snapshot.space \in {"kFrame", "kOriented"}
     /\ image.w > 0 /\ image.h > 0
     /\ \A i \in DOMAIN snapshot.regions :
          snapshot.regions[i].bounds.w > 0 /\ snapshot.regions[i].bounds.h > 0
    THEN "kOk" ELSE "kInvalidArgument"

\* Only what the caller authorised makes the whole frame work.
FocusWork(focus, at, snapshot, image, bootstrap) ==
  IF focus.resolved
    THEN Then(ConvertPlanRect(focus.roi, focus.space, snapshot.space, image), LAMBDA roi :
           Ok({[kind |-> "kFocus", roi |-> roi, id |-> focus.id, condition |-> at]}))
  ELSE IF focus.reason = "kNotObserved" /\ bootstrap
    THEN Ok({[kind |-> "kBootstrap", roi |-> FullFrameRect(image, snapshot.space), id |-> 0, condition |-> at]})
  ELSE Ok({})

\* One work item at most per condition; the first that fails refuses the plan.
\* Fewer than 64 conditions: the context is polled once.
AppendFocusWork(conditions, snapshot, image, bootstrap, pool, stop) ==
  LET Resolve(plan, at) ==
        Then(plan, LAMBDA made :
        Then(ResolveFocus(conditions[at], snapshot, pool), LAMBDA focus :
        Then(FocusWork(focus, at, snapshot, image, bootstrap), LAMBDA work :
          Ok([resolutions |-> Append(made.resolutions, focus), work |-> made.work \cup work]))))
  IN  IF conditions # <<>> /\ stop # "kOk" THEN Failed(stop)
      ELSE FoldLeftDomain(Resolve, Ok([resolutions |-> <<>>, work |-> {}]), conditions)

\* All work has the priority of the call, so the kind and the condition decide.
InPlanOrder(work) ==
  SetToSortSeq(work, LAMBDA a, b :
    \/ a.kind = "kFocus" /\ b.kind = "kBootstrap"
    \/ a.kind = b.kind /\ a.condition < b.condition)

IntersectsAnyFocus(roi, work) ==
  \E item \in work : item.kind = "kFocus" /\ IntersectionArea(roi, item.roi) > 0

\* A snapshot carries the classification and the regions of a change report.
Reconsiderations(snapshot, image, work, stop) ==
  LET Consider(found, region) ==
        Then(found, LAMBDA records :
        Then(ConvertPlanRect(region, "kFrame", snapshot.space, image), LAMBDA roi :
          Ok(IF IntersectsAnyFocus(roi, work) THEN records
             ELSE Append(records, [region |-> roi, global |-> FALSE]))))
  IN  CASE snapshot.change = "kNone" -> Ok(<<>>)
        [] snapshot.change = "kGlobal" ->
             Ok(<<[region |-> FullFrameRect(image, snapshot.space), global |-> TRUE]>>)
        [] snapshot.change = "kPartial" ->
             IF snapshot.changed # <<>> /\ stop # "kOk" THEN Failed(stop)
             ELSE FoldLeft(Consider, Ok(<<>>), snapshot.changed)

PlanAttention(conditions, snapshot, image, bootstrap, pool, stops) ==
  IF ValidatePlanInput(snapshot, image) # "kOk" THEN Failed("kInvalidArgument")
  ELSE Then(AppendFocusWork(conditions, snapshot, image, bootstrap, pool, stops[1]), LAMBDA made :
       Then(Reconsiderations(snapshot, image, made.work, stops[2]), LAMBDA records :
         Ok([resolutions |-> made.resolutions, work |-> InPlanOrder(made.work), reconsiderations |-> records])))
=============================================================================
