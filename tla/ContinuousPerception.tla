------------------------ MODULE ContinuousPerception ------------------------
(***************************************************************************)
(* The continuous-perception coordinator of                                *)
(* fusion/continuous_perception.cpp: it plans the work of a cycle and      *)
(* binds it to tokens, accepts finished work into the coverage ledger,     *)
(* moves the tracked entities by validated observations, and queues the    *)
(* semantic events a consumer drains.                                      *)
(*                                                                         *)
(* One action stands for one public call.  A call that fails before it     *)
(* changes anything is a stuttering step; the failures that leave a trace  *)
(* are actions of their own (PlanCutShort, PlanLosesEdges, AcceptRejects). *)
(*                                                                         *)
(* A rectangle is the set of cells it covers; all rectangles are in one    *)
(* coordinate space.  A content digest is the content itself.  The source  *)
(* id is fixed.  Byte sizes are abstracted: a call whose byte gate may     *)
(* refuse it may fail, and the room the byte budget leaves the event queue *)
(* is an input of the cycle.  The ledger and the batches stay below 64     *)
(* entries, so a scan polls for cancellation only before its first entry.  *)
(***************************************************************************)
EXTENDS TemporalEntity, FiniteSets, SequencesExt

CONSTANTS
  Ids,               \* stable ids of the fused regions
  Cells,             \* cells of the frame
  Origin,            \* the cell an empty rectangle at (0, 0) lies in
  Cycles,            \* what a caller may hand to plan_cycle
  Policies,          \* attention policies a caller may engage
  MaxEntities, MaxEvents, MaxCoverage,
  ReplanFrames,      \* may a planned frame be planned again, under other inputs?
  MaxFrame,          \* bound: frames of a run, over all its epochs
  MaxEpoch, MaxRevision, MaxRejections   \* bounds of a run

ASSUME IdsAssumption == Ids \subseteq Nat \ {0}
ASSUME FrameAssumption == Origin \in Cells
ASSUME LimitsAssumption ==
  /\ {MaxEntities, MaxEvents, MaxCoverage, MaxEpoch} \subseteq Nat \ {0}
  /\ {MaxFrame, MaxRevision, MaxRejections} \subseteq Nat
  /\ ReplanFrames \in BOOLEAN
\* A snapshot shows an identity once, inside the frame.
ASSUME CyclesAssumption ==
  \A cycle \in Cycles :
    /\ cycle.regions \in Seq(ToSet(cycle.regions))
    /\ \A region \in ToSet(cycle.regions) :
         region.id \in Ids \cup {0} /\ region.bounds \subseteq Cells
    /\ \A i, j \in DOMAIN cycle.regions :
         cycle.regions[i].id = cycle.regions[j].id => i = j \/ cycle.regions[i].id = 0
    /\ {cycle.generation, cycle.room} \subseteq Nat
    /\ {cycle.notify, cycle.hierarchy} \subseteq BOOLEAN
ASSUME PoliciesAssumption ==
  \A conditions \in Policies :
    /\ conditions \in Seq(ToSet(conditions))
    /\ \A condition \in ToSet(conditions) : condition.by \in {"id", "text", "roi"}

VARIABLES
  epoch,             \* epoch_
  policy,            \* policy_: its conditions, or NoPolicy
  policy_revision,   \* policy_revision_
  inflight,          \* inflight_
  coverage,          \* coverage_
  rejections,        \* the sum of rejection_counts_
  planned,           \* planned_frame_sequence_, planned_generation_
  resync_pending,    \* resync_pending_
  entities,          \* entities_, by stable id
  pending,           \* pending_: its frame and the items that wait for a token
  advanced,          \* plan_advanced_frame_, accept_advanced_frame_
  notify_enabled,    \* notify_enabled_
  events,            \* events_
  event_sequence,    \* event_sequence_
  dropped_events,    \* dropped_events_
  last,              \* last_observed_, last_confirmed_, last_published_frame_
  untracked,         \* untracked_entities_
  caller,            \* the caller: its clock, its tokens, what it was told
  consumer           \* the consumer of the events: what it has drained

coordinatorVars == <<epoch, policy, policy_revision, inflight, coverage, rejections,
                     planned, resync_pending, entities, pending, advanced,
                     notify_enabled, events, event_sequence, dropped_events, last,
                     untracked>>
vars == <<coordinatorVars, caller, consumer>>

eventVars == <<events, event_sequence, dropped_events, last>>

NoPolicy == <<>>
NoPending == [frame |-> 0, items |-> <<>>]
NoFrames == [observed |-> 0, confirmed |-> 0, published |-> 0]

Larger(a, b) == IF a < b THEN b ELSE a

\* The elements of a sequence that pass a test, in their order (SelectSeq, which
\* proofs cannot expand).
Only(seq, Test(_)) ==
  FlattenSeq([i \in DOMAIN seq |-> IF Test(seq[i]) THEN <<seq[i]>> ELSE <<>>])

\* A finite set of ids in ascending order.
InOrder(ids) ==
  CHOOSE order \in [1 .. Cardinality(ids) -> ids] :
    \A i, j \in DOMAIN order : i < j => order[i] < order[j]

-----------------------------------------------------------------------------
(* Geometry and pixels *)

RectContains(roi, rect) == IF rect = {} THEN Origin \in roi ELSE rect \subseteq roi
Intersects(a, b) == a \cap b # {}
Digest(content, roi) == [cell \in roi |-> content[cell]]

Covered(ledger, rect) == \E entry \in ledger : RectContains(entry.roi, rect)

RegionIds(cycle) == {cycle.regions[i].id : i \in DOMAIN cycle.regions} \ {0}

-----------------------------------------------------------------------------
(* The attention plan *)

\* An id condition falls back from the snapshot to the tracker's position.
FocusOnId(condition, cycle) ==
  LET seen == Only(cycle.regions, LAMBDA region : region.id = condition.id)
  IN  IF cycle.generation # condition.generation THEN "kStaleGeneration"
      ELSE IF seen # <<>> THEN "kResolved"
      ELSE CASE cycle.tracks[condition.id].state = "kActive" -> "kTracked"
             [] cycle.tracks[condition.id].state = "kLost"   -> "kMissingLocalization"
             [] OTHER                                        -> "kUnknownStableId"

FocusWork(roi) == <<[kind |-> "kFocus", roi |-> roi]>>

\* The work one condition asks for; a text nobody shows asks for the whole
\* frame when the caller authorizes it.
WorkFor(condition, cycle) ==
  LET Showing(text) == Only(cycle.regions, LAMBDA region : region.look.text = text)
      OfId(id) == Only(cycle.regions, LAMBDA region : region.id = id)
  IN  CASE condition.by = "id" ->
             (CASE FocusOnId(condition, cycle) = "kResolved" ->
                     FocusWork(OfId(condition.id)[1].bounds)
                [] FocusOnId(condition, cycle) = "kTracked" ->
                     FocusWork(cycle.tracks[condition.id].bounds)
                [] OTHER -> <<>>)
        [] condition.by = "text" ->
             (IF Showing(condition.text) # <<>>
              THEN FocusWork(Showing(condition.text)[1].bounds)
              ELSE IF cycle.bootstrap THEN <<[kind |-> "kBootstrap", roi |-> Cells]>>
              ELSE <<>>)
        [] condition.by = "roi" -> FocusWork(condition.roi)

\* Focus work before bootstrap work, each in the order of the conditions.
AttentionWork(cycle) ==
  LET work == FlattenSeq([i \in DOMAIN policy |-> WorkFor(policy[i], cycle)])
      Of(kind) == Only(work, LAMBDA w : w.kind = kind)
  IN  Of("kFocus") \o Of("kBootstrap")

-----------------------------------------------------------------------------
(* Coverage *)

StillValid(entry, cycle) ==
  /\ entry.generation = cycle.generation
  /\ entry.request = cycle.request
  /\ entry.revision = policy_revision
  /\ ~Intersects(entry.roi, cycle.changed)
  /\ entry.content = Digest(cycle.content, entry.roi)

\* The ledger after the re-verification that opens a cycle.
Refreshed(cycle) ==
  IF cycle.global THEN {} ELSE {entry \in coverage : StillValid(entry, cycle)}

ResyncAfterRefresh(cycle) == resync_pending \/ (cycle.global /\ coverage # {})

\* The work the ledger does not already answer, with its binding tokens.
Issued(cycle, frame) ==
  LET ledger == Refreshed(cycle)
      Needed(work) == work.kind = "kFocus" => ~Covered(ledger, work.roi)
      Token(work) == [epoch |-> epoch, frame |-> frame, generation |-> cycle.generation,
                      revision |-> policy_revision, request |-> cycle.request,
                      roi |-> work.roi, content |-> Digest(cycle.content, work.roi)]
      needed == Only(AttentionWork(cycle), Needed)
  IN  [i \in DOMAIN needed |-> Token(needed[i])]

IssueFits(ledger, tokens) == Cardinality(ledger) + Len(tokens) <= MaxCoverage

-----------------------------------------------------------------------------
(* Entities *)

\* Mutant: any entity may give way at the cap.
ClosedIdsIgnoresLifecycles(population) == DOMAIN population
ClosedIds(population) == {id \in DOMAIN population : ~population[id].open}

LeastOf(S) == CHOOSE x \in S : \A y \in S : x <= y

Without(population, id) == [i \in DOMAIN population \ {id} |-> population[i]]

\* Looks up or creates an entity; at the cap the closed one with the least id
\* gives way, and without a closed one the new identity is refused.
Ensured(population, id) ==
  LET full == Cardinality(DOMAIN population) >= MaxEntities
      closed == ClosedIds(population)
      With(p) == [i \in DOMAIN p \cup {id} |-> IF i = id THEN NewEntity ELSE p[i]]
  IN  IF id \in DOMAIN population THEN [population |-> population, lost |-> 0]
      ELSE IF ~full THEN [population |-> With(population), lost |-> 0]
      ELSE IF closed # {}
      THEN [population |-> With(Without(population, LeastOf(closed))), lost |-> 1]
      ELSE [population |-> population, lost |-> 1]

\* The first issued work whose region contains `rect'; 0 when there is none.
CoveringWork(tokens, rect) ==
  LET covering == {i \in DOMAIN tokens : RectContains(tokens[i].roi, rect)}
  IN  IF covering = {} THEN 0 ELSE LeastOf(covering)

PresentItem(region, cycle, ledger, tokens) ==
  LET covered == Covered(ledger, region.bounds)
  IN  [id |-> region.id, channel |-> "present", covered |-> covered,
       work |-> IF covered THEN 0 ELSE CoveringWork(tokens, region.bounds),
       freshness |-> IF covered THEN "kValidatedReuse" ELSE "kFresh",
       generation |-> cycle.generation, bounds |-> region.bounds,
       look |-> [region.look EXCEPT !.parents = IF cycle.hierarchy THEN @ ELSE {}]]

\* Tracker loss first; an occluder or an active track keeps the identity; only
\* a bare miss advances the disappearance channel.
AbsenceChannel(id, bounds, cycle) ==
  LET state == cycle.tracks[id].state
      occluder == \E i \in DOMAIN cycle.regions : Intersects(cycle.regions[i].bounds, bounds)
      retained == occluder \/ state = "kActive"
  IN  CASE state = "kLost" -> "lost"
        [] state # "kLost" /\ retained -> "occluded"
        [] OTHER -> "missing"

AbsentItem(id, bounds, cycle, ledger, tokens) ==
  LET covered == Covered(ledger, bounds)
  IN  [id |-> id, channel |-> AbsenceChannel(id, bounds, cycle), covered |-> covered,
       work |-> IF covered THEN 0 ELSE CoveringWork(tokens, bounds)]

\* The entity after the cycle looked at it: covered items count now, items
\* that wait for a token count when the token is adopted.
Looked(item, entity, frame) ==
  IF item.covered THEN Advance(item.id, entity, item, frame)
  ELSE IF item.work = 0 THEN Outcome(Uncovered(entity), <<>>)
  ELSE Outcome(entity, <<>>)

\* One item of the cycle: what it does to the population, and what it adds to
\* the changes and to the items that wait.
Recorded(scene, acc, item) ==
  LET looked == Looked(item, acc.population[item.id], scene.frame)
  IN  [population |-> IF scene.counts
                      THEN [acc.population EXCEPT ![item.id] = looked.entity]
                      ELSE acc.population,
       changes |-> IF scene.counts THEN acc.changes \o looked.changes ELSE acc.changes,
       waiting |-> IF item.work # 0 THEN Append(acc.waiting, item) ELSE acc.waiting,
       items |-> Append(acc.items, item),
       lost |-> acc.lost]

\* A region of the snapshot; an identity there is no place for is passed over.
RecordPresent(scene, acc, region) ==
  LET ensured == Ensured(acc.population, region.id)
      tracked == [population |-> ensured.population, changes |-> acc.changes,
                  waiting |-> acc.waiting, items |-> acc.items,
                  lost |-> acc.lost + ensured.lost]
  IN  IF region.id = 0 THEN acc
      ELSE IF region.id \notin DOMAIN ensured.population THEN tracked
      ELSE Recorded(scene, tracked, PresentItem(region, scene.cycle, scene.ledger, scene.tokens))

\* An entity the snapshot does not show.
RecordAbsent(scene, acc, id) ==
  Recorded(scene, acc,
           AbsentItem(id, acc.population[id].bounds, scene.cycle, scene.ledger, scene.tokens))

\* The snapshot's regions in their order, then the entities it does not show
\* in the order of their ids.
CycleObservation(cycle, ledger, tokens, frame) ==
  LET scene == [cycle |-> cycle, ledger |-> ledger, tokens |-> tokens, frame |-> frame,
                counts |-> frame > advanced.plan]
      start == [population |-> entities, changes |-> <<>>, waiting |-> <<>>,
                items |-> <<>>, lost |-> 0]
      shown == FoldLeft(LAMBDA acc, region : RecordPresent(scene, acc, region),
                        start, cycle.regions)
      seen == {shown.items[i].id : i \in DOMAIN shown.items}
  IN  FoldLeft(LAMBDA acc, id : RecordAbsent(scene, acc, id),
               shown, InOrder(DOMAIN shown.population \ seen))

-----------------------------------------------------------------------------
(* Events *)

\* Mutant: an event that finds the queue full is forgotten.
PublishForgetsIncoming(changes, room) ==
  LET numbered == [i \in DOMAIN changes |->
                     [seq |-> event_sequence + i, epoch |-> epoch, change |-> changes[i]]]
      queue == events \o numbered
      space == Min2(MaxEvents, room)
  IN  /\ events' = SubSeq(queue, 1, Min2(Len(queue), Larger(space, Len(events))))
      /\ event_sequence' = event_sequence + Len(changes)
      /\ UNCHANGED dropped_events

\* Mutant: the queue takes one event more than its cap.
PublishOneTooMany(changes, room) ==
  LET numbered == [i \in DOMAIN changes |->
                     [seq |-> event_sequence + i, epoch |-> epoch, change |-> changes[i]]]
      queue == events \o numbered
      excess == Larger(0, Len(queue) - (Min2(MaxEvents, room) + 1))
  IN  /\ events' = SubSeq(queue, excess + 1, Len(queue))
      /\ event_sequence' = event_sequence + Len(changes)
      /\ dropped_events' = dropped_events + excess

\* Confirmed changes leave as events, numbered, under the current epoch.  The
\* queue keeps its newest `room' events; what falls out is counted and asks
\* for a resync.
Publish(changes, room) ==
  LET numbered == [i \in DOMAIN changes |->
                     [seq |-> event_sequence + i, epoch |-> epoch, change |-> changes[i]]]
      queue == events \o numbered
      space == Min2(MaxEvents, room)
      excess == IF changes = <<>> \/ Len(queue) <= space THEN 0 ELSE Len(queue) - space
  IN  /\ events' = SubSeq(queue, excess + 1, Len(queue))
      /\ event_sequence' = event_sequence + Len(changes)
      /\ dropped_events' = dropped_events + excess

\* Mutant: the queue is measured before the new events join it.
OverflowsTooLate(changes, room) == changes # <<>> /\ Len(events) > Min2(MaxEvents, room)
Overflows(changes, room) ==
  changes # <<>> /\ Len(events) + Len(changes) > Min2(MaxEvents, room)

Notifiable(changes, enabled) == IF enabled THEN changes ELSE <<>>

\* The aggregate frames: what was observed, confirmed and published last.  A
\* disappearance does not count as a confirmation advance.
NoteFrames(observes, changes, published, frame) ==
  LET confirms == \E i \in DOMAIN changes : changes[i].kind # "kDisappeared"
      Note(happens, old) == IF happens THEN Larger(old, frame) ELSE old
  IN  last' = [observed  |-> Note(observes, last.observed),
               confirmed |-> Note(confirms, last.confirmed),
               published |-> Note(published, last.published)]

Ends(ids) ==
  LET Closed(id) == [kind |-> "kSourceReset", id |-> id, instance |-> entities[id].instance,
                     observed |-> 0, confirmed |-> 0]
      order == InOrder(ids)
  IN  [i \in DOMAIN order |-> Closed(order[i])]

-----------------------------------------------------------------------------
(* The consumer of the events, and the caller *)

Instance(event) == [epoch |-> event.epoch, id |-> event.change.id,
                    instance |-> event.change.instance]

\* What a consumer takes to be open after one more event; an event that does
\* not fit what it saw before spoils its view.
Replayed(view, event) ==
  LET begins == event.change.kind = "kAppeared"
      ends == event.change.kind \in {"kDisappeared", "kSourceReset"}
      fits == begins # (Instance(event) \in view.open)
  IN  [open |-> IF begins THEN view.open \cup {Instance(event)}
                ELSE IF ends THEN view.open \ {Instance(event)} ELSE view.open,
       sound |-> view.sound /\ fits]

ViewAfter(queue) == FoldLeft(Replayed, consumer.view, queue)

\* The last frame at which an entity was known not to be analyzed.
NoGaps == [id \in Ids |-> 0]

-----------------------------------------------------------------------------
Init ==
  /\ epoch = 1 /\ policy = NoPolicy /\ policy_revision = 0
  /\ inflight = <<>> /\ coverage = {} /\ rejections = 0
  /\ planned = [frame |-> 0, generation |-> 0]
  /\ resync_pending = FALSE
  /\ entities = [id \in {} |-> NewEntity]
  /\ pending = NoPending /\ advanced = [plan |-> 0, accept |-> 0]
  /\ notify_enabled = TRUE
  /\ events = <<>> /\ event_sequence = 0 /\ dropped_events = 0
  /\ last = NoFrames /\ untracked = 0
  /\ caller = [frame |-> 0, before |-> 0, held |-> {}, acknowledged |-> 0,
               gaps |-> NoGaps, muted |-> FALSE]
  /\ consumer = [drained |-> 0, view |-> [open |-> {}, sound |-> TRUE]]

\* set_attention_policy: the revision moves with the digest.
SetAttentionPolicy(conditions) ==
  /\ conditions # policy => policy_revision < MaxRevision
  /\ policy' = conditions
  /\ policy_revision' = IF conditions = policy THEN policy_revision ELSE policy_revision + 1
  /\ UNCHANGED <<epoch, inflight, coverage, rejections, planned, resync_pending, entities,
                 pending, advanced, notify_enabled, eventVars, untracked, caller, consumer>>

\* The frame a caller may plan next, and the inputs it may plan it with: its
\* frames and its session's generation never go back within an epoch.
MayPlan(cycle, frame) ==
  /\ frame \in {caller.frame, caller.frame + 1} /\ caller.before + frame <= MaxFrame
  /\ ReplanFrames \/ frame > advanced.plan
  /\ caller.frame = 0 \/ cycle.generation >= planned.generation

\* plan_cycle, all the way.
PlanCycle(cycle, frame) ==
  LET tokens == Issued(cycle, frame)
      ledger == Refreshed(cycle)
      seen == CycleObservation(cycle, ledger, tokens, frame)
      counts == frame > advanced.plan
      published == Notifiable(seen.changes, cycle.notify)
      resync == ResyncAfterRefresh(cycle) \/ Overflows(published, cycle.room)
      unknown == {id \in Ids : \E i \in DOMAIN seen.items :
                    /\ seen.items[i].id = id
                    /\ ~seen.items[i].covered /\ seen.items[i].work = 0}
  IN  /\ MayPlan(cycle, frame)
      /\ IssueFits(ledger, tokens)
      /\ coverage' = ledger
      /\ inflight' = [i \in DOMAIN tokens |-> [token |-> tokens[i], adopted |-> FALSE]]
      /\ planned' = [frame |-> frame, generation |-> cycle.generation]
      /\ notify_enabled' = cycle.notify
      /\ entities' = seen.population
      /\ untracked' = untracked + seen.lost
      /\ pending' = [frame |-> frame, items |-> seen.waiting]
      /\ advanced' = [advanced EXCEPT !.plan = Larger(@, frame)]
      /\ Publish(published, cycle.room)
      /\ NoteFrames(counts /\ \E i \in DOMAIN seen.items : seen.items[i].covered,
                    seen.changes,
                    published # <<>> /\ cycle.room > 0, frame)
      /\ resync_pending' = FALSE
      /\ caller' = [caller EXCEPT
                      !.frame = frame,
                      !.held = ToSet(tokens) \cup
                               {t \in @ : t.epoch = epoch /\ t.frame >= planned.frame},
                      !.acknowledged = IF resync THEN dropped_events' ELSE @,
                      !.gaps = [id \in Ids |-> IF counts /\ id \in unknown
                                               THEN frame ELSE @[id]],
                      !.muted = @ \/ published # seen.changes]
      /\ UNCHANGED <<epoch, policy, policy_revision, rejections, consumer>>

\* plan_cycle that fails once the ledger is re-verified: cancelled, over the
\* coverage cap, or over the byte budget.
PlanCutShort(cycle, frame) ==
  /\ MayPlan(cycle, frame)
  /\ coverage' = Refreshed(cycle)
  /\ resync_pending' = ResyncAfterRefresh(cycle)
  /\ UNCHANGED <<epoch, policy, policy_revision, inflight, rejections, planned, entities,
                 pending, advanced, notify_enabled, eventVars, untracked, caller, consumer>>

\* plan_cycle cancelled in the relation view, when the in-flight set has been
\* replaced already; the caller gets no plan.
PlanLosesEdges(cycle, frame) ==
  LET tokens == Issued(cycle, frame)
      ledger == Refreshed(cycle)
  IN  /\ MayPlan(cycle, frame)
      /\ IssueFits(ledger, tokens)
      /\ coverage' = ledger
      /\ resync_pending' = ResyncAfterRefresh(cycle)
      /\ inflight' = [i \in DOMAIN tokens |-> [token |-> tokens[i], adopted |-> FALSE]]
      /\ planned' = [frame |-> frame, generation |-> cycle.generation]
      /\ caller' = [caller EXCEPT !.frame = frame]
      /\ UNCHANGED <<epoch, policy, policy_revision, rejections, entities, pending, advanced,
                     notify_enabled, eventVars, untracked, consumer>>

-----------------------------------------------------------------------------
(* accept_work *)

\* Mutant: a token outlives the policy it was planned under.
StaleIgnoresPolicy(token) ==
  \/ token.epoch # epoch
  \/ token.generation # planned.generation
  \/ token.frame # planned.frame
\* work_token_stale_reason: bound to another epoch, policy, generation or frame.
Stale(token) ==
  \/ token.epoch # epoch
  \/ token.revision # policy_revision
  \/ token.generation # planned.generation
  \/ token.frame # planned.frame

\* classify_accept_item: current, in flight, not yet adopted, and still showing
\* what the work was planned on.
Acceptable(token, content) ==
  /\ ~Stale(token)
  /\ \E i \in DOMAIN inflight :
       /\ inflight[i].token = token /\ ~inflight[i].adopted
       /\ \A j \in 1 .. i - 1 : inflight[j].token # token
  /\ Digest(content, token.roi) = token.content

Entry(token) ==
  [roi |-> token.roi, generation |-> token.generation, frame |-> token.frame,
   revision |-> token.revision, request |-> token.request, content |-> token.content]

\* One bad item rejects the whole batch; only the counters move.
AcceptRejects(batch, content) ==
  LET bad == {token \in batch : ~Acceptable(token, content)}
  IN  /\ bad # {} /\ rejections + Cardinality(bad) <= MaxRejections
      /\ rejections' = rejections + Cardinality(bad)
      /\ UNCHANGED <<epoch, policy, policy_revision, inflight, coverage, planned,
                     resync_pending, entities, pending, advanced, notify_enabled, eventVars,
                     untracked, caller, consumer>>

AcceptedLedger(batch) ==
  {entry \in coverage : \A token \in batch : token.roi # entry.roi} \cup {Entry(t) : t \in batch}

AcceptedFlights(batch) ==
  [i \in DOMAIN inflight |-> [inflight[i] EXCEPT !.adopted = @ \/ inflight[i].token \in batch]]

\* Mutant: no fence on the accept side.
AdvancesAgain == pending.frame = planned.frame /\ pending.frame > 0
\* advance_accepted_observations moves a frame's waiting items once.
AdvancesNow == pending.frame = planned.frame /\ advanced.accept < pending.frame

\* Mutant: a committed batch advances every waiting item.
AdoptedAny(flights, item) == item.work \in DOMAIN flights
\* The work that covers a waiting item has been handed in.
Adopted(flights, item) == item.work \in DOMAIN flights /\ flights[item.work].adopted

\* One waiting item: it advances when its work is adopted and its entity still held.
AdvanceAccepted(scene, acc, item) ==
  LET moved == Advance(item.id, acc.population[item.id], item, scene.frame)
  IN  IF Adopted(scene.flights, item) /\ item.id \in DOMAIN acc.population
      THEN [population |-> [acc.population EXCEPT ![item.id] = moved.entity],
            changes |-> acc.changes \o moved.changes, moved |-> TRUE]
      ELSE acc

\* What the waiting items make of the entities, in their order.
AcceptedObservation(flights) ==
  LET scene == [flights |-> flights, frame |-> pending.frame]
      start == [population |-> entities, changes |-> <<>>, moved |-> FALSE]
  IN  FoldLeft(LAMBDA acc, item : AdvanceAccepted(scene, acc, item), start,
               IF AdvancesNow THEN pending.items ELSE <<>>)

\* accept_work that commits the batch, and the observations it validates.
AcceptWork(batch, content, room) ==
  LET flights == AcceptedFlights(batch)
      seen == AcceptedObservation(flights)
      frame == pending.frame
      published == Notifiable(seen.changes, notify_enabled)
  IN  /\ \A token \in batch : Acceptable(token, content)
      /\ Cardinality(coverage) + Cardinality(batch) <= MaxCoverage
      /\ coverage' = AcceptedLedger(batch)
      /\ inflight' = flights
      /\ entities' = seen.population
      /\ advanced' = IF AdvancesNow THEN [advanced EXCEPT !.accept = frame] ELSE advanced
      /\ Publish(published, room)
      /\ NoteFrames(seen.moved, seen.changes, published # <<>> /\ room > 0, frame)
      /\ resync_pending' = (resync_pending \/ Overflows(published, room))
      /\ caller' = [caller EXCEPT !.muted = @ \/ published # seen.changes]
      /\ UNCHANGED <<epoch, policy, policy_revision, rejections, planned, pending,
                     notify_enabled, untracked, consumer>>

-----------------------------------------------------------------------------
\* Mutant: the frame fences outlive the epoch.
EndCycleStateKeepsFences ==
  /\ inflight' = <<>> /\ coverage' = {}
  /\ entities' = [id \in {} |-> NewEntity]
  /\ pending' = NoPending /\ UNCHANGED advanced
  /\ last' = NoFrames

\* What a reset clears; a new window's frame sequences restart from zero.
EndCycleState ==
  /\ inflight' = <<>> /\ coverage' = {}
  /\ entities' = [id \in {} |-> NewEntity]
  /\ pending' = NoPending /\ advanced' = [plan |-> 0, accept |-> 0]
  /\ last' = NoFrames

\* notify_source_reset: every open lifecycle ends under the old epoch, past the
\* notification filter; the queue and the planned identity survive.
NotifySourceReset(room) ==
  LET ends == Ends({id \in DOMAIN entities : entities[id].open})
  IN  /\ epoch < MaxEpoch
      /\ Publish(ends, room)
      /\ epoch' = epoch + 1
      /\ EndCycleState
      /\ resync_pending' = TRUE
      /\ caller' = [caller EXCEPT !.before = @ + caller.frame, !.frame = 0, !.gaps = NoGaps]
      /\ UNCHANGED <<policy, policy_revision, rejections, planned, notify_enabled, untracked,
                     consumer>>

\* drain_events hands the queue over and empties it.
DrainEvents ==
  /\ events # <<>>
  /\ events' = <<>>
  /\ consumer' = [drained |-> consumer.drained + Len(events), view |-> ViewAfter(events)]
  /\ UNCHANGED <<epoch, policy, policy_revision, inflight, coverage, rejections, planned,
                 resync_pending, entities, pending, advanced, notify_enabled, event_sequence,
                 dropped_events, last, untracked, caller>>

Plan ==
  \E cycle \in Cycles, frame \in 0 .. MaxFrame :
    PlanCycle(cycle, frame) \/ PlanCutShort(cycle, frame) \/ PlanLosesEdges(cycle, frame)

Contents == {cycle.content : cycle \in Cycles}
Rooms == {cycle.room : cycle \in Cycles}

Accept ==
  \E batch \in SUBSET caller.held, content \in Contents :
    \/ AcceptRejects(batch, content)
    \/ \E room \in Rooms : AcceptWork(batch, content, room)

Next ==
  \/ \E conditions \in Policies : SetAttentionPolicy(conditions)
  \/ Plan
  \/ Accept
  \/ \E room \in Rooms : NotifySourceReset(room)
  \/ DrainEvents

Spec == Init /\ [][Next]_vars

-----------------------------------------------------------------------------
(* Properties *)

Frames == 0 .. MaxFrame
Generations == {cycle.generation : cycle \in Cycles} \cup {0}
Requests == {cycle.request : cycle \in Cycles}
Looks == UNION {{cycle.regions[i].look : i \in DOMAIN cycle.regions} : cycle \in Cycles}
Streaks == [count : 0 .. Window, since : Frames]

\* Every variable of the coordinator holds a value of its kind, and the
\* bounded ones are within their limits.
TypeOK ==
  /\ epoch \in 1 .. MaxEpoch /\ policy_revision \in 0 .. MaxRevision
  /\ policy \in Policies \cup {NoPolicy}
  /\ rejections \in 0 .. MaxRejections
  /\ planned \in [frame : Frames, generation : Generations]
  /\ advanced \in [plan : Frames, accept : Frames]
  /\ last \in [observed : Frames, confirmed : Frames, published : Frames]
  /\ {resync_pending, notify_enabled} \subseteq BOOLEAN
  /\ {event_sequence, dropped_events, untracked} \subseteq Nat
  /\ Len(events) <= MaxEvents /\ Cardinality(coverage) <= MaxCoverage
  /\ DOMAIN entities \subseteq Ids /\ Cardinality(DOMAIN entities) <= MaxEntities
  /\ \A id \in DOMAIN entities :
       LET entity == entities[id]
       IN  /\ entity.observation \in {"kUnanalyzed", "kObserved", "kOccluded", "kTrackingLost"}
           /\ entity.freshness \in {"kUnvalidated", "kFresh", "kValidatedReuse"}
           /\ entity.bounds \subseteq Cells /\ entity.generation \in Generations
           /\ {entity.presence, entity.absence, entity.occlusion} \subseteq Streaks
           /\ {entity.open, entity.occluded} \subseteq BOOLEAN
           /\ entity.instance \in Nat

\* Every event ever emitted was drained, is queued, or was counted as
\* dropped, and the queue is in ascending order: a consumer can tell from the
\* numbers alone how many events it missed.
EventsAreAccounted ==
  /\ event_sequence = consumer.drained + Len(events) + dropped_events
  /\ \A i, j \in DOMAIN events : i < j => events[i].seq < events[j].seq

\* While nothing was dropped or filtered, the events tell the truth: each fits
\* what came before it (no second begin, no update or end of something that
\* is not open), and replaying them gives exactly the open lifecycles.
ConsumerSeesTheLifecycles ==
  dropped_events = 0 /\ ~caller.muted =>
    LET view == ViewAfter(events)
    IN  /\ view.sound
        /\ view.open = {[epoch |-> epoch, id |-> id, instance |-> entities[id].instance] :
                          id \in {i \in DOMAIN entities : entities[i].open}}

\* A drop that no plan has reported yet is going to be reported by the next.
DropsAreAnnounced == dropped_events > caller.acknowledged => resync_pending

\* No confirmation window spans a frame at which the coordinator knew it did
\* not analyze the entity: an unknown gap breaks every streak.
WindowsSpanNoKnownGap ==
  \A i \in DOMAIN events :
    LET event == events[i]
    IN  event.epoch = epoch =>
          ~(/\ event.change.observed < caller.gaps[event.change.id]
            /\ caller.gaps[event.change.id] < event.change.confirmed)

\* Nothing of an earlier epoch survives a source reset: tokens in flight,
\* coverage, entities, streaks and the aggregate frames are all of frames the
\* present epoch has planned.
ResetEndsTheEpoch ==
  /\ \A i \in DOMAIN inflight : inflight[i].token.epoch = epoch
  /\ \A entry \in coverage : entry.frame <= caller.frame
  /\ \A id \in DOMAIN entities : entities[id].observed_frame <= caller.frame
  /\ {last.observed, last.confirmed, last.published, advanced.plan, advanced.accept}
       \subseteq 0 .. caller.frame

\* Evidence enters the ledger only through a token of the present epoch,
\* policy and planned frame that was in flight and not yet adopted.
OnlyCurrentWorkIsAdopted ==
  [][\A entry \in coverage' \ coverage :
       /\ entry.revision = policy_revision
       /\ entry.frame = planned.frame /\ entry.generation = planned.generation
       /\ \E i \in DOMAIN inflight :
            /\ Entry(inflight[i].token) = entry /\ ~inflight[i].adopted
            /\ inflight[i].token.epoch = epoch]_vars

\* An entity becomes observed at a frame only where evidence in the ledger
\* covers its bounds.
ObservedOnlyWhereCovered ==
  [][\A id \in DOMAIN entities \cap DOMAIN entities' :
       entities'[id].observed_frame \notin {0, entities[id].observed_frame} =>
         Covered(coverage', entities'[id].bounds)]_vars

\* Pressure at the entity cap never drops an identity whose lifecycle is
\* open: such a lifecycle ends by an event or by a source reset.
OpenLifecyclesAreKept ==
  [][epoch' = epoch =>
       \A id \in DOMAIN entities : entities[id].open => id \in DOMAIN entities']_vars

\* Re-planning the same frame never counts twice: a confirmation takes two
\* frames.
WindowsTakeTwoFrames ==
  \A i \in DOMAIN events :
    events[i].change.kind # "kSourceReset" =>
      events[i].change.observed < events[i].change.confirmed
=============================================================================
