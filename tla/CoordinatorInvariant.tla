------------------------ MODULE CoordinatorInvariant ------------------------
(***************************************************************************)
(* The inductive invariant of ContinuousPerception: what its variables     *)
(* hold between any two calls, and how the books of the coordinator agree  *)
(* with one another and with what its caller may know.                     *)
(***************************************************************************)
EXTENDS ContinuousPerception

-----------------------------------------------------------------------------
(* Types *)

\* The looks an entity or an item can hold: those of Looks, without parents too.
\* (The first set is Looks, written as updates so that the provers see the fields.)
SeenLooks ==
  {[look EXCEPT !.parents = @] : look \in Looks}
    \cup {[look EXCEPT !.parents = {}] : look \in Looks} \cup {NoLook}

\* An entity the coordinator keeps.
EntityType ==
  [observation : {"kUnanalyzed", "kObserved", "kOccluded", "kTrackingLost"},
   freshness : {"kUnvalidated", "kFresh", "kValidatedReuse"},
   generation : Generations, bounds : SUBSET Cells, observed_frame : Frames,
   instance : Nat, look : SeenLooks, confirmed_frame : Frames, open : BOOLEAN,
   occluded : BOOLEAN, presence : Streaks, absence : Streaks, occlusion : Streaks,
   candidate : [since : Frames, look : SeenLooks]]

\* An item of a cycle that finds its entity.
PresentType ==
  [id : Ids, channel : {"present"}, covered : BOOLEAN, work : Nat,
   freshness : {"kFresh", "kValidatedReuse"}, generation : Generations,
   bounds : SUBSET Cells, look : SeenLooks]

\* An item of a cycle that does not find its entity.
AbsentType ==
  [id : Ids, channel : {"lost", "occluded", "missing"}, covered : BOOLEAN, work : Nat]

\* The kinds of change that leave a lifecycle open.
Updates == {"kTextChanged", "kAppearanceChanged", "kRelationChanged"}

\* A semantic change.
ChangeType ==
  [kind : Updates \cup {"kAppeared", "kDisappeared", "kSourceReset"}, id : Ids,
   instance : Nat, observed : Frames, confirmed : Frames]

\* A confirmation window of the entity is open since this frame.
Ongoing(entity, since) ==
  \/ entity.presence.count > 0 /\ entity.presence.since = since
  \/ entity.absence.count > 0 /\ entity.absence.since = since
  \/ entity.occlusion.count > 0 /\ entity.occlusion.since = since
  \/ entity.candidate.since = since /\ since > 0

-----------------------------------------------------------------------------
(* The parts of the invariant *)

\* An event of the queue.
EventType == [seq : Nat, epoch : 1 .. MaxEpoch, change : ChangeType]

\* The bounded variables and the numbers.
Typed ==
  /\ epoch \in 1 .. MaxEpoch /\ policy_revision \in 0 .. MaxRevision
  /\ policy \in Policies \cup {NoPolicy}
  /\ rejections \in 0 .. MaxRejections
  /\ planned \in [frame : Frames, generation : Generations]
  /\ advanced \in [plan : Frames, accept : Frames]
  /\ last \in [observed : Frames, confirmed : Frames, published : Frames]
  /\ resync_pending \in BOOLEAN /\ notify_enabled \in BOOLEAN
  /\ untracked \in Nat /\ dropped_events \in Nat
  /\ consumer.drained \in Nat

\* The queue: typed, bounded, ascending, and complete with what was drained and
\* dropped.
QueueKept ==
  /\ events \in Seq(EventType) /\ Len(events) <= MaxEvents
  /\ event_sequence \in Nat /\ dropped_events \in Nat /\ consumer.drained \in Nat
  /\ event_sequence = consumer.drained + Len(events) + dropped_events
  /\ \A i \in DOMAIN events : events[i].seq <= event_sequence /\ events[i].epoch <= epoch
  /\ \A i, j \in DOMAIN events : i < j => events[i].seq < events[j].seq

\* The caller's books.
CallerKept ==
  /\ caller \in [frame : Frames, before : Nat, held : SUBSET UNION {caller.held},
                 acknowledged : Nat, gaps : [Ids -> Frames], muted : BOOLEAN]
  /\ IsFiniteSet(caller.held)
  /\ dropped_events > caller.acknowledged => resync_pending

\* The ledger and the work in flight.
LedgerKept ==
  /\ IsFiniteSet(coverage) /\ Cardinality(coverage) <= MaxCoverage
  /\ \A entry \in coverage : entry.frame \in 0 .. caller.frame
  /\ inflight = [i \in 1 .. Len(inflight) |->
                   [token |-> inflight[i].token, adopted |-> inflight[i].adopted]]
  /\ Len(inflight) \in Nat
  /\ \A i \in DOMAIN inflight : inflight[i].token.epoch = epoch
  /\ inflight # <<>> => planned.frame <= caller.frame

\* The frames of the present epoch never pass the caller's.
FramesKept ==
  /\ {last.observed, last.confirmed, last.published, advanced.plan, advanced.accept}
       \subseteq 0 .. caller.frame
  /\ pending.frame = advanced.plan

\* The population within its cap; each window began at a planned frame that no
\* known gap follows.
EntitiesKept ==
  /\ entities \in [DOMAIN entities -> EntityType]
  /\ DOMAIN entities \subseteq Ids /\ IsFiniteSet(DOMAIN entities)
  /\ Cardinality(DOMAIN entities) <= MaxEntities
  /\ \A id \in DOMAIN entities :
       /\ entities[id].observed_frame <= caller.frame
       /\ \A since : Ongoing(entities[id], since) =>
            since \in caller.gaps[id] .. advanced.plan
  /\ \A id \in Ids : caller.gaps[id] <= advanced.plan

\* What waits for a token: each identity once, its window not moved by this
\* frame, and its bounds within the work that covers it.
WaitingKept ==
  /\ pending.items \in Seq(PresentType \cup AbsentType)
  /\ \A i, j \in DOMAIN pending.items : pending.items[i].id = pending.items[j].id => i = j
  /\ ~ReplanFrames /\ AdvancesNow =>
       /\ \A i \in DOMAIN inflight : ~inflight[i].adopted
       /\ \A i \in DOMAIN pending.items :
            LET item == pending.items[i]
            IN  /\ item.work \in DOMAIN inflight
                /\ item.channel = "present" =>
                     RectContains(inflight[item.work].token.roi, item.bounds)
                /\ item.id \in DOMAIN entities =>
                     \A since : Ongoing(entities[item.id], since) => since < pending.frame

\* Events of the present epoch are of its frames.
HistoryKept ==
  /\ \A i \in DOMAIN events : events[i].epoch = epoch => events[i].change.confirmed <= advanced.plan
  /\ WindowsSpanNoKnownGap
  /\ ~ReplanFrames => WindowsTakeTwoFrames

\* The lifecycles that are open under an epoch.
Opened(ep, population) ==
  {[epoch |-> ep, id |-> id, instance |-> population[id].instance] :
     id \in {i \in DOMAIN population : population[i].open}}

\* What the consumer takes for the truth is the truth.
TruthKept ==
  dropped_events = 0 /\ ~caller.muted =>
    ViewAfter(events) = [open |-> Opened(epoch, entities), sound |-> TRUE]

\* The inductive invariant of the coordinator and its caller.
IInv == /\ Typed /\ QueueKept /\ CallerKept /\ LedgerKept /\ FramesKept
        /\ EntitiesKept /\ WaitingKept /\ HistoryKept /\ TruthKept
=============================================================================
