--------------------- MODULE ContinuousPerceptionProofs ---------------------
(***************************************************************************)
(* Proofs about ContinuousPerception for every value of its constants.     *)
(* First what one cycle makes of the population, and what the consumer of  *)
(* its changes then believes, from one entity to one cycle; then that each *)
(* action keeps the invariant of CoordinatorInvariant, and what follows.   *)
(***************************************************************************)
EXTENDS CoordinatorInvariant, FiniteSetTheorems, SequenceTheorems,
        WellFoundedInduction, TLAPS

-----------------------------------------------------------------------------
(* One entity *)

\* The changes of one step tell what the step does to the lifecycle: it goes on
\* and each change names its instance, or one change opens it, or one closes it.
Lives(id, entity, outcome) ==
  \/ /\ outcome.entity.open = entity.open /\ outcome.entity.instance = entity.instance
     /\ outcome.changes # <<>> => entity.open
     /\ \A i \in DOMAIN outcome.changes :
          /\ outcome.changes[i].kind \in Updates
          /\ outcome.changes[i].id = id /\ outcome.changes[i].instance = entity.instance
  \/ /\ ~entity.open /\ outcome.entity.open
     /\ Len(outcome.changes) = 1
     /\ outcome.changes[1].kind = "kAppeared" /\ outcome.changes[1].id = id
     /\ outcome.changes[1].instance = outcome.entity.instance
  \/ /\ entity.open /\ ~outcome.entity.open /\ outcome.entity.instance = entity.instance
     /\ Len(outcome.changes) = 1
     /\ outcome.changes[1].kind = "kDisappeared" /\ outcome.changes[1].id = id
     /\ outcome.changes[1].instance = entity.instance

\* What any step may do to an entity: it stays typed, its changes are confirmed
\* at the frame and observed where a window began that was running, and a window
\* that runs afterwards began at the frame or ran before.
Moves(id, entity, frame, outcome) ==
  /\ outcome.entity \in EntityType /\ outcome.changes \in Seq(ChangeType)
  /\ \A i \in DOMAIN outcome.changes :
       /\ outcome.changes[i].id = id
       /\ outcome.changes[i].confirmed = frame
       /\ Ongoing(entity, outcome.changes[i].observed)
  /\ \A since : Ongoing(outcome.entity, since) => since = frame \/ Ongoing(entity, since)
  /\ Lives(id, entity, outcome)

\* The step does not observe the entity.
Stays(entity, outcome) ==
  /\ outcome.entity.observed_frame = entity.observed_frame
  /\ outcome.entity.bounds = entity.bounds

\* A streak of none and the look of none are typed.
LEMMA NoOnes ==
  /\ NoStreak.count = 0 /\ (0 \in Frames => NoStreak \in Streaks)
  /\ NoLook \in SeenLooks
BY DEF NoStreak, Streaks, SeenLooks, Window

\* Lengthening a streak keeps its start, or starts it at the frame.
LEMMA Lengthens ==
  ASSUME NEW streak \in Streaks, NEW frame \in Frames
  PROVE  /\ Lengthened(streak, frame) \in Streaks
         /\ Lengthened(streak, frame).count > 0
         /\ Lengthened(streak, frame).count >= Window => streak.count > 0
         /\ Lengthened(streak, frame).since \in {frame, streak.since}
         /\ streak.count > 0 => Lengthened(streak, frame).since = streak.since
         /\ streak.count = 0 => Lengthened(streak, frame).since = frame
BY DEF Lengthened, Streaks, Min2, Window

\* Closes no window, starts none and confirms nothing.
Silent(entity, outcome) ==
  /\ outcome.entity \in EntityType /\ outcome.changes = <<>>
  /\ outcome.entity.open = entity.open /\ outcome.entity.instance = entity.instance

\* A step without changes that leaves the lifecycle alone moves the entity.
LEMMA SilentMoves ==
  ASSUME NEW id, NEW entity, NEW frame, NEW outcome, Silent(entity, outcome),
         \A since : Ongoing(outcome.entity, since) => since = frame \/ Ongoing(entity, since)
  PROVE  Moves(id, entity, frame, outcome)
<1>1. outcome.changes \in Seq(ChangeType) /\ DOMAIN outcome.changes = {}
  BY DEF Silent
<1>2. Lives(id, entity, outcome)
  BY <1>1 DEF Silent, Lives
<1> QED
  BY <1>1, <1>2 DEF Silent, Moves

\* Losing track of an entity moves it, and does not observe it.
LEMMA LostMoves ==
  ASSUME NEW id \in Ids, NEW entity \in EntityType, NEW frame \in Frames, 0 \in Frames
  PROVE  Moves(id, entity, frame, TrackingLost(entity)) /\ Stays(entity, TrackingLost(entity))
<1> DEFINE o == TrackingLost(entity)
<1>1. Silent(entity, o) /\ Stays(entity, o)
  BY NoOnes DEF EntityType, TrackingLost, Outcome, NoCandidate, Silent, Stays
<1>2. /\ o.entity.presence = NoStreak /\ o.entity.absence = NoStreak
      /\ o.entity.occlusion = NoStreak /\ o.entity.candidate = NoCandidate
  BY DEF EntityType, TrackingLost, Outcome
<1> HIDE DEF o
<1>3. \A since : ~Ongoing(o.entity, since)
  <2>1. ~(NoStreak.count > 0) /\ ~(\E since : NoCandidate.since = since /\ since > 0)
    BY DEF NoStreak, NoCandidate
  <2> QED
    BY <1>2, <2>1 DEF Ongoing
<1> QED
  BY <1>1, <1>3, SilentMoves DEF o

\* An entity that nothing covers stops its windows.
LEMMA UncoveredMoves ==
  ASSUME NEW id \in Ids, NEW entity \in EntityType, NEW frame \in Frames, 0 \in Frames
  PROVE  LET outcome == Outcome(Uncovered(entity), <<>>)
         IN  /\ Moves(id, entity, frame, outcome) /\ Stays(entity, outcome)
             /\ \A since : ~Ongoing(outcome.entity, since)
<1> DEFINE o == Outcome(Uncovered(entity), <<>>)
<1>1. Silent(entity, o) /\ Stays(entity, o)
  BY NoOnes DEF EntityType, Uncovered, Outcome, NoCandidate, Silent, Stays
<1>2. /\ o.entity.presence = NoStreak /\ o.entity.absence = NoStreak
      /\ o.entity.occlusion = NoStreak /\ o.entity.candidate = NoCandidate
  BY DEF EntityType, Uncovered, Outcome
<1> HIDE DEF o
<1>3. \A since : ~Ongoing(o.entity, since)
  <2>1. ~(NoStreak.count > 0) /\ ~(\E since : NoCandidate.since = since /\ since > 0)
    BY DEF NoStreak, NoCandidate
  <2> QED
    BY <1>2, <2>1 DEF Ongoing
<1> QED
  BY <1>1, <1>3, SilentMoves DEF o

\* An occlusion moves the entity, and does not observe it.
LEMMA OccludeMoves ==
  ASSUME NEW id \in Ids, NEW entity \in EntityType, NEW frame \in Frames, 0 \in Frames
  PROVE  Moves(id, entity, frame, Occlude(id, entity, frame))
         /\ Stays(entity, Occlude(id, entity, frame))
<1> DEFINE hidden == [entity EXCEPT !.observation = "kOccluded", !.freshness = "kUnvalidated",
                                    !.presence = NoStreak, !.absence = NoStreak,
                                    !.occlusion = Lengthened(@, frame),
                                    !.candidate = NoCandidate]
           occluded == [hidden EXCEPT !.occluded = TRUE, !.confirmed_frame = frame]
           event == Change("kRelationChanged", id, hidden, hidden.occlusion.since, frame)
           confirms == hidden.open /\ ~hidden.occluded /\ hidden.occlusion.count >= Window
           o == Occlude(id, entity, frame)
<1> DEFINE longer == Lengthened(entity.occlusion, frame)
<1>1. /\ entity.occlusion \in Streaks /\ longer \in Streaks
      /\ longer.count >= Window => entity.occlusion.count > 0
      /\ longer.since \in {frame, entity.occlusion.since}
      /\ entity.occlusion.count > 0 => longer.since = entity.occlusion.since
      /\ entity.occlusion.count = 0 => longer.since = frame
  <2>1. entity.occlusion \in Streaks
    BY DEF EntityType
  <2> QED
    BY <2>1, Lengthens
<1>2. /\ hidden \in EntityType
      /\ hidden.presence = NoStreak /\ hidden.absence = NoStreak
      /\ hidden.occlusion = longer /\ hidden.candidate = NoCandidate
      /\ hidden.open = entity.open /\ hidden.instance = entity.instance
      /\ hidden.observed_frame = entity.observed_frame /\ hidden.bounds = entity.bounds
  <2> HIDE DEF longer
  <2> QED
    BY <1>1, NoOnes DEF EntityType, NoCandidate, longer
<1>3. o = IF confirms THEN Outcome(occluded, <<event>>) ELSE Outcome(hidden, <<>>)
  BY DEF Occlude
<1> HIDE DEF hidden, o
<1>4. /\ occluded \in EntityType
      /\ occluded.presence = hidden.presence /\ occluded.absence = hidden.absence
      /\ occluded.occlusion = hidden.occlusion /\ occluded.candidate = hidden.candidate
      /\ occluded.open = entity.open /\ occluded.instance = entity.instance
      /\ occluded.observed_frame = entity.observed_frame /\ occluded.bounds = entity.bounds
  BY <1>2 DEF EntityType
<1> HIDE DEF occluded, longer
<1>5. ASSUME NEW since, Ongoing(hidden, since)
      PROVE  since = frame \/ Ongoing(entity, since)
  <2>1. ~(NoStreak.count > 0) /\ ~(\E x : NoCandidate.since = x /\ x > 0)
    BY DEF NoStreak, NoCandidate
  <2>2. longer.since = since
    BY <1>2, <1>5, <2>1 DEF Ongoing
  <2>3. entity.occlusion.count \in 0 .. Window
    BY <1>1 DEF Streaks
  <2> QED
    BY <1>1, <2>2, <2>3 DEF Ongoing, Window
<1>6. CASE ~confirms
  <2>1. o = Outcome(hidden, <<>>)
    BY <1>3, <1>6
  <2>2. Silent(entity, o) /\ Stays(entity, o) /\ o.entity = hidden
    BY <1>2, <2>1 DEF Silent, Stays, Outcome
  <2> QED
    BY <1>5, <2>2, SilentMoves DEF o
<1>7. CASE confirms
  <2>1. o.entity = occluded /\ o.changes = <<event>>
    BY <1>3, <1>7 DEF Outcome
  <2>2. \A since : Ongoing(occluded, since) <=> Ongoing(hidden, since)
    BY <1>4 DEF Ongoing
  <2>3. longer.since = entity.occlusion.since /\ Ongoing(entity, longer.since)
    BY <1>1, <1>2, <1>7 DEF Ongoing
  <2>4. longer.since \in Frames
    BY <1>1 DEF Streaks
  <2>5. /\ event \in ChangeType /\ event.kind = "kRelationChanged" /\ event.id = id
        /\ event.instance = entity.instance /\ event.confirmed = frame
        /\ event.observed = longer.since
    BY <1>2, <2>4 DEF Change, ChangeType, EntityType, Updates
  <2> HIDE DEF event, confirms
  <2>6. o.changes \in Seq(ChangeType) /\ Len(o.changes) = 1 /\ DOMAIN o.changes = {1}
        /\ o.changes[1] = event
    BY <2>1, <2>5
  <2>7. Lives(id, entity, o)
    BY <1>2, <1>4, <1>7, <2>1, <2>5, <2>6 DEF Lives, Updates, confirms
  <2>8. Moves(id, entity, frame, o)
    BY <1>4, <1>5, <2>1, <2>2, <2>3, <2>5, <2>6, <2>7 DEF Moves
  <2> QED
    BY <1>4, <2>1, <2>8 DEF Stays, o
<1> QED
  BY <1>6, <1>7

\* A miss moves the entity, and does not observe it.
LEMMA MissMoves ==
  ASSUME NEW id \in Ids, NEW entity \in EntityType, NEW frame \in Frames, 0 \in Frames
  PROVE  Moves(id, entity, frame, Miss(id, entity, frame))
         /\ Stays(entity, Miss(id, entity, frame))
<1> DEFINE missing == [entity EXCEPT !.observation = "kOccluded", !.freshness = "kUnvalidated",
                                     !.presence = NoStreak, !.absence = Lengthened(@, frame),
                                     !.occlusion = NoStreak, !.candidate = NoCandidate]
           gone == [missing EXCEPT !.open = FALSE, !.occluded = FALSE,
                                   !.observation = "kUnanalyzed"]
           event == Change("kDisappeared", id, missing, missing.absence.since, frame)
           confirms == missing.open /\ missing.absence.count >= Window
           o == Miss(id, entity, frame)
<1> DEFINE longer == Lengthened(entity.absence, frame)
<1>1. /\ entity.absence \in Streaks /\ longer \in Streaks
      /\ longer.count >= Window => entity.absence.count > 0
      /\ longer.since \in {frame, entity.absence.since}
      /\ entity.absence.count > 0 => longer.since = entity.absence.since
      /\ entity.absence.count = 0 => longer.since = frame
  <2>1. entity.absence \in Streaks
    BY DEF EntityType
  <2> QED
    BY <2>1, Lengthens
<1>2. /\ missing \in EntityType
      /\ missing.presence = NoStreak /\ missing.occlusion = NoStreak
      /\ missing.absence = longer /\ missing.candidate = NoCandidate
      /\ missing.open = entity.open /\ missing.instance = entity.instance
      /\ missing.observed_frame = entity.observed_frame /\ missing.bounds = entity.bounds
  <2> HIDE DEF longer
  <2> QED
    BY <1>1, NoOnes DEF EntityType, NoCandidate, longer
<1>3. o = IF confirms THEN Outcome(gone, <<event>>) ELSE Outcome(missing, <<>>)
  BY DEF Miss
<1> HIDE DEF missing, o
<1>4. /\ gone \in EntityType
      /\ gone.presence = missing.presence /\ gone.absence = missing.absence
      /\ gone.occlusion = missing.occlusion /\ gone.candidate = missing.candidate
      /\ ~gone.open /\ gone.instance = entity.instance
      /\ gone.observed_frame = entity.observed_frame /\ gone.bounds = entity.bounds
  BY <1>2 DEF EntityType
<1> HIDE DEF gone, longer
<1>5. ASSUME NEW since, Ongoing(missing, since)
      PROVE  since = frame \/ Ongoing(entity, since)
  <2>1. ~(NoStreak.count > 0) /\ ~(\E x : NoCandidate.since = x /\ x > 0)
    BY DEF NoStreak, NoCandidate
  <2>2. longer.since = since
    BY <1>2, <1>5, <2>1 DEF Ongoing
  <2>3. entity.absence.count \in 0 .. Window
    BY <1>1 DEF Streaks
  <2> QED
    BY <1>1, <2>2, <2>3 DEF Ongoing, Window
<1>6. CASE ~confirms
  <2>1. o = Outcome(missing, <<>>)
    BY <1>3, <1>6
  <2>2. Silent(entity, o) /\ Stays(entity, o) /\ o.entity = missing
    BY <1>2, <2>1 DEF Silent, Stays, Outcome
  <2> QED
    BY <1>5, <2>2, SilentMoves DEF o
<1>7. CASE confirms
  <2>1. o.entity = gone /\ o.changes = <<event>>
    BY <1>3, <1>7 DEF Outcome
  <2>2. \A since : Ongoing(gone, since) <=> Ongoing(missing, since)
    BY <1>4 DEF Ongoing
  <2>3. longer.since = entity.absence.since /\ Ongoing(entity, longer.since)
    BY <1>1, <1>2, <1>7 DEF Ongoing
  <2>4. longer.since \in Frames
    BY <1>1 DEF Streaks
  <2>5. /\ event \in ChangeType /\ event.kind = "kDisappeared" /\ event.id = id
        /\ event.instance = entity.instance /\ event.confirmed = frame
        /\ event.observed = longer.since
    BY <1>2, <2>4 DEF Change, ChangeType, EntityType
  <2> HIDE DEF event, confirms
  <2>6. o.changes \in Seq(ChangeType) /\ Len(o.changes) = 1 /\ DOMAIN o.changes = {1}
        /\ o.changes[1] = event
    BY <2>1, <2>5
  <2>7. Lives(id, entity, o)
    BY <1>2, <1>4, <1>7, <2>1, <2>5, <2>6 DEF Lives, confirms
  <2>8. Moves(id, entity, frame, o)
    BY <1>4, <1>5, <2>1, <2>2, <2>3, <2>5, <2>6, <2>7 DEF Moves
  <2> QED
    BY <1>4, <2>1, <2>8 DEF Stays, o
<1> QED
  BY <1>6, <1>7

\* What is seen: at this frame, at the item's place; and it ends no lifecycle.
Seen(entity, item, frame, outcome) ==
  /\ outcome.entity.observed_frame = frame /\ outcome.entity.bounds = item.bounds
  /\ entity.open => outcome.entity.open

\* Observing an entity renews its frame and bounds, lengthens its presence and
\* leaves the lifecycle and the look alone.
LEMMA ObservedKeeps ==
  ASSUME NEW entity \in EntityType, NEW item \in PresentType, NEW frame \in Frames, 0 \in Frames
  PROVE  LET seen == Observed(entity, item, frame)
         IN  /\ seen \in EntityType
             /\ seen.observed_frame = frame /\ seen.bounds = item.bounds
             /\ seen.open = entity.open /\ seen.instance = entity.instance
             /\ seen.candidate = entity.candidate /\ seen.look = entity.look
             /\ seen.confirmed_frame = entity.confirmed_frame
             /\ \A since : Ongoing(seen, since) => since = frame \/ Ongoing(entity, since)
             /\ seen.presence.count >= Window => Ongoing(entity, seen.presence.since)
<1> DEFINE seen == Observed(entity, item, frame)
           longer == Lengthened(entity.presence, frame)
<1>1. /\ entity.presence \in Streaks /\ longer \in Streaks
      /\ longer.count >= Window => entity.presence.count > 0
      /\ longer.since \in {frame, entity.presence.since}
      /\ entity.presence.count > 0 => longer.since = entity.presence.since
      /\ entity.presence.count = 0 => longer.since = frame
  <2>1. entity.presence \in Streaks
    BY DEF EntityType
  <2> QED
    BY <2>1, Lengthens
<1>2. /\ seen \in EntityType
      /\ seen.observed_frame = frame /\ seen.bounds = item.bounds
      /\ seen.open = entity.open /\ seen.instance = entity.instance
      /\ seen.candidate = entity.candidate /\ seen.look = entity.look
      /\ seen.confirmed_frame = entity.confirmed_frame
      /\ seen.presence = longer /\ seen.absence = NoStreak /\ seen.occlusion = NoStreak
  <2> HIDE DEF longer
  <2> QED
    BY <1>1, NoOnes DEF EntityType, PresentType, Observed, longer
<1> HIDE DEF seen, longer
<1>3. ASSUME NEW since, Ongoing(seen, since)
      PROVE  since = frame \/ Ongoing(entity, since)
  <2>1. ~(NoStreak.count > 0)
    BY DEF NoStreak
  <2>2. longer.since = since \/ (entity.candidate.since = since /\ since > 0)
    BY <1>2, <1>3, <2>1 DEF Ongoing
  <2>3. entity.presence.count \in 0 .. Window
    BY <1>1 DEF Streaks
  <2> QED
    BY <1>1, <2>2, <2>3 DEF Ongoing, Window
<1>4. seen.presence.count >= Window => Ongoing(entity, seen.presence.since)
  BY <1>1, <1>2 DEF Ongoing
<1> QED
  BY <1>2, <1>3, <1>4 DEF seen

\* A presence window that is full opens the lifecycle, observed where it began.
LEMMA AppearMoves ==
  ASSUME NEW id \in Ids, NEW entity \in EntityType, NEW item \in PresentType,
         NEW frame \in Frames, 0 \in Frames, ~entity.open, entity.presence.count > 0
  PROVE  LET o == Appear(id, entity, item, frame)
         IN  Moves(id, entity, frame, o)
             /\ o.entity.observed_frame = entity.observed_frame
             /\ o.entity.bounds = entity.bounds
             /\ \A i \in DOMAIN o.changes : o.changes[i].observed = entity.presence.since
<1> DEFINE opened == [entity EXCEPT !.open = TRUE, !.instance = NextInstance(entity),
                                    !.look = item.look, !.confirmed_frame = frame,
                                    !.candidate = NoCandidate]
           event == Change("kAppeared", id, opened, entity.presence.since, frame)
           o == Appear(id, entity, item, frame)
<1>1. NextInstance(entity) \in Nat
  BY DEF NextInstance, EntityType
<1>2. /\ opened \in EntityType /\ opened.open
      /\ opened.presence = entity.presence /\ opened.absence = entity.absence
      /\ opened.occlusion = entity.occlusion /\ opened.candidate = NoCandidate
      /\ opened.observed_frame = entity.observed_frame /\ opened.bounds = entity.bounds
  BY <1>1, NoOnes DEF EntityType, PresentType, NoCandidate
<1>3. o.entity = opened /\ o.changes = <<event>>
  BY DEF Appear, Outcome
<1> HIDE DEF opened, o
<1>4. entity.presence.since \in Frames
  BY DEF EntityType, Streaks
<1>5. /\ event \in ChangeType /\ event.kind = "kAppeared" /\ event.id = id
      /\ event.instance = opened.instance /\ event.confirmed = frame
      /\ event.observed = entity.presence.since
  BY <1>2, <1>4 DEF Change, ChangeType, EntityType
<1> HIDE DEF event
<1>6. o.changes \in Seq(ChangeType) /\ Len(o.changes) = 1 /\ DOMAIN o.changes = {1}
      /\ o.changes[1] = event
  BY <1>3, <1>5
<1>7. Lives(id, entity, o)
  BY <1>2, <1>3, <1>5, <1>6 DEF Lives
<1>8. Ongoing(entity, entity.presence.since)
  BY DEF Ongoing
<1>9. \A since : Ongoing(opened, since) => Ongoing(entity, since)
  <2>1. ~(\E x : NoCandidate.since = x /\ x > 0)
    BY DEF NoCandidate
  <2> QED
    BY <1>2, <2>1 DEF Ongoing
<1> QED
  BY <1>2, <1>3, <1>5, <1>6, <1>7, <1>8, <1>9 DEF Moves, o

\* The axes along which two looks differ are kinds of update.
LEMMA AxesAreUpdates ==
  ASSUME NEW confirmed, NEW seen
  PROVE  ChangedAxes(confirmed, seen) \in Seq(Updates)
<1> DEFINE On(axis, kind) == IF confirmed[axis] = seen[axis] THEN <<>> ELSE <<kind>>
<1>1. ASSUME NEW axis, NEW kind \in Updates PROVE On(axis, kind) \in Seq(Updates)
  OBVIOUS
<1> HIDE DEF On
<1>2. /\ On("text", "kTextChanged") \in Seq(Updates)
      /\ On("label", "kAppearanceChanged") \in Seq(Updates)
      /\ On("parents", "kRelationChanged") \in Seq(Updates)
  BY <1>1 DEF Updates
<1>3. On("text", "kTextChanged") \o On("label", "kAppearanceChanged")
        \o On("parents", "kRelationChanged") \in Seq(Updates)
  BY <1>2
<1> QED
  BY <1>3 DEF ChangedAxes, On

\* Confirmed changes of an open entity that leave its lifecycle as it is.
Revises(id, entity, frame, outcome) ==
  /\ outcome.entity \in EntityType /\ outcome.changes \in Seq(ChangeType)
  /\ outcome.entity.open /\ outcome.entity.instance = entity.instance
  /\ outcome.entity.observed_frame = entity.observed_frame
  /\ outcome.entity.bounds = entity.bounds
  /\ \A i \in DOMAIN outcome.changes :
       /\ outcome.changes[i].kind \in Updates
       /\ outcome.changes[i].id = id /\ outcome.changes[i].instance = entity.instance
       /\ outcome.changes[i].confirmed = frame

\* A revealed entity says so under its own instance.
LEMMA RevealRevises ==
  ASSUME NEW id \in Ids, NEW entity \in EntityType, NEW frame \in Frames, entity.open
  PROVE  LET o == Reveal(id, entity, frame)
         IN  /\ Revises(id, entity, frame, o)
             /\ \A since : Ongoing(o.entity, since) <=> Ongoing(entity, since)
             /\ \A i \in DOMAIN o.changes :
                  entity.presence.count >= Window /\ o.changes[i].observed = entity.presence.since
             /\ o.entity.candidate = entity.candidate /\ o.entity.look = entity.look
<1> DEFINE plain == [entity EXCEPT !.occluded = FALSE, !.confirmed_frame = frame]
           event == Change("kRelationChanged", id, entity, entity.presence.since, frame)
           o == Reveal(id, entity, frame)
<1>1. /\ plain \in EntityType /\ plain.open /\ plain.instance = entity.instance
      /\ plain.presence = entity.presence /\ plain.absence = entity.absence
      /\ plain.occlusion = entity.occlusion /\ plain.candidate = entity.candidate
      /\ plain.observed_frame = entity.observed_frame /\ plain.bounds = entity.bounds
      /\ plain.look = entity.look
  BY DEF EntityType
<1>2. \/ /\ entity.presence.count >= Window /\ o = Outcome(plain, <<event>>)
      \/ o = Outcome(entity, <<>>)
  BY DEF Reveal
<1> HIDE DEF plain, o
<1>3. entity.presence.since \in Frames
  BY DEF EntityType, Streaks
<1>4. /\ event \in ChangeType /\ event.kind = "kRelationChanged" /\ event.id = id
      /\ event.instance = entity.instance /\ event.confirmed = frame
      /\ event.observed = entity.presence.since
  BY <1>3 DEF Change, ChangeType, EntityType, Updates
<1> HIDE DEF event
<1>5. CASE entity.presence.count >= Window /\ o = Outcome(plain, <<event>>)
  <2>1. o.entity = plain /\ o.changes \in Seq(ChangeType) /\ DOMAIN o.changes = {1}
        /\ o.changes[1] = event
    BY <1>4, <1>5 DEF Outcome
  <2>2. Revises(id, entity, frame, o)
    BY <1>1, <1>4, <2>1 DEF Revises, Updates
  <2>3. \A since : Ongoing(o.entity, since) <=> Ongoing(entity, since)
    BY <1>1, <2>1 DEF Ongoing
  <2> QED
    BY <1>1, <1>4, <1>5, <2>1, <2>2, <2>3 DEF o
<1>6. CASE o = Outcome(entity, <<>>)
  <2>1. o.entity = entity /\ o.changes \in Seq(ChangeType) /\ DOMAIN o.changes = {}
    BY <1>6 DEF Outcome
  <2>2. Revises(id, entity, frame, o)
    BY <2>1 DEF Revises
  <2> QED
    BY <2>1, <2>2 DEF o
<1> QED
  BY <1>2, <1>5, <1>6

\* A look that lasted its window is told as seen first where the window began.
LEMMA DebounceRevises ==
  ASSUME NEW id \in Ids, NEW entity \in EntityType, NEW item \in PresentType,
         NEW frame \in Frames, 0 \in Frames, 0 <= frame, entity.open
  PROVE  LET o == Debounce(id, entity, item, frame)
         IN  /\ Revises(id, entity, frame, o)
             /\ \A since : Ongoing(o.entity, since) => since = frame \/ Ongoing(entity, since)
             /\ \A i \in DOMAIN o.changes :
                  o.changes[i].observed = entity.candidate.since /\ entity.candidate.since > 0
<1> DEFINE kinds == ChangedAxes(entity.look, item.look)
           since == entity.candidate.since
           settled == [entity EXCEPT !.candidate = NoCandidate]
           waiting == [entity EXCEPT !.candidate = [since |-> frame, look |-> item.look]]
           adopted == [entity EXCEPT !.look = item.look, !.confirmed_frame = frame,
                                     !.candidate = NoCandidate]
           told == [i \in DOMAIN kinds |-> Change(kinds[i], id, entity, since, frame)]
           o == Debounce(id, entity, item, frame)
<1>1. kinds \in Seq(Updates)
  BY AxesAreUpdates
<1> HIDE DEF kinds
<1>2. since \in Frames
  BY DEF EntityType
<1>3. /\ settled \in EntityType /\ settled.open /\ settled.instance = entity.instance
      /\ settled.presence = entity.presence /\ settled.absence = entity.absence
      /\ settled.occlusion = entity.occlusion /\ settled.candidate = NoCandidate
      /\ settled.observed_frame = entity.observed_frame /\ settled.bounds = entity.bounds
  BY NoOnes DEF EntityType, NoCandidate
<1>4. /\ waiting \in EntityType /\ waiting.open /\ waiting.instance = entity.instance
      /\ waiting.presence = entity.presence /\ waiting.absence = entity.absence
      /\ waiting.occlusion = entity.occlusion /\ waiting.candidate.since = frame
      /\ waiting.observed_frame = entity.observed_frame /\ waiting.bounds = entity.bounds
  BY DEF EntityType, PresentType
<1>5. /\ adopted \in EntityType /\ adopted.open /\ adopted.instance = entity.instance
      /\ adopted.presence = entity.presence /\ adopted.absence = entity.absence
      /\ adopted.occlusion = entity.occlusion /\ adopted.candidate = NoCandidate
      /\ adopted.observed_frame = entity.observed_frame /\ adopted.bounds = entity.bounds
  BY NoOnes DEF EntityType, PresentType, NoCandidate
<1>6. \/ \E e \in {settled, waiting} : o = Outcome(e, <<>>)
      \/ since # 0 /\ o = Outcome(adopted, told)
  BY DEF Debounce, kinds
<1>7. /\ told \in Seq(ChangeType) /\ DOMAIN told = DOMAIN kinds
      /\ \A i \in DOMAIN told :
           /\ told[i].kind \in Updates /\ told[i].id = id
           /\ told[i].instance = entity.instance /\ told[i].confirmed = frame
           /\ told[i].observed = since
  <2>1. entity.instance \in Nat
    BY DEF EntityType
  <2>2. \A i \in DOMAIN kinds : kinds[i] \in Updates
    BY <1>1
  <2>3. \A i \in DOMAIN kinds :
          Change(kinds[i], id, entity, since, frame) =
            [kind |-> kinds[i], id |-> id, instance |-> entity.instance,
             observed |-> since, confirmed |-> frame]
    BY DEF Change
  <2> HIDE DEF since
  <2>4. \A i \in DOMAIN kinds : Change(kinds[i], id, entity, since, frame) \in ChangeType
    BY <1>2, <2>1, <2>2, <2>3 DEF ChangeType
  <2>5. told \in Seq(ChangeType)
    BY <1>1, <2>4
  <2> QED
    BY <2>2, <2>3, <2>5
<1>8. ~(\E x : NoCandidate.since = x /\ x > 0)
  BY DEF NoCandidate
<1>9. since # 0 => since > 0
  BY <1>2 DEF Frames
<1> HIDE DEF settled, waiting, adopted, told, since, o
<1>10. /\ Revises(id, entity, frame, o)
       /\ \A x : Ongoing(o.entity, x) => x = frame \/ Ongoing(entity, x)
       /\ \A i \in DOMAIN o.changes : o.changes[i].observed = since /\ since > 0
  <2>1. CASE \E e \in {settled, waiting} : o = Outcome(e, <<>>)
    <3>1. PICK e \in {settled, waiting} : o = Outcome(e, <<>>)
      BY <2>1
    <3>2. o.entity = e /\ o.changes \in Seq(ChangeType) /\ DOMAIN o.changes = {}
      BY <3>1 DEF Outcome
    <3>3. \A x : Ongoing(e, x) => x = frame \/ Ongoing(entity, x)
      BY <1>3, <1>4, <1>8, <3>1 DEF Ongoing
    <3>4. Revises(id, entity, frame, o)
      BY <1>3, <1>4, <3>1, <3>2 DEF Revises
    <3> QED
      BY <3>2, <3>3, <3>4
  <2>2. CASE since # 0 /\ o = Outcome(adopted, told)
    <3>1. o.entity = adopted /\ o.changes = told
      BY <2>2 DEF Outcome
    <3>2. \A x : Ongoing(adopted, x) => Ongoing(entity, x)
      BY <1>5, <1>8 DEF Ongoing
    <3>3. Revises(id, entity, frame, o)
      BY <1>5, <1>7, <3>1 DEF Revises
    <3> QED
      BY <1>7, <1>9, <2>2, <3>1, <3>2, <3>3
  <2> QED
    BY <1>6, <2>1, <2>2
<1> QED
  BY <1>10 DEF o, since

\* An entity that is present is moved, and observed.
LEMMA PresentMoves ==
  ASSUME NEW id \in Ids, NEW entity \in EntityType, NEW item \in PresentType,
         NEW frame \in Frames, 0 \in Frames
  PROVE  /\ Moves(id, entity, frame, Present(id, entity, item, frame))
         /\ Seen(entity, item, frame, Present(id, entity, item, frame))
<1> DEFINE seen == Observed(entity, item, frame)
           revealed == Reveal(id, seen, frame)
           settled == Debounce(id, revealed.entity, item, frame)
           o == Present(id, entity, item, frame)
<1>1. /\ seen \in EntityType
      /\ seen.observed_frame = frame /\ seen.bounds = item.bounds
      /\ seen.open = entity.open /\ seen.instance = entity.instance
      /\ seen.candidate = entity.candidate /\ seen.look = entity.look
      /\ \A since : Ongoing(seen, since) => since = frame \/ Ongoing(entity, since)
      /\ seen.presence.count >= Window => Ongoing(entity, seen.presence.since)
  BY ObservedKeeps
<1>2. o = IF entity.open THEN Outcome(settled.entity, revealed.changes \o settled.changes)
          ELSE IF seen.presence.count < Window THEN Outcome(seen, <<>>)
          ELSE Appear(id, seen, item, frame)
  BY DEF Present
<1> HIDE DEF seen, o
<1>3. CASE entity.open
  <2>1. /\ Revises(id, seen, frame, revealed)
        /\ \A since : Ongoing(revealed.entity, since) <=> Ongoing(seen, since)
        /\ \A i \in DOMAIN revealed.changes :
             /\ seen.presence.count >= Window
             /\ revealed.changes[i].observed = seen.presence.since
        /\ revealed.entity.candidate = seen.candidate
    BY <1>1, <1>3, RevealRevises
  <2> HIDE DEF revealed
  <2>2. /\ Revises(id, revealed.entity, frame, settled)
        /\ \A since : Ongoing(settled.entity, since) => since = frame \/ Ongoing(revealed.entity, since)
        /\ \A i \in DOMAIN settled.changes :
             /\ settled.changes[i].observed = revealed.entity.candidate.since
             /\ revealed.entity.candidate.since > 0
    <3>1. revealed.entity \in EntityType /\ revealed.entity.open /\ 0 <= frame
      BY <2>1 DEF Revises, Frames
    <3> QED
      BY <3>1, DebounceRevises
  <2> HIDE DEF settled
  <2>3. o.entity = settled.entity /\ o.changes = revealed.changes \o settled.changes
    BY <1>2, <1>3 DEF Outcome
  <2>4. /\ o.changes \in Seq(ChangeType)
        /\ \A i \in DOMAIN o.changes :
             \/ \E j \in DOMAIN revealed.changes : o.changes[i] = revealed.changes[j]
             \/ \E j \in DOMAIN settled.changes : o.changes[i] = settled.changes[j]
    <3>1. revealed.changes \in Seq(ChangeType) /\ settled.changes \in Seq(ChangeType)
      BY <2>1, <2>2 DEF Revises
    <3> DEFINE a == revealed.changes
               b == settled.changes
    <3> HIDE DEF a, b
    <3>2. a \in Seq(ChangeType) /\ b \in Seq(ChangeType)
      BY <3>1 DEF a, b
    <3>3. a \o b \in Seq(ChangeType) /\ Len(a \o b) = Len(a) + Len(b)
          /\ \A i \in 1 .. Len(a) + Len(b) :
               (a \o b)[i] = IF i <= Len(a) THEN a[i] ELSE b[i - Len(a)]
      BY <3>2, ConcatProperties
    <3>4. ASSUME NEW i \in DOMAIN (a \o b)
          PROVE  \/ \E j \in DOMAIN a : (a \o b)[i] = a[j]
                 \/ \E j \in DOMAIN b : (a \o b)[i] = b[j]
      <4>1. i \in 1 .. Len(a) + Len(b) /\ Len(a) \in Nat /\ Len(b) \in Nat
        BY <3>2, <3>3
      <4>2. CASE i <= Len(a)
        BY <3>2, <3>3, <4>1, <4>2
      <4>3. CASE i > Len(a)
        <5>1. i - Len(a) \in DOMAIN b
          BY <3>2, <4>1, <4>3
        <5> QED
          BY <3>3, <4>1, <4>3, <5>1
      <4> QED
        BY <4>1, <4>2, <4>3
    <3> QED
      BY <2>3, <3>3, <3>4 DEF a, b
  <2>5. \A i \in DOMAIN o.changes :
          /\ o.changes[i].kind \in Updates /\ o.changes[i].id = id
          /\ o.changes[i].instance = entity.instance /\ o.changes[i].confirmed = frame
    BY <1>1, <2>1, <2>2, <2>4 DEF Revises
  <2> QED
    <3>1. o.entity.open /\ o.entity.instance = entity.instance /\ o.entity \in EntityType
          /\ o.entity.observed_frame = frame /\ o.entity.bounds = item.bounds
      BY <1>1, <2>1, <2>2, <2>3 DEF Revises
    <3>2. Lives(id, entity, o)
      BY <1>3, <2>5, <3>1 DEF Lives, EntityType
    <3>3. \A since : Ongoing(o.entity, since) => since = frame \/ Ongoing(entity, since)
      BY <1>1, <2>1, <2>2, <2>3
    <3>4. \A i \in DOMAIN o.changes : Ongoing(entity, o.changes[i].observed)
      <4>1. \A i \in DOMAIN settled.changes : Ongoing(entity, settled.changes[i].observed)
        BY <1>1, <2>1, <2>2 DEF Ongoing
      <4>2. \A i \in DOMAIN revealed.changes : Ongoing(entity, revealed.changes[i].observed)
        BY <1>1, <2>1
      <4> QED
        BY <2>4, <4>1, <4>2
    <3> QED
      BY <2>4, <2>5, <3>1, <3>2, <3>3, <3>4 DEF Moves, Seen, o
<1>4. CASE ~entity.open /\ seen.presence.count < Window
  <2>1. o = Outcome(seen, <<>>)
    BY <1>2, <1>4
  <2>2. Silent(entity, o) /\ o.entity = seen
    BY <1>1, <2>1 DEF Silent, Outcome
  <2> QED
    BY <1>1, <1>4, <2>2, SilentMoves DEF Seen, o
<1>5. CASE ~entity.open /\ ~(seen.presence.count < Window)
  <2>1. seen.presence.count >= Window /\ seen.presence.count > 0
    BY <1>1, <1>5 DEF EntityType, Streaks, Window
  <2>2. o = Appear(id, seen, item, frame)
    BY <1>2, <1>5
  <2>3. /\ Moves(id, seen, frame, o) /\ o.entity.observed_frame = seen.observed_frame
        /\ o.entity.bounds = seen.bounds
        /\ \A i \in DOMAIN o.changes : o.changes[i].observed = seen.presence.since
    BY <1>1, <1>5, <2>1, <2>2, AppearMoves
  <2>4. Lives(id, entity, o)
    BY <1>1, <1>5, <2>3 DEF Moves, Lives
  <2> QED
    BY <1>1, <1>5, <2>1, <2>3, <2>4 DEF Moves, Seen, o
<1> QED
  BY <1>3, <1>4, <1>5

-----------------------------------------------------------------------------
(* Sequences of sequences, and ids in order *)

\* The step of FlattenSeq.
Join(given, flat, piece) == flat \o piece

\* The folds of Join.
Joins == INSTANCE FoldSteps WITH Op <- Join

\* What FlattenSeq joins is a sequence of what the pieces hold.
LEMMA FlattenIsSeq ==
  ASSUME NEW S, NEW seqs \in Seq(Seq(S))
  PROVE  FlattenSeq(seqs) \in Seq(S)
<1> DEFINE n == Len(seqs)
           Solves(g) == g = [i \in 1 .. n |-> IF i = 1 THEN seqs[i] ELSE g[i - 1] \o seqs[i]]
           flatten == CHOOSE g : Solves(g)
<1>1. n \in Nat /\ DOMAIN seqs = 1 .. n /\ \A i \in 1 .. n : seqs[i] \in Seq(S)
  OBVIOUS
<1> DEFINE none == <<>>
<1>0. none \in Seq(S) /\ \A t \in Seq(S) : none \o t = t
  OBVIOUS
<1>2. CASE n = 0
  <2>1. FlattenSeq(seqs) = none
    <3>1. seqs = <<>>
      BY <1>2
    <3> QED
      BY <3>1 DEF FlattenSeq
  <2> HIDE DEF none
  <2> QED
    BY <1>0, <2>1
<1>3. CASE n # 0
  <2>1. FlattenSeq(seqs) = flatten[n]
    BY <1>3 DEF FlattenSeq
  <2> HIDE DEF n, none
  <2>2. PICK acc : Joins!Trace(0, none, seqs, n, acc)
    BY <1>1, Joins!FoldTrace
  <2>3. acc[0] = none /\ \A i \in 1 .. n : acc[i] = acc[i - 1] \o seqs[i]
    BY <2>2 DEF Joins!Trace, Join
  <2>4. \A a, b \in Seq(S) : a \o b \in Seq(S)
    OBVIOUS
  <2> DEFINE T == {i \in 0 .. n : acc[i] \in Seq(S)}
  <2>5. \A i \in 0 .. n : i \in T
    <3>1. 0 \in T
      BY <1>0, <1>1, <2>3
    <3>2. ASSUME NEW i \in 1 .. n, i - 1 \in T PROVE i \in T
      <4>1. acc[i - 1] \in Seq(S) /\ seqs[i] \in Seq(S) /\ i \in 0 .. n
        BY <1>1, <3>2
      <4> QED
        BY <2>3, <2>4, <4>1
    <3> HIDE DEF T
    <3> QED
      BY <1>1, <3>1, <3>2, Joins!BoundedInduction
  <2>6. 1 \in 1 .. n /\ 1 - 1 = 0
    BY <1>1, <1>3
  <2>7. acc[1] = seqs[1]
    BY <1>0, <1>1, <2>3, <2>6
  <2> DEFINE g == [i \in 1 .. n |-> acc[i]]
  <2>8. Solves(g)
    <3>1. ASSUME NEW i \in 1 .. n
          PROVE  g[i] = IF i = 1 THEN seqs[i] ELSE g[i - 1] \o seqs[i]
      <4>1. CASE i = 1
        BY <2>7, <4>1
      <4>2. CASE i # 1
        <5>1. i - 1 \in 1 .. n
          BY <1>1, <4>2
        <5> QED
          BY <2>3, <4>2, <5>1
      <4> QED
        BY <4>1, <4>2
    <3> QED
      BY <3>1
  <2>9. Solves(flatten)
    <3> HIDE DEF g, Solves
    <3> QED
      BY <2>8
  <2> HIDE DEF flatten, g
  <2> DEFINE U == {i \in 0 .. n : i = 0 \/ flatten[i] = acc[i]}
  <2>10. \A i \in 0 .. n : i \in U
    <3>1. 0 \in U
      BY <1>1
    <3>2. ASSUME NEW i \in 1 .. n, i - 1 \in U PROVE i \in U
      <4>1. CASE i = 1
        <5>1. flatten[i] = seqs[i]
          BY <2>9, <4>1
        <5> QED
          BY <1>1, <2>7, <4>1, <5>1
      <4>2. CASE i # 1
        <5>1. i - 1 # 0 /\ flatten[i - 1] = acc[i - 1]
          BY <3>2, <4>2
        <5>2. flatten[i] = flatten[i - 1] \o seqs[i]
          BY <2>9, <4>2
        <5>3. flatten[i] = acc[i]
          BY <2>3, <5>1, <5>2
        <5> QED
          BY <1>1, <5>3
      <4> QED
        BY <4>1, <4>2
    <3> HIDE DEF U
    <3> QED
      BY <1>1, <3>1, <3>2, Joins!BoundedInduction
  <2>11. flatten[n] = acc[n]
    BY <1>1, <1>3, <2>10
  <2>12. acc[n] \in Seq(S)
    BY <1>1, <2>5
  <2> QED
    BY <2>1, <2>11, <2>12
<1> QED
  BY <1>1, <1>2, <1>3

\* Every finite set of ids can be listed in ascending order.
LEMMA IdsCanBeListed ==
  ASSUME NEW ids, IsFiniteSet(ids), ids \subseteq Nat
  PROVE  \E order \in [1 .. Cardinality(ids) -> ids] :
           \A i, j \in DOMAIN order : i < j => order[i] < order[j]
<1> DEFINE Listed(s, n) ==
             \E order \in [1 .. n -> s] : \A i, j \in 1 .. n : i < j => order[i] < order[j]
           T == {n \in Nat : \A s \in SUBSET ids : Cardinality(s) = n => Listed(s, n)}
<1>1. \A s \in SUBSET ids : IsFiniteSet(s) /\ Cardinality(s) \in Nat
  BY FS_Subset, FS_CardinalityType
<1>2. 0 \in T
  <2>1. \A s : Listed(s, 0)
    <3> SUFFICES ASSUME NEW s PROVE Listed(s, 0)
      OBVIOUS
    <3> DEFINE order == [i \in 1 .. 0 |-> 0]
    <3>1. order \in [1 .. 0 -> s] /\ \A i, j \in 1 .. 0 : i < j => order[i] < order[j]
      OBVIOUS
    <3> HIDE DEF order
    <3> QED
      BY <3>1
  <2> QED
    BY <2>1
<1>3. \A n \in Nat : n \in T => n + 1 \in T
  <2> SUFFICES ASSUME NEW n \in Nat, \A s \in SUBSET ids : Cardinality(s) = n => Listed(s, n),
                      NEW s \in SUBSET ids, Cardinality(s) = n + 1
               PROVE  Listed(s, n + 1)
    OBVIOUS
  <2>1. s # {}
    BY FS_EmptySet
  <2>2. PICK least \in s : \A y \in s : ~ (<<y, least>> \in OpToRel(<, Nat))
    BY <2>1, NatLessThanWellFounded, WFMin
  <2>3. ASSUME NEW y \in s \ {least} PROVE least < y
    <3>1. y \in Nat /\ least \in Nat /\ y # least
      OBVIOUS
    <3>2. ~ (y < least)
      BY <2>2, <3>1 DEF OpToRel
    <3> QED
      BY <3>1, <3>2
  <2>4. Cardinality(s \ {least}) = n
    BY <1>1, FS_RemoveElement
  <2>5. Listed(s \ {least}, n)
    BY <2>4
  <2>6. PICK rest \in [1 .. n -> s \ {least}] :
               \A i, j \in 1 .. n : i < j => rest[i] < rest[j]
    BY <2>5
  <2> DEFINE order == [i \in 1 .. n + 1 |-> IF i = 1 THEN least ELSE rest[i - 1]]
  <2>7. \A i \in 2 .. n + 1 : i - 1 \in 1 .. n /\ order[i] = rest[i - 1]
    OBVIOUS
  <2>8. order \in [1 .. n + 1 -> s]
    BY <2>7
  <2>9. ASSUME NEW i \in 1 .. n + 1, NEW j \in 1 .. n + 1, i < j
        PROVE  order[i] < order[j]
    <3>1. j \in 2 .. n + 1
      BY <2>9
    <3>2. CASE i = 1
      BY <2>3, <2>6, <2>7, <3>1, <3>2
    <3>3. CASE i # 1
      <4>1. i \in 2 .. n + 1 /\ i - 1 < j - 1
        BY <2>9, <3>3
      <4> QED
        BY <2>6, <2>7, <3>1, <4>1
    <3> QED
      BY <3>2, <3>3
  <2> QED
    BY <2>8, <2>9
<1> HIDE DEF T
<1>4. \A n \in Nat : n \in T
  BY <1>2, <1>3, Joins!SetInduction
<1>5. ids \in SUBSET ids
  OBVIOUS
<1>6. Listed(ids, Cardinality(ids))
  BY <1>1, <1>4, <1>5 DEF T
<1> QED
  BY <1>6

\* InOrder lists each id of a finite set once.
LEMMA InOrderLists ==
  ASSUME NEW ids, IsFiniteSet(ids), ids \subseteq Nat
  PROVE  /\ Cardinality(ids) \in Nat
         /\ InOrder(ids) \in [1 .. Cardinality(ids) -> ids]
         /\ \A i, j \in 1 .. Cardinality(ids) : InOrder(ids)[i] = InOrder(ids)[j] => i = j
         /\ \A id \in ids : \E i \in 1 .. Cardinality(ids) : InOrder(ids)[i] = id
<1> DEFINE n == Cardinality(ids)
           order == InOrder(ids)
<1>1. n \in Nat
  BY FS_CardinalityType
<1>2. order \in [1 .. n -> ids] /\ \A i, j \in DOMAIN order : i < j => order[i] < order[j]
  BY IdsCanBeListed DEF InOrder
<1> HIDE DEF n, order
<1>3. \A i, j \in 1 .. n : order[i] = order[j] => i = j
  <2> SUFFICES ASSUME NEW i \in 1 .. n, NEW j \in 1 .. n, order[i] = order[j], i # j PROVE FALSE
    OBVIOUS
  <2>1. order[i] \in Nat /\ order[j] \in Nat /\ DOMAIN order = 1 .. n
    BY <1>2
  <2>2. i < j \/ j < i
    OBVIOUS
  <2> QED
    BY <1>2, <2>1, <2>2
<1>4. order \in Injection(1 .. n, ids)
  BY <1>2, <1>3 DEF Injection, IsInjective
<1>5. \A id \in ids : \E i \in 1 .. n : order[i] = id
  <2>1. IsFiniteSet(1 .. n) /\ Cardinality(1 .. n) = n
    BY <1>1, FS_Interval
  <2>2. order \in Surjection(1 .. n, ids)
    BY <1>1, <1>4, <2>1, FS_Injection DEF n
  <2> QED
    BY <2>2 DEF Surjection
<1> QED
  BY <1>1, <1>2, <1>3, <1>5 DEF n, order

-----------------------------------------------------------------------------
(* Publishing *)

\* The events that tell these changes next.
Numbered(changes) ==
  [i \in DOMAIN changes |->
     [seq |-> event_sequence + i, epoch |-> epoch, change |-> changes[i]]]

\* What Publish leaves behind.
LEMMA PublishFacts ==
  ASSUME QueueKept, epoch \in 1 .. MaxEpoch, NEW changes \in Seq(ChangeType), NEW room \in Nat,
         Publish(changes, room)
  PROVE  /\ events' \in Seq(EventType) /\ Len(events') <= MaxEvents
         /\ event_sequence' \in Nat /\ dropped_events' \in Nat
         /\ event_sequence' = consumer.drained + Len(events') + dropped_events'
         /\ \A i \in DOMAIN events' : events'[i].seq <= event_sequence' /\ events'[i].epoch <= epoch
         /\ \A i, j \in DOMAIN events' : i < j => events'[i].seq < events'[j].seq
         /\ \A i \in DOMAIN events' :
              \/ \E j \in DOMAIN events : events'[i] = events[j]
              \/ \E j \in DOMAIN changes :
                   events'[i].epoch = epoch /\ events'[i].change = changes[j]
         /\ dropped_events' >= dropped_events
         /\ dropped_events' = dropped_events => events' = events \o Numbered(changes)
         /\ ~Overflows(changes, room) => dropped_events' = dropped_events
<1> DEFINE numbered == Numbered(changes)
           queue == events \o numbered
           space == Min2(MaxEvents, room)
           excess == IF changes = <<>> \/ Len(queue) <= space THEN 0 ELSE Len(queue) - space
           m == Len(events)
           n == Len(changes)
<1>1. /\ m \in Nat /\ n \in Nat /\ DOMAIN events = 1 .. m /\ DOMAIN changes = 1 .. n
      /\ event_sequence \in Nat /\ dropped_events \in Nat /\ consumer.drained \in Nat
      /\ \A i \in 1 .. m : events[i] \in EventType
      /\ \A i \in 1 .. n : changes[i] \in ChangeType
      /\ MaxEvents \in Nat /\ m <= MaxEvents
  <2>1. MaxEvents \in Nat
    BY LimitsAssumption
  <2>2. /\ events \in Seq(EventType) /\ m <= MaxEvents
        /\ event_sequence \in Nat /\ dropped_events \in Nat /\ consumer.drained \in Nat
    BY DEF QueueKept
  <2>3. DOMAIN events = 1 .. m /\ m \in Nat /\ \A i \in 1 .. m : events[i] \in EventType
    BY <2>2
  <2>4. DOMAIN changes = 1 .. n /\ n \in Nat /\ \A i \in 1 .. n : changes[i] \in ChangeType
    OBVIOUS
  <2> QED
    BY <2>1, <2>2, <2>3, <2>4
<1>2. /\ events' = SubSeq(queue, excess + 1, Len(queue))
      /\ event_sequence' = event_sequence + n
      /\ dropped_events' = dropped_events + excess
  BY DEF Publish, Numbered
<1>3. /\ numbered \in Seq(EventType) /\ Len(numbered) = n
      /\ \A i \in 1 .. n : numbered[i] = [seq |-> event_sequence + i, epoch |-> epoch,
                                          change |-> changes[i]]
  <2>1. \A i \in 1 .. n : [seq |-> event_sequence + i, epoch |-> epoch,
                           change |-> changes[i]] \in EventType
    BY <1>1 DEF EventType
  <2> QED
    BY <1>1, <2>1 DEF Numbered
<1>4. events \in Seq(EventType)
  BY DEF QueueKept
<1> HIDE DEF numbered
<1>5. /\ queue \in Seq(EventType) /\ Len(queue) = m + n
      /\ \A i \in 1 .. m + n : queue[i] = IF i <= m THEN events[i] ELSE numbered[i - m]
  <2>0. numbered \in Seq(EventType)
    BY <1>3
  <2>1. /\ events \o numbered \in Seq(EventType)
        /\ Len(events \o numbered) = Len(events) + Len(numbered)
        /\ \A i \in 1 .. Len(events) + Len(numbered) :
             (events \o numbered)[i] =
               IF i <= Len(events) THEN events[i] ELSE numbered[i - Len(events)]
    BY <1>4, <2>0, ConcatProperties
  <2> QED
    BY <1>3, <2>1
<1> HIDE DEF queue, m, n
<1>6. space \in Nat /\ space <= MaxEvents
  BY <1>1 DEF Min2
<1>7. /\ excess \in Nat /\ excess <= m + n
      /\ excess = 0 => m + n <= space \/ changes = <<>>
      /\ m + n - excess <= MaxEvents
      /\ ~Overflows(changes, room) => excess = 0
  <2>1. changes = <<>> => n = 0
    BY DEF n
  <2> QED
    BY <1>1, <1>5, <1>6, <2>1 DEF Overflows, m, n
<1> HIDE DEF excess, space
<1>8. /\ events' \in Seq(EventType) /\ Len(events') = m + n - excess
      /\ \A i \in 1 .. m + n - excess : events'[i] = queue[excess + i]
  <2>1. \A i \in excess + 1 .. m + n : queue[i] \in EventType
    BY <1>1, <1>5, <1>7
  <2>2. excess + 1 \in Nat /\ m + n \in Nat
    BY <1>1, <1>7
  <2> DEFINE a == excess + 1
             b == m + n
  <2>3. (IF a <= b THEN b - a + 1 ELSE 0) = m + n - excess
    BY <1>1, <1>7
  <2>4. Len(queue) = b /\ a \in 1 .. b + 1 /\ b \in Nat
    BY <1>1, <1>5, <1>7
  <2>5. \A i \in 1 .. m + n - excess : (a - 1) + i = excess + i /\ a + i - 1 = excess + i
    BY <1>1, <1>7
  <2> HIDE DEF a, b
  <2>6. events' = SubSeq(queue, a, b)
    BY <1>2, <2>4 DEF a, b
  <2>7. /\ SubSeq(queue, a, b) \in Seq(EventType)
        /\ Len(SubSeq(queue, a, b)) = IF a <= b THEN b - a + 1 ELSE 0
        /\ \A i \in 1 .. b - a + 1 : SubSeq(queue, a, b)[i] = queue[a + i - 1]
    BY <1>5, <2>4, SubSeqProperties
  <2> QED
    BY <2>3, <2>5, <2>6, <2>7 DEF a, b
<1>9. ASSUME NEW i \in DOMAIN events'
      PROVE  /\ excess + i \in 1 .. m + n
             /\ excess + i <= m => events'[i] = events[excess + i]
             /\ excess + i > m =>
                  /\ excess + i - m \in 1 .. n
                  /\ events'[i] = [seq |-> event_sequence + (excess + i - m), epoch |-> epoch,
                                   change |-> changes[excess + i - m]]
  <2>1. i \in 1 .. m + n - excess /\ i \in Nat
    BY <1>1, <1>7, <1>8
  <2>2. excess + i \in 1 .. m + n
    BY <1>1, <1>7, <2>1
  <2>3. events'[i] = queue[excess + i]
    BY <1>8, <2>1
  <2>4. CASE excess + i <= m
    BY <1>1, <1>5, <1>7, <2>1, <2>2, <2>3, <2>4
  <2>5. CASE excess + i > m
    <3>1. excess + i - m \in 1 .. n
      BY <1>1, <1>7, <2>1, <2>2, <2>5
    <3>2. events'[i] = numbered[excess + i - m]
      <4>1. ~ (excess + i <= m)
        BY <1>1, <1>7, <2>1, <2>5
      <4> QED
        BY <1>1, <1>5, <1>7, <2>1, <2>2, <2>3, <4>1
    <3> QED
      BY <1>1, <1>3, <2>2, <2>5, <3>1, <3>2
  <2> QED
    BY <1>1, <1>7, <2>1, <2>2, <2>4, <2>5
<1>10. /\ event_sequence' \in Nat /\ dropped_events' \in Nat
       /\ event_sequence' = consumer.drained + Len(events') + dropped_events'
       /\ dropped_events' >= dropped_events
  <2>1. event_sequence = consumer.drained + m + dropped_events
    BY DEF QueueKept, m
  <2> QED
    <3>1. event_sequence + n = consumer.drained + (m + n - excess) + (dropped_events + excess)
      BY <1>1, <1>7, <2>1
    <3>2. Len(events') = m + n - excess
      BY <1>8
    <3>3. event_sequence' = event_sequence + n /\ dropped_events' = dropped_events + excess
      BY <1>2
    <3> QED
      BY <1>1, <1>7, <3>1, <3>2, <3>3
<1>11. ASSUME NEW i \in DOMAIN events'
       PROVE  /\ events'[i].seq <= event_sequence' /\ events'[i].epoch <= epoch
              /\ \/ \E j \in DOMAIN events : events'[i] = events[j]
                 \/ \E j \in DOMAIN changes :
                      events'[i].epoch = epoch /\ events'[i].change = changes[j]
  <2>1. i \in Nat
    BY <1>8
  <2>2. CASE excess + i <= m
    <3>1. excess + i \in DOMAIN events /\ events'[i] = events[excess + i]
      BY <1>1, <1>9, <2>2
    <3>2. events[excess + i].seq \in Nat
      BY <1>1, <3>1 DEF EventType
    <3>3. events[excess + i].seq <= event_sequence /\ events[excess + i].epoch <= epoch
      BY <3>1 DEF QueueKept
    <3>4. event_sequence' = event_sequence + n
      BY <1>2
    <3>5. events'[i].seq <= event_sequence'
      BY <1>1, <3>1, <3>2, <3>3, <3>4
    <3> QED
      BY <3>1, <3>3, <3>5
  <2>3. CASE excess + i > m
    <3>1. excess + i - m \in DOMAIN changes /\ excess + i - m <= n
      BY <1>1, <1>9, <2>3
    <3>2. /\ events'[i].seq = event_sequence + (excess + i - m) /\ events'[i].epoch = epoch
          /\ events'[i].change = changes[excess + i - m]
      BY <1>9, <2>3
    <3>3. events'[i].seq <= event_sequence' /\ events'[i].epoch <= epoch
      <4>1. event_sequence' = event_sequence + n
        BY <1>2
      <4>2. epoch <= epoch
        OBVIOUS
      <4> QED
        BY <1>1, <1>7, <2>1, <3>1, <3>2, <4>1, <4>2
    <3> QED
      BY <3>1, <3>2, <3>3
  <2> QED
    BY <1>1, <1>7, <2>1, <2>2, <2>3
<1>12. ASSUME NEW i \in DOMAIN events', NEW j \in DOMAIN events', i < j
       PROVE  events'[i].seq < events'[j].seq
  <2>1. i \in Nat /\ j \in Nat
    BY <1>8
  <2>2. CASE excess + j <= m
    <3>1. excess + i <= m /\ excess + i < excess + j
      BY <1>1, <1>7, <1>12, <2>1, <2>2
    <3>2. excess + i \in DOMAIN events /\ excess + j \in DOMAIN events
      BY <1>1, <1>9, <2>2, <3>1
    <3> QED
      BY <1>9, <2>2, <3>1, <3>2 DEF QueueKept
  <2>3. CASE excess + j > m
    <3>1. events'[j].seq = event_sequence + (excess + j - m)
      BY <1>9, <2>3
    <3>2. CASE excess + i <= m
      <4>1. events'[i].seq <= event_sequence /\ events'[i].seq \in Nat
        BY <1>1, <1>9, <3>2 DEF QueueKept, EventType
      <4> QED
        BY <1>1, <1>7, <2>1, <2>3, <3>1, <4>1
    <3>3. CASE excess + i > m
      <4>1. events'[i].seq = event_sequence + (excess + i - m)
        BY <1>9, <3>3
      <4> QED
        BY <1>1, <1>7, <1>12, <2>1, <3>1, <4>1
    <3> QED
      BY <1>1, <1>7, <2>1, <3>2, <3>3
  <2> QED
    BY <1>1, <1>7, <2>1, <2>2, <2>3
<1>13. dropped_events' = dropped_events => events' = queue
  <2> SUFFICES ASSUME dropped_events' = dropped_events PROVE events' = queue
    OBVIOUS
  <2>1. excess = 0
    BY <1>1, <1>2, <1>7
  <2>2. Len(events') = Len(queue) /\ \A i \in 1 .. Len(queue) : events'[i] = queue[i]
    BY <1>1, <1>5, <1>8, <2>1
  <2> QED
    BY <1>5, <1>8, <2>2, SeqEqual
<1>14. ~Overflows(changes, room) => dropped_events' = dropped_events
  BY <1>1, <1>2, <1>7
<1>15. Len(events') <= MaxEvents
  BY <1>7, <1>8
<1> QED
  BY <1>8, <1>10, <1>11, <1>12, <1>13, <1>14, <1>15 DEF queue, numbered

-----------------------------------------------------------------------------
(* Telling the consumer *)

\* One change told under an epoch, and one event, to a consumer's view.
TellOf(ep, view, change) == Replayed(view, [seq |-> 0, epoch |-> ep, change |-> change])

\* One event, to a view.
ReplayOf(given, view, event) == Replayed(view, event)

\* The folds that tell changes.
Tellings == INSTANCE FoldSteps WITH Op <- TellOf

\* The folds that replay events.
Replays == INSTANCE FoldSteps WITH Op <- ReplayOf

\* The view of a consumer that knows every open lifecycle, and heard of no other.
Truth(ep, population) == [open |-> Opened(ep, population), sound |-> TRUE]

\* The view after all these changes are told.
Told(ep, view, changes) == Tellings!Folded(ep, view, changes)

\* What telling one change of an instance does to a view that is true.
LEMMA TellShort ==
  ASSUME NEW ep, NEW population, NEW change,
         NEW instance, instance = [epoch |-> ep, id |-> change.id, instance |-> change.instance]
  PROVE  LET view == TellOf(ep, Truth(ep, population), change)
         IN  /\ change.kind = "kAppeared" /\ instance \notin Opened(ep, population) =>
                  view = [open |-> Opened(ep, population) \cup {instance}, sound |-> TRUE]
             /\ change.kind \in {"kDisappeared", "kSourceReset"} /\ instance \in Opened(ep, population) =>
                  view = [open |-> Opened(ep, population) \ {instance}, sound |-> TRUE]
             /\ change.kind \in Updates /\ instance \in Opened(ep, population) =>
                  view = Truth(ep, population)
<1> DEFINE event == [seq |-> 0, epoch |-> ep, change |-> change]
           open == Opened(ep, population)
<1>1. Instance(event) = instance /\ event.change = change
  BY DEF Instance
<1> HIDE DEF event, open
<1>2. TellOf(ep, Truth(ep, population), change) = Replayed([open |-> open, sound |-> TRUE], event)
  BY DEF TellOf, Truth, event, open
<1>3. CASE change.kind = "kAppeared" /\ instance \notin open
  BY <1>1, <1>2, <1>3 DEF Replayed, Updates, open
<1>4. CASE change.kind \in {"kDisappeared", "kSourceReset"} /\ instance \in open
  BY <1>1, <1>2, <1>4 DEF Replayed, Updates, open
<1>5. CASE change.kind \in Updates /\ instance \in open
  BY <1>1, <1>2, <1>5 DEF Replayed, Updates, open, Truth
<1> QED
  BY <1>3, <1>4, <1>5 DEF open

\* What an observation makes of an entity is what its changes tell.
LEMMA LivesAreTold ==
  ASSUME NEW ep, NEW population, NEW id \in DOMAIN population, NEW outcome,
         population = [i \in DOMAIN population |-> population[i]],
         population[id].open \in BOOLEAN, outcome.entity.open \in BOOLEAN,
         Lives(id, population[id], outcome), NEW S, outcome.changes \in Seq(S)
  PROVE  Told(ep, Truth(ep, population), outcome.changes)
           = Truth(ep, [population EXCEPT ![id] = outcome.entity])
<1> DEFINE after == [population EXCEPT ![id] = outcome.entity]
           changes == outcome.changes
           n == Len(changes)
           before == [epoch |-> ep, id |-> id, instance |-> population[id].instance]
           now == [epoch |-> ep, id |-> id, instance |-> outcome.entity.instance]
           others == Opened(ep, [i \in DOMAIN population \ {id} |-> population[i]])
<1>1. n \in Nat /\ DOMAIN changes = 1 .. n
  OBVIOUS
<1>2. /\ DOMAIN after = DOMAIN population /\ after[id] = outcome.entity
      /\ \A i \in DOMAIN population \ {id} : after[i] = population[i]
  OBVIOUS
<1>3. /\ Opened(ep, population) = others \cup (IF population[id].open THEN {before} ELSE {})
      /\ Opened(ep, after) = others \cup (IF outcome.entity.open THEN {now} ELSE {})
  <2> DEFINE Point(p, i) == [epoch |-> ep, id |-> i, instance |-> p[i].instance]
             rest == {i \in DOMAIN population \ {id} : population[i].open}
  <2>1. others = {Point(population, i) : i \in rest}
    BY DEF Opened
  <2>2. others = {Point(after, i) : i \in rest}
    BY <1>2, <2>1
  <2>3. Opened(ep, population)
          = {Point(population, i) : i \in rest \cup (IF population[id].open THEN {id} ELSE {})}
    BY DEF Opened
  <2>4. Opened(ep, after)
          = {Point(after, i) : i \in rest \cup (IF outcome.entity.open THEN {id} ELSE {})}
    BY <1>2 DEF Opened
  <2>5. Point(population, id) = before /\ Point(after, id) = now
    BY <1>2
  <2> HIDE DEF after, rest, others, before, now, Point
  <2>6. ASSUME NEW p, NEW more
        PROVE  {Point(p, i) : i \in rest \cup (IF more THEN {id} ELSE {})}
                 = {Point(p, i) : i \in rest} \cup (IF more THEN {Point(p, id)} ELSE {})
    OBVIOUS
  <2>7. Opened(ep, population)
          = {Point(population, i) : i \in rest}
              \cup (IF population[id].open THEN {Point(population, id)} ELSE {})
    BY <2>3, <2>6
  <2>8. Opened(ep, after)
          = {Point(after, i) : i \in rest}
              \cup (IF outcome.entity.open THEN {Point(after, id)} ELSE {})
    BY <2>4, <2>6
  <2> QED
    BY <2>1, <2>2, <2>5, <2>7, <2>8
<1>4. before \notin others /\ now \notin others
  BY DEF Opened
<1> HIDE DEF after, changes, others, n, before, now
<1>5. CASE /\ outcome.entity.open = population[id].open
           /\ outcome.entity.instance = population[id].instance
           /\ changes # <<>> => population[id].open
           /\ \A i \in DOMAIN changes :
                /\ changes[i].kind \in Updates
                /\ changes[i].id = id /\ changes[i].instance = population[id].instance
  <2>1. Opened(ep, after) = Opened(ep, population)
    BY <1>3, <1>5 DEF before, now
  <2>2. ASSUME NEW i \in 1 .. n
        PROVE  TellOf(ep, Truth(ep, population), changes[i]) = Truth(ep, population)
    <3>1. changes # <<>>
      BY <1>1, <2>2 DEF n, changes
    <3>2. before \in Opened(ep, population)
      BY <1>3, <1>5, <3>1
    <3>3. before = [epoch |-> ep, id |-> changes[i].id, instance |-> changes[i].instance]
      BY <1>1, <1>5, <2>2 DEF before
    <3> QED
      BY <1>1, <1>5, <2>2, <3>2, <3>3, TellShort
  <2>3. Told(ep, Truth(ep, population), changes) = Truth(ep, population)
    <3> DEFINE base == Truth(ep, population)
    <3> HIDE DEF base
    <3>1. \A i \in 1 .. n : TellOf(ep, base, changes[i]) = base
      BY <2>2 DEF base
    <3>2. Tellings!Folded(ep, base, changes) = base
      BY <1>1, <3>1, Tellings!FoldKeeps
    <3> QED
      BY <3>2 DEF base, Told
  <2> QED
    BY <2>1, <2>3 DEF Truth, after, changes
<1>6. ASSUME NEW change, Len(changes) = 1, change = changes[1]
      PROVE  Told(ep, Truth(ep, population), changes) = TellOf(ep, Truth(ep, population), change)
  <2> DEFINE base == Truth(ep, population)
             one == <<change>>
  <2>1. changes = one
    BY <1>1, <1>6 DEF changes
  <2> HIDE DEF one, base
  <2>2. Tellings!Folded(ep, base, <<change>>) = TellOf(ep, base, change)
    BY Tellings!FoldShort
  <2> QED
    BY <2>1, <2>2 DEF Told, one, base
<1>7. CASE /\ ~population[id].open /\ outcome.entity.open
           /\ Len(changes) = 1
           /\ changes[1].kind = "kAppeared" /\ changes[1].id = id
           /\ changes[1].instance = outcome.entity.instance
  <2>1. now = [epoch |-> ep, id |-> changes[1].id, instance |-> changes[1].instance]
    BY <1>7 DEF now
  <2>2. Opened(ep, population) = others /\ Opened(ep, after) = others \cup {now}
    BY <1>3, <1>7
  <2>3. TellOf(ep, Truth(ep, population), changes[1])
          = [open |-> Opened(ep, population) \cup {now}, sound |-> TRUE]
    BY <1>4, <1>7, <2>1, <2>2, TellShort
  <2> QED
    BY <1>6, <1>7, <2>2, <2>3 DEF Truth, after, changes
<1>8. CASE /\ population[id].open /\ ~outcome.entity.open
           /\ Len(changes) = 1
           /\ changes[1].kind = "kDisappeared" /\ changes[1].id = id
           /\ changes[1].instance = population[id].instance
  <2>1. before = [epoch |-> ep, id |-> changes[1].id, instance |-> changes[1].instance]
    BY <1>8 DEF before
  <2>2. Opened(ep, population) = others \cup {before} /\ Opened(ep, after) = others
    BY <1>3, <1>8
  <2>3. TellOf(ep, Truth(ep, population), changes[1])
          = [open |-> Opened(ep, population) \ {before}, sound |-> TRUE]
    BY <1>8, <2>1, <2>2, TellShort
  <2>4. Opened(ep, population) \ {before} = others
    BY <1>4, <2>2
  <2> QED
    BY <1>6, <1>8, <2>2, <2>3, <2>4 DEF Truth, after, changes
<1> QED
  BY <1>5, <1>7, <1>8 DEF Lives, changes

-----------------------------------------------------------------------------
(* What one frame may make of the population *)

\* The entity is as it was when the frame began, or new.
Untouched(population, id) ==
  population[id] = NewEntity \/ (id \in DOMAIN entities /\ population[id] = entities[id])

\* What one frame may have made of an entity: each window it has running began at
\* this frame or ran before, and an observation of this frame lies in what the
\* ledger covers.
Grown(population, id, frame, ledger) ==
  /\ population[id] \in EntityType
  /\ \A since : Ongoing(population[id], since) =>
       since = frame \/ (id \in DOMAIN entities /\ Ongoing(entities[id], since))
  /\ \/ population[id].observed_frame = 0
     \/ id \in DOMAIN entities /\ population[id].observed_frame = entities[id].observed_frame
     \/ /\ population[id].observed_frame = frame
        /\ ~ReplanFrames => Covered(ledger, population[id].bounds)

\* A change of this frame closes a window that an entity had running before it.
FromWindow(change, frame) ==
  /\ change.confirmed = frame /\ change.kind # "kSourceReset"
  /\ change.id \in DOMAIN entities /\ Ongoing(entities[change.id], change.observed)

\* What is made of the population while a frame is handled: only the identities
\* that are done have changed, open lifecycles keep their place, and a consumer
\* that knew the truth before, told the changes so far, knows it still.
Sound(population, changes, done, frame, ledger) ==
  /\ population = [id \in DOMAIN population |-> population[id]]
  /\ DOMAIN population \subseteq Ids /\ IsFiniteSet(DOMAIN population)
  /\ Cardinality(DOMAIN population) <= MaxEntities
  /\ \A id \in DOMAIN population : Grown(population, id, frame, ledger)
  /\ \A id \in DOMAIN population \ done : Untouched(population, id)
  /\ \A id \in DOMAIN entities : entities[id].open => id \in DOMAIN population
  /\ changes \in Seq(ChangeType)
  /\ \A i \in DOMAIN changes : FromWindow(changes[i], frame) /\ changes[i].id \in done
  /\ Told(epoch, Truth(epoch, entities), changes) = Truth(epoch, population)

\* No lifecycle that was open when the frame began is closed.
StillOpen(population) ==
  \A id \in DOMAIN entities : entities[id].open => id \in DOMAIN population /\ population[id].open

\* The frame and the generation that stand for none are numbers like the others.
LEMMA FrameZero == 0 \in Frames /\ 0 \in Generations
BY LimitsAssumption DEF Frames, Generations

\* A new entity is closed, was not observed and has no window running.
LEMMA NewEntityIsTyped ==
  /\ NewEntity \in EntityType /\ \A since : ~Ongoing(NewEntity, since)
  /\ ~NewEntity.open /\ NewEntity.observed_frame = 0
<1>1. NoCandidate \in [since : Frames, look : SeenLooks] /\ NoStreak \in Streaks
  BY FrameZero, NoOnes DEF NoCandidate
<1>2. NewEntity \in EntityType
  BY FrameZero, NoOnes, <1>1 DEF NewEntity, EntityType
<1>3. ~(NoStreak.count > 0) /\ ~(\E since : NoCandidate.since = since /\ since > 0)
  BY DEF NoStreak, NoCandidate
<1>4. /\ NewEntity.presence = NoStreak /\ NewEntity.absence = NoStreak
      /\ NewEntity.occlusion = NoStreak /\ NewEntity.candidate = NoCandidate
      /\ ~NewEntity.open /\ NewEntity.observed_frame = 0
  BY DEF NewEntity
<1> QED
  BY <1>2, <1>3, <1>4 DEF Ongoing

\* A frame begins soundly.
LEMMA StartIsSound ==
  ASSUME EntitiesKept, NEW frame, NEW ledger
  PROVE  Sound(entities, <<>>, {}, frame, ledger) /\ StillOpen(entities)
<1> DEFINE none == <<>>
<1>1. none \in Seq(ChangeType) /\ DOMAIN none = {}
  OBVIOUS
<1>2. Told(epoch, Truth(epoch, entities), none) = Truth(epoch, entities)
  <2> HIDE DEF none
  <2> DEFINE base == Truth(epoch, entities)
  <2> HIDE DEF base
  <2>1. Tellings!Folded(epoch, base, <<>>) = base
    BY Tellings!FoldShort
  <2> QED
    BY <2>1 DEF Told, none, base
<1> HIDE DEF none
<1>3. \A id \in DOMAIN entities : entities[id] \in EntityType
  BY DEF EntitiesKept
<1>4. \A id \in DOMAIN entities : Grown(entities, id, frame, ledger) /\ Untouched(entities, id)
  BY <1>3 DEF Grown, Untouched
<1>5. Sound(entities, none, {}, frame, ledger)
  BY <1>1, <1>2, <1>4 DEF Sound, EntitiesKept
<1> QED
  BY <1>5 DEF StillOpen, none

\* What was not touched has only the windows it came with.
LEMMA UntouchedWindows ==
  ASSUME NEW population, NEW id, Untouched(population, id), NEW since,
         Ongoing(population[id], since)
  PROVE  id \in DOMAIN entities /\ Ongoing(entities[id], since)
BY NewEntityIsTyped DEF Untouched

\* Looking up or making room for an identity keeps the population sound.
LEMMA HouseSound ==
  ASSUME NEW population, NEW changes, NEW done, NEW frame, NEW ledger,
         Sound(population, changes, done, frame, ledger), StillOpen(population),
         NEW id \in Ids
  PROVE  LET ensured == Ensured(population, id)
         IN  /\ Sound(ensured.population, changes, done, frame, ledger)
             /\ StillOpen(ensured.population)
             /\ ensured.lost \in {0, 1}
             /\ \A i \in DOMAIN ensured.population :
                  i # id => i \in DOMAIN population /\ ensured.population[i] = population[i]
<1> DEFINE ensured == Ensured(population, id)
           With(p) == [i \in DOMAIN p \cup {id} |-> IF i = id THEN NewEntity ELSE p[i]]
           closed == ClosedIds(population)
           room == Without(population, LeastOf(closed))
<1>0. /\ population = [i \in DOMAIN population |-> population[i]]
      /\ DOMAIN population \subseteq Ids /\ IsFiniteSet(DOMAIN population)
      /\ Cardinality(DOMAIN population) <= MaxEntities
      /\ \A i \in DOMAIN population : Grown(population, i, frame, ledger)
      /\ \A i \in DOMAIN population \ done : Untouched(population, i)
      /\ changes \in Seq(ChangeType)
      /\ \A i \in DOMAIN changes : FromWindow(changes[i], frame)
      /\ Told(epoch, Truth(epoch, entities), changes) = Truth(epoch, population)
  BY DEF Sound
<1>1. ASSUME NEW p, p = [i \in DOMAIN p |-> p[i]], DOMAIN p \subseteq DOMAIN population, id \notin DOMAIN population,
             \A i \in DOMAIN p : p[i] = population[i],
             \A i \in DOMAIN population \ DOMAIN p : ~population[i].open,
             Cardinality(DOMAIN p) < MaxEntities
      PROVE  /\ Sound(With(p), changes, done, frame, ledger) /\ StillOpen(With(p))
             /\ \A i \in DOMAIN With(p) : i # id => i \in DOMAIN population /\ With(p)[i] = population[i]
  <2> DEFINE q == With(p)
  <2>1. /\ DOMAIN q = DOMAIN p \cup {id} /\ q[id] = NewEntity
        /\ \A i \in DOMAIN p : q[i] = population[i]
        /\ q = [i \in DOMAIN q |-> q[i]]
    BY <1>1
  <2> HIDE DEF q
  <2>2. IsFiniteSet(DOMAIN q) /\ Cardinality(DOMAIN q) <= MaxEntities /\ DOMAIN q \subseteq Ids
    <3>1. IsFiniteSet(DOMAIN p) /\ Cardinality(DOMAIN p) \in Nat /\ id \notin DOMAIN p
      BY <1>0, <1>1, FS_Subset, FS_CardinalityType
    <3>2. IsFiniteSet(DOMAIN p \cup {id}) /\ Cardinality(DOMAIN p \cup {id}) = Cardinality(DOMAIN p) + 1
      BY <3>1, FS_AddElement
    <3>3. MaxEntities \in Nat
      BY LimitsAssumption
    <3> QED
      BY <1>0, <1>1, <2>1, <3>1, <3>2, <3>3
  <2>3. \A i \in DOMAIN q : Grown(q, i, frame, ledger)
    <3> TAKE i \in DOMAIN q
    <3>1. CASE i = id
      BY <2>1, <3>1, NewEntityIsTyped DEF Grown
    <3>2. CASE i # id
      <4>1. i \in DOMAIN population /\ q[i] = population[i] /\ Grown(population, i, frame, ledger)
        BY <1>0, <1>1, <2>1, <3>2
      <4> QED
        BY <4>1 DEF Grown
    <3> QED
      BY <3>1, <3>2
  <2>4. \A i \in DOMAIN q \ done : Untouched(q, i)
    BY <1>0, <1>1, <2>1 DEF Untouched
  <2>5. Opened(epoch, q) = Opened(epoch, population)
    <3>1. {i \in DOMAIN q : q[i].open} = {i \in DOMAIN population : population[i].open}
      BY <1>1, <2>1, NewEntityIsTyped
    <3>2. \A i \in {j \in DOMAIN population : population[j].open} : q[i] = population[i]
      BY <1>1, <2>1
    <3> QED
      BY <3>1, <3>2 DEF Opened
  <2>6. StillOpen(q)
    BY <1>1, <2>1 DEF StillOpen
  <2>7. Told(epoch, Truth(epoch, entities), changes) = Truth(epoch, q)
    BY <1>0, <2>5 DEF Truth
  <2>8. \A i \in DOMAIN entities : entities[i].open => i \in DOMAIN q
    BY <2>6 DEF StillOpen
  <2>9. Sound(q, changes, done, frame, ledger)
    BY <1>0, <2>1, <2>2, <2>3, <2>4, <2>7, <2>8 DEF Sound
  <2> QED
    BY <1>1, <2>1, <2>6, <2>9 DEF q
<1>2. CASE id \in DOMAIN population
  BY <1>2 DEF Ensured
<1>3. CASE id \notin DOMAIN population /\ ~(Cardinality(DOMAIN population) >= MaxEntities)
  <2>1. ensured = [population |-> With(population), lost |-> 0]
    BY <1>3 DEF Ensured
  <2>2. Cardinality(DOMAIN population) < MaxEntities
    BY <1>0, <1>3, LimitsAssumption, FS_CardinalityType
  <2> HIDE DEF With
  <2> QED
    BY <1>0, <1>1, <1>3, <2>1, <2>2
<1>4. CASE id \notin DOMAIN population /\ Cardinality(DOMAIN population) >= MaxEntities /\ closed # {}
  <2>1. ensured = [population |-> With(room), lost |-> 1]
    BY <1>4 DEF Ensured
  <2>2. LeastOf(closed) \in closed
    <3>1. closed \in SUBSET Nat /\ closed # {}
      BY <1>0, <1>4, IdsAssumption DEF ClosedIds
    <3>2. PICK least \in closed : \A y \in closed : ~ (<<y, least>> \in OpToRel(<, Nat))
      BY <3>1, NatLessThanWellFounded, WFMin
    <3>3. \A y \in closed : least <= y
      <4> TAKE y \in closed
      <4>1. y \in Nat /\ least \in Nat
        BY <3>1
      <4>2. ~ (y < least)
        BY <3>2, <4>1 DEF OpToRel
      <4> QED
        BY <4>1, <4>2
    <3> QED
      BY <3>3 DEF LeastOf
  <2> DEFINE gone == LeastOf(closed)
  <2>3. gone \in DOMAIN population /\ ~population[gone].open
    BY <2>2 DEF ClosedIds
  <2> HIDE DEF gone
  <2>4. /\ DOMAIN room = DOMAIN population \ {gone}
        /\ \A i \in DOMAIN room : room[i] = population[i]
        /\ room = [i \in DOMAIN room |-> room[i]]
    BY DEF Without, gone
  <2>5. Cardinality(DOMAIN room) < MaxEntities
    <3>1. Cardinality(DOMAIN population \ {gone}) = Cardinality(DOMAIN population) - 1
      <4> DEFINE D == DOMAIN population
      <4>1. IsFiniteSet(D) /\ gone \in D
        BY <1>0, <2>3
      <4> HIDE DEF D
      <4>2. Cardinality(D \ {gone}) = Cardinality(D) - 1
        BY <4>1, FS_RemoveElement
      <4> QED
        BY <4>2 DEF D
    <3> QED
      BY <1>0, <2>4, <3>1, LimitsAssumption, FS_CardinalityType
  <2> HIDE DEF With, room
  <2>6. /\ DOMAIN room \subseteq DOMAIN population
        /\ \A i \in DOMAIN population \ DOMAIN room : ~population[i].open
    BY <2>3, <2>4
  <2>7. /\ Sound(With(room), changes, done, frame, ledger) /\ StillOpen(With(room))
        /\ \A i \in DOMAIN With(room) :
             i # id => i \in DOMAIN population /\ With(room)[i] = population[i]
    BY <1>1, <1>4, <2>4, <2>5, <2>6
  <2> QED
    BY <2>1, <2>7
<1>5. CASE id \notin DOMAIN population /\ Cardinality(DOMAIN population) >= MaxEntities /\ closed = {}
  BY <1>5 DEF Ensured
<1> QED
  BY <1>2, <1>3, <1>4, <1>5

\* One observation of an identity that was not looked at before in this frame
\* keeps the population sound.
LEMMA TouchSound ==
  ASSUME NEW population, NEW changes, NEW done, NEW frame, NEW ledger,
         Sound(population, changes, done, frame, ledger),
         NEW id \in DOMAIN population, id \notin done, NEW outcome,
         Moves(id, population[id], frame, outcome),
         \/ Stays(population[id], outcome)
         \/ /\ outcome.entity.observed_frame = frame
            /\ ~ReplanFrames => Covered(ledger, outcome.entity.bounds)
  PROVE  LET after == [population EXCEPT ![id] = outcome.entity]
         IN  /\ Sound(after, changes \o outcome.changes, done \cup {id}, frame, ledger)
             /\ DOMAIN after = DOMAIN population /\ after[id] = outcome.entity
             /\ \A i \in DOMAIN population : i # id => after[i] = population[i]
<1> DEFINE after == [population EXCEPT ![id] = outcome.entity]
           more == outcome.changes
           all == changes \o more
<1>0. /\ population = [i \in DOMAIN population |-> population[i]]
      /\ DOMAIN population \subseteq Ids /\ IsFiniteSet(DOMAIN population)
      /\ Cardinality(DOMAIN population) <= MaxEntities
      /\ \A i \in DOMAIN population : Grown(population, i, frame, ledger)
      /\ \A i \in DOMAIN population \ done : Untouched(population, i)
      /\ \A i \in DOMAIN entities : entities[i].open => i \in DOMAIN population
      /\ changes \in Seq(ChangeType)
      /\ \A i \in DOMAIN changes : FromWindow(changes[i], frame) /\ changes[i].id \in done
      /\ Told(epoch, Truth(epoch, entities), changes) = Truth(epoch, population)
  BY DEF Sound
<1>1. /\ DOMAIN after = DOMAIN population /\ after[id] = outcome.entity
      /\ \A i \in DOMAIN population : i # id => after[i] = population[i]
      /\ after = [i \in DOMAIN after |-> after[i]]
  BY <1>0
<1>2. /\ outcome.entity \in EntityType /\ more \in Seq(ChangeType)
      /\ \A i \in DOMAIN more :
           /\ more[i].id = id /\ more[i].confirmed = frame
           /\ Ongoing(population[id], more[i].observed)
      /\ \A since : Ongoing(outcome.entity, since) => since = frame \/ Ongoing(population[id], since)
      /\ Lives(id, population[id], outcome)
  BY DEF Moves
<1>3. Untouched(population, id)
  BY <1>0
<1>4. \A i \in DOMAIN more : more[i].kind # "kSourceReset"
  BY <1>2 DEF Lives, Updates
<1>5. \A i \in DOMAIN more : FromWindow(more[i], frame) /\ more[i].id = id
  BY <1>2, <1>3, <1>4, UntouchedWindows DEF FromWindow
<1>6. population[id] \in EntityType /\ population[id].open \in BOOLEAN /\ outcome.entity.open \in BOOLEAN
  <2>1. population[id] \in EntityType
    BY <1>0 DEF Grown
  <2> QED
    BY <1>2, <2>1 DEF EntityType
<1>7. Told(epoch, Truth(epoch, population), more) = Truth(epoch, after)
  BY <1>0, <1>2, <1>6, LivesAreTold
<1> HIDE DEF after, more
<1>8. /\ all \in Seq(ChangeType)
      /\ \A i \in DOMAIN all : \/ \E j \in DOMAIN changes : all[i] = changes[j]
                               \/ \E j \in DOMAIN more : all[i] = more[j]
  <2>1. changes \in Seq(ChangeType) /\ more \in Seq(ChangeType)
    BY <1>0, <1>2
  <2>2. /\ changes \o more \in Seq(ChangeType) /\ Len(changes \o more) = Len(changes) + Len(more)
        /\ \A i \in 1 .. Len(changes) + Len(more) :
             (changes \o more)[i] = IF i <= Len(changes) THEN changes[i] ELSE more[i - Len(changes)]
    BY <2>1, ConcatProperties
  <2> HIDE DEF all
  <2>3. /\ all \in Seq(ChangeType) /\ Len(all) = Len(changes) + Len(more)
        /\ \A i \in 1 .. Len(changes) + Len(more) :
             all[i] = IF i <= Len(changes) THEN changes[i] ELSE more[i - Len(changes)]
    BY <2>2 DEF all
  <2>4. ASSUME NEW i \in DOMAIN all
        PROVE  \/ \E j \in DOMAIN changes : all[i] = changes[j]
               \/ \E j \in DOMAIN more : all[i] = more[j]
    <3>1. i \in 1 .. Len(changes) + Len(more) /\ Len(changes) \in Nat /\ Len(more) \in Nat
      BY <2>1, <2>3
    <3>2. CASE i <= Len(changes)
      BY <2>1, <2>3, <3>1, <3>2
    <3>3. CASE i > Len(changes)
      <4>1. i - Len(changes) \in DOMAIN more
        BY <2>1, <3>1, <3>3
      <4> QED
        BY <2>3, <3>1, <3>3, <4>1
    <3> QED
      BY <3>1, <3>2, <3>3
  <2> QED
    BY <2>3, <2>4
<1>9. Told(epoch, Truth(epoch, entities), all) = Truth(epoch, after)
  <2> DEFINE base == Truth(epoch, entities)
  <2> HIDE DEF base
  <2>1. Tellings!Folded(epoch, base, changes \o more)
          = Tellings!Folded(epoch, Tellings!Folded(epoch, base, changes), more)
    BY <1>0, <1>2, Tellings!FoldConcat
  <2> QED
    BY <1>0, <1>7, <2>1 DEF Told, base
<1> HIDE DEF all
<1>10. ASSUME NEW i \in DOMAIN after
       PROVE  Grown(after, i, frame, ledger)
  <2>1. CASE i = id
    <3>1. \A since : Ongoing(after[id], since) =>
            since = frame \/ (id \in DOMAIN entities /\ Ongoing(entities[id], since))
      BY <1>1, <1>2, <1>3, UntouchedWindows
    <3>2. \/ after[id].observed_frame = 0
          \/ id \in DOMAIN entities /\ after[id].observed_frame = entities[id].observed_frame
          \/ /\ after[id].observed_frame = frame
             /\ ~ReplanFrames => Covered(ledger, after[id].bounds)
      BY <1>1, <1>3, NewEntityIsTyped DEF Stays, Untouched
    <3> QED
      BY <1>1, <1>2, <2>1, <3>1, <3>2 DEF Grown
  <2>2. CASE i # id
    <3>1. Grown(population, i, frame, ledger) /\ after[i] = population[i]
      BY <1>0, <1>1, <2>2
    <3> QED
      BY <3>1 DEF Grown
  <2> QED
    BY <2>1, <2>2
<1>11. \A i \in DOMAIN after \ (done \cup {id}) : Untouched(after, i)
  BY <1>0, <1>1 DEF Untouched
<1>12. \A i \in DOMAIN all : FromWindow(all[i], frame) /\ all[i].id \in done \cup {id}
  BY <1>0, <1>5, <1>8
<1>13. Sound(after, all, done \cup {id}, frame, ledger)
  BY <1>0, <1>1, <1>8, <1>9, <1>10, <1>11, <1>12 DEF Sound
<1> QED
  BY <1>1, <1>13 DEF after, all, more

-----------------------------------------------------------------------------
(* Recording an item *)

\* An item of a cycle.
ItemType == PresentType \cup AbsentType

\* One validated observation moves the entity, and observes it only where it is present.
LEMMA AdvanceMoves ==
  ASSUME NEW item \in ItemType, NEW entity \in EntityType, NEW frame \in Frames
  PROVE  LET outcome == Advance(item.id, entity, item, frame)
         IN  /\ Moves(item.id, entity, frame, outcome)
             /\ IF item.channel = "present" THEN Seen(entity, item, frame, outcome)
                                            ELSE Stays(entity, outcome)
<1> DEFINE outcome == Advance(item.id, entity, item, frame)
<1>1. CASE item \in PresentType
  <2>1. item.channel = "present" /\ item.id \in Ids
    BY <1>1 DEF PresentType
  <2>2. outcome = Present(item.id, entity, item, frame)
    BY <2>1 DEF Advance
  <2> QED
    BY <1>1, <2>1, <2>2, FrameZero, PresentMoves
<1>2. CASE item \in AbsentType
  <2>1. item.channel \in {"lost", "occluded", "missing"} /\ item.id \in Ids
    BY <1>2 DEF AbsentType
  <2>2. outcome \in {TrackingLost(entity), Occlude(item.id, entity, frame), Miss(item.id, entity, frame)}
    BY <2>1 DEF Advance, Absent
  <2>3. item.channel # "present"
    BY <2>1
  <2> HIDE DEF outcome
  <2>4. CASE outcome = TrackingLost(entity)
    BY <2>1, <2>3, <2>4, FrameZero, LostMoves DEF outcome
  <2>5. CASE outcome = Occlude(item.id, entity, frame)
    BY <2>1, <2>3, <2>5, FrameZero, OccludeMoves DEF outcome
  <2>6. CASE outcome = Miss(item.id, entity, frame)
    BY <2>1, <2>3, <2>6, FrameZero, MissMoves DEF outcome
  <2> QED
    BY <2>2, <2>4, <2>5, <2>6
<1> QED
  BY <1>1, <1>2 DEF ItemType

\* What a cycle makes of an entity it looked at.
LEMMA LookedMoves ==
  ASSUME NEW item \in ItemType, NEW entity \in EntityType, NEW frame \in Frames
  PROVE  LET looked == Looked(item, entity, frame)
         IN  /\ Moves(item.id, entity, frame, looked)
             /\ IF item.covered /\ item.channel = "present"
                THEN Seen(entity, item, frame, looked)
                ELSE Stays(entity, looked)
             /\ item.channel = "present" /\ entity.open => looked.entity.open
             /\ ~item.covered /\ item.work = 0 => \A since : ~Ongoing(looked.entity, since)
             /\ ~item.covered /\ item.work # 0 => looked.entity = entity
<1> DEFINE looked == Looked(item, entity, frame)
<1>1. item.id \in Ids /\ item.covered \in BOOLEAN
  BY DEF ItemType, PresentType, AbsentType
<1>2. CASE item.covered
  <2>1. looked = Advance(item.id, entity, item, frame)
    BY <1>2 DEF Looked
  <2>2. Moves(item.id, entity, frame, looked)
    BY <2>1, AdvanceMoves
  <2>3. IF item.channel = "present" THEN Seen(entity, item, frame, looked) ELSE Stays(entity, looked)
    BY <2>1, AdvanceMoves
  <2> HIDE DEF looked
  <2> QED
    BY <1>2, <2>2, <2>3 DEF Seen, looked
<1>3. CASE ~item.covered /\ item.work = 0
  <2>1. looked = Outcome(Uncovered(entity), <<>>)
    BY <1>3 DEF Looked
  <2>2. /\ Moves(item.id, entity, frame, looked) /\ Stays(entity, looked)
        /\ \A since : ~Ongoing(looked.entity, since)
    BY <1>1, <2>1, FrameZero, UncoveredMoves
  <2>3. looked.entity.open = entity.open
    <3>1. Uncovered(entity).open = entity.open
      BY DEF Uncovered, EntityType
    <3>2. looked.entity = Uncovered(entity)
      BY <2>1 DEF Outcome
    <3> QED
      BY <3>1, <3>2
  <2> HIDE DEF looked
  <2> QED
    BY <1>3, <2>2, <2>3 DEF looked
<1>4. CASE ~item.covered /\ item.work # 0
  <2>1. looked = Outcome(entity, <<>>)
    BY <1>4 DEF Looked
  <2>2. looked.entity = entity /\ looked.changes = <<>>
    BY <2>1 DEF Outcome
  <2> HIDE DEF looked
  <2>3. Silent(entity, looked) /\ Stays(entity, looked)
    BY <2>2 DEF Silent, Stays
  <2>4. Moves(item.id, entity, frame, looked)
    BY <2>2, <2>3, SilentMoves
  <2> QED
    BY <1>4, <2>2, <2>3, <2>4 DEF looked
<1> QED
  BY <1>1, <1>2, <1>3, <1>4

-----------------------------------------------------------------------------
(* The items of a cycle *)

\* The identities recorded so far.
ItemIds(acc) == {acc.items[i].id : i \in DOMAIN acc.items}

\* The item waits for work that is issued, and that covers it where it is present.
Waits(tokens, item) ==
  /\ item.work \in DOMAIN tokens
  /\ item.channel = "present" => RectContains(tokens[item.work].roi, item.bounds)

\* No two items are of the same identity.
OnceEach(items) ==
  \A i, j \in DOMAIN items : items[i].id = items[j].id => i = j

\* What the items of a cycle so far have made of the population.
Kept(scene, acc) ==
  /\ Sound(acc.population, acc.changes, ItemIds(acc), scene.frame, scene.ledger)
  /\ acc.items \in Seq(ItemType) /\ acc.waiting \in Seq(ItemType) /\ acc.lost \in Nat
  /\ OnceEach(acc.waiting)
  /\ \A i \in DOMAIN acc.items :
       LET item == acc.items[i]
       IN  scene.counts /\ ~item.covered /\ item.work = 0 /\ item.id \in DOMAIN acc.population =>
             \A since : ~Ongoing(acc.population[item.id], since)
  /\ \A i \in DOMAIN acc.waiting :
       LET item == acc.waiting[i]
       IN  /\ item.id \in ItemIds(acc) /\ Waits(scene.tokens, item)
           /\ item.id \in DOMAIN acc.population => Untouched(acc.population, item.id)

\* An item as the cycle makes one.
Fits(scene, item) ==
  /\ item \in ItemType
  /\ item.work # 0 => ~item.covered /\ Waits(scene.tokens, item)
  /\ item.covered /\ item.channel = "present" => Covered(scene.ledger, item.bounds)

\* The elements of a longer sequence.
LEMMA AppendFacts ==
  ASSUME NEW S, NEW seq \in Seq(S), NEW x \in S
  PROVE  /\ Append(seq, x) \in Seq(S)
         /\ DOMAIN Append(seq, x) = 1 .. Len(seq) + 1
         /\ Append(seq, x)[Len(seq) + 1] = x
         /\ \A i \in 1 .. Len(seq) : Append(seq, x)[i] = seq[i]
         /\ DOMAIN seq = 1 .. Len(seq) /\ Len(seq) \in Nat
OBVIOUS

\* Recording an item of an identity that is not recorded yet keeps the cycle sound.
LEMMA RecordedKept ==
  ASSUME NEW scene, scene.frame \in Frames, scene.counts \in BOOLEAN,
         NEW acc, Kept(scene, acc), NEW item, Fits(scene, item),
         item.id \in DOMAIN acc.population, item.id \notin ItemIds(acc)
  PROVE  LET next == Recorded(scene, acc, item)
         IN  /\ Kept(scene, next)
             /\ ItemIds(next) = ItemIds(acc) \cup {item.id}
             /\ DOMAIN next.population = DOMAIN acc.population
             /\ item.channel = "present" /\ StillOpen(acc.population) => StillOpen(next.population)
<1> DEFINE next == Recorded(scene, acc, item)
           id == item.id
           entity == acc.population[id]
           looked == Looked(item, entity, scene.frame)
           n == Len(acc.items)
           w == Len(acc.waiting)
<1>0. Sound(acc.population, acc.changes, ItemIds(acc), scene.frame, scene.ledger)
  BY DEF Kept
<1>1. entity \in EntityType /\ id \in Ids /\ item \in ItemType /\ item.covered \in BOOLEAN
  BY <1>0 DEF Sound, Grown, Fits, ItemType, PresentType, AbsentType
<1>2. /\ Moves(id, entity, scene.frame, looked)
      /\ IF item.covered /\ item.channel = "present"
         THEN Seen(entity, item, scene.frame, looked)
         ELSE Stays(entity, looked)
      /\ item.channel = "present" /\ entity.open => looked.entity.open
      /\ ~item.covered /\ item.work = 0 => \A since : ~Ongoing(looked.entity, since)
      /\ ~item.covered /\ item.work # 0 => looked.entity = entity
  BY <1>1, LookedMoves
<1>3. /\ next.population = IF scene.counts
                           THEN [acc.population EXCEPT ![id] = looked.entity]
                           ELSE acc.population
      /\ next.changes = IF scene.counts THEN acc.changes \o looked.changes ELSE acc.changes
      /\ next.waiting = IF item.work # 0 THEN Append(acc.waiting, item) ELSE acc.waiting
      /\ next.items = Append(acc.items, item)
      /\ next.lost = acc.lost
  BY DEF Recorded
<1> HIDE DEF next, looked
<1>4. /\ acc.items \in Seq(ItemType) /\ acc.waiting \in Seq(ItemType) /\ acc.lost \in Nat
      /\ OnceEach(acc.waiting)
  BY DEF Kept
<1>5. /\ next.items \in Seq(ItemType) /\ DOMAIN next.items = 1 .. n + 1 /\ next.items[n + 1] = item
      /\ \A i \in 1 .. n : next.items[i] = acc.items[i]
      /\ DOMAIN acc.items = 1 .. n /\ n \in Nat
  BY <1>1, <1>3, <1>4, AppendFacts
<1>6. /\ next.waiting \in Seq(ItemType)
      /\ item.work = 0 => next.waiting = acc.waiting
      /\ item.work # 0 => /\ DOMAIN next.waiting = 1 .. w + 1 /\ next.waiting[w + 1] = item
                          /\ \A i \in 1 .. w : next.waiting[i] = acc.waiting[i]
      /\ DOMAIN acc.waiting = 1 .. w /\ w \in Nat
  BY <1>1, <1>3, <1>4, AppendFacts
<1> HIDE DEF n, w
<1>7. ItemIds(next) = ItemIds(acc) \cup {id}
  <2>1. DOMAIN next.items = DOMAIN acc.items \cup {n + 1}
    BY <1>5
  <2>2. \A i \in DOMAIN acc.items : next.items[i].id = acc.items[i].id
    BY <1>5
  <2> QED
    BY <1>5, <2>1, <2>2 DEF ItemIds
<1>8. /\ Sound(next.population, next.changes, ItemIds(next), scene.frame, scene.ledger)
      /\ DOMAIN next.population = DOMAIN acc.population
      /\ \A i \in DOMAIN acc.population : i # id => next.population[i] = acc.population[i]
      /\ next.population[id] = IF scene.counts THEN looked.entity ELSE entity
  <2>1. CASE scene.counts
    <3>1. \/ Stays(entity, looked)
          \/ /\ looked.entity.observed_frame = scene.frame
             /\ ~ReplanFrames => Covered(scene.ledger, looked.entity.bounds)
      BY <1>2 DEF Seen, Fits
    <3>2. /\ next.population = [acc.population EXCEPT ![id] = looked.entity]
          /\ next.changes = acc.changes \o looked.changes
      BY <1>3, <2>1
    <3> DEFINE population == acc.population
               done == ItemIds(acc)
               after == [population EXCEPT ![id] = looked.entity]
    <3>3. id \in DOMAIN population /\ id \notin done /\ Moves(id, population[id], scene.frame, looked)
          /\ entity = population[id]
      BY <1>2
    <3> HIDE DEF population, done, id, entity
    <3>4. Sound(population, acc.changes, done, scene.frame, scene.ledger)
      BY <1>0 DEF population, done
    <3>5. /\ Sound(after, acc.changes \o looked.changes, done \cup {id}, scene.frame, scene.ledger)
          /\ DOMAIN after = DOMAIN population /\ after[id] = looked.entity
          /\ \A i \in DOMAIN population : i # id => after[i] = population[i]
      BY <3>1, <3>3, <3>4, TouchSound
    <3>6. next.population = after /\ ItemIds(next) = done \cup {id}
      BY <1>7, <3>2 DEF population, done
    <3> HIDE DEF after
    <3> QED
      BY <2>1, <3>2, <3>5, <3>6 DEF population
  <2>2. CASE ~scene.counts
    <3>1. next.population = acc.population /\ next.changes = acc.changes
      BY <1>3, <2>2
    <3>2. /\ DOMAIN next.population \ ItemIds(next) \subseteq DOMAIN acc.population \ ItemIds(acc)
          /\ \A i \in DOMAIN next.changes :
               FromWindow(next.changes[i], scene.frame) /\ next.changes[i].id \in ItemIds(next)
      BY <1>0, <1>7, <3>1 DEF Sound
    <3>3. Sound(next.population, next.changes, ItemIds(next), scene.frame, scene.ledger)
      BY <1>0, <3>1, <3>2 DEF Sound
    <3> QED
      BY <2>2, <3>1, <3>3
  <2> QED
    BY <2>1, <2>2
<1>9. item.work # 0 => next.population[id] = entity /\ Untouched(next.population, id)
  <2> SUFFICES ASSUME item.work # 0
               PROVE  next.population[id] = entity /\ Untouched(next.population, id)
    OBVIOUS
  <2>1. ~item.covered
    BY DEF Fits
  <2>2. next.population[id] = entity
    BY <1>2, <1>8, <2>1
  <2>3. Untouched(acc.population, id)
    BY <1>0 DEF Sound
  <2> QED
    BY <2>2, <2>3 DEF Untouched
<1>10. ASSUME NEW i \in DOMAIN next.items, scene.counts, ~next.items[i].covered,
              next.items[i].work = 0, next.items[i].id \in DOMAIN next.population
       PROVE  \A since : ~Ongoing(next.population[next.items[i].id], since)
  <2>1. CASE i = n + 1
    BY <1>2, <1>5, <1>8, <1>10, <2>1
  <2>2. CASE i \in 1 .. n
    <3>1. acc.items[i] = next.items[i] /\ i \in DOMAIN acc.items
      BY <1>5, <2>2
    <3>2. next.items[i].id # id
      BY <3>1 DEF ItemIds
    <3>3. next.population[next.items[i].id] = acc.population[acc.items[i].id]
      BY <1>8, <1>10, <3>1, <3>2
    <3>4. \A since : ~Ongoing(acc.population[acc.items[i].id], since)
      BY <1>8, <1>10, <3>1 DEF Kept
    <3> QED
      BY <3>3, <3>4
  <2> QED
    BY <1>5, <2>1, <2>2
<1>11. ASSUME NEW i \in DOMAIN next.waiting
       PROVE  LET it == next.waiting[i]
              IN  /\ it.id \in ItemIds(next) /\ Waits(scene.tokens, it)
                  /\ it.id \in DOMAIN next.population => Untouched(next.population, it.id)
  <2>1. CASE item.work # 0 /\ i = w + 1
    <3>1. next.waiting[i] = item
      BY <1>6, <2>1
    <3> QED
      BY <1>7, <1>9, <2>1, <3>1 DEF Fits
  <2>2. CASE i \in 1 .. w
    <3>1. next.waiting[i] = acc.waiting[i] /\ i \in DOMAIN acc.waiting
      BY <1>6, <2>2
    <3>2. /\ acc.waiting[i].id \in ItemIds(acc) /\ Waits(scene.tokens, acc.waiting[i])
          /\ acc.waiting[i].id \in DOMAIN acc.population => Untouched(acc.population, acc.waiting[i].id)
      BY <3>1 DEF Kept
    <3>3. acc.waiting[i].id # id
      BY <3>2
    <3> QED
      BY <1>7, <1>8, <3>1, <3>2, <3>3 DEF Untouched
  <2> QED
    BY <1>6, <2>1, <2>2
<1>12. OnceEach(next.waiting)
  <2>1. CASE item.work = 0
    BY <1>4, <1>6, <2>1
  <2>2. CASE item.work # 0
    <3>1. \A i \in 1 .. w : next.waiting[i].id # id
      <4> TAKE i \in 1 .. w
      <4>1. next.waiting[i] = acc.waiting[i] /\ acc.waiting[i].id \in ItemIds(acc)
        BY <1>6, <2>2 DEF Kept
      <4> QED
        BY <4>1
    <3>2. ASSUME NEW i \in DOMAIN next.waiting, NEW j \in DOMAIN next.waiting,
                 next.waiting[i].id = next.waiting[j].id
          PROVE  i = j
      <4>1. i \in 1 .. w \cup {w + 1} /\ j \in 1 .. w \cup {w + 1}
        BY <1>6, <2>2
      <4>2. CASE i \in 1 .. w /\ j \in 1 .. w
        BY <1>4, <1>6, <2>2, <3>2, <4>2 DEF OnceEach
      <4> QED
        BY <1>6, <2>2, <3>1, <3>2, <4>1, <4>2
    <3> QED
      BY <3>2 DEF OnceEach
  <2> QED
    BY <2>1, <2>2
<1>13. Kept(scene, next)
  BY <1>3, <1>4, <1>5, <1>6, <1>8, <1>10, <1>11, <1>12 DEF Kept
<1>14. item.channel = "present" /\ StillOpen(acc.population) => StillOpen(next.population)
  BY <1>2, <1>8 DEF StillOpen
<1> QED
  BY <1>7, <1>8, <1>13, <1>14 DEF next

-----------------------------------------------------------------------------
(* The observation of a cycle *)

\* The work that covers a rectangle is issued work.
LEMMA CoveringWorkCovers ==
  ASSUME NEW tokens, NEW n \in Nat, DOMAIN tokens = 1 .. n, NEW rect
  PROVE  LET work == CoveringWork(tokens, rect)
         IN  /\ work \in Nat
             /\ work # 0 => work \in DOMAIN tokens /\ RectContains(tokens[work].roi, rect)
<1> DEFINE covering == {i \in DOMAIN tokens : RectContains(tokens[i].roi, rect)}
<1>1. CASE covering = {}
  BY <1>1 DEF CoveringWork
<1>2. CASE covering # {}
  <2>1. CoveringWork(tokens, rect) = LeastOf(covering)
    BY <1>2 DEF CoveringWork
  <2>2. covering \in SUBSET Nat
    OBVIOUS
  <2>3. PICK least \in covering : \A y \in covering : ~ (<<y, least>> \in OpToRel(<, Nat))
    BY <1>2, <2>2, NatLessThanWellFounded, WFMin
  <2>4. ASSUME NEW y \in covering PROVE least <= y
    <3>1. y \in Nat /\ least \in Nat
      BY <2>2
    <3>2. ~ (y < least)
      BY <2>3, <3>1 DEF OpToRel
    <3> QED
      BY <3>1, <3>2
  <2>5. LeastOf(covering) \in covering
    BY <2>3, <2>4 DEF LeastOf
  <2> HIDE DEF covering
  <2>6. CoveringWork(tokens, rect) \in covering
    BY <2>1, <2>5
  <2> QED
    BY <2>6 DEF covering
<1> QED
  BY <1>1, <1>2

\* The item of a region belongs to the region's identity and to this cycle.
LEMMA PresentItemFits ==
  ASSUME NEW cycle \in Cycles, NEW i \in DOMAIN cycle.regions, cycle.regions[i].id # 0,
         NEW scene, scene.cycle = cycle, NEW n \in Nat, DOMAIN scene.tokens = 1 .. n
  PROVE  LET item == PresentItem(cycle.regions[i], cycle, scene.ledger, scene.tokens)
         IN  Fits(scene, item) /\ item.id = cycle.regions[i].id /\ item.channel = "present"
<1> DEFINE region == cycle.regions[i]
           covered == Covered(scene.ledger, region.bounds)
           work == CoveringWork(scene.tokens, region.bounds)
           look == [region.look EXCEPT !.parents = IF cycle.hierarchy THEN @ ELSE {}]
           item == PresentItem(region, cycle, scene.ledger, scene.tokens)
<1>1. /\ region.id \in Ids /\ region.bounds \in SUBSET Cells
      /\ cycle.generation \in Generations /\ cycle.hierarchy \in BOOLEAN
  <2>1. region \in ToSet(cycle.regions)
    BY DEF ToSet
  <2> QED
    BY <2>1, CyclesAssumption DEF Generations
<1>2. look \in SeenLooks
  <2>1. region.look \in Looks
    BY DEF Looks
  <2>2. /\ [region.look EXCEPT !.parents = @] \in SeenLooks
        /\ [region.look EXCEPT !.parents = {}] \in SeenLooks
    BY <2>1 DEF SeenLooks
  <2> QED
    BY <1>1, <2>2
<1>3. work \in Nat /\ (work # 0 => work \in DOMAIN scene.tokens /\ RectContains(scene.tokens[work].roi, region.bounds))
  BY CoveringWorkCovers
<1>4. covered \in BOOLEAN
  BY DEF Covered
<1> HIDE DEF look, work, covered
<1>5. item = [id |-> region.id, channel |-> "present", covered |-> covered,
              work |-> IF covered THEN 0 ELSE work,
              freshness |-> IF covered THEN "kValidatedReuse" ELSE "kFresh",
              generation |-> cycle.generation, bounds |-> region.bounds, look |-> look]
  BY DEF PresentItem, look, work, covered
<1> HIDE DEF item, region
<1>6. item \in PresentType
  BY <1>1, <1>2, <1>3, <1>4, <1>5 DEF PresentType
<1>7. /\ item.id = region.id /\ item.channel = "present" /\ item.covered = covered
      /\ item.work = (IF covered THEN 0 ELSE work) /\ item.bounds = region.bounds
  BY <1>5
<1>8. covered => Covered(scene.ledger, region.bounds)
  BY DEF covered
<1>9. Fits(scene, item)
  BY <1>3, <1>4, <1>6, <1>7, <1>8 DEF Fits, Waits, ItemType
<1> QED
  BY <1>7, <1>9 DEF item, region

\* The item of a missing identity belongs to it and to this cycle.
LEMMA AbsentItemFits ==
  ASSUME NEW scene, NEW n \in Nat, DOMAIN scene.tokens = 1 .. n, NEW id \in Ids, NEW bounds
  PROVE  LET item == AbsentItem(id, bounds, scene.cycle, scene.ledger, scene.tokens)
         IN  Fits(scene, item) /\ item.id = id
<1> DEFINE covered == Covered(scene.ledger, bounds)
           work == CoveringWork(scene.tokens, bounds)
           channel == AbsenceChannel(id, bounds, scene.cycle)
           item == AbsentItem(id, bounds, scene.cycle, scene.ledger, scene.tokens)
<1>1. channel \in {"lost", "occluded", "missing"}
  BY DEF AbsenceChannel
<1>2. work \in Nat /\ (work # 0 => work \in DOMAIN scene.tokens)
  BY CoveringWorkCovers
<1>3. covered \in BOOLEAN
  BY DEF Covered
<1> HIDE DEF work, covered, channel
<1>4. item = [id |-> id, channel |-> channel, covered |-> covered,
              work |-> IF covered THEN 0 ELSE work]
  BY DEF AbsentItem, work, covered, channel
<1> HIDE DEF item
<1>5. item \in AbsentType
  BY <1>1, <1>2, <1>3, <1>4 DEF AbsentType
<1>6. /\ item.id = id /\ item.channel = channel /\ item.covered = covered
      /\ item.work = (IF covered THEN 0 ELSE work)
  BY <1>4
<1>7. item.channel # "present"
  BY <1>1, <1>6
<1>8. Fits(scene, item)
  BY <1>2, <1>3, <1>5, <1>6, <1>7 DEF Fits, Waits, ItemType
<1> QED
  BY <1>6, <1>8 DEF item

\* The steps of the two folds of a cycle.
Regions == INSTANCE FoldSteps WITH Op <- RecordPresent

\* The folds that record the identities without a region.
Absentees == INSTANCE FoldSteps WITH Op <- RecordAbsent

\* Recording one region keeps the cycle sound and closes no lifecycle.
LEMMA PresentKept ==
  ASSUME NEW cycle \in Cycles, NEW i \in DOMAIN cycle.regions,
         NEW scene, scene.cycle = cycle, NEW n \in Nat, DOMAIN scene.tokens = 1 .. n,
         scene.frame \in Frames, scene.counts \in BOOLEAN,
         NEW acc, Kept(scene, acc), StillOpen(acc.population),
         cycle.regions[i].id = 0 \/ cycle.regions[i].id \notin ItemIds(acc)
  PROVE  LET next == RecordPresent(scene, acc, cycle.regions[i])
         IN  /\ Kept(scene, next) /\ StillOpen(next.population)
             /\ ItemIds(next) \subseteq ItemIds(acc) \cup ({cycle.regions[i].id} \ {0})
<1> DEFINE region == cycle.regions[i]
           next == RecordPresent(scene, acc, region)
           ensured == Ensured(acc.population, region.id)
           tracked == [population |-> ensured.population, changes |-> acc.changes,
                       waiting |-> acc.waiting, items |-> acc.items,
                       lost |-> acc.lost + ensured.lost]
           item == PresentItem(region, cycle, scene.ledger, scene.tokens)
<1>1. CASE region.id = 0
  BY <1>1 DEF RecordPresent
<1>2. CASE region.id # 0
  <2>1. region.id \in Ids
    <3>1. region \in ToSet(cycle.regions)
      BY DEF ToSet
    <3> QED
      BY <1>2, <3>1, CyclesAssumption
  <2>2. next = IF region.id \notin DOMAIN ensured.population THEN tracked
               ELSE Recorded(scene, tracked, item)
    BY <1>2 DEF RecordPresent
  <2>3. Fits(scene, item) /\ item.id = region.id /\ item.channel = "present"
    BY <1>2, PresentItemFits
  <2>4. region.id \notin ItemIds(acc)
    BY <1>2
  <2> HIDE DEF next, region, item
  <2>5. /\ Sound(ensured.population, acc.changes, ItemIds(acc), scene.frame, scene.ledger)
        /\ StillOpen(ensured.population) /\ ensured.lost \in {0, 1}
        /\ \A j \in DOMAIN ensured.population :
             j # region.id => j \in DOMAIN acc.population /\ ensured.population[j] = acc.population[j]
    <3>1. Sound(acc.population, acc.changes, ItemIds(acc), scene.frame, scene.ledger)
      BY DEF Kept
    <3> DEFINE done == ItemIds(acc)
               population == acc.population
    <3>2. Sound(population, acc.changes, done, scene.frame, scene.ledger) /\ StillOpen(population)
      BY <3>1
    <3> HIDE DEF done, population
    <3>3. LET e == Ensured(population, region.id)
          IN  /\ Sound(e.population, acc.changes, done, scene.frame, scene.ledger)
              /\ StillOpen(e.population) /\ e.lost \in {0, 1}
              /\ \A j \in DOMAIN e.population :
                   j # region.id => j \in DOMAIN population /\ e.population[j] = population[j]
      BY <2>1, <3>2, HouseSound
    <3> QED
      BY <3>3 DEF done, population
  <2> HIDE DEF ensured
  <2>6. /\ tracked.population = ensured.population /\ tracked.changes = acc.changes
        /\ tracked.waiting = acc.waiting /\ tracked.items = acc.items
        /\ tracked.lost = acc.lost + ensured.lost
    OBVIOUS
  <2> HIDE DEF tracked
  <2>7. ItemIds(tracked) = ItemIds(acc)
    BY <2>6 DEF ItemIds
  <2>8. Kept(scene, tracked)
    <3>1. tracked.lost \in Nat
      BY <2>5, <2>6 DEF Kept
    <3>2. ASSUME NEW j \in DOMAIN acc.items, acc.items[j].id \in DOMAIN tracked.population
          PROVE  /\ acc.items[j].id \in DOMAIN acc.population
                 /\ tracked.population[acc.items[j].id] = acc.population[acc.items[j].id]
      <4>1. acc.items[j].id # region.id
        BY <2>4 DEF ItemIds
      <4> QED
        BY <2>5, <2>6, <3>2, <4>1
    <3>3. ASSUME NEW j \in DOMAIN acc.waiting
          PROVE  LET it == acc.waiting[j]
                 IN  /\ it.id \in ItemIds(tracked) /\ Waits(scene.tokens, it)
                     /\ it.id \in DOMAIN tracked.population => Untouched(tracked.population, it.id)
      <4>1. /\ acc.waiting[j].id \in ItemIds(acc) /\ Waits(scene.tokens, acc.waiting[j])
            /\ acc.waiting[j].id \in DOMAIN acc.population =>
                 Untouched(acc.population, acc.waiting[j].id)
        BY DEF Kept
      <4>2. acc.waiting[j].id # region.id
        BY <2>4, <4>1
      <4> QED
        BY <2>5, <2>6, <2>7, <4>1, <4>2 DEF Untouched
    <3>4. Sound(tracked.population, tracked.changes, ItemIds(tracked), scene.frame, scene.ledger)
      BY <2>5, <2>6, <2>7
    <3>5. /\ tracked.items \in Seq(ItemType) /\ tracked.waiting \in Seq(ItemType)
          /\ OnceEach(tracked.waiting)
      BY <2>6 DEF Kept
    <3>6. ASSUME NEW j \in DOMAIN acc.items, scene.counts, ~acc.items[j].covered,
                 acc.items[j].work = 0, acc.items[j].id \in DOMAIN tracked.population
          PROVE  \A since : ~Ongoing(tracked.population[acc.items[j].id], since)
      <4>1. /\ acc.items[j].id \in DOMAIN acc.population
            /\ tracked.population[acc.items[j].id] = acc.population[acc.items[j].id]
        BY <3>2, <3>6
      <4>2. \A since : ~Ongoing(acc.population[acc.items[j].id], since)
        BY <3>6, <4>1 DEF Kept
      <4> QED
        BY <4>1, <4>2
    <3> QED
      BY <2>6, <3>1, <3>3, <3>4, <3>5, <3>6 DEF Kept
  <2>9. CASE region.id \notin DOMAIN ensured.population
    BY <2>2, <2>5, <2>6, <2>7, <2>8, <2>9 DEF next, region
  <2>10. CASE region.id \in DOMAIN ensured.population
    <3>1. next = Recorded(scene, tracked, item)
      BY <2>2, <2>10
    <3>2. item.id \in DOMAIN tracked.population /\ item.id \notin ItemIds(tracked)
      BY <2>3, <2>4, <2>6, <2>7, <2>10
    <3>3. /\ Kept(scene, next) /\ ItemIds(next) = ItemIds(tracked) \cup {item.id}
          /\ StillOpen(next.population)
      BY <2>3, <2>5, <2>6, <2>8, <3>1, <3>2, RecordedKept
    <3> QED
      BY <1>2, <2>3, <2>7, <3>3 DEF next, region
  <2> QED
    BY <2>9, <2>10
<1> QED
  BY <1>1, <1>2

\* Recording one missing identity keeps the cycle sound.
LEMMA AbsentKept ==
  ASSUME NEW scene, NEW n \in Nat, DOMAIN scene.tokens = 1 .. n,
         scene.frame \in Frames, scene.counts \in BOOLEAN,
         NEW acc, Kept(scene, acc), NEW id \in DOMAIN acc.population, id \notin ItemIds(acc)
  PROVE  LET next == RecordAbsent(scene, acc, id)
         IN  /\ Kept(scene, next) /\ ItemIds(next) = ItemIds(acc) \cup {id}
             /\ DOMAIN next.population = DOMAIN acc.population
<1> DEFINE item == AbsentItem(id, acc.population[id].bounds, scene.cycle, scene.ledger, scene.tokens)
<1>1. id \in Ids
  BY DEF Kept, Sound
<1>2. Fits(scene, item) /\ item.id = id
  BY <1>1, AbsentItemFits
<1>3. RecordAbsent(scene, acc, id) = Recorded(scene, acc, item)
  BY DEF RecordAbsent
<1> HIDE DEF item
<1> QED
  BY <1>2, <1>3, RecordedKept

\* The population, the changes and the items of a whole cycle are kept.
LEMMA CycleKept ==
  ASSUME EntitiesKept, NEW cycle \in Cycles, NEW ledger, NEW tokens, NEW n \in Nat,
         DOMAIN tokens = 1 .. n, NEW frame \in Frames
  PROVE  LET scene == [cycle |-> cycle, ledger |-> ledger, tokens |-> tokens, frame |-> frame,
                       counts |-> frame > advanced.plan]
         IN  Kept(scene, CycleObservation(cycle, ledger, tokens, frame))
<1> DEFINE scene == [cycle |-> cycle, ledger |-> ledger, tokens |-> tokens, frame |-> frame,
                     counts |-> frame > advanced.plan]
           start == [population |-> entities, changes |-> <<>>, waiting |-> <<>>,
                     items |-> <<>>, lost |-> 0]
           shown == Regions!Folded(scene, start, cycle.regions)
           seen == {shown.items[i].id : i \in DOMAIN shown.items}
           ids == DOMAIN shown.population \ seen
           order == InOrder(ids)
<1>1. CycleObservation(cycle, ledger, tokens, frame) = Absentees!Folded(scene, shown, order)
  BY DEF CycleObservation, Regions!Folded, Regions!FoldLeft, FoldLeft, MapThenFoldSet,
         Regions!MapThenFoldSet, Max, Regions!Max, Absentees!Folded, Absentees!FoldLeft,
         Absentees!MapThenFoldSet, Absentees!Max
<1>2. /\ scene.cycle = cycle /\ scene.tokens = tokens /\ scene.frame = frame
      /\ scene.counts \in BOOLEAN
  OBVIOUS
<1>3. Kept(scene, start) /\ StillOpen(start.population) /\ ItemIds(start) = {}
  <2> DEFINE none == <<>>
  <2>1. none \in Seq(ItemType) /\ DOMAIN none = {}
    OBVIOUS
  <2>2. /\ start.population = entities /\ start.changes = none /\ start.waiting = none
        /\ start.items = none /\ start.lost = 0
    OBVIOUS
  <2>3. Sound(entities, none, {}, scene.frame, scene.ledger) /\ StillOpen(entities)
    BY StartIsSound
  <2> HIDE DEF none, start, scene
  <2>4. ItemIds(start) = {}
    BY <2>1, <2>2 DEF ItemIds
  <2> QED
    BY <2>1, <2>2, <2>3, <2>4 DEF Kept, OnceEach
<1> HIDE DEF scene, start
<1>4. PICK m \in Nat : DOMAIN cycle.regions = 1 .. m
  <2>1. cycle.regions \in Seq(ToSet(cycle.regions))
    BY CyclesAssumption
  <2> QED
    BY <2>1
<1>5. PICK a : Regions!Trace(scene, start, cycle.regions, m, a) /\ shown = a[m]
  BY <1>4, Regions!FoldTrace
<1> DEFINE Past(i) == {cycle.regions[j].id : j \in 1 .. i} \ {0}
           P == {i \in 0 .. m : /\ Kept(scene, a[i]) /\ StillOpen(a[i].population)
                                /\ ItemIds(a[i]) \subseteq Past(i)}
<1>6. \A i \in 0 .. m : i \in P
  <2>1. 0 \in P
    <3>1. a[0] = start
      BY <1>5 DEF Regions!Trace
    <3> QED
      BY <1>3, <3>1
  <2>2. ASSUME NEW i \in 1 .. m, i - 1 \in P PROVE i \in P
    <3>1. a[i] = RecordPresent(scene, a[i - 1], cycle.regions[i])
      BY <1>5 DEF Regions!Trace
    <3>2. cycle.regions[i].id = 0 \/ cycle.regions[i].id \notin Past(i - 1)
      <4>1. \A j \in 1 .. i - 1 : j \in DOMAIN cycle.regions /\ i \in DOMAIN cycle.regions /\ j # i
        BY <1>4
      <4> QED
        BY <4>1, CyclesAssumption
    <3>3. i \in DOMAIN cycle.regions /\ Kept(scene, a[i - 1]) /\ StillOpen(a[i - 1].population)
      BY <1>4, <2>2
    <3>4. cycle.regions[i].id = 0 \/ cycle.regions[i].id \notin ItemIds(a[i - 1])
      BY <2>2, <3>2
    <3>5. /\ Kept(scene, a[i]) /\ StillOpen(a[i].population)
          /\ ItemIds(a[i]) \subseteq ItemIds(a[i - 1]) \cup ({cycle.regions[i].id} \ {0})
      BY <1>2, <3>1, <3>3, <3>4, PresentKept
    <3>6. ItemIds(a[i]) \subseteq Past(i)
      <4>1. Past(i - 1) \subseteq Past(i) /\ {cycle.regions[i].id} \ {0} \subseteq Past(i)
        OBVIOUS
      <4> QED
        BY <2>2, <3>5, <4>1
    <3> QED
      BY <3>5, <3>6
  <2> HIDE DEF P
  <2> QED
    BY <2>1, <2>2, Regions!BoundedInduction
<1>7. Kept(scene, shown)
  BY <1>5, <1>6
<1>8. seen = ItemIds(shown)
  BY DEF ItemIds
<1> HIDE DEF shown, P, seen
<1>9. IsFiniteSet(ids) /\ ids \subseteq Nat
  <2>1. IsFiniteSet(DOMAIN shown.population) /\ DOMAIN shown.population \subseteq Ids
    BY <1>7 DEF Kept, Sound
  <2>2. ids \subseteq DOMAIN shown.population
    OBVIOUS
  <2> HIDE DEF ids
  <2> QED
    BY <2>1, <2>2, FS_Subset, IdsAssumption
<1> DEFINE k == Cardinality(ids)
<1>10. /\ k \in Nat /\ order \in [1 .. k -> ids]
       /\ \A i, j \in 1 .. k : order[i] = order[j] => i = j
  <2> HIDE DEF ids
  <2> QED
    BY <1>9, InOrderLists
<1> HIDE DEF k, order
<1>11. PICK b : Absentees!Trace(scene, shown, order, k, b) /\ Absentees!Folded(scene, shown, order) = b[k]
  <2>1. DOMAIN order = 1 .. k
    BY <1>10
  <2> QED
    BY <1>10, <2>1, Absentees!FoldTrace
<1> DEFINE Q == {i \in 0 .. k : /\ Kept(scene, b[i]) /\ DOMAIN b[i].population = DOMAIN shown.population
                                /\ ItemIds(b[i]) = seen \cup {order[j] : j \in 1 .. i}}
<1>12. \A i \in 0 .. k : i \in Q
  <2>1. 0 \in Q
    <3>1. b[0] = shown
      BY <1>11 DEF Absentees!Trace
    <3> QED
      BY <1>7, <1>8, <1>10, <3>1
  <2>2. ASSUME NEW i \in 1 .. k, i - 1 \in Q PROVE i \in Q
    <3>1. b[i] = RecordAbsent(scene, b[i - 1], order[i])
      BY <1>11 DEF Absentees!Trace
    <3>2. order[i] \in ids /\ order[i] \notin {order[j] : j \in 1 .. i - 1}
      <4>1. \A j \in 1 .. i - 1 : j \in 1 .. k /\ j # i
        BY <1>10
      <4> QED
        BY <1>10, <4>1
    <3>3. /\ Kept(scene, b[i - 1]) /\ order[i] \in DOMAIN b[i - 1].population
          /\ order[i] \notin ItemIds(b[i - 1])
      BY <2>2, <3>2
    <3>4. /\ Kept(scene, b[i]) /\ ItemIds(b[i]) = ItemIds(b[i - 1]) \cup {order[i]}
          /\ DOMAIN b[i].population = DOMAIN b[i - 1].population
      BY <1>2, <3>1, <3>3, AbsentKept
    <3>5. {order[j] : j \in 1 .. i} = {order[j] : j \in 1 .. i - 1} \cup {order[i]}
      <4>1. 1 .. i = (1 .. i - 1) \cup {i}
        BY <1>10
      <4> QED
        BY <4>1
    <3> QED
      BY <2>2, <3>4, <3>5
  <2> HIDE DEF Q
  <2> QED
    BY <1>10, <2>1, <2>2, Regions!BoundedInduction
<1>13. Kept(scene, b[k])
  BY <1>10, <1>12
<1> QED
  BY <1>1, <1>11, <1>13 DEF scene

-----------------------------------------------------------------------------
(* What may enter the ledger *)

\* An entry of the work that is current when it is accepted.
Current(entry) ==
  /\ entry.revision = policy_revision
  /\ entry.frame = planned.frame /\ entry.generation = planned.generation
  /\ \E i \in DOMAIN inflight :
       /\ Entry(inflight[i].token) = entry /\ ~inflight[i].adopted
       /\ inflight[i].token.epoch = epoch

\* A token that may be accepted makes a current entry.
LEMMA AcceptableIsCurrent ==
  ASSUME NEW token, NEW content, Acceptable(token, content)
  PROVE  Current(Entry(token))
<1>1. PICK i \in DOMAIN inflight : inflight[i].token = token /\ ~inflight[i].adopted
  BY DEF Acceptable
<1>2. /\ token.epoch = epoch /\ token.revision = policy_revision
      /\ token.generation = planned.generation /\ token.frame = planned.frame
  BY DEF Acceptable, Stale
<1>3. /\ Entry(token).revision = token.revision
      /\ Entry(token).frame = token.frame
      /\ Entry(token).generation = token.generation
  BY DEF Entry
<1>4. Entry(inflight[i].token) = Entry(token) /\ inflight[i].token.epoch = epoch
  BY <1>1, <1>2
<1> HIDE DEF Entry
<1> QED
  BY <1>1, <1>2, <1>3, <1>4 DEF Current

\* The re-verification that opens a cycle only takes entries away.
LEMMA RefreshOnlyRemoves ==
  ASSUME NEW cycle
  PROVE  Refreshed(cycle) \subseteq coverage
BY DEF Refreshed

\* A committed batch adds the entries of its tokens.
LEMMA AcceptAddsCurrentWork ==
  ASSUME NEW batch, NEW content, NEW room, AcceptWork(batch, content, room)
  PROVE  \A entry \in coverage' \ coverage : Current(entry)
<1>1. /\ \A token \in batch : Acceptable(token, content)
      /\ coverage' = AcceptedLedger(batch)
  BY DEF AcceptWork
<1>2. ASSUME NEW entry \in coverage' \ coverage PROVE Current(entry)
  <2>1. PICK token \in batch : entry = Entry(token)
    BY <1>1, <1>2 DEF AcceptedLedger
  <2> QED
    BY <1>1, <2>1, AcceptableIsCurrent
<1> QED
  BY <1>2

\* Evidence enters the ledger only through a token of the present epoch, policy
\* and planned frame that was in flight and not yet adopted, in whatever order
\* the caller plans, hands work in late, changes its policy or resets.
THEOREM OnlyCurrentWorkEntersTheLedger ==
  Spec => OnlyCurrentWorkIsAdopted
<1>1. ASSUME [Next]_vars
      PROVE  [\A entry \in coverage' \ coverage : Current(entry)]_vars
  <2>1. ASSUME coverage' \subseteq coverage
        PROVE  \A entry \in coverage' \ coverage : Current(entry)
    BY <2>1
  <2>2. ASSUME NEW conditions, SetAttentionPolicy(conditions) PROVE coverage' \subseteq coverage
    BY <2>2 DEF SetAttentionPolicy
  <2>3. ASSUME NEW cycle, NEW frame,
               PlanCycle(cycle, frame) \/ PlanCutShort(cycle, frame) \/ PlanLosesEdges(cycle, frame)
        PROVE  coverage' \subseteq coverage
    <3>1. coverage' = Refreshed(cycle)
      BY <2>3 DEF PlanCycle, PlanCutShort, PlanLosesEdges
    <3> QED
      BY <3>1, RefreshOnlyRemoves
  <2>4. ASSUME NEW batch, NEW content, AcceptRejects(batch, content) PROVE coverage' \subseteq coverage
    BY <2>4 DEF AcceptRejects
  <2>5. ASSUME NEW room, NotifySourceReset(room) PROVE coverage' \subseteq coverage
    BY <2>5 DEF NotifySourceReset, EndCycleState
  <2>6. ASSUME DrainEvents PROVE coverage' \subseteq coverage
    BY <2>6 DEF DrainEvents
  <2> QED
    BY <1>1, <2>1, <2>2, <2>3, <2>4, <2>5, <2>6, AcceptAddsCurrentWork DEF Next, Plan, Accept
<1> QED
  BY <1>1, PTL DEF Spec, OnlyCurrentWorkIsAdopted, Current

-----------------------------------------------------------------------------
(* The observations an accepted batch validates *)

\* The folds that advance the population by the adopted observations.
Advances == INSTANCE FoldSteps WITH Op <- AdvanceAccepted

\* An adopted item that finds its entity lies in what the ledger covers.
Witnessed(scene, ledger, item) ==
  ~ReplanFrames /\ Adopted(scene.flights, item) /\ item.channel = "present" =>
    Covered(ledger, item.bounds)

\* The population and the changes are sound, and the population is the old one's.
Carried(acc, done, frame, ledger) ==
  /\ Sound(acc.population, acc.changes, done, frame, ledger)
  /\ DOMAIN acc.population = DOMAIN entities

\* Advancing by one adopted item keeps what is carried.
LEMMA AdvanceKept ==
  ASSUME NEW scene, NEW frame, frame = scene.frame, frame \in Frames, NEW ledger,
         NEW acc, NEW done, Carried(acc, done, frame, ledger),
         NEW item \in ItemType, item.id \notin done, Witnessed(scene, ledger, item)
  PROVE  Carried(AdvanceAccepted(scene, acc, item), done \cup {item.id}, frame, ledger)
<1> USE DEF Carried
<1> DEFINE population == acc.population
           id == item.id
           entity == population[id]
           moved == Advance(id, entity, item, scene.frame)
           next == AdvanceAccepted(scene, acc, item)
           after == [population EXCEPT ![id] = moved.entity]
<1>1. CASE ~(Adopted(scene.flights, item) /\ id \in DOMAIN population)
  <2>1. next = acc
    BY <1>1 DEF AdvanceAccepted
  <2>2. \A i \in DOMAIN acc.population \ (done \cup {id}) : Untouched(acc.population, i)
    BY DEF Sound
  <2>3. Sound(acc.population, acc.changes, done \cup {id}, scene.frame, ledger)
    BY <2>2 DEF Sound
  <2> HIDE DEF next
  <2> QED
    BY <2>1, <2>3 DEF next
<1>2. CASE Adopted(scene.flights, item) /\ id \in DOMAIN population
  <2>1. next = [population |-> after, changes |-> acc.changes \o moved.changes, moved |-> TRUE]
    BY <1>2 DEF AdvanceAccepted
  <2> HIDE DEF after, moved, next
  <2>2. next.population = after /\ next.changes = acc.changes \o moved.changes
    BY <2>1
  <2>3. entity \in EntityType
    BY <1>2 DEF Sound, Grown
  <2> USE DEF after, moved
  <2>4. /\ Moves(id, entity, scene.frame, moved)
        /\ IF item.channel = "present" THEN Seen(entity, item, scene.frame, moved)
                                       ELSE Stays(entity, moved)
    BY <2>3, AdvanceMoves
  <2> HIDE DEF after, moved
  <2>5. \/ Stays(entity, moved)
        \/ /\ moved.entity.observed_frame = scene.frame
           /\ ~ReplanFrames => Covered(ledger, moved.entity.bounds)
    BY <1>2, <2>4 DEF Seen, Witnessed
  <2>6. Sound(population, acc.changes, done, scene.frame, ledger)
    OBVIOUS
  <2> HIDE DEF population, id
  <2>7. /\ Sound([population EXCEPT ![id] = moved.entity], acc.changes \o moved.changes,
                 done \cup {id}, scene.frame, ledger)
        /\ DOMAIN [population EXCEPT ![id] = moved.entity] = DOMAIN population
    <3>1. id \notin done
      BY DEF id
    <3> QED
      BY <1>2, <2>4, <2>5, <2>6, <3>1, TouchSound
  <2> QED
    BY <2>2, <2>7 DEF next, after, id, population
<1> QED
  BY <1>1, <1>2

\* The population after a commit is sound, whatever the ledger it leaves, as long
\* as that covers what the commit observes.
LEMMA AcceptKept ==
  ASSUME EntitiesKept, pending.frame \in Frames,
         pending.items \in Seq(ItemType), OnceEach(pending.items), NEW flights, NEW ledger,
         \A i \in DOMAIN pending.items :
           LET item == pending.items[i]
           IN  ~ReplanFrames /\ AdvancesNow /\ Adopted(flights, item) /\ item.channel = "present" =>
                 Covered(ledger, item.bounds)
  PROVE  LET seen == AcceptedObservation(flights)
         IN  /\ \E done : /\ done \subseteq {pending.items[i].id : i \in DOMAIN pending.items}
                         /\ Sound(seen.population, seen.changes, done, pending.frame, ledger)
             /\ ~AdvancesNow => seen.population = entities /\ seen.changes = <<>>
<1> DEFINE scene == [flights |-> flights, frame |-> pending.frame]
           start == [population |-> entities, changes |-> <<>>, moved |-> FALSE]
           items == IF AdvancesNow THEN pending.items ELSE <<>>
           seen == AcceptedObservation(flights)
           n == Len(items)
<1>1. seen = Advances!Folded(scene, start, items)
  BY DEF AcceptedObservation, Advances!Folded, Advances!FoldLeft, FoldLeft, MapThenFoldSet,
         Advances!MapThenFoldSet, Max, Advances!Max
<1>2. scene.frame = pending.frame /\ scene.flights = flights
  OBVIOUS
<1>3. /\ Sound(start.population, start.changes, {}, scene.frame, ledger)
      /\ start.population = entities /\ start.changes = <<>>
  <2>1. start.population = entities /\ start.changes = <<>>
    OBVIOUS
  <2> HIDE DEF start, scene
  <2>2. Sound(entities, <<>>, {}, scene.frame, ledger)
    BY StartIsSound
  <2> QED
    BY <2>1, <2>2
<1>4. items \in Seq(ItemType)
  <2> DEFINE none == <<>>
  <2>1. none \in Seq(ItemType)
    OBVIOUS
  <2>2. items = IF AdvancesNow THEN pending.items ELSE none
    OBVIOUS
  <2> HIDE DEF none, items
  <2> QED
    BY <2>1, <2>2
<1>5. n \in Nat /\ DOMAIN items = 1 .. n /\ \A i \in 1 .. n : items[i] \in ItemType
  <2> HIDE DEF items
  <2> QED
    BY <1>4
<1>6. /\ \A i, j \in 1 .. n : items[i].id = items[j].id => i = j
      /\ \A i \in 1 .. n : ~ReplanFrames /\ Adopted(flights, items[i]) /\ items[i].channel = "present" =>
           Covered(ledger, items[i].bounds)
  <2>1. CASE AdvancesNow
    <3>1. items = pending.items
      BY <2>1
    <3> HIDE DEF items, n
    <3> QED
      BY <1>5, <2>1, <3>1 DEF OnceEach
  <2>2. CASE ~AdvancesNow
    <3>1. n = 0
      BY <2>2
    <3> HIDE DEF n
    <3> QED
      BY <3>1
  <2> QED
    BY <2>1, <2>2
<1>7. ~AdvancesNow => n = 0
  OBVIOUS
<1>12. \A i \in 1 .. n : items[i].id \in {pending.items[j].id : j \in DOMAIN pending.items}
  <2>1. CASE AdvancesNow
    BY <1>5, <2>1
  <2>2. CASE ~AdvancesNow
    BY <1>7, <2>2
  <2> QED
    BY <2>1, <2>2
<1> HIDE DEF scene, start, items, seen, n
<1>8. PICK a : Advances!Trace(scene, start, items, n, a) /\ Advances!Folded(scene, start, items) = a[n]
  BY <1>5, Advances!FoldTrace
<1> DEFINE Done == [i \in 0 .. n |-> {items[j].id : j \in 1 .. i}]
<1>9. /\ Done[0] = {}
      /\ \A i \in 1 .. n : items[i].id \notin Done[i - 1] /\ Done[i] = Done[i - 1] \cup {items[i].id}
  <2>1. Done[0] = {}
    BY <1>5
  <2>2. ASSUME NEW i \in 1 .. n
        PROVE  items[i].id \notin Done[i - 1] /\ Done[i] = Done[i - 1] \cup {items[i].id}
    <3>1. \A j \in 1 .. i - 1 : j \in 1 .. n /\ j # i
      BY <1>5
    <3>2. 1 .. i = (1 .. i - 1) \cup {i} /\ i \in 0 .. n /\ i - 1 \in 0 .. n
      BY <1>5
    <3> QED
      BY <1>6, <3>1, <3>2
  <2> QED
    BY <2>1, <2>2
<1> HIDE DEF Done
<1> DEFINE P == {i \in 0 .. n : Carried(a[i], Done[i], scene.frame, ledger)}
<1>10. \A i \in 0 .. n : i \in P
  <2> USE DEF Carried
  <2>1. 0 \in P
    <3>1. a[0] = start
      BY <1>8 DEF Advances!Trace
    <3>2. Done[0] = {}
      BY <1>9
    <3>3. Sound(start.population, start.changes, Done[0], scene.frame, ledger)
      BY <1>3, <3>2
    <3>4. Sound(a[0].population, a[0].changes, Done[0], scene.frame, ledger)
      BY <3>1, <3>3
    <3>5. DOMAIN a[0].population = DOMAIN entities
      BY <1>3, <3>1
    <3>6. 0 \in 0 .. n
      BY <1>5
    <3> QED
      BY <3>4, <3>5, <3>6
  <2>2. ASSUME NEW i \in 1 .. n, i - 1 \in P PROVE i \in P
    <3>1. a[i] = AdvanceAccepted(scene, a[i - 1], items[i])
      BY <1>8 DEF Advances!Trace
    <3> HIDE DEF Carried
    <3> DEFINE acc == a[i - 1]
               done == Done[i - 1]
               item == items[i]
               frame == scene.frame
    <3>2. /\ Carried(acc, done, frame, ledger) /\ frame = scene.frame /\ frame \in Frames
          /\ item \in ItemType /\ item.id \notin done
      BY <1>2, <1>5, <1>9, <2>2
    <3>3. Witnessed(scene, ledger, item)
      BY <1>2, <1>6 DEF Witnessed
    <3>4. i \in 0 .. n /\ Done[i] = done \cup {item.id} /\ a[i] = AdvanceAccepted(scene, acc, item)
      BY <1>5, <1>9, <3>1
    <3> HIDE DEF acc, done, item, frame
    <3>5. Carried(AdvanceAccepted(scene, acc, item), done \cup {item.id}, frame, ledger)
      BY <3>2, <3>3, AdvanceKept
    <3>6. Carried(a[i], Done[i], scene.frame, ledger)
      BY <3>4, <3>5 DEF frame
    <3> QED
      BY <3>4, <3>6
  <2> HIDE DEF P
  <2> QED
    BY <1>5, <2>1, <2>2, Advances!BoundedInduction
<1>11. ~AdvancesNow => seen = start
  BY <1>1, <1>7, <1>8 DEF Advances!Trace
<1> QED
  <2>1. n \in P /\ seen = a[n]
    BY <1>1, <1>5, <1>8, <1>10 DEF Carried
  <2>2. Sound(seen.population, seen.changes, Done[n], pending.frame, ledger)
    BY <1>2, <2>1 DEF Carried
  <2>3. ~AdvancesNow => seen.population = entities /\ seen.changes = <<>>
    BY <1>3, <1>11
  <2>4. Done[n] \subseteq {pending.items[j].id : j \in DOMAIN pending.items}
    BY <1>5, <1>12 DEF Done
  <2> QED
    BY <2>2, <2>3, <2>4 DEF seen

-----------------------------------------------------------------------------
(* The tokens of a cycle *)

\* Picking elements of a sequence leaves a sequence.
LEMMA PiecesFlatten ==
  ASSUME NEW S, NEW n \in Nat, NEW pieces, DOMAIN pieces = 1 .. n,
         pieces = [i \in DOMAIN pieces |-> pieces[i]],
         \A i \in 1 .. n : pieces[i] = <<>> \/ \E x \in S : pieces[i] = <<x>>
  PROVE  FlattenSeq(pieces) \in Seq(S)
<1> DEFINE none == <<>>
<1>1. none \in Seq(S)
  OBVIOUS
<1>2. \A x \in S : <<x>> \in Seq(S)
  OBVIOUS
<1> HIDE DEF none
<1>3. \A i \in 1 .. n : pieces[i] = none \/ \E x \in S : pieces[i] = <<x>>
  BY DEF none
<1>4. \A i \in 1 .. n : pieces[i] \in Seq(S)
  BY <1>1, <1>2, <1>3
<1> DEFINE T == Seq(S)
<1>5. pieces \in [1 .. n -> T]
  BY <1>4
<1>6. pieces \in Seq(T)
  <2> HIDE DEF T
  <2> QED
    BY <1>5
<1> QED
  BY <1>6, FlattenIsSeq

\* A condition asks for one piece of work at most.
LEMMA WorkForIsShort ==
  ASSUME NEW condition, condition.by \in {"id", "text", "roi"}, NEW cycle
  PROVE  WorkFor(condition, cycle) = <<>> \/ \E x : WorkFor(condition, cycle) = <<x>>
<1>1. \A roi : \E x : FocusWork(roi) = <<x>>
  BY DEF FocusWork
<1>2. CASE condition.by = "id"
  BY <1>1, <1>2 DEF WorkFor
<1>3. CASE condition.by = "text"
  BY <1>1, <1>3 DEF WorkFor
<1>4. CASE condition.by = "roi"
  BY <1>1, <1>4 DEF WorkFor
<1> QED
  BY <1>2, <1>3, <1>4

\* A selection of the elements of a sequence.
LEMMA SelectedIsSeq ==
  ASSUME NEW S, NEW seq \in Seq(S), NEW kept
  PROVE  FlattenSeq([i \in DOMAIN seq |-> IF i \in kept THEN <<seq[i]>> ELSE <<>>]) \in Seq(S)
<1> DEFINE pieces == [i \in DOMAIN seq |-> IF i \in kept THEN <<seq[i]>> ELSE <<>>]
           n == Len(seq)
<1>1. n \in Nat /\ DOMAIN pieces = 1 .. n /\ pieces = [i \in DOMAIN pieces |-> pieces[i]]
  OBVIOUS
<1>2. \A i \in 1 .. n : pieces[i] = <<>> \/ \E x \in S : pieces[i] = <<x>>
  OBVIOUS
<1> HIDE DEF pieces, n
<1>3. FlattenSeq(pieces) \in Seq(S)
  BY <1>1, <1>2, PiecesFlatten
<1> QED
  BY <1>3 DEF pieces

\* The work of the attention policy is a sequence.
LEMMA AttentionIsSeq ==
  ASSUME policy \in Policies \cup {NoPolicy}, NEW cycle
  PROVE  \E S : AttentionWork(cycle) \in Seq(S)
<1> DEFINE S == {WorkFor(policy[i], cycle)[1] : i \in DOMAIN policy}
           pieces == [i \in DOMAIN policy |-> WorkFor(policy[i], cycle)]
           work == FlattenSeq(pieces)
<1>1. PICK n \in Nat : DOMAIN policy = 1 .. n
  <2>1. CASE policy = NoPolicy
    BY <2>1 DEF NoPolicy
  <2>2. CASE policy \in Policies
    BY <2>2, PoliciesAssumption
  <2> QED
    BY <2>1, <2>2
<1>2. \A i \in 1 .. n : policy[i].by \in {"id", "text", "roi"}
  <2>1. CASE policy = NoPolicy
    BY <1>1, <2>1 DEF NoPolicy
  <2>2. CASE policy \in Policies
    BY <1>1, <2>2, PoliciesAssumption DEF ToSet
  <2> QED
    BY <2>1, <2>2
<1>3. \A i \in 1 .. n : pieces[i] = <<>> \/ \E x \in S : pieces[i] = <<x>>
  <2>1. ASSUME NEW i \in 1 .. n PROVE pieces[i] = <<>> \/ \E x \in S : pieces[i] = <<x>>
    <3>1. WorkFor(policy[i], cycle) = <<>> \/ \E x : WorkFor(policy[i], cycle) = <<x>>
      BY <1>2, WorkForIsShort
    <3>2. pieces[i] = WorkFor(policy[i], cycle) /\ WorkFor(policy[i], cycle)[1] \in S
      BY <1>1
    <3> DEFINE piece == WorkFor(policy[i], cycle)
    <3> HIDE DEF piece, S, pieces
    <3>3. piece = <<>> \/ \E x : piece = <<x>>
      BY <3>1 DEF piece
    <3>4. pieces[i] = piece /\ piece[1] \in S
      BY <3>2 DEF piece
    <3> QED
      BY <3>3, <3>4
  <2> QED
    BY <2>1
<1>4. DOMAIN pieces = 1 .. n /\ pieces = [i \in DOMAIN pieces |-> pieces[i]]
  BY <1>1
<1>5. work \in Seq(S)
  <2> HIDE DEF pieces, S
  <2> QED
    BY <1>3, <1>4, PiecesFlatten
<1> DEFINE Of(kind) == FlattenSeq([i \in DOMAIN work |-> IF work[i].kind = kind THEN <<work[i]>> ELSE <<>>])
<1>6. AttentionWork(cycle) = Of("kFocus") \o Of("kBootstrap")
  BY DEF AttentionWork, Only
<1> HIDE DEF work, S
<1>7. \A kind : Of(kind) \in Seq(S)
  <2>1. ASSUME NEW kind PROVE Of(kind) \in Seq(S)
    <3> DEFINE kept == {i \in DOMAIN work : work[i].kind = kind}
               Piece(i) == IF work[i].kind = kind THEN <<work[i]>> ELSE <<>>
               Chosen(i) == IF i \in kept THEN <<work[i]>> ELSE <<>>
    <3>1. FlattenSeq([i \in DOMAIN work |-> Chosen(i)]) \in Seq(S)
      <4> HIDE DEF kept
      <4> QED
        BY <1>5, SelectedIsSeq
    <3>2. \A i \in DOMAIN work : Piece(i) = Chosen(i)
      OBVIOUS
    <3> HIDE DEF kept
    <3>3. [i \in DOMAIN work |-> Chosen(i)] = [i \in DOMAIN work |-> Piece(i)]
      BY <3>2
    <3> QED
      BY <3>1, <3>3
  <2> QED
    BY <2>1
<1> HIDE DEF Of
<1>8. Of("kFocus") \o Of("kBootstrap") \in Seq(S)
  BY <1>7
<1> QED
  BY <1>6, <1>8

\* The tokens of a cycle are numbered from 1, and bound to its frame and epoch.
LEMMA IssuedFacts ==
  ASSUME policy \in Policies \cup {NoPolicy}, NEW cycle, NEW frame
  PROVE  LET tokens == Issued(cycle, frame)
         IN  \E n \in Nat :
               /\ DOMAIN tokens = 1 .. n /\ Len(tokens) = n
               /\ tokens = [i \in 1 .. n |-> tokens[i]]
               /\ \A i \in 1 .. n : tokens[i].epoch = epoch /\ tokens[i].frame = frame
<1> DEFINE ledger == Refreshed(cycle)
           work == AttentionWork(cycle)
           needed == FlattenSeq([i \in DOMAIN work |->
                       IF work[i].kind = "kFocus" => ~Covered(ledger, work[i].roi)
                       THEN <<work[i]>> ELSE <<>>])
           Token(w) == [epoch |-> epoch, frame |-> frame, generation |-> cycle.generation,
                        revision |-> policy_revision, request |-> cycle.request,
                        roi |-> w.roi, content |-> Digest(cycle.content, w.roi)]
           tokens == Issued(cycle, frame)
<1>1. tokens = [i \in DOMAIN needed |-> Token(needed[i])]
  BY DEF Issued, Only
<1>2. PICK S : work \in Seq(S)
  BY AttentionIsSeq
<1> HIDE DEF work, ledger
<1>3. needed \in Seq(S)
  <2> DEFINE kept == {i \in DOMAIN work : work[i].kind = "kFocus" => ~Covered(ledger, work[i].roi)}
             Piece(i) == IF work[i].kind = "kFocus" => ~Covered(ledger, work[i].roi)
                         THEN <<work[i]>> ELSE <<>>
             Chosen(i) == IF i \in kept THEN <<work[i]>> ELSE <<>>
  <2>1. FlattenSeq([i \in DOMAIN work |-> Chosen(i)]) \in Seq(S)
    <3> HIDE DEF kept
    <3> QED
      BY <1>2, SelectedIsSeq
  <2>2. \A i \in DOMAIN work : Piece(i) = Chosen(i)
    OBVIOUS
  <2> HIDE DEF kept
  <2>3. [i \in DOMAIN work |-> Chosen(i)] = [i \in DOMAIN work |-> Piece(i)]
    BY <2>2
  <2> QED
    BY <2>1, <2>3
<1> DEFINE n == Len(needed)
<1>4. n \in Nat /\ DOMAIN needed = 1 .. n
  <2> HIDE DEF needed
  <2> QED
    BY <1>3
<1> HIDE DEF needed, tokens, n
<1>5. DOMAIN tokens = 1 .. n /\ tokens = [i \in 1 .. n |-> tokens[i]]
  BY <1>1, <1>4
<1>6. Len(tokens) = n
  BY <1>4, <1>5
<1>7. \A i \in 1 .. n : tokens[i].epoch = epoch /\ tokens[i].frame = frame
  BY <1>1, <1>4
<1> QED
  BY <1>4, <1>5, <1>6, <1>7 DEF tokens

-----------------------------------------------------------------------------
(* The consumer's view and the queue *)

\* The view after a queue is a fold over it.
LEMMA ViewIsFold ==
  ASSUME NEW queue
  PROVE  ViewAfter(queue) = Replays!Folded(0, consumer.view, queue)
BY DEF ViewAfter, Replays!Folded, FoldLeft, Replays!FoldLeft, MapThenFoldSet,
       Replays!MapThenFoldSet, Max, Replays!Max, ReplayOf

\* A consumer that replays numbered changes is told them under their epoch.
LEMMA NumberedAreTold ==
  ASSUME NEW changes \in Seq(ChangeType), NEW view
  PROVE  Replays!Folded(0, view, Numbered(changes)) = Told(epoch, view, changes)
<1> DEFINE n == Len(changes)
           numbered == Numbered(changes)
<1>1. n \in Nat /\ DOMAIN changes = 1 .. n
  OBVIOUS
<1>2. /\ DOMAIN numbered = 1 .. n
      /\ \A i \in 1 .. n : numbered[i].epoch = epoch /\ numbered[i].change = changes[i]
  BY <1>1 DEF Numbered
<1> HIDE DEF n, numbered
<1>3. PICK a : Replays!Trace(0, view, numbered, n, a) /\ Replays!Folded(0, view, numbered) = a[n]
  BY <1>1, <1>2, Replays!FoldTrace
<1>4. PICK b : Tellings!Trace(epoch, view, changes, n, b) /\ Tellings!Folded(epoch, view, changes) = b[n]
  BY <1>1, Tellings!FoldTrace
<1>5. \A v : \A i \in 1 .. n : ReplayOf(0, v, numbered[i]) = TellOf(epoch, v, changes[i])
  BY <1>2 DEF ReplayOf, TellOf, Replayed, Instance
<1>6. Tellings!Trace(epoch, view, changes, n, a)
  <2>1. DOMAIN a = 0 .. n /\ a[0] = view
    BY <1>3 DEF Replays!Trace
  <2>2. \A i \in 1 .. n : a[i] = TellOf(epoch, a[i - 1], changes[i])
    BY <1>3, <1>5 DEF Replays!Trace
  <2> QED
    BY <2>1, <2>2 DEF Tellings!Trace
<1>7. n \in 0 .. n
  BY <1>1
<1>8. a[n] = b[n]
  BY <1>1, <1>4, <1>6, <1>7, Tellings!TraceIsUnique
<1> QED
  BY <1>3, <1>4, <1>8 DEF Told, numbered

\* What is published goes on with the truth.
LEMMA PublishTellsTheTruth ==
  ASSUME QueueKept, epoch \in 1 .. MaxEpoch, NEW changes \in Seq(ChangeType),
         ViewAfter(events) = Truth(epoch, entities),
         NEW truth, Told(epoch, Truth(epoch, entities), changes) = truth,
         events' = events \o Numbered(changes), consumer' = consumer
  PROVE  ViewAfter(events)' = truth
<1> DEFINE numbered == Numbered(changes)
           base == Truth(epoch, entities)
           S == [seq : Nat, epoch : 1 .. MaxEpoch, change : ChangeType]
<1>1. events \in Seq(S)
  BY DEF QueueKept, EventType
<1>2. numbered \in Seq(S)
  <2> DEFINE n == Len(changes)
  <2>1. n \in Nat /\ DOMAIN changes = 1 .. n /\ \A i \in 1 .. n : changes[i] \in ChangeType
    OBVIOUS
  <2>2. event_sequence \in Nat
    BY DEF QueueKept
  <2> HIDE DEF n
  <2>3. \A i \in 1 .. n : [seq |-> event_sequence + i, epoch |-> epoch, change |-> changes[i]] \in S
    BY <2>1, <2>2
  <2> HIDE DEF S
  <2>4. numbered \in [1 .. n -> S]
    BY <2>1, <2>3 DEF Numbered
  <2> HIDE DEF numbered
  <2> QED
    BY <2>1, <2>4
<1> HIDE DEF numbered, S, base
<1>3. Replays!Folded(0, consumer.view, events \o numbered)
        = Replays!Folded(0, Replays!Folded(0, consumer.view, events), numbered)
  BY <1>1, <1>2, Replays!FoldConcat
<1>4. ViewAfter(events)' = Replays!Folded(0, consumer.view, events \o numbered)
  <2>1. ViewAfter(events)' = FoldLeft(Replayed, consumer.view, events \o numbered)
    BY DEF ViewAfter, numbered
  <2>2. FoldLeft(Replayed, consumer.view, events \o numbered) = ViewAfter(events \o numbered)
    BY DEF ViewAfter
  <2> QED
    BY <2>1, <2>2, ViewIsFold
<1>5. Replays!Folded(0, consumer.view, events) = base
  BY ViewIsFold DEF base
<1>6. Replays!Folded(0, base, numbered) = Told(epoch, base, changes)
  BY NumberedAreTold DEF numbered
<1> QED
  BY <1>3, <1>4, <1>5, <1>6 DEF base

-----------------------------------------------------------------------------
(* The events a reset publishes *)

\* The ends of all open lifecycles are told as such: afterwards nothing is open.
LEMMA EndsAreTold ==
  ASSUME EntitiesKept,
         NEW ids, ids = {id \in DOMAIN entities : entities[id].open}
  PROVE  /\ Ends(ids) \in Seq(ChangeType)
         /\ \A i \in DOMAIN Ends(ids) : Ends(ids)[i].kind = "kSourceReset"
         /\ Told(epoch, Truth(epoch, entities), Ends(ids)) = [open |-> {}, sound |-> TRUE]
<1> DEFINE n == Cardinality(ids)
           order == InOrder(ids)
           ends == Ends(ids)
<1>1. ids \subseteq DOMAIN entities /\ ids \subseteq Nat /\ IsFiniteSet(ids)
  <2>1. DOMAIN entities \subseteq Nat /\ ids \subseteq DOMAIN entities /\ IsFiniteSet(DOMAIN entities)
    BY IdsAssumption DEF EntitiesKept
  <2> QED
    BY <2>1, FS_Subset
<1>2. /\ n \in Nat /\ order \in [1 .. n -> ids]
      /\ \A i, j \in 1 .. n : order[i] = order[j] => i = j
      /\ \A id \in ids : \E i \in 1 .. n : order[i] = id
  BY <1>1, InOrderLists
<1>3. /\ ends = [i \in 1 .. n |-> [kind |-> "kSourceReset", id |-> order[i],
                                   instance |-> entities[order[i]].instance,
                                   observed |-> 0, confirmed |-> 0]]
      /\ DOMAIN ends = 1 .. n
  BY <1>2 DEF Ends
<1> HIDE DEF n, order, ends
<1>4. \A i \in 1 .. n : /\ ends[i].kind = "kSourceReset" /\ ends[i].id = order[i]
                        /\ ends[i].instance = entities[order[i]].instance
                        /\ order[i] \in ids
  BY <1>2, <1>3
<1>5. ends \in Seq(ChangeType)
  <2>1. \A i \in 1 .. n : entities[order[i]].instance \in Nat /\ order[i] \in Ids
    BY <1>1, <1>2 DEF EntitiesKept, EntityType
  <2>2. \A i \in 1 .. n : ends[i] \in ChangeType
    BY <1>3, <2>1, FrameZero DEF ChangeType
  <2>3. ends \in [1 .. n -> ChangeType]
    BY <1>3, <2>2
  <2> QED
    BY <1>2, <2>3
<1> DEFINE Inst(id) == [epoch |-> epoch, id |-> id, instance |-> entities[id].instance]
           Rest == [i \in 0 .. n |-> {Inst(order[j]) : j \in i + 1 .. n}]
<1>6. Rest[0] = Opened(epoch, entities) /\ Rest[n] = {}
  <2>1. Opened(epoch, entities) = {Inst(id) : id \in ids}
    BY DEF Opened
  <2>2. Rest[0] = {Inst(order[j]) : j \in 1 .. n}
    BY <1>2
  <2>3. n \in 0 .. n /\ n + 1 .. n = {}
    BY <1>2
  <2> QED
    BY <1>2, <2>1, <2>2, <2>3
<1>7. \A i \in 1 .. n : Rest[i - 1] = Rest[i] \cup {Inst(order[i])} /\ Inst(order[i]) \notin Rest[i]
  <2>1. ASSUME NEW i \in 1 .. n
        PROVE  Rest[i - 1] = Rest[i] \cup {Inst(order[i])} /\ Inst(order[i]) \notin Rest[i]
    <3>1. /\ i \in 0 .. n /\ i - 1 \in 0 .. n /\ i - 1 + 1 = i
          /\ i .. n = {i} \cup (i + 1 .. n)
          /\ \A j \in i + 1 .. n : j \in 1 .. n /\ j # i
      BY <1>2
    <3>2. Rest[i - 1] = {Inst(order[j]) : j \in i .. n} /\ Rest[i] = {Inst(order[j]) : j \in i + 1 .. n}
      BY <3>1
    <3>3. \A j \in i + 1 .. n : Inst(order[j]) # Inst(order[i])
      <4>1. \A j \in i + 1 .. n : order[j] # order[i]
        BY <1>2, <3>1
      <4> QED
        BY <4>1
    <3> HIDE DEF Rest, Inst
    <3> QED
      BY <3>1, <3>2, <3>3
  <2> QED
    BY <2>1
<1> HIDE DEF Rest
<1> DEFINE base == Truth(epoch, entities)
<1>8. base = [open |-> Rest[0], sound |-> TRUE]
  BY <1>6 DEF Truth
<1> HIDE DEF base
<1>9. PICK a : Tellings!Trace(epoch, base, ends, n, a) /\ Tellings!Folded(epoch, base, ends) = a[n]
  <2>1. n \in Nat /\ DOMAIN ends = 1 .. n
    BY <1>2, <1>3
  <2> QED
    BY <2>1, Tellings!FoldTrace
<1> DEFINE P == {i \in 0 .. n : a[i] = [open |-> Rest[i], sound |-> TRUE]}
<1>10. 0 \in P
  BY <1>2, <1>8, <1>9 DEF Tellings!Trace
<1>11. ASSUME NEW i \in 1 .. n, i - 1 \in P PROVE i \in P
  <2>1. a[i] = TellOf(epoch, a[i - 1], ends[i]) /\ i \in 0 .. n
    BY <1>2, <1>9 DEF Tellings!Trace
  <2> DEFINE instance == Inst(order[i])
  <2>2. Instance([seq |-> 0, epoch |-> epoch, change |-> ends[i]]) = instance
    BY <1>4 DEF Instance
  <2> HIDE DEF instance
  <2>3. /\ a[i - 1].open = Rest[i - 1] /\ a[i - 1].sound = TRUE
        /\ Rest[i - 1] = Rest[i] \cup {instance} /\ instance \notin Rest[i]
    BY <1>7, <1>11 DEF instance
  <2>4. TellOf(epoch, a[i - 1], ends[i]) = [open |-> Rest[i - 1] \ {instance}, sound |-> TRUE]
    BY <1>4, <2>2, <2>3 DEF TellOf, Replayed
  <2>5. Rest[i - 1] \ {instance} = Rest[i]
    BY <2>3
  <2> QED
    BY <2>1, <2>4, <2>5
<1>12. n \in P
  <2> HIDE DEF P
  <2>1. \A i \in 0 .. n : i \in P
    BY <1>2, <1>10, <1>11, Tellings!BoundedInduction
  <2> QED
    BY <1>2, <2>1
<1>13. Told(epoch, base, ends) = [open |-> {}, sound |-> TRUE]
  BY <1>6, <1>9, <1>12 DEF Told
<1> QED
  BY <1>3, <1>4, <1>5, <1>13 DEF ends, base

-----------------------------------------------------------------------------
(* What every planning call starts from *)

\* The frame and the cycle a planning call may be made with.
LEMMA MayPlanFacts ==
  ASSUME IInv, NEW cycle \in Cycles, NEW frame \in 0 .. MaxFrame, MayPlan(cycle, frame)
  PROVE  /\ frame \in Frames /\ frame \in Nat /\ caller.frame \in Nat /\ advanced.plan \in Nat
         /\ caller.frame <= frame /\ advanced.plan <= frame
         /\ ~ReplanFrames => advanced.plan < frame
         /\ cycle.generation \in Generations /\ cycle.room \in Nat /\ cycle.notify \in BOOLEAN
<1>1. frame \in Frames /\ frame \in Nat
  BY LimitsAssumption DEF Frames
<1>2. caller.frame \in Nat /\ advanced.plan \in Nat /\ advanced.plan <= caller.frame
  BY LimitsAssumption DEF IInv, CallerKept, FramesKept, Frames, Typed
<1>3. caller.frame <= frame
  BY <1>1, <1>2 DEF MayPlan
<1>4. ~ReplanFrames => advanced.plan < frame
  BY <1>1, <1>2 DEF MayPlan
<1>5. cycle.generation \in Generations /\ cycle.room \in Nat /\ cycle.notify \in BOOLEAN
  BY CyclesAssumption DEF Generations
<1>6. advanced.plan <= frame
  BY <1>1, <1>2, <1>3
<1> QED
  BY <1>1, <1>2, <1>3, <1>4, <1>5, <1>6

\* Re-verifying the ledger leaves part of it.
LEMMA RefreshedFacts ==
  ASSUME LedgerKept, NEW cycle
  PROVE  /\ Refreshed(cycle) \subseteq coverage /\ IsFiniteSet(Refreshed(cycle))
         /\ Cardinality(Refreshed(cycle)) \in Nat
         /\ Cardinality(Refreshed(cycle)) <= Cardinality(coverage)
         /\ Cardinality(coverage) \in Nat
<1>1. Refreshed(cycle) \subseteq coverage
  BY DEF Refreshed
<1>2. IsFiniteSet(coverage)
  BY DEF LedgerKept
<1> QED
  BY <1>1, <1>2, FS_Subset, FS_CardinalityType

-----------------------------------------------------------------------------

\* The coordinator starts within the invariant.
LEMMA InitKept == Init => IInv
<1> SUFFICES ASSUME Init PROVE IInv
  OBVIOUS
<1>1. /\ 0 \in Frames /\ 0 \in Generations /\ 1 \in 1 .. MaxEpoch /\ 0 \in 0 .. MaxRevision
      /\ 0 \in 0 .. MaxRejections
  BY FrameZero, LimitsAssumption
<1>2. /\ epoch = 1 /\ policy = NoPolicy /\ policy_revision = 0 /\ inflight = <<>> /\ coverage = {}
      /\ rejections = 0 /\ planned = [frame |-> 0, generation |-> 0] /\ resync_pending = FALSE
      /\ pending = NoPending /\ advanced = [plan |-> 0, accept |-> 0] /\ notify_enabled = TRUE
      /\ events = <<>> /\ event_sequence = 0 /\ dropped_events = 0
      /\ last = NoFrames /\ untracked = 0
      /\ caller = [frame |-> 0, before |-> 0, held |-> {}, acknowledged |-> 0,
                   gaps |-> NoGaps, muted |-> FALSE]
      /\ consumer = [drained |-> 0, view |-> [open |-> {}, sound |-> TRUE]]
  BY DEF Init
<1>3. DOMAIN entities = {} /\ entities = [id \in DOMAIN entities |-> entities[id]]
  BY DEF Init
<1>4. Typed
  BY <1>1, <1>2 DEF Typed, NoFrames
<1>5. QueueKept
  <2> DEFINE none == <<>>
  <2>1. none \in Seq(EventType) /\ Len(none) = 0 /\ DOMAIN none = {}
    OBVIOUS
  <2>2. events = none
    BY <1>2
  <2> HIDE DEF none
  <2> QED
    BY <1>2, <2>1, <2>2, LimitsAssumption DEF QueueKept
<1>6. CallerKept
  <2>1. NoGaps \in [Ids -> Frames]
    BY <1>1 DEF NoGaps
  <2>2. IsFiniteSet({})
    BY FS_EmptySet
  <2> HIDE DEF NoGaps
  <2> QED
    BY <1>1, <1>2, <2>1, <2>2 DEF CallerKept
<1>7. LedgerKept
  <2>1. IsFiniteSet(coverage) /\ Cardinality(coverage) <= MaxCoverage
    BY <1>2, FS_EmptySet, LimitsAssumption
  <2>2. Len(inflight) = 0 /\ DOMAIN inflight = {}
    BY <1>2
  <2>3. inflight = [i \in 1 .. Len(inflight) |->
                      [token |-> inflight[i].token, adopted |-> inflight[i].adopted]]
    BY <1>2
  <2> QED
    BY <1>2, <2>1, <2>2, <2>3 DEF LedgerKept
<1>8. FramesKept
  BY <1>2 DEF FramesKept, NoFrames, NoPending
<1>9. EntitiesKept
  <2>1. IsFiniteSet(DOMAIN entities) /\ Cardinality(DOMAIN entities) <= MaxEntities
    BY <1>3, FS_EmptySet, LimitsAssumption
  <2>2. \A id \in Ids : caller.gaps[id] <= advanced.plan
    BY <1>2 DEF NoGaps
  <2> QED
    BY <1>3, <2>1, <2>2 DEF EntitiesKept
<1>10. WaitingKept
  <2> DEFINE none == <<>>
  <2>1. none \in Seq(ItemType) /\ DOMAIN none = {}
    OBVIOUS
  <2>2. pending.items = none /\ pending.frame = 0 /\ advanced.accept = 0
    BY <1>2 DEF NoPending
  <2> HIDE DEF none
  <2>3. ~AdvancesNow
    BY <2>2 DEF AdvancesNow
  <2> QED
    BY <2>1, <2>2, <2>3 DEF WaitingKept, ItemType
<1>11. HistoryKept
  <2>1. DOMAIN events = {}
    BY <1>2
  <2> QED
    BY <2>1 DEF HistoryKept, WindowsSpanNoKnownGap, WindowsTakeTwoFrames
<1>12. TruthKept
  <2>1. ViewAfter(events) = Replays!Folded(0, consumer.view, <<>>)
    BY <1>2, ViewIsFold
  <2>2. Replays!Folded(0, consumer.view, <<>>) = consumer.view
    BY Replays!FoldShort
  <2>3. Opened(epoch, entities) = {}
    BY <1>3 DEF Opened
  <2> QED
    BY <1>2, <2>1, <2>2, <2>3 DEF TruthKept
<1> QED
  BY <1>4, <1>5, <1>6, <1>7, <1>8, <1>9, <1>10, <1>11, <1>12 DEF IInv

\* A new attention policy keeps the invariant.
LEMMA PolicyKept ==
  ASSUME IInv, NEW conditions \in Policies, SetAttentionPolicy(conditions)
  PROVE  IInv'
<1>1. /\ policy' = conditions /\ policy_revision' \in {policy_revision, policy_revision + 1}
      /\ policy_revision' # policy_revision => policy_revision < MaxRevision
      /\ UNCHANGED <<epoch, inflight, coverage, rejections, planned, resync_pending, entities,
                     pending, advanced, notify_enabled, events, event_sequence, dropped_events,
                     last, untracked, caller, consumer>>
  BY DEF SetAttentionPolicy, eventVars
<1>2. Typed'
  BY <1>1, LimitsAssumption DEF IInv, Typed
<1>3. QueueKept' /\ CallerKept' /\ LedgerKept' /\ FramesKept'
  BY <1>1 DEF IInv, QueueKept, CallerKept, LedgerKept, FramesKept
<1>4. EntitiesKept' /\ WaitingKept'
  BY <1>1 DEF IInv, EntitiesKept, WaitingKept, AdvancesNow
<1>5. HistoryKept'
  BY <1>1 DEF IInv, HistoryKept, WindowsSpanNoKnownGap, WindowsTakeTwoFrames
<1>6. TruthKept'
  BY <1>1 DEF IInv, TruthKept, ViewAfter, Opened
<1> QED
  BY <1>2, <1>3, <1>4, <1>5, <1>6 DEF IInv

\* A batch that is refused keeps the invariant.
LEMMA RejectKept ==
  ASSUME IInv, NEW batch, batch \subseteq caller.held, NEW content, AcceptRejects(batch, content)
  PROVE  IInv'
<1> DEFINE bad == {token \in batch : ~Acceptable(token, content)}
<1>0. IsFiniteSet(bad) /\ Cardinality(bad) \in Nat
  <2>1. bad \subseteq caller.held /\ IsFiniteSet(caller.held)
    BY DEF IInv, CallerKept
  <2> QED
    BY <2>1, FS_Subset, FS_CardinalityType
<1>1. /\ rejections' = rejections + Cardinality(bad) /\ rejections + Cardinality(bad) <= MaxRejections
      /\ UNCHANGED <<epoch, policy, policy_revision, inflight, coverage, planned,
                     resync_pending, entities, pending, advanced, notify_enabled, events,
                     event_sequence, dropped_events, last, untracked, caller, consumer>>
  BY DEF AcceptRejects, eventVars
<1> HIDE DEF bad
<1>2. Typed'
  BY <1>0, <1>1, LimitsAssumption DEF IInv, Typed
<1>3. QueueKept' /\ CallerKept' /\ LedgerKept' /\ FramesKept'
  BY <1>1 DEF IInv, QueueKept, CallerKept, LedgerKept, FramesKept
<1>4. EntitiesKept' /\ WaitingKept'
  BY <1>1 DEF IInv, EntitiesKept, WaitingKept, AdvancesNow
<1>5. HistoryKept'
  BY <1>1 DEF IInv, HistoryKept, WindowsSpanNoKnownGap, WindowsTakeTwoFrames
<1>6. TruthKept'
  BY <1>1 DEF IInv, TruthKept, ViewAfter, Opened
<1> QED
  BY <1>2, <1>3, <1>4, <1>5, <1>6 DEF IInv

\* A step that changes nothing keeps the invariant.
LEMMA StutterKept ==
  ASSUME IInv, UNCHANGED vars
  PROVE  IInv'
<1>1. UNCHANGED <<epoch, policy, policy_revision, inflight, coverage, rejections, planned,
                  resync_pending, entities, pending, advanced, notify_enabled, events,
                  event_sequence, dropped_events, last, untracked, caller, consumer>>
  BY DEF vars, coordinatorVars
<1>3. Typed' /\ QueueKept' /\ CallerKept' /\ LedgerKept' /\ FramesKept'
  BY <1>1 DEF IInv, Typed, QueueKept, CallerKept, LedgerKept, FramesKept
<1>4. EntitiesKept' /\ WaitingKept'
  BY <1>1 DEF IInv, EntitiesKept, WaitingKept, AdvancesNow
<1>5. HistoryKept'
  BY <1>1 DEF IInv, HistoryKept, WindowsSpanNoKnownGap, WindowsTakeTwoFrames
<1>6. TruthKept'
  BY <1>1 DEF IInv, TruthKept, ViewAfter, Opened
<1> QED
  BY <1>3, <1>4, <1>5, <1>6 DEF IInv

\* A planning call that is cut short keeps the invariant.
LEMMA CutShortKept ==
  ASSUME IInv, NEW cycle \in Cycles, NEW frame \in 0 .. MaxFrame, PlanCutShort(cycle, frame)
  PROVE  IInv'
<1>1. /\ coverage' = Refreshed(cycle) /\ resync_pending' = ResyncAfterRefresh(cycle)
      /\ UNCHANGED <<epoch, policy, policy_revision, inflight, rejections, planned, entities,
                     pending, advanced, notify_enabled, events, event_sequence, dropped_events,
                     last, untracked, caller, consumer>>
  BY DEF PlanCutShort, eventVars
<1>2. Typed' /\ CallerKept'
  <2>1. resync_pending' \in BOOLEAN /\ (resync_pending => resync_pending')
    BY <1>1 DEF ResyncAfterRefresh
  <2> QED
    BY <1>1, <2>1 DEF IInv, Typed, CallerKept
<1>3. LedgerKept'
  <2>1. LedgerKept
    BY DEF IInv
  <2>2. /\ coverage' \subseteq coverage /\ IsFiniteSet(coverage')
        /\ Cardinality(coverage') \in Nat /\ Cardinality(coverage) \in Nat
        /\ Cardinality(coverage') <= Cardinality(coverage)
    BY <1>1, <2>1, RefreshedFacts
  <2> QED
    BY <1>1, <2>1, <2>2, LimitsAssumption DEF LedgerKept
<1>4. QueueKept' /\ FramesKept' /\ EntitiesKept' /\ WaitingKept'
  BY <1>1 DEF IInv, QueueKept, FramesKept, EntitiesKept, WaitingKept, AdvancesNow
<1>5. HistoryKept'
  BY <1>1 DEF IInv, HistoryKept, WindowsSpanNoKnownGap, WindowsTakeTwoFrames
<1>6. TruthKept'
  BY <1>1 DEF IInv, TruthKept, ViewAfter, Opened
<1> QED
  BY <1>2, <1>3, <1>4, <1>5, <1>6 DEF IInv

\* The relation view that fails leaves no work to adopt for the items that wait.
LEMMA LosesEdgesKept ==
  ASSUME IInv, NEW cycle \in Cycles, NEW frame \in 0 .. MaxFrame, PlanLosesEdges(cycle, frame)
  PROVE  IInv'
<1> DEFINE tokens == Issued(cycle, frame)
<1>1. /\ coverage' = Refreshed(cycle) /\ resync_pending' = ResyncAfterRefresh(cycle)
      /\ inflight' = [i \in DOMAIN tokens |-> [token |-> tokens[i], adopted |-> FALSE]]
      /\ planned' = [frame |-> frame, generation |-> cycle.generation]
      /\ caller' = [caller EXCEPT !.frame = frame]
      /\ UNCHANGED <<epoch, policy, policy_revision, rejections, entities,
                     pending, advanced, notify_enabled, events, event_sequence, dropped_events,
                     last, untracked, consumer>>
  BY DEF PlanLosesEdges, eventVars
<1>0. MayPlan(cycle, frame)
  BY DEF PlanLosesEdges
<1>2. /\ frame \in Frames /\ frame \in Nat /\ caller.frame \in Nat /\ advanced.plan \in Nat
      /\ caller.frame <= frame /\ advanced.plan <= frame
      /\ ~ReplanFrames => advanced.plan < frame
      /\ cycle.generation \in Generations
  BY <1>0, MayPlanFacts
<1>3. PICK n \in Nat : /\ DOMAIN tokens = 1 .. n /\ Len(tokens) = n
                       /\ \A i \in 1 .. n : tokens[i].epoch = epoch /\ tokens[i].frame = frame
  BY IssuedFacts DEF IInv, Typed
<1> HIDE DEF tokens
<1>4. CallerKept
  BY DEF IInv
<1>5. /\ caller'.frame = frame /\ caller'.gaps = caller.gaps /\ caller'.muted = caller.muted
      /\ caller'.held = caller.held /\ caller'.acknowledged = caller.acknowledged
      /\ caller'.before = caller.before
  BY <1>1, <1>4 DEF CallerKept
<1>6. resync_pending' \in BOOLEAN /\ (resync_pending => resync_pending')
  BY <1>1 DEF ResyncAfterRefresh
<1>7. Typed'
  BY <1>1, <1>2, <1>6 DEF IInv, Typed
<1>8. CallerKept'
  <2>1. caller' \in [frame : Frames, before : Nat, held : SUBSET UNION {caller.held},
                     acknowledged : Nat, gaps : [Ids -> Frames], muted : BOOLEAN]
    BY <1>1, <1>2, <1>4 DEF CallerKept
  <2> QED
    BY <1>1, <1>4, <1>5, <1>6, <2>1 DEF CallerKept
<1>9. LedgerKept'
  <2>1. LedgerKept
    BY DEF IInv
  <2>2. /\ coverage' \subseteq coverage /\ IsFiniteSet(coverage')
        /\ Cardinality(coverage') \in Nat /\ Cardinality(coverage) \in Nat
        /\ Cardinality(coverage') <= Cardinality(coverage)
    BY <1>1, <2>1, RefreshedFacts
  <2>3. Cardinality(coverage') <= MaxCoverage
    BY <2>1, <2>2, LimitsAssumption DEF LedgerKept
  <2>4. \A entry \in coverage' : entry.frame \in 0 .. caller'.frame
    BY <1>2, <1>5, <2>1, <2>2 DEF LedgerKept
  <2>5. /\ Len(inflight') = n /\ DOMAIN inflight' = 1 .. n
        /\ \A i \in 1 .. n : inflight'[i] = [token |-> tokens[i], adopted |-> FALSE]
    BY <1>1, <1>3
  <2>6. inflight' = [i \in 1 .. Len(inflight') |->
                      [token |-> inflight'[i].token, adopted |-> inflight'[i].adopted]]
    BY <1>1, <1>3, <2>5
  <2>7. \A i \in DOMAIN inflight' : inflight'[i].token.epoch = epoch'
    BY <1>1, <1>3, <2>5
  <2>8. planned'.frame <= caller'.frame
    BY <1>1, <1>2, <1>5
  <2> QED
    BY <1>3, <2>2, <2>3, <2>4, <2>5, <2>6, <2>7, <2>8 DEF LedgerKept
<1>10. QueueKept'
  BY <1>1 DEF IInv, QueueKept
<1>11. FramesKept'
  BY <1>1, <1>2, <1>5 DEF IInv, FramesKept
<1>12. EntitiesKept'
  <2>1. \A id \in DOMAIN entities : entities[id].observed_frame \in Nat
    BY LimitsAssumption DEF IInv, EntitiesKept, EntityType, Frames
  <2>2. \A id \in DOMAIN entities : entities[id].observed_frame <= frame
    BY <1>2, <2>1 DEF IInv, EntitiesKept
  <2> QED
    BY <1>1, <1>5, <2>2 DEF IInv, EntitiesKept
<1>13. WaitingKept'
  <2>1. ~ReplanFrames => ~AdvancesNow'
    <3>1. pending'.frame = advanced.plan /\ planned'.frame = frame
      BY <1>1 DEF IInv, FramesKept
    <3> QED
      BY <1>2, <3>1 DEF AdvancesNow
  <2> QED
    BY <1>1, <2>1 DEF IInv, WaitingKept
<1>14. HistoryKept'
  BY <1>1, <1>5 DEF IInv, HistoryKept, WindowsSpanNoKnownGap, WindowsTakeTwoFrames
<1>15. TruthKept'
  BY <1>1, <1>5 DEF IInv, TruthKept, ViewAfter, Opened
<1> QED
  BY <1>7, <1>8, <1>9, <1>10, <1>11, <1>12, <1>13, <1>14, <1>15 DEF IInv

\* Draining the events keeps the invariant.
LEMMA DrainKept ==
  ASSUME IInv, DrainEvents
  PROVE  IInv'
<1>1. /\ events' = <<>>
      /\ consumer' = [drained |-> consumer.drained + Len(events), view |-> ViewAfter(events)]
      /\ UNCHANGED <<epoch, policy, policy_revision, inflight, coverage, rejections, planned,
                     resync_pending, entities, pending, advanced, notify_enabled,
                     event_sequence, dropped_events, last, untracked, caller>>
  BY DEF DrainEvents
<1>2. consumer'.drained = consumer.drained + Len(events) /\ consumer'.view = ViewAfter(events)
  BY <1>1
<1>3. Typed' /\ QueueKept'
  <2> DEFINE none == <<>>
  <2>1. none \in Seq(EventType) /\ Len(none) = 0 /\ DOMAIN none = {} /\ events' = none
    BY <1>1
  <2> HIDE DEF none
  <2>2. QueueKept /\ Len(events) \in Nat
    BY DEF IInv, QueueKept
  <2>3. QueueKept'
    BY <1>1, <1>2, <2>1, <2>2, LimitsAssumption DEF QueueKept
  <2>4. Typed'
    BY <1>1, <1>2, <2>2 DEF IInv, Typed
  <2> QED
    BY <2>3, <2>4
<1>4. CallerKept' /\ LedgerKept' /\ FramesKept' /\ EntitiesKept' /\ WaitingKept'
  BY <1>1 DEF IInv, CallerKept, LedgerKept, FramesKept, EntitiesKept, WaitingKept, AdvancesNow
<1>5. HistoryKept'
  <2>1. DOMAIN events' = {}
    BY <1>1
  <2> QED
    BY <2>1 DEF HistoryKept, WindowsSpanNoKnownGap, WindowsTakeTwoFrames
<1>6. TruthKept'
  <2> DEFINE view == ViewAfter(events)
  <2>1. ViewAfter(events)' = FoldLeft(Replayed, view, <<>>)
    BY <1>1, <1>2 DEF ViewAfter
  <2> HIDE DEF view
  <2>2. Replays!Folded(0, view, <<>>) = view
    BY Replays!FoldShort
  <2>3. FoldLeft(Replayed, view, <<>>) = Replays!Folded(0, view, <<>>)
    BY DEF Replays!Folded, FoldLeft, Replays!FoldLeft, MapThenFoldSet,
           Replays!MapThenFoldSet, Max, Replays!Max, ReplayOf
  <2>4. ViewAfter(events)' = ViewAfter(events)
    BY <2>1, <2>2, <2>3 DEF view
  <2> QED
    BY <1>1, <2>4 DEF IInv, TruthKept, Opened
<1> QED
  BY <1>3, <1>4, <1>5, <1>6 DEF IInv

-----------------------------------------------------------------------------
(* What plan_cycle and accept_work have in common *)

\* The frames noted are those noted before, or this one.
LEMMA NoteFacts ==
  ASSUME NEW S, last \in [observed : S, confirmed : S, published : S], NEW frame \in S,
         NEW observes, NEW changes, NEW published, NoteFrames(observes, changes, published, frame)
  PROVE  /\ last' \in [observed : S, confirmed : S, published : S]
         /\ last'.observed \in {last.observed, frame}
         /\ last'.confirmed \in {last.confirmed, frame}
         /\ last'.published \in {last.published, frame}
<1> DEFINE confirms == \E i \in DOMAIN changes : changes[i].kind # "kDisappeared"
           Note(happens, old) == IF happens THEN Larger(old, frame) ELSE old
<1>1. last' = [observed |-> Note(observes, last.observed), confirmed |-> Note(confirms, last.confirmed),
               published |-> Note(published, last.published)]
  BY DEF NoteFrames
<1> HIDE DEF confirms
<1>2. \A happens, old : Note(happens, old) \in {old, frame}
  BY DEF Larger
<1> HIDE DEF Note
<1>3. /\ last'.observed \in {last.observed, frame} /\ last'.confirmed \in {last.confirmed, frame}
      /\ last'.published \in {last.published, frame}
  BY <1>1, <1>2
<1>4. last.observed \in S /\ last.confirmed \in S /\ last.published \in S
  OBVIOUS
<1>5. last'.observed \in S /\ last'.confirmed \in S /\ last'.published \in S
  BY <1>3, <1>4
<1> QED
  BY <1>1, <1>3, <1>5

\* What is published is a part of what changed.
LEMMA NotifiableFacts ==
  ASSUME NEW changes \in Seq(ChangeType), NEW enabled
  PROVE  /\ Notifiable(changes, enabled) \in Seq(ChangeType)
         /\ \A i \in DOMAIN Notifiable(changes, enabled) :
              i \in DOMAIN changes /\ Notifiable(changes, enabled)[i] = changes[i]
<1> DEFINE none == <<>>
<1>1. none \in Seq(ChangeType) /\ DOMAIN none = {}
  OBVIOUS
<1>2. Notifiable(changes, enabled) = IF enabled THEN changes ELSE none
  BY DEF Notifiable
<1> HIDE DEF none
<1> QED
  BY <1>1, <1>2

\* The ledger and the work in flight after a plan.
LEMMA PlannedLedger ==
  ASSUME IInv, NEW cycle, NEW frame \in Nat, caller.frame \in Nat, caller.frame <= frame,
         NEW tokens, tokens = Issued(cycle, frame),
         inflight' = [i \in DOMAIN tokens |-> [token |-> tokens[i], adopted |-> FALSE]],
         coverage' = Refreshed(cycle), planned'.frame = frame, caller'.frame = frame,
         epoch' = epoch
  PROVE  LedgerKept'
<1>1. PICK n \in Nat : /\ DOMAIN tokens = 1 .. n /\ Len(tokens) = n
                       /\ \A i \in 1 .. n : tokens[i].epoch = epoch /\ tokens[i].frame = frame
  BY IssuedFacts DEF IInv, Typed
<1>2. LedgerKept
  BY DEF IInv
<1>3. /\ coverage' \subseteq coverage /\ IsFiniteSet(coverage')
      /\ Cardinality(coverage') \in Nat /\ Cardinality(coverage) \in Nat
      /\ Cardinality(coverage') <= Cardinality(coverage)
  BY <1>2, RefreshedFacts
<1>4. Cardinality(coverage') <= MaxCoverage
  BY <1>2, <1>3, LimitsAssumption DEF LedgerKept
<1>5. \A entry \in coverage' : entry.frame \in 0 .. caller'.frame
  BY <1>2, <1>3 DEF LedgerKept
<1>6. /\ Len(inflight') = n /\ DOMAIN inflight' = 1 .. n
      /\ \A i \in 1 .. n : inflight'[i] = [token |-> tokens[i], adopted |-> FALSE]
  BY <1>1
<1>7. inflight' = [i \in 1 .. Len(inflight') |->
                    [token |-> inflight'[i].token, adopted |-> inflight'[i].adopted]]
  BY <1>1, <1>6
<1>8. \A i \in DOMAIN inflight' : inflight'[i].token.epoch = epoch'
  BY <1>1, <1>6
<1>9. planned'.frame <= caller'.frame
  OBVIOUS
<1> QED
  BY <1>1, <1>3, <1>4, <1>5, <1>6, <1>7, <1>8, <1>9 DEF LedgerKept

\* Frames are natural numbers.
LEMMA FramesAreNumbers == Frames \subseteq Nat
BY LimitsAssumption DEF Frames

\* The frames of the coordinator and of its caller are numbers, no gap is ahead.
LEMMA FrameNumbers ==
  ASSUME IInv
  PROVE  /\ advanced.plan \in Nat /\ caller.frame \in Nat
         /\ \A id \in Ids : caller.gaps[id] \in Nat /\ caller.gaps[id] <= advanced.plan
<1>1. Frames \subseteq Nat
  BY LimitsAssumption DEF Frames
<1>2. advanced.plan \in Frames
  BY DEF IInv, Typed
<1>3. caller.frame \in Frames /\ caller.gaps \in [Ids -> Frames]
  BY DEF IInv, CallerKept
<1>4. \A id \in Ids : caller.gaps[id] <= advanced.plan
  BY DEF IInv, EntitiesKept
<1> QED
  BY <1>1, <1>2, <1>3, <1>4

\* The fields of an event's change are of their sets.
LEMMA EventNumbers ==
  ASSUME NEW event \in EventType
  PROVE  event.change.id \in Ids /\ event.change.confirmed \in Nat /\ event.change.observed \in Nat
<1>1. Frames \subseteq Nat
  BY LimitsAssumption DEF Frames
<1>2. event.change \in ChangeType
  BY DEF EventType
<1> QED
  BY <1>1, <1>2 DEF ChangeType

\* The population after a sound observation of the newest frame.
LEMMA EntitiesGoOn ==
  ASSUME IInv, NEW population, NEW changes, NEW done, NEW frame \in Frames, NEW ledger,
         Sound(population, changes, done, frame, ledger), entities' = population,
         frame = advanced'.plan, advanced.plan <= frame,
         frame <= caller'.frame, caller.frame <= caller'.frame, caller'.frame \in Nat,
         \A id \in Ids :
           \/ caller'.gaps[id] = caller.gaps[id]
           \/ /\ caller'.gaps[id] = frame
              /\ id \in DOMAIN population => \A since : ~Ongoing(population[id], since)
  PROVE  EntitiesKept'
<1>1. /\ population = [id \in DOMAIN population |-> population[id]]
      /\ DOMAIN population \subseteq Ids /\ IsFiniteSet(DOMAIN population)
      /\ Cardinality(DOMAIN population) <= MaxEntities
      /\ \A id \in DOMAIN population : Grown(population, id, frame, ledger)
  BY DEF Sound
<1>2. /\ frame \in Nat /\ advanced.plan \in Nat /\ caller.frame \in Nat
      /\ \A id \in Ids : caller.gaps[id] \in Nat /\ caller.gaps[id] <= advanced.plan
  BY LimitsAssumption DEF IInv, EntitiesKept, CallerKept, Typed, Frames
<1>3. population \in [DOMAIN population -> EntityType]
  BY <1>1 DEF Grown
<1>4. \A id \in Ids : caller'.gaps[id] <= frame
  BY <1>2
<1>5. ASSUME NEW id \in DOMAIN population
      PROVE  population[id].observed_frame <= caller'.frame
  <2>1. Grown(population, id, frame, ledger)
    BY <1>1
  <2>2. \A i \in DOMAIN entities : /\ entities[i].observed_frame \in Nat
                                   /\ entities[i].observed_frame <= caller.frame
    BY LimitsAssumption DEF IInv, EntitiesKept, EntityType, Frames
  <2> QED
    BY <1>2, <2>1, <2>2 DEF Grown
<1>6. ASSUME NEW id \in DOMAIN population, NEW since, Ongoing(population[id], since)
      PROVE  since \in caller'.gaps[id] .. frame
  <2>1. since = frame \/ (id \in DOMAIN entities /\ Ongoing(entities[id], since))
    BY <1>1, <1>6 DEF Grown
  <2>2. id \in Ids
    BY <1>1
  <2>3. caller'.gaps[id] = caller.gaps[id]
    BY <1>6, <2>2
  <2>4. CASE since = frame
    BY <1>2, <2>2, <2>3, <2>4
  <2>5. CASE id \in DOMAIN entities /\ Ongoing(entities[id], since)
    <3>1. since \in caller.gaps[id] .. advanced.plan
      BY <2>5 DEF IInv, EntitiesKept
    <3> QED
      BY <1>2, <2>2, <2>3, <3>1
  <2> QED
    BY <2>1, <2>4, <2>5
<1> QED
  BY <1>1, <1>3, <1>4, <1>5, <1>6 DEF EntitiesKept

\* The history goes on with the changes of a frame.
LEMMA HistoryGoesOn ==
  ASSUME IInv, NEW changes, NEW frame \in Frames,
         \A i \in DOMAIN changes : FromWindow(changes[i], frame),
         ~ReplanFrames => \A i \in DOMAIN changes : changes[i].observed < frame,
         epoch' = epoch, frame = advanced'.plan, advanced.plan <= frame,
         events' \in Seq(EventType),
         \A id \in Ids : caller'.gaps[id] \in {caller.gaps[id], frame},
         \A i \in DOMAIN events' :
           \/ \E j \in DOMAIN events : events'[i] = events[j]
           \/ \E j \in DOMAIN changes :
                events'[i].epoch = epoch /\ events'[i].change = changes[j]
  PROVE  HistoryKept'
<1>1. /\ frame \in Nat /\ advanced.plan \in Nat
      /\ \A id \in Ids : caller.gaps[id] \in Nat /\ caller.gaps[id] <= advanced.plan
  BY FrameNumbers, FramesAreNumbers
<1>2. \A i \in DOMAIN events' : /\ events'[i].change.id \in Ids
                                /\ events'[i].change.confirmed \in Nat
                                /\ events'[i].change.observed \in Nat
  <2>1. \A i \in DOMAIN events' : events'[i] \in EventType
    OBVIOUS
  <2> QED
    BY <2>1, EventNumbers
<1>3. ASSUME NEW i \in DOMAIN events', NEW j \in DOMAIN events, events'[i] = events[j]
      PROVE  /\ events'[i].epoch = epoch =>
                  /\ events'[i].change.confirmed <= frame
                  /\ ~(/\ events'[i].change.observed < caller'.gaps[events'[i].change.id]
                       /\ caller'.gaps[events'[i].change.id] < events'[i].change.confirmed)
             /\ ~ReplanFrames /\ events'[i].change.kind # "kSourceReset" =>
                  events'[i].change.observed < events'[i].change.confirmed
  <2> DEFINE change == events'[i].change
             ep == events'[i].epoch
  <2>1. /\ change.id \in Ids /\ change.confirmed \in Nat /\ change.observed \in Nat
    BY <1>2
  <2>2. change = events[j].change /\ ep = events[j].epoch
    BY <1>3
  <2>3. ep = epoch => change.confirmed <= advanced.plan
    BY <2>2 DEF IInv, HistoryKept
  <2>4. ep = epoch => ~(change.observed < caller.gaps[change.id] /\ caller.gaps[change.id] < change.confirmed)
    BY <2>2 DEF IInv, HistoryKept, WindowsSpanNoKnownGap
  <2>5. ~ReplanFrames /\ change.kind # "kSourceReset" => change.observed < change.confirmed
    BY <2>2 DEF IInv, HistoryKept, WindowsTakeTwoFrames
  <2> HIDE DEF change, ep
  <2>6. ep = epoch => /\ change.confirmed <= frame
                      /\ ~(change.observed < caller'.gaps[change.id] /\ caller'.gaps[change.id] < change.confirmed)
    BY <1>1, <2>1, <2>3, <2>4
  <2> QED
    BY <2>5, <2>6 DEF change, ep
<1>4. ASSUME NEW i \in DOMAIN events', NEW j \in DOMAIN changes, events'[i].epoch = epoch,
             events'[i].change = changes[j]
      PROVE  /\ events'[i].change.confirmed <= frame
             /\ ~(/\ events'[i].change.observed < caller'.gaps[events'[i].change.id]
                  /\ caller'.gaps[events'[i].change.id] < events'[i].change.confirmed)
             /\ ~ReplanFrames /\ events'[i].change.kind # "kSourceReset" =>
                  events'[i].change.observed < events'[i].change.confirmed
  <2> DEFINE change == changes[j]
  <2>1. /\ change.id \in Ids /\ change.confirmed \in Nat /\ change.observed \in Nat
    BY <1>2, <1>4
  <2>2. /\ change.confirmed = frame
        /\ change.id \in DOMAIN entities /\ Ongoing(entities[change.id], change.observed)
    BY DEF FromWindow
  <2>3. ~ReplanFrames => change.observed < frame
    OBVIOUS
  <2> HIDE DEF change
  <2>4. change.observed \in caller.gaps[change.id] .. advanced.plan
    BY <2>2 DEF IInv, EntitiesKept
  <2>5. /\ change.confirmed <= frame
        /\ ~(change.observed < caller'.gaps[change.id] /\ caller'.gaps[change.id] < change.confirmed)
    BY <1>1, <2>1, <2>2, <2>4
  <2> QED
    BY <1>4, <2>2, <2>3, <2>5 DEF change
<1>5. \A i \in DOMAIN events' :
        events'[i].epoch = epoch =>
          /\ events'[i].change.confirmed <= frame
          /\ ~(/\ events'[i].change.observed < caller'.gaps[events'[i].change.id]
               /\ caller'.gaps[events'[i].change.id] < events'[i].change.confirmed)
  BY <1>3, <1>4
<1>6. ~ReplanFrames => \A i \in DOMAIN events' :
        events'[i].change.kind # "kSourceReset" =>
          events'[i].change.observed < events'[i].change.confirmed
  BY <1>3, <1>4
<1> QED
  BY <1>5, <1>6 DEF HistoryKept, WindowsSpanNoKnownGap, WindowsTakeTwoFrames

\* The consumer is told the truth, as long as nothing is dropped or filtered.
LEMMA TruthGoesOn ==
  ASSUME IInv, NEW changes \in Seq(ChangeType), NEW published,
         NEW population, Told(epoch, Truth(epoch, entities), changes) = Truth(epoch, population),
         entities' = population, epoch' = epoch, consumer' = consumer,
         dropped_events' \in Nat, dropped_events' >= dropped_events,
         dropped_events' = dropped_events => events' = events \o Numbered(published),
         ~caller'.muted => ~caller.muted /\ published = changes
  PROVE  TruthKept'
<1> SUFFICES ASSUME dropped_events' = 0, ~caller'.muted
             PROVE  ViewAfter(events)' = [open |-> Opened(epoch, population), sound |-> TRUE]
  BY DEF TruthKept, Opened
<1>1. dropped_events = 0 /\ dropped_events' = dropped_events
  BY DEF IInv, QueueKept
<1>2. ~caller.muted /\ events' = events \o Numbered(changes)
  BY <1>1
<1>3. ViewAfter(events) = Truth(epoch, entities)
  BY <1>1, <1>2 DEF IInv, TruthKept, Truth
<1>4. QueueKept /\ epoch \in 1 .. MaxEpoch
  BY DEF IInv, Typed
<1> DEFINE truth == Truth(epoch, population)
<1>5. Told(epoch, Truth(epoch, entities), changes) = truth
  OBVIOUS
<1> HIDE DEF truth
<1>6. ViewAfter(events)' = truth
  BY <1>2, <1>3, <1>4, <1>5, PublishTellsTheTruth
<1> QED
  BY <1>6 DEF truth, Truth

-----------------------------------------------------------------------------
(* plan_cycle *)

\* What a function makes of a finite set is finite, and no larger.
LEMMA ImageIsFinite ==
  ASSUME NEW S, IsFiniteSet(S), NEW f, f = [x \in S |-> f[x]]
  PROVE  IsFiniteSet({f[x] : x \in S}) /\ Cardinality({f[x] : x \in S}) <= Cardinality(S)
<1> DEFINE T == {f[x] : x \in S}
<1>1. f \in Surjection(S, T)
  BY DEF Surjection
<1> HIDE DEF T
<1>2. IsFiniteSet(T) /\ Cardinality(T) <= Cardinality(S)
  BY <1>1, FS_Surjection
<1> QED
  BY <1>2 DEF T

\* What waits after a cycle waits for the work this cycle issued.
LEMMA WaitingGoesOn ==
  ASSUME IInv, NEW scene, NEW acc, Kept(scene, acc), NEW frame \in Nat, scene.frame = frame,
         ~ReplanFrames => advanced.plan < frame,
         NEW n, DOMAIN scene.tokens = 1 .. n,
         inflight' = [i \in 1 .. n |-> [token |-> scene.tokens[i], adopted |-> FALSE]],
         entities' = acc.population, pending'.frame = frame, pending'.items = acc.waiting
  PROVE  WaitingKept'
<1>1. /\ acc.waiting \in Seq(ItemType) /\ OnceEach(acc.waiting)
      /\ \A i \in DOMAIN acc.waiting :
           LET item == acc.waiting[i]
           IN  /\ Waits(scene.tokens, item)
               /\ item.id \in DOMAIN acc.population => Untouched(acc.population, item.id)
  BY DEF Kept
<1>2. /\ DOMAIN inflight' = 1 .. n
      /\ \A i \in 1 .. n : inflight'[i].token = scene.tokens[i] /\ inflight'[i].adopted = FALSE
  OBVIOUS
<1>3. ASSUME NEW i \in DOMAIN acc.waiting
      PROVE  /\ acc.waiting[i].work \in DOMAIN inflight'
             /\ acc.waiting[i].channel = "present" =>
                  RectContains(inflight'[acc.waiting[i].work].token.roi, acc.waiting[i].bounds)
  BY <1>1, <1>2 DEF Waits
<1>4. ASSUME ~ReplanFrames, NEW i \in DOMAIN acc.waiting, acc.waiting[i].id \in DOMAIN acc.population,
             NEW since, Ongoing(acc.population[acc.waiting[i].id], since)
      PROVE  since < frame
  <2> DEFINE id == acc.waiting[i].id
  <2>1. Untouched(acc.population, id) /\ Ongoing(acc.population[id], since)
    BY <1>1, <1>4
  <2> HIDE DEF id
  <2>2. id \in DOMAIN entities /\ Ongoing(entities[id], since)
    BY <2>1, UntouchedWindows
  <2>3. since \in caller.gaps[id] .. advanced.plan
    BY <2>2 DEF IInv, EntitiesKept
  <2>4. id \in Ids
    BY <2>2 DEF IInv, EntitiesKept
  <2> QED
    BY <1>4, <2>3, <2>4, FrameNumbers
<1>5. /\ pending'.items \in Seq(ItemType)
      /\ \A i, j \in DOMAIN pending'.items : pending'.items[i].id = pending'.items[j].id => i = j
  BY <1>1 DEF OnceEach
<1>6. \A i \in DOMAIN inflight' : ~inflight'[i].adopted
  BY <1>2
<1>7. ~ReplanFrames =>
        \A i \in DOMAIN pending'.items :
          /\ pending'.items[i].work \in DOMAIN inflight'
          /\ pending'.items[i].channel = "present" =>
               RectContains(inflight'[pending'.items[i].work].token.roi, pending'.items[i].bounds)
          /\ pending'.items[i].id \in DOMAIN entities' =>
               \A since : Ongoing(entities'[pending'.items[i].id], since) => since < pending'.frame
  BY <1>3, <1>4
<1> QED
  BY <1>5, <1>6, <1>7 DEF WaitingKept, ItemType, RectContains, Ongoing

\* A cycle's plan keeps the invariant.
LEMMA PlanKept ==
  ASSUME IInv, NEW cycle \in Cycles, NEW frame \in 0 .. MaxFrame, PlanCycle(cycle, frame)
  PROVE  IInv'
<1> DEFINE tokens == Issued(cycle, frame)
           ledger == Refreshed(cycle)
           seen == CycleObservation(cycle, ledger, tokens, frame)
           counts == frame > advanced.plan
           published == Notifiable(seen.changes, cycle.notify)
           resync == ResyncAfterRefresh(cycle) \/ Overflows(published, cycle.room)
           unknown == {id \in Ids : \E i \in DOMAIN seen.items :
                         /\ seen.items[i].id = id
                         /\ ~seen.items[i].covered /\ seen.items[i].work = 0}
           scene == [cycle |-> cycle, ledger |-> ledger, tokens |-> tokens, frame |-> frame,
                     counts |-> counts]
           gaps == [id \in Ids |-> IF counts /\ id \in unknown THEN frame ELSE caller.gaps[id]]
<1>1. /\ MayPlan(cycle, frame)
      /\ coverage' = ledger
      /\ inflight' = [i \in DOMAIN tokens |-> [token |-> tokens[i], adopted |-> FALSE]]
      /\ planned' = [frame |-> frame, generation |-> cycle.generation]
      /\ notify_enabled' = cycle.notify
      /\ entities' = seen.population
      /\ untracked' = untracked + seen.lost
      /\ pending' = [frame |-> frame, items |-> seen.waiting]
      /\ advanced' = [advanced EXCEPT !.plan = Larger(@, frame)]
      /\ Publish(published, cycle.room)
      /\ NoteFrames(counts /\ \E i \in DOMAIN seen.items : seen.items[i].covered,
                    seen.changes, published # <<>> /\ cycle.room > 0, frame)
      /\ resync_pending' = FALSE
      /\ caller' = [caller EXCEPT
                      !.frame = frame,
                      !.held = ToSet(tokens) \cup
                               {t \in @ : t.epoch = epoch /\ t.frame >= planned.frame},
                      !.acknowledged = IF resync THEN dropped_events' ELSE @,
                      !.gaps = gaps,
                      !.muted = @ \/ published # seen.changes]
      /\ UNCHANGED <<epoch, policy, policy_revision, rejections, consumer>>
  BY DEF PlanCycle
<1>2. /\ frame \in Frames /\ frame \in Nat /\ caller.frame \in Nat /\ advanced.plan \in Nat
      /\ caller.frame <= frame /\ advanced.plan <= frame
      /\ ~ReplanFrames => advanced.plan < frame
      /\ cycle.generation \in Generations /\ cycle.room \in Nat /\ cycle.notify \in BOOLEAN
  BY <1>1, MayPlanFacts
<1>3. PICK n \in Nat : /\ DOMAIN tokens = 1 .. n /\ Len(tokens) = n
                       /\ \A i \in 1 .. n : tokens[i].epoch = epoch /\ tokens[i].frame = frame
  BY IssuedFacts DEF IInv, Typed
<1>4. Kept(scene, seen)
  <2>1. EntitiesKept
    BY DEF IInv
  <2> HIDE DEF tokens, ledger
  <2> QED
    BY <1>2, <1>3, <2>1, CycleKept
<1>5. /\ scene.frame = frame /\ scene.ledger = ledger /\ scene.tokens = tokens /\ scene.counts = counts
  OBVIOUS
<1> HIDE DEF scene, seen, tokens, ledger, published, resync, gaps, unknown
<1>6. /\ Sound(seen.population, seen.changes, ItemIds(seen), frame, ledger)
      /\ seen.lost \in Nat
      /\ \A i \in DOMAIN seen.items :
           LET item == seen.items[i]
           IN  counts /\ ~item.covered /\ item.work = 0 /\ item.id \in DOMAIN seen.population =>
                 \A since : ~Ongoing(seen.population[item.id], since)
  BY <1>4, <1>5 DEF Kept
<1>7. /\ seen.changes \in Seq(ChangeType)
      /\ \A i \in DOMAIN seen.changes : FromWindow(seen.changes[i], frame)
      /\ Told(epoch, Truth(epoch, entities), seen.changes) = Truth(epoch, seen.population)
  BY <1>6 DEF Sound
<1>8. /\ published \in Seq(ChangeType)
      /\ \A i \in DOMAIN published : i \in DOMAIN seen.changes /\ published[i] = seen.changes[i]
  BY <1>7, NotifiableFacts DEF published
<1>9. QueueKept /\ epoch \in 1 .. MaxEpoch
  BY DEF IInv, Typed
<1>10. /\ events' \in Seq(EventType) /\ Len(events') <= MaxEvents
       /\ event_sequence' \in Nat /\ dropped_events' \in Nat
       /\ event_sequence' = consumer.drained + Len(events') + dropped_events'
       /\ \A i \in DOMAIN events' : events'[i].seq <= event_sequence' /\ events'[i].epoch <= epoch
       /\ \A i, j \in DOMAIN events' : i < j => events'[i].seq < events'[j].seq
       /\ \A i \in DOMAIN events' :
            \/ \E j \in DOMAIN events : events'[i] = events[j]
            \/ \E j \in DOMAIN published :
                 events'[i].epoch = epoch /\ events'[i].change = published[j]
       /\ dropped_events' >= dropped_events
       /\ dropped_events' = dropped_events => events' = events \o Numbered(published)
       /\ ~Overflows(published, cycle.room) => dropped_events' = dropped_events
  BY <1>1, <1>2, <1>8, <1>9, PublishFacts
<1>11. /\ planned'.frame = frame /\ pending'.frame = frame /\ pending'.items = seen.waiting
       /\ advanced'.plan = frame /\ advanced'.accept = advanced.accept
       /\ advanced' \in [plan : Frames, accept : Frames]
  <2>1. Larger(advanced.plan, frame) = frame
    BY <1>2 DEF Larger
  <2>2. advanced \in [plan : Frames, accept : Frames]
    BY DEF IInv, Typed
  <2>3. advanced' = [advanced EXCEPT !.plan = frame]
    BY <1>1, <2>1
  <2> QED
    BY <1>1, <1>2, <2>2, <2>3
<1>12. gaps \in [Ids -> Frames] /\ \A id \in Ids : gaps[id] \in {caller.gaps[id], frame}
  BY <1>2 DEF gaps, IInv, CallerKept
<1>13. /\ caller'.frame = frame /\ caller'.gaps = gaps
       /\ caller'.held = ToSet(tokens) \cup {t \in caller.held : t.epoch = epoch /\ t.frame >= planned.frame}
       /\ caller'.acknowledged = (IF resync THEN dropped_events' ELSE caller.acknowledged)
       /\ caller'.muted = (caller.muted \/ published # seen.changes)
       /\ caller'.before = caller.before
       /\ caller' \in [frame : Frames, before : Nat, held : SUBSET UNION {caller'.held},
                      acknowledged : Nat, gaps : [Ids -> Frames], muted : BOOLEAN]
  <2> DEFINE held == ToSet(tokens) \cup {t \in caller.held : t.epoch = epoch /\ t.frame >= planned.frame}
             acknowledged == IF resync THEN dropped_events' ELSE caller.acknowledged
             muted == caller.muted \/ published # seen.changes
  <2>1. caller' = [caller EXCEPT !.frame = frame, !.held = held, !.acknowledged = acknowledged,
                                 !.gaps = gaps, !.muted = muted]
    BY <1>1
  <2>2. /\ caller \in [frame : Frames, before : Nat, held : SUBSET UNION {caller.held},
                      acknowledged : Nat, gaps : [Ids -> Frames], muted : BOOLEAN]
    BY DEF IInv, CallerKept
  <2>3. acknowledged \in Nat /\ muted \in BOOLEAN
    BY <1>10, <2>2
  <2> HIDE DEF held, acknowledged, muted
  <2>4. /\ caller'.frame = frame /\ caller'.gaps = gaps /\ caller'.held = held
        /\ caller'.acknowledged = acknowledged /\ caller'.muted = muted
        /\ caller'.before = caller.before
        /\ caller' = [frame |-> frame, before |-> caller.before, held |-> held,
                      acknowledged |-> acknowledged, gaps |-> gaps, muted |-> muted]
    BY <2>1, <2>2
  <2>5. caller.before \in Nat /\ held \in SUBSET UNION {held}
    BY <2>2
  <2> QED
    BY <1>2, <1>12, <2>3, <2>4, <2>5 DEF held, acknowledged, muted
<1>14. Typed'
  <2>1. last' \in [observed : Frames, confirmed : Frames, published : Frames]
    <3>1. last \in [observed : Frames, confirmed : Frames, published : Frames]
      BY DEF IInv, Typed
    <3> QED
      BY <1>1, <1>2, <3>1, NoteFacts
  <2>2. untracked' \in Nat /\ dropped_events' \in Nat /\ consumer'.drained \in Nat
    BY <1>1, <1>6, <1>10 DEF IInv, Typed
  <2>3. /\ epoch' \in 1 .. MaxEpoch /\ policy_revision' \in 0 .. MaxRevision
        /\ policy' \in Policies \cup {NoPolicy} /\ rejections' \in 0 .. MaxRejections
    BY <1>1 DEF IInv, Typed
  <2>4. planned' \in [frame : Frames, generation : Generations]
    BY <1>1, <1>2
  <2>5. resync_pending' \in BOOLEAN /\ notify_enabled' \in BOOLEAN
    BY <1>1, <1>2
  <2> QED
    BY <1>11, <2>1, <2>2, <2>3, <2>4, <2>5 DEF Typed
<1>15. QueueKept'
  BY <1>1, <1>9, <1>10 DEF QueueKept
<1>16. CallerKept'
  <2>1. IsFiniteSet(caller'.held)
    <3>1. IsFiniteSet(caller.held)
      BY DEF IInv, CallerKept
    <3>2. IsFiniteSet({t \in caller.held : t.epoch = epoch /\ t.frame >= planned.frame})
      BY <3>1, FS_Subset
    <3>3. IsFiniteSet(1 .. n)
      BY <1>3, FS_Interval
    <3>4. ToSet(tokens) = {tokens[i] : i \in 1 .. n}
      BY <1>3 DEF ToSet
    <3>5. IsFiniteSet({tokens[i] : i \in 1 .. n})
      <4> DEFINE f == [i \in 1 .. n |-> tokens[i]]
      <4>1. IsFiniteSet({f[i] : i \in 1 .. n})
        BY <3>3, ImageIsFinite
      <4>2. {f[i] : i \in 1 .. n} = {tokens[i] : i \in 1 .. n}
        OBVIOUS
      <4> QED
        BY <4>1, <4>2
    <3> DEFINE fresh == {tokens[i] : i \in 1 .. n}
               old == {t \in caller.held : t.epoch = epoch /\ t.frame >= planned.frame}
    <3>6. IsFiniteSet(fresh) /\ IsFiniteSet(old) /\ caller'.held = fresh \cup old
      BY <1>13, <3>2, <3>4, <3>5
    <3> HIDE DEF fresh, old
    <3>7. IsFiniteSet(fresh \cup old)
      BY <3>6, FS_Union
    <3> QED
      BY <3>6, <3>7
  <2>2. dropped_events' <= caller'.acknowledged
    <3>1. CASE resync
      BY <1>10, <1>13, <3>1
    <3>2. CASE ~resync
      <4>1. ~resync_pending /\ dropped_events' = dropped_events
        BY <1>10, <3>2 DEF resync, ResyncAfterRefresh
      <4>2. dropped_events <= caller.acknowledged /\ caller'.acknowledged = caller.acknowledged
        BY <1>9, <1>13, <3>2, <4>1 DEF IInv, CallerKept, QueueKept
      <4> QED
        BY <4>1, <4>2
    <3> QED
      BY <3>1, <3>2
  <2>3. caller'.acknowledged \in Nat
    BY <1>13
  <2> QED
    BY <1>10, <1>13, <2>1, <2>2, <2>3 DEF CallerKept
<1>17. LedgerKept'
  <2>1. tokens = Issued(cycle, frame) /\ coverage' = Refreshed(cycle)
    BY <1>1 DEF tokens, ledger
  <2>2. /\ inflight' = [i \in DOMAIN tokens |-> [token |-> tokens[i], adopted |-> FALSE]]
        /\ epoch' = epoch /\ planned'.frame = frame /\ caller'.frame = frame
    BY <1>1, <1>11, <1>13
  <2> QED
    BY <1>2, <2>1, <2>2, PlannedLedger
<1>18. FramesKept'
  <2>1. last \in [observed : Frames, confirmed : Frames, published : Frames]
    BY DEF IInv, Typed
  <2>2. /\ last'.observed \in {last.observed, frame} /\ last'.confirmed \in {last.confirmed, frame}
        /\ last'.published \in {last.published, frame}
    BY <1>1, <1>2, <2>1, NoteFacts
  <2> QED
    BY <1>2, <1>11, <1>13, <2>2 DEF IInv, FramesKept
<1>19. EntitiesKept'
  <2>1. ASSUME NEW id \in Ids
        PROVE  \/ gaps[id] = caller.gaps[id]
               \/ /\ gaps[id] = frame
                  /\ id \in DOMAIN seen.population => \A since : ~Ongoing(seen.population[id], since)
    <3>1. CASE counts /\ id \in unknown
      <4>1. PICK i \in DOMAIN seen.items : /\ seen.items[i].id = id
                                           /\ ~seen.items[i].covered /\ seen.items[i].work = 0
        BY <3>1 DEF unknown
      <4>2. gaps[id] = frame
        BY <3>1 DEF gaps
      <4> QED
        BY <1>6, <3>1, <4>1, <4>2
    <3>2. CASE ~(counts /\ id \in unknown)
      BY <3>2 DEF gaps
    <3> QED
      BY <3>1, <3>2
  <2> DEFINE population == seen.population
             changes == seen.changes
             done == ItemIds(seen)
  <2>2. Sound(population, changes, done, frame, ledger) /\ entities' = population
    BY <1>1, <1>6
  <2>3. \A id \in Ids :
          \/ caller'.gaps[id] = caller.gaps[id]
          \/ /\ caller'.gaps[id] = frame
             /\ id \in DOMAIN population => \A since : ~Ongoing(population[id], since)
    BY <1>13, <2>1
  <2> HIDE DEF population, changes, done
  <2> QED
    BY <1>2, <1>11, <1>13, <2>2, <2>3, EntitiesGoOn
<1>20. WaitingKept'
  <2>1. inflight' = [i \in 1 .. n |-> [token |-> scene.tokens[i], adopted |-> FALSE]] /\ DOMAIN scene.tokens = 1 .. n
    BY <1>1, <1>3, <1>5
  <2>2. scene.frame = frame /\ entities' = seen.population
    BY <1>1, <1>5
  <2> QED
    BY <1>2, <1>4, <1>11, <2>1, <2>2, WaitingGoesOn
<1>21. HistoryKept'
  <2>1. \A i \in DOMAIN published : FromWindow(published[i], frame)
    BY <1>7, <1>8
  <2>2. ~ReplanFrames => \A i \in DOMAIN published : published[i].observed < frame
    <3>1. ASSUME ~ReplanFrames, NEW i \in DOMAIN published PROVE published[i].observed < frame
      <4> DEFINE id == published[i].id
                 since == published[i].observed
      <4>1. id \in DOMAIN entities /\ Ongoing(entities[id], since)
        BY <2>1 DEF FromWindow
      <4> HIDE DEF id, since
      <4>2. since \in caller.gaps[id] .. advanced.plan /\ id \in Ids
        BY <4>1 DEF IInv, EntitiesKept
      <4> QED
        BY <1>2, <3>1, <4>2, FrameNumbers DEF since
    <3> QED
      BY <3>1
  <2>3. \A id \in Ids : caller'.gaps[id] \in {caller.gaps[id], frame}
    BY <1>12, <1>13
  <2>4. epoch' = epoch
    BY <1>1
  <2> QED
    BY <1>2, <1>10, <1>11, <2>1, <2>2, <2>3, <2>4, HistoryGoesOn
<1>22. TruthKept'
  <2> DEFINE population == seen.population
             changes == seen.changes
  <2>1. /\ changes \in Seq(ChangeType) /\ entities' = population /\ epoch' = epoch /\ consumer' = consumer
        /\ Told(epoch, Truth(epoch, entities), changes) = Truth(epoch, population)
    BY <1>1, <1>7
  <2>2. ~caller'.muted => ~caller.muted /\ published = changes
    BY <1>13
  <2> HIDE DEF population, changes
  <2>3. /\ dropped_events' \in Nat /\ dropped_events' >= dropped_events
        /\ dropped_events' = dropped_events => events' = events \o Numbered(published)
    BY <1>10
  <2> QED
    BY <2>1, <2>2, <2>3, TruthGoesOn
<1> QED
  BY <1>14, <1>15, <1>16, <1>17, <1>18, <1>19, <1>20, <1>21, <1>22 DEF IInv

-----------------------------------------------------------------------------
(* accept_work *)

\* The ledger after a commit: within its cap, of planned frames.
LEMMA AcceptedLedgerFacts ==
  ASSUME IInv, NEW batch, batch \subseteq caller.held, NEW content,
         \A token \in batch : Acceptable(token, content),
         Cardinality(coverage) + Cardinality(batch) <= MaxCoverage
  PROVE  /\ IsFiniteSet(AcceptedLedger(batch)) /\ Cardinality(AcceptedLedger(batch)) <= MaxCoverage
         /\ \A entry \in AcceptedLedger(batch) : entry.frame \in 0 .. caller.frame
<1> DEFINE old == {entry \in coverage : \A token \in batch : token.roi # entry.roi}
           new == {Entry(t) : t \in batch}
<1>1. AcceptedLedger(batch) = old \cup new
  BY DEF AcceptedLedger
<1>2. /\ IsFiniteSet(coverage) /\ IsFiniteSet(batch) /\ old \subseteq coverage
      /\ \A entry \in coverage : entry.frame \in 0 .. caller.frame
  <2>1. IsFiniteSet(coverage) /\ IsFiniteSet(caller.held)
    BY DEF IInv, LedgerKept, CallerKept
  <2>2. \A entry \in coverage : entry.frame \in 0 .. caller.frame
    BY DEF IInv, LedgerKept
  <2> QED
    BY <2>1, <2>2, FS_Subset
<1>3. IsFiniteSet(new) /\ Cardinality(new) <= Cardinality(batch)
  <2> DEFINE f == [t \in batch |-> Entry(t)]
  <2>1. IsFiniteSet({f[t] : t \in batch}) /\ Cardinality({f[t] : t \in batch}) <= Cardinality(batch)
    BY <1>2, ImageIsFinite
  <2>2. {f[t] : t \in batch} = new
    OBVIOUS
  <2> QED
    BY <2>1, <2>2
<1>4. \A entry \in new : entry.frame \in 0 .. caller.frame
  <2>1. ASSUME NEW t \in batch PROVE Entry(t).frame \in 0 .. caller.frame
    <3>1. t.frame = planned.frame
      BY DEF Acceptable, Stale
    <3>2. inflight # <<>>
      <4>1. PICK i \in DOMAIN inflight : inflight[i].token = t
        BY DEF Acceptable
      <4> QED
        BY <4>1
    <3>3. planned.frame <= caller.frame
      BY <3>2 DEF IInv, LedgerKept
    <3>4. planned.frame \in Nat
      BY FramesAreNumbers DEF IInv, Typed
    <3> QED
      BY <3>1, <3>3, <3>4, FrameNumbers DEF Entry
  <2> QED
    BY <2>1
<1> HIDE DEF old, new
<1>5. IsFiniteSet(old) /\ Cardinality(old) <= Cardinality(coverage)
  BY <1>2, FS_Subset
<1>6. /\ IsFiniteSet(old \cup new)
      /\ Cardinality(old \cup new) = Cardinality(old) + Cardinality(new) - Cardinality(old \cap new)
  BY <1>3, <1>5, FS_Union
<1>7. IsFiniteSet(old \cap new)
  BY <1>5, FS_Subset
<1>8. /\ Cardinality(old) \in Nat /\ Cardinality(new) \in Nat /\ Cardinality(old \cap new) \in Nat
      /\ Cardinality(coverage) \in Nat /\ Cardinality(batch) \in Nat
  BY <1>2, <1>3, <1>5, <1>7, FS_CardinalityType
<1>9. Cardinality(old \cup new) <= MaxCoverage
  BY <1>3, <1>5, <1>6, <1>8, LimitsAssumption
<1> QED
  BY <1>1, <1>2, <1>4, <1>6, <1>9

\* What a commit advances was handed in with it, and its evidence is in the ledger.
LEMMA AdoptedIsCovered ==
  ASSUME IInv, ~ReplanFrames, AdvancesNow, NEW batch, NEW i \in DOMAIN pending.items,
         Adopted(AcceptedFlights(batch), pending.items[i]), pending.items[i].channel = "present"
  PROVE  Covered(AcceptedLedger(batch), pending.items[i].bounds)
<1> DEFINE item == pending.items[i]
           token == inflight[item.work].token
<1>1. /\ item.work \in DOMAIN inflight /\ ~inflight[item.work].adopted
      /\ RectContains(token.roi, item.bounds)
  BY DEF IInv, WaitingKept
<1>2. AcceptedFlights(batch)[item.work].adopted
  BY DEF Adopted
<1>3. token \in batch
  <2>1. inflight[item.work] = [token |-> token, adopted |-> inflight[item.work].adopted]
    BY <1>1 DEF IInv, LedgerKept
  <2>2. AcceptedFlights(batch)[item.work]
          = [inflight[item.work] EXCEPT !.adopted = @ \/ inflight[item.work].token \in batch]
    BY <1>1 DEF AcceptedFlights
  <2> DEFINE flight == inflight[item.work]
  <2> HIDE DEF flight, token, item
  <2>3. flight = [token |-> token, adopted |-> flight.adopted] /\ ~flight.adopted
    BY <1>1, <2>1 DEF flight
  <2> DEFINE adopted == flight.adopted \/ flight.token \in batch
  <2>4. [flight EXCEPT !.adopted = adopted].adopted
    BY <1>2, <2>2 DEF flight
  <2> HIDE DEF adopted
  <2>5. [flight EXCEPT !.adopted = adopted].adopted = adopted
    BY <2>3
  <2>6. adopted
    BY <2>4, <2>5
  <2>7. flight.token = token
    BY <2>3
  <2> QED
    BY <2>3, <2>6, <2>7 DEF adopted
<1>4. Entry(token) \in AcceptedLedger(batch) /\ Entry(token).roi = token.roi
  BY <1>3 DEF AcceptedLedger, Entry
<1> HIDE DEF token, item
<1>5. Covered(AcceptedLedger(batch), item.bounds)
  BY <1>1, <1>4 DEF Covered
<1> QED
  BY <1>5 DEF item

\* A committed batch, and what it validates.
LEMMA CommitIsSound ==
  ASSUME IInv, NEW batch
  PROVE  LET seen == AcceptedObservation(AcceptedFlights(batch))
         IN  /\ \E done :
                  /\ done \subseteq {pending.items[i].id : i \in DOMAIN pending.items}
                  /\ Sound(seen.population, seen.changes, done, pending.frame, AcceptedLedger(batch))
             /\ ~AdvancesNow => seen.population = entities /\ seen.changes = <<>>
<1>1. EntitiesKept /\ pending.frame \in Frames
  BY DEF IInv, FramesKept, Typed
<1>2. pending.items \in Seq(ItemType) /\ OnceEach(pending.items)
  BY DEF IInv, WaitingKept, ItemType, OnceEach
<1> DEFINE flights == AcceptedFlights(batch)
           ledger == AcceptedLedger(batch)
<1>3. \A i \in DOMAIN pending.items :
        ~ReplanFrames /\ AdvancesNow /\ Adopted(flights, pending.items[i])
          /\ pending.items[i].channel = "present" => Covered(ledger, pending.items[i].bounds)
  BY AdoptedIsCovered
<1> HIDE DEF flights, ledger
<1>4. \A i \in DOMAIN pending.items :
        LET item == pending.items[i]
        IN  ~ReplanFrames /\ AdvancesNow /\ Adopted(flights, item) /\ item.channel = "present" =>
              Covered(ledger, item.bounds)
  BY <1>3
<1>5. LET seen == AcceptedObservation(flights)
      IN  /\ \E done :
               /\ done \subseteq {pending.items[i].id : i \in DOMAIN pending.items}
               /\ Sound(seen.population, seen.changes, done, pending.frame, ledger)
          /\ ~AdvancesNow => seen.population = entities /\ seen.changes = <<>>
  BY <1>1, <1>2, <1>4, AcceptKept
<1> QED
  BY <1>5 DEF flights, ledger

\* A commit keeps the invariant.
LEMMA CommitKept ==
  ASSUME IInv, NEW batch, batch \subseteq caller.held, NEW content, NEW room \in Nat,
         AcceptWork(batch, content, room)
  PROVE  IInv'
<1> DEFINE flights == AcceptedFlights(batch)
           ledger == AcceptedLedger(batch)
           seen == AcceptedObservation(flights)
           frame == pending.frame
           published == Notifiable(seen.changes, notify_enabled)
<1>1. /\ \A token \in batch : Acceptable(token, content)
      /\ Cardinality(coverage) + Cardinality(batch) <= MaxCoverage
      /\ coverage' = ledger
      /\ inflight' = flights
      /\ entities' = seen.population
      /\ advanced' = IF AdvancesNow THEN [advanced EXCEPT !.accept = frame] ELSE advanced
      /\ Publish(published, room)
      /\ NoteFrames(seen.moved, seen.changes, published # <<>> /\ room > 0, frame)
      /\ resync_pending' = (resync_pending \/ Overflows(published, room))
      /\ caller' = [caller EXCEPT !.muted = @ \/ published # seen.changes]
      /\ UNCHANGED <<epoch, policy, policy_revision, rejections, planned, pending,
                     notify_enabled, untracked, consumer>>
  BY DEF AcceptWork
<1>2. /\ ~AdvancesNow => seen.population = entities /\ seen.changes = <<>>
      /\ \E done : /\ done \subseteq {pending.items[i].id : i \in DOMAIN pending.items}
                   /\ Sound(seen.population, seen.changes, done, frame, ledger)
  BY CommitIsSound
<1>3. /\ IsFiniteSet(ledger) /\ Cardinality(ledger) <= MaxCoverage
      /\ \A entry \in ledger : entry.frame \in 0 .. caller.frame
  BY <1>1, AcceptedLedgerFacts
<1>4. /\ frame = advanced.plan /\ frame \in Frames /\ frame \in Nat /\ frame <= caller.frame
      /\ caller.frame \in Nat
  <2>1. frame = advanced.plan /\ advanced.plan \in Frames /\ advanced.plan \in 0 .. caller.frame
    BY DEF IInv, FramesKept, Typed
  <2> QED
    BY <2>1, FrameNumbers
<1>5. /\ DOMAIN flights = DOMAIN inflight /\ Len(flights) = Len(inflight) /\ Len(inflight) \in Nat
      /\ flights = [i \in 1 .. Len(flights) |-> [token |-> flights[i].token, adopted |-> flights[i].adopted]]
      /\ \A i \in DOMAIN flights : flights[i].token = inflight[i].token
  <2> DEFINE n == Len(inflight)
  <2>1. /\ inflight = [i \in 1 .. n |-> [token |-> inflight[i].token, adopted |-> inflight[i].adopted]]
        /\ n \in Nat
    BY DEF IInv, LedgerKept
  <2> HIDE DEF n
  <2>2. DOMAIN inflight = 1 .. n
    BY <2>1
  <2>3. flights = [i \in 1 .. n |-> [inflight[i] EXCEPT !.adopted = @ \/ inflight[i].token \in batch]]
    BY <2>2 DEF AcceptedFlights
  <2> HIDE DEF flights
  <2>4. \A i \in 1 .. n : inflight[i] = [token |-> inflight[i].token, adopted |-> inflight[i].adopted]
    BY <2>1
  <2>5. ASSUME NEW i \in 1 .. n
        PROVE  /\ flights[i].token = inflight[i].token
               /\ flights[i] = [token |-> flights[i].token, adopted |-> flights[i].adopted]
    <3> DEFINE flight == inflight[i]
               adopted == flight.adopted \/ flight.token \in batch
    <3>1. flight = [token |-> flight.token, adopted |-> flight.adopted]
      BY <2>4
    <3>2. flights[i] = [flight EXCEPT !.adopted = adopted]
      BY <2>3
    <3> HIDE DEF flight, adopted
    <3>3. flights[i] = [token |-> flight.token, adopted |-> adopted]
      BY <3>1, <3>2
    <3> QED
      BY <3>3 DEF flight
  <2>6. DOMAIN flights = 1 .. n /\ Len(flights) = n
    BY <2>1, <2>3
  <2>7. flights = [i \in 1 .. n |-> flights[i]]
    BY <2>3
  <2>8. flights = [i \in 1 .. n |-> [token |-> flights[i].token, adopted |-> flights[i].adopted]]
    BY <2>5, <2>7
  <2>9. Len(inflight) = n
    BY DEF n
  <2> QED
    BY <2>1, <2>2, <2>5, <2>6, <2>8, <2>9
<1> HIDE DEF flights, ledger, seen, frame, published
<1>6. PICK done : /\ done \subseteq {pending.items[i].id : i \in DOMAIN pending.items}
                  /\ Sound(seen.population, seen.changes, done, frame, ledger)
  BY <1>2
<1>7. /\ seen.changes \in Seq(ChangeType)
      /\ \A i \in DOMAIN seen.changes : FromWindow(seen.changes[i], frame) /\ seen.changes[i].id \in done
      /\ Told(epoch, Truth(epoch, entities), seen.changes) = Truth(epoch, seen.population)
  BY <1>6 DEF Sound
<1>8. /\ published \in Seq(ChangeType)
      /\ \A i \in DOMAIN published : i \in DOMAIN seen.changes /\ published[i] = seen.changes[i]
  BY <1>7, NotifiableFacts DEF published
<1>9. QueueKept /\ epoch \in 1 .. MaxEpoch
  BY DEF IInv, Typed
<1>10. /\ events' \in Seq(EventType) /\ Len(events') <= MaxEvents
       /\ event_sequence' \in Nat /\ dropped_events' \in Nat
       /\ event_sequence' = consumer.drained + Len(events') + dropped_events'
       /\ \A i \in DOMAIN events' : events'[i].seq <= event_sequence' /\ events'[i].epoch <= epoch
       /\ \A i, j \in DOMAIN events' : i < j => events'[i].seq < events'[j].seq
       /\ \A i \in DOMAIN events' :
            \/ \E j \in DOMAIN events : events'[i] = events[j]
            \/ \E j \in DOMAIN published :
                 events'[i].epoch = epoch /\ events'[i].change = published[j]
       /\ dropped_events' >= dropped_events
       /\ dropped_events' = dropped_events => events' = events \o Numbered(published)
       /\ ~Overflows(published, room) => dropped_events' = dropped_events
  BY <1>1, <1>8, <1>9, PublishFacts
<1>11. /\ advanced'.plan = frame /\ advanced' \in [plan : Frames, accept : Frames]
       /\ advanced'.accept \in {advanced.accept, frame}
       /\ AdvancesNow => advanced'.accept = frame
       /\ ~AdvancesNow => advanced' = advanced
  <2>1. advanced \in [plan : Frames, accept : Frames]
    BY DEF IInv, Typed
  <2>2. CASE AdvancesNow
    <3>1. advanced' = [advanced EXCEPT !.accept = frame]
      BY <1>1, <2>2
    <3> QED
      BY <1>4, <2>1, <2>2, <3>1
  <2>3. CASE ~AdvancesNow
    BY <1>1, <1>4, <2>1, <2>3
  <2> QED
    BY <2>2, <2>3
<1>12. /\ caller'.frame = caller.frame /\ caller'.gaps = caller.gaps /\ caller'.held = caller.held
       /\ caller'.acknowledged = caller.acknowledged
       /\ caller'.muted = (caller.muted \/ published # seen.changes)
       /\ caller' \in [frame : Frames, before : Nat, held : SUBSET UNION {caller'.held},
                      acknowledged : Nat, gaps : [Ids -> Frames], muted : BOOLEAN]
  <2> DEFINE muted == caller.muted \/ published # seen.changes
  <2>1. caller' = [caller EXCEPT !.muted = muted]
    BY <1>1
  <2>2. caller \in [frame : Frames, before : Nat, held : SUBSET UNION {caller.held},
                   acknowledged : Nat, gaps : [Ids -> Frames], muted : BOOLEAN]
    BY DEF IInv, CallerKept
  <2>3. muted \in BOOLEAN
    OBVIOUS
  <2> HIDE DEF muted
  <2>4. /\ caller'.frame = caller.frame /\ caller'.gaps = caller.gaps /\ caller'.held = caller.held
        /\ caller'.acknowledged = caller.acknowledged /\ caller'.muted = muted
        /\ caller' \in [frame : Frames, before : Nat, held : SUBSET UNION {caller.held},
                       acknowledged : Nat, gaps : [Ids -> Frames], muted : BOOLEAN]
    BY <2>1, <2>2, <2>3
  <2> QED
    BY <2>4 DEF muted
<1>13. /\ last' \in [observed : Frames, confirmed : Frames, published : Frames]
       /\ last'.observed \in {last.observed, frame} /\ last'.confirmed \in {last.confirmed, frame}
       /\ last'.published \in {last.published, frame}
  <2>1. last \in [observed : Frames, confirmed : Frames, published : Frames]
    BY DEF IInv, Typed
  <2> QED
    BY <1>1, <1>4, <2>1, NoteFacts
<1>14. Typed'
  <2>1. untracked' \in Nat /\ dropped_events' \in Nat /\ consumer'.drained \in Nat
    BY <1>1, <1>10 DEF IInv, Typed
  <2>2. /\ epoch' \in 1 .. MaxEpoch /\ policy_revision' \in 0 .. MaxRevision
        /\ policy' \in Policies \cup {NoPolicy} /\ rejections' \in 0 .. MaxRejections
        /\ planned' \in [frame : Frames, generation : Generations]
        /\ notify_enabled' \in BOOLEAN
    BY <1>1 DEF IInv, Typed
  <2>3. resync_pending' \in BOOLEAN
    BY <1>1
  <2> QED
    BY <1>11, <1>13, <2>1, <2>2, <2>3 DEF Typed
<1>15. QueueKept'
  BY <1>1, <1>9, <1>10 DEF QueueKept
<1>16. CallerKept'
  <2>1. dropped_events' > caller'.acknowledged => resync_pending'
    <3>1. CASE Overflows(published, room)
      BY <1>1, <3>1
    <3>2. CASE ~Overflows(published, room)
      <4>1. dropped_events' = dropped_events
        BY <1>10, <3>2
      <4> QED
        BY <1>1, <1>12, <4>1 DEF IInv, CallerKept
    <3> QED
      BY <3>1, <3>2
  <2>2. IsFiniteSet(caller'.held)
    BY <1>12 DEF IInv, CallerKept
  <2> QED
    BY <1>12, <2>1, <2>2 DEF CallerKept
<1>17. LedgerKept'
  <2>1. inflight' # <<>> => inflight # <<>>
    <3>1. CASE inflight = <<>>
      BY <1>1, <1>5, <3>1
    <3> QED
      BY <3>1
  <2>2. inflight' # <<>> => planned'.frame <= caller'.frame
    BY <1>1, <1>12, <2>1 DEF IInv, LedgerKept
  <2>3. \A i \in DOMAIN inflight' : inflight'[i].token.epoch = epoch'
    BY <1>1, <1>5 DEF IInv, LedgerKept
  <2>4. /\ Len(inflight') \in Nat
        /\ inflight' = [i \in 1 .. Len(inflight') |->
                         [token |-> inflight'[i].token, adopted |-> inflight'[i].adopted]]
    BY <1>1, <1>5
  <2>5. \A entry \in coverage' : entry.frame \in 0 .. caller'.frame
    BY <1>1, <1>3, <1>12
  <2>6. IsFiniteSet(coverage') /\ Cardinality(coverage') <= MaxCoverage
    BY <1>1, <1>3
  <2> QED
    BY <2>2, <2>3, <2>4, <2>5, <2>6 DEF LedgerKept
<1>18. FramesKept'
  <2>1. pending'.frame = advanced'.plan
    BY <1>1, <1>11 DEF frame
  <2>2. {last.observed, last.confirmed, last.published, advanced.plan, advanced.accept}
          \subseteq 0 .. caller.frame
    BY DEF IInv, FramesKept
  <2>3. frame \in 0 .. caller.frame
    BY <1>4
  <2> QED
    BY <1>11, <1>12, <1>13, <2>1, <2>2, <2>3 DEF FramesKept
<1>19. EntitiesKept'
  <2> DEFINE population == seen.population
             changes == seen.changes
  <2>1. Sound(population, changes, done, frame, ledger) /\ entities' = population
    BY <1>1, <1>6
  <2> HIDE DEF population, changes
  <2>2. /\ caller'.gaps = caller.gaps /\ frame = advanced'.plan /\ advanced.plan <= frame
        /\ frame <= caller'.frame /\ caller.frame <= caller'.frame /\ caller'.frame \in Nat
    BY <1>4, <1>11, <1>12
  <2> QED
    BY <1>4, <2>1, <2>2, EntitiesGoOn
<1>20. WaitingKept'
  <2>1. ~AdvancesNow'
    <3>1. CASE AdvancesNow
      BY <1>1, <1>4, <1>11, <3>1 DEF AdvancesNow, frame
    <3>2. CASE ~AdvancesNow
      BY <1>1, <1>11, <3>2 DEF AdvancesNow
    <3> QED
      BY <3>1, <3>2
  <2> QED
    BY <1>1, <2>1 DEF IInv, WaitingKept
<1>21. HistoryKept'
  <2>1. \A i \in DOMAIN published : FromWindow(published[i], frame)
    BY <1>7, <1>8
  <2>2. ~ReplanFrames => \A i \in DOMAIN published : published[i].observed < frame
    <3>1. ASSUME ~ReplanFrames, NEW i \in DOMAIN published PROVE published[i].observed < frame
      <4> DEFINE id == published[i].id
                 since == published[i].observed
      <4>1. id \in DOMAIN entities /\ Ongoing(entities[id], since) /\ id \in done
        BY <1>7, <1>8 DEF FromWindow
      <4>2. AdvancesNow
        <5>1. CASE ~AdvancesNow
          <6>1. DOMAIN seen.changes = {}
            BY <1>2, <5>1
          <6> QED
            BY <1>8, <6>1
        <5> QED
          BY <5>1
      <4> HIDE DEF id, since
      <4>3. PICK j \in DOMAIN pending.items : pending.items[j].id = id
        BY <1>6, <4>1
      <4>4. pending.items[j].id \in DOMAIN entities =>
              \A s : Ongoing(entities[pending.items[j].id], s) => s < pending.frame
        BY <3>1, <4>2 DEF IInv, WaitingKept
      <4> QED
        BY <4>1, <4>3, <4>4 DEF since, frame
    <3> QED
      BY <3>1
  <2>3. \A id \in Ids : caller'.gaps[id] \in {caller.gaps[id], frame}
    BY <1>12
  <2>4. epoch' = epoch /\ advanced.plan <= frame
    BY <1>1, <1>4
  <2> QED
    BY <1>4, <1>10, <1>11, <2>1, <2>2, <2>3, <2>4, HistoryGoesOn
<1>22. TruthKept'
  <2> DEFINE population == seen.population
             changes == seen.changes
  <2>1. /\ changes \in Seq(ChangeType) /\ entities' = population /\ epoch' = epoch /\ consumer' = consumer
        /\ Told(epoch, Truth(epoch, entities), changes) = Truth(epoch, population)
    BY <1>1, <1>7
  <2>2. ~caller'.muted => ~caller.muted /\ published = changes
    BY <1>12
  <2> HIDE DEF population, changes
  <2>3. /\ dropped_events' \in Nat /\ dropped_events' >= dropped_events
        /\ dropped_events' = dropped_events => events' = events \o Numbered(published)
    BY <1>10
  <2> QED
    BY <2>1, <2>2, <2>3, TruthGoesOn
<1> QED
  BY <1>14, <1>15, <1>16, <1>17, <1>18, <1>19, <1>20, <1>21, <1>22 DEF IInv

-----------------------------------------------------------------------------
(* notify_source_reset *)

\* A reset of the source keeps the invariant.
LEMMA ResetKept ==
  ASSUME IInv, NEW room \in Nat, NotifySourceReset(room)
  PROVE  IInv'
<1> DEFINE ids == {id \in DOMAIN entities : entities[id].open}
           ends == Ends(ids)
<1>1. /\ epoch < MaxEpoch
      /\ Publish(ends, room)
      /\ epoch' = epoch + 1
      /\ inflight' = <<>> /\ coverage' = {}
      /\ entities' = [id \in {} |-> NewEntity]
      /\ pending' = NoPending /\ advanced' = [plan |-> 0, accept |-> 0]
      /\ last' = NoFrames
      /\ resync_pending' = TRUE
      /\ caller' = [caller EXCEPT !.before = @ + caller.frame, !.frame = 0, !.gaps = NoGaps]
      /\ UNCHANGED <<policy, policy_revision, rejections, planned, notify_enabled, untracked, consumer>>
  BY DEF NotifySourceReset, EndCycleState
<1>2. /\ ends \in Seq(ChangeType)
      /\ \A i \in DOMAIN ends : ends[i].kind = "kSourceReset"
      /\ Told(epoch, Truth(epoch, entities), ends) = [open |-> {}, sound |-> TRUE]
  <2>1. EntitiesKept
    BY DEF IInv
  <2> QED
    BY <2>1, EndsAreTold
<1> HIDE DEF ids, ends
<1>3. QueueKept /\ epoch \in 1 .. MaxEpoch /\ epoch \in Nat
  BY LimitsAssumption DEF IInv, Typed
<1>4. /\ events' \in Seq(EventType) /\ Len(events') <= MaxEvents
      /\ event_sequence' \in Nat /\ dropped_events' \in Nat
      /\ event_sequence' = consumer.drained + Len(events') + dropped_events'
      /\ \A i \in DOMAIN events' : events'[i].seq <= event_sequence' /\ events'[i].epoch <= epoch
      /\ \A i, j \in DOMAIN events' : i < j => events'[i].seq < events'[j].seq
      /\ \A i \in DOMAIN events' :
           \/ \E j \in DOMAIN events : events'[i] = events[j]
           \/ \E j \in DOMAIN ends :
                events'[i].epoch = epoch /\ events'[i].change = ends[j]
      /\ dropped_events' >= dropped_events
      /\ dropped_events' = dropped_events => events' = events \o Numbered(ends)
  BY <1>1, <1>2, <1>3, PublishFacts
<1>5. 0 \in Frames /\ DOMAIN entities' = {} /\ entities' = [id \in DOMAIN entities' |-> entities'[id]]
  BY <1>1, FrameZero
<1>6. \A i \in DOMAIN events' : events'[i].epoch \in Nat /\ events'[i].epoch # epoch'
  <2>1. \A i \in DOMAIN events' : events'[i] \in EventType
    BY <1>4
  <2>2. \A i \in DOMAIN events' : events'[i].epoch \in 1 .. MaxEpoch
    BY <2>1 DEF EventType
  <2> QED
    BY <1>1, <1>3, <1>4, <2>2, LimitsAssumption
<1>7. Typed'
  <2>1. epoch' \in 1 .. MaxEpoch
    BY <1>1, <1>3, LimitsAssumption
  <2>2. /\ policy_revision' \in 0 .. MaxRevision /\ policy' \in Policies \cup {NoPolicy}
        /\ rejections' \in 0 .. MaxRejections
        /\ planned' \in [frame : Frames, generation : Generations]
        /\ notify_enabled' \in BOOLEAN /\ untracked' \in Nat /\ consumer'.drained \in Nat
    BY <1>1 DEF IInv, Typed
  <2>3. /\ advanced' \in [plan : Frames, accept : Frames]
        /\ last' \in [observed : Frames, confirmed : Frames, published : Frames]
        /\ resync_pending' \in BOOLEAN
    BY <1>1, <1>5 DEF NoFrames
  <2> QED
    BY <1>4, <2>1, <2>2, <2>3 DEF Typed
<1>8. QueueKept'
  <2>1. \A i \in DOMAIN events' : events'[i].epoch <= epoch'
    BY <1>1, <1>3, <1>4, <1>6
  <2> QED
    BY <1>1, <1>3, <1>4, <2>1 DEF QueueKept
<1>9. /\ caller'.frame = 0 /\ caller'.gaps = NoGaps /\ caller'.held = caller.held
      /\ caller'.acknowledged = caller.acknowledged /\ caller'.muted = caller.muted
      /\ caller' \in [frame : Frames, before : Nat, held : SUBSET UNION {caller'.held},
                     acknowledged : Nat, gaps : [Ids -> Frames], muted : BOOLEAN]
  <2>1. caller \in [frame : Frames, before : Nat, held : SUBSET UNION {caller.held},
                   acknowledged : Nat, gaps : [Ids -> Frames], muted : BOOLEAN]
    BY DEF IInv, CallerKept
  <2>2. NoGaps \in [Ids -> Frames]
    BY <1>5 DEF NoGaps
  <2> DEFINE before == caller.before + caller.frame
  <2>3. before \in Nat
    BY <2>1, FrameNumbers
  <2> HIDE DEF before, NoGaps
  <2>4. caller' = [caller EXCEPT !.before = before, !.frame = 0, !.gaps = NoGaps]
    BY <1>1 DEF before
  <2> QED
    BY <1>5, <2>1, <2>2, <2>3, <2>4
<1>10. CallerKept'
  <2>1. IsFiniteSet(caller'.held)
    BY <1>9 DEF IInv, CallerKept
  <2> QED
    BY <1>1, <1>9, <2>1 DEF CallerKept
<1>11. LedgerKept'
  <2>1. IsFiniteSet(coverage') /\ Cardinality(coverage') <= MaxCoverage
    BY <1>1, FS_EmptySet, LimitsAssumption
  <2>2. Len(inflight') = 0 /\ DOMAIN inflight' = {}
    BY <1>1
  <2>3. inflight' = [i \in 1 .. Len(inflight') |->
                      [token |-> inflight'[i].token, adopted |-> inflight'[i].adopted]]
    BY <1>1
  <2> QED
    BY <1>1, <2>1, <2>2, <2>3 DEF LedgerKept
<1>12. FramesKept'
  BY <1>1, <1>9 DEF FramesKept, NoFrames, NoPending
<1>13. EntitiesKept'
  <2>1. IsFiniteSet(DOMAIN entities') /\ Cardinality(DOMAIN entities') <= MaxEntities
    BY <1>5, FS_EmptySet, LimitsAssumption
  <2>2. \A id \in Ids : caller'.gaps[id] <= advanced'.plan
    BY <1>1, <1>9 DEF NoGaps
  <2>3. entities' \in [DOMAIN entities' -> EntityType]
    BY <1>5
  <2> QED
    BY <1>5, <2>1, <2>2, <2>3 DEF EntitiesKept
<1>14. WaitingKept'
  <2> DEFINE none == <<>>
  <2>1. none \in Seq(ItemType) /\ DOMAIN none = {}
    OBVIOUS
  <2>2. pending'.items = none /\ pending'.frame = 0 /\ advanced'.accept = 0
    BY <1>1 DEF NoPending
  <2> HIDE DEF none
  <2>3. ~AdvancesNow'
    BY <2>2 DEF AdvancesNow
  <2> QED
    BY <2>1, <2>2, <2>3 DEF WaitingKept, ItemType
<1>15. HistoryKept'
  <2>1. ~ReplanFrames => \A i \in DOMAIN events' :
          events'[i].change.kind # "kSourceReset" =>
            events'[i].change.observed < events'[i].change.confirmed
    BY <1>2, <1>4 DEF IInv, HistoryKept, WindowsTakeTwoFrames
  <2> QED
    BY <1>6, <2>1 DEF HistoryKept, WindowsSpanNoKnownGap, WindowsTakeTwoFrames
<1>16. TruthKept'
  <2> SUFFICES ASSUME dropped_events' = 0, ~caller'.muted
               PROVE  ViewAfter(events)' = [open |-> {}, sound |-> TRUE]
    BY <1>5 DEF TruthKept, Opened
  <2>1. dropped_events = 0 /\ dropped_events' = dropped_events
    BY <1>4 DEF IInv, QueueKept
  <2>2. ~caller.muted /\ events' = events \o Numbered(ends) /\ consumer' = consumer
    BY <1>1, <1>4, <1>9, <2>1
  <2>3. ViewAfter(events) = Truth(epoch, entities)
    BY <2>1, <2>2 DEF IInv, TruthKept, Truth
  <2> DEFINE truth == [open |-> {}, sound |-> TRUE]
  <2>4. Told(epoch, Truth(epoch, entities), ends) = truth
    BY <1>2
  <2> HIDE DEF truth
  <2>5. ViewAfter(events)' = truth
    BY <1>2, <1>3, <2>2, <2>3, <2>4, PublishTellsTheTruth
  <2> QED
    BY <2>5 DEF truth
<1> QED
  BY <1>7, <1>8, <1>10, <1>11, <1>12, <1>13, <1>14, <1>15, <1>16 DEF IInv

-----------------------------------------------------------------------------
(* The invariant *)

\* Every action keeps the invariant.
LEMMA NextKept ==
  ASSUME IInv, [Next]_vars
  PROVE  IInv'
<1>1. \A room \in Rooms : room \in Nat
  BY CyclesAssumption DEF Rooms
<1>2. ASSUME NEW conditions \in Policies, SetAttentionPolicy(conditions)
      PROVE  IInv'
  BY <1>2, PolicyKept
<1>3. ASSUME NEW cycle \in Cycles, NEW frame \in 0 .. MaxFrame,
             PlanCycle(cycle, frame) \/ PlanCutShort(cycle, frame) \/ PlanLosesEdges(cycle, frame)
      PROVE  IInv'
  BY <1>3, PlanKept, CutShortKept, LosesEdgesKept
<1>4. ASSUME NEW batch \in SUBSET caller.held, NEW content \in Contents,
             AcceptRejects(batch, content)
      PROVE  IInv'
  BY <1>4, RejectKept
<1>5. ASSUME NEW batch \in SUBSET caller.held, NEW content \in Contents, NEW room \in Rooms,
             AcceptWork(batch, content, room)
      PROVE  IInv'
  BY <1>1, <1>5, CommitKept
<1>6. ASSUME NEW room \in Rooms, NotifySourceReset(room)
      PROVE  IInv'
  BY <1>1, <1>6, ResetKept
<1>7. DrainEvents => IInv'
  BY DrainKept
<1>8. UNCHANGED vars => IInv'
  BY StutterKept
<1> QED
  BY <1>2, <1>3, <1>4, <1>5, <1>6, <1>7, <1>8 DEF Next, Plan, Accept

\* In every reachable state, for every value of the constants, the books of the
\* coordinator and of its caller agree in all the ways IInv says.
THEOREM CoordinatorInvariant == Spec => []IInv
BY InitKept, NextKept, PTL DEF Spec

\* Every variable of the coordinator keeps its type, the queue, the ledger and the
\* population their caps (continuous_perception.cpp, publish and insert_coverage).
THEOREM TypeCorrect == Spec => []TypeOK
<1>1. IInv => TypeOK
  <2> SUFFICES ASSUME IInv PROVE TypeOK
    OBVIOUS
  <2>1. /\ Typed /\ event_sequence \in Nat /\ Len(events) <= MaxEvents
        /\ Cardinality(coverage) <= MaxCoverage
    BY DEF IInv, QueueKept, LedgerKept
  <2>2. DOMAIN entities \subseteq Ids /\ Cardinality(DOMAIN entities) <= MaxEntities
    BY DEF IInv, EntitiesKept
  <2>3. ASSUME NEW id \in DOMAIN entities
        PROVE  LET entity == entities[id]
               IN  /\ entity.observation \in {"kUnanalyzed", "kObserved", "kOccluded", "kTrackingLost"}
                   /\ entity.freshness \in {"kUnvalidated", "kFresh", "kValidatedReuse"}
                   /\ entity.bounds \subseteq Cells /\ entity.generation \in Generations
                   /\ {entity.presence, entity.absence, entity.occlusion} \subseteq Streaks
                   /\ {entity.open, entity.occluded} \subseteq BOOLEAN
                   /\ entity.instance \in Nat
    <3>1. entities[id] \in EntityType
      BY DEF IInv, EntitiesKept
    <3> QED
      BY <3>1 DEF EntityType
  <2> QED
    BY <2>1, <2>2, <2>3 DEF TypeOK, Typed
<1> QED
  BY <1>1, CoordinatorInvariant, PTL

\* Each event that was numbered is queued, was drained, or was counted as dropped;
\* numbers ascend along the queue, whatever was dropped in between (publish).
THEOREM EveryEventIsAccounted == Spec => []EventsAreAccounted
<1>1. IInv => EventsAreAccounted
  BY DEF IInv, QueueKept, EventsAreAccounted
<1> QED
  BY <1>1, CoordinatorInvariant, PTL

\* While a consumer has not been told of a drop, resync_pending stands (publish,
\* drain_events).
THEOREM EveryDropIsAnnounced == Spec => []DropsAreAnnounced
<1>1. IInv => DropsAreAnnounced
  BY DEF IInv, CallerKept, DropsAreAnnounced
<1> QED
  BY <1>1, CoordinatorInvariant, PTL

\* A consumer that replays the events it drained and those queued knows exactly the
\* lifecycles that are open, as long as nothing was dropped and notification was
\* never off: appearances and disappearances pair, in order, over every cycle,
\* late acceptance and reset.
THEOREM EventsTellTheLifecycles == Spec => []ConsumerSeesTheLifecycles
<1>1. IInv => ConsumerSeesTheLifecycles
  BY DEF IInv, TruthKept, ConsumerSeesTheLifecycles, Opened
<1> QED
  BY <1>1, CoordinatorInvariant, PTL

\* No confirmation window reaches back over a frame at which the entity was known
\* to be unobservable: evidence from before a gap never adds to evidence after it.
THEOREM NoWindowSpansAKnownGap == Spec => []WindowsSpanNoKnownGap
<1>1. IInv => WindowsSpanNoKnownGap
  BY DEF IInv, HistoryKept
<1> QED
  BY <1>1, CoordinatorInvariant, PTL

\* After a reset of the source nothing of the former epoch is left in the ledger,
\* in flight or waiting (notify_source_reset, end_cycle_state).
THEOREM NothingSurvivesAReset == Spec => []ResetEndsTheEpoch
<1>1. IInv => ResetEndsTheEpoch
  <2> SUFFICES ASSUME IInv PROVE ResetEndsTheEpoch
    OBVIOUS
  <2>1. \A entry \in coverage : entry.frame <= caller.frame
    BY FrameNumbers DEF IInv, LedgerKept
  <2> QED
    BY <2>1 DEF IInv, LedgerKept, EntitiesKept, FramesKept, ResetEndsTheEpoch
<1> QED
  BY <1>1, CoordinatorInvariant, PTL

\* Each confirmed change was observed first at a frame before the one that confirmed it,
\* for a caller that plans no frame twice (a frame planned again under another request
\* counts at plan time and again in advance_accepted_observations).
THEOREM ConfirmationsTakeTwoFrames ==
  ASSUME ~ReplanFrames
  PROVE  Spec => []WindowsTakeTwoFrames
<1>1. IInv => WindowsTakeTwoFrames
  BY DEF IInv, HistoryKept
<1> QED
  BY <1>1, CoordinatorInvariant, PTL

\* A step leaves the entities alone, ends their epoch, or observes them soundly
\* under the ledger it leaves.
Observes(population, ledger) ==
  \E changes, done, frame : Sound(population, changes, done, frame, ledger)

\* A step leaves the population alone, ends the epoch, or observes what it observes
\* where the ledger covers it and keeps open lifecycles open.
LEMMA StepsObserve ==
  ASSUME IInv, [Next]_vars
  PROVE  \/ entities' = entities
         \/ epoch' # epoch /\ DOMAIN entities' = {}
         \/ Observes(entities', coverage')
<1>1. ASSUME NEW cycle \in Cycles, NEW frame \in 0 .. MaxFrame, PlanCycle(cycle, frame)
      PROVE  Observes(entities', coverage')
  <2> DEFINE tokens == Issued(cycle, frame)
             ledger == Refreshed(cycle)
             seen == CycleObservation(cycle, ledger, tokens, frame)
             scene == [cycle |-> cycle, ledger |-> ledger, tokens |-> tokens, frame |-> frame,
                       counts |-> frame > advanced.plan]
  <2>1. coverage' = ledger /\ entities' = seen.population
    BY <1>1 DEF PlanCycle
  <2>2. Kept(scene, seen)
    <3>1. EntitiesKept /\ frame \in Frames
      BY DEF IInv, Frames
    <3>2. \E n \in Nat : DOMAIN tokens = 1 .. n
      BY IssuedFacts DEF IInv, Typed
    <3> HIDE DEF tokens, ledger
    <3> QED
      BY <3>1, <3>2, CycleKept
  <2>3. scene.frame = frame /\ scene.ledger = ledger
    OBVIOUS
  <2> HIDE DEF scene, seen, ledger, tokens
  <2>4. Sound(seen.population, seen.changes, ItemIds(seen), frame, ledger)
    BY <2>2, <2>3 DEF Kept
  <2>5. Observes(seen.population, ledger)
    BY <2>4 DEF Observes
  <2> QED
    BY <2>1, <2>5
<1>2. ASSUME NEW batch, NEW content, NEW room, AcceptWork(batch, content, room)
      PROVE  Observes(entities', coverage')
  <2> DEFINE ledger == AcceptedLedger(batch)
             seen == AcceptedObservation(AcceptedFlights(batch))
  <2>1. coverage' = ledger /\ entities' = seen.population
    BY <1>2 DEF AcceptWork
  <2>2. \E done : Sound(seen.population, seen.changes, done, pending.frame, ledger)
    BY CommitIsSound
  <2> HIDE DEF ledger, seen
  <2>3. Observes(seen.population, ledger)
    BY <2>2 DEF Observes
  <2> QED
    BY <2>1, <2>3
<1>3. ASSUME NEW room, NotifySourceReset(room)
      PROVE  epoch' # epoch /\ DOMAIN entities' = {}
  <2>1. epoch' = epoch + 1 /\ entities' = [id \in {} |-> NewEntity]
    BY <1>3 DEF NotifySourceReset, EndCycleState
  <2>2. epoch \in Nat
    BY LimitsAssumption DEF IInv, Typed
  <2> QED
    BY <2>1, <2>2
<1>4. ASSUME NEW conditions, SetAttentionPolicy(conditions) PROVE entities' = entities
  BY <1>4 DEF SetAttentionPolicy
<1>5. ASSUME NEW cycle, NEW frame, PlanCutShort(cycle, frame) \/ PlanLosesEdges(cycle, frame)
      PROVE  entities' = entities
  BY <1>5 DEF PlanCutShort, PlanLosesEdges
<1>6. ASSUME NEW batch, NEW content, AcceptRejects(batch, content) PROVE entities' = entities
  BY <1>6 DEF AcceptRejects
<1>7. DrainEvents => entities' = entities
  BY DEF DrainEvents
<1>8. UNCHANGED vars => entities' = entities
  BY DEF vars, coordinatorVars
<1> QED
  BY <1>1, <1>2, <1>3, <1>4, <1>5, <1>6, <1>7, <1>8 DEF Next, Plan, Accept

\* No step but a reset forgets an entity whose lifecycle is open: pressure on the cap of
\* the population evicts closed ones only (ensure_entity).
THEOREM OpenLifecyclesSurvivePressure == Spec => OpenLifecyclesAreKept
<1>1. ASSUME IInv, [Next]_vars
      PROVE  [epoch' = epoch =>
                \A id \in DOMAIN entities : entities[id].open => id \in DOMAIN entities']_vars
  <2>1. CASE entities' = entities
    BY <2>1
  <2>2. CASE epoch' # epoch
    BY <2>2
  <2>3. CASE Observes(entities', coverage')
    <3> DEFINE population == entities'
               ledger == coverage'
    <3>1. Observes(population, ledger)
      BY <2>3
    <3> HIDE DEF population, ledger
    <3>2. \A id \in DOMAIN entities : entities[id].open => id \in DOMAIN population
      BY <3>1 DEF Observes, Sound
    <3> QED
      BY <3>2 DEF population
  <2> QED
    BY <1>1, <2>1, <2>2, <2>3, StepsObserve
<1> QED
  BY <1>1, CoordinatorInvariant, PTL DEF Spec, OpenLifecyclesAreKept

\* An entity becomes observed at a frame only where the ledger, as the step leaves it,
\* covers its bounds, for a caller that plans no frame twice.
THEOREM ObservationsAreCovered ==
  ASSUME ~ReplanFrames
  PROVE  Spec => ObservedOnlyWhereCovered
<1>1. ASSUME IInv, [Next]_vars
      PROVE  [\A id \in DOMAIN entities \cap DOMAIN entities' :
                entities'[id].observed_frame \notin {0, entities[id].observed_frame} =>
                  Covered(coverage', entities'[id].bounds)]_vars
  <2>1. CASE entities' = entities
    BY <2>1
  <2>2. CASE DOMAIN entities' = {}
    BY <2>2
  <2>3. CASE Observes(entities', coverage')
    <3> DEFINE population == entities'
               ledger == coverage'
    <3>1. Observes(population, ledger)
      BY <2>3
    <3> HIDE DEF population, ledger
    <3>2. \A id \in DOMAIN entities \cap DOMAIN population :
            population[id].observed_frame \notin {0, entities[id].observed_frame} =>
              Covered(ledger, population[id].bounds)
      BY <3>1 DEF Observes, Sound, Grown
    <3> QED
      BY <3>2 DEF population, ledger
  <2> QED
    BY <1>1, <2>1, <2>2, <2>3, StepsObserve
<1> QED
  BY <1>1, CoordinatorInvariant, PTL DEF Spec, ObservedOnlyWhereCovered
=============================================================================
