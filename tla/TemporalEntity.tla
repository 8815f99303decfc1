--------------------------- MODULE TemporalEntity ---------------------------
(***************************************************************************)
(* The per-identity state machine of fusion/continuous_perception.cpp: how *)
(* one classified observation of a frame moves a tracked entity, and which *)
(* semantic changes it confirms.                                           *)
(*                                                                         *)
(* A debounce counter is compared with the confirmation window only, so it *)
(* stops there; a streak of length 0 carries no frame.  Text, label and    *)
(* part-of parents are the three axes of a look.                           *)
(***************************************************************************)
EXTENDS Integers, Sequences

Window == 2              \* kContinuousConfirmationWindow

Min2(a, b) == IF a < b THEN a ELSE b

NoStreak == [count |-> 0, since |-> 0]

\* The first observation of a streak records its frame, later ones count.
Lengthened(streak, frame) ==
  IF streak.count = 0
  THEN [count |-> 1, since |-> frame]
  ELSE [streak EXCEPT !.count = Min2(Window, @ + 1)]

NoLook == [text |-> "", label |-> "", parents |-> {}]

NoCandidate == [since |-> 0, look |-> NoLook]

NewEntity ==
  [observation |-> "kUnanalyzed", freshness |-> "kUnvalidated", generation |-> 0,
   bounds |-> {}, observed_frame |-> 0,
   instance |-> 0, look |-> NoLook, confirmed_frame |-> 0, open |-> FALSE,
   occluded |-> FALSE,
   presence |-> NoStreak, absence |-> NoStreak, occlusion |-> NoStreak,
   candidate |-> NoCandidate]

\* A confirmed change of the entity `id' in its present instance.
Change(kind, id, entity, observed, confirmed) ==
  [kind |-> kind, id |-> id, instance |-> entity.instance,
   observed |-> observed, confirmed |-> confirmed]

\* What an observation makes of an entity, and the changes it confirms.
Outcome(entity, changes) == [entity |-> entity, changes |-> changes]

-----------------------------------------------------------------------------
(* Present *)

\* The latest-observation layer takes every valid observation.
Observed(entity, item, frame) ==
  [entity EXCEPT !.observation = "kObserved", !.freshness = item.freshness,
                 !.generation = item.generation, !.bounds = item.bounds,
                 !.observed_frame = frame,
                 !.presence = Lengthened(@, frame),
                 !.absence = NoStreak, !.occlusion = NoStreak]

\* An identity that comes back opens the instance after its last one.
NextInstance(entity) == IF entity.confirmed_frame = 0 THEN 1 ELSE entity.instance + 1

\* Mutant: the event is cut before the new instance is numbered.
AppearUnnumbered(id, entity, item, frame) ==
  LET opened == [entity EXCEPT !.open = TRUE, !.instance = NextInstance(entity),
                               !.look = item.look, !.confirmed_frame = frame,
                               !.candidate = NoCandidate]
  IN  Outcome(opened, <<Change("kAppeared", id, entity, entity.presence.since, frame)>>)

\* The second observation in a row opens a lifecycle under a new instance.
Appear(id, entity, item, frame) ==
  LET opened == [entity EXCEPT !.open = TRUE, !.instance = NextInstance(entity),
                               !.look = item.look, !.confirmed_frame = frame,
                               !.candidate = NoCandidate]
  IN  Outcome(opened, <<Change("kAppeared", id, opened, entity.presence.since, frame)>>)

\* The end of a confirmed occlusion is itself confirmed by the window.
Reveal(id, entity, frame) ==
  IF entity.occluded /\ entity.presence.count >= Window
  THEN Outcome([entity EXCEPT !.occluded = FALSE, !.confirmed_frame = frame],
               <<Change("kRelationChanged", id, entity, entity.presence.since, frame)>>)
  ELSE Outcome(entity, <<>>)

\* The axes on which a look differs from the confirmed one, in event order.
ChangedAxes(confirmed, seen) ==
  LET On(axis, kind) == IF confirmed[axis] = seen[axis] THEN <<>> ELSE <<kind>>
  IN  On("text", "kTextChanged") \o On("label", "kAppearanceChanged")
        \o On("parents", "kRelationChanged")

\* A differing look is a candidate first; the same candidate seen again is
\* confirmed.
Debounce(id, entity, item, frame) ==
  LET kinds == ChangedAxes(entity.look, item.look)
      since == entity.candidate.since
  IN  IF kinds = <<>>
      THEN Outcome([entity EXCEPT !.candidate = NoCandidate], <<>>)
      ELSE IF since = 0 \/ entity.candidate.look # item.look
      THEN Outcome([entity EXCEPT !.candidate = [since |-> frame, look |-> item.look]], <<>>)
      ELSE Outcome([entity EXCEPT !.look = item.look, !.confirmed_frame = frame,
                                  !.candidate = NoCandidate],
                   [i \in DOMAIN kinds |-> Change(kinds[i], id, entity, since, frame)])

Present(id, entity, item, frame) ==
  LET seen == Observed(entity, item, frame)
      revealed == Reveal(id, seen, frame)
      settled == Debounce(id, revealed.entity, item, frame)
  IN  IF entity.open
      THEN Outcome(settled.entity, revealed.changes \o settled.changes)
      ELSE IF seen.presence.count < Window THEN Outcome(seen, <<>>)
      ELSE Appear(id, seen, item, frame)

-----------------------------------------------------------------------------
(* Absent *)

\* Tracker loss is a state of its own and breaks every streak.
TrackingLost(entity) ==
  Outcome([entity EXCEPT !.observation = "kTrackingLost", !.freshness = "kUnvalidated",
                         !.presence = NoStreak, !.absence = NoStreak,
                         !.occlusion = NoStreak, !.candidate = NoCandidate], <<>>)

\* Behind an occluder, or still followed by a track: the relation channel.
Occlude(id, entity, frame) ==
  LET hidden == [entity EXCEPT !.observation = "kOccluded", !.freshness = "kUnvalidated",
                               !.presence = NoStreak, !.absence = NoStreak,
                               !.occlusion = Lengthened(@, frame),
                               !.candidate = NoCandidate]
  IN  IF hidden.open /\ ~hidden.occluded /\ hidden.occlusion.count >= Window
      THEN Outcome([hidden EXCEPT !.occluded = TRUE, !.confirmed_frame = frame],
                   <<Change("kRelationChanged", id, hidden, hidden.occlusion.since, frame)>>)
      ELSE Outcome(hidden, <<>>)

\* Missing from a covered area: the disappearance channel.
Miss(id, entity, frame) ==
  LET missing == [entity EXCEPT !.observation = "kOccluded", !.freshness = "kUnvalidated",
                                !.presence = NoStreak, !.absence = Lengthened(@, frame),
                                !.occlusion = NoStreak, !.candidate = NoCandidate]
  IN  IF missing.open /\ missing.absence.count >= Window
      THEN Outcome([missing EXCEPT !.open = FALSE, !.occluded = FALSE,
                                   !.observation = "kUnanalyzed"],
                   <<Change("kDisappeared", id, missing, missing.absence.since, frame)>>)
      ELSE Outcome(missing, <<>>)

Absent(id, entity, item, frame) ==
  CASE item.channel = "lost"     -> TrackingLost(entity)
    [] item.channel = "occluded" -> Occlude(id, entity, frame)
    [] OTHER                     -> Miss(id, entity, frame)

-----------------------------------------------------------------------------
(* Unknown *)

\* Mutant: an unknown frame leaves the presence streak standing.
UncoveredKeepsPresence(entity) ==
  [entity EXCEPT !.observation = "kUnanalyzed", !.freshness = "kUnvalidated",
                 !.absence = NoStreak, !.occlusion = NoStreak, !.candidate = NoCandidate]

\* An area no evidence covers: unknown, and every streak is broken.
Uncovered(entity) ==
  [entity EXCEPT !.observation = "kUnanalyzed", !.freshness = "kUnvalidated",
                 !.presence = NoStreak, !.absence = NoStreak, !.occlusion = NoStreak,
                 !.candidate = NoCandidate]

\* One validated observation, whichever way it went.
Advance(id, entity, item, frame) ==
  IF item.channel = "present" THEN Present(id, entity, item, frame)
                              ELSE Absent(id, entity, item, frame)
=============================================================================
