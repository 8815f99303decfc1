--------------------------- MODULE ObjectTracker ----------------------------
(***************************************************************************)
(* The bounded target pool of fusion/object_tracker.cpp: track records,    *)
(* the four pool-side slot families kept beside them, the layout           *)
(* generation, the redetection log and the byte account.                   *)
(*                                                                         *)
(* One action stands for one public call that succeeds and changes state.  *)
(* A call that fails returns before its first assignment, so it is a       *)
(* stuttering step; the conditions it checks are the action's guards.      *)
(* Cancellation, deadlines, pixel formats and crop failures only make a    *)
(* call fail, so they appear as the freedom not to take the step.          *)
(*                                                                         *)
(* Sorted vectors keyed by track id are functions whose domain is the set  *)
(* of held ids.  The slots `structure_baselines' and `tracker_handles'     *)
(* carry data no decision reads, so they are sets of ids.  The redetection *)
(* log is its length.  A template is the frame it was captured from;       *)
(* bounds are one coordinate, `position'.                                  *)
(***************************************************************************)
EXTENDS EvidenceFusion, FiniteSets

CONSTANTS
  TrackIds,              \* stable ids the fusion path may hand to adopt_track
  Frames,                \* frame sequences callers pass, in any order
  MaxSequence,           \* the largest uint64 frame sequence
  RegionTextBytes,       \* label and text sizes of adopted regions
  Coordinates,           \* finite coordinates
  ViewCoordinates,       \* coordinates at which the bounds cover a view pixel
  Shifts,                \* global translations a caller may report
  MaxTargets, MaxPositionHistory, PoolBudgetBytes, TemplateThumbSide,
  MaxGenerationLag, RedetectBackoffBase, RedetectBackoffMax,
  RedetectMaxAttempts, MaxRedetectionRecords,
  BaselineIds,           \* tracks for which callers record E2 baselines
  SessionIds,            \* tracks for which callers attach sessions
  MaxGeneration,         \* bound: generations a run goes through
  MaxUndercount          \* bound: bytes the account may drift below the truth

ASSUME TrackIdsAssumption == TrackIds \subseteq Nat \ {0}
ASSUME FramesAssumption ==
  MaxSequence \in Nat /\ Frames \subseteq 0 .. MaxSequence
ASSUME CoordinatesAssumption ==
  Coordinates \subseteq Int /\ ViewCoordinates \subseteq Coordinates /\ Shifts \subseteq Int
ASSUME OptionsAssumption ==
  /\ {MaxTargets, MaxPositionHistory, PoolBudgetBytes, TemplateThumbSide,
      MaxGenerationLag, RedetectBackoffBase, RedetectMaxAttempts,
      MaxRedetectionRecords} \subseteq Nat \ {0}
  /\ RedetectBackoffMax \in Nat /\ RedetectBackoffMax >= RedetectBackoffBase
  /\ MaxGeneration \in Nat /\ MaxUndercount \in Nat
  /\ RegionTextBytes \subseteq Nat

VARIABLES
  tracks,                \* tracks_
  structure_baselines,   \* structure_baselines_: ids holding a slot
  state_slots,           \* state_slots_
  redetect_slots,        \* redetect_slots_
  tracker_handles,       \* tracker_handles_: ids holding a session
  redetection_records,   \* redetection_records_.size()
  layout_generation,     \* layout_generation_
  used_bytes             \* used_bytes_

vars == <<tracks, structure_baselines, state_slots, redetect_slots,
          tracker_handles, redetection_records, layout_generation,
          used_bytes>>

slotVars == <<structure_baselines, state_slots, redetect_slots, tracker_handles>>

-----------------------------------------------------------------------------
(* Byte account *)

kMaxSemanticsTextBytes == 1024
kTemplateOverheadBytes == 64
kObservationOverheadBytes == 32
kTrackOverheadBytes == 128
kStructureBaselineOverheadBytes == 32
kStateSlotOverheadBytes == 16
kRedetectSlotOverheadBytes == 24
kRedetectionRecordOverheadBytes == 48
kTrackerHandleSlotOverheadBytes == 32

template_bytes == kTemplateOverheadBytes + TemplateThumbSide * TemplateThumbSide

truncate_text(bytes) ==
  IF bytes > kMaxSemanticsTextBytes THEN kMaxSemanticsTextBytes ELSE bytes

Terminated(id) == tracks[id].state = "kTerminated"

track_bytes(track) ==
  kTrackOverheadBytes
    + template_bytes * (Len(track.templates) + Len(track.negative_templates))
    + kObservationOverheadBytes * track.position_history
    + track.text

insertion_bytes(text) ==
  kTrackOverheadBytes + template_bytes + kObservationOverheadBytes + text

\* baseline_slot_bytes, state_slot_bytes, redetect_slot_bytes and
\* tracker_handle_bytes compare a lower_bound with end(): the answer is
\* whether some slot has an id at or above `id'.
slot_bytes(ids, id, overhead) == IF \E k \in ids : k >= id THEN overhead ELSE 0

\* Mutant: the slots of a victim are not given back to the account.
victim_bytes_without_slots(id) == track_bytes(tracks[id])

\* Mutant: an archive is taken to hold nothing.
victim_bytes_of_live(id) == IF Terminated(id) THEN 0 ELSE track_bytes(tracks[id])

victim_bytes(id) ==
  track_bytes(tracks[id])
    + slot_bytes(structure_baselines, id, kStructureBaselineOverheadBytes)
    + slot_bytes(DOMAIN state_slots, id, kStateSlotOverheadBytes)
    + slot_bytes(DOMAIN redetect_slots, id, kRedetectSlotOverheadBytes)
    + slot_bytes(tracker_handles, id, kTrackerHandleSlotOverheadBytes)

\* What the pool really holds.
HeldBytes ==
  LET bytes(id) == track_bytes(tracks[id])
  IN  MapThenSumSet(bytes, DOMAIN tracks)
        + kStructureBaselineOverheadBytes * Cardinality(structure_baselines)
        + kStateSlotOverheadBytes * Cardinality(DOMAIN state_slots)
        + kRedetectSlotOverheadBytes * Cardinality(DOMAIN redetect_slots)
        + kTrackerHandleSlotOverheadBytes * Cardinality(tracker_handles)
        + kRedetectionRecordOverheadBytes * redetection_records

Fits(delta) == used_bytes + delta <= PoolBudgetBytes

-----------------------------------------------------------------------------
(* Views of the pool *)

LiveIds == {id \in DOMAIN tracks : ~Terminated(id)}

NoStateSlot == [insufficient_streak |-> 0, lost_sequence |-> 0]

StateSlotOf(id) ==
  IF id \in DOMAIN state_slots THEN state_slots[id] ELSE NoStateSlot

\* Mutant: the staleness test is the wrong way round.
SlotStale(id) ==
  /\ id \in DOMAIN redetect_slots
  /\ redetect_slots[id].episode_lost_sequence # StateSlotOf(id).lost_sequence

\* The redetection slot counts for the current loss episode only.
SlotValid(id) ==
  /\ id \in DOMAIN redetect_slots
  /\ redetect_slots[id].episode_lost_sequence = StateSlotOf(id).lost_sequence

Attempts(id) ==
  IF SlotValid(id) THEN redetect_slots[id].consecutive_failures ELSE 0

NextAttempt(id) ==
  IF SlotValid(id) THEN redetect_slots[id].next_attempt_sequence ELSE 0

evaluate_redetection_gate(id, classification, frame) ==
  CASE tracks[id].state # "kLost" -> "kInactive"
    [] OTHER ->
       CASE classification = "kNone"  -> "kHoldStaticFrame"
         [] OTHER ->
            IF frame < NextAttempt(id) THEN "kHoldBackoff" ELSE "kTrigger"

Put(slots, id, slot) ==
  [k \in DOMAIN slots \cup {id} |-> IF k = id THEN slot ELSE slots[k]]

Erase(slots, ids) == Restrict(slots, DOMAIN slots \ ids)

-----------------------------------------------------------------------------
(* Eviction *)

\* Mutant: archives get no precedence.
evicts_before_by_age(candidate, resident) ==
  LET c == tracks[candidate]
      r == tracks[resident]
  IN  \/ c.last_verified_sequence < r.last_verified_sequence
      \/ /\ c.last_verified_sequence = r.last_verified_sequence
         /\ candidate < resident

evicts_before(candidate, resident) ==
  LET c == tracks[candidate]
      r == tracks[resident]
  IN  IF Terminated(candidate) # Terminated(resident)
      THEN Terminated(candidate)
      ELSE \/ c.last_verified_sequence < r.last_verified_sequence
           \/ /\ c.last_verified_sequence = r.last_verified_sequence
              /\ candidate < resident

\* The victim loop takes tracks in eviction order and stops at the first
\* prefix of that order that makes room.
EvictionPrefix(victims) ==
  \A v \in victims, k \in DOMAIN tracks : evicts_before(k, v) => k \in victims

\* Mutant: the count limit forgets the track about to be inserted.
MakesRoom_before_insertion(victims, bytes) ==
  /\ Cardinality(DOMAIN tracks \ victims) <= MaxTargets
  /\ Fits(bytes - MapThenSumSet(victim_bytes, victims))

MakesRoom(victims, bytes) ==
  /\ Cardinality(DOMAIN tracks \ victims) < MaxTargets
  /\ Fits(bytes - MapThenSumSet(victim_bytes, victims))

plan_eviction(victims, bytes) ==
  /\ EvictionPrefix(victims)
  /\ MakesRoom(victims, bytes)
  /\ \A fewer \in SUBSET victims :
       EvictionPrefix(fewer) /\ MakesRoom(fewer, bytes) => fewer = victims

\* The victim loop has nothing left to evict and still sees no room: it
\* dereferences its null victim, and the call has no defined outcome.
PlanRunsOut(bytes) ==
  ~ \E victims \in SUBSET DOMAIN tracks : plan_eviction(victims, bytes)

-----------------------------------------------------------------------------
(* Public operations *)

Init ==
  /\ tracks = <<>>
  /\ structure_baselines = {}
  /\ state_slots = <<>>
  /\ redetect_slots = <<>>
  /\ tracker_handles = {}
  /\ redetection_records = 0
  /\ layout_generation = 0
  /\ used_bytes = 0

\* Mutant: the state slots stay behind.
release_other_slots(ids) ==
  /\ structure_baselines' = structure_baselines \ ids
  /\ redetect_slots' = Erase(redetect_slots, ids)
  /\ tracker_handles' = tracker_handles \ ids
  /\ UNCHANGED state_slots

\* erase_structure_baseline, erase_state_slot, erase_redetect_slot and
\* erase_tracker_handle compare the id: only held slots go.
release_slots(ids) ==
  /\ structure_baselines' = structure_baselines \ ids
  /\ state_slots' = Erase(state_slots, ids)
  /\ redetect_slots' = Erase(redetect_slots, ids)
  /\ tracker_handles' = tracker_handles \ ids

NewTrack(position, text, frame) ==
  [state                  |-> "kTracking",
   position               |-> position,
   layout_generation      |-> layout_generation,
   last_verified_sequence |-> frame,
   templates              |-> <<frame>>,
   negative_templates     |-> <<>>,
   position_history       |-> 1,
   text                   |-> truncate_text(text)]

adopt_track(id, position, text, frame) ==
  /\ id \notin DOMAIN tracks
  /\ insertion_bytes(text) <= PoolBudgetBytes
  /\ \E victims \in SUBSET DOMAIN tracks :
       LET freed == MapThenSumSet(victim_bytes, victims)
           track == NewTrack(position, text, frame)
       IN  /\ plan_eviction(victims, insertion_bytes(text))
           /\ tracks' = Put(Erase(tracks, victims), id, track)
           /\ release_slots(victims)
           /\ used_bytes' = used_bytes - freed + track_bytes(track)
  /\ UNCHANGED <<redetection_records, layout_generation>>
  /\ HeldBytes' - used_bytes' <= MaxUndercount

Archived(track) ==
  [track EXCEPT !.state = "kTerminated", !.templates = <<>>,
                !.negative_templates = <<>>, !.position_history = 0]

archive_track(id) ==
  LET archive == Archived(tracks[id])
      erased(ids, overhead) == IF id \in ids THEN overhead ELSE 0
  IN  /\ tracks' = [tracks EXCEPT ![id] = archive]
      /\ release_slots({id})
      /\ used_bytes' = used_bytes - (track_bytes(tracks[id]) - track_bytes(archive))
           - erased(structure_baselines, kStructureBaselineOverheadBytes)
           - erased(DOMAIN state_slots, kStateSlotOverheadBytes)
           - erased(DOMAIN redetect_slots, kRedetectSlotOverheadBytes)
           - erased(tracker_handles, kTrackerHandleSlotOverheadBytes)

terminate(id) ==
  /\ id \in LiveIds
  /\ archive_track(id)
  /\ UNCHANGED <<redetection_records, layout_generation>>

record_observation(id) ==
  LET at_capacity == tracks[id].position_history >= MaxPositionHistory
      delta == IF at_capacity THEN 0 ELSE kObservationOverheadBytes
  IN  /\ id \in LiveIds
      /\ Fits(delta)
      /\ tracks' = [tracks EXCEPT ![id].position_history =
                      IF at_capacity THEN @ ELSE @ + 1]
      /\ used_bytes' = used_bytes + delta
      /\ UNCHANGED <<slotVars, redetection_records, layout_generation>>

\* Mutant: a capture into a full set is charged like one that grows it.
StoreDelta_always(set, capacity) == template_bytes

\* store_template's guards and byte delta for a set of this capacity.
StoreDelta(set, capacity) == IF Len(set) >= capacity THEN 0 ELSE template_bytes

CanStore(set, capacity, pinned) ==
  /\ Len(set) >= capacity => Len(set) > pinned
  /\ Fits(StoreDelta(set, capacity))

add_template(id, frame) ==
  LET set == tracks[id].templates
  IN  /\ id \in LiveIds
      /\ CanStore(set, MaxTemplates, 1)
      /\ tracks' = [tracks EXCEPT ![id].templates =
                      DropOldestAppend(set, MaxTemplates, 1, frame)]
      /\ used_bytes' = used_bytes + StoreDelta(set, MaxTemplates)
      /\ UNCHANGED <<slotVars, redetection_records, layout_generation>>

add_negative_template(id, frame) ==
  LET set == tracks[id].negative_templates
  IN  /\ id \in LiveIds
      /\ MaxNegativeTemplates # 0
      /\ CanStore(set, MaxNegativeTemplates, 0)
      /\ tracks' = [tracks EXCEPT ![id].negative_templates =
                      DropOldestAppend(set, MaxNegativeTemplates, 0, frame)]
      /\ used_bytes' = used_bytes + StoreDelta(set, MaxNegativeTemplates)
      /\ UNCHANGED <<slotVars, redetection_records, layout_generation>>

\* advance_layout_generation, and advance_generation_for_classification of a
\* kGlobal frame (the other classifications change nothing).
advance_layout_generation ==
  /\ layout_generation < MaxGeneration
  /\ layout_generation' = layout_generation + 1
  /\ UNCHANGED <<tracks, slotVars, redetection_records, used_bytes>>

\* Recording over a held baseline replaces it in place.
record_structure_baseline(id) ==
  /\ id \in LiveIds \cap BaselineIds
  /\ id \notin structure_baselines
  /\ Fits(kStructureBaselineOverheadBytes)
  /\ structure_baselines' = structure_baselines \cup {id}
  /\ used_bytes' = used_bytes + kStructureBaselineOverheadBytes
  /\ UNCHANGED <<tracks, state_slots, redetect_slots, tracker_handles,
                 redetection_records, layout_generation>>

(* Committing one frame's evidence *)

CommitPlan(id, e, frame) ==
  LET track           == tracks[id]
      negatives       == track.negative_templates
      grade           == Grade(track.state, negatives, e)
      transition      == track_transition(track.state, grade, StateSlotOf(id), frame)
      handle_present  == slot_bytes(tracker_handles, id, kTrackerHandleSlotOverheadBytes) # 0
      deep_protection == DeepChannelEnabled /\ handle_present /\ e.deep # "kCorroborated"
      capture         == grade = "kConfirmed" /\ PositiveCapturePolicy
  IN  [grade                  |-> grade,
       transition             |-> transition,
       slot_allocation_needed |-> /\ id \notin DOMAIN state_slots
                                  /\ \/ transition.insufficient_streak # 0
                                     \/ transition.lost_sequence # 0,
       want_positive          |-> capture /\ ~deep_protection,
       template_withheld      |-> capture /\ deep_protection,
       want_negative          |-> /\ grade = "kVetoed"
                                  /\ e.conflict /\ ~impostor_match(negatives, e)
                                  /\ NegativeCapturePolicy]

planned_store_delta(track, plan) ==
  (IF plan.slot_allocation_needed THEN kStateSlotOverheadBytes ELSE 0)
    + (IF plan.want_positive THEN StoreDelta(track.templates, MaxTemplates) ELSE 0)
    + (IF plan.want_negative
       THEN StoreDelta(track.negative_templates, MaxNegativeTemplates) ELSE 0)

\* An E2-only confirmation has no position of its own.
candidate_window_of(track, e) ==
  track.position + (IF HasCandidate(e) THEN e.offset ELSE 0)

apply_commit_stores(track, plan, e, frame) ==
  [track EXCEPT
     !.templates = IF plan.want_positive
                   THEN DropOldestAppend(@, MaxTemplates, 1, frame) ELSE @,
     !.negative_templates = IF plan.want_negative
                            THEN DropOldestAppend(@, MaxNegativeTemplates, 0, frame) ELSE @,
     !.position = IF Confirming(plan.grade) THEN candidate_window_of(track, e) ELSE @,
     !.last_verified_sequence = IF Confirming(plan.grade) THEN frame ELSE @,
     !.state = plan.transition.state,
     !.layout_generation = IF @ > layout_generation THEN @ ELSE layout_generation]

commit_track_evidence(id, e, frame) ==
  LET track == tracks[id]
      plan  == CommitPlan(id, e, frame)
      slot  == [insufficient_streak |-> plan.transition.insufficient_streak,
                lost_sequence       |-> plan.transition.lost_sequence]
  IN  /\ id \in LiveIds
      /\ candidate_window_of(track, e) \in ViewCoordinates
      /\ Fits(planned_store_delta(track, plan))
      /\ tracks' = [tracks EXCEPT ![id] = apply_commit_stores(track, plan, e, frame)]
      /\ state_slots' = IF plan.slot_allocation_needed \/ id \in DOMAIN state_slots
                        THEN Put(state_slots, id, slot) ELSE state_slots
      /\ used_bytes' = used_bytes + planned_store_delta(track, plan)
      /\ UNCHANGED <<structure_baselines, redetect_slots, tracker_handles,
                     redetection_records, layout_generation>>

-----------------------------------------------------------------------------
(* Deep-channel sessions *)

\* Attaching over a held session replaces the handle in place.
attach_tracker_session(id) ==
  /\ id \in LiveIds \cap SessionIds
  /\ id \notin tracker_handles
  /\ Fits(kTrackerHandleSlotOverheadBytes)
  /\ tracker_handles' = tracker_handles \cup {id}
  /\ used_bytes' = used_bytes + kTrackerHandleSlotOverheadBytes
  /\ UNCHANGED <<tracks, structure_baselines, state_slots, redetect_slots,
                 redetection_records, layout_generation>>

detach_tracker_session(id) ==
  /\ id \in tracker_handles
  /\ tracker_handles' = tracker_handles \ {id}
  /\ used_bytes' = used_bytes - kTrackerHandleSlotOverheadBytes
  /\ UNCHANGED <<tracks, structure_baselines, state_slots, redetect_slots,
                 redetection_records, layout_generation>>

-----------------------------------------------------------------------------
(* Whole-pool passes *)

\* Mutant: lost tracks do not follow the translation.
compensate_seen_only(dx) ==
  /\ \A id \in LiveIds : tracks[id].position + dx \in Coordinates
  /\ tracks' = [id \in DOMAIN tracks |->
                  IF tracks[id].state \in {"kLost", "kTerminated"} THEN tracks[id]
                  ELSE [tracks[id] EXCEPT !.position = @ + dx]]
  /\ UNCHANGED <<slotVars, redetection_records, layout_generation, used_bytes>>

\* Applied only when every live track's translated bounds stay finite.
compensate_global_motion(dx) ==
  /\ \A id \in LiveIds : tracks[id].position + dx \in Coordinates
  /\ tracks' = [id \in DOMAIN tracks |->
                  IF Terminated(id) THEN tracks[id]
                  ELSE [tracks[id] EXCEPT !.position = @ + dx]]
  /\ UNCHANGED <<slotVars, redetection_records, layout_generation, used_bytes>>

\* Mutant: the state of the lagging track is not looked at.
LaggingIds ==
  {id \in LiveIds : layout_generation - tracks[id].layout_generation > MaxGenerationLag}

SweptIds ==
  {id \in DOMAIN tracks : /\ tracks[id].state = "kUncertain"
                          /\ layout_generation - tracks[id].layout_generation
                               > MaxGenerationLag}

sweep_generation_lag(frame) ==
  LET unslotted == {id \in SweptIds :
                      slot_bytes(DOMAIN state_slots, id, kStateSlotOverheadBytes) = 0}
  IN  /\ SweptIds # {}
      /\ Fits(kStateSlotOverheadBytes * Cardinality(unslotted))
      /\ tracks' = [id \in DOMAIN tracks |->
                      IF id \in SweptIds THEN [tracks[id] EXCEPT !.state = "kLost"]
                      ELSE tracks[id]]
      /\ state_slots' = [id \in DOMAIN state_slots \cup SweptIds |->
                           IF id \in SweptIds
                           THEN [StateSlotOf(id) EXCEPT !.lost_sequence = frame]
                           ELSE state_slots[id]]
      /\ used_bytes' = used_bytes
           + kStateSlotOverheadBytes * Cardinality(SweptIds \ DOMAIN state_slots)
      /\ UNCHANGED <<structure_baselines, redetect_slots, tracker_handles,
                     redetection_records, layout_generation>>

-----------------------------------------------------------------------------
(* Redetection of lost tracks *)

redetection_backoff_wait[n \in Nat] ==
  IF n <= 1 THEN RedetectBackoffBase
  ELSE LET doubled == 2 * redetection_backoff_wait[n - 1]
       IN  IF doubled < RedetectBackoffMax THEN doubled ELSE RedetectBackoffMax

\* Mutant: the sum wraps.
wrapping_sequence_add(sequence, wait) == (sequence + wait) % (MaxSequence + 1)

saturating_sequence_add(sequence, wait) ==
  IF wait \in 1 .. (MaxSequence - sequence) THEN sequence + wait ELSE MaxSequence

\* Mutant: one attempt too many.
Exhausted_late(failures) == failures > RedetectMaxAttempts

Exhausted(failures) == failures >= RedetectMaxAttempts

record_redetection_failure(id, frame) ==
  LET failures == Attempts(id) + 1
      held     == id \in DOMAIN redetect_slots
      delta    == IF held THEN 0 ELSE kRedetectSlotOverheadBytes
      slot     == [episode_lost_sequence |-> StateSlotOf(id).lost_sequence,
                   next_attempt_sequence |->
                     saturating_sequence_add(frame, redetection_backoff_wait[failures]),
                   consecutive_failures  |-> failures]
  IN  /\ id \in LiveIds
      /\ tracks[id].state = "kLost"
      /\ \/ /\ Exhausted(failures)
            /\ archive_track(id)
         \/ /\ ~Exhausted(failures)
            /\ Fits(delta)
            /\ redetect_slots' = Put(redetect_slots, id, slot)
            /\ used_bytes' = used_bytes + delta
            /\ UNCHANGED <<tracks, structure_baselines, state_slots, tracker_handles>>
      /\ UNCHANGED <<redetection_records, layout_generation>>

RecordDelta ==
  IF redetection_records >= MaxRedetectionRecords THEN 0 ELSE kRedetectionRecordOverheadBytes

append_redetection_record ==
  /\ Fits(RecordDelta)
  /\ redetection_records' =
       IF redetection_records >= MaxRedetectionRecords
       THEN redetection_records ELSE redetection_records + 1

\* The episode key only selects the attempts the call reports: the slot is
\* released whatever episode it belongs to.
record_redetection_recapture(id) ==
  /\ id \in LiveIds
  /\ tracks[id].state = "kTracking"
  /\ append_redetection_record
  /\ redetect_slots' = Erase(redetect_slots, {id})
  /\ used_bytes' = used_bytes + RecordDelta
       - (IF id \in DOMAIN redetect_slots THEN kRedetectSlotOverheadBytes ELSE 0)
  /\ UNCHANGED <<tracks, structure_baselines, state_slots, tracker_handles, layout_generation>>

record_redetection_association(predecessor, successor) ==
  /\ predecessor # successor
  /\ predecessor \in DOMAIN tracks /\ tracks[predecessor].state = "kLost"
  /\ successor \in LiveIds
  /\ append_redetection_record
  /\ used_bytes' = used_bytes + RecordDelta
  /\ UNCHANGED <<tracks, slotVars, layout_generation>>

\* Mutant: the generation restarts and the tracks stay.
reset_generation ==
  /\ layout_generation' = 0
  /\ UNCHANGED <<tracks, slotVars, redetection_records, used_bytes>>

reset ==
  /\ tracks' = <<>>
  /\ structure_baselines' = {}
  /\ state_slots' = <<>>
  /\ redetect_slots' = <<>>
  /\ tracker_handles' = {}
  /\ redetection_records' = 0
  /\ layout_generation' = 0
  /\ used_bytes' = 0

-----------------------------------------------------------------------------
Next ==
  \/ \E id \in TrackIds, position \in ViewCoordinates, text \in RegionTextBytes, frame \in Frames :
       adopt_track(id, position, text, frame)
  \/ \E id \in TrackIds : terminate(id)
  \/ \E id \in TrackIds : record_observation(id)
  \/ \E id \in TrackIds, frame \in Frames : add_template(id, frame)
  \/ \E id \in TrackIds, frame \in Frames : add_negative_template(id, frame)
  \/ advance_layout_generation
  \/ \E id \in TrackIds : record_structure_baseline(id)
  \/ \E id \in TrackIds, e \in Evidence, frame \in Frames : commit_track_evidence(id, e, frame)
  \/ \E id \in TrackIds : attach_tracker_session(id)
  \/ \E id \in TrackIds : detach_tracker_session(id)
  \/ \E dx \in Shifts : compensate_global_motion(dx)
  \/ \E frame \in Frames : sweep_generation_lag(frame)
  \/ \E id \in TrackIds, frame \in Frames : record_redetection_failure(id, frame)
  \/ \E id \in TrackIds : record_redetection_recapture(id)
  \/ \E p \in TrackIds, s \in TrackIds : record_redetection_association(p, s)
  \/ reset

Spec == Init /\ [][Next]_vars
-----------------------------------------------------------------------------
(* Safety *)

Track ==
  [state                  : TrackState,
   position               : Coordinates,
   layout_generation      : 0 .. MaxGeneration,
   last_verified_sequence : Frames,
   templates              : Seq(Frames),
   negative_templates     : Seq(Frames),
   position_history       : 0 .. MaxPositionHistory,
   text                   : Nat]

StateSlot ==
  [insufficient_streak : 0 .. UncertainFrameLimit, lost_sequence : Frames \cup {0}]

RedetectSlot ==
  [episode_lost_sequence : Frames \cup {0},
   next_attempt_sequence : 0 .. MaxSequence,
   consecutive_failures  : 1 .. (RedetectMaxAttempts - 1)]

\* Every table holds records of its type, keyed by stable ids, and every
\* counter is in its range: in particular a lost track always has attempts
\* left, as evaluate_redetection_gate says.  The byte account is a sum over the pool:
\* AccountNeverOverstates and PoolWithinLimits say what it may be.
TypeOK ==
  /\ tracks \in [DOMAIN tracks -> Track] /\ DOMAIN tracks \subseteq TrackIds
  /\ structure_baselines \subseteq TrackIds
  /\ state_slots \in [DOMAIN state_slots -> StateSlot]
  /\ redetect_slots \in [DOMAIN redetect_slots -> RedetectSlot]
  /\ tracker_handles \subseteq TrackIds
  /\ redetection_records \in 0 .. MaxRedetectionRecords
  /\ layout_generation \in 0 .. MaxGeneration

\* A pool-side slot never outlives its track: eviction, archiving and reset
\* release all four families, so a re-adopted id starts without a past.
SlotsBelongToLiveTracks ==
  /\ structure_baselines \subseteq LiveIds
  /\ DOMAIN state_slots \subseteq LiveIds
  /\ DOMAIN redetect_slots \subseteq LiveIds
  /\ tracker_handles \subseteq LiveIds

Agree(state, slot) ==
  /\ state = "kTracking" => slot = NoStateSlot
  /\ state = "kUncertain" => /\ slot.insufficient_streak \in 1 .. (UncertainFrameLimit - 1)
                             /\ slot.lost_sequence = 0
  /\ state = "kLost" => slot.insufficient_streak \in 1 .. UncertainFrameLimit

\* The lazily allocated state slot always agrees with the track's state:
\* doubt is between one frame and the limit, a lost track holds its slot
\* (the claim evaluate_redetection_gate's fallback relies on), and a
\* confirmed track carries no leftover doubt.
StateSlotsAgree ==
  \A id \in LiveIds :
    /\ Agree(tracks[id].state, StateSlotOf(id))
    /\ tracks[id].state # "kTracking" => id \in DOMAIN state_slots

\* The claim of sweep_generation_lag: its unsigned subtraction of a track's
\* generation from the pool's never wraps.
NoTrackAheadOfPool ==
  \A id \in DOMAIN tracks : tracks[id].layout_generation <= layout_generation

\* Adoption evicts until the pool is within its two limits, and every growth
\* is checked first.
PoolWithinLimits ==
  /\ Cardinality(DOMAIN tracks) <= MaxTargets
  /\ used_bytes <= PoolBudgetBytes

\* Eviction may free bytes of slots the victim never held, but no operation
\* charges bytes that are not held: the account is never above the truth.
AccountNeverOverstates == used_bytes <= HeldBytes

\* What byte_size() documents: the sum of what the pool holds.
AccountIsExact == used_bytes = HeldBytes

\* What adopt_track documents: a track within the budget always finds room.
EvictionAlwaysFindsRoom ==
  \A id \in TrackIds \ DOMAIN tracks, text \in RegionTextBytes :
    insertion_bytes(text) <= PoolBudgetBytes => ~PlanRunsOut(insertion_bytes(text))

\* The deep channel only narrows: with its evidence a commit confirms and
\* captures nothing that it would not confirm and capture without it, and while
\* it is enabled a session-holding track captures only on a corroborated frame.
DeepChannelOnlyNarrows ==
  \A id \in LiveIds, e \in Evidence, frame \in Frames :
    LET plan   == CommitPlan(id, e, frame)
        silent == CommitPlan(id, [e EXCEPT !.deep = "kNotSupplied"], frame)
    IN  /\ plan.transition.state = "kTracking" => silent.transition.state = "kTracking"
        /\ plan.want_positive =>
             silent.want_positive \/ (silent.template_withheld /\ e.deep = "kCorroborated")
        /\ DeepChannelEnabled /\ plan.want_positive /\ id \in tracker_handles
             => e.deep = "kCorroborated"

-----------------------------------------------------------------------------
(* Steps *)

\* However many captures a track sees, the template it was adopted with stays
\* the first of its set for as long as the track lives.
AdoptionTemplatePinned ==
  [][\A id \in LiveIds \cap LiveIds' :
       Head(tracks'[id].templates) = Head(tracks[id].templates)]_vars

\* A live track is moved by a confirming commit of its own, or together with
\* every other live track by one global translation.
PositionNeedsEvidence ==
  [][LET shift(id) == tracks'[id].position - tracks[id].position
         live      == LiveIds \cap LiveIds'
     IN  \A id \in live : shift(id) # 0 =>
           \/ /\ tracks'[id].state = "kTracking" /\ StateSlotOf(id)' = NoStateSlot
              /\ \A other \in live \ {id} : shift(other) = 0
           \/ \A other \in live : shift(other) = shift(id)]_vars

\* Adoption gives up archives and the longest unverified tracks first: no live
\* track goes while an archive stays, nor while a staler live track stays.
LiveTracksEvictedLast ==
  [][tracks' # <<>> =>
       \A victim \in LiveIds \ DOMAIN tracks', survivor \in DOMAIN tracks \cap DOMAIN tracks' :
         /\ ~Terminated(survivor)
         /\ tracks[survivor].last_verified_sequence >= tracks[victim].last_verified_sequence]_vars
\* A failed attempt holds the gate at least until the next frame and at most
\* for the longest backoff, also next to the end of the sequence range.
BackoffBounds ==
  [][\A id \in LiveIds \cap LiveIds', frame \in Frames :
       LET latest == IF MaxSequence - frame < RedetectBackoffMax
                     THEN MaxSequence ELSE frame + RedetectBackoffMax
       IN  /\ record_redetection_failure(id, frame)
           /\ Attempts(id)' = Attempts(id) + 1
           => /\ frame < MaxSequence =>
                   evaluate_redetection_gate(id, "kPartial", frame)' = "kHoldBackoff"
              /\ evaluate_redetection_gate(id, "kPartial", latest)' = "kTrigger"]_vars

-----------------------------------------------------------------------------
(* Progress and refinement *)

\* The caller's loop: an attempt on a lost track keeps being made and, while
\* it fails, keeps being accounted.
FairSpec ==
  Spec /\ \A id \in TrackIds :
            WF_vars(\E frame \in Frames : record_redetection_failure(id, frame))

\* No track stays lost for ever: it is recaptured, closed or forgotten.
LossEnds ==
  \A id \in TrackIds :
    (id \in LiveIds /\ tracks[id].state = "kLost")
      ~> ~(id \in LiveIds /\ tracks[id].state = "kLost")

phase ==
  [id \in TrackIds |-> IF id \in DOMAIN tracks THEN tracks[id].state ELSE "kAbsent"]

doubt == [id \in TrackIds |-> StateSlotOf(id).insufficient_streak]

Lifecycle == INSTANCE TrackLifecycle

\* The pool with its separate, lazily allocated tables implements the
\* lifecycle of each identity.
ImplementsLifecycle == Lifecycle!Spec
=============================================================================
