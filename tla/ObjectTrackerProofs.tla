------------------------ MODULE ObjectTrackerProofs -------------------------
(***************************************************************************)
(* Proofs about ObjectTracker for every value of its constants.            *)
(***************************************************************************)
EXTENDS ObjectTracker, SequenceTheorems, FiniteSetTheorems, TLAPS

-----------------------------------------------------------------------------
(* Lemmas about the operators of the model *)

\* Erasing slots keeps a table a table of the same type.
LEMMA EraseTable ==
  ASSUME NEW S, NEW f, f \in [DOMAIN f -> S], NEW ids
  PROVE  /\ DOMAIN Erase(f, ids) = DOMAIN f \ ids
         /\ Erase(f, ids) \in [DOMAIN Erase(f, ids) -> S]
         /\ \A k \in DOMAIN f \ ids : Erase(f, ids)[k] = f[k]
BY DEF Erase, Restrict

\* A bounded template set keeps its type, its bound and its pinned prefix.
LEMMA DropOldestAppendType ==
  ASSUME NEW S, NEW set \in Seq(S), NEW entry \in S,
         NEW capacity \in Nat \ {0}, NEW pinned \in 0 .. 1,
         Len(set) >= capacity => Len(set) > pinned
  PROVE  /\ DropOldestAppend(set, capacity, pinned, entry) \in Seq(S)
         /\ Len(DropOldestAppend(set, capacity, pinned, entry)) =
              IF Len(set) >= capacity THEN Len(set) ELSE Len(set) + 1
         /\ pinned = 1 /\ Len(set) >= 1 =>
              DropOldestAppend(set, capacity, pinned, entry)[1] = set[1]
<1>1. CASE Len(set) < capacity
  BY <1>1, AppendProperties DEF DropOldestAppend
<1>2. CASE Len(set) >= capacity
  <2> DEFINE left  == SubSeq(set, 1, pinned)
             right == SubSeq(set, pinned + 2, Len(set))
  <2>1. /\ Len(set) \in Nat /\ pinned \in Int /\ pinned < Len(set)
        /\ \A i \in 1 .. Len(set) : set[i] \in S
    BY <1>2, LenProperties, ElementOfSeq
  <2>2. left \in Seq(S) /\ Len(left) = pinned /\ (pinned = 1 => left[1] = set[1])
    <3>1. \A i \in 1 .. pinned : set[i] \in S
      BY <2>1
    <3>2. /\ left \in Seq(S)
          /\ Len(left) = IF 1 <= pinned THEN pinned - 1 + 1 ELSE 0
          /\ \A i \in 1 .. pinned - 1 + 1 : left[i] = set[1 + i - 1]
      BY <2>1, <3>1, SubSeqProperties
    <3> HIDE DEF left
    <3> QED
      BY <2>1, <3>2
  <2>3. right \in Seq(S) /\ Len(right) = Len(set) - pinned - 1
    <3>1. \A i \in pinned + 2 .. Len(set) : set[i] \in S
      BY <2>1
    <3>2. /\ right \in Seq(S)
          /\ Len(right) = IF pinned + 2 <= Len(set) THEN Len(set) - (pinned + 2) + 1 ELSE 0
      BY <2>1, <3>1, SubSeqProperties
    <3> HIDE DEF right
    <3> QED
      BY <2>1, <3>2
  <2> DEFINE rest == RemoveAt(set, pinned + 1)
  <2>4. /\ rest \in Seq(S)
        /\ Len(rest) = Len(set) - 1
        /\ pinned = 1 => rest[1] = set[1]
    <3>0. (pinned + 1) - 1 = pinned /\ (pinned + 1) + 1 = pinned + 2
      BY <2>1
    <3>1. rest = left \o right
      BY <3>0, Zenon DEF RemoveAt
    <3> HIDE DEF left, right, rest
    <3>2. /\ left \o right \in Seq(S)
          /\ Len(left \o right) = Len(left) + Len(right)
          /\ \A i \in 1 .. Len(left) + Len(right) :
               (left \o right)[i] = IF i <= Len(left) THEN left[i] ELSE right[i - Len(left)]
      BY <2>2, <2>3, ConcatProperties
    <3> QED
      BY <2>1, <2>2, <2>3, <3>1, <3>2
  <2>5. DropOldestAppend(set, capacity, pinned, entry) = Append(rest, entry)
    BY <1>2 DEF DropOldestAppend
  <2> HIDE DEF rest
  <2>6. /\ Append(rest, entry) \in Seq(S)
        /\ Len(Append(rest, entry)) = Len(set)
        /\ pinned = 1 => Append(rest, entry)[1] = set[1]
    BY <2>1, <2>4, AppendProperties
  <2> QED
    BY <1>2, <2>5, <2>6
<1> QED
  BY <1>1, <1>2

\* The states of a track that still takes part.
LiveState == {"kTracking", "kUncertain", "kLost"}

\* The transition table leaves a state and a slot that agree again.
LEMMA TransitionAgrees ==
  ASSUME NEW state \in LiveState, NEW grade, NEW slot \in StateSlot,
         NEW frame \in Frames, Agree(state, slot)
  PROVE  LET t    == track_transition(state, grade, slot, frame)
             next == [insufficient_streak |-> t.insufficient_streak,
                      lost_sequence       |-> t.lost_sequence]
         IN  /\ t.state \in LiveState
             /\ next \in StateSlot
             /\ Agree(t.state, next)
             /\ t.insufficient_streak = 0 /\ t.lost_sequence = 0 => t.state = "kTracking"
<1> USE UncertainFrameLimitAssumption DEF StateSlot, LiveState, Agree, NoStateSlot
<1>1. CASE Confirming(grade)
  BY <1>1 DEF track_transition, limit_reached
<1>2. CASE ~Confirming(grade) /\ state = "kLost"
  BY <1>2 DEF track_transition, limit_reached
<1>3. CASE ~Confirming(grade) /\ state # "kLost" /\ slot.insufficient_streak + 1 >= UncertainFrameLimit
  BY <1>3 DEF track_transition, limit_reached
<1>4. CASE ~Confirming(grade) /\ state # "kLost" /\ ~(slot.insufficient_streak + 1 >= UncertainFrameLimit)
  BY <1>4 DEF track_transition, limit_reached
<1> QED
  BY <1>1, <1>2, <1>3, <1>4

-----------------------------------------------------------------------------
(* The core invariant *)

CoreInv == TypeOK /\ SlotsBelongToLiveTracks /\ StateSlotsAgree

\* The slot read for a track is a slot, held or not.
LEMMA StateSlotOfType ==
  ASSUME TypeOK, NEW id
  PROVE  StateSlotOf(id) \in StateSlot
BY UncertainFrameLimitAssumption DEF TypeOK, StateSlotOf, StateSlot, NoStateSlot

\* The attempts accounted for a track are a number, with or without a slot.
LEMMA AttemptsType ==
  ASSUME TypeOK, NEW id
  PROVE  Attempts(id) \in Nat
BY DEF TypeOK, Attempts, SlotValid, RedetectSlot
\* A step that keeps every track's state and state slot, and adds slots of the
\* other families for live tracks only, keeps the core invariant.
LEMMA SameStates ==
  ASSUME CoreInv,
         DOMAIN tracks' = DOMAIN tracks,
         tracks' \in [DOMAIN tracks -> Track],
         \A id \in DOMAIN tracks : tracks'[id].state = tracks[id].state,
         structure_baselines' \subseteq LiveIds,
         state_slots' = state_slots,
         redetect_slots' \in [DOMAIN redetect_slots' -> RedetectSlot],
         DOMAIN redetect_slots' \subseteq LiveIds,
         tracker_handles' \subseteq LiveIds,
         redetection_records' \in 0 .. MaxRedetectionRecords,
         layout_generation' \in 0 .. MaxGeneration
  PROVE  CoreInv'
<1>1. LiveIds' = LiveIds /\ LiveIds \subseteq TrackIds
  BY DEF CoreInv, TypeOK, LiveIds, Terminated
<1>2. TypeOK'
  BY <1>1 DEF CoreInv, TypeOK
<1>3. SlotsBelongToLiveTracks'
  BY <1>1 DEF CoreInv, SlotsBelongToLiveTracks
<1>4. \A id \in LiveIds : tracks'[id].state = tracks[id].state /\ StateSlotOf(id)' = StateSlotOf(id)
  BY DEF LiveIds, StateSlotOf
<1>5. StateSlotsAgree'
  BY <1>1, <1>4 DEF CoreInv, StateSlotsAgree
<1> QED
  BY <1>2, <1>3, <1>5 DEF CoreInv

\* Archiving a live track releases its slots and leaves the others alone.
LEMMA ArchiveKeepsCore ==
  ASSUME CoreInv, NEW id \in LiveIds, archive_track(id),
         UNCHANGED <<redetection_records, layout_generation>>
  PROVE  CoreInv'
<1>1. /\ id \in DOMAIN tracks
      /\ Archived(tracks[id]) \in Track
      /\ Archived(tracks[id]).state = "kTerminated"
  <2>1. id \in DOMAIN tracks /\ tracks[id] \in Track
    BY DEF LiveIds, CoreInv, TypeOK
  <2>2. <<>> \in Seq(Frames) /\ 0 \in 0 .. MaxPositionHistory
    BY EmptySeq, OptionsAssumption
  <2> QED
    BY <2>1, <2>2 DEF Archived, Track, TrackState
<1>2. /\ DOMAIN tracks' = DOMAIN tracks
      /\ tracks' \in [DOMAIN tracks -> Track]
      /\ tracks'[id].state = "kTerminated"
      /\ \A k \in DOMAIN tracks \ {id} : tracks'[k] = tracks[k]
  BY <1>1 DEF archive_track, CoreInv, TypeOK
<1>3. LiveIds' = LiveIds \ {id}
  BY <1>2 DEF LiveIds, Terminated
<1>4. /\ structure_baselines' = structure_baselines \ {id}
      /\ tracker_handles' = tracker_handles \ {id}
      /\ DOMAIN state_slots' = DOMAIN state_slots \ {id}
      /\ DOMAIN redetect_slots' = DOMAIN redetect_slots \ {id}
      /\ state_slots' \in [DOMAIN state_slots' -> StateSlot]
      /\ redetect_slots' \in [DOMAIN redetect_slots' -> RedetectSlot]
      /\ \A k \in DOMAIN state_slots \ {id} : state_slots'[k] = state_slots[k]
  BY EraseTable DEF archive_track, release_slots, CoreInv, TypeOK
<1>5. TypeOK'
  BY <1>2, <1>4 DEF CoreInv, TypeOK
<1>6. SlotsBelongToLiveTracks'
  BY <1>3, <1>4 DEF CoreInv, SlotsBelongToLiveTracks
<1>7. \A k \in LiveIds \ {id} : tracks'[k] = tracks[k] /\ StateSlotOf(k)' = StateSlotOf(k)
  BY <1>2, <1>4 DEF LiveIds, StateSlotOf
<1>8. StateSlotsAgree'
  BY <1>3, <1>4, <1>7 DEF CoreInv, StateSlotsAgree
<1> QED
  BY <1>5, <1>6, <1>8 DEF CoreInv
-----------------------------------------------------------------------------
(* One lemma per operation that changes a state or a state slot *)

\* Adoption: the victims leave with their slots, the new id has none.
LEMMA AdoptKeepsCore ==
  ASSUME CoreInv, NEW id \in TrackIds, NEW position \in ViewCoordinates,
         NEW text \in RegionTextBytes, NEW frame \in Frames,
         adopt_track(id, position, text, frame)
  PROVE  CoreInv'
<1> DEFINE track == NewTrack(position, text, frame)
<1>1. PICK victims \in SUBSET DOMAIN tracks :
        tracks' = Put(Erase(tracks, victims), id, track) /\ release_slots(victims)
  BY DEF adopt_track
<1>2. /\ id \notin DOMAIN tracks
      /\ UNCHANGED <<redetection_records, layout_generation>>
  BY DEF adopt_track
<1>3. track \in Track /\ track.state = "kTracking"
  <2>1. <<frame>> \in Seq(Frames) /\ <<>> \in Seq(Frames)
    BY EmptySeq
  <2>2. position \in Coordinates /\ 1 \in 0 .. MaxPositionHistory /\ truncate_text(text) \in Nat
    BY CoordinatesAssumption, OptionsAssumption DEF truncate_text, kMaxSemanticsTextBytes
  <2> QED
    BY <2>1, <2>2 DEF NewTrack, Track, TrackState, CoreInv, TypeOK
<1> HIDE DEF track
<1>4. /\ DOMAIN tracks' = (DOMAIN tracks \ victims) \cup {id}
      /\ tracks' \in [DOMAIN tracks' -> Track]
      /\ tracks'[id] = track
      /\ \A k \in DOMAIN tracks \ victims : tracks'[k] = tracks[k]
  <2> DEFINE kept == Erase(tracks, victims)
  <2>1. /\ DOMAIN kept = DOMAIN tracks \ victims
        /\ kept \in [DOMAIN kept -> Track]
        /\ \A k \in DOMAIN tracks \ victims : kept[k] = tracks[k]
    BY EraseTable DEF CoreInv, TypeOK
  <2>2. tracks' = Put(kept, id, track)
    BY <1>1
  <2> HIDE DEF kept
  <2>3. /\ DOMAIN Put(kept, id, track) = DOMAIN kept \cup {id}
        /\ Put(kept, id, track) \in [DOMAIN Put(kept, id, track) -> Track]
        /\ Put(kept, id, track)[id] = track
        /\ \A k \in DOMAIN kept \ {id} : Put(kept, id, track)[k] = kept[k]
    BY <1>3, <2>1 DEF Put
  <2> QED
    BY <1>2, <2>1, <2>2, <2>3
<1>5. LiveIds' = (LiveIds \ victims) \cup {id}
  BY <1>2, <1>3, <1>4 DEF LiveIds, Terminated
<1>6. /\ structure_baselines' = structure_baselines \ victims
      /\ tracker_handles' = tracker_handles \ victims
      /\ DOMAIN state_slots' = DOMAIN state_slots \ victims
      /\ DOMAIN redetect_slots' = DOMAIN redetect_slots \ victims
      /\ state_slots' \in [DOMAIN state_slots' -> StateSlot]
      /\ redetect_slots' \in [DOMAIN redetect_slots' -> RedetectSlot]
      /\ \A k \in DOMAIN state_slots \ victims : state_slots'[k] = state_slots[k]
  BY <1>1, EraseTable DEF release_slots, CoreInv, TypeOK
<1>7. TypeOK'
  BY <1>2, <1>4, <1>6 DEF CoreInv, TypeOK
<1>8. SlotsBelongToLiveTracks'
  BY <1>5, <1>6 DEF CoreInv, SlotsBelongToLiveTracks
<1>9. id \notin DOMAIN state_slots'
  BY <1>2, <1>6 DEF CoreInv, SlotsBelongToLiveTracks, LiveIds
<1>10. \A k \in LiveIds \ victims : tracks'[k] = tracks[k] /\ StateSlotOf(k)' = StateSlotOf(k)
  BY <1>4, <1>6 DEF LiveIds, StateSlotOf
<1>11. tracks'[id].state = "kTracking" /\ StateSlotOf(id)' = NoStateSlot
  BY <1>3, <1>4, <1>9 DEF StateSlotOf
<1>12. StateSlotsAgree'
  BY <1>5, <1>6, <1>10, <1>11 DEF CoreInv, StateSlotsAgree, Agree
<1> QED
  BY <1>7, <1>8, <1>12 DEF CoreInv

\* A live track is in one of the three live states, and its slot agrees.
LEMMA LiveTrackFacts ==
  ASSUME CoreInv, NEW id \in LiveIds
  PROVE  /\ id \in DOMAIN tracks /\ id \in TrackIds
         /\ tracks[id] \in Track
         /\ tracks[id].state \in LiveState
         /\ Agree(tracks[id].state, StateSlotOf(id))
BY DEF CoreInv, TypeOK, StateSlotsAgree, LiveIds, Terminated, LiveState, Track, TrackState

\* The record a commit leaves is a track in the transition's state.
LEMMA CommittedTrackType ==
  ASSUME TypeOK, NEW track \in Track, NEW e \in Evidence, NEW frame \in Frames, NEW plan,
         plan.want_positive => PositiveCapturePolicy,
         plan.want_negative => NegativeCapturePolicy,
         plan.transition.state \in LiveState,
         candidate_window_of(track, e) \in ViewCoordinates
  PROVE  /\ apply_commit_stores(track, plan, e, frame) \in Track
         /\ apply_commit_stores(track, plan, e, frame).state = plan.transition.state
<1> DEFINE positives == IF plan.want_positive
                        THEN DropOldestAppend(track.templates, MaxTemplates, 1, frame)
                        ELSE track.templates
           negatives == IF plan.want_negative
                        THEN DropOldestAppend(track.negative_templates, MaxNegativeTemplates, 0, frame)
                        ELSE track.negative_templates
           position  == IF Confirming(plan.grade)
                        THEN candidate_window_of(track, e) ELSE track.position
           verified  == IF Confirming(plan.grade) THEN frame ELSE track.last_verified_sequence
           generation == IF track.layout_generation > layout_generation
                         THEN track.layout_generation ELSE layout_generation
<1>1. track.templates \in Seq(Frames) /\ track.negative_templates \in Seq(Frames)
  BY DEF Track
<1>2. positives \in Seq(Frames)
  BY <1>1, DropOldestAppendType, MaxTemplatesAssumption, LenProperties DEF PositiveCapturePolicy
<1>3. negatives \in Seq(Frames)
  BY <1>1, DropOldestAppendType, MaxNegativeTemplatesAssumption, LenProperties
     DEF NegativeCapturePolicy
<1>4. /\ position \in Coordinates
      /\ verified \in Frames
      /\ generation \in 0 .. MaxGeneration
      /\ plan.transition.state \in TrackState
  BY CoordinatesAssumption DEF Track, TypeOK, LiveState, TrackState
<1>5. apply_commit_stores(track, plan, e, frame) =
        [track EXCEPT !.templates = positives, !.negative_templates = negatives,
                      !.position = position, !.last_verified_sequence = verified,
                      !.state = plan.transition.state, !.layout_generation = generation]
  BY Zenon DEF apply_commit_stores
<1> HIDE DEF positives, negatives, position, verified, generation
<1> QED
  BY <1>2, <1>3, <1>4, <1>5 DEF Track

\* Committing evidence: the transition decides the state and the slot.
LEMMA CommitKeepsCore ==
  ASSUME CoreInv, NEW id \in TrackIds, NEW e \in Evidence, NEW frame \in Frames,
         commit_track_evidence(id, e, frame)
  PROVE  CoreInv'
<1> DEFINE track == tracks[id]
           plan  == CommitPlan(id, e, frame)
           t     == plan.transition
           slot  == [insufficient_streak |-> t.insufficient_streak,
                     lost_sequence       |-> t.lost_sequence]
           after == apply_commit_stores(track, plan, e, frame)
<1>1. /\ id \in LiveIds
      /\ candidate_window_of(track, e) \in ViewCoordinates
      /\ tracks' = [tracks EXCEPT ![id] = after]
      /\ state_slots' = IF plan.slot_allocation_needed \/ id \in DOMAIN state_slots
                        THEN Put(state_slots, id, slot) ELSE state_slots
      /\ UNCHANGED <<structure_baselines, redetect_slots, tracker_handles,
                     redetection_records, layout_generation>>
  BY DEF commit_track_evidence
<1>2. /\ id \in DOMAIN tracks
      /\ track \in Track
      /\ track.state \in LiveState
      /\ Agree(track.state, StateSlotOf(id))
  BY <1>1, LiveTrackFacts
<1>3. /\ t.state \in LiveState
      /\ slot \in StateSlot
      /\ Agree(t.state, slot)
      /\ t.insufficient_streak = 0 /\ t.lost_sequence = 0 => t.state = "kTracking"
  <2>1. PICK grade : t = track_transition(track.state, grade, StateSlotOf(id), frame)
    BY DEF CommitPlan
  <2>2. StateSlotOf(id) \in StateSlot
    BY StateSlotOfType DEF CoreInv
  <2> HIDE DEF t, plan, track
  <2> QED
    BY <1>2, <2>1, <2>2, TransitionAgrees
<1>4. /\ plan.want_positive => PositiveCapturePolicy
      /\ plan.want_negative => NegativeCapturePolicy
      /\ plan.slot_allocation_needed <=>
           id \notin DOMAIN state_slots /\ (t.insufficient_streak # 0 \/ t.lost_sequence # 0)
  BY DEF CommitPlan
<1>5. after \in Track /\ after.state = t.state
  <2> HIDE DEF plan, track
  <2> QED
    BY <1>1, <1>2, <1>3, <1>4, CommittedTrackType DEF CoreInv
<1> HIDE DEF plan, track, t, after
<1>6. /\ DOMAIN tracks' = DOMAIN tracks
      /\ tracks' \in [DOMAIN tracks -> Track]
      /\ tracks'[id].state = t.state
      /\ \A k \in DOMAIN tracks \ {id} : tracks'[k] = tracks[k]
  BY <1>1, <1>2, <1>5 DEF CoreInv, TypeOK
<1>7. LiveIds' = LiveIds
  BY <1>1, <1>3, <1>6 DEF LiveIds, Terminated, LiveState
<1>8. /\ state_slots' \in [DOMAIN state_slots' -> StateSlot]
      /\ DOMAIN state_slots' \subseteq DOMAIN state_slots \cup {id}
      /\ DOMAIN state_slots \subseteq DOMAIN state_slots'
      /\ \A k \in DOMAIN state_slots \ {id} : state_slots'[k] = state_slots[k]
      /\ StateSlotOf(id)' = slot
      /\ t.state # "kTracking" => id \in DOMAIN state_slots'
  <2> HIDE DEF slot
  <2>1. state_slots \in [DOMAIN state_slots -> StateSlot]
    BY DEF CoreInv, TypeOK
  <2>2. CASE plan.slot_allocation_needed \/ id \in DOMAIN state_slots
    <3>1. state_slots' = Put(state_slots, id, slot)
      BY <1>1, <2>2
    <3> QED
      BY <1>3, <2>1, <3>1 DEF StateSlotOf, Put
  <2>3. CASE ~plan.slot_allocation_needed /\ id \notin DOMAIN state_slots
    <3>1. state_slots' = state_slots
      BY <1>1, <2>3
    <3>2. t.insufficient_streak = 0 /\ t.lost_sequence = 0
      BY <1>4, <2>3
    <3>3. slot = NoStateSlot
      BY <3>2 DEF slot, NoStateSlot
    <3> QED
      BY <1>3, <2>1, <2>3, <3>1, <3>2, <3>3 DEF StateSlotOf
  <2> QED
    BY <2>2, <2>3
<1> HIDE DEF slot
<1>9. TypeOK'
  BY <1>1, <1>6, <1>8 DEF CoreInv, TypeOK
<1>10. SlotsBelongToLiveTracks'
  BY <1>1, <1>7, <1>8 DEF CoreInv, SlotsBelongToLiveTracks
<1>11. \A k \in LiveIds \ {id} : tracks'[k] = tracks[k] /\ StateSlotOf(k)' = StateSlotOf(k)
  BY <1>6, <1>8 DEF LiveIds, StateSlotOf
<1>12. StateSlotsAgree'
  BY <1>3, <1>6, <1>7, <1>8, <1>11 DEF CoreInv, StateSlotsAgree
<1> QED
  BY <1>9, <1>10, <1>12 DEF CoreInv

\* The sweep turns doubtful tracks into lost ones and keeps their streak.
LEMMA SweepKeepsCore ==
  ASSUME CoreInv, NEW frame \in Frames, sweep_generation_lag(frame)
  PROVE  CoreInv'
<1>1. /\ tracks' = [id \in DOMAIN tracks |->
                     IF id \in SweptIds THEN [tracks[id] EXCEPT !.state = "kLost"] ELSE tracks[id]]
      /\ state_slots' = [id \in DOMAIN state_slots \cup SweptIds |->
                           IF id \in SweptIds
                           THEN [StateSlotOf(id) EXCEPT !.lost_sequence = frame]
                           ELSE state_slots[id]]
      /\ UNCHANGED <<structure_baselines, redetect_slots, tracker_handles,
                     redetection_records, layout_generation>>
  BY DEF sweep_generation_lag
<1>2. \A id \in SweptIds : id \in LiveIds /\ id \in DOMAIN tracks /\ tracks[id].state = "kUncertain"
  BY DEF SweptIds, LiveIds, Terminated
<1>3. /\ DOMAIN tracks' = DOMAIN tracks
      /\ tracks' \in [DOMAIN tracks -> Track]
      /\ \A id \in SweptIds : tracks'[id].state = "kLost"
      /\ \A id \in DOMAIN tracks \ SweptIds : tracks'[id] = tracks[id]
  BY <1>1, <1>2 DEF CoreInv, TypeOK, Track, TrackState
<1>4. LiveIds' = LiveIds
  BY <1>2, <1>3 DEF LiveIds, Terminated
<1>5. /\ state_slots' \in [DOMAIN state_slots' -> StateSlot]
      /\ DOMAIN state_slots' = DOMAIN state_slots \cup SweptIds
      /\ \A id \in SweptIds : StateSlotOf(id)'.insufficient_streak = StateSlotOf(id).insufficient_streak
      /\ \A id \in DOMAIN state_slots \ SweptIds : state_slots'[id] = state_slots[id]
  <2>1. \A id : StateSlotOf(id) \in StateSlot
    BY StateSlotOfType DEF CoreInv
  <2>2. state_slots \in [DOMAIN state_slots -> StateSlot]
    BY DEF CoreInv, TypeOK
  <2>3. \A id \in SweptIds : StateSlotOf(id)' = [StateSlotOf(id) EXCEPT !.lost_sequence = frame]
    BY <1>1 DEF StateSlotOf
  <2> QED
    BY <1>1, <2>1, <2>2, <2>3 DEF StateSlot
<1>6. TypeOK'
  BY <1>1, <1>2, <1>3, <1>5 DEF CoreInv, TypeOK
<1>7. SlotsBelongToLiveTracks'
  BY <1>1, <1>2, <1>4, <1>5 DEF CoreInv, SlotsBelongToLiveTracks
<1>8. \A id \in LiveIds \ SweptIds : tracks'[id] = tracks[id] /\ StateSlotOf(id)' = StateSlotOf(id)
  BY <1>3, <1>5 DEF LiveIds, StateSlotOf
<1>9. \A id \in SweptIds : Agree("kLost", StateSlotOf(id)')
  <2>1. \A id \in SweptIds : StateSlotOf(id).insufficient_streak \in 1 .. (UncertainFrameLimit - 1)
    BY <1>2 DEF CoreInv, StateSlotsAgree, Agree
  <2> QED
    BY <1>5, <2>1, UncertainFrameLimitAssumption DEF Agree
<1>10. StateSlotsAgree'
  BY <1>3, <1>4, <1>5, <1>8, <1>9 DEF CoreInv, StateSlotsAgree
<1> QED
  BY <1>6, <1>7, <1>10 DEF CoreInv

\* An accounted failure archives the track or writes its redetection slot.
LEMMA FailureKeepsCore ==
  ASSUME CoreInv, NEW id \in TrackIds, NEW frame \in Frames,
         record_redetection_failure(id, frame)
  PROVE  CoreInv'
<1> DEFINE failures == Attempts(id) + 1
           slot == [episode_lost_sequence |-> StateSlotOf(id).lost_sequence,
                    next_attempt_sequence |->
                      saturating_sequence_add(frame, redetection_backoff_wait[failures]),
                    consecutive_failures  |-> failures]
<1>1. id \in LiveIds /\ UNCHANGED <<redetection_records, layout_generation>>
  BY DEF record_redetection_failure
<1>2. CASE Exhausted(failures) /\ archive_track(id)
  BY <1>1, <1>2, ArchiveKeepsCore
<1>3. CASE /\ ~Exhausted(failures)
           /\ redetect_slots' = Put(redetect_slots, id, slot)
           /\ UNCHANGED <<tracks, structure_baselines, state_slots, tracker_handles>>
  <2>1. slot \in RedetectSlot
    <3>1. failures \in 1 .. (RedetectMaxAttempts - 1)
      BY <1>3, AttemptsType, OptionsAssumption DEF Exhausted, CoreInv
    <3>2. StateSlotOf(id).lost_sequence \in Frames \cup {0}
      BY StateSlotOfType DEF CoreInv, StateSlot
    <3>3. saturating_sequence_add(frame, redetection_backoff_wait[failures]) \in 0 .. MaxSequence
      BY FramesAssumption DEF saturating_sequence_add
    <3> QED
      BY <3>1, <3>2, <3>3 DEF RedetectSlot
  <2> HIDE DEF slot
  <2>2. /\ redetect_slots' \in [DOMAIN redetect_slots' -> RedetectSlot]
        /\ DOMAIN redetect_slots' = DOMAIN redetect_slots \cup {id}
    BY <1>3, <2>1 DEF CoreInv, TypeOK, Put
  <2> QED
    BY <1>1, <1>3, <2>2, SameStates DEF CoreInv, TypeOK, SlotsBelongToLiveTracks
<1> QED
  BY <1>2, <1>3 DEF record_redetection_failure

\* The operations that change one field of one live track.
LEMMA FieldStepKeepsCore ==
  ASSUME CoreInv, NEW id \in LiveIds, NEW track \in Track,
         track.state = tracks[id].state,
         tracks' = [tracks EXCEPT ![id] = track],
         UNCHANGED <<slotVars, redetection_records, layout_generation>>
  PROVE  CoreInv'
<1>1. /\ DOMAIN tracks' = DOMAIN tracks
      /\ tracks' \in [DOMAIN tracks -> Track]
      /\ \A k \in DOMAIN tracks : tracks'[k].state = tracks[k].state
  BY DEF CoreInv, TypeOK
<1> QED
  BY <1>1, SameStates DEF slotVars, CoreInv, TypeOK, SlotsBelongToLiveTracks

\* Recording an observation only lengthens the position history.
LEMMA ObservationKeepsCore ==
  ASSUME CoreInv, NEW id \in TrackIds, record_observation(id)
  PROVE  CoreInv'
<1> DEFINE history == IF tracks[id].position_history >= MaxPositionHistory
                      THEN tracks[id].position_history ELSE tracks[id].position_history + 1
           track   == [tracks[id] EXCEPT !.position_history = history]
<1>1. /\ id \in LiveIds
      /\ tracks' = [tracks EXCEPT ![id] = track]
      /\ UNCHANGED <<slotVars, redetection_records, layout_generation>>
  BY DEF record_observation
<1>2. tracks[id] \in Track /\ tracks[id].position_history \in 0 .. MaxPositionHistory
  BY <1>1, LiveTrackFacts DEF Track
<1>3. history \in 0 .. MaxPositionHistory
  BY <1>2, OptionsAssumption
<1> HIDE DEF history
<1>4. track \in Track /\ track.state = tracks[id].state
  BY <1>2, <1>3 DEF Track
<1> HIDE DEF track
<1> QED
  BY <1>1, <1>4, FieldStepKeepsCore

\* Storing a template keeps the appearance set typed.
LEMMA AddTemplateKeepsCore ==
  ASSUME CoreInv, NEW id \in TrackIds, NEW frame \in Frames, add_template(id, frame)
  PROVE  CoreInv'
<1> DEFINE set   == DropOldestAppend(tracks[id].templates, MaxTemplates, 1, frame)
           track == [tracks[id] EXCEPT !.templates = set]
<1>1. /\ id \in LiveIds
      /\ tracks' = [tracks EXCEPT ![id] = track]
      /\ Len(tracks[id].templates) >= MaxTemplates => Len(tracks[id].templates) > 1
      /\ UNCHANGED <<slotVars, redetection_records, layout_generation>>
  BY DEF add_template, CanStore
<1>2. tracks[id] \in Track /\ tracks[id].templates \in Seq(Frames)
  BY <1>1, LiveTrackFacts DEF Track
<1>3. set \in Seq(Frames)
  BY <1>1, <1>2, DropOldestAppendType, MaxTemplatesAssumption
<1> HIDE DEF set
<1>4. track \in Track /\ track.state = tracks[id].state
  BY <1>2, <1>3 DEF Track
<1> HIDE DEF track
<1> QED
  BY <1>1, <1>4, FieldStepKeepsCore

\* Storing an impostor keeps the negative set typed.
LEMMA AddNegativeTemplateKeepsCore ==
  ASSUME CoreInv, NEW id \in TrackIds, NEW frame \in Frames, add_negative_template(id, frame)
  PROVE  CoreInv'
<1> DEFINE set   == DropOldestAppend(tracks[id].negative_templates, MaxNegativeTemplates, 0, frame)
           track == [tracks[id] EXCEPT !.negative_templates = set]
<1>1. /\ id \in LiveIds
      /\ MaxNegativeTemplates # 0
      /\ tracks' = [tracks EXCEPT ![id] = track]
      /\ Len(tracks[id].negative_templates) >= MaxNegativeTemplates
           => Len(tracks[id].negative_templates) > 0
      /\ UNCHANGED <<slotVars, redetection_records, layout_generation>>
  BY DEF add_negative_template, CanStore
<1>2. tracks[id] \in Track /\ tracks[id].negative_templates \in Seq(Frames)
  BY <1>1, LiveTrackFacts DEF Track
<1>3. set \in Seq(Frames)
  BY <1>1, <1>2, DropOldestAppendType, MaxNegativeTemplatesAssumption
<1> HIDE DEF set
<1>4. track \in Track /\ track.state = tracks[id].state
  BY <1>2, <1>3 DEF Track
<1> HIDE DEF track
<1> QED
  BY <1>1, <1>4, FieldStepKeepsCore

\* A global translation moves live tracks within the finite coordinates.
LEMMA CompensateKeepsCore ==
  ASSUME CoreInv, NEW dx \in Shifts, compensate_global_motion(dx)
  PROVE  CoreInv'
<1>1. /\ DOMAIN tracks' = DOMAIN tracks
      /\ tracks' \in [DOMAIN tracks -> Track]
      /\ \A id \in DOMAIN tracks : tracks'[id].state = tracks[id].state
  BY DEF compensate_global_motion, CoreInv, TypeOK, Track, LiveIds
<1>2. UNCHANGED <<slotVars, redetection_records, layout_generation>>
  BY DEF compensate_global_motion
<1> QED
  BY <1>1, <1>2, SameStates DEF slotVars, CoreInv, TypeOK, SlotsBelongToLiveTracks
-----------------------------------------------------------------------------
(* The core invariant is inductive *)

\* A pool without tracks and slots satisfies the core invariant.
LEMMA EmptyPoolIsCore ==
  ASSUME tracks = <<>>, structure_baselines = {}, state_slots = <<>>, redetect_slots = <<>>,
         tracker_handles = {}, redetection_records = 0, layout_generation = 0
  PROVE  CoreInv
<1>1. LiveIds = {}
  BY DEF LiveIds
<1> QED
  BY <1>1, OptionsAssumption DEF CoreInv, TypeOK, SlotsBelongToLiveTracks, StateSlotsAgree

\* The initial pool is empty.
LEMMA InitIsCore ==
  Init => CoreInv
BY EmptyPoolIsCore DEF Init

\* Every operation keeps the core invariant.
LEMMA NextKeepsCore ==
  CoreInv /\ [Next]_vars => CoreInv'
<1> SUFFICES ASSUME CoreInv, [Next]_vars PROVE CoreInv'
  OBVIOUS
<1> USE DEF slotVars
<1>1. ASSUME NEW id \in TrackIds, NEW position \in ViewCoordinates, NEW text \in RegionTextBytes,
             NEW frame \in Frames, adopt_track(id, position, text, frame)
      PROVE  CoreInv'
  BY <1>1, AdoptKeepsCore
<1>2. ASSUME NEW id \in TrackIds, terminate(id)
      PROVE  CoreInv'
  BY <1>2, ArchiveKeepsCore DEF terminate
<1>3. ASSUME NEW id \in TrackIds, record_observation(id)
      PROVE  CoreInv'
  BY <1>3, ObservationKeepsCore
<1>4. ASSUME NEW id \in TrackIds, NEW frame \in Frames, add_template(id, frame)
      PROVE  CoreInv'
  BY <1>4, AddTemplateKeepsCore
<1>5. ASSUME NEW id \in TrackIds, NEW frame \in Frames, add_negative_template(id, frame)
      PROVE  CoreInv'
  BY <1>5, AddNegativeTemplateKeepsCore
<1>6. ASSUME advance_layout_generation
      PROVE  CoreInv'
  BY <1>6, SameStates, OptionsAssumption
     DEF advance_layout_generation, CoreInv, TypeOK, SlotsBelongToLiveTracks
<1>7. ASSUME NEW id \in TrackIds, record_structure_baseline(id)
      PROVE  CoreInv'
  BY <1>7, SameStates DEF record_structure_baseline, CoreInv, TypeOK, SlotsBelongToLiveTracks
<1>8. ASSUME NEW id \in TrackIds, NEW e \in Evidence, NEW frame \in Frames,
             commit_track_evidence(id, e, frame)
      PROVE  CoreInv'
  BY <1>8, CommitKeepsCore
<1>9. ASSUME NEW id \in TrackIds, attach_tracker_session(id)
      PROVE  CoreInv'
  BY <1>9, SameStates DEF attach_tracker_session, CoreInv, TypeOK, SlotsBelongToLiveTracks
<1>10. ASSUME NEW id \in TrackIds, detach_tracker_session(id)
       PROVE  CoreInv'
  BY <1>10, SameStates DEF detach_tracker_session, CoreInv, TypeOK, SlotsBelongToLiveTracks
<1>11. ASSUME NEW dx \in Shifts, compensate_global_motion(dx)
       PROVE  CoreInv'
  BY <1>11, CompensateKeepsCore
<1>12. ASSUME NEW frame \in Frames, sweep_generation_lag(frame)
       PROVE  CoreInv'
  BY <1>12, SweepKeepsCore
<1>13. ASSUME NEW id \in TrackIds, NEW frame \in Frames, record_redetection_failure(id, frame)
       PROVE  CoreInv'
  BY <1>13, FailureKeepsCore
<1>14. ASSUME NEW id \in TrackIds, record_redetection_recapture(id)
       PROVE  CoreInv'
  <2>1. redetection_records' \in 0 .. MaxRedetectionRecords
    BY <1>14, OptionsAssumption
       DEF record_redetection_recapture, append_redetection_record, CoreInv, TypeOK
  <2>2. /\ redetect_slots' \in [DOMAIN redetect_slots' -> RedetectSlot]
        /\ DOMAIN redetect_slots' \subseteq DOMAIN redetect_slots
    BY <1>14 DEF record_redetection_recapture, CoreInv, TypeOK, Erase, Restrict
  <2> QED
    BY <1>14, <2>1, <2>2, SameStates
       DEF record_redetection_recapture, CoreInv, TypeOK, SlotsBelongToLiveTracks
<1>15. ASSUME NEW p \in TrackIds, NEW s \in TrackIds, record_redetection_association(p, s)
       PROVE  CoreInv'
  <2>1. redetection_records' \in 0 .. MaxRedetectionRecords
    BY <1>15, OptionsAssumption
       DEF record_redetection_association, append_redetection_record, CoreInv, TypeOK
  <2> QED
    BY <1>15, <2>1, SameStates
       DEF record_redetection_association, CoreInv, TypeOK, SlotsBelongToLiveTracks
<1>16. ASSUME reset
       PROVE  CoreInv'
  <2>1. LiveIds' = {}
    BY <1>16 DEF reset, LiveIds
  <2> QED
    BY <1>16, <2>1, OptionsAssumption
       DEF reset, CoreInv, TypeOK, SlotsBelongToLiveTracks, StateSlotsAgree
<1>17. CASE UNCHANGED vars
  BY <1>17, SameStates DEF vars, CoreInv, TypeOK, SlotsBelongToLiveTracks
<1> QED
  BY <1>1, <1>2, <1>3, <1>4, <1>5, <1>6, <1>7, <1>8, <1>9, <1>10, <1>11, <1>12, <1>13,
     <1>14, <1>15, <1>16, <1>17 DEF Next

\* The inductive invariant: types, slot ownership and slot agreement need each
\* other, so they are proved together.
THEOREM CoreInvariant ==
  Spec => []CoreInv
BY InitIsCore, NextKeepsCore, PTL DEF Spec

\* Every table and counter keeps its type and range; in particular no lost
\* track ever has its attempts used up.
THEOREM TypeCorrect ==
  Spec => []TypeOK
BY CoreInvariant, PTL DEF CoreInv

\* No pool-side slot outlives its track, whatever mixture of eviction,
\* termination, exhaustion and reset removed it.
THEOREM NoOrphanSlot ==
  Spec => []SlotsBelongToLiveTracks
BY CoreInvariant, PTL DEF CoreInv

\* The lazily allocated state slot agrees with the track's state.
THEOREM SlotsAgreeWithStates ==
  Spec => []StateSlotsAgree
BY CoreInvariant, PTL DEF CoreInv
-----------------------------------------------------------------------------
(* The pool implements the lifecycle of each identity *)

\* A live track's state is its phase and its slot's streak its doubt.
LEMMA PhaseOfTrack ==
  ASSUME CoreInv, NEW id \in TrackIds
  PROVE  /\ id \in DOMAIN tracks => phase[id] = tracks[id].state
         /\ id \notin DOMAIN tracks => phase[id] = "kAbsent" /\ doubt[id] = 0
         /\ doubt[id] = StateSlotOf(id).insufficient_streak
         /\ phase[id] = "kAbsent" <=> id \notin DOMAIN tracks
BY DEF phase, doubt, CoreInv, TypeOK, Track, TrackState, SlotsBelongToLiveTracks, LiveIds,
       StateSlotOf, NoStateSlot

\* A step that keeps the ids, the states and the streaks stutters.
LEMMA SameStatesStutter ==
  ASSUME DOMAIN tracks' = DOMAIN tracks,
         \A id \in DOMAIN tracks : tracks'[id].state = tracks[id].state,
         state_slots' = state_slots
  PROVE  UNCHANGED <<phase, doubt>>
BY DEF phase, doubt, StateSlotOf
\* Adoption: the new id starts confirmed, the victims become absent, and the
\* eviction order takes every archive before the first live track.
LEMMA AdoptRefines ==
  ASSUME CoreInv, CoreInv', NEW id \in TrackIds, NEW position \in ViewCoordinates,
         NEW text \in RegionTextBytes, NEW frame \in Frames,
         adopt_track(id, position, text, frame)
  PROVE  Lifecycle!Next
<1>1. PICK victims \in SUBSET DOMAIN tracks :
        /\ EvictionPrefix(victims)
        /\ tracks' = Put(Erase(tracks, victims), id, NewTrack(position, text, frame))
        /\ release_slots(victims)
  BY DEF adopt_track, plan_eviction
<1>2. id \notin DOMAIN tracks /\ victims \subseteq TrackIds /\ DOMAIN tracks \subseteq TrackIds
  BY DEF adopt_track, CoreInv, TypeOK
<1>3. /\ DOMAIN tracks' = (DOMAIN tracks \ victims) \cup {id}
      /\ tracks'[id].state = "kTracking"
      /\ \A k \in DOMAIN tracks \ victims : tracks'[k] = tracks[k]
  BY <1>1, <1>2 DEF Put, Erase, Restrict, NewTrack
<1>4. /\ DOMAIN state_slots' = DOMAIN state_slots \ victims
      /\ \A k \in DOMAIN state_slots \ victims : state_slots'[k] = state_slots[k]
      /\ id \notin DOMAIN state_slots
  BY <1>1, <1>2 DEF release_slots, Erase, Restrict, CoreInv, SlotsBelongToLiveTracks, LiveIds
<1>5. phase[id] = "kAbsent" /\ \A k \in victims : phase[k] # "kAbsent"
  BY <1>2, PhaseOfTrack
<1>6. ASSUME NEW v \in victims, phase[v] \in Lifecycle!Live,
             NEW k \in TrackIds, phase[k] = "kTerminated"
      PROVE  k \in victims
  <2>1. /\ k \in DOMAIN tracks /\ Terminated(k)
        /\ v \in DOMAIN tracks /\ ~Terminated(v)
    BY <1>2, <1>6, PhaseOfTrack DEF Terminated, Lifecycle!Live
  <2>2. evicts_before(k, v)
    BY <2>1 DEF evicts_before
  <2> QED
    BY <1>1, <2>1, <2>2 DEF EvictionPrefix
<1>7. phase' = Lifecycle!In({id}, "kTracking", Lifecycle!In(victims, "kAbsent", phase))
  BY <1>2, <1>3 DEF phase, Lifecycle!In
<1>8. doubt' = Lifecycle!In({id} \cup victims, 0, doubt)
  BY <1>2, <1>4 DEF doubt, StateSlotOf, NoStateSlot, Lifecycle!In
<1>9. Lifecycle!Adopt(id, victims)
  BY <1>5, <1>6, <1>7, <1>8 DEF Lifecycle!Adopt
<1> QED
  BY <1>2, <1>9 DEF Lifecycle!Next

\* Termination and exhaustion archive a live track and clear its doubt.
LEMMA ArchiveRefines ==
  ASSUME CoreInv, NEW id \in LiveIds, archive_track(id)
  PROVE  Lifecycle!Next
<1>1. /\ id \in DOMAIN tracks /\ id \in TrackIds
      /\ tracks[id].state \in LiveState
  BY LiveTrackFacts
<1>2. /\ DOMAIN tracks' = DOMAIN tracks
      /\ tracks'[id].state = "kTerminated"
      /\ \A k \in DOMAIN tracks \ {id} : tracks'[k] = tracks[k]
  <2>1. tracks' = [tracks EXCEPT ![id] = Archived(tracks[id])]
    BY DEF archive_track
  <2>2. Archived(tracks[id]).state = "kTerminated"
    BY LiveTrackFacts DEF Archived, Track
  <2> QED
    BY <1>1, <2>1, <2>2 DEF CoreInv, TypeOK
<1>3. /\ DOMAIN state_slots' = DOMAIN state_slots \ {id}
      /\ \A k \in DOMAIN state_slots \ {id} : state_slots'[k] = state_slots[k]
  BY DEF archive_track, release_slots, Erase, Restrict
<1>4. phase[id] \in Lifecycle!Live
  BY <1>1, PhaseOfTrack DEF LiveState, Lifecycle!Live
<1>5. phase' = Lifecycle!In({id}, "kTerminated", phase)
  BY <1>1, <1>2 DEF phase, Lifecycle!In
<1>6. doubt' = Lifecycle!In({id}, 0, doubt)
  BY <1>3 DEF doubt, StateSlotOf, NoStateSlot, Lifecycle!In
<1> QED
  BY <1>1, <1>4, <1>5, <1>6 DEF Lifecycle!Archive, Lifecycle!Next

\* A confirmation, one more doubt, or a lost track that stays lost.
LEMMA CommitRefines ==
  ASSUME CoreInv, CoreInv', NEW id \in TrackIds, NEW e \in Evidence, NEW frame \in Frames,
         commit_track_evidence(id, e, frame)
  PROVE  Lifecycle!Next \/ UNCHANGED <<phase, doubt>>
<1> DEFINE plan  == CommitPlan(id, e, frame)
           t     == plan.transition
           slot  == [insufficient_streak |-> t.insufficient_streak,
                     lost_sequence       |-> t.lost_sequence]
           after == apply_commit_stores(tracks[id], plan, e, frame)
<1>1. /\ id \in LiveIds
      /\ tracks' = [tracks EXCEPT ![id] = after]
      /\ state_slots' = IF plan.slot_allocation_needed \/ id \in DOMAIN state_slots
                        THEN Put(state_slots, id, slot) ELSE state_slots
  BY DEF commit_track_evidence
<1>2. /\ id \in DOMAIN tracks /\ tracks[id] \in Track
      /\ tracks[id].state \in LiveState
      /\ Agree(tracks[id].state, StateSlotOf(id))
      /\ StateSlotOf(id) \in StateSlot
  BY <1>1, LiveTrackFacts, StateSlotOfType DEF CoreInv
<1>3. PICK grade : t = track_transition(tracks[id].state, grade, StateSlotOf(id), frame)
  BY DEF CommitPlan
<1>4. plan.slot_allocation_needed <=>
        id \notin DOMAIN state_slots /\ (t.insufficient_streak # 0 \/ t.lost_sequence # 0)
  BY DEF CommitPlan
<1>5. after.state = t.state
  BY <1>2 DEF apply_commit_stores, Track
<1> HIDE DEF t, plan, after
<1>6. /\ DOMAIN tracks' = DOMAIN tracks
      /\ tracks'[id].state = t.state
      /\ \A k \in DOMAIN tracks \ {id} : tracks'[k] = tracks[k]
  BY <1>1, <1>2, <1>5 DEF CoreInv, TypeOK
<1>7. /\ \A k \in TrackIds \ {id} : StateSlotOf(k)' = StateSlotOf(k)
      /\ StateSlotOf(id)'.insufficient_streak = t.insufficient_streak
  <2>1. CASE plan.slot_allocation_needed \/ id \in DOMAIN state_slots
    BY <1>1, <2>1 DEF StateSlotOf, Put
  <2>2. CASE ~plan.slot_allocation_needed /\ id \notin DOMAIN state_slots
    BY <1>1, <1>4, <2>2 DEF StateSlotOf, NoStateSlot
  <2> QED
    BY <2>1, <2>2
<1>8. phase' = Lifecycle!In({id}, t.state, phase)
  BY <1>2, <1>6 DEF phase, Lifecycle!In
<1>9. doubt' = Lifecycle!In({id}, t.insufficient_streak, doubt)
  BY <1>7 DEF doubt, Lifecycle!In
<1>10. phase[id] = tracks[id].state /\ doubt[id] = StateSlotOf(id).insufficient_streak
  BY <1>2, PhaseOfTrack
<1>11. CASE Confirming(grade)
  <2>1. t.state = "kTracking" /\ t.insufficient_streak = 0
    BY <1>3, <1>11 DEF track_transition, limit_reached
  <2> QED
    BY <1>2, <1>8, <1>9, <1>10, <2>1 DEF LiveState, Lifecycle!Live, Lifecycle!Confirm, Lifecycle!Next
<1>12. CASE ~Confirming(grade) /\ tracks[id].state = "kLost"
  <2>1. t.state = phase[id] /\ t.insufficient_streak = doubt[id]
    BY <1>3, <1>10, <1>12 DEF track_transition, limit_reached
  <2> QED
    BY <1>8, <1>9, <2>1 DEF phase, doubt, Lifecycle!In
<1>13. CASE ~Confirming(grade) /\ tracks[id].state # "kLost"
  <2>1. /\ t.insufficient_streak = doubt[id] + 1
        /\ t.state = IF doubt[id] + 1 >= UncertainFrameLimit THEN "kLost" ELSE "kUncertain"
    BY <1>3, <1>10, <1>13 DEF track_transition, limit_reached
  <2>2. phase[id] \in {"kTracking", "kUncertain"}
    BY <1>2, <1>10, <1>13 DEF LiveState
  <2>3. Lifecycle!Doubt(id)
    BY <1>8, <1>9, <2>1, <2>2 DEF Lifecycle!Doubt
  <2> QED
    BY <2>3 DEF Lifecycle!Next
<1> QED
  BY <1>11, <1>12, <1>13

\* The sweep abandons exactly the doubtful tracks it finds lagging.
LEMMA SweepRefines ==
  ASSUME CoreInv, NEW frame \in Frames, sweep_generation_lag(frame)
  PROVE  Lifecycle!Next
<1>1. /\ SweptIds \subseteq DOMAIN tracks
      /\ SweptIds \subseteq TrackIds
      /\ \A id \in SweptIds : tracks[id] \in Track /\ tracks[id].state = "kUncertain"
  BY DEF SweptIds, CoreInv, TypeOK
<1>2. /\ DOMAIN tracks' = DOMAIN tracks
      /\ \A id \in SweptIds : tracks'[id].state = "kLost"
      /\ \A id \in DOMAIN tracks \ SweptIds : tracks'[id] = tracks[id]
  BY <1>1 DEF sweep_generation_lag, Track
<1>3. \A id \in TrackIds : StateSlotOf(id)'.insufficient_streak = StateSlotOf(id).insufficient_streak
  <2>1. \A id : StateSlotOf(id) \in StateSlot
    BY StateSlotOfType DEF CoreInv
  <2> QED
    BY <2>1 DEF sweep_generation_lag, StateSlotOf, StateSlot
<1>4. \A id \in SweptIds : phase[id] = "kUncertain"
  BY <1>1, PhaseOfTrack
<1>5. phase' = Lifecycle!In(SweptIds, "kLost", phase)
  BY <1>1, <1>2 DEF phase, Lifecycle!In
<1>6. doubt' = doubt
  BY <1>3 DEF doubt
<1>7. Lifecycle!Abandon(SweptIds)
  BY <1>4, <1>5, <1>6 DEF Lifecycle!Abandon
<1> QED
  BY <1>1, <1>7 DEF Lifecycle!Next
\* The empty pool is the lifecycle in which no id has been adopted.
LEMMA InitRefines ==
  Init => Lifecycle!Init
BY DEF Init, phase, doubt, StateSlotOf, NoStateSlot, Lifecycle!Init

\* Every operation of the pool is a lifecycle step of one identity, of the
\* swept ones or of all, or changes nothing the lifecycle can see.
LEMMA NextRefines ==
  ASSUME CoreInv, CoreInv', [Next]_vars
  PROVE  [Lifecycle!Next]_(Lifecycle!vars)
<1> USE DEF Lifecycle!vars
<1>1. ASSUME NEW id \in TrackIds, NEW position \in ViewCoordinates,
             NEW text \in RegionTextBytes, NEW frame \in Frames,
             adopt_track(id, position, text, frame)
      PROVE  Lifecycle!Next
  BY <1>1, AdoptRefines
<1>2. ASSUME NEW id \in TrackIds, terminate(id)
      PROVE  Lifecycle!Next
  BY <1>2, ArchiveRefines DEF terminate
<1>3. ASSUME NEW id \in TrackIds,
             \/ record_observation(id)
             \/ \E frame \in Frames : add_template(id, frame) \/ add_negative_template(id, frame)
      PROVE  UNCHANGED <<phase, doubt>>
  <2>1. state_slots' = state_slots
    BY <1>3 DEF record_observation, add_template, add_negative_template, slotVars
  <2>2. id \in LiveIds /\ tracks[id] \in Track /\ id \in DOMAIN tracks
    BY <1>3, LiveTrackFacts DEF record_observation, add_template, add_negative_template
  <2>3. \E track : tracks' = [tracks EXCEPT ![id] = track] /\ track.state = tracks[id].state
    BY <1>3, <2>2 DEF record_observation, add_template, add_negative_template, Track
  <2>4. DOMAIN tracks' = DOMAIN tracks /\ \A k \in DOMAIN tracks : tracks'[k].state = tracks[k].state
    BY <2>2, <2>3 DEF CoreInv, TypeOK
  <2> QED
    BY <2>1, <2>4, SameStatesStutter
<1>4. ASSUME NEW id \in TrackIds, NEW e \in Evidence, NEW frame \in Frames,
             commit_track_evidence(id, e, frame)
      PROVE  Lifecycle!Next \/ UNCHANGED <<phase, doubt>>
  BY <1>4, CommitRefines
<1>5. ASSUME NEW dx \in Shifts, compensate_global_motion(dx)
      PROVE  UNCHANGED <<phase, doubt>>
  <2>1. \A id \in DOMAIN tracks : tracks[id] \in Track
    BY DEF CoreInv, TypeOK
  <2>2. /\ DOMAIN tracks' = DOMAIN tracks
        /\ \A id \in DOMAIN tracks : tracks'[id].state = tracks[id].state
    BY <1>5, <2>1 DEF compensate_global_motion, Track
  <2> QED
    BY <1>5, <2>2, SameStatesStutter DEF compensate_global_motion, slotVars
<1>6. ASSUME NEW frame \in Frames, sweep_generation_lag(frame)
      PROVE  Lifecycle!Next
  BY <1>6, SweepRefines
<1>7. ASSUME NEW id \in TrackIds, NEW frame \in Frames, record_redetection_failure(id, frame)
      PROVE  Lifecycle!Next \/ UNCHANGED <<phase, doubt>>
  <2>1. id \in LiveIds
    BY <1>7 DEF record_redetection_failure
  <2>2. archive_track(id) \/ (tracks' = tracks /\ state_slots' = state_slots)
    BY <1>7 DEF record_redetection_failure
  <2> QED
    BY <2>1, <2>2, ArchiveRefines, SameStatesStutter
<1>8. ASSUME \/ advance_layout_generation
             \/ \E id \in TrackIds : \/ record_structure_baseline(id)
                                     \/ attach_tracker_session(id)
                                     \/ detach_tracker_session(id)
                                     \/ record_redetection_recapture(id)
             \/ \E p \in TrackIds, s \in TrackIds : record_redetection_association(p, s)
             \/ UNCHANGED vars
      PROVE  UNCHANGED <<phase, doubt>>
  <2>1. tracks' = tracks /\ state_slots' = state_slots
    BY <1>8 DEF advance_layout_generation, record_structure_baseline, attach_tracker_session,
                detach_tracker_session, record_redetection_recapture,
                record_redetection_association, vars, slotVars
  <2> QED
    BY <2>1, SameStatesStutter
<1>9. ASSUME reset
      PROVE  Lifecycle!Next
  <2>1. Lifecycle!Forget
    BY <1>9 DEF reset, phase, doubt, StateSlotOf, NoStateSlot, Lifecycle!Forget
  <2> QED
    BY <2>1 DEF Lifecycle!Next
<1> QED
  BY <1>1, <1>2, <1>3, <1>4, <1>5, <1>6, <1>7, <1>8, <1>9 DEF Next

\* The pool, with its records, its lazily allocated slots and its budget,
\* implements the lifecycle of each identity: adoption confirms, doubts are
\* counted one by one, loss is left by a confirmation or an end only.
THEOREM PoolImplementsLifecycle ==
  Spec => ImplementsLifecycle
<1>1. CoreInv /\ CoreInv' /\ [Next]_vars => [Lifecycle!Next]_(Lifecycle!vars)
  BY NextRefines
<1> QED
  BY <1>1, InitRefines, CoreInvariant, PTL DEF Spec, ImplementsLifecycle, Lifecycle!Spec

-----------------------------------------------------------------------------
(* What the operations leave alone *)

\* A step that drops no track and touches no generation, template or position
\* of a track it leaves alive.
Quiet ==
  /\ DOMAIN tracks' = DOMAIN tracks
  /\ LiveIds' \subseteq LiveIds
  /\ layout_generation <= layout_generation'
  /\ \A id \in DOMAIN tracks : tracks'[id].layout_generation = tracks[id].layout_generation
  /\ \A id \in LiveIds' : /\ tracks'[id].templates = tracks[id].templates
                          /\ tracks'[id].position = tracks[id].position

\* A step that keeps the tracks is quiet.
LEMMA KeptTracksAreQuiet ==
  ASSUME CoreInv, UNCHANGED tracks,
         layout_generation' \in {layout_generation, layout_generation + 1}
  PROVE  Quiet
<1>1. layout_generation \in Nat
  BY OptionsAssumption DEF CoreInv, TypeOK
<1> QED
  BY <1>1 DEF Quiet, LiveIds, Terminated

\* Archiving a track leaves its generation, and every other track, alone.
LEMMA ArchiveIsQuiet ==
  ASSUME CoreInv, NEW id \in LiveIds, archive_track(id), UNCHANGED layout_generation
  PROVE  Quiet
<1> DEFINE archive == Archived(tracks[id])
<1>1. /\ id \in DOMAIN tracks
      /\ tracks[id] \in Track
      /\ tracks' = [tracks EXCEPT ![id] = archive]
      /\ layout_generation \in Nat
  BY LiveTrackFacts, OptionsAssumption DEF archive_track, CoreInv, TypeOK
<1>2. archive.state = "kTerminated" /\ archive.layout_generation = tracks[id].layout_generation
  BY <1>1 DEF Archived, Track
<1> HIDE DEF archive
<1>3. /\ DOMAIN tracks' = DOMAIN tracks
      /\ tracks'[id] = archive
      /\ \A k \in DOMAIN tracks \ {id} : tracks'[k] = tracks[k]
  BY <1>1
<1>4. LiveIds' = LiveIds \ {id}
  BY <1>1, <1>2, <1>3 DEF LiveIds, Terminated
<1> QED
  BY <1>1, <1>2, <1>3, <1>4 DEF Quiet, LiveIds

\* So is a step that changes a live track in another field.
LEMMA FieldStepIsQuiet ==
  ASSUME CoreInv, NEW id \in LiveIds, NEW track,
         track.state = tracks[id].state,
         track.layout_generation = tracks[id].layout_generation,
         track.templates = tracks[id].templates,
         track.position = tracks[id].position,
         tracks' = [tracks EXCEPT ![id] = track],
         UNCHANGED layout_generation
  PROVE  Quiet
<1>1. /\ DOMAIN tracks' = DOMAIN tracks
      /\ tracks'[id] = track
      /\ \A k \in DOMAIN tracks \ {id} : tracks'[k] = tracks[k]
      /\ layout_generation \in Nat
  BY OptionsAssumption DEF LiveIds, CoreInv, TypeOK
<1>2. LiveIds' = LiveIds
  BY <1>1 DEF LiveIds, Terminated
<1> QED
  BY <1>1, <1>2 DEF Quiet, LiveIds

\* The sweep changes states only.
LEMMA SweepIsQuiet ==
  ASSUME CoreInv, NEW frame \in Frames, sweep_generation_lag(frame)
  PROVE  Quiet
<1>1. /\ tracks' = [id \in DOMAIN tracks |->
                     IF id \in SweptIds THEN [tracks[id] EXCEPT !.state = "kLost"] ELSE tracks[id]]
      /\ layout_generation' = layout_generation
      /\ layout_generation \in Nat
      /\ \A id \in DOMAIN tracks : tracks[id] \in Track
  BY OptionsAssumption DEF sweep_generation_lag, CoreInv, TypeOK
<1>2. \A id \in DOMAIN tracks :
        /\ tracks'[id].layout_generation = tracks[id].layout_generation
        /\ tracks'[id].templates = tracks[id].templates
        /\ tracks'[id].position = tracks[id].position
        /\ tracks'[id].state = "kTerminated" <=> tracks[id].state = "kTerminated"
  BY <1>1 DEF SweptIds, Track
<1>3. DOMAIN tracks' = DOMAIN tracks
  BY <1>1
<1>4. LiveIds' = LiveIds
  BY <1>2, <1>3 DEF LiveIds, Terminated
<1> QED
  BY <1>1, <1>2, <1>3, <1>4 DEF Quiet, LiveIds

\* Every step is quiet or one of the five that are not.
LEMMA LoudSteps ==
  ASSUME CoreInv, [Next]_vars
  PROVE  \/ Quiet
         \/ \E id \in TrackIds, position \in ViewCoordinates, text \in RegionTextBytes, frame \in Frames :
              adopt_track(id, position, text, frame)
         \/ \E id \in TrackIds, frame \in Frames : add_template(id, frame)
         \/ \E id \in TrackIds, e \in Evidence, frame \in Frames : commit_track_evidence(id, e, frame)
         \/ \E dx \in Shifts : compensate_global_motion(dx)
         \/ reset
<1>1. ASSUME NEW id \in TrackIds, terminate(id) PROVE Quiet
  BY <1>1, ArchiveIsQuiet DEF terminate
<1>2. ASSUME NEW id \in TrackIds, record_observation(id) PROVE Quiet
  <2> DEFINE track == [tracks[id] EXCEPT !.position_history =
                         IF tracks[id].position_history >= MaxPositionHistory THEN @ ELSE @ + 1]
  <2>1. id \in LiveIds /\ tracks' = [tracks EXCEPT ![id] = track] /\ UNCHANGED layout_generation
    BY <1>2 DEF record_observation
  <2>2. /\ track.state = tracks[id].state /\ track.layout_generation = tracks[id].layout_generation
        /\ track.templates = tracks[id].templates /\ track.position = tracks[id].position
    BY <2>1, LiveTrackFacts DEF Track
  <2> HIDE DEF track
  <2> QED
    BY <2>1, <2>2, FieldStepIsQuiet
<1>3. ASSUME NEW id \in TrackIds, NEW frame \in Frames, add_negative_template(id, frame) PROVE Quiet
  <2> DEFINE set   == DropOldestAppend(tracks[id].negative_templates, MaxNegativeTemplates, 0, frame)
             track == [tracks[id] EXCEPT !.negative_templates = set]
  <2>1. id \in LiveIds /\ tracks' = [tracks EXCEPT ![id] = track] /\ UNCHANGED layout_generation
    BY <1>3 DEF add_negative_template
  <2> HIDE DEF set
  <2>2. /\ track.state = tracks[id].state /\ track.layout_generation = tracks[id].layout_generation
        /\ track.templates = tracks[id].templates /\ track.position = tracks[id].position
    BY <2>1, LiveTrackFacts DEF Track
  <2> HIDE DEF track
  <2> QED
    BY <2>1, <2>2, FieldStepIsQuiet
<1>4. ASSUME advance_layout_generation PROVE Quiet
  BY <1>4, KeptTracksAreQuiet DEF advance_layout_generation
<1>5. ASSUME NEW id \in TrackIds,
             record_structure_baseline(id) \/ attach_tracker_session(id) \/ detach_tracker_session(id)
      PROVE  Quiet
  BY <1>5, KeptTracksAreQuiet
     DEF record_structure_baseline, attach_tracker_session, detach_tracker_session
<1>6. ASSUME NEW frame \in Frames, sweep_generation_lag(frame) PROVE Quiet
  BY <1>6, SweepIsQuiet
<1>7. ASSUME NEW id \in TrackIds, NEW frame \in Frames, record_redetection_failure(id, frame) PROVE Quiet
  <2>1. id \in LiveIds /\ UNCHANGED layout_generation /\ (archive_track(id) \/ UNCHANGED tracks)
    BY <1>7 DEF record_redetection_failure
  <2> QED
    BY <2>1, ArchiveIsQuiet, KeptTracksAreQuiet
<1>8. ASSUME NEW id \in TrackIds, record_redetection_recapture(id) PROVE Quiet
  BY <1>8, KeptTracksAreQuiet DEF record_redetection_recapture
<1>9. ASSUME NEW p \in TrackIds, NEW s \in TrackIds, record_redetection_association(p, s) PROVE Quiet
  BY <1>9, KeptTracksAreQuiet DEF record_redetection_association
<1>10. CASE UNCHANGED vars
  BY <1>10, KeptTracksAreQuiet DEF vars
<1> QED
  BY <1>1, <1>2, <1>3, <1>4, <1>5, <1>6, <1>7, <1>8, <1>9, <1>10 DEF Next

\* Adoption adds the new track, keeps the survivors as they are, and takes a
\* prefix of the eviction order.
LEMMA AdoptionKeepsSurvivors ==
  ASSUME CoreInv, NEW id \in TrackIds, NEW position, NEW text, NEW frame,
         adopt_track(id, position, text, frame)
  PROVE  /\ id \notin DOMAIN tracks
         /\ layout_generation' = layout_generation
         /\ tracks'[id] = NewTrack(position, text, frame)
         /\ \A k \in DOMAIN tracks' \ {id} : k \in DOMAIN tracks /\ tracks'[k] = tracks[k]
         /\ EvictionPrefix(DOMAIN tracks \ DOMAIN tracks')
<1> DEFINE track == NewTrack(position, text, frame)
<1> HIDE DEF track
<1>1. PICK victims \in SUBSET DOMAIN tracks :
        tracks' = Put(Erase(tracks, victims), id, track) /\ EvictionPrefix(victims)
  BY DEF adopt_track, plan_eviction, track
<1>2. id \notin DOMAIN tracks /\ layout_generation' = layout_generation
  BY DEF adopt_track
<1> DEFINE kept == Erase(tracks, victims)
<1>3. DOMAIN kept = DOMAIN tracks \ victims /\ \A k \in DOMAIN tracks \ victims : kept[k] = tracks[k]
  BY EraseTable DEF CoreInv, TypeOK
<1> HIDE DEF kept
<1>4. tracks' = Put(kept, id, track)
  BY <1>1 DEF kept
<1>5. /\ DOMAIN tracks' = (DOMAIN tracks \ victims) \cup {id}
      /\ tracks'[id] = track
      /\ \A k \in DOMAIN tracks' \ {id} : tracks'[k] = tracks[k]
  BY <1>3, <1>4 DEF Put
<1>6. DOMAIN tracks \ DOMAIN tracks' = victims
  BY <1>2, <1>5
<1> QED
  BY <1>1, <1>2, <1>5, <1>6 DEF track

\* A commit changes the committed track only, and one that confirms leaves it
\* tracked and without a doubt.
LEMMA CommitTouchesItsTrack ==
  ASSUME CoreInv, NEW id \in TrackIds, NEW e \in Evidence, NEW frame \in Frames,
         commit_track_evidence(id, e, frame)
  PROVE  LET plan  == CommitPlan(id, e, frame)
             after == apply_commit_stores(tracks[id], plan, e, frame)
         IN  /\ id \in LiveIds /\ LiveIds' = LiveIds
             /\ DOMAIN tracks' = DOMAIN tracks
             /\ layout_generation' = layout_generation
             /\ tracks'[id] = after
             /\ \A k \in DOMAIN tracks \ {id} : tracks'[k] = tracks[k]
             /\ Confirming(plan.grade) =>
                  after.state = "kTracking" /\ StateSlotOf(id)' = NoStateSlot
<1> DEFINE plan  == CommitPlan(id, e, frame)
           t     == plan.transition
           slot  == [insufficient_streak |-> t.insufficient_streak,
                     lost_sequence       |-> t.lost_sequence]
           after == apply_commit_stores(tracks[id], plan, e, frame)
<1>1. /\ id \in LiveIds
      /\ candidate_window_of(tracks[id], e) \in ViewCoordinates
      /\ tracks' = [tracks EXCEPT ![id] = after]
      /\ state_slots' = IF plan.slot_allocation_needed \/ id \in DOMAIN state_slots
                        THEN Put(state_slots, id, slot) ELSE state_slots
      /\ layout_generation' = layout_generation
  BY DEF commit_track_evidence
<1>2. /\ id \in DOMAIN tracks
      /\ tracks[id] \in Track
      /\ tracks[id].state \in LiveState
      /\ Agree(tracks[id].state, StateSlotOf(id))
      /\ StateSlotOf(id) \in StateSlot
  BY <1>1, LiveTrackFacts, StateSlotOfType DEF CoreInv
<1>3. /\ plan.want_positive => PositiveCapturePolicy
      /\ plan.want_negative => NegativeCapturePolicy
      /\ t = track_transition(tracks[id].state, plan.grade, StateSlotOf(id), frame)
  BY DEF CommitPlan
<1> HIDE DEF plan
<1>4. t.state \in LiveState
  <2> HIDE DEF t
  <2> QED
    BY <1>2, <1>3, TransitionAgrees
<1>5. Confirming(plan.grade) =>
        t.state = "kTracking" /\ t.insufficient_streak = 0 /\ t.lost_sequence = 0
  <2> HIDE DEF t
  <2> QED
    BY <1>3 DEF track_transition
<1>6. after.state = t.state
  BY <1>1, <1>2, <1>3, <1>4, CommittedTrackType DEF CoreInv
<1> HIDE DEF after
<1>7. /\ DOMAIN tracks' = DOMAIN tracks
      /\ tracks'[id] = after
      /\ \A k \in DOMAIN tracks \ {id} : tracks'[k] = tracks[k]
  BY <1>1, <1>2
<1>8. LiveIds' = LiveIds
  BY <1>1, <1>4, <1>6, <1>7 DEF LiveIds, Terminated, LiveState
<1>9. Confirming(plan.grade) => StateSlotOf(id)' = NoStateSlot
  <2> SUFFICES ASSUME Confirming(plan.grade) PROVE StateSlotOf(id)' = NoStateSlot
    OBVIOUS
  <2>1. slot = NoStateSlot
    BY <1>5 DEF NoStateSlot
  <2> HIDE DEF slot
  <2>2. CASE state_slots' = Put(state_slots, id, slot)
    BY <2>1, <2>2 DEF StateSlotOf, Put
  <2>3. CASE id \notin DOMAIN state_slots /\ state_slots' = state_slots
    BY <2>3 DEF StateSlotOf
  <2> QED
    BY <1>1, <2>2, <2>3
<1> QED
  BY <1>1, <1>5, <1>6, <1>7, <1>8, <1>9 DEF plan, after

\* A global translation moves the live tracks together.
LEMMA CompensationMovesAllTracks ==
  ASSUME CoreInv, NEW dx \in Shifts, compensate_global_motion(dx)
  PROVE  /\ DOMAIN tracks' = DOMAIN tracks /\ LiveIds' = LiveIds
         /\ layout_generation' = layout_generation
         /\ \A id \in DOMAIN tracks :
              /\ tracks'[id].layout_generation = tracks[id].layout_generation
              /\ tracks'[id].templates = tracks[id].templates
         /\ \A id \in LiveIds : tracks'[id].position = tracks[id].position + dx
<1>1. /\ tracks' = [id \in DOMAIN tracks |->
                     IF Terminated(id) THEN tracks[id] ELSE [tracks[id] EXCEPT !.position = @ + dx]]
      /\ layout_generation' = layout_generation
      /\ \A id \in DOMAIN tracks : tracks[id] \in Track
  BY DEF compensate_global_motion, CoreInv, TypeOK
<1>2. \A id \in DOMAIN tracks :
        /\ tracks'[id].layout_generation = tracks[id].layout_generation
        /\ tracks'[id].templates = tracks[id].templates
        /\ tracks'[id].state = tracks[id].state
        /\ ~Terminated(id) => tracks'[id].position = tracks[id].position + dx
  BY <1>1 DEF Track
<1>3. DOMAIN tracks' = DOMAIN tracks
  BY <1>1
<1> QED
  BY <1>1, <1>2, <1>3 DEF LiveIds, Terminated

\* A capture by the caller touches the appearance set of its track.
LEMMA AddTemplateTouchesItsTrack ==
  ASSUME CoreInv, NEW id \in TrackIds, NEW frame \in Frames, add_template(id, frame)
  PROVE  /\ id \in LiveIds
         /\ DOMAIN tracks' = DOMAIN tracks /\ LiveIds' = LiveIds
         /\ layout_generation' = layout_generation
         /\ Len(tracks[id].templates) >= MaxTemplates => Len(tracks[id].templates) > 1
         /\ tracks'[id].templates = DropOldestAppend(tracks[id].templates, MaxTemplates, 1, frame)
         /\ \A k \in DOMAIN tracks \ {id} : tracks'[k] = tracks[k]
         /\ tracks'[id].layout_generation = tracks[id].layout_generation
         /\ tracks'[id].position = tracks[id].position
<1> DEFINE set   == DropOldestAppend(tracks[id].templates, MaxTemplates, 1, frame)
           track == [tracks[id] EXCEPT !.templates = set]
<1>1. /\ id \in LiveIds
      /\ tracks' = [tracks EXCEPT ![id] = track]
      /\ layout_generation' = layout_generation
      /\ Len(tracks[id].templates) >= MaxTemplates => Len(tracks[id].templates) > 1
  BY DEF add_template, CanStore
<1>2. id \in DOMAIN tracks /\ tracks[id] \in Track
  BY <1>1, LiveTrackFacts
<1> HIDE DEF set
<1>3. /\ track.templates = set
      /\ track.state = tracks[id].state
      /\ track.layout_generation = tracks[id].layout_generation
      /\ track.position = tracks[id].position
  BY <1>2 DEF Track
<1> HIDE DEF track
<1>4. /\ DOMAIN tracks' = DOMAIN tracks
      /\ tracks'[id] = track
      /\ \A k \in DOMAIN tracks \ {id} : tracks'[k] = tracks[k]
  BY <1>1, <1>2
<1>5. LiveIds' = LiveIds
  BY <1>3, <1>4 DEF LiveIds, Terminated
<1> QED
  BY <1>1, <1>3, <1>4, <1>5 DEF set

-----------------------------------------------------------------------------
(* Generations *)

\* An adopted or committed track takes the pool's generation; everything else
\* keeps its own, and the pool's only grows.
LEMMA NextKeepsTracksBehindPool ==
  ASSUME CoreInv, NoTrackAheadOfPool, [Next]_vars
  PROVE  NoTrackAheadOfPool'
<1>0. /\ layout_generation \in Int
      /\ \A id \in DOMAIN tracks : tracks[id].layout_generation \in Int
  BY DEF CoreInv, TypeOK, Track
<1>1. CASE Quiet
  <2>1. layout_generation' \in Int
    BY NextKeepsCore DEF CoreInv, TypeOK
  <2> QED
    BY <1>0, <1>1, <2>1 DEF Quiet, NoTrackAheadOfPool
<1>2. ASSUME NEW id \in TrackIds, NEW position \in ViewCoordinates, NEW text \in RegionTextBytes,
             NEW frame \in Frames, adopt_track(id, position, text, frame)
      PROVE  NoTrackAheadOfPool'
  <2>1. NewTrack(position, text, frame).layout_generation = layout_generation
    BY DEF NewTrack
  <2> QED
    BY <1>0, <1>2, <2>1, AdoptionKeepsSurvivors DEF NoTrackAheadOfPool
<1>3. ASSUME NEW id \in TrackIds, NEW frame \in Frames, add_template(id, frame)
      PROVE  NoTrackAheadOfPool'
  BY <1>3, AddTemplateTouchesItsTrack DEF NoTrackAheadOfPool
<1>4. ASSUME NEW id \in TrackIds, NEW e \in Evidence, NEW frame \in Frames,
             commit_track_evidence(id, e, frame)
      PROVE  NoTrackAheadOfPool'
  <2> DEFINE after == apply_commit_stores(tracks[id], CommitPlan(id, e, frame), e, frame)
  <2>1. /\ DOMAIN tracks' = DOMAIN tracks
        /\ layout_generation' = layout_generation
        /\ id \in DOMAIN tracks
        /\ tracks'[id] = after
        /\ \A k \in DOMAIN tracks \ {id} : tracks'[k] = tracks[k]
    BY <1>4, CommitTouchesItsTrack DEF LiveIds
  <2>2. after.layout_generation \in {tracks[id].layout_generation, layout_generation}
    <3>1. tracks[id] \in Track
      BY <2>1 DEF CoreInv, TypeOK
    <3> QED
      BY <3>1 DEF apply_commit_stores, Track
  <2> HIDE DEF after
  <2> QED
    BY <1>0, <2>1, <2>2 DEF NoTrackAheadOfPool
<1>5. ASSUME NEW dx \in Shifts, compensate_global_motion(dx)
      PROVE  NoTrackAheadOfPool'
  BY <1>5, CompensationMovesAllTracks DEF NoTrackAheadOfPool
<1>6. CASE reset
  BY <1>6 DEF reset, NoTrackAheadOfPool
<1> QED
  BY <1>1, <1>2, <1>3, <1>4, <1>5, <1>6, LoudSteps

\* The unsigned subtraction of the generation sweep never wraps: no sequence of
\* adoptions, commits, generation advances and resets puts a track ahead of
\* the pool.
THEOREM GenerationsNeverWrap ==
  Spec => []NoTrackAheadOfPool
<1>1. Init => NoTrackAheadOfPool
  BY DEF Init, NoTrackAheadOfPool
<1> QED
  BY <1>1, CoreInvariant, NextKeepsTracksBehindPool, PTL DEF Spec

-----------------------------------------------------------------------------
(* The adoption template *)

\* Every live track has a template.
TemplatesHeld == \A id \in LiveIds : tracks[id].templates # <<>>

\* The insertion into a set that keeps its first entry.
LEMMA PinnedAppend ==
  ASSUME NEW set \in Seq(Frames), set # <<>>, NEW frame \in Frames,
         Len(set) >= MaxTemplates => Len(set) > 1
  PROVE  LET after == DropOldestAppend(set, MaxTemplates, 1, frame)
         IN  after # <<>> /\ Head(after) = Head(set)
<1> DEFINE after == DropOldestAppend(set, MaxTemplates, 1, frame)
<1>1. Len(set) \in Nat /\ Len(set) >= 1
  BY LenProperties, EmptySeq
<1>2. /\ after \in Seq(Frames)
      /\ Len(after) = IF Len(set) >= MaxTemplates THEN Len(set) ELSE Len(set) + 1
      /\ after[1] = set[1]
  BY <1>1, DropOldestAppendType, MaxTemplatesAssumption
<1> HIDE DEF after
<1>3. after # <<>>
  BY <1>1, <1>2, EmptySeq
<1>4. Head(after) = Head(set)
  BY <1>2, <1>3
<1> QED
  BY <1>3, <1>4, Zenon DEF after

\* The template a commit leaves first is the one it found first.
LEMMA CommitPinsTemplate ==
  ASSUME NEW track \in Track, track.templates # <<>>, NEW e \in Evidence, NEW frame \in Frames,
         NEW plan, plan.want_positive => PositiveCapturePolicy
  PROVE  LET after == apply_commit_stores(track, plan, e, frame)
         IN  after.templates # <<>> /\ Head(after.templates) = Head(track.templates)
<1> DEFINE captured == DropOldestAppend(track.templates, MaxTemplates, 1, frame)
           after == apply_commit_stores(track, plan, e, frame)
<1>1. track.templates \in Seq(Frames) /\ Len(track.templates) \in Nat
  BY LenProperties DEF Track
<1>2. plan.want_positive => captured # <<>> /\ Head(captured) = Head(track.templates)
  BY <1>1, PinnedAppend, MaxTemplatesAssumption DEF PositiveCapturePolicy
<1>3. after.templates = IF plan.want_positive THEN captured ELSE track.templates
  BY DEF apply_commit_stores, Track
<1> HIDE DEF captured, after
<1>4. after.templates # <<>> /\ Head(after.templates) = Head(track.templates)
  BY <1>2, <1>3
<1> QED
  BY <1>4, Zenon DEF after

\* What a step does to the first template of each live track.
LEMMA NextPinsTemplates ==
  ASSUME CoreInv, TemplatesHeld, [Next]_vars
  PROVE  /\ TemplatesHeld'
         /\ \A id \in LiveIds \cap LiveIds' :
              Head(tracks'[id].templates) = Head(tracks[id].templates)
<1> DEFINE Pinned(id) == /\ tracks'[id].templates # <<>>
                         /\ id \in LiveIds =>
                              Head(tracks'[id].templates) = Head(tracks[id].templates)
<1> SUFFICES \A id \in LiveIds' : Pinned(id)
  BY DEF TemplatesHeld
<1>1. CASE Quiet
  BY <1>1 DEF Quiet, TemplatesHeld
<1>2. ASSUME NEW id \in TrackIds, NEW position \in ViewCoordinates, NEW text \in RegionTextBytes,
             NEW frame \in Frames, adopt_track(id, position, text, frame)
      PROVE  \A k \in LiveIds' : Pinned(k)
  <2>1. /\ id \notin LiveIds
        /\ \A k \in DOMAIN tracks' \ {id} : k \in DOMAIN tracks /\ tracks'[k] = tracks[k]
        /\ tracks'[id] = NewTrack(position, text, frame)
    BY <1>2, AdoptionKeepsSurvivors DEF LiveIds
  <2>2. NewTrack(position, text, frame).templates # <<>>
    BY DEF NewTrack
  <2>3. \A k \in LiveIds' \ {id} : k \in LiveIds /\ tracks'[k] = tracks[k]
    BY <2>1 DEF LiveIds, Terminated
  <2> QED
    BY <2>1, <2>2, <2>3 DEF TemplatesHeld
<1>3. ASSUME NEW id \in TrackIds, NEW frame \in Frames, add_template(id, frame)
      PROVE  \A k \in LiveIds' : Pinned(k)
  <2> DEFINE set == tracks[id].templates
  <2>1. /\ id \in LiveIds
        /\ LiveIds' = LiveIds
        /\ Len(set) >= MaxTemplates => Len(set) > 1
        /\ tracks'[id].templates = DropOldestAppend(set, MaxTemplates, 1, frame)
        /\ \A k \in DOMAIN tracks \ {id} : tracks'[k] = tracks[k]
    BY <1>3, AddTemplateTouchesItsTrack
  <2>2. set \in Seq(Frames) /\ set # <<>>
    BY <2>1, LiveTrackFacts DEF TemplatesHeld, Track
  <2> HIDE DEF set
  <2>3. tracks'[id].templates # <<>> /\ Head(tracks'[id].templates) = Head(set)
    BY <2>1, <2>2, PinnedAppend
  <2> QED
    BY <2>1, <2>3 DEF LiveIds, TemplatesHeld, set
<1>4. ASSUME NEW id \in TrackIds, NEW e \in Evidence, NEW frame \in Frames,
             commit_track_evidence(id, e, frame)
      PROVE  \A k \in LiveIds' : Pinned(k)
  <2> DEFINE plan  == CommitPlan(id, e, frame)
             after == apply_commit_stores(tracks[id], plan, e, frame)
  <2>1. /\ id \in LiveIds
        /\ LiveIds' = LiveIds
        /\ tracks'[id] = after
        /\ \A k \in DOMAIN tracks \ {id} : tracks'[k] = tracks[k]
    BY <1>4, CommitTouchesItsTrack
  <2>2. tracks[id] \in Track /\ tracks[id].templates # <<>>
    BY <2>1, LiveTrackFacts DEF TemplatesHeld
  <2>3. plan.want_positive => PositiveCapturePolicy
    BY DEF CommitPlan
  <2> HIDE DEF plan
  <2>4. after.templates # <<>> /\ Head(after.templates) = Head(tracks[id].templates)
    BY <2>2, <2>3, CommitPinsTemplate
  <2> HIDE DEF after
  <2> QED
    BY <2>1, <2>4 DEF LiveIds, TemplatesHeld
<1>5. ASSUME NEW dx \in Shifts, compensate_global_motion(dx)
      PROVE  \A k \in LiveIds' : Pinned(k)
  BY <1>5, CompensationMovesAllTracks DEF LiveIds, TemplatesHeld
<1>6. CASE reset
  BY <1>6 DEF reset, LiveIds
<1> HIDE DEF Pinned
<1> QED
  BY <1>1, <1>2, <1>3, <1>4, <1>5, <1>6, LoudSteps

\* The template a track was adopted with stays the first of its set through
\* every capture, for any capacity of the set.
THEOREM AdoptionTemplateStays ==
  Spec => AdoptionTemplatePinned
<1>1. Init => TemplatesHeld
  BY DEF Init, TemplatesHeld, LiveIds
<1>2. CoreInv /\ TemplatesHeld /\ [Next]_vars => TemplatesHeld'
  BY NextPinsTemplates
<1>3. CoreInv /\ TemplatesHeld /\ [Next]_vars =>
        [\A id \in LiveIds \cap LiveIds' :
           Head(tracks'[id].templates) = Head(tracks[id].templates)]_vars
  BY NextPinsTemplates
<1> QED
  BY <1>1, <1>2, <1>3, CoreInvariant, PTL DEF Spec, AdoptionTemplatePinned

-----------------------------------------------------------------------------
(* Positions *)

\* A live track moves by its own confirmation or with all the others.
LEMMA NextMovesWithEvidence ==
  ASSUME CoreInv, [Next]_vars
  PROVE  LET shift(id) == tracks'[id].position - tracks[id].position
             live      == LiveIds \cap LiveIds'
         IN  \A id \in live : shift(id) # 0 =>
               \/ /\ tracks'[id].state = "kTracking" /\ StateSlotOf(id)' = NoStateSlot
                  /\ \A other \in live \ {id} : shift(other) = 0
               \/ \A other \in live : shift(other) = shift(id)
<1> DEFINE shift(id) == tracks'[id].position - tracks[id].position
           live      == LiveIds \cap LiveIds'
           Confirmed(id) == /\ tracks'[id].state = "kTracking" /\ StateSlotOf(id)' = NoStateSlot
                            /\ \A other \in live \ {id} : shift(other) = 0
           Justified == \A id \in live : shift(id) # 0 =>
                          Confirmed(id) \/ \A other \in live : shift(other) = shift(id)
<1> SUFFICES Justified
  OBVIOUS
<1>0. \A id \in LiveIds : tracks[id].position \in Int
  BY LiveTrackFacts, CoordinatesAssumption DEF Track
<1>1. ASSUME \A id \in live : tracks'[id].position = tracks[id].position
      PROVE  Justified
  BY <1>0, <1>1
<1>2. ASSUME NEW id \in TrackIds, NEW position \in ViewCoordinates, NEW text \in RegionTextBytes,
             NEW frame \in Frames, adopt_track(id, position, text, frame)
      PROVE  Justified
  <2>1. id \notin LiveIds /\ \A k \in DOMAIN tracks' \ {id} : tracks'[k] = tracks[k]
    BY <1>2, AdoptionKeepsSurvivors DEF LiveIds
  <2> QED
    BY <1>1, <2>1 DEF LiveIds
<1>3. ASSUME NEW id \in TrackIds, NEW frame \in Frames, add_template(id, frame)
      PROVE  Justified
  <2>1. /\ tracks'[id].position = tracks[id].position
        /\ \A k \in DOMAIN tracks \ {id} : tracks'[k] = tracks[k]
    BY <1>3, AddTemplateTouchesItsTrack
  <2> QED
    BY <1>1, <2>1 DEF LiveIds
<1>4. ASSUME NEW id \in TrackIds, NEW e \in Evidence, NEW frame \in Frames,
             commit_track_evidence(id, e, frame)
      PROVE  Justified
  <2> DEFINE plan  == CommitPlan(id, e, frame)
             after == apply_commit_stores(tracks[id], plan, e, frame)
  <2>1. /\ id \in LiveIds
        /\ tracks'[id] = after
        /\ \A k \in DOMAIN tracks \ {id} : tracks'[k] = tracks[k]
        /\ Confirming(plan.grade) => after.state = "kTracking" /\ StateSlotOf(id)' = NoStateSlot
    BY <1>4, CommitTouchesItsTrack
  <2> HIDE DEF plan
  <2>2. ~Confirming(plan.grade) => after.position = tracks[id].position
    BY <2>1, LiveTrackFacts DEF apply_commit_stores, Track
  <2> HIDE DEF after
  <2>3. \A k \in live \ {id} : shift(k) = 0
    BY <1>0, <2>1 DEF LiveIds
  <2>4. Confirming(plan.grade) => Confirmed(id)
    BY <2>1, <2>3
  <2>5. ~Confirming(plan.grade) => shift(id) = 0
    BY <1>0, <2>1, <2>2
  <2> QED
    BY <2>3, <2>4, <2>5
<1>5. ASSUME NEW dx \in Shifts, compensate_global_motion(dx)
      PROVE  Justified
  <2>1. \A k \in live : shift(k) = dx
    BY <1>0, <1>5, CompensationMovesAllTracks, CoordinatesAssumption
  <2> QED
    BY <2>1
<1>6. CASE reset
  BY <1>6 DEF reset, LiveIds
<1>7. CASE Quiet
  BY <1>1, <1>7 DEF Quiet
<1> HIDE DEF Justified
<1> QED
  BY <1>2, <1>3, <1>4, <1>5, <1>6, <1>7, LoudSteps

\* No live track drifts: each move is a confirmation of its own evidence or one
\* translation common to all, whatever evidence and shifts the caller reports.
THEOREM TracksDoNotDrift ==
  Spec => PositionNeedsEvidence
<1>1. CoreInv /\ [Next]_vars =>
        [LET shift(id) == tracks'[id].position - tracks[id].position
             live      == LiveIds \cap LiveIds'
         IN  \A id \in live : shift(id) # 0 =>
               \/ /\ tracks'[id].state = "kTracking" /\ StateSlotOf(id)' = NoStateSlot
                  /\ \A other \in live \ {id} : shift(other) = 0
               \/ \A other \in live : shift(other) = shift(id)]_vars
  BY NextMovesWithEvidence
<1> QED
  BY <1>1, CoreInvariant, PTL DEF Spec, PositionNeedsEvidence

-----------------------------------------------------------------------------
(* Eviction *)

\* A live track that a prefix of the eviction order takes leaves nobody that
\* should have gone before it.
LEMMA PrefixTakesOldestFirst ==
  ASSUME CoreInv, NEW victims \in SUBSET DOMAIN tracks, EvictionPrefix(victims),
         NEW victim \in victims, ~Terminated(victim), NEW survivor \in DOMAIN tracks \ victims
  PROVE  /\ ~Terminated(survivor)
         /\ tracks[survivor].last_verified_sequence >= tracks[victim].last_verified_sequence
<1>1. ~evicts_before(survivor, victim)
  BY DEF EvictionPrefix
<1>2. /\ tracks[survivor].last_verified_sequence \in Int
      /\ tracks[victim].last_verified_sequence \in Int
  BY FramesAssumption DEF CoreInv, TypeOK, Track
<1>3. ~Terminated(survivor)
  BY <1>1 DEF evicts_before, Terminated
<1> QED
  BY <1>1, <1>2, <1>3 DEF evicts_before, Terminated

\* What a step that leaves a pool may have evicted.
LEMMA NextEvictsOldestFirst ==
  ASSUME CoreInv, [Next]_vars, tracks' # <<>>,
         NEW victim \in LiveIds \ DOMAIN tracks', NEW survivor \in DOMAIN tracks \cap DOMAIN tracks'
  PROVE  /\ ~Terminated(survivor)
         /\ tracks[survivor].last_verified_sequence >= tracks[victim].last_verified_sequence
<1>1. DOMAIN tracks' # DOMAIN tracks
  BY DEF LiveIds
<1>2. ~Quiet /\ ~reset
  BY <1>1 DEF Quiet, reset
<1>3. /\ \A id \in TrackIds, frame \in Frames : ~add_template(id, frame)
      /\ \A id \in TrackIds, e \in Evidence, frame \in Frames : ~commit_track_evidence(id, e, frame)
      /\ \A dx \in Shifts : ~compensate_global_motion(dx)
  BY <1>1, AddTemplateTouchesItsTrack, CommitTouchesItsTrack, CompensationMovesAllTracks
<1>4. PICK id \in TrackIds, position \in ViewCoordinates, text \in RegionTextBytes, frame \in Frames :
        adopt_track(id, position, text, frame)
  BY <1>2, <1>3, LoudSteps
<1>5. EvictionPrefix(DOMAIN tracks \ DOMAIN tracks')
  BY <1>4, AdoptionKeepsSurvivors
<1> QED
  BY <1>5, PrefixTakesOldestFirst DEF LiveIds

\* A live track leaves the pool by eviction only when every archive has gone
\* and everyone who stays was verified no earlier, for any capacity and budget.
THEOREM EvictionSparesLiveTracks ==
  Spec => LiveTracksEvictedLast
<1>1. CoreInv /\ [Next]_vars =>
        [tracks' # <<>> =>
           \A victim \in LiveIds \ DOMAIN tracks', survivor \in DOMAIN tracks \cap DOMAIN tracks' :
             /\ ~Terminated(survivor)
             /\ tracks[survivor].last_verified_sequence >= tracks[victim].last_verified_sequence]_vars
  BY NextEvictsOldestFirst
<1> QED
  BY <1>1, CoreInvariant, PTL DEF Spec, LiveTracksEvictedLast

-----------------------------------------------------------------------------
(* The deep channel *)

\* The grade that a frame gets with the deep channel's word, and without.
LEMMA DeepWordOnlyDemotes ==
  ASSUME NEW state, NEW negatives, NEW e \in Evidence
  PROVE  LET silent == [e EXCEPT !.deep = "kNotSupplied"]
             grade  == Grade(state, negatives, e)
         IN  /\ Grade(state, negatives, silent) = grade \/ ~Confirming(grade)
             /\ silent.deep = "kNotSupplied"
<1> DEFINE silent == [e EXCEPT !.deep = "kNotSupplied"]
<1>1. e \in EvidenceRecord
  BY EvidenceAssumption
<1>2. /\ silent.appearance = e.appearance /\ silent.consistent = e.consistent
      /\ silent.in_gate = e.in_gate /\ silent.impostor = e.impostor
      /\ silent.conflict = e.conflict /\ silent.deep = "kNotSupplied"
  BY <1>1 DEF EvidenceRecord
<1> HIDE DEF silent
<1> DEFINE plain == fusion_grade(appearance_level(e), gate_admitted(state, e),
                                 impostor_match(negatives, e), e.conflict)
<1>3. plain = fusion_grade(appearance_level(silent), gate_admitted(state, silent),
                           impostor_match(negatives, silent), silent.conflict)
  BY <1>2 DEF appearance_level, gate_admitted, impostor_match, HasCandidate
<1> HIDE DEF plain
<1>4. Grade(state, negatives, silent) = plain
  BY <1>2, <1>3 DEF Grade, deep_demoted
<1>5. Grade(state, negatives, e) = plain \/ ~Confirming(Grade(state, negatives, e))
  BY DEF Grade, deep_demoted, plain, Confirming
<1> QED
  BY <1>2, <1>4, <1>5 DEF silent

\* A transition into kTracking is one with a confirming grade.
LEMMA TrackingNeedsConfirmation ==
  ASSUME NEW state, NEW grade, NEW slot, NEW frame
  PROVE  track_transition(state, grade, slot, frame).state = "kTracking" <=> Confirming(grade)
<1>1. CASE Confirming(grade)
  BY <1>1 DEF track_transition
<1>2. CASE ~Confirming(grade) /\ state = "kLost"
  BY <1>2 DEF track_transition
<1>3. CASE ~Confirming(grade) /\ state # "kLost"
  BY <1>3 DEF track_transition
<1> QED
  BY <1>1, <1>2, <1>3

\* What one commit plans with the deep channel's word, and without.
LEMMA PlanNarrows ==
  ASSUME NEW id \in TrackIds, NEW e \in Evidence, NEW frame
  PROVE  LET plan   == CommitPlan(id, e, frame)
             silent == CommitPlan(id, [e EXCEPT !.deep = "kNotSupplied"], frame)
         IN  /\ plan.transition.state = "kTracking" => silent.transition.state = "kTracking"
             /\ plan.want_positive =>
                  silent.want_positive \/ (silent.template_withheld /\ e.deep = "kCorroborated")
             /\ DeepChannelEnabled /\ plan.want_positive /\ id \in tracker_handles
                  => e.deep = "kCorroborated"
<1> DEFINE quiet  == [e EXCEPT !.deep = "kNotSupplied"]
           plan   == CommitPlan(id, e, frame)
           silent == CommitPlan(id, quiet, frame)
           present == slot_bytes(tracker_handles, id, kTrackerHandleSlotOverheadBytes) # 0
           guarded == DeepChannelEnabled /\ present
<1>1. /\ plan.grade = Grade(tracks[id].state, tracks[id].negative_templates, e)
      /\ plan.transition = track_transition(tracks[id].state, plan.grade, StateSlotOf(id), frame)
      /\ plan.want_positive = (/\ plan.grade = "kConfirmed" /\ PositiveCapturePolicy
                               /\ ~(guarded /\ e.deep # "kCorroborated"))
  BY DEF CommitPlan
<1>2. /\ silent.grade = Grade(tracks[id].state, tracks[id].negative_templates, quiet)
      /\ silent.transition = track_transition(tracks[id].state, silent.grade, StateSlotOf(id), frame)
      /\ silent.want_positive = (/\ silent.grade = "kConfirmed" /\ PositiveCapturePolicy
                                 /\ ~(guarded /\ quiet.deep # "kCorroborated"))
      /\ silent.template_withheld = (/\ silent.grade = "kConfirmed" /\ PositiveCapturePolicy
                                     /\ guarded /\ quiet.deep # "kCorroborated")
  BY DEF CommitPlan
<1>3. /\ silent.grade = plan.grade \/ ~Confirming(plan.grade)
      /\ quiet.deep = "kNotSupplied"
  <2> HIDE DEF plan, silent
  <2> QED
    BY <1>1, <1>2, DeepWordOnlyDemotes
<1>4. id \in tracker_handles => present
  BY TrackIdsAssumption DEF slot_bytes, kTrackerHandleSlotOverheadBytes
<1> HIDE DEF present, plan, silent
<1>5. plan.transition.state = "kTracking" => silent.transition.state = "kTracking"
  BY <1>1, <1>2, <1>3, TrackingNeedsConfirmation
<1>6. plan.want_positive => silent.grade = "kConfirmed" /\ PositiveCapturePolicy
  BY <1>1, <1>3 DEF Confirming
<1>7. plan.want_positive =>
        silent.want_positive \/ (silent.template_withheld /\ e.deep = "kCorroborated")
  BY <1>1, <1>2, <1>3, <1>6
<1>8. DeepChannelEnabled /\ plan.want_positive /\ id \in tracker_handles => e.deep = "kCorroborated"
  BY <1>1, <1>4
<1> QED
  BY <1>5, <1>7, <1>8, Zenon DEF plan, silent

\* Whatever the evidence: the deep channel's word confirms nothing and captures
\* nothing that the frame would not have confirmed and captured without it.
THEOREM DeepChannelIsSubordinate ==
  Spec => []DeepChannelOnlyNarrows
<1>1. CoreInv => DeepChannelOnlyNarrows
  BY PlanNarrows DEF DeepChannelOnlyNarrows, CoreInv, TypeOK, LiveIds
<1> QED
  BY <1>1, CoreInvariant, PTL

-----------------------------------------------------------------------------
(* Sums over finite sets *)

\* The sum of the weights of the elements of a set, as a fold.
Weigh(weights, sum, x) == weights[x] + sum
Sums == INSTANCE FoldSteps WITH Op <- Weigh

\* The total of a set.
Total(weights, S) == Sums!FoldedSet(weights, 0, S)

\* A set is finite for the fold and for the model alike.
LEMMA SameFinite == \A S : Sums!IsFiniteSet(S) <=> IsFiniteSet(S)
BY DEF Sums!IsFiniteSet, IsFiniteSet

\* A total takes in one element after the others.
LEMMA TotalStep ==
  ASSUME NEW w, NEW S, IsFiniteSet(S)
  PROVE  /\ Total(w, {}) = 0
         /\ S # {} => \E p \in S : Total(w, S) = w[p] + Total(w, S \ {p})
<1>1. /\ Sums!FoldedSet(w, 0, {}) = 0
      /\ S # {} => /\ Sums!Pick(S) \in S
                   /\ Sums!FoldedSet(w, 0, S) =
                        Weigh(w, Sums!FoldedSet(w, 0, S \ {Sums!Pick(S)}), Sums!Pick(S))
  BY SameFinite, Sums!SetFoldStep
<1> QED
  BY <1>1 DEF Total, Weigh

\* A total of numbers is a number, and of natural numbers a natural number.
LEMMA TotalType ==
  ASSUME NEW N \in {Nat, Int}, NEW S, IsFiniteSet(S), NEW w, \A x \in S : w[x] \in N
  PROVE  \A T \in SUBSET S : Total(w, T) \in N
<1> DEFINE P == {T \in SUBSET S : Total(w, T) \in N}
<1>1. ASSUME NEW s \in SUBSET S, \A t \in SUBSET s : t # s => t \in P
      PROVE  s \in P
  <2>1. IsFiniteSet(s)
    BY FS_Subset
  <2>2. CASE s = {}
    <3>1. Total(w, s) = 0
      BY <2>1, <2>2, TotalStep
    <3> QED
      BY <3>1
  <2>3. CASE s # {}
    <3>1. PICK p \in s : Total(w, s) = w[p] + Total(w, s \ {p})
      BY <2>1, <2>3, TotalStep
    <3>2. Total(w, s \ {p}) \in N /\ w[p] \in N
      BY <1>1
    <3>3. w[p] + Total(w, s \ {p}) \in N
      BY <3>2
    <3> QED
      BY <3>1, <3>3
  <2> QED
    BY <2>2, <2>3
<1> HIDE DEF P
<1>2. \A s \in SUBSET S : s \in P
  BY <1>1, SameFinite, Sums!SubsetInduction
<1> QED
  BY <1>2 DEF P

\* An element that may be taken in last.
TakenLast(w, T, x) == Total(w, T) = w[x] + Total(w, T \ {x})

\* Every element may.
LEMMA TotalRemove ==
  ASSUME NEW S, IsFiniteSet(S), NEW w, \A x \in S : w[x] \in Int
  PROVE  \A T, x : T \in SUBSET S /\ x \in T => TakenLast(w, T, x)
<1> DEFINE P == {T \in SUBSET S : \A x \in T : TakenLast(w, T, x)}
<1>1. \A T \in SUBSET S : Total(w, T) \in Int
  BY TotalType
<1>2. ASSUME NEW s \in SUBSET S, \A t \in SUBSET s : t # s => t \in P
      PROVE  s \in P
  <2> SUFFICES ASSUME NEW x \in s PROVE Total(w, s) = w[x] + Total(w, s \ {x})
    BY DEF TakenLast
  <2>1. IsFiniteSet(s)
    BY FS_Subset
  <2>2. PICK p \in s : Total(w, s) = w[p] + Total(w, s \ {p})
    BY <2>1, TotalStep
  <2>3. CASE p # x
    <3>1. Total(w, s \ {p}) = w[x] + Total(w, (s \ {p}) \ {x})
      <4>1. s \ {p} \in P /\ x \in s \ {p}
        BY <1>2, <2>3
      <4> QED
        BY <4>1 DEF TakenLast
    <3>2. Total(w, s \ {x}) = w[p] + Total(w, (s \ {x}) \ {p})
      <4>1. s \ {x} \in P /\ p \in s \ {x}
        BY <1>2, <2>3
      <4> QED
        BY <4>1 DEF TakenLast
    <3> DEFINE rest == Total(w, (s \ {p}) \ {x})
               first == w[p]
               second == w[x]
    <3>3. (s \ {p}) \ {x} = (s \ {x}) \ {p}
      OBVIOUS
    <3>4. second \in Int /\ first \in Int /\ rest \in Int
      BY <1>1
    <3>5. Total(w, s \ {x}) = first + rest /\ Total(w, s) = first + (second + rest)
      BY <2>2, <3>1, <3>2, <3>3
    <3> HIDE DEF P, rest, first, second
    <3>6. Total(w, s) = second + (first + rest)
      BY <3>4, <3>5
    <3> QED
      BY <3>5, <3>6 DEF second
  <2> QED
    BY <2>2, <2>3
<1> HIDE DEF P
<1>3. \A s \in SUBSET S : s \in P
  BY <1>2, SameFinite, Sums!SubsetInduction
<1> QED
  BY <1>3 DEF P

\* Taking in one more element.
LEMMA TotalAdd ==
  ASSUME NEW S, IsFiniteSet(S), NEW x, x \notin S, NEW w, \A y \in S \cup {x} : w[y] \in Int
  PROVE  Total(w, S \cup {x}) = w[x] + Total(w, S)
<1> DEFINE U == S \cup {x}
<1>1. IsFiniteSet(U)
  BY FS_AddElement
<1>2. \A T, y : T \in SUBSET U /\ y \in T => TakenLast(w, T, y)
  BY <1>1, TotalRemove
<1>3. U \ {x} = S /\ U \in SUBSET U /\ x \in U
  OBVIOUS
<1> QED
  BY <1>2, <1>3 DEF TakenLast

\* Greater weights make a greater total.
LEMMA TotalCompare ==
  ASSUME NEW S, IsFiniteSet(S), NEW v, NEW w,
         \A x \in S : v[x] \in Int /\ w[x] \in Int /\ v[x] <= w[x]
  PROVE  Total(v, S) <= Total(w, S)
<1> DEFINE P == {T \in SUBSET S : Total(v, T) <= Total(w, T)}
<1>0. (\A x \in S : v[x] \in Int) /\ (\A x \in S : w[x] \in Int)
  OBVIOUS
<1>1. \A T \in SUBSET S : Total(v, T) \in Int
  BY <1>0, TotalType
<1>2. \A T \in SUBSET S : Total(w, T) \in Int
  BY <1>0, TotalType
<1>3. \A T, x : T \in SUBSET S /\ x \in T => TakenLast(v, T, x)
  BY <1>0, TotalRemove
<1>4. \A T, x : T \in SUBSET S /\ x \in T => TakenLast(w, T, x)
  BY <1>0, TotalRemove
<1>5. ASSUME NEW s \in SUBSET S, \A t \in SUBSET s : t # s => t \in P
      PROVE  s \in P
  <2>1. CASE s = {}
    <3>1. Total(v, s) = 0 /\ Total(w, s) = 0
      BY <2>1, TotalStep
    <3> QED
      BY <3>1
  <2>2. CASE s # {}
    <3>1. PICK x \in s : TRUE
      BY <2>2
    <3>2. s \ {x} \in P /\ s \ {x} \in SUBSET S
      BY <1>5
    <3>3. Total(v, s \ {x}) <= Total(w, s \ {x})
      BY <3>2
    <3>4. Total(v, s) = v[x] + Total(v, s \ {x})
      BY <1>3 DEF TakenLast
    <3>5. Total(w, s) = w[x] + Total(w, s \ {x})
      BY <1>4 DEF TakenLast
    <3>6. Total(v, s \ {x}) \in Int
      BY <1>1
    <3>7. Total(w, s \ {x}) \in Int
      BY <1>2
    <3>8. v[x] \in Int /\ w[x] \in Int /\ v[x] <= w[x]
      OBVIOUS
    <3>9. Total(v, s) <= Total(w, s)
      BY <3>3, <3>4, <3>5, <3>6, <3>7, <3>8
    <3> QED
      BY <3>9
  <2> QED
    BY <2>1, <2>2
<1> HIDE DEF P
<1>6. \A s \in SUBSET S : s \in P
  BY <1>5, SameFinite, Sums!SubsetInduction
<1> QED
  BY <1>6 DEF P

\* Equal weights make equal totals.
LEMMA TotalSame ==
  ASSUME NEW S, IsFiniteSet(S), NEW v, NEW w, \A x \in S : v[x] \in Int /\ v[x] = w[x]
  PROVE  Total(v, S) = Total(w, S)
<1>1. Total(v, S) <= Total(w, S)
  BY TotalCompare
<1>2. Total(w, S) <= Total(v, S)
  BY TotalCompare
<1>3. Total(v, S) \in Int
  BY TotalType
<1>4. Total(w, S) \in Int
  BY TotalType
<1> QED
  BY <1>1, <1>2, <1>3, <1>4

\* One weight changes.
LEMMA TotalChange ==
  ASSUME NEW S, IsFiniteSet(S), NEW x \in S, NEW v, NEW w,
         \A y \in S : v[y] \in Int /\ w[y] \in Int,
         \A y \in S \ {x} : v[y] = w[y]
  PROVE  Total(v, S) = Total(w, S) - w[x] + v[x]
<1> DEFINE T == S \ {x}
<1>1. IsFiniteSet(T) /\ T \in SUBSET S
  BY FS_Subset
<1>2. Total(v, T) = Total(w, T)
  BY <1>1, TotalSame
<1>3. \A U, y : U \in SUBSET S /\ y \in U => TakenLast(v, U, y)
  BY TotalRemove
<1>4. \A U, y : U \in SUBSET S /\ y \in U => TakenLast(w, U, y)
  BY TotalRemove
<1>5. \A U \in SUBSET S : Total(w, U) \in Int
  BY TotalType
<1>6. Total(v, S) = v[x] + Total(v, T)
  BY <1>3 DEF TakenLast
<1>7. Total(w, S) = w[x] + Total(w, T)
  BY <1>4 DEF TakenLast
<1>8. Total(w, T) \in Int /\ v[x] \in Int /\ w[x] \in Int
  BY <1>1, <1>5
<1> HIDE DEF T
<1> QED
  BY <1>2, <1>6, <1>7, <1>8

\* A total in two parts.
LEMMA TotalSplit ==
  ASSUME NEW S, IsFiniteSet(S), NEW T \in SUBSET S, NEW w, \A x \in S : w[x] \in Int
  PROVE  Total(w, S) = Total(w, T) + Total(w, S \ T)
<1> DEFINE P == {U \in SUBSET T : Total(w, S) = Total(w, U) + Total(w, S \ U)}
<1>1. \A U, y : U \in SUBSET S /\ y \in U => TakenLast(w, U, y)
  BY TotalRemove
<1>2. \A U \in SUBSET S : Total(w, U) \in Int
  BY TotalType
<1>3. ASSUME NEW s \in SUBSET T, \A t \in SUBSET s : t # s => t \in P
      PROVE  s \in P
  <2>1. CASE s = {}
    <3>1. Total(w, s) = 0 /\ S \ s = S
      BY <2>1, TotalStep
    <3>2. Total(w, S) \in Int
      BY <1>2
    <3>3. Total(w, S) = Total(w, s) + Total(w, S \ s)
      BY <3>1, <3>2
    <3> QED
      BY <3>3
  <2>2. CASE s # {}
    <3>1. PICK x \in s : TRUE
      BY <2>2
    <3>2. s \ {x} \in P
      BY <1>3
    <3>3. Total(w, S) = Total(w, s \ {x}) + Total(w, S \ (s \ {x}))
      BY <3>2
    <3>4. Total(w, s) = w[x] + Total(w, s \ {x})
      BY <1>1 DEF TakenLast
    <3>5. S \ (s \ {x}) \in SUBSET S /\ x \in S \ (s \ {x}) /\ (S \ (s \ {x})) \ {x} = S \ s
      OBVIOUS
    <3>6. Total(w, S \ (s \ {x})) = w[x] + Total(w, S \ s)
      BY <1>1, <3>5 DEF TakenLast
    <3>7. Total(w, s \ {x}) \in Int /\ Total(w, S \ s) \in Int /\ w[x] \in Int
      BY <1>2
    <3>8. Total(w, S) = Total(w, s) + Total(w, S \ s)
      BY <3>3, <3>4, <3>6, <3>7
    <3> QED
      BY <3>8
  <2> QED
    BY <2>1, <2>2
<1>4. IsFiniteSet(T)
  BY FS_Subset
<1> HIDE DEF P
<1>5. \A s \in SUBSET T : s \in P
  BY <1>3, <1>4, SameFinite, Sums!SubsetInduction
<1> QED
  BY <1>5 DEF P

\* Weights of which the marked elements have more.
Marked(v, w, S, M, o) ==
  \A x \in S : w[x] \in Int /\ v[x] = w[x] + (IF x \in M THEN o ELSE 0)

\* They add that for each marked element.
LEMMA TotalMarked ==
  ASSUME NEW S, IsFiniteSet(S), NEW M, NEW o \in Nat, NEW v, NEW w, Marked(v, w, S, M, o)
  PROVE  Total(v, S) = Total(w, S) + o * Cardinality(M \cap S)
<1> DEFINE Right(T) == Total(v, T) = Total(w, T) + o * Cardinality(M \cap T)
           P == {T \in SUBSET S : Right(T)}
<1>0. /\ \A x \in S : v[x] \in Int
      /\ \A x \in S : w[x] \in Int
  BY DEF Marked
<1>1. \A T \in SUBSET S : Total(w, T) \in Int
  BY <1>0, TotalType
<1>3. \A T, x : T \in SUBSET S /\ x \in T => TakenLast(v, T, x)
  BY <1>0, TotalRemove
<1>4. \A T, x : T \in SUBSET S /\ x \in T => TakenLast(w, T, x)
  BY <1>0, TotalRemove
<1>5. ASSUME NEW s \in SUBSET S, \A t \in SUBSET s : t # s => t \in P
      PROVE  s \in P
  <2>1. CASE s = {}
    <3>1. Total(v, s) = 0 /\ Total(w, s) = 0
      BY <2>1, TotalStep
    <3>2. M \cap s = {} /\ Cardinality(M \cap s) = 0
      BY <2>1, FS_EmptySet
    <3>3. o * 0 = 0
      OBVIOUS
    <3>4. Right(s)
      BY <3>1, <3>2, <3>3
    <3> QED
      BY <3>4
  <2>2. CASE s # {}
    <3>1. PICK x \in s : TRUE
      BY <2>2
    <3> DEFINE rest == s \ {x}
    <3>2. rest \in P /\ rest \in SUBSET S
      BY <1>5
    <3>3. Total(v, s) = v[x] + Total(v, rest)
      BY <1>3 DEF TakenLast
    <3>4. Total(w, s) = w[x] + Total(w, rest)
      BY <1>4 DEF TakenLast
    <3>5. Total(w, rest) \in Int /\ w[x] \in Int
      BY <1>0, <1>1, <3>2
    <3>6. Total(v, rest) = Total(w, rest) + o * Cardinality(M \cap rest)
      BY <3>2
    <3>7. IsFiniteSet(M \cap s) /\ IsFiniteSet(M \cap rest)
      <4>1. M \cap s \in SUBSET S /\ M \cap rest \in SUBSET S
        OBVIOUS
      <4> QED
        BY <4>1, FS_Subset
    <3> DEFINE n == Cardinality(M \cap rest)
               m == Cardinality(M \cap s)
    <3>8. n \in Nat
      BY <3>7, FS_CardinalityType
    <3>9. CASE x \in M
      <4>1. x \in M \cap s /\ (M \cap s) \ {x} = M \cap rest
        BY <3>9
      <4>2. m \in Nat /\ n = m - 1
        BY <3>7, <4>1, FS_RemoveElement, FS_CardinalityType
      <4>3. v[x] = w[x] + o
        BY <3>9 DEF Marked
      <4> HIDE DEF n, m
      <4>4. o * m = o * n + o
        BY <3>8, <4>2
      <4> DEFINE on == o * n
                 om == o * m
      <4>5. on \in Int /\ om = on + o
        BY <3>8, <4>4
      <4>6. Total(v, rest) = Total(w, rest) + on
        BY <3>6 DEF n
      <4> HIDE DEF on, om, rest
      <4>7. Total(v, s) = Total(w, s) + om
        BY <3>3, <3>4, <3>5, <4>3, <4>5, <4>6
      <4>8. Right(s)
        BY <4>7 DEF om, m
      <4> QED
        BY <4>8
    <3>10. CASE x \notin M
      <4>1. M \cap s = M \cap rest
        BY <3>10
      <4>2. v[x] = w[x]
        BY <3>10 DEF Marked
      <4> DEFINE on == o * Cardinality(M \cap rest)
      <4>3. on \in Int
        BY <3>8
      <4>4. Total(v, rest) = Total(w, rest) + on
        BY <3>6
      <4> HIDE DEF on, rest
      <4>5. Total(v, s) = Total(w, s) + on
        BY <3>3, <3>4, <3>5, <4>2, <4>3, <4>4
      <4>6. Right(s)
        BY <4>1, <4>5 DEF on
      <4> QED
        BY <4>6
    <3> QED
      BY <3>9, <3>10
  <2> QED
    BY <2>1, <2>2
<1> HIDE DEF P
<1>6. \A s \in SUBSET S : s \in P
  BY <1>5, SameFinite, Sums!SubsetInduction
<1> QED
  BY <1>6 DEF P

-----------------------------------------------------------------------------
(* The bytes a pool holds *)

\* What a track holds in the pool: its record and its slots.
Holding(table, b, s, r, h, id) ==
  track_bytes(table[id])
    + (IF id \in b THEN kStructureBaselineOverheadBytes ELSE 0)
    + (IF id \in s THEN kStateSlotOverheadBytes ELSE 0)
    + (IF id \in r THEN kRedetectSlotOverheadBytes ELSE 0)
    + (IF id \in h THEN kTrackerHandleSlotOverheadBytes ELSE 0)

\* The records' part of it.
RecordBytes(table) == [id \in DOMAIN table |-> track_bytes(table[id])]

\* HeldBytes, for any pool.
HeldOf(table, b, s, r, h, records) ==
  LET bytes(id) == track_bytes(table[id])
  IN  MapThenSumSet(bytes, DOMAIN table)
        + kStructureBaselineOverheadBytes * Cardinality(b)
        + kStateSlotOverheadBytes * Cardinality(s)
        + kRedetectSlotOverheadBytes * Cardinality(r)
        + kTrackerHandleSlotOverheadBytes * Cardinality(h)
        + kRedetectionRecordOverheadBytes * records

\* The model's HeldBytes is that of the pool of a state, before and after a step.
LEMMA HeldHere ==
  /\ HeldBytes = HeldOf(tracks, structure_baselines, DOMAIN state_slots,
                        DOMAIN redetect_slots, tracker_handles, redetection_records)
  /\ HeldBytes' = HeldOf(tracks', structure_baselines', DOMAIN state_slots',
                         DOMAIN redetect_slots', tracker_handles', redetection_records')
<1>1. HeldBytes = HeldOf(tracks, structure_baselines, DOMAIN state_slots,
                        DOMAIN redetect_slots, tracker_handles, redetection_records)
  BY DEF HeldBytes, HeldOf
<1>2. HeldBytes' = HeldOf(tracks', structure_baselines', DOMAIN state_slots',
                         DOMAIN redetect_slots', tracker_handles', redetection_records')
  BY DEF HeldBytes, HeldOf, MapThenSumSet, MapThenFoldSet
<1> QED
  BY <1>1, <1>2

\* The sum over the records is a total.
LEMMA RecordsAreTotal ==
  ASSUME NEW table, IsFiniteSet(DOMAIN table)
  PROVE  LET bytes(id) == track_bytes(table[id])
         IN  MapThenSumSet(bytes, DOMAIN table) = Total(RecordBytes(table), DOMAIN table)
<1> DEFINE D == DOMAIN table
           w == RecordBytes(table)
           Sum(g) == g = [s \in SUBSET D |->
                       IF s = {} THEN 0
                       ELSE track_bytes(table[CHOOSE x \in s : TRUE]) + g[s \ {CHOOSE x \in s : TRUE}]]
           bytes(id) == track_bytes(table[id])
<1>1. MapThenSumSet(bytes, D) = (CHOOSE g : Sum(g))[D]
  BY DEF MapThenSumSet, MapThenFoldSet
<1>2. ASSUME NEW g PROVE Sum(g) <=> Sums!Table(w, 0, D, g)
  <2>1. ASSUME NEW s \in SUBSET D, s # {}
        PROVE  track_bytes(table[CHOOSE x \in s : TRUE]) + g[s \ {CHOOSE x \in s : TRUE}]
                 = Weigh(w, g[s \ {Sums!Pick(s)}], Sums!Pick(s))
    <3>1. Sums!Pick(s) = CHOOSE x \in s : TRUE
      BY DEF Sums!Pick
    <3>2. Sums!Pick(s) \in D
      BY <2>1, <3>1
    <3>3. w[Sums!Pick(s)] = track_bytes(table[Sums!Pick(s)])
      BY <3>2 DEF RecordBytes
    <3> HIDE DEF w
    <3> QED
      BY <3>1, <3>3 DEF Weigh
  <2> HIDE DEF w
  <2> QED
    BY <2>1 DEF Sums!Table
<1>3. PICK g : Sums!Table(w, 0, D, g) /\ Total(w, D) = g[D]
  BY SameFinite, Sums!SetFoldTable DEF Total
<1>4. Sums!Table(w, 0, D, CHOOSE h : Sum(h))
  <2> HIDE DEF Sum, D, w
  <2> QED
    BY <1>2, <1>3
<1>5. (CHOOSE h : Sum(h))[D] = g[D]
  <2> HIDE DEF Sum, w
  <2>1. D \in SUBSET D
    OBVIOUS
  <2> HIDE DEF D
  <2>2. \A s \in SUBSET D : g[s] = (CHOOSE h : Sum(h))[s]
    BY <1>3, <1>4, <2>1, SameFinite, Sums!TablesAgree DEF D
  <2> QED
    BY <2>1, <2>2
<1> HIDE DEF Sum, w
<1> QED
  BY <1>1, <1>3, <1>5 DEF w

\* The bytes an eviction takes its victims for.
VictimBytes(victims) == [id \in victims |-> victim_bytes(id)]

\* And so is the sum over the victims of an eviction.
LEMMA VictimsAreTotal ==
  ASSUME NEW victims, IsFiniteSet(victims)
  PROVE  MapThenSumSet(victim_bytes, victims) = Total(VictimBytes(victims), victims)
<1> DEFINE w == VictimBytes(victims)
           Sum(g) == g = [s \in SUBSET victims |->
                       IF s = {} THEN 0
                       ELSE victim_bytes(CHOOSE x \in s : TRUE) + g[s \ {CHOOSE x \in s : TRUE}]]
<1>1. MapThenSumSet(victim_bytes, victims) = (CHOOSE g : Sum(g))[victims]
  BY DEF MapThenSumSet, MapThenFoldSet
<1>2. ASSUME NEW g PROVE Sum(g) <=> Sums!Table(w, 0, victims, g)
  <2>1. ASSUME NEW s \in SUBSET victims, s # {}
        PROVE  victim_bytes(CHOOSE x \in s : TRUE) + g[s \ {CHOOSE x \in s : TRUE}]
                 = Weigh(w, g[s \ {Sums!Pick(s)}], Sums!Pick(s))
    <3>1. Sums!Pick(s) = CHOOSE x \in s : TRUE
      BY DEF Sums!Pick
    <3>2. Sums!Pick(s) \in victims
      BY <2>1, <3>1
    <3>3. w[Sums!Pick(s)] = victim_bytes(Sums!Pick(s))
      BY <3>2 DEF VictimBytes
    <3> HIDE DEF w
    <3> QED
      BY <3>1, <3>3 DEF Weigh
  <2> HIDE DEF w
  <2> QED
    BY <2>1 DEF Sums!Table
<1>3. PICK g : Sums!Table(w, 0, victims, g) /\ Total(w, victims) = g[victims]
  BY SameFinite, Sums!SetFoldTable DEF Total
<1>4. Sums!Table(w, 0, victims, CHOOSE h : Sum(h))
  <2> HIDE DEF Sum, w
  <2> QED
    BY <1>2, <1>3
<1>5. (CHOOSE h : Sum(h))[victims] = g[victims]
  <2> HIDE DEF Sum, w
  <2>1. victims \in SUBSET victims
    OBVIOUS
  <2>2. \A s \in SUBSET victims : g[s] = (CHOOSE h : Sum(h))[s]
    BY <1>3, <1>4, <2>1, SameFinite, Sums!TablesAgree
  <2> QED
    BY <2>1, <2>2
<1> HIDE DEF Sum, w
<1> QED
  BY <1>1, <1>3, <1>5 DEF w

\* A template takes some bytes.
LEMMA TemplateBytesType ==
  template_bytes \in Nat
BY OptionsAssumption DEF template_bytes, kTemplateOverheadBytes

\* So does a track.
LEMMA TrackBytesType ==
  ASSUME NEW track \in Track
  PROVE  track_bytes(track) \in Nat
<1> DEFINE n == Len(track.templates) + Len(track.negative_templates)
<1>1. n \in Nat
  BY LenProperties DEF Track
<1> HIDE DEF n
<1>2. template_bytes * n \in Nat
  BY <1>1, TemplateBytesType
<1>3. kObservationOverheadBytes * track.position_history \in Nat
  BY OptionsAssumption DEF Track, kObservationOverheadBytes
<1>4. track.text \in Nat
  BY DEF Track
<1> DEFINE stored == template_bytes * n
           seen == kObservationOverheadBytes * track.position_history
           text == track.text
<1>5. stored \in Nat /\ seen \in Nat /\ text \in Nat
  BY <1>2, <1>3, <1>4
<1>6. track_bytes(track) = 128 + stored + seen + text
  BY DEF track_bytes, kTrackOverheadBytes, n
<1> HIDE DEF stored, seen, text
<1> QED
  BY <1>5, <1>6

\* The bytes the tracks hold, one by one.
Holdings(table, b, s, r, h) == [id \in DOMAIN table |-> Holding(table, b, s, r, h, id)]

\* What the pool holds is the sum of what its tracks hold, and the log.
LEMMA HeldIsTotal ==
  ASSUME NEW table, IsFiniteSet(DOMAIN table), table \in [DOMAIN table -> Track],
         NEW b \in SUBSET DOMAIN table, NEW s \in SUBSET DOMAIN table,
         NEW r \in SUBSET DOMAIN table, NEW h \in SUBSET DOMAIN table, NEW records \in Nat
  PROVE  /\ \A id \in DOMAIN table : Holdings(table, b, s, r, h)[id] \in Nat
         /\ HeldOf(table, b, s, r, h, records) =
              Total(Holdings(table, b, s, r, h), DOMAIN table)
                + kRedetectionRecordOverheadBytes * records
         /\ HeldOf(table, b, s, r, h, records) \in Nat
<1> DEFINE D == DOMAIN table
           o0 == kStructureBaselineOverheadBytes
           o1 == kStateSlotOverheadBytes
           o2 == kRedetectSlotOverheadBytes
           o3 == kTrackerHandleSlotOverheadBytes
           w0 == RecordBytes(table)
           w1 == [id \in D |-> w0[id] + (IF id \in b THEN o0 ELSE 0)]
           w2 == [id \in D |-> w1[id] + (IF id \in s THEN o1 ELSE 0)]
           w3 == [id \in D |-> w2[id] + (IF id \in r THEN o2 ELSE 0)]
           w4 == [id \in D |-> w3[id] + (IF id \in h THEN o3 ELSE 0)]
<1>1. o0 \in Nat /\ o1 \in Nat /\ o2 \in Nat /\ o3 \in Nat
  BY DEF kStructureBaselineOverheadBytes, kStateSlotOverheadBytes, kRedetectSlotOverheadBytes,
         kTrackerHandleSlotOverheadBytes
<1>2. \A id \in D : w0[id] = track_bytes(table[id]) /\ w0[id] \in Nat
  BY TrackBytesType DEF RecordBytes
<1>3. Holdings(table, b, s, r, h) = w4
  BY <1>2 DEF Holdings, Holding
<1> HIDE DEF w0, o0, o1, o2, o3
<1>4. \A id \in D : w1[id] \in Nat
  BY <1>1, <1>2
<1>5. \A id \in D : w2[id] \in Nat
  BY <1>1, <1>4
<1>6. \A id \in D : w3[id] \in Nat
  BY <1>1, <1>5
<1>7. \A id \in D : w4[id] \in Nat
  BY <1>1, <1>6
<1>8. \A id \in D : w1[id] = w0[id] + (IF id \in b THEN o0 ELSE 0)
  OBVIOUS
<1>9. \A id \in D : w2[id] = w1[id] + (IF id \in s THEN o1 ELSE 0)
  BY DEF w2
<1>10. \A id \in D : w3[id] = w2[id] + (IF id \in r THEN o2 ELSE 0)
  BY DEF w3
<1>11. \A id \in D : w4[id] = w3[id] + (IF id \in h THEN o3 ELSE 0)
  BY DEF w4
<1>12. b \cap D = b /\ s \cap D = s /\ r \cap D = r /\ h \cap D = h
  OBVIOUS
<1> DEFINE cb == Cardinality(b)
           cs == Cardinality(s)
           cr == Cardinality(r)
           ch == Cardinality(h)
<1>13. cb \in Nat /\ cs \in Nat /\ cr \in Nat /\ ch \in Nat
  <2>1. IsFiniteSet(b) /\ IsFiniteSet(s) /\ IsFiniteSet(r) /\ IsFiniteSet(h)
    BY FS_Subset
  <2> QED
    BY <2>1, FS_CardinalityType
<1> HIDE DEF w1, w2, w3, w4
<1>14. Total(w1, D) = Total(w0, D) + o0 * Cardinality(b \cap D)
  <2>1. Marked(w1, w0, D, b, o0)
    BY <1>2, <1>8 DEF Marked
  <2>2. IsFiniteSet(D) /\ o0 \in Nat
    BY <1>1
  <2> HIDE DEF D
  <2> QED
    BY <2>1, <2>2, TotalMarked
<1>15. Total(w2, D) = Total(w1, D) + o1 * Cardinality(s \cap D)
  <2>1. Marked(w2, w1, D, s, o1)
    BY <1>4, <1>9 DEF Marked
  <2>2. IsFiniteSet(D) /\ o1 \in Nat
    BY <1>1
  <2> HIDE DEF D
  <2> QED
    BY <2>1, <2>2, TotalMarked
<1>16. Total(w3, D) = Total(w2, D) + o2 * Cardinality(r \cap D)
  <2>1. Marked(w3, w2, D, r, o2)
    BY <1>5, <1>10 DEF Marked
  <2>2. IsFiniteSet(D) /\ o2 \in Nat
    BY <1>1
  <2> HIDE DEF D
  <2> QED
    BY <2>1, <2>2, TotalMarked
<1>17. Total(w4, D) = Total(w3, D) + o3 * Cardinality(h \cap D)
  <2>1. Marked(w4, w3, D, h, o3)
    BY <1>6, <1>11 DEF Marked
  <2>2. IsFiniteSet(D) /\ o3 \in Nat
    BY <1>1
  <2> HIDE DEF D
  <2> QED
    BY <2>1, <2>2, TotalMarked
<1>18. Total(w0, D) \in Nat /\ Total(w4, D) \in Nat
  <2>1. D \in SUBSET D
    OBVIOUS
  <2>2. Total(w0, D) \in Nat
    BY <1>2, <2>1, TotalType
  <2>3. Total(w4, D) \in Nat
    BY <1>7, <2>1, TotalType
  <2> QED
    BY <2>2, <2>3
<1> DEFINE sum == Total(w0, D)
           all == Total(w4, D)
           log == kRedetectionRecordOverheadBytes * records
           b0 == o0 * cb
           b1 == o1 * cs
           b2 == o2 * cr
           b3 == o3 * ch
<1>19. log \in Nat /\ b0 \in Nat /\ b1 \in Nat /\ b2 \in Nat /\ b3 \in Nat
  BY <1>1, <1>13 DEF kRedetectionRecordOverheadBytes
<1>20. Total(w1, D) = sum + b0
  BY <1>12, <1>14
<1>21. Total(w2, D) = Total(w1, D) + b1
  BY <1>12, <1>15
<1>22. Total(w3, D) = Total(w2, D) + b2
  BY <1>12, <1>16
<1>23. all = Total(w3, D) + b3
  BY <1>12, <1>17
<1>24. HeldOf(table, b, s, r, h, records) = sum + b0 + b1 + b2 + b3 + log
  BY RecordsAreTotal DEF HeldOf, o0, o1, o2, o3, w0
<1> HIDE DEF b0, b1, b2, b3, log, sum, all, cb, cs, cr, ch
<1>25. /\ HeldOf(table, b, s, r, h, records) = all + log
       /\ all + log \in Nat
  <2>1. sum \in Nat /\ all \in Nat
    BY <1>18 DEF sum, all
  <2> QED
    BY <2>1, <1>19, <1>20, <1>21, <1>22, <1>23, <1>24
<1> QED
  BY <1>3, <1>7, <1>25 DEF all, log

\* What a track of the pool holds.
HoldingOf(id) ==
  Holding(tracks, structure_baselines, DOMAIN state_slots, DOMAIN redetect_slots,
          tracker_handles, id)

\* All of them.
Held ==
  Holdings(tracks, structure_baselines, DOMAIN state_slots, DOMAIN redetect_slots,
           tracker_handles)

\* The pool of a state is one the sum above speaks of.
LEMMA PoolTotal ==
  ASSUME CoreInv, IsFiniteSet(DOMAIN tracks)
  PROVE  /\ Held = [id \in DOMAIN tracks |-> HoldingOf(id)]
         /\ \A id \in DOMAIN tracks : HoldingOf(id) \in Nat
         /\ HeldBytes = Total(Held, DOMAIN tracks)
                          + kRedetectionRecordOverheadBytes * redetection_records
         /\ HeldBytes \in Nat
<1>1. /\ structure_baselines \in SUBSET DOMAIN tracks
      /\ DOMAIN state_slots \in SUBSET DOMAIN tracks
      /\ DOMAIN redetect_slots \in SUBSET DOMAIN tracks
      /\ tracker_handles \in SUBSET DOMAIN tracks
  BY DEF CoreInv, SlotsBelongToLiveTracks, LiveIds
<1>2. tracks \in [DOMAIN tracks -> Track] /\ redetection_records \in Nat
  BY OptionsAssumption DEF CoreInv, TypeOK
<1>3. Held = [id \in DOMAIN tracks |-> HoldingOf(id)]
  BY DEF Held, Holdings, HoldingOf
<1> DEFINE d == DOMAIN tracks
           ss == DOMAIN state_slots
           rs == DOMAIN redetect_slots
<1>4. /\ \A id \in DOMAIN tracks : Held[id] \in Nat
      /\ HeldOf(tracks, structure_baselines, ss, rs, tracker_handles, redetection_records) =
           Total(Held, DOMAIN tracks) + kRedetectionRecordOverheadBytes * redetection_records
      /\ HeldOf(tracks, structure_baselines, ss, rs, tracker_handles, redetection_records) \in Nat
  <2> HIDE DEF ss, rs
  <2>1. ss \in SUBSET DOMAIN tracks /\ rs \in SUBSET DOMAIN tracks
    BY <1>1 DEF ss, rs
  <2>2. /\ \A id \in DOMAIN tracks :
             Holdings(tracks, structure_baselines, ss, rs, tracker_handles)[id] \in Nat
        /\ HeldOf(tracks, structure_baselines, ss, rs, tracker_handles, redetection_records) =
             Total(Holdings(tracks, structure_baselines, ss, rs, tracker_handles), DOMAIN tracks)
               + kRedetectionRecordOverheadBytes * redetection_records
        /\ HeldOf(tracks, structure_baselines, ss, rs, tracker_handles, redetection_records) \in Nat
    BY <1>1, <1>2, <2>1, HeldIsTotal
  <2> QED
    BY <2>2 DEF Held, ss, rs
<1> QED
  BY <1>3, <1>4, HeldHere

\* The same after a step.
LEMMA PoolTotalAfter ==
  ASSUME CoreInv', IsFiniteSet(DOMAIN tracks')
  PROVE  /\ Held' = [id \in DOMAIN tracks' |-> HoldingOf(id)']
         /\ \A id \in DOMAIN tracks' : HoldingOf(id)' \in Nat
         /\ HeldBytes' = Total(Held', DOMAIN tracks')
                          + kRedetectionRecordOverheadBytes * redetection_records'
         /\ HeldBytes' \in Nat
<1> DEFINE table == tracks'
           b == structure_baselines'
           ss == DOMAIN state_slots'
           rs == DOMAIN redetect_slots'
           h == tracker_handles'
           log == redetection_records'
<1>1. /\ b \in SUBSET DOMAIN table
      /\ ss \in SUBSET DOMAIN table
      /\ rs \in SUBSET DOMAIN table
      /\ h \in SUBSET DOMAIN table
  BY DEF CoreInv, SlotsBelongToLiveTracks, LiveIds
<1>2. table \in [DOMAIN table -> Track] /\ log \in Nat
  BY OptionsAssumption DEF CoreInv, TypeOK, Track, StateSlot, RedetectSlot
<1>3. Held' = Holdings(table, b, ss, rs, h) /\ Held' = [id \in DOMAIN tracks' |-> HoldingOf(id)']
  BY DEF Held, Holdings, HoldingOf
<1>4. HeldBytes' = HeldOf(table, b, ss, rs, h, log)
  BY HeldHere
<1>5. IsFiniteSet(DOMAIN table)
  OBVIOUS
<1>6. /\ \A id \in DOMAIN table : Holdings(table, b, ss, rs, h)[id] \in Nat
      /\ HeldOf(table, b, ss, rs, h, log) =
           Total(Holdings(table, b, ss, rs, h), DOMAIN table) + kRedetectionRecordOverheadBytes * log
      /\ HeldOf(table, b, ss, rs, h, log) \in Nat
  <2> HIDE DEF table, b, ss, rs, h, log
  <2> QED
    BY <1>1, <1>2, <1>5, HeldIsTotal
<1>7. \A id \in DOMAIN tracks' : HoldingOf(id)' \in Nat
  BY <1>3, <1>6
<1>8. HeldBytes' = Total(Held', DOMAIN tracks') + kRedetectionRecordOverheadBytes * redetection_records'
  BY <1>3, <1>4, <1>6
<1> QED
  BY <1>3, <1>4, <1>6, <1>7, <1>8

\* A step that changes what one track holds, and the log.
LEMMA OneHolding ==
  ASSUME CoreInv, CoreInv', IsFiniteSet(DOMAIN tracks), DOMAIN tracks' = DOMAIN tracks,
         NEW id \in DOMAIN tracks,
         \A k \in DOMAIN tracks \ {id} : HoldingOf(k)' = HoldingOf(k)
  PROVE  HeldBytes' = HeldBytes - HoldingOf(id) + HoldingOf(id)'
                        + kRedetectionRecordOverheadBytes * (redetection_records' - redetection_records)
<1>1. /\ Held = [k \in DOMAIN tracks |-> HoldingOf(k)]
      /\ \A k \in DOMAIN tracks : HoldingOf(k) \in Nat
      /\ HeldBytes = Total(Held, DOMAIN tracks)
                       + kRedetectionRecordOverheadBytes * redetection_records
      /\ HeldBytes \in Nat
  BY PoolTotal
<1>2. /\ Held' = [k \in DOMAIN tracks' |-> HoldingOf(k)']
      /\ \A k \in DOMAIN tracks' : HoldingOf(k)' \in Nat
      /\ HeldBytes' = Total(Held', DOMAIN tracks')
                       + kRedetectionRecordOverheadBytes * redetection_records'
      /\ HeldBytes' \in Nat
  BY PoolTotalAfter
<1> DEFINE d == DOMAIN tracks
           w == Held
           v == Held'
<1>3. \A y \in d : v[y] \in Int /\ w[y] \in Int
  BY <1>1, <1>2
<1>4. \A y \in d \ {id} : v[y] = w[y]
  BY <1>1, <1>2
<1>5. IsFiniteSet(d) /\ id \in d
  OBVIOUS
<1> HIDE DEF d, v, w
<1>6. Total(v, d) = Total(w, d) - w[id] + v[id]
  BY <1>3, <1>4, <1>5, TotalChange
<1>7. w[id] = HoldingOf(id) /\ v[id] = HoldingOf(id)'
  BY <1>1, <1>2 DEF v, w
<1>8. Total(w, d) \in Int /\ w[id] \in Int /\ v[id] \in Int
  <2>1. d \in SUBSET d /\ Int \in {Nat, Int} /\ \A y \in d : w[y] \in Int
    BY <1>3
  <2>2. Total(w, d) \in Int
    BY <1>5, <2>1, TotalType
  <2> QED
    BY <1>3, <1>5, <2>2
<1> DEFINE old == redetection_records
           new == redetection_records'
<1>9. old \in Int /\ new \in Int
  BY OptionsAssumption DEF CoreInv, TypeOK, Track, StateSlot, RedetectSlot
<1>10. HeldBytes = Total(w, d) + 48 * old
  BY <1>1 DEF w, d, kRedetectionRecordOverheadBytes
<1>11. HeldBytes' = Total(v, d) + 48 * new
  BY <1>2 DEF v, d, kRedetectionRecordOverheadBytes
<1> DEFINE hb == HeldBytes
           ha == HeldBytes'
           a == w[id]
           c == v[id]
<1>12. hb \in Int /\ ha \in Int
  BY <1>1, <1>2
<1>13. ha = hb - a + c + 48 * (new - old)
  <2> DEFINE tw == Total(w, d)
  <2>1. tw \in Int /\ a \in Int /\ c \in Int /\ hb = tw + 48 * old /\ ha = (tw - a + c) + 48 * new
    BY <1>6, <1>8, <1>10, <1>11
  <2> HIDE DEF tw, a, c, old, new, hb, ha
  <2> QED
    BY <1>9, <1>12, <2>1
<1> QED
  BY <1>7, <1>13 DEF a, c, hb, ha, old, new, kRedetectionRecordOverheadBytes

-----------------------------------------------------------------------------
(* Charging what changes *)

\* What the account relies on: the pool is finite, within its limits, and
\* never charged for more than it holds.
AccountInv ==
  /\ IsFiniteSet(DOMAIN tracks)
  /\ used_bytes \in Int
  /\ PoolWithinLimits
  /\ AccountNeverOverstates

\* A step that touches the holdings of one track only.
Alone(id) ==
  /\ DOMAIN tracks' = DOMAIN tracks
  /\ \A k \in DOMAIN tracks \ {id} :
       /\ tracks'[k] = tracks[k]
       /\ k \in structure_baselines' <=> k \in structure_baselines
       /\ k \in DOMAIN state_slots' <=> k \in DOMAIN state_slots
       /\ k \in DOMAIN redetect_slots' <=> k \in DOMAIN redetect_slots
       /\ k \in tracker_handles' <=> k \in tracker_handles

\* A step that charges what it adds and gives back what it frees.
Charged ==
  /\ DOMAIN tracks' = DOMAIN tracks
  /\ used_bytes' \in Int
  /\ HeldBytes' - used_bytes' = HeldBytes - used_bytes
  /\ used_bytes' <= used_bytes \/ used_bytes' <= PoolBudgetBytes

\* A step that charges the difference of what one track holds, and the log's.
LEMMA ChargeOne ==
  ASSUME CoreInv, CoreInv', AccountInv, NEW id \in DOMAIN tracks, Alone(id),
         used_bytes' = used_bytes + (HoldingOf(id)' - HoldingOf(id))
                         + 48 * (redetection_records' - redetection_records),
         used_bytes' <= used_bytes \/ used_bytes' <= PoolBudgetBytes
  PROVE  Charged
<1>1. DOMAIN tracks' = DOMAIN tracks /\ IsFiniteSet(DOMAIN tracks)
  BY DEF Alone, AccountInv
<1>2. \A k \in DOMAIN tracks \ {id} : HoldingOf(k)' = HoldingOf(k)
  BY DEF Alone, HoldingOf, Holding
<1>3. HeldBytes' = HeldBytes - HoldingOf(id) + HoldingOf(id)'
                     + kRedetectionRecordOverheadBytes * (redetection_records' - redetection_records)
  BY <1>1, <1>2, OneHolding
<1>4. HoldingOf(id) \in Int /\ HeldBytes \in Int
  BY <1>1, PoolTotal
<1>5. HoldingOf(id)' \in Int /\ HeldBytes' \in Int
  BY <1>1, PoolTotalAfter
<1> DEFINE old == redetection_records
           new == redetection_records'
           a == HoldingOf(id)
           c == HoldingOf(id)'
           hb == HeldBytes
           ha == HeldBytes'
           ub == used_bytes
           ua == used_bytes'
<1>6. old \in Int /\ new \in Int
  BY OptionsAssumption DEF CoreInv, TypeOK, Track, StateSlot, RedetectSlot
<1>7. ub \in Int
  BY DEF AccountInv
<1>8. a \in Int /\ c \in Int /\ hb \in Int /\ ha \in Int
  BY <1>4, <1>5
<1>9. ha = hb - a + c + 48 * (new - old) /\ ua = ub + (c - a) + 48 * (new - old)
  BY <1>3 DEF kRedetectionRecordOverheadBytes
<1>10. ua \in Int /\ ha - ua = hb - ub
  <2> HIDE DEF a, c, hb, ha, ub, ua, old, new
  <2> QED
    BY <1>6, <1>7, <1>8, <1>9
<1> HIDE DEF a, c, old, new
<1> QED
  BY <1>1, <1>10 DEF Charged

\* Adding to one template set, or to none.
LEMMA TemplateCharge ==
  ASSUME NEW n \in Nat, NEW m \in Nat
  PROVE  /\ template_bytes * (n + m) \in Nat
         /\ template_bytes * ((n + 1) + m) = template_bytes * (n + m) + template_bytes
         /\ template_bytes * (n + (m + 1)) = template_bytes * (n + m) + template_bytes
         /\ template_bytes * ((n + 1) + (m + 1)) = template_bytes * (n + m) + template_bytes + template_bytes
         /\ template_bytes * (0 + 0) = 0
<1> DEFINE t == template_bytes
<1>1. t \in Nat
  BY TemplateBytesType
<1> HIDE DEF t
<1>2. t * (n + m) \in Nat
  BY <1>1
<1>3. t * ((n + 1) + m) = t * (n + m) + t
  BY <1>1
<1>4. t * (n + (m + 1)) = t * (n + m) + t
  BY <1>1
<1>5. t * ((n + 1) + (m + 1)) = t * (n + m) + t + t
  BY <1>1
<1>6. t * (0 + 0) = 0
  BY <1>1
<1> QED
  BY <1>2, <1>3, <1>4, <1>5, <1>6 DEF t

\* A track's bytes, and those of its archive.
LEMMA ArchiveBytes ==
  ASSUME NEW track \in Track
  PROVE  /\ Archived(track) \in Track
         /\ track_bytes(Archived(track)) \in Nat
         /\ track_bytes(Archived(track)) <= track_bytes(track)
<1> DEFINE n == Len(track.templates)
           m == Len(track.negative_templates)
           p == track.position_history
           x == track.text
           archive == Archived(track)
<1>1. n \in Nat /\ m \in Nat /\ p \in Nat /\ x \in Nat
  BY LenProperties, OptionsAssumption DEF Track
<1>2. archive \in Track
  <2>1. <<>> \in Seq(Frames) /\ 0 \in 0 .. MaxPositionHistory
    BY EmptySeq, OptionsAssumption
  <2> QED
    BY <2>1 DEF Archived, Track, TrackState
<1>3. archive.templates = <<>> /\ archive.negative_templates = <<>>
      /\ archive.position_history = 0 /\ archive.text = x
  BY DEF Archived, Track
<1>4. Len(archive.templates) = 0 /\ Len(archive.negative_templates) = 0
  BY <1>3
<1>5. track_bytes(archive) = 128 + template_bytes * (0 + 0) + 32 * 0 + x
  BY <1>3, <1>4 DEF track_bytes, kTrackOverheadBytes, kObservationOverheadBytes
<1>6. track_bytes(track) = 128 + template_bytes * (n + m) + 32 * p + x
  BY DEF track_bytes, kTrackOverheadBytes, kObservationOverheadBytes
<1> DEFINE s == template_bytes * (n + m)
           z == template_bytes * (0 + 0)
<1>7. s \in Nat /\ z = 0
  BY <1>1, TemplateCharge
<1> HIDE DEF s, z, n, m, p, x, archive
<1>8. track_bytes(archive) = 128 + x
  BY <1>1, <1>5, <1>7 DEF z
<1>9. track_bytes(track) = 128 + s + 32 * p + x
  BY <1>6 DEF s
<1>10. 128 + x \in Nat /\ 128 + x <= 128 + s + 32 * p + x
  BY <1>1, <1>7
<1> QED
  BY <1>2, <1>8, <1>9, <1>10 DEF archive

\* Archiving gives back exactly what it frees.
LEMMA ArchiveCharge ==
  ASSUME CoreInv, CoreInv', AccountInv, NEW id \in LiveIds, archive_track(id),
         UNCHANGED redetection_records
  PROVE  Charged
<1> DEFINE archive == Archived(tracks[id])
           before == track_bytes(tracks[id])
           after == track_bytes(archive)
           b == IF id \in structure_baselines THEN kStructureBaselineOverheadBytes ELSE 0
           s == IF id \in DOMAIN state_slots THEN kStateSlotOverheadBytes ELSE 0
           r == IF id \in DOMAIN redetect_slots THEN kRedetectSlotOverheadBytes ELSE 0
           h == IF id \in tracker_handles THEN kTrackerHandleSlotOverheadBytes ELSE 0
<1>1. id \in DOMAIN tracks /\ tracks[id] \in Track
  BY LiveTrackFacts
<1>2. before \in Nat /\ after \in Nat /\ after <= before
  BY <1>1, ArchiveBytes, TrackBytesType
<1>3. b \in Nat /\ s \in Nat /\ r \in Nat /\ h \in Nat
  BY DEF kStructureBaselineOverheadBytes, kStateSlotOverheadBytes, kRedetectSlotOverheadBytes,
         kTrackerHandleSlotOverheadBytes
<1>4. tracks' = [tracks EXCEPT ![id] = archive] /\ release_slots({id})
  BY DEF archive_track
<1>5. used_bytes' = used_bytes - (before - after) - b - s - r - h
  BY DEF archive_track
<1>6. /\ structure_baselines' = structure_baselines \ {id}
      /\ tracker_handles' = tracker_handles \ {id}
      /\ DOMAIN state_slots' = DOMAIN state_slots \ {id}
      /\ DOMAIN redetect_slots' = DOMAIN redetect_slots \ {id}
  BY <1>4 DEF release_slots, Erase, Restrict
<1>7. Alone(id) /\ tracks'[id] = archive
  BY <1>1, <1>4, <1>6 DEF Alone
<1>8. HoldingOf(id) = before + b + s + r + h
  BY DEF HoldingOf, Holding
<1>9. HoldingOf(id)' = after + 0 + 0 + 0 + 0
  BY <1>6, <1>7 DEF HoldingOf, Holding
<1> DEFINE ua == used_bytes'
           ub == used_bytes
           x == HoldingOf(id)
           y == HoldingOf(id)'
           old == redetection_records
           new == redetection_records'
<1>10. ub \in Int /\ old \in Int /\ new = old
  BY OptionsAssumption DEF AccountInv, CoreInv, TypeOK
<1> HIDE DEF before, after, b, s, r, h, x, y, ua, ub, old, new
<1>11. ua = ub + (y - x) + 48 * (new - old) /\ ua <= ub
  BY <1>2, <1>3, <1>5, <1>8, <1>9, <1>10 DEF x, y, ua, ub
<1> QED
  BY <1>1, <1>7, <1>11, ChargeOne DEF x, y, ua, ub, old, new

\* A step that changes one track's record, and the bytes it is charged.
LEMMA RecordCharge ==
  ASSUME CoreInv, CoreInv', AccountInv, NEW id \in LiveIds, NEW track, NEW delta \in Int,
         tracks' = [tracks EXCEPT ![id] = track],
         UNCHANGED <<slotVars, redetection_records>>,
         track_bytes(track) = track_bytes(tracks[id]) + delta,
         used_bytes' = used_bytes + delta, Fits(delta)
  PROVE  Charged
<1>1. id \in DOMAIN tracks /\ tracks[id] \in Track
  BY LiveTrackFacts
<1>2. Alone(id) /\ tracks'[id] = track
  BY <1>1 DEF Alone, slotVars
<1> DEFINE before == track_bytes(tracks[id])
           b == IF id \in structure_baselines THEN kStructureBaselineOverheadBytes ELSE 0
           s == IF id \in DOMAIN state_slots THEN kStateSlotOverheadBytes ELSE 0
           r == IF id \in DOMAIN redetect_slots THEN kRedetectSlotOverheadBytes ELSE 0
           h == IF id \in tracker_handles THEN kTrackerHandleSlotOverheadBytes ELSE 0
           ua == used_bytes'
           ub == used_bytes
           x == HoldingOf(id)
           y == HoldingOf(id)'
           old == redetection_records
           new == redetection_records'
<1>3. b \in Nat /\ s \in Nat /\ r \in Nat /\ h \in Nat
  BY DEF kStructureBaselineOverheadBytes, kStateSlotOverheadBytes, kRedetectSlotOverheadBytes,
         kTrackerHandleSlotOverheadBytes
<1>4. x = before + b + s + r + h
  BY DEF HoldingOf, Holding
<1>5. y = (before + delta) + b + s + r + h
  BY <1>2 DEF HoldingOf, Holding, slotVars
<1>6. before \in Nat
  BY <1>1, TrackBytesType
<1>7. ub \in Int /\ old \in Int /\ new = old /\ ua = ub + delta /\ ua <= PoolBudgetBytes
  BY OptionsAssumption DEF AccountInv, CoreInv, TypeOK, Fits
<1> HIDE DEF before, b, s, r, h, x, y, ua, ub, old, new
<1>8. ua = ub + (y - x) + 48 * (new - old)
  BY <1>3, <1>4, <1>5, <1>6, <1>7
<1> QED
  BY <1>1, <1>2, <1>7, <1>8, ChargeOne DEF x, y, ua, ub, old, new

\* An observation is charged unless it takes the place of the oldest.
LEMMA ObservationCharge ==
  ASSUME CoreInv, CoreInv', AccountInv, NEW id \in TrackIds, record_observation(id)
  PROVE  Charged
<1> DEFINE p == tracks[id].position_history
           full == p >= MaxPositionHistory
           delta == IF full THEN 0 ELSE kObservationOverheadBytes
           track == [tracks[id] EXCEPT !.position_history = IF full THEN p ELSE p + 1]
<1>1. id \in LiveIds /\ id \in DOMAIN tracks /\ tracks[id] \in Track
  BY LiveTrackFacts DEF record_observation
<1>2. tracks' = [tracks EXCEPT ![id] = track]
  BY <1>1 DEF record_observation
<1>3. /\ used_bytes' = used_bytes + delta
      /\ Fits(delta)
      /\ UNCHANGED <<slotVars, redetection_records>>
  BY DEF record_observation
<1>4. /\ track.templates = tracks[id].templates
      /\ track.negative_templates = tracks[id].negative_templates
      /\ track.text = tracks[id].text
      /\ track.position_history = IF full THEN p ELSE p + 1
  BY <1>1 DEF Track
<1> DEFINE n == Len(tracks[id].templates)
           m == Len(tracks[id].negative_templates)
           x == tracks[id].text
           s == template_bytes * (n + m)
           q == track.position_history
<1>5. n \in Nat /\ m \in Nat /\ p \in Nat /\ x \in Nat
  BY <1>1, LenProperties, OptionsAssumption DEF Track
<1>6. s \in Nat
  BY <1>5, TemplateCharge
<1>7. track_bytes(tracks[id]) = 128 + s + 32 * p + x
  BY DEF track_bytes, kTrackOverheadBytes, kObservationOverheadBytes
<1>8. track_bytes(track) = 128 + s + 32 * q + x
  <2> HIDE DEF track
  <2> QED
    BY <1>4 DEF track_bytes, kTrackOverheadBytes, kObservationOverheadBytes
<1>9. delta \in Int /\ q = (IF full THEN p ELSE p + 1) /\ delta = (IF full THEN 0 ELSE 32)
  BY <1>4 DEF kObservationOverheadBytes
<1> DEFINE tb == track_bytes(tracks[id])
           ta == track_bytes(track)
<1>10. ta = tb + delta
  <2>1. tb = 128 + s + 32 * p + x /\ ta = 128 + s + 32 * q + x
    BY <1>7, <1>8
  <2> HIDE DEF delta, q, s, n, m, x, p, ta, tb
  <2> QED
    BY <1>5, <1>6, <1>9, <2>1
<1> HIDE DEF delta, track
<1> QED
  BY <1>1, <1>2, <1>3, <1>9, <1>10, RecordCharge DEF ta, tb

\* The bytes of two template sets of which each may have grown by one.
LEMMA GrownSets ==
  ASSUME NEW n \in Nat, NEW m \in Nat, NEW n1 \in {n, n + 1}, NEW m1 \in {m, m + 1}
  PROVE  template_bytes * (n1 + m1) =
           template_bytes * (n + m) + (IF n1 = n THEN 0 ELSE template_bytes)
             + (IF m1 = m THEN 0 ELSE template_bytes)
<1> DEFINE s == template_bytes * (n + m)
<1>1. template_bytes \in Nat /\ s \in Nat
  BY TemplateBytesType, TemplateCharge
<1>2. CASE n1 = n /\ m1 = m
  BY <1>1, <1>2
<1>3. CASE n1 = n + 1 /\ m1 = m
  BY <1>1, <1>3, TemplateCharge
<1>4. CASE n1 = n /\ m1 = m + 1
  BY <1>1, <1>4, TemplateCharge
<1>5. CASE n1 = n + 1 /\ m1 = m + 1
  BY <1>1, <1>5, TemplateCharge
<1> QED
  BY <1>2, <1>3, <1>4, <1>5

\* Two records that differ in their template sets.
LEMMA StoredBytes ==
  ASSUME NEW track \in Track, NEW after \in Track,
         after.position_history = track.position_history, after.text = track.text,
         Len(after.templates) \in {Len(track.templates), Len(track.templates) + 1},
         Len(after.negative_templates)
           \in {Len(track.negative_templates), Len(track.negative_templates) + 1}
  PROVE  track_bytes(after) = track_bytes(track)
           + (IF Len(after.templates) = Len(track.templates) THEN 0 ELSE template_bytes)
           + (IF Len(after.negative_templates) = Len(track.negative_templates)
              THEN 0 ELSE template_bytes)
<1> DEFINE n == Len(track.templates)
           m == Len(track.negative_templates)
           n1 == Len(after.templates)
           m1 == Len(after.negative_templates)
           p == kObservationOverheadBytes * track.position_history
           x == track.text
           s == template_bytes * (n + m)
           s1 == template_bytes * (n1 + m1)
           d == IF n1 = n THEN 0 ELSE template_bytes
           e == IF m1 = m THEN 0 ELSE template_bytes
<1>1. n \in Nat /\ m \in Nat /\ n1 \in {n, n + 1} /\ m1 \in {m, m + 1}
  BY LenProperties DEF Track
<1>2. p \in Nat /\ x \in Nat /\ d \in Nat /\ e \in Nat
  <2>1. track.position_history \in Nat /\ x \in Nat
    BY OptionsAssumption DEF Track
  <2>2. p \in Nat
    BY <2>1 DEF kObservationOverheadBytes
  <2>3. d \in Nat /\ e \in Nat
    BY TemplateBytesType
  <2> QED
    BY <2>1, <2>2, <2>3
<1>3. s \in Nat /\ s1 = s + d + e
  <2> HIDE DEF n, m, n1, m1
  <2>1. s \in Nat
    BY <1>1, TemplateCharge
  <2>2. s1 = s + d + e
    BY <1>1, GrownSets
  <2> QED
    BY <2>1, <2>2
<1>4. track_bytes(track) = 128 + s + p + x
  BY DEF track_bytes, kTrackOverheadBytes
<1>5. track_bytes(after) = 128 + s1 + p + x
  BY DEF track_bytes, kTrackOverheadBytes
<1>6. track_bytes(after) = track_bytes(track) + d + e
  <2> HIDE DEF s, s1, p, x, d, e
  <2> QED
    BY <1>2, <1>3, <1>4, <1>5
<1> QED
  BY <1>6 DEF d, e, n, m, n1, m1

\* Storing into a set: its length and what is charged for it.
LEMMA StoreLength ==
  ASSUME NEW set \in Seq(Frames), NEW frame \in Frames, NEW capacity \in Nat \ {0},
         NEW pinned \in 0 .. 1, Len(set) >= capacity => Len(set) > pinned
  PROVE  LET after == DropOldestAppend(set, capacity, pinned, frame)
         IN  /\ after \in Seq(Frames)
             /\ Len(after) \in {Len(set), Len(set) + 1}
             /\ StoreDelta(set, capacity) = IF Len(after) = Len(set) THEN 0 ELSE template_bytes
<1> DEFINE after == DropOldestAppend(set, capacity, pinned, frame)
<1>1. /\ after \in Seq(Frames)
      /\ Len(after) = IF Len(set) >= capacity THEN Len(set) ELSE Len(set) + 1
  BY DropOldestAppendType
<1>2. Len(set) \in Nat
  BY LenProperties
<1> HIDE DEF after
<1>3. /\ after \in Seq(Frames)
      /\ Len(after) \in {Len(set), Len(set) + 1}
      /\ StoreDelta(set, capacity) = IF Len(after) = Len(set) THEN 0 ELSE template_bytes
  BY <1>1, <1>2 DEF StoreDelta
<1> QED
  BY <1>3 DEF after

\* A stored template is charged when the set grows.
LEMMA AddTemplateCharge ==
  ASSUME CoreInv, CoreInv', AccountInv, NEW id \in TrackIds, NEW frame \in Frames,
         add_template(id, frame)
  PROVE  Charged
<1> DEFINE set == tracks[id].templates
           grown == DropOldestAppend(set, MaxTemplates, 1, frame)
           track == [tracks[id] EXCEPT !.templates = grown]
           delta == StoreDelta(set, MaxTemplates)
<1>1. /\ id \in LiveIds
      /\ tracks' = [tracks EXCEPT ![id] = track]
      /\ Len(set) >= MaxTemplates => Len(set) > 1
      /\ Fits(delta)
      /\ used_bytes' = used_bytes + delta
      /\ UNCHANGED <<slotVars, redetection_records>>
  BY DEF add_template, CanStore
<1>2. tracks[id] \in Track /\ set \in Seq(Frames)
  BY <1>1, LiveTrackFacts DEF Track
<1>3. /\ grown \in Seq(Frames)
      /\ Len(grown) \in {Len(set), Len(set) + 1}
      /\ delta = IF Len(grown) = Len(set) THEN 0 ELSE template_bytes
  <2> HIDE DEF set
  <2> QED
    BY <1>1, <1>2, StoreLength, MaxTemplatesAssumption
<1> HIDE DEF grown
<1>4. /\ track \in Track
      /\ track.templates = grown
      /\ track.negative_templates = tracks[id].negative_templates
      /\ track.position_history = tracks[id].position_history
      /\ track.text = tracks[id].text
  BY <1>2, <1>3 DEF Track
<1> HIDE DEF track
<1>5. track_bytes(track) = track_bytes(tracks[id]) + delta + 0
  BY <1>2, <1>3, <1>4, StoredBytes
<1>6. delta \in Int /\ track_bytes(tracks[id]) \in Int
  BY <1>2, <1>3, TemplateBytesType, TrackBytesType
<1>7. track_bytes(track) = track_bytes(tracks[id]) + delta
  BY <1>5, <1>6
<1> HIDE DEF delta
<1> QED
  BY <1>1, <1>6, <1>7, RecordCharge

\* So is a stored impostor.
LEMMA AddNegativeTemplateCharge ==
  ASSUME CoreInv, CoreInv', AccountInv, NEW id \in TrackIds, NEW frame \in Frames,
         add_negative_template(id, frame)
  PROVE  Charged
<1> DEFINE set == tracks[id].negative_templates
           grown == DropOldestAppend(set, MaxNegativeTemplates, 0, frame)
           track == [tracks[id] EXCEPT !.negative_templates = grown]
           delta == StoreDelta(set, MaxNegativeTemplates)
<1>1. /\ id \in LiveIds
      /\ MaxNegativeTemplates # 0
      /\ tracks' = [tracks EXCEPT ![id] = track]
      /\ Len(set) >= MaxNegativeTemplates => Len(set) > 0
      /\ Fits(delta)
      /\ used_bytes' = used_bytes + delta
      /\ UNCHANGED <<slotVars, redetection_records>>
  BY DEF add_negative_template, CanStore
<1>2. tracks[id] \in Track /\ set \in Seq(Frames)
  BY <1>1, LiveTrackFacts DEF Track
<1>3. /\ grown \in Seq(Frames)
      /\ Len(grown) \in {Len(set), Len(set) + 1}
      /\ delta = IF Len(grown) = Len(set) THEN 0 ELSE template_bytes
  <2> HIDE DEF set
  <2> QED
    BY <1>1, <1>2, StoreLength, MaxNegativeTemplatesAssumption
<1> HIDE DEF grown
<1>4. /\ track \in Track
      /\ track.templates = tracks[id].templates
      /\ track.negative_templates = grown
      /\ track.position_history = tracks[id].position_history
      /\ track.text = tracks[id].text
  BY <1>2, <1>3 DEF Track
<1> HIDE DEF track
<1>5. track_bytes(track) = track_bytes(tracks[id]) + 0 + delta
  BY <1>2, <1>3, <1>4, StoredBytes
<1>6. delta \in Int /\ track_bytes(tracks[id]) \in Int
  BY <1>2, <1>3, TemplateBytesType, TrackBytesType
<1>7. track_bytes(track) = track_bytes(tracks[id]) + delta
  BY <1>5, <1>6
<1> HIDE DEF delta
<1> QED
  BY <1>1, <1>6, <1>7, RecordCharge

\* A commit is charged for the templates and the slot it plans.
LEMMA CommitCharge ==
  ASSUME CoreInv, CoreInv', AccountInv, NEW id \in TrackIds, NEW e \in Evidence,
         NEW frame \in Frames, commit_track_evidence(id, e, frame)
  PROVE  Charged
<1> DEFINE track == tracks[id]
           plan  == CommitPlan(id, e, frame)
           slot  == [insufficient_streak |-> plan.transition.insufficient_streak,
                     lost_sequence       |-> plan.transition.lost_sequence]
           after == apply_commit_stores(track, plan, e, frame)
           delta == planned_store_delta(track, plan)
<1>1. /\ id \in LiveIds
      /\ tracks' = [tracks EXCEPT ![id] = after]
      /\ state_slots' = IF plan.slot_allocation_needed \/ id \in DOMAIN state_slots
                        THEN Put(state_slots, id, slot) ELSE state_slots
      /\ Fits(delta)
      /\ used_bytes' = used_bytes + delta
      /\ UNCHANGED <<structure_baselines, redetect_slots, tracker_handles, redetection_records>>
  BY DEF commit_track_evidence
<1>2. id \in DOMAIN tracks /\ track \in Track
  BY <1>1, LiveTrackFacts
<1>3. /\ plan.want_positive => PositiveCapturePolicy
      /\ plan.want_negative => NegativeCapturePolicy
      /\ plan.slot_allocation_needed => id \notin DOMAIN state_slots
      /\ plan.want_positive \in BOOLEAN
      /\ plan.want_negative \in BOOLEAN
      /\ plan.slot_allocation_needed \in BOOLEAN
  BY DEF CommitPlan
<1>4. /\ DOMAIN tracks' = DOMAIN tracks
      /\ tracks'[id] = after
      /\ \A k \in DOMAIN tracks \ {id} : tracks'[k] = tracks[k]
  <2> HIDE DEF after
  <2> QED
    BY <1>1, <1>2 DEF CoreInv, TypeOK
<1>5. after \in Track
  BY <1>2, <1>4 DEF CoreInv, TypeOK, Track, StateSlot, RedetectSlot
<1> HIDE DEF plan, track
<1> DEFINE positives == IF plan.want_positive
                        THEN DropOldestAppend(track.templates, MaxTemplates, 1, frame)
                        ELSE track.templates
           negatives == IF plan.want_negative
                        THEN DropOldestAppend(track.negative_templates, MaxNegativeTemplates, 0, frame)
                        ELSE track.negative_templates
           dp == IF plan.want_positive THEN StoreDelta(track.templates, MaxTemplates) ELSE 0
           dn == IF plan.want_negative
                 THEN StoreDelta(track.negative_templates, MaxNegativeTemplates) ELSE 0
           ds == IF plan.slot_allocation_needed THEN kStateSlotOverheadBytes ELSE 0
<1>6. /\ after.templates = positives
      /\ after.negative_templates = negatives
      /\ after.position_history = track.position_history
      /\ after.text = track.text
  BY <1>2 DEF apply_commit_stores, Track
<1>7. track.templates \in Seq(Frames) /\ track.negative_templates \in Seq(Frames)
  BY <1>2 DEF Track
<1>8. /\ Len(positives) \in {Len(track.templates), Len(track.templates) + 1}
      /\ dp = IF Len(positives) = Len(track.templates) THEN 0 ELSE template_bytes
  <2>1. CASE plan.want_positive
    <3> DEFINE old == track.templates
    <3>1. old \in Seq(Frames) /\ (Len(old) >= MaxTemplates => Len(old) > 1)
      BY <1>3, <1>7, <2>1, MaxTemplatesAssumption, LenProperties DEF PositiveCapturePolicy
    <3> HIDE DEF old
    <3>2. LET new == DropOldestAppend(old, MaxTemplates, 1, frame)
          IN  /\ new \in Seq(Frames)
              /\ Len(new) \in {Len(old), Len(old) + 1}
              /\ StoreDelta(old, MaxTemplates) = IF Len(new) = Len(old) THEN 0 ELSE template_bytes
      BY <3>1, StoreLength, MaxTemplatesAssumption
    <3> QED
      BY <2>1, <3>2 DEF old
  <2>2. CASE ~plan.want_positive
    BY <2>2
  <2> QED
    BY <2>1, <2>2
<1>9. /\ Len(negatives) \in {Len(track.negative_templates), Len(track.negative_templates) + 1}
      /\ dn = IF Len(negatives) = Len(track.negative_templates) THEN 0 ELSE template_bytes
  <2>1. CASE plan.want_negative
    <3> DEFINE old == track.negative_templates
    <3>1. old \in Seq(Frames) /\ (Len(old) >= MaxNegativeTemplates => Len(old) > 0)
          /\ MaxNegativeTemplates \in Nat \ {0}
      BY <1>3, <1>7, <2>1, MaxNegativeTemplatesAssumption, LenProperties DEF NegativeCapturePolicy
    <3> HIDE DEF old
    <3>2. LET new == DropOldestAppend(old, MaxNegativeTemplates, 0, frame)
          IN  /\ new \in Seq(Frames)
              /\ Len(new) \in {Len(old), Len(old) + 1}
              /\ StoreDelta(old, MaxNegativeTemplates) =
                   IF Len(new) = Len(old) THEN 0 ELSE template_bytes
      BY <3>1, StoreLength
    <3> QED
      BY <2>1, <3>2 DEF old
  <2>2. CASE ~plan.want_negative
    BY <2>2
  <2> QED
    BY <2>1, <2>2
<1>10. delta = ds + dp + dn
  BY DEF planned_store_delta
<1> HIDE DEF after, positives, negatives, dp, dn
<1>11. track_bytes(after) = track_bytes(track) + dp + dn
  BY <1>2, <1>5, <1>6, <1>8, <1>9, StoredBytes
<1>12. dp \in Nat /\ dn \in Nat /\ ds \in Nat /\ track_bytes(track) \in Nat
  BY <1>2, <1>8, <1>9, TemplateBytesType, TrackBytesType DEF kStateSlotOverheadBytes
<1>13. DOMAIN state_slots' = DOMAIN state_slots \cup
                               (IF plan.slot_allocation_needed THEN {id} ELSE {})
  <2> HIDE DEF slot
  <2> QED
    BY <1>1 DEF Put
<1>14. Alone(id)
  BY <1>1, <1>4, <1>13 DEF Alone
<1> DEFINE before == track_bytes(track)
           b == IF id \in structure_baselines THEN kStructureBaselineOverheadBytes ELSE 0
           s == IF id \in DOMAIN state_slots THEN kStateSlotOverheadBytes ELSE 0
           s1 == IF id \in DOMAIN state_slots' THEN kStateSlotOverheadBytes ELSE 0
           r == IF id \in DOMAIN redetect_slots THEN kRedetectSlotOverheadBytes ELSE 0
           h == IF id \in tracker_handles THEN kTrackerHandleSlotOverheadBytes ELSE 0
           ua == used_bytes'
           ub == used_bytes
           x == HoldingOf(id)
           y == HoldingOf(id)'
           old == redetection_records
           new == redetection_records'
<1>15. b \in Nat /\ s \in Nat /\ s1 \in Nat /\ r \in Nat /\ h \in Nat /\ s1 = s + ds
  BY <1>3, <1>13
     DEF kStructureBaselineOverheadBytes, kStateSlotOverheadBytes, kRedetectSlotOverheadBytes,
         kTrackerHandleSlotOverheadBytes
<1>16. x = before + b + s + r + h
  BY DEF HoldingOf, Holding, track
<1>17. y = (before + dp + dn) + b + s1 + r + h
  BY <1>1, <1>4, <1>11 DEF HoldingOf, Holding
<1>18. ub \in Int /\ old \in Int /\ new = old /\ ua = ub + (ds + dp + dn) /\ ua <= PoolBudgetBytes
  BY <1>1, <1>10, OptionsAssumption DEF AccountInv, CoreInv, TypeOK, Fits
<1>19. before \in Nat /\ dp \in Nat /\ dn \in Nat /\ ds \in Nat
  BY <1>12
<1> HIDE DEF before, b, s, s1, r, h, x, y, ua, ub, old, new, ds
<1>20. ua = ub + (y - x) + 48 * (new - old)
  BY <1>15, <1>16, <1>17, <1>18, <1>19
<1> QED
  BY <1>2, <1>14, <1>18, <1>20, ChargeOne DEF x, y, ua, ub, old, new

\* The slots a track holds, each with its bytes.
SlotBytes(id) ==
  (IF id \in structure_baselines THEN kStructureBaselineOverheadBytes ELSE 0)
    + (IF id \in DOMAIN state_slots THEN kStateSlotOverheadBytes ELSE 0)
    + (IF id \in DOMAIN redetect_slots THEN kRedetectSlotOverheadBytes ELSE 0)
    + (IF id \in tracker_handles THEN kTrackerHandleSlotOverheadBytes ELSE 0)

\* A step that keeps the records and changes the slots of one track.
LEMMA SlotCharge ==
  ASSUME CoreInv, CoreInv', AccountInv, NEW id \in DOMAIN tracks, UNCHANGED tracks, Alone(id),
         used_bytes' = used_bytes + (SlotBytes(id)' - SlotBytes(id))
                         + 48 * (redetection_records' - redetection_records),
         used_bytes' <= used_bytes \/ used_bytes' <= PoolBudgetBytes
  PROVE  Charged
<1> DEFINE before == track_bytes(tracks[id])
           b == IF id \in structure_baselines THEN kStructureBaselineOverheadBytes ELSE 0
           s == IF id \in DOMAIN state_slots THEN kStateSlotOverheadBytes ELSE 0
           r == IF id \in DOMAIN redetect_slots THEN kRedetectSlotOverheadBytes ELSE 0
           h == IF id \in tracker_handles THEN kTrackerHandleSlotOverheadBytes ELSE 0
           b1 == IF id \in structure_baselines' THEN kStructureBaselineOverheadBytes ELSE 0
           s1 == IF id \in DOMAIN state_slots' THEN kStateSlotOverheadBytes ELSE 0
           r1 == IF id \in DOMAIN redetect_slots' THEN kRedetectSlotOverheadBytes ELSE 0
           h1 == IF id \in tracker_handles' THEN kTrackerHandleSlotOverheadBytes ELSE 0
<1>1. before \in Nat
  BY TrackBytesType DEF CoreInv, TypeOK
<1>2. /\ b \in Nat /\ s \in Nat /\ r \in Nat /\ h \in Nat
      /\ b1 \in Nat /\ s1 \in Nat /\ r1 \in Nat /\ h1 \in Nat
  BY DEF kStructureBaselineOverheadBytes, kStateSlotOverheadBytes, kRedetectSlotOverheadBytes,
         kTrackerHandleSlotOverheadBytes
<1>3. HoldingOf(id) = before + b + s + r + h
  BY DEF HoldingOf, Holding
<1>4. HoldingOf(id)' = before + b1 + s1 + r1 + h1
  BY DEF HoldingOf, Holding
<1>5. SlotBytes(id) = b + s + r + h
  BY DEF SlotBytes
<1>6. SlotBytes(id)' = b1 + s1 + r1 + h1
  BY DEF SlotBytes
<1>7. HoldingOf(id)' - HoldingOf(id) = SlotBytes(id)' - SlotBytes(id)
  <2> HIDE DEF before, b, s, r, h, b1, s1, r1, h1
  <2> QED
    BY <1>1, <1>2, <1>3, <1>4, <1>5, <1>6
<1> QED
  BY <1>7, ChargeOne

\* What follows from the account of a state and from Fits.
LEMMA AccountFacts ==
  ASSUME CoreInv, AccountInv
  PROVE  /\ used_bytes \in Int
         /\ used_bytes <= PoolBudgetBytes
         /\ redetection_records \in Int
         /\ 48 * (redetection_records - redetection_records) = 0
BY OptionsAssumption DEF CoreInv, TypeOK, AccountInv, PoolWithinLimits

\* A new baseline is charged its slot.
LEMMA BaselineCharge ==
  ASSUME CoreInv, CoreInv', AccountInv, NEW id \in TrackIds, record_structure_baseline(id)
  PROVE  Charged
<1>1. /\ id \in DOMAIN tracks /\ id \notin structure_baselines
      /\ UNCHANGED tracks /\ UNCHANGED redetection_records
      /\ Fits(32) /\ used_bytes' = used_bytes + 32
  BY DEF record_structure_baseline, LiveIds, kStructureBaselineOverheadBytes
<1>2. Alone(id)
  BY DEF record_structure_baseline, Alone
<1>3. SlotBytes(id)' - SlotBytes(id) = 32
  BY <1>1 DEF record_structure_baseline, SlotBytes, kStructureBaselineOverheadBytes,
              kStateSlotOverheadBytes, kRedetectSlotOverheadBytes, kTrackerHandleSlotOverheadBytes
<1>4. used_bytes' = used_bytes + (SlotBytes(id)' - SlotBytes(id))
                      + 48 * (redetection_records' - redetection_records)
  BY <1>1, <1>3, AccountFacts
<1>5. used_bytes' <= PoolBudgetBytes
  BY <1>1 DEF Fits
<1> QED
  BY <1>1, <1>2, <1>4, <1>5, SlotCharge

\* A new session is charged its slot.
LEMMA AttachCharge ==
  ASSUME CoreInv, CoreInv', AccountInv, NEW id \in TrackIds, attach_tracker_session(id)
  PROVE  Charged
<1>1. /\ id \in DOMAIN tracks /\ id \notin tracker_handles
      /\ UNCHANGED tracks /\ UNCHANGED redetection_records
      /\ Fits(32) /\ used_bytes' = used_bytes + 32
  BY DEF attach_tracker_session, LiveIds, kTrackerHandleSlotOverheadBytes
<1>2. Alone(id)
  BY DEF attach_tracker_session, Alone
<1>3. SlotBytes(id)' - SlotBytes(id) = 32
  BY <1>1 DEF attach_tracker_session, SlotBytes, kStructureBaselineOverheadBytes,
              kStateSlotOverheadBytes, kRedetectSlotOverheadBytes, kTrackerHandleSlotOverheadBytes
<1>4. used_bytes' = used_bytes + (SlotBytes(id)' - SlotBytes(id))
                      + 48 * (redetection_records' - redetection_records)
  BY <1>1, <1>3, AccountFacts
<1>5. used_bytes' <= PoolBudgetBytes
  BY <1>1 DEF Fits
<1> QED
  BY <1>1, <1>2, <1>4, <1>5, SlotCharge

\* A detached session gives its slot back.
LEMMA DetachCharge ==
  ASSUME CoreInv, CoreInv', AccountInv, NEW id \in TrackIds, detach_tracker_session(id)
  PROVE  Charged
<1>1. /\ id \in DOMAIN tracks /\ id \in tracker_handles
      /\ UNCHANGED tracks /\ UNCHANGED redetection_records
      /\ used_bytes' = used_bytes - 32
  BY DEF detach_tracker_session, CoreInv, SlotsBelongToLiveTracks, LiveIds,
         kTrackerHandleSlotOverheadBytes
<1>2. Alone(id)
  BY DEF detach_tracker_session, Alone
<1>3. SlotBytes(id)' - SlotBytes(id) = -32
  BY <1>1 DEF detach_tracker_session, SlotBytes, kStructureBaselineOverheadBytes,
              kStateSlotOverheadBytes, kRedetectSlotOverheadBytes, kTrackerHandleSlotOverheadBytes
<1>4. used_bytes' = used_bytes + (SlotBytes(id)' - SlotBytes(id))
                      + 48 * (redetection_records' - redetection_records)
  BY <1>1, <1>3, AccountFacts
<1>5. used_bytes' <= used_bytes
  BY <1>1, AccountFacts
<1> QED
  BY <1>1, <1>2, <1>4, <1>5, SlotCharge

\* A failed attempt is charged its slot once, or the track is archived.
LEMMA FailureCharge ==
  ASSUME CoreInv, CoreInv', AccountInv, NEW id \in TrackIds, NEW frame \in Frames,
         record_redetection_failure(id, frame)
  PROVE  Charged
<1> DEFINE held == id \in DOMAIN redetect_slots
           delta == IF held THEN 0 ELSE kRedetectSlotOverheadBytes
<1>1. id \in LiveIds /\ id \in DOMAIN tracks /\ UNCHANGED redetection_records
  BY DEF record_redetection_failure, LiveIds
<1>2. CASE archive_track(id)
  BY <1>1, <1>2, ArchiveCharge
<1>3. CASE ~archive_track(id)
  <2>1. PICK slot :
          /\ Fits(delta)
          /\ redetect_slots' = Put(redetect_slots, id, slot)
          /\ used_bytes' = used_bytes + delta
          /\ UNCHANGED <<tracks, structure_baselines, state_slots, tracker_handles>>
    BY <1>3 DEF record_redetection_failure
  <2>2. DOMAIN redetect_slots' = DOMAIN redetect_slots \cup {id}
    BY <2>1 DEF Put
  <2>3. Alone(id)
    BY <2>1, <2>2 DEF Alone
  <2>4. SlotBytes(id)' - SlotBytes(id) = delta /\ delta \in Int
    BY <2>1, <2>2 DEF SlotBytes, kStructureBaselineOverheadBytes,
                      kStateSlotOverheadBytes, kRedetectSlotOverheadBytes, kTrackerHandleSlotOverheadBytes
  <2> HIDE DEF delta
  <2>5. used_bytes' = used_bytes + (SlotBytes(id)' - SlotBytes(id))
                        + 48 * (redetection_records' - redetection_records)
    BY <1>1, <2>1, <2>4, AccountFacts
  <2>6. used_bytes' <= PoolBudgetBytes
    BY <2>1 DEF Fits
  <2> QED
    BY <1>1, <2>1, <2>3, <2>5, <2>6, SlotCharge
<1> QED
  BY <1>2, <1>3

\* One more entry of the log, unless it takes the place of the oldest.
LEMMA LogCharge ==
  ASSUME CoreInv, append_redetection_record
  PROVE  /\ RecordDelta \in Nat
         /\ RecordDelta = 48 * (redetection_records' - redetection_records)
         /\ used_bytes + RecordDelta <= PoolBudgetBytes
BY OptionsAssumption
   DEF append_redetection_record, RecordDelta, Fits, CoreInv, TypeOK, kRedetectionRecordOverheadBytes

\* A recapture is logged and gives the redetection slot back.
LEMMA RecaptureCharge ==
  ASSUME CoreInv, CoreInv', AccountInv, NEW id \in TrackIds, record_redetection_recapture(id)
  PROVE  Charged
<1> DEFINE freed == IF id \in DOMAIN redetect_slots THEN kRedetectSlotOverheadBytes ELSE 0
<1>1. /\ id \in DOMAIN tracks
      /\ append_redetection_record
      /\ used_bytes' = used_bytes + RecordDelta - freed
      /\ UNCHANGED <<tracks, structure_baselines, state_slots, tracker_handles>>
      /\ DOMAIN redetect_slots' = DOMAIN redetect_slots \ {id}
  BY DEF record_redetection_recapture, LiveIds, Erase, Restrict
<1>2. Alone(id)
  BY <1>1 DEF Alone
<1>3. SlotBytes(id)' - SlotBytes(id) = -freed /\ freed \in Nat
  BY <1>1 DEF SlotBytes, kStructureBaselineOverheadBytes,
              kStateSlotOverheadBytes, kRedetectSlotOverheadBytes, kTrackerHandleSlotOverheadBytes
<1> DEFINE log == 48 * (redetection_records' - redetection_records)
           slots == SlotBytes(id)' - SlotBytes(id)
           ua == used_bytes'
           ub == used_bytes
<1>4. RecordDelta \in Nat /\ RecordDelta = log /\ ub + RecordDelta <= PoolBudgetBytes
  BY <1>1, LogCharge
<1>5. ub \in Int /\ PoolBudgetBytes \in Int /\ slots = -freed
  BY <1>3, AccountFacts, OptionsAssumption
<1> HIDE DEF freed, log, slots
<1>6. ua = ub + slots + log /\ ua <= PoolBudgetBytes
  BY <1>1, <1>3, <1>4, <1>5
<1> QED
  BY <1>1, <1>2, <1>6, SlotCharge DEF log, slots

\* An association is logged and touches no slot.
LEMMA AssociationCharge ==
  ASSUME CoreInv, CoreInv', AccountInv, NEW p \in TrackIds, NEW s \in TrackIds,
         record_redetection_association(p, s)
  PROVE  Charged
<1>1. /\ p \in DOMAIN tracks
      /\ append_redetection_record
      /\ used_bytes' = used_bytes + RecordDelta
      /\ UNCHANGED <<tracks, structure_baselines, state_slots, redetect_slots, tracker_handles>>
  BY DEF record_redetection_association, slotVars
<1>2. Alone(p)
  BY <1>1 DEF Alone
<1>3. SlotBytes(p)' - SlotBytes(p) = 0
  BY <1>1 DEF SlotBytes, kStructureBaselineOverheadBytes,
              kStateSlotOverheadBytes, kRedetectSlotOverheadBytes, kTrackerHandleSlotOverheadBytes
<1> DEFINE log == 48 * (redetection_records' - redetection_records)
           slots == SlotBytes(p)' - SlotBytes(p)
           ua == used_bytes'
           ub == used_bytes
<1>4. RecordDelta \in Nat /\ RecordDelta = log /\ ub + RecordDelta <= PoolBudgetBytes
  BY <1>1, LogCharge
<1>5. ub \in Int /\ PoolBudgetBytes \in Int /\ slots = 0
  BY <1>3, AccountFacts, OptionsAssumption
<1> HIDE DEF log, slots
<1>6. ua = ub + slots + log /\ ua <= PoolBudgetBytes
  BY <1>1, <1>4, <1>5
<1> QED
  BY <1>1, <1>2, <1>6, SlotCharge DEF log, slots

\* A step that keeps what every track holds.
LEMMA NothingCharged ==
  ASSUME CoreInv, CoreInv', AccountInv, DOMAIN tracks' = DOMAIN tracks,
         \A k \in DOMAIN tracks : HoldingOf(k)' = HoldingOf(k),
         UNCHANGED redetection_records, used_bytes' = used_bytes
  PROVE  Charged
<1>1. IsFiniteSet(DOMAIN tracks) /\ IsFiniteSet(DOMAIN tracks')
  BY DEF AccountInv
<1>2. /\ Held = [k \in DOMAIN tracks |-> HoldingOf(k)]
      /\ HeldBytes = Total(Held, DOMAIN tracks)
                       + kRedetectionRecordOverheadBytes * redetection_records
      /\ HeldBytes \in Nat
  BY <1>1, PoolTotal
<1>3. /\ Held' = [k \in DOMAIN tracks' |-> HoldingOf(k)']
      /\ HeldBytes' = Total(Held', DOMAIN tracks')
                       + kRedetectionRecordOverheadBytes * redetection_records'
  BY <1>1, PoolTotalAfter
<1>4. Held' = Held
  BY <1>2, <1>3
<1> DEFINE w == Held
           v == Held'
           d == DOMAIN tracks
<1>5. Total(v, d) = Total(w, d)
  BY <1>4
<1>6. HeldBytes' = HeldBytes
  <2> HIDE DEF w, v, d
  <2> QED
    BY <1>2, <1>3, <1>5 DEF v, w, d
<1> QED
  BY <1>2, <1>6, AccountFacts DEF Charged

\* A translation moves tracks, and a position takes no bytes of its own.
LEMMA CompensateCharge ==
  ASSUME CoreInv, CoreInv', AccountInv, NEW dx \in Shifts, compensate_global_motion(dx)
  PROVE  Charged
<1>1. /\ DOMAIN tracks' = DOMAIN tracks
      /\ UNCHANGED <<slotVars, redetection_records, used_bytes>>
  BY DEF compensate_global_motion
<1>2. ASSUME NEW k \in DOMAIN tracks PROVE HoldingOf(k)' = HoldingOf(k)
  <2>1. /\ tracks'[k].templates = tracks[k].templates
        /\ tracks'[k].negative_templates = tracks[k].negative_templates
        /\ tracks'[k].position_history = tracks[k].position_history
        /\ tracks'[k].text = tracks[k].text
    BY DEF compensate_global_motion, CoreInv, TypeOK, Track
  <2>2. track_bytes(tracks'[k]) = track_bytes(tracks[k])
    BY <2>1 DEF track_bytes
  <2> QED
    BY <1>1, <2>2 DEF HoldingOf, Holding, slotVars
<1> QED
  BY <1>1, <1>2, NothingCharged

\* The sweep finds a slot for every doubtful track: it allocates none.
LEMMA SweepCharge ==
  ASSUME CoreInv, CoreInv', AccountInv, NEW frame \in Frames, sweep_generation_lag(frame)
  PROVE  Charged
<1>1. /\ DOMAIN tracks' = DOMAIN tracks
      /\ UNCHANGED <<structure_baselines, redetect_slots, tracker_handles, redetection_records>>
      /\ DOMAIN state_slots' = DOMAIN state_slots \cup SweptIds
      /\ used_bytes' = used_bytes
           + kStateSlotOverheadBytes * Cardinality(SweptIds \ DOMAIN state_slots)
  BY DEF sweep_generation_lag
<1>2. SweptIds \subseteq DOMAIN state_slots
  BY DEF SweptIds, CoreInv, StateSlotsAgree, LiveIds, Terminated
<1>3. Cardinality(SweptIds \ DOMAIN state_slots) = 0
  <2>1. SweptIds \ DOMAIN state_slots = {}
    BY <1>2
  <2> QED
    BY <2>1, FS_EmptySet
<1>4. used_bytes' = used_bytes
  BY <1>1, <1>3, AccountFacts DEF kStateSlotOverheadBytes
<1>5. DOMAIN state_slots' = DOMAIN state_slots
  BY <1>1, <1>2
<1>6. ASSUME NEW k \in DOMAIN tracks PROVE HoldingOf(k)' = HoldingOf(k)
  <2>1. /\ tracks'[k].templates = tracks[k].templates
        /\ tracks'[k].negative_templates = tracks[k].negative_templates
        /\ tracks'[k].position_history = tracks[k].position_history
        /\ tracks'[k].text = tracks[k].text
    BY DEF sweep_generation_lag, CoreInv, TypeOK, Track
  <2>2. track_bytes(tracks'[k]) = track_bytes(tracks[k])
    BY <2>1 DEF track_bytes
  <2> QED
    BY <1>1, <1>5, <2>2 DEF HoldingOf, Holding
<1> QED
  BY <1>1, <1>4, <1>6, NothingCharged

-----------------------------------------------------------------------------

\* Some slot of a track above `id' is found where `id' has none.
ForeignSlot(id) ==
  \E ids \in {structure_baselines, DOMAIN state_slots, DOMAIN redetect_slots, tracker_handles} :
    id \notin ids /\ \E k \in ids : k > id

\* A slot is freed at least when it is held, and only then unless it is foreign.
LEMMA SlotBytesBound ==
  ASSUME NEW ids \in SUBSET TrackIds, NEW id \in TrackIds, NEW overhead \in Nat
  PROVE  /\ slot_bytes(ids, id, overhead) \in Nat
         /\ slot_bytes(ids, id, overhead) >= (IF id \in ids THEN overhead ELSE 0)
         /\ ~(id \notin ids /\ \E k \in ids : k > id)
              => slot_bytes(ids, id, overhead) = (IF id \in ids THEN overhead ELSE 0)
BY TrackIdsAssumption DEF slot_bytes

\* So a victim is taken to hold at least what it holds, and exactly that unless it
\* lacks a slot that a track with a greater id has.
LEMMA VictimBytesBound ==
  ASSUME CoreInv, NEW id \in DOMAIN tracks
  PROVE  /\ victim_bytes(id) \in Nat
         /\ HoldingOf(id) \in Nat
         /\ HoldingOf(id) <= victim_bytes(id)
         /\ ~ForeignSlot(id) => victim_bytes(id) = HoldingOf(id)
<1> DEFINE bs == structure_baselines
           ss == DOMAIN state_slots
           rs == DOMAIN redetect_slots
           hs == tracker_handles
           o0 == kStructureBaselineOverheadBytes
           o1 == kStateSlotOverheadBytes
           o2 == kRedetectSlotOverheadBytes
           o3 == kTrackerHandleSlotOverheadBytes
           record == track_bytes(tracks[id])
           fb == slot_bytes(bs, id, o0)
           fs == slot_bytes(ss, id, o1)
           fr == slot_bytes(rs, id, o2)
           fh == slot_bytes(hs, id, o3)
           b == IF id \in bs THEN o0 ELSE 0
           s == IF id \in ss THEN o1 ELSE 0
           r == IF id \in rs THEN o2 ELSE 0
           h == IF id \in hs THEN o3 ELSE 0
           foreign(ids) == id \notin ids /\ \E k \in ids : k > id
<1>1. /\ bs \in SUBSET TrackIds /\ ss \in SUBSET TrackIds
      /\ rs \in SUBSET TrackIds /\ hs \in SUBSET TrackIds
      /\ id \in TrackIds
  BY DEF CoreInv, TypeOK, SlotsBelongToLiveTracks, LiveIds
<1>2. o0 \in Nat /\ o1 \in Nat /\ o2 \in Nat /\ o3 \in Nat
  BY DEF kStructureBaselineOverheadBytes, kStateSlotOverheadBytes, kRedetectSlotOverheadBytes,
         kTrackerHandleSlotOverheadBytes
<1>3. record \in Nat
  BY TrackBytesType DEF CoreInv, TypeOK
<1>4. victim_bytes(id) = record + fb + fs + fr + fh
  BY DEF victim_bytes
<1>5. HoldingOf(id) = record + b + s + r + h
  BY DEF HoldingOf, Holding
<1>6. ForeignSlot(id) <=> foreign(bs) \/ foreign(ss) \/ foreign(rs) \/ foreign(hs)
  BY DEF ForeignSlot
<1> HIDE DEF bs, ss, rs, hs, o0, o1, o2, o3, record
<1>7. fb \in Nat /\ fb >= b /\ (~foreign(bs) => fb = b)
  BY <1>1, <1>2, SlotBytesBound
<1>8. fs \in Nat /\ fs >= s /\ (~foreign(ss) => fs = s)
  BY <1>1, <1>2, SlotBytesBound
<1>9. fr \in Nat /\ fr >= r /\ (~foreign(rs) => fr = r)
  BY <1>1, <1>2, SlotBytesBound
<1>10. fh \in Nat /\ fh >= h /\ (~foreign(hs) => fh = h)
  BY <1>1, <1>2, SlotBytesBound
<1>11. b \in Nat /\ s \in Nat /\ r \in Nat /\ h \in Nat
  BY <1>2
<1> HIDE DEF fb, fs, fr, fh, b, s, r, h, foreign
<1> QED
  BY <1>3, <1>4, <1>5, <1>6, <1>7, <1>8, <1>9, <1>10, <1>11

\* The track that is inserted takes no more than was reserved for it.
LEMMA InsertionBytesBound ==
  ASSUME CoreInv, NEW position \in ViewCoordinates, NEW text \in RegionTextBytes, NEW frame \in Frames
  PROVE  /\ track_bytes(NewTrack(position, text, frame)) \in Nat
         /\ track_bytes(NewTrack(position, text, frame)) <= insertion_bytes(text)
         /\ insertion_bytes(text) \in Nat
<1> DEFINE track == NewTrack(position, text, frame)
           t == template_bytes
           x == truncate_text(text)
<1>1. text \in Nat
  BY OptionsAssumption
<1>2. x \in Nat /\ x <= text
  BY <1>1 DEF truncate_text, kMaxSemanticsTextBytes
<1>3. t \in Nat
  BY TemplateBytesType
<1>4. /\ Len(track.templates) = 1 /\ Len(track.negative_templates) = 0
      /\ track.position_history = 1 /\ track.text = x
  BY DEF NewTrack
<1>5. t * (1 + 0) = t
  BY <1>3
<1> HIDE DEF track, t, x
<1>6. track_bytes(track) = 128 + t + 32 + x
  BY <1>2, <1>3, <1>4, <1>5 DEF track_bytes, kTrackOverheadBytes, kObservationOverheadBytes, t
<1>7. insertion_bytes(text) = 128 + t + 32 + text
  BY DEF insertion_bytes, kTrackOverheadBytes, kObservationOverheadBytes, t
<1>8. 128 + t + 32 + x \in Nat /\ 128 + t + 32 + x <= 128 + t + 32 + text /\ 128 + t + 32 + text \in Nat
  BY <1>1, <1>2, <1>3
<1> QED
  BY <1>6, <1>7, <1>8 DEF track

\* How far the account is behind the truth.
Drift == HeldBytes - used_bytes

\* Adoption stays within the limits and never frees less than the victims held,
\* and exactly that unless some victim lacks a slot found at a greater id.
LEMMA AdoptCharge ==
  ASSUME CoreInv, CoreInv', AccountInv, NEW id \in TrackIds, NEW position \in ViewCoordinates,
         NEW text \in RegionTextBytes, NEW frame \in Frames,
         adopt_track(id, position, text, frame)
  PROVE  /\ IsFiniteSet(DOMAIN tracks') /\ Cardinality(DOMAIN tracks') <= MaxTargets
         /\ used_bytes' \in Int /\ used_bytes' <= PoolBudgetBytes
         /\ Drift' >= Drift
         /\ Drift' = Drift \/ \E victim \in DOMAIN tracks \ DOMAIN tracks' : ForeignSlot(victim)
<1> DEFINE new == NewTrack(position, text, frame)
           d == DOMAIN tracks
           bytes == track_bytes(new)
<1>1. PICK victims \in SUBSET DOMAIN tracks :
        /\ plan_eviction(victims, insertion_bytes(text))
        /\ tracks' = Put(Erase(tracks, victims), id, new)
        /\ release_slots(victims)
        /\ used_bytes' = used_bytes - MapThenSumSet(victim_bytes, victims) + bytes
  BY DEF adopt_track
<1>2. id \notin d /\ UNCHANGED redetection_records
  BY DEF adopt_track
<1> DEFINE rest == d \ victims
           freed == MapThenSumSet(victim_bytes, victims)
<1>3. /\ Cardinality(rest) < MaxTargets
      /\ used_bytes + (insertion_bytes(text) - freed) <= PoolBudgetBytes
  BY <1>1 DEF plan_eviction, MakesRoom, Fits
<1>4. used_bytes' = used_bytes - freed + bytes
  BY <1>1
<1>5. /\ IsFiniteSet(d) /\ IsFiniteSet(rest) /\ IsFiniteSet(victims)
      /\ victims \in SUBSET d /\ rest = d \ victims
  <2>1. IsFiniteSet(d)
    BY DEF AccountInv
  <2> QED
    BY <2>1, FS_Subset
<1>6. freed = Total(VictimBytes(victims), victims)
  BY <1>5, VictimsAreTotal
<1> HIDE DEF freed
<1>7. /\ bytes \in Nat /\ bytes <= insertion_bytes(text) /\ insertion_bytes(text) \in Nat
  BY InsertionBytesBound
<1> HIDE DEF bytes
<1>8. /\ DOMAIN tracks' = rest \cup {id}
      /\ tracks'[id] = new
      /\ \A k \in rest : tracks'[k] = tracks[k]
  <2> HIDE DEF new
  <2> QED
    BY <1>1, <1>2 DEF Put, Erase, Restrict
<1>9. /\ structure_baselines' = structure_baselines \ victims
      /\ tracker_handles' = tracker_handles \ victims
      /\ DOMAIN state_slots' = DOMAIN state_slots \ victims
      /\ DOMAIN redetect_slots' = DOMAIN redetect_slots \ victims
  BY <1>1 DEF release_slots, Erase, Restrict
<1>10. IsFiniteSet(rest \cup {id}) /\ Cardinality(rest \cup {id}) = Cardinality(rest) + 1
       /\ Cardinality(rest) \in Nat
  BY <1>2, <1>5, FS_AddElement, FS_CardinalityType
<1>11. \A k \in rest : HoldingOf(k)' = HoldingOf(k)
  <2> HIDE DEF rest
  <2> SUFFICES ASSUME NEW k \in rest PROVE HoldingOf(k)' = HoldingOf(k)
    OBVIOUS
  <2>1. k \notin victims
    BY <1>5
  <2>2. /\ k \in structure_baselines' <=> k \in structure_baselines
        /\ k \in DOMAIN state_slots' <=> k \in DOMAIN state_slots
        /\ k \in DOMAIN redetect_slots' <=> k \in DOMAIN redetect_slots
        /\ k \in tracker_handles' <=> k \in tracker_handles
    BY <1>9, <2>1
  <2> QED
    BY <1>8, <2>2 DEF HoldingOf, Holding
<1>12. HoldingOf(id)' = bytes
  <2>1. /\ id \notin structure_baselines' /\ id \notin DOMAIN state_slots'
        /\ id \notin DOMAIN redetect_slots' /\ id \notin tracker_handles'
    BY <1>2, <1>9 DEF CoreInv, SlotsBelongToLiveTracks, LiveIds
  <2>2. HoldingOf(id)' = bytes + 0 + 0 + 0 + 0
    BY <1>8, <2>1 DEF HoldingOf, Holding, bytes
  <2> QED
    BY <1>7, <2>2
<1>13. /\ Held = [k \in d |-> HoldingOf(k)]
       /\ \A k \in d : HoldingOf(k) \in Nat
       /\ HeldBytes = Total(Held, d) + kRedetectionRecordOverheadBytes * redetection_records
       /\ HeldBytes \in Nat
  BY <1>5, PoolTotal
<1>14. /\ Held' = [k \in DOMAIN tracks' |-> HoldingOf(k)']
       /\ HeldBytes' = Total(Held', DOMAIN tracks')
                         + kRedetectionRecordOverheadBytes * redetection_records'
       /\ HeldBytes' \in Nat
  BY <1>8, <1>10, PoolTotalAfter
<1> DEFINE w == Held
           v == Held'
           f == VictimBytes(victims)
           log == kRedetectionRecordOverheadBytes * redetection_records
<1>15. \A k \in d : w[k] \in Int /\ w[k] = HoldingOf(k)
  BY <1>13
<1>16. \A k \in rest : v[k] = w[k]
  BY <1>8, <1>11, <1>13, <1>14
<1>17. v[id] = bytes
  BY <1>8, <1>12, <1>14
<1>18. \A k \in victims : /\ f[k] \in Int /\ w[k] <= f[k] /\ w[k] \in Int
                          /\ ~ForeignSlot(k) => w[k] = f[k]
  <2> SUFFICES ASSUME NEW k \in victims
               PROVE  /\ f[k] \in Int /\ w[k] <= f[k] /\ w[k] \in Int
                      /\ ~ForeignSlot(k) => w[k] = f[k]
    OBVIOUS
  <2>1. /\ victim_bytes(k) \in Nat /\ HoldingOf(k) \in Nat
        /\ HoldingOf(k) <= victim_bytes(k)
        /\ ~ForeignSlot(k) => victim_bytes(k) = HoldingOf(k)
    BY VictimBytesBound
  <2>2. w[k] = HoldingOf(k) /\ f[k] = victim_bytes(k)
    BY <1>13 DEF VictimBytes
  <2> HIDE DEF w, f
  <2> QED
    BY <2>1, <2>2
<1>19. HeldBytes' = Total(v, rest \cup {id}) + log
  BY <1>2, <1>8, <1>14
<1>20. HeldBytes = Total(w, d) + log
  BY <1>13
<1> HIDE DEF w, v, f, d, rest
<1>21. Total(w, d) = Total(w, victims) + Total(w, rest)
  <2>1. \A k \in d : w[k] \in Int
    BY <1>15
  <2> QED
    BY <2>1, <1>5, TotalSplit
<1>22. Total(w, victims) \in Int /\ Total(w, rest) \in Int
  <2>1. /\ \A k \in d : w[k] \in Int
        /\ Int \in {Nat, Int} /\ victims \in SUBSET d /\ rest \in SUBSET d
    BY <1>5, <1>15
  <2> QED
    BY <2>1, <1>5, TotalType
<1>23. \A k \in rest \cup {id} : v[k] \in Int
  BY <1>5, <1>7, <1>15, <1>16, <1>17
<1>24. Total(v, rest \cup {id}) = v[id] + Total(v, rest)
  <2>1. id \notin rest
    BY <1>2, <1>5
  <2> QED
    BY <2>1, <1>5, <1>23, TotalAdd
<1>25. Total(v, rest) = Total(w, rest)
  <2>1. \A k \in rest : v[k] \in Int /\ v[k] = w[k]
    BY <1>16, <1>23
  <2> QED
    BY <2>1, <1>5, TotalSame
<1>26. Total(w, victims) <= Total(f, victims)
  <2>1. \A k \in victims : w[k] \in Int /\ f[k] \in Int /\ w[k] <= f[k]
    BY <1>18
  <2> QED
    BY <2>1, <1>5, TotalCompare
<1>27. (\A k \in victims : ~ForeignSlot(k)) => Total(w, victims) = Total(f, victims)
  <2> SUFFICES ASSUME \A k \in victims : ~ForeignSlot(k)
               PROVE  Total(w, victims) = Total(f, victims)
    OBVIOUS
  <2>1. \A k \in victims : w[k] \in Int /\ w[k] = f[k]
    BY <1>18
  <2> QED
    BY <2>1, <1>5, TotalSame
<1>28. Total(f, victims) \in Int
  <2>1. /\ \A k \in victims : f[k] \in Int
        /\ Int \in {Nat, Int} /\ victims \in SUBSET victims
    BY <1>18
  <2> QED
    BY <2>1, <1>5, TotalType
<1> DEFINE hb == HeldBytes
           ha == HeldBytes'
           ub == used_bytes
           ua == used_bytes'
           tv == Total(w, victims)
           tr == Total(w, rest)
           tf == Total(f, victims)
           ib == insertion_bytes(text)
<1>29. /\ ha = bytes + tr + log
       /\ hb = tv + tr + log
       /\ ua = ub - tf + bytes
       /\ tv <= tf
       /\ ub + (ib - tf) <= PoolBudgetBytes
       /\ tv \in Int /\ tr \in Int /\ tf \in Int
  <2>1. ha = bytes + tr + log
    BY <1>17, <1>19, <1>24, <1>25
  <2>2. hb = tv + tr + log
    BY <1>20, <1>21
  <2>3. ua = ub - tf + bytes /\ ub + (ib - tf) <= PoolBudgetBytes
    BY <1>3, <1>4, <1>6 DEF f
  <2> QED
    BY <2>1, <2>2, <2>3, <1>22, <1>26, <1>28
<1>30. /\ hb \in Int /\ ha \in Int /\ ub \in Int /\ bytes \in Int /\ ib \in Int /\ bytes <= ib
       /\ PoolBudgetBytes \in Int /\ log \in Int
  BY <1>7, <1>13, <1>14, OptionsAssumption
     DEF AccountInv, CoreInv, TypeOK, kRedetectionRecordOverheadBytes
<1>31. /\ ua \in Int /\ ua <= PoolBudgetBytes
       /\ ha - ua = (hb - ub) + (tf - tv)
       /\ ha - ua >= hb - ub
       /\ tv = tf => ha - ua = hb - ub
  <2> HIDE DEF hb, ha, ub, ua, tv, tr, tf, ib, bytes, log
  <2> QED
    BY <1>29, <1>30
<1>32. Drift' = ha - ua /\ Drift = hb - ub
  BY DEF Drift
<1>33. Cardinality(DOMAIN tracks') <= MaxTargets /\ IsFiniteSet(DOMAIN tracks')
  BY <1>3, <1>8, <1>10, OptionsAssumption DEF rest, d
<1>34. \A k \in victims : k \in DOMAIN tracks /\ k \notin DOMAIN tracks'
  BY <1>2, <1>5, <1>8 DEF d, rest
<1>35. Drift' = Drift \/ \E victim \in DOMAIN tracks \ DOMAIN tracks' : ForeignSlot(victim)
  <2>1. CASE \A k \in victims : ~ForeignSlot(k)
    BY <2>1, <1>27, <1>31, <1>32
  <2>2. CASE \E k \in victims : ForeignSlot(k)
    BY <2>2, <1>34
  <2> QED
    BY <2>1, <2>2
<1> QED
  BY <1>31, <1>32, <1>33, <1>35

-----------------------------------------------------------------------------
(* The account is inductive *)

\* An empty pool holds nothing.
LEMMA EmptyPoolHoldsNothing ==
  /\ CoreInv /\ tracks = <<>> /\ redetection_records = 0
       => IsFiniteSet(DOMAIN tracks) /\ Cardinality(DOMAIN tracks) = 0 /\ HeldBytes = 0
  /\ CoreInv' /\ tracks' = <<>> /\ redetection_records' = 0
       => IsFiniteSet(DOMAIN tracks') /\ Cardinality(DOMAIN tracks') = 0 /\ HeldBytes' = 0
<1>1. IsFiniteSet({}) /\ Cardinality({}) = 0
  BY FS_EmptySet
<1>2. ASSUME CoreInv, tracks = <<>>, redetection_records = 0
      PROVE  IsFiniteSet(DOMAIN tracks) /\ Cardinality(DOMAIN tracks) = 0 /\ HeldBytes = 0
  <2>1. DOMAIN tracks = {}
    BY <1>2
  <2>2. HeldBytes = Total(Held, {}) + kRedetectionRecordOverheadBytes * 0
    BY <1>1, <1>2, <2>1, PoolTotal
  <2>3. Total(Held, {}) = 0
    BY <1>1, TotalStep
  <2> QED
    BY <1>1, <2>1, <2>2, <2>3 DEF kRedetectionRecordOverheadBytes
<1>3. ASSUME CoreInv', tracks' = <<>>, redetection_records' = 0
      PROVE  IsFiniteSet(DOMAIN tracks') /\ Cardinality(DOMAIN tracks') = 0 /\ HeldBytes' = 0
  <2>1. DOMAIN tracks' = {}
    BY <1>3
  <2>2. HeldBytes' = Total(Held', {}) + kRedetectionRecordOverheadBytes * 0
    BY <1>1, <1>3, <2>1, PoolTotalAfter
  <2> DEFINE w == Held'
  <2>3. Total(w, {}) = 0
    <3> HIDE DEF w
    <3> QED
      BY <1>1, TotalStep
  <2> QED
    BY <1>1, <2>1, <2>2, <2>3 DEF kRedetectionRecordOverheadBytes
<1> QED
  BY <1>2, <1>3

\* A charged step keeps the account and its drift.
LEMMA ChargedKeepsAccount ==
  ASSUME CoreInv, CoreInv', AccountInv, Charged
  PROVE  AccountInv' /\ Drift' = Drift
<1>1. /\ IsFiniteSet(DOMAIN tracks') /\ Cardinality(DOMAIN tracks') <= MaxTargets
      /\ used_bytes \in Int /\ used_bytes <= PoolBudgetBytes /\ used_bytes <= HeldBytes
      /\ used_bytes' \in Int /\ HeldBytes' - used_bytes' = HeldBytes - used_bytes
      /\ used_bytes' <= used_bytes \/ used_bytes' <= PoolBudgetBytes
  BY DEF AccountInv, Charged, PoolWithinLimits, AccountNeverOverstates
<1>2. HeldBytes \in Int
  BY PoolTotal DEF AccountInv
<1>3. HeldBytes' \in Int
  BY <1>1, PoolTotalAfter
<1> DEFINE hb == HeldBytes
           ha == HeldBytes'
           ub == used_bytes
           ua == used_bytes'
           limit == PoolBudgetBytes
<1>4. ha >= used_bytes' /\ used_bytes' <= PoolBudgetBytes
  <2>1. hb \in Int /\ ha \in Int /\ ub \in Int /\ ua \in Int /\ limit \in Int
    BY <1>1, <1>2, <1>3, OptionsAssumption
  <2>2. ha - ua = hb - ub /\ ub <= hb /\ ub <= limit /\ (ua <= ub \/ ua <= limit)
    BY <1>1
  <2> HIDE DEF hb, ha, ub, ua, limit
  <2>3. ha >= ua /\ ua <= limit
    BY <2>1, <2>2
  <2> QED
    BY <2>3 DEF ua, limit
<1>5. PoolWithinLimits'
  BY <1>1, <1>4 DEF PoolWithinLimits
<1>6. AccountNeverOverstates'
  <2>1. ha >= used_bytes' => used_bytes' <= ha
    BY <1>1, <1>3
  <2> QED
    BY <1>4, <2>1 DEF AccountNeverOverstates
<1>7. AccountInv'
  BY <1>1, <1>5, <1>6 DEF AccountInv
<1> QED
  BY <1>1, <1>7 DEF Drift

\* What a step may do to the drift between the account and the truth.
DriftStep ==
  \/ Drift' = Drift
  \/ Drift' = 0
  \/ \E victim \in DOMAIN tracks \ DOMAIN tracks' : ForeignSlot(victim)

\* Adoption keeps the account: it may free more than the victims held, never less.
LEMMA AdoptKeepsAccount ==
  ASSUME CoreInv, CoreInv', AccountInv, NEW id \in TrackIds, NEW position \in ViewCoordinates,
         NEW text \in RegionTextBytes, NEW frame \in Frames,
         adopt_track(id, position, text, frame)
  PROVE  AccountInv' /\ DriftStep
<1>1. /\ IsFiniteSet(DOMAIN tracks') /\ Cardinality(DOMAIN tracks') <= MaxTargets
      /\ used_bytes' \in Int /\ used_bytes' <= PoolBudgetBytes
      /\ Drift' >= Drift
      /\ Drift' = Drift \/ \E victim \in DOMAIN tracks \ DOMAIN tracks' : ForeignSlot(victim)
  BY AdoptCharge
<1>2. HeldBytes \in Int
  BY PoolTotal DEF AccountInv
<1>3. HeldBytes' \in Int
  BY <1>1, PoolTotalAfter
<1> DEFINE hb == HeldBytes
           ha == HeldBytes'
           ub == used_bytes
           ua == used_bytes'
<1>4. hb \in Int /\ ha \in Int /\ ub \in Int /\ ua \in Int
  BY <1>1, <1>2, <1>3 DEF AccountInv
<1>5. ub <= hb /\ ha - ua >= hb - ub
  BY <1>1 DEF Drift, AccountInv, AccountNeverOverstates
<1>6. ua <= ha
  <2> HIDE DEF hb, ha, ub, ua
  <2> QED
    BY <1>4, <1>5
<1> QED
  BY <1>1, <1>6 DEF AccountInv, PoolWithinLimits, AccountNeverOverstates, DriftStep

\* Resetting empties pool and account together.
LEMMA ResetKeepsAccount ==
  ASSUME CoreInv, CoreInv', AccountInv, reset
  PROVE  AccountInv' /\ DriftStep
<1>1. /\ IsFiniteSet(DOMAIN tracks') /\ Cardinality(DOMAIN tracks') = 0 /\ HeldBytes' = 0
      /\ used_bytes' = 0
  BY EmptyPoolHoldsNothing DEF reset
<1>2. Drift' = 0
  BY <1>1 DEF Drift
<1> QED
  BY <1>1, <1>2, OptionsAssumption
     DEF AccountInv, PoolWithinLimits, AccountNeverOverstates, DriftStep

\* Every operation keeps the account.
LEMMA NextKeepsAccount ==
  ASSUME CoreInv, CoreInv', AccountInv, [Next]_vars
  PROVE  AccountInv' /\ DriftStep
<1>1. Charged => AccountInv' /\ DriftStep
  BY ChargedKeepsAccount DEF DriftStep
<1>2. ASSUME NEW id \in TrackIds, NEW position \in ViewCoordinates, NEW text \in RegionTextBytes,
             NEW frame \in Frames, adopt_track(id, position, text, frame)
      PROVE  AccountInv' /\ DriftStep
  BY <1>2, AdoptKeepsAccount
<1>3. ASSUME NEW id \in TrackIds, terminate(id) PROVE Charged
  BY <1>3, ArchiveCharge DEF terminate
<1>4. ASSUME NEW id \in TrackIds, record_observation(id) PROVE Charged
  BY <1>4, ObservationCharge
<1>5. ASSUME NEW id \in TrackIds, NEW frame \in Frames, add_template(id, frame) PROVE Charged
  BY <1>5, AddTemplateCharge
<1>6. ASSUME NEW id \in TrackIds, NEW frame \in Frames, add_negative_template(id, frame)
      PROVE  Charged
  BY <1>6, AddNegativeTemplateCharge
<1>7. ASSUME advance_layout_generation PROVE Charged
  <2>1. UNCHANGED <<tracks, slotVars, redetection_records, used_bytes>>
    BY <1>7 DEF advance_layout_generation
  <2>2. \A k \in DOMAIN tracks : HoldingOf(k)' = HoldingOf(k)
    BY <2>1 DEF HoldingOf, Holding, slotVars
  <2> QED
    BY <2>1, <2>2, NothingCharged
<1>8. ASSUME NEW id \in TrackIds, record_structure_baseline(id) PROVE Charged
  BY <1>8, BaselineCharge
<1>9. ASSUME NEW id \in TrackIds, NEW e \in Evidence, NEW frame \in Frames,
             commit_track_evidence(id, e, frame)
      PROVE  Charged
  BY <1>9, CommitCharge
<1>10. ASSUME NEW id \in TrackIds, attach_tracker_session(id) PROVE Charged
  BY <1>10, AttachCharge
<1>11. ASSUME NEW id \in TrackIds, detach_tracker_session(id) PROVE Charged
  BY <1>11, DetachCharge
<1>12. ASSUME NEW dx \in Shifts, compensate_global_motion(dx) PROVE Charged
  BY <1>12, CompensateCharge
<1>13. ASSUME NEW frame \in Frames, sweep_generation_lag(frame) PROVE Charged
  BY <1>13, SweepCharge
<1>14. ASSUME NEW id \in TrackIds, NEW frame \in Frames, record_redetection_failure(id, frame)
       PROVE  Charged
  BY <1>14, FailureCharge
<1>15. ASSUME NEW id \in TrackIds, record_redetection_recapture(id) PROVE Charged
  BY <1>15, RecaptureCharge
<1>16. ASSUME NEW p \in TrackIds, NEW s \in TrackIds, record_redetection_association(p, s)
       PROVE  Charged
  BY <1>16, AssociationCharge
<1>17. ASSUME reset PROVE AccountInv' /\ DriftStep
  BY <1>17, ResetKeepsAccount
<1>18. ASSUME UNCHANGED vars PROVE Charged
  <2>1. UNCHANGED <<tracks, slotVars, redetection_records, used_bytes>>
    BY <1>18 DEF vars, slotVars
  <2>2. \A k \in DOMAIN tracks : HoldingOf(k)' = HoldingOf(k)
    BY <2>1 DEF HoldingOf, Holding, slotVars
  <2> QED
    BY <2>1, <2>2, NothingCharged
<1> QED
  BY <1>1, <1>2, <1>3, <1>4, <1>5, <1>6, <1>7, <1>8, <1>9, <1>10, <1>11, <1>12, <1>13, <1>14,
     <1>15, <1>16, <1>17, <1>18 DEF Next

\* The account starts at nothing.
LEMMA InitKeepsAccount ==
  Init => AccountInv /\ Drift = 0
<1> SUFFICES ASSUME Init PROVE AccountInv /\ Drift = 0
  OBVIOUS
<1>1. IsFiniteSet(DOMAIN tracks) /\ Cardinality(DOMAIN tracks) = 0 /\ HeldBytes = 0
      /\ used_bytes = 0
  BY EmptyPoolHoldsNothing, InitIsCore DEF Init
<1> QED
  BY <1>1, OptionsAssumption DEF AccountInv, PoolWithinLimits, AccountNeverOverstates, Drift

\* The account's invariant needs the core invariant: without it a slot could
\* belong to no track, and its bytes to no sum over the tracks.
THEOREM AccountInvariant ==
  Spec => [](CoreInv /\ AccountInv)
<1>1. Init => CoreInv /\ AccountInv
  BY InitIsCore, InitKeepsAccount
<1>2. CoreInv /\ AccountInv /\ [Next]_vars => (CoreInv /\ AccountInv)'
  <2>1. CoreInv /\ [Next]_vars => CoreInv'
    BY NextKeepsCore
  <2> QED
    BY <2>1, NextKeepsAccount
<1> QED
  BY <1>1, <1>2, PTL DEF Spec

\* The pool never holds more tracks than MaxTargets and is never charged for more
\* bytes than its budget, whatever mixture of operations led there.
THEOREM LimitsHold ==
  Spec => []PoolWithinLimits
<1>1. AccountInv => PoolWithinLimits
  BY DEF AccountInv
<1> QED
  BY <1>1, AccountInvariant, PTL

\* The byte account is never above what the pool really holds: whatever eviction
\* frees, no operation charges bytes that are not held.
THEOREM AccountIsBounded ==
  Spec => []AccountNeverOverstates
<1>1. AccountInv => AccountNeverOverstates
  BY DEF AccountInv
<1> QED
  BY <1>1, AccountInvariant, PTL

\* The account falls behind the truth by eviction only, and only by one of a
\* track that lacks a slot some track with a greater id has.
DriftNeedsForeignSlot ==
  [][Drift' > Drift =>
       \E victim \in DOMAIN tracks \ DOMAIN tracks' : ForeignSlot(victim)]_vars

\* Every other operation charges exactly what it adds and frees exactly what it
\* gives back; the one source of drift is plan_eviction's estimate, whose slot
\* look-ups take any slot at or above the victim's id for its own.
THEOREM DriftComesFromForeignSlots ==
  Spec => DriftNeedsForeignSlot
<1>1. ASSUME CoreInv, AccountInv, CoreInv', [Next]_vars, Drift' > Drift
      PROVE  \E victim \in DOMAIN tracks \ DOMAIN tracks' : ForeignSlot(victim)
  <2>1. AccountInv' /\ DriftStep
    BY <1>1, NextKeepsAccount
  <2>2. HeldBytes \in Int /\ used_bytes \in Int /\ used_bytes <= HeldBytes
    BY <1>1, PoolTotal DEF AccountInv, AccountNeverOverstates
  <2>3. Drift \in Int /\ Drift >= 0
    <3> DEFINE hb == HeldBytes
    <3>1. hb \in Int /\ used_bytes \in Int /\ used_bytes <= hb
      BY <2>2
    <3> HIDE DEF hb
    <3>2. hb - used_bytes \in Int /\ hb - used_bytes >= 0
      BY <3>1
    <3> QED
      BY <3>2 DEF Drift, hb
  <2> DEFINE before == Drift
             after == Drift'
  <2>4. after # before /\ after # 0
    <3>1. before \in Int /\ before >= 0 /\ after > before
      BY <1>1, <2>3
    <3> HIDE DEF before, after
    <3> QED
      BY <3>1
  <2> QED
    BY <2>1, <2>4 DEF DriftStep
<1>2. CoreInv /\ AccountInv /\ CoreInv' /\ [Next]_vars =>
        [Drift' > Drift => \E victim \in DOMAIN tracks \ DOMAIN tracks' : ForeignSlot(victim)]_vars
  BY <1>1
<1> QED
  BY <1>2, AccountInvariant, PTL DEF Spec, DriftNeedsForeignSlot

\* A pool of one target evicts nothing beside another track: its account is exact.
THEOREM SingleTargetAccountIsExact ==
  ASSUME MaxTargets = 1
  PROVE  Spec => []AccountIsExact
<1>1. Init => AccountIsExact
  <2>1. Init => Drift = 0 /\ HeldBytes = 0 /\ used_bytes = 0
    BY InitIsCore, InitKeepsAccount, EmptyPoolHoldsNothing DEF Init
  <2> QED
    BY <2>1 DEF AccountIsExact
<1>2. ASSUME CoreInv, AccountInv, CoreInv', AccountInv', AccountIsExact, [Next]_vars
      PROVE  AccountIsExact'
  <2>1. DriftStep
    BY <1>2, NextKeepsAccount
  <2>2. ASSUME NEW victim \in DOMAIN tracks PROVE ~ForeignSlot(victim)
    <3>1. IsFiniteSet(DOMAIN tracks) /\ Cardinality(DOMAIN tracks) <= 1
      BY <1>2 DEF AccountInv, PoolWithinLimits
    <3> DEFINE rest == DOMAIN tracks \ {victim}
    <3>2. IsFiniteSet(rest) /\ Cardinality(rest) = Cardinality(DOMAIN tracks) - 1
      BY <3>1, FS_RemoveElement
    <3>3. Cardinality(rest) \in Nat /\ Cardinality(DOMAIN tracks) \in Nat
      BY <3>1, <3>2, FS_CardinalityType
    <3>4. rest = {}
      <4>1. Cardinality(rest) = 0
        BY <3>1, <3>2, <3>3
      <4> QED
        BY <3>2, <4>1, FS_EmptySet
    <3>5. victim \in Nat
      BY <1>2, TrackIdsAssumption DEF CoreInv, TypeOK
    <3>6. DOMAIN tracks = {victim}
      BY <3>4
    <3> QED
      BY <1>2, <3>5, <3>6 DEF ForeignSlot, CoreInv, SlotsBelongToLiveTracks, LiveIds
  <2>3. HeldBytes \in Int /\ used_bytes \in Int
    BY <1>2, PoolTotal DEF AccountInv
  <2>4. HeldBytes' \in Int /\ used_bytes' \in Int
    BY <1>2, PoolTotalAfter DEF AccountInv
  <2> DEFINE ha == HeldBytes'
             ua == used_bytes'
  <2>5. Drift = 0
    BY <1>2, <2>3 DEF AccountIsExact, Drift
  <2>6. Drift' = 0
    BY <2>1, <2>2, <2>5 DEF DriftStep
  <2>7. ha - ua = 0 /\ ha \in Int /\ ua \in Int
    BY <2>4, <2>6 DEF Drift
  <2>8. ua = ha
    <3> HIDE DEF ha, ua
    <3> QED
      BY <2>7
  <2> QED
    BY <2>8 DEF AccountIsExact
<1> QED
  BY <1>1, <1>2, AccountInvariant, PTL DEF Spec

\* The smallest of the prefixes that make room.
LEMMA RoomIsFound ==
  ASSUME CoreInv, AccountInv, NEW text \in RegionTextBytes,
         insertion_bytes(text) + kRedetectionRecordOverheadBytes * MaxRedetectionRecords
           <= PoolBudgetBytes
  PROVE  ~PlanRunsOut(insertion_bytes(text))
<1> DEFINE d == DOMAIN tracks
           ib == insertion_bytes(text)
           good(victims) == EvictionPrefix(victims) /\ MakesRoom(victims, ib)
<1>1. IsFiniteSet(d)
  BY DEF AccountInv
<1>2. good(d)
  <2> DEFINE w == Held
             f == VictimBytes(d)
             freed == MapThenSumSet(victim_bytes, d)
             log == kRedetectionRecordOverheadBytes * redetection_records
             ub == used_bytes
             hb == HeldBytes
             tw == Total(w, d)
             tf == Total(f, d)
             limit == PoolBudgetBytes
             longest == kRedetectionRecordOverheadBytes * MaxRedetectionRecords
  <2>1. EvictionPrefix(d)
    BY DEF EvictionPrefix
  <2>2. Cardinality(d \ d) < MaxTargets
    <3>1. d \ d = {} /\ Cardinality({}) = 0
      BY FS_EmptySet
    <3> QED
      BY <3>1, OptionsAssumption
  <2>3. freed = tf
    BY <1>1, VictimsAreTotal
  <2>4. /\ w = [k \in d |-> HoldingOf(k)]
        /\ \A k \in d : HoldingOf(k) \in Nat
        /\ hb = tw + log /\ hb \in Nat
    BY <1>1, PoolTotal
  <2>5. \A k \in d : w[k] \in Int /\ f[k] \in Int /\ w[k] <= f[k]
    <3> SUFFICES ASSUME NEW k \in d PROVE w[k] \in Int /\ f[k] \in Int /\ w[k] <= f[k]
      OBVIOUS
    <3>1. /\ victim_bytes(k) \in Nat /\ HoldingOf(k) \in Nat
          /\ HoldingOf(k) <= victim_bytes(k)
      BY VictimBytesBound
    <3>2. w[k] = HoldingOf(k) /\ f[k] = victim_bytes(k)
      BY <2>4 DEF VictimBytes
    <3> HIDE DEF w, f
    <3> QED
      BY <3>1, <3>2
  <2>6. tw <= tf
    <3> HIDE DEF w, f, d
    <3> QED
      BY <1>1, <2>5, TotalCompare
  <2>7. tf \in Int
    <3>1. Int \in {Nat, Int} /\ d \in SUBSET d /\ \A k \in d : f[k] \in Int
      BY <2>5
    <3> HIDE DEF f, d
    <3> QED
      BY <1>1, <3>1, TotalType
  <2>8. tw \in Int
    <3>1. Int \in {Nat, Int} /\ d \in SUBSET d /\ \A k \in d : w[k] \in Int
      BY <2>5
    <3> HIDE DEF w, d
    <3> QED
      BY <1>1, <3>1, TotalType
  <2>9. log \in Nat /\ longest \in Nat /\ log <= longest
    BY OptionsAssumption DEF CoreInv, TypeOK, kRedetectionRecordOverheadBytes
  <2>10. ub \in Int /\ ub <= hb /\ ib \in Int /\ limit \in Int /\ ib + longest <= limit
    <3>1. ib \in Nat
      BY TemplateBytesType, OptionsAssumption
         DEF insertion_bytes, kTrackOverheadBytes, kObservationOverheadBytes
    <3>2. ub \in Int /\ ub <= hb
      BY DEF AccountInv, AccountNeverOverstates
    <3>3. limit \in Int /\ ib + longest <= limit
      BY OptionsAssumption
    <3> QED
      BY <3>1, <3>2, <3>3
  <2>11. ub + (ib - freed) <= limit
    <3> HIDE DEF ub, hb, tw, tf, log, longest, limit, ib, freed
    <3> QED
      BY <2>3, <2>4, <2>6, <2>7, <2>8, <2>9, <2>10
  <2>12. MakesRoom(d, ib)
    <3> HIDE DEF ib
    <3> QED
      BY <2>2, <2>11 DEF MakesRoom, Fits
  <2> QED
    BY <2>1, <2>12
<1> SUFFICES ASSUME ~ \E victims \in SUBSET d : plan_eviction(victims, ib) PROVE FALSE
  BY DEF PlanRunsOut
<1> HIDE DEF ib, d
<1> DEFINE P == {victims \in SUBSET d : ~good(victims)}
<1>3. ASSUME NEW s \in SUBSET d, \A t \in SUBSET s : t # s => t \in P
      PROVE  s \in P
  <2>1. ASSUME good(s) PROVE plan_eviction(s, ib)
    <3>1. \A fewer \in SUBSET s : good(fewer) => fewer = s
      BY <1>3
    <3> QED
      BY <2>1, <3>1 DEF plan_eviction
  <2> QED
    BY <2>1
<1> HIDE DEF P
<1>4. \A s \in SUBSET d : s \in P
  BY <1>1, <1>3, SameFinite, Sums!SubsetInduction
<1>5. d \in P
  BY <1>4
<1> QED
  BY <1>2, <1>5 DEF P

\* plan_eviction never runs out of victims when the budget leaves room for the
\* redetection log beside the track to insert: the log is the one part of the
\* account that no eviction frees.
THEOREM EvictionFindsRoom ==
  ASSUME \A text \in RegionTextBytes :
           insertion_bytes(text) <= PoolBudgetBytes =>
             insertion_bytes(text) + kRedetectionRecordOverheadBytes * MaxRedetectionRecords
               <= PoolBudgetBytes
  PROVE  Spec => []EvictionAlwaysFindsRoom
<1>1. CoreInv /\ AccountInv => EvictionAlwaysFindsRoom
  BY RoomIsFound DEF EvictionAlwaysFindsRoom
<1> QED
  BY <1>1, AccountInvariant, PTL

-----------------------------------------------------------------------------
(* Backing off *)

\* The wait doubles up to its limit.
Doubled(given, wait, n) ==
  IF n <= 1 THEN RedetectBackoffBase
  ELSE IF 2 * wait < RedetectBackoffMax THEN 2 * wait ELSE RedetectBackoffMax

\* That recursion, as a function.
Waits == INSTANCE FoldSteps WITH Op <- Doubled

\* Every wait is at least one frame and at most the longest one.
LEMMA BackoffWait ==
  \A n \in Nat : redetection_backoff_wait[n] \in 1 .. RedetectBackoffMax
<1> DEFINE Wait(f) == f = [n \in Nat |->
                        IF n <= 1 THEN RedetectBackoffBase
                        ELSE LET doubled == 2 * f[n - 1]
                             IN  IF doubled < RedetectBackoffMax THEN doubled ELSE RedetectBackoffMax]
<1>1. \E f : Wait(f)
  <2>1. PICK f : Waits!Recursion(0, RedetectBackoffBase, f)
    BY Waits!RecursionExists
  <2>2. f = [n \in Nat |-> IF n = 0 THEN RedetectBackoffBase ELSE Doubled(0, f[n - 1], n)]
    BY <2>1 DEF Waits!Recursion
  <2>3. \A n \in Nat : (IF n = 0 THEN RedetectBackoffBase ELSE Doubled(0, f[n - 1], n)) =
                       (IF n <= 1 THEN RedetectBackoffBase
                        ELSE LET doubled == 2 * f[n - 1]
                             IN  IF doubled < RedetectBackoffMax THEN doubled ELSE RedetectBackoffMax)
    BY DEF Doubled
  <2> QED
    BY <2>2, <2>3
<1> DEFINE f == redetection_backoff_wait
<1>2. Wait(f)
  <2>1. f = CHOOSE g : Wait(g)
    BY DEF redetection_backoff_wait
  <2> HIDE DEF Wait, f
  <2> QED
    BY <1>1, <2>1
<1> HIDE DEF f
<1> DEFINE S == {n \in Nat : f[n] \in 1 .. RedetectBackoffMax}
<1>3. RedetectBackoffBase \in 1 .. RedetectBackoffMax /\ RedetectBackoffMax \in Nat
  BY OptionsAssumption
<1>4. 0 \in S
  BY <1>2, <1>3
<1>5. \A n \in Nat : n \in S => n + 1 \in S
  <2> SUFFICES ASSUME NEW n \in Nat, f[n] \in 1 .. RedetectBackoffMax
               PROVE  f[n + 1] \in 1 .. RedetectBackoffMax
    OBVIOUS
  <2> DEFINE m == n + 1
             doubled == 2 * f[n]
  <2>1. m \in Nat /\ m - 1 = n
    OBVIOUS
  <2>2. f[m] = IF m <= 1 THEN RedetectBackoffBase
               ELSE IF doubled < RedetectBackoffMax THEN doubled ELSE RedetectBackoffMax
    BY <1>2, <2>1
  <2>3. doubled \in Nat /\ doubled >= 1
    OBVIOUS
  <2> HIDE DEF m, doubled
  <2>4. f[m] \in 1 .. RedetectBackoffMax
    BY <1>3, <2>2, <2>3
  <2> QED
    BY <2>4 DEF m
<1> HIDE DEF S
<1>6. \A n \in Nat : n \in S
  BY <1>4, <1>5, Sums!SetInduction
<1> QED
  BY <1>6 DEF S, f

\* The sum of a frame and a wait stays in the range, lies after the frame
\* unless there is no frame after it, and no further than the wait.
LEMMA SaturatingAdd ==
  ASSUME NEW frame \in 0 .. MaxSequence, NEW wait \in 1 .. RedetectBackoffMax
  PROVE  LET next   == saturating_sequence_add(frame, wait)
             latest == IF MaxSequence - frame < RedetectBackoffMax
                       THEN MaxSequence ELSE frame + RedetectBackoffMax
         IN  /\ next \in 0 .. MaxSequence
             /\ frame < MaxSequence => frame < next
             /\ ~(latest < next)
BY FramesAssumption, OptionsAssumption DEF saturating_sequence_add

\* A failed attempt holds the gate at least until the next frame and at most for
\* the longest backoff, also where the sum saturates at the end of the range.
THEOREM BackoffIsBounded ==
  Spec => BackoffBounds
<1> DEFINE latest(frame) == IF MaxSequence - frame < RedetectBackoffMax
                            THEN MaxSequence ELSE frame + RedetectBackoffMax
<1>1. ASSUME CoreInv, NEW id \in LiveIds \cap LiveIds', NEW frame \in Frames,
             record_redetection_failure(id, frame)
      PROVE  /\ frame < MaxSequence =>
                  evaluate_redetection_gate(id, "kPartial", frame)' = "kHoldBackoff"
             /\ evaluate_redetection_gate(id, "kPartial", latest(frame))' = "kTrigger"
  <2> DEFINE failures == Attempts(id) + 1
             next == saturating_sequence_add(frame, redetection_backoff_wait[failures])
             slot == [episode_lost_sequence |-> StateSlotOf(id).lost_sequence,
                      next_attempt_sequence |-> next,
                      consecutive_failures  |-> failures]
  <2>1. tracks[id].state = "kLost" /\ id \in DOMAIN tracks /\ id \in LiveIds
    BY <1>1 DEF record_redetection_failure, LiveIds
  <2>2. ~archive_track(id)
    <3> SUFFICES ASSUME archive_track(id) PROVE FALSE
      OBVIOUS
    <3>1. tracks' = [tracks EXCEPT ![id] = Archived(tracks[id])]
      BY DEF archive_track
    <3>2. Archived(tracks[id]).state = "kTerminated"
      BY <1>1, <2>1, LiveTrackFacts DEF Archived, Track
    <3> QED
      BY <1>1, <2>1, <3>1, <3>2 DEF LiveIds, Terminated, CoreInv, TypeOK
  <2>3. /\ redetect_slots' = Put(redetect_slots, id, slot)
        /\ tracks' = tracks /\ state_slots' = state_slots
    BY <1>1, <2>2 DEF record_redetection_failure
  <2>4. next \in 0 .. MaxSequence /\ (frame < MaxSequence => frame < next) /\ ~(latest(frame) < next)
    <3>1. failures \in Nat
      BY <1>1, AttemptsType DEF CoreInv
    <3>2. redetection_backoff_wait[failures] \in 1 .. RedetectBackoffMax
      BY <3>1, BackoffWait
    <3>3. frame \in 0 .. MaxSequence
      BY FramesAssumption
    <3> HIDE DEF failures
    <3> QED
      BY <3>2, <3>3, SaturatingAdd
  <2> HIDE DEF next, failures, latest
  <2>5. /\ id \in DOMAIN redetect_slots'
        /\ redetect_slots'[id] = slot
    BY <2>3 DEF Put
  <2>6. StateSlotOf(id)' = StateSlotOf(id)
    BY <2>3 DEF StateSlotOf
  <2>7. NextAttempt(id)' = next
    BY <2>5, <2>6 DEF NextAttempt, SlotValid
  <2>8. tracks'[id].state = "kLost"
    BY <2>1, <2>3
  <2> HIDE DEF slot
  <2>9. ASSUME frame < MaxSequence
        PROVE  evaluate_redetection_gate(id, "kPartial", frame)' = "kHoldBackoff"
    BY <2>4, <2>7, <2>8, <2>9 DEF evaluate_redetection_gate
  <2>10. evaluate_redetection_gate(id, "kPartial", latest(frame))' = "kTrigger"
    BY <2>4, <2>7, <2>8 DEF evaluate_redetection_gate
  <2> QED
    BY <2>9, <2>10
<1>2. CoreInv /\ [Next]_vars =>
        [\A id \in LiveIds \cap LiveIds', frame \in Frames :
           LET end == IF MaxSequence - frame < RedetectBackoffMax
                      THEN MaxSequence ELSE frame + RedetectBackoffMax
           IN  /\ record_redetection_failure(id, frame)
               /\ Attempts(id)' = Attempts(id) + 1
               => /\ frame < MaxSequence =>
                       evaluate_redetection_gate(id, "kPartial", frame)' = "kHoldBackoff"
                  /\ evaluate_redetection_gate(id, "kPartial", end)' = "kTrigger"]_vars
  BY <1>1
<1> QED
  BY <1>2, CoreInvariant, PTL DEF Spec, BackoffBounds
=============================================================================
