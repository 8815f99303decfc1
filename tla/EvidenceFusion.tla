--------------------------- MODULE EvidenceFusion ---------------------------
(***************************************************************************)
(* The pure decision tables of the cross-frame object tracker              *)
(* (fusion/object_tracker.cpp): how one frame's evidence about one track   *)
(* is graded, and which state the grade drives the track to.  Scores,      *)
(* thresholds and pixel work are abstracted to the outcomes the tables     *)
(* read: an evidence record says what each channel reported.               *)
(***************************************************************************)
EXTENDS Integers, SequencesExt

CONSTANTS
  UncertainFrameLimit,   \* options.uncertain_frame_limit
  MaxTemplates,          \* options.max_templates
  MaxNegativeTemplates,  \* options.max_negative_templates
  DeepChannelEnabled,    \* options.deep_channel_enabled
  Evidence               \* the evidence frames callers commit

ASSUME UncertainFrameLimitAssumption == UncertainFrameLimit \in Nat \ {0}
ASSUME MaxTemplatesAssumption == MaxTemplates \in Nat \ {0}
ASSUME MaxNegativeTemplatesAssumption == MaxNegativeTemplates \in Nat
ASSUME DeepChannelAssumption == DeepChannelEnabled \in BOOLEAN

TrackState == {"kTracking", "kUncertain", "kLost", "kTerminated"}

EvidenceGrade == {"kConfirmed", "kTentative", "kPlaceholder", "kVetoed"}

Confirming(grade) == grade \in {"kConfirmed", "kTentative"}

(***************************************************************************)
(* One frame's evidence about one track.  `appearance' is the E1 template  *)
(* channel, `consistent' the E2 structure channel, `in_gate' is true when  *)
(* the candidate lies in the position gate or the scenario is              *)
(* kGenerationSwitch, `impostor' when the candidate patch matches a stored *)
(* negative template, `conflict' when the labels disagree, `deep' the      *)
(* disposition of the deep channel.  A track's own label is non-empty.     *)
(* The record comes from the caller, who may have verified earlier frames: *)
(* no field is tied to what the track holds now.                           *)
(***************************************************************************)
EvidenceRecord ==
  [appearance : {"kNone", "kWeak", "kStrong"},
   consistent : BOOLEAN,
   offset     : Int,
   in_gate    : BOOLEAN,
   impostor   : BOOLEAN,
   conflict   : BOOLEAN,
   deep       : IF DeepChannelEnabled
                THEN {"kNotSupplied", "kCorroborated", "kConflict"}
                ELSE {"kNotSupplied"}]

ASSUME EvidenceAssumption == Evidence \subseteq EvidenceRecord

HasCandidate(e) == e.appearance # "kNone"

appearance_level(e) ==
  IF e.appearance = "kStrong" \/ e.consistent THEN "kStrong" ELSE e.appearance

gate_admitted(state, e) == e.in_gate \/ state = "kLost"

impostor_match(negatives, e) == HasCandidate(e) /\ negatives # <<>> /\ e.impostor

fusion_grade(level, gate_ok, impostor, conflict) ==
  CASE impostor \/ conflict              -> "kVetoed"
    [] OTHER ->
       CASE level = "kStrong" /\ gate_ok -> "kConfirmed"
         [] level = "kWeak" /\ gate_ok   -> "kTentative"
         [] OTHER                        -> "kPlaceholder"

\* Mutant: a corroborating deep channel confirms by itself.
deep_promoted(grade, e) ==
  IF e.deep = "kCorroborated" /\ grade = "kPlaceholder" THEN "kTentative" ELSE grade

\* A conflicting deep channel demotes a confirming grade, and lifts none.
deep_demoted(grade, e) ==
  IF e.deep = "kConflict" /\ Confirming(grade) THEN "kPlaceholder" ELSE grade

Grade(state, negatives, e) ==
  deep_demoted(fusion_grade(appearance_level(e), gate_admitted(state, e),
                            impostor_match(negatives, e), e.conflict), e)

\* Mutant: one insufficient frame too many is forgiven.
limit_exceeded(streak) == streak > UncertainFrameLimit

limit_reached(streak) == streak >= UncertainFrameLimit

track_transition(state, grade, slot, frame) ==
  LET streak == slot.insufficient_streak + 1
      lost   == limit_reached(streak)
  IN  IF Confirming(grade)
      THEN [state |-> "kTracking", insufficient_streak |-> 0, lost_sequence |-> 0]
      ELSE IF state = "kLost"
      THEN [state |-> state,
            insufficient_streak |-> slot.insufficient_streak,
            lost_sequence |-> slot.lost_sequence]
      ELSE [state |-> IF lost THEN "kLost" ELSE "kUncertain",
            insufficient_streak |-> streak,
            lost_sequence |-> IF lost THEN frame ELSE slot.lost_sequence]

\* With max_templates = 1 only the pinned adoption template fits: no capture.
PositiveCapturePolicy == MaxTemplates >= 2

NegativeCapturePolicy == MaxNegativeTemplates >= 1

\* Mutant: the pinned template is dropped.
DropFirstAppend(set, capacity, pinned, entry) ==
  Append(IF Len(set) >= capacity THEN Tail(set) ELSE set, entry)

\* The drop-oldest insertion into a bounded template set whose first `pinned'
\* entries are never evicted.
DropOldestAppend(set, capacity, pinned, entry) ==
  Append(IF Len(set) >= capacity THEN RemoveAt(set, pinned + 1) ELSE set, entry)
=============================================================================
