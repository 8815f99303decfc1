--------------------------- MODULE TrackLifecycle ---------------------------
(***************************************************************************)
(* What the target pool promises about one identity, whatever its tables:  *)
(* a track is adopted confirmed, each frame of insufficient evidence adds  *)
(* one doubt, the limit makes it lost, one confirmation clears every       *)
(* doubt, loss is left only by a confirmation or by the end of the track,  *)
(* and an id that comes back starts from nothing.                          *)
(***************************************************************************)
EXTENDS Integers

CONSTANTS TrackIds, UncertainFrameLimit

VARIABLES
  phase,   \* "kAbsent" or the state of the track
  doubt    \* consecutive insufficient frames since the last confirmation

vars == <<phase, doubt>>

Live == {"kTracking", "kUncertain", "kLost"}

In(ids, value, f) == [id \in TrackIds |-> IF id \in ids THEN value ELSE f[id]]

Init ==
  /\ phase = [id \in TrackIds |-> "kAbsent"]
  /\ doubt = [id \in TrackIds |-> 0]

\* Archives leave before live tracks do.
Adopt(id, evicted) ==
  /\ phase[id] = "kAbsent"
  /\ \A k \in evicted : phase[k] # "kAbsent"
  /\ (\E k \in evicted : phase[k] \in Live)
       => \A k \in TrackIds : phase[k] = "kTerminated" => k \in evicted
  /\ phase' = In({id}, "kTracking", In(evicted, "kAbsent", phase))
  /\ doubt' = In({id} \cup evicted, 0, doubt)

Confirm(id) ==
  /\ phase[id] \in Live
  /\ phase' = In({id}, "kTracking", phase)
  /\ doubt' = In({id}, 0, doubt)

Doubt(id) ==
  LET lost == doubt[id] + 1 >= UncertainFrameLimit
  IN  /\ phase[id] \in {"kTracking", "kUncertain"}
      /\ phase' = In({id}, IF lost THEN "kLost" ELSE "kUncertain", phase)
      /\ doubt' = In({id}, doubt[id] + 1, doubt)

\* Doubtful tracks whose layout is gone are given up together.
Abandon(ids) ==
  /\ \A id \in ids : phase[id] = "kUncertain"
  /\ phase' = In(ids, "kLost", phase)
  /\ UNCHANGED doubt

Archive(id) ==
  /\ phase[id] \in Live
  /\ phase' = In({id}, "kTerminated", phase)
  /\ doubt' = In({id}, 0, doubt)

Forget ==
  /\ phase' = [id \in TrackIds |-> "kAbsent"]
  /\ doubt' = [id \in TrackIds |-> 0]

Next ==
  \/ \E id \in TrackIds, evicted \in SUBSET TrackIds : Adopt(id, evicted)
  \/ \E id \in TrackIds : Confirm(id) \/ Doubt(id) \/ Archive(id)
  \/ \E ids \in SUBSET TrackIds : Abandon(ids)
  \/ Forget

Spec == Init /\ [][Next]_vars
=============================================================================
