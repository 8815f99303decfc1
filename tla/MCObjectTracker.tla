-------------------------- MODULE MCObjectTracker ---------------------------
(* Values for the model-checking runs of ObjectTracker. *)
EXTENDS ObjectTracker

\* Two neighbouring pixels inside the view and one coordinate outside it.
MCCoordinates == -1 .. 1
MCViewCoordinates == 0 .. 1
MCShifts == {-1, 1}

Seen(appearance, in_gate, impostor, conflict) ==
  [appearance |-> appearance, consistent |-> FALSE, offset |-> 0, in_gate |-> in_gate,
   impostor |-> impostor, conflict |-> conflict, deep |-> "kNotSupplied"]

\* Every shape of evidence without the deep channel and without motion that
\* the tables can tell apart.
AllEvidence ==
  {e \in [appearance : {"kNone", "kWeak", "kStrong"}, consistent : BOOLEAN, offset : {0},
          in_gate : BOOLEAN, impostor : BOOLEAN, conflict : BOOLEAN, deep : {"kNotSupplied"}] :
     /\ e.appearance = "kNone" => ~e.impostor
     /\ e.appearance = "kStrong" => ~e.consistent}

\* A confirmation and a frame without evidence.
ConfirmOrNothing ==
  {Seen("kStrong", TRUE, FALSE, FALSE), Seen("kNone", FALSE, FALSE, FALSE)}

\* Confirmations that move the track or not, strong, weak or by structure
\* alone, with every disposition of the deep channel; and an impostor and a
\* conflict that would move it.
MovingEvidence ==
  {[Seen("kStrong", TRUE, FALSE, FALSE) EXCEPT !.offset = dx, !.deep = deep] :
     dx \in 0 .. 1, deep \in {"kNotSupplied", "kCorroborated", "kConflict"}}
    \cup {[Seen("kStrong", FALSE, FALSE, FALSE) EXCEPT !.deep = "kCorroborated"],
          [Seen("kNone", TRUE, FALSE, FALSE) EXCEPT !.consistent = TRUE, !.offset = 1],
          [Seen("kWeak", TRUE, FALSE, TRUE) EXCEPT !.offset = 1]}
=============================================================================
