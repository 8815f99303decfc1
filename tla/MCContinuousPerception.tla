----------------------- MODULE MCContinuousPerception -----------------------
(* Values for the model-checking runs of ContinuousPerception. *)
EXTENDS ContinuousPerception

MCCells == {"left", "right"}

Saying(text) == [text |-> text, label |-> "button", parents |-> {}]
Inside(parent) == [text |-> "old", label |-> "button", parents |-> {parent}]
Region(id, cell, look) == [id |-> id, bounds |-> {cell}, look |-> look]

Untracked == [id \in {1, 2} |-> [state |-> "kNone", bounds |-> {}]]
Tracked(state) == [Untracked EXCEPT ![1] = [state |-> state, bounds |-> {"left"}]]

\* A frame on which nothing changed since the one before.
Quiet(regions) ==
  [regions |-> regions, content |-> [cell \in MCCells |-> 0],
   generation |-> 1, request |-> 0, global |-> FALSE, changed |-> {},
   bootstrap |-> FALSE, notify |-> TRUE, hierarchy |-> TRUE,
   tracks |-> Untracked, room |-> 3]

Shown == Quiet(<<Region(1, "left", Saying("old"))>>)
Reworded == Quiet(<<Region(1, "left", Saying("new"))>>)
Gone == Quiet(<<>>)
\* Something without an identity covers the place, and the bytes of the
\* coordinator leave the event queue no room.
Hidden == [Quiet(<<Region(0, "left", Saying("old"))>>) EXCEPT !.room = 0]
Both == Quiet(<<Region(2, "right", Saying("old")), Region(1, "left", Inside(2))>>)
Other == Quiet(<<Region(2, "left", Saying("old"))>>)
Lost == [Gone EXCEPT !.tracks = Tracked("kLost")]

\* The left cell shows other pixels: without a word of it, or with a new text.
Repainted == [Shown EXCEPT !.content["left"] = 1]
Rewritten == [Reworded EXCEPT !.content["left"] = 1]

\* A change report names the left cell (and the caller wants no events), or the
\* whole layout.
Changed == [Shown EXCEPT !.changed = {"left"}, !.notify = FALSE]
Replaced == [Shown EXCEPT !.global = TRUE]

NextGeneration == [Shown EXCEPT !.generation = 2]
OtherRequest == [Shown EXCEPT !.request = 1]

\* Nothing is shown, but a track still follows the target; the caller lets
\* the coordinator look at the whole frame.
Followed == [Gone EXCEPT !.tracks = Tracked("kActive"), !.bootstrap = TRUE]

ById(id, generation) == [by |-> "id", id |-> id, generation |-> generation, roi |-> {}, text |-> ""]
ByText(text) == [by |-> "text", id |-> 0, generation |-> 0, roi |-> {}, text |-> text]
ByRoi(roi) == [by |-> "roi", id |-> 0, generation |-> 0, roi |-> roi, text |-> ""]

WatchText == {<<ByText("old")>>}
WatchCells == {<<ByRoi({"left"}), ByRoi({"right"})>>}
WatchAll == {<<ByRoi({"left"}), ByRoi({"right"})>>, <<ByText("new"), ById(1, 1)>>}

\* What can happen to one identity, with another that competes for its place.
TemporalCycles == {Shown, Rewritten, Gone, Hidden, Lost, Other}

ReplanCycles == {Gone, Shown, OtherRequest}
Disappearance == {Shown, Gone}

\* What can end the validity of evidence.
LedgerCycles ==
  {Shown, Both, Repainted, Changed, Replaced, NextGeneration, OtherRequest, Followed}
=============================================================================
