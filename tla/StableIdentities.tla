-------------------------- MODULE StableIdentities --------------------------
(***************************************************************************)
(* What the holder of a stable id relies on (DEC-010): an id that is no    *)
(* longer alive never comes back, so it names one lineage for as long as   *)
(* the session lives.                                                      *)
(***************************************************************************)
EXTENDS Naturals

VARIABLES alive, spent

Init == alive = {} /\ spent = 0

\* Identities may die at any time; a new one has never been spent before.
Advance ==
  /\ spent' \in Nat
  /\ spent' >= spent
  /\ alive' \subseteq alive \cup (spent + 1 .. spent')

Spec == Init /\ [][Advance]_<<alive, spent>>
=============================================================================
