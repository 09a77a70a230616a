-------------------------- MODULE MCFrameScheduler --------------------------
(***************************************************************************)
(* Finite instance of FrameScheduler: four units of time in a second, a    *)
(* rate that does not divide them, one that divides them, and one whose    *)
(* slots are closer than a unit.                                           *)
(***************************************************************************)
EXTENDS FrameScheduler

MCFrameRate == {[num |-> 3, den |-> 2], [num |-> 1, den |-> 1], [num |-> 5, den |-> 1]}
=============================================================================
