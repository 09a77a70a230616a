----------------------------- MODULE MCCapture -----------------------------
(***************************************************************************)
(* Finite instance of Capture: two screen sizes, so that a frame can be    *)
(* queued on either side of a resize.                                      *)
(***************************************************************************)
EXTENDS Capture
=============================================================================
