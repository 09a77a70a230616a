--------------------------- MODULE MCCaptureProbe ---------------------------
(***************************************************************************)
(* Finite instance of CaptureProbe: more callers than the command queue    *)
(* holds, and a second encoder to fall back to.                            *)
(***************************************************************************)
EXTENDS CaptureProbe
=============================================================================
