------------------------- MODULE MCVirtualDisplay -------------------------
(***************************************************************************)
(* Finite instance of VirtualDisplay: the window's poller and one caller   *)
(* of enable and disable, a negotiated size the monitor offers and one it  *)
(* does not.  The physical monitor is in the first size already, so that   *)
(* changing it by mistake may also change nothing.                         *)
(***************************************************************************)
EXTENDS VirtualDisplay

MCSizes == {"A", "B"}
MCAdvertised == {"A"}
=============================================================================
