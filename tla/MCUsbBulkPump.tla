--------------------------- MODULE MCUsbBulkPump ---------------------------
(***************************************************************************)
(* Finite instance of UsbBulkPump: a control lane of two frames and a      *)
(* media lane of one, so that a transfer of two frames can overrun a lane. *)
(***************************************************************************)
EXTENDS UsbBulkPump

MCLimits == [l \in Lane |->
    [max_packets |-> IF l = "Control" THEN 2 ELSE 1,
     max_queued_bytes |-> 3, max_packet_bytes |-> 2]]
=============================================================================
