------------------------------- MODULE MCLink -------------------------------
(***************************************************************************)
(* Finite instance of Link: room for one control packet of one byte and    *)
(* for two media packets in three bytes, so both the packet limit and the  *)
(* byte limit are met, with and without a replacement.                     *)
(***************************************************************************)
EXTENDS Link, TLC

CONSTANTS K1, K2

MCKey == {K1, K2}
MCSymmetry == Permutations(MCKey)
MCLimits == [c \in Channel |->
    IF c = "Control"
    THEN [max_packets |-> 1, max_queued_bytes |-> 2, max_packet_bytes |-> 1]
    ELSE [max_packets |-> 2, max_queued_bytes |-> 3, max_packet_bytes |-> 2]]
=============================================================================
