----------------------------- MODULE MCTcpPump -----------------------------
(***************************************************************************)
(* Finite instance of TcpPump: a control lane of two frames and a media    *)
(* lane of one, so that both directions meet a full queue.                 *)
(***************************************************************************)
EXTENDS TcpPump

MCLimits == [l \in Lane |->
    [max_packets |-> IF l = "Control" THEN 2 ELSE 1,
     max_queued_bytes |-> 4, max_packet_bytes |-> 2]]
=============================================================================
