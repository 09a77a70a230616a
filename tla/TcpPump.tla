------------------------------ MODULE TcpPump ------------------------------
(***************************************************************************)
(* TcpPacketTransport and its worker thread (crates/ladoflow-transport/    *)
(* src/tcp.rs).  `pc` is the point the worker has reached in the loop of   *)
(* pump_tcp_stream or, after it, in run_tcp_stream; a step ends at each    *)
(* critical section and at each socket call.                               *)
(***************************************************************************)
EXTENDS LdflStream

CONSTANT MaxRead    \* bound: frames one 64 KiB read can complete

VARIABLES
    pc,
    inbound,    \* frames decoded and not yet accepted by the inbound lanes
    pending,    \* PendingWrite: [frame, offset], frame = None when there is none
    peerOpen,   \* the peer has not closed its half of the stream
    result,     \* how pump_tcp_stream returned: "running", "ok", "error"
    lastError,  \* TcpTransportStatus::last_error is set
    joining     \* the owner is in shutdown(), waiting for the worker

workerVars == <<pc, inbound, pending, result, lastError>>
vars == <<streamVars, workerVars, peerOpen, joining>>

NoWrite == [frame |-> None, offset |-> 0]

Init ==
    /\ StreamInit
    /\ pc = "top"
    /\ inbound = <<>>
    /\ pending = NoWrite
    /\ peerOpen = TRUE
    /\ result = "running"
    /\ lastError = FALSE
    /\ joining = FALSE

----------------------------------------------------------------------------
(***************************************************************************)
(* The owner and the peer.                                                 *)
(***************************************************************************)
Application ==
    /\ ~joining
    /\ \/ \E l \in Lane, size \in Size : AppSend(l, size)
       \/ \E l \in Lane : AppReceive(l)
    /\ UNCHANGED <<workerVars, peerOpen, joining>>

(***************************************************************************)
(* shutdown(), also from Drop: raise the flag, then join.                  *)
(***************************************************************************)
Shutdown ==
    /\ ~joining
    /\ joining' = TRUE
    /\ cancel' = TRUE
    /\ UNCHANGED <<connected, out, in, sent, slot, wire, peerSent, flight, delivered>>
    /\ UNCHANGED <<workerVars, peerOpen>>

Peer ==
    /\ peerOpen
    /\ \/ /\ \E l \in Lane : PeerSend(l)
          /\ UNCHANGED peerOpen
       \/ /\ peerOpen' = FALSE
          /\ UNCHANGED streamVars
    /\ UNCHANGED <<workerVars, joining>>

----------------------------------------------------------------------------
(***************************************************************************)
(* The worker.                                                             *)
(***************************************************************************)
Fail ==
    /\ pc' = "disconnect"
    /\ result' = "error"

\* Mutant: the loop only ends once the frame it is writing is on the wire.
TopFlushesWrite ==
    /\ pc = "top"
    /\ IF cancel /\ pending = NoWrite THEN pc' = "disconnect" /\ result' = "ok"
                                      ELSE pc' = "drain" /\ UNCHANGED result
    /\ UNCHANGED <<streamVars, inbound, pending, lastError, peerOpen, joining>>

Top ==
    /\ pc = "top"
    /\ IF cancel THEN pc' = "disconnect" /\ result' = "ok"
                 ELSE pc' = "drain" /\ UNCHANGED result
    /\ UNCHANGED <<streamVars, inbound, pending, lastError, peerOpen, joining>>

\* Mutant: a frame the lane refuses is dropped instead of put back in front.
DrainDropsRefused ==
    /\ pc = "drain"
    /\ IF inbound = <<>>
         THEN UNCHANGED <<in, inbound>>
         ELSE LET f == Head(inbound)
              IN  /\ inbound' = Tail(inbound)
                  /\ in' = IF Fits(in[f.lane], Limits[f.lane], f)
                             THEN [in EXCEPT ![f.lane] = Pushed(@, f)] ELSE in
    /\ pc' = IF inbound' = <<>> THEN "mux" ELSE "drain"
    /\ UNCHANGED <<connected, out, sent, slot, wire, peerSent, flight, delivered, cancel>>
    /\ UNCHANGED <<pending, result, lastError, peerOpen, joining>>

(***************************************************************************)
(* drain_inbound, one try_send per step; the first refused frame goes back *)
(* to the front and ends the drain.  The decoder refuses frames above the  *)
(* packet limit and only this thread disconnects, so Full is the one error *)
(* try_send can return here.                                               *)
(***************************************************************************)
Drain ==
    /\ pc = "drain"
    /\ LET f == Head(inbound)
       IN  IF inbound # <<>> /\ Fits(in[f.lane], Limits[f.lane], f)
             THEN /\ in' = [in EXCEPT ![f.lane] = Pushed(@, f)]
                  /\ inbound' = Tail(inbound)
                  /\ UNCHANGED pc
             ELSE pc' = "mux" /\ UNCHANGED <<in, inbound>>
    /\ UNCHANGED <<connected, out, sent, slot, wire, peerSent, flight, delivered, cancel>>
    /\ UNCHANGED <<pending, result, lastError, peerOpen, joining>>

(***************************************************************************)
(* LdflPacketMux::next, only entered while no write is pending.            *)
(***************************************************************************)
MuxControl ==
    /\ pc = "mux"
    /\ IF pending = NoWrite
         THEN slot' = SlotAfter("Control") /\ out' = OutAfter("Control") /\ pc' = "muxMedia"
         ELSE UNCHANGED <<slot, out>> /\ pc' = "write"
    /\ UNCHANGED <<connected, in, sent, wire, peerSent, flight, delivered, cancel>>
    /\ UNCHANGED <<inbound, pending, result, lastError, peerOpen, joining>>

MuxMedia ==
    /\ pc = "muxMedia"
    /\ LET next == Earliest(SlotAfter("Media"))
       IN  /\ pending' = [frame |-> next, offset |-> 0]
           /\ slot' = Without(SlotAfter("Media"), next)
           /\ out' = OutAfter("Media")
    /\ pc' = "write"
    /\ UNCHANGED <<connected, in, sent, wire, peerSent, flight, delivered, cancel>>
    /\ UNCHANGED <<inbound, result, lastError, peerOpen, joining>>

\* Mutant: a frame counts as written after its first chunk.
WriteForgetsTail ==
    /\ pc = "write"
    /\ pending # NoWrite
    /\ wire' = Append(wire, [pending.frame EXCEPT !.size = 1])
    /\ pending' = NoWrite
    /\ pc' = "read"
    /\ UNCHANGED <<connected, out, in, sent, slot, peerSent, flight, delivered, cancel>>
    /\ UNCHANGED <<inbound, result, lastError, peerOpen, joining>>

(***************************************************************************)
(* write_pending: one chunk goes out; the frame is on the wire with its    *)
(* last chunk.  WouldBlock and Interrupted leave it pending (WriteBlocked), *)
(* any other socket error ends the pump (WriteFails).  WriteBlocked is also *)
(* the way past the write when the multiplexer had nothing.                *)
(***************************************************************************)
WriteChunk ==
    /\ pc = "write"
    /\ pending # NoWrite
    /\ IF pending.offset + 1 = pending.frame.size
         THEN wire' = Append(wire, pending.frame) /\ pending' = NoWrite
         ELSE pending' = [pending EXCEPT !.offset = @ + 1] /\ UNCHANGED wire
    /\ pc' = "read"
    /\ UNCHANGED <<connected, out, in, sent, slot, peerSent, flight, delivered, cancel>>
    /\ UNCHANGED <<inbound, result, lastError, peerOpen, joining>>

\* Mutant: a blocked write starts the frame from its beginning.
WriteBlockedRestarts ==
    /\ pc = "write"
    /\ pc' = "read"
    /\ pending' = [pending EXCEPT !.offset = 0]
    /\ UNCHANGED <<streamVars, inbound, result, lastError, peerOpen, joining>>

WriteBlocked ==
    /\ pc = "write"
    /\ pc' = "read"
    /\ UNCHANGED <<streamVars, inbound, pending, result, lastError, peerOpen, joining>>

WriteFails ==
    /\ pc = "write"
    /\ pending # NoWrite
    /\ Fail
    /\ UNCHANGED <<streamVars, inbound, pending, lastError, peerOpen, joining>>

(***************************************************************************)
(* The read guard: back pressure stays in the socket while a decoded frame *)
(* waits for room in its lane.                                             *)
(***************************************************************************)
ReadAllowed == inbound = <<>>

(***************************************************************************)
(* stream.read and decoder.push: some of the peer's bytes complete n       *)
(* frames.  n = 0 covers WouldBlock, Interrupted and a partial frame.      *)
(***************************************************************************)
Read ==
    /\ pc = "read"
    /\ \E n \in 0 .. MaxRead :
         /\ n <= Len(flight)
         /\ n > 0 => ReadAllowed
         /\ inbound' = inbound \o SubSeq(flight, 1, n)
         /\ flight' = SubSeq(flight, n + 1, Len(flight))
    /\ pc' = "top"
    /\ UNCHANGED <<connected, out, in, sent, slot, wire, peerSent, delivered, cancel>>
    /\ UNCHANGED <<pending, result, lastError, peerOpen, joining>>

ReadEndOfStream ==
    /\ pc = "read"
    /\ ReadAllowed
    /\ ~peerOpen /\ flight = <<>>
    /\ pc' = "disconnect"
    /\ result' = "ok"
    /\ UNCHANGED <<streamVars, inbound, pending, lastError, peerOpen, joining>>

(***************************************************************************)
(* A socket error, or bytes the decoder rejects.                           *)
(***************************************************************************)
ReadFails ==
    /\ pc = "read"
    /\ ReadAllowed
    /\ Fail
    /\ UNCHANGED <<streamVars, inbound, pending, lastError, peerOpen, joining>>

Disconnect ==
    /\ pc = "disconnect"
    /\ LinkDisconnect
    /\ pc' = "report"
    /\ UNCHANGED <<sent, slot, wire, peerSent, flight, delivered, cancel>>
    /\ UNCHANGED <<inbound, pending, result, lastError, peerOpen, joining>>

(***************************************************************************)
(* The status update that ends the thread: unless cancelled, last_error is *)
(* set for Ok(()) as well as for an error.                                 *)
(***************************************************************************)
Report ==
    /\ pc = "report"
    /\ lastError' = ~cancel
    /\ pc' = "done"
    /\ UNCHANGED <<streamVars, inbound, pending, result, peerOpen, joining>>

Worker == Top \/ Drain \/ MuxControl \/ MuxMedia \/ WriteChunk \/ WriteBlocked
          \/ WriteFails \/ Read \/ ReadEndOfStream \/ ReadFails \/ Disconnect \/ Report

Next == Application \/ Shutdown \/ Peer \/ Worker

(***************************************************************************)
(* The worker thread is scheduled.  Nothing is assumed of the application, *)
(* of the peer or of the socket, which may refuse bytes for ever.          *)
(***************************************************************************)
Spec == Init /\ [][Next]_vars /\ WF_vars(Worker)

----------------------------------------------------------------------------
(***************************************************************************)
(* The worker implements OrderedLanes in both directions.                  *)
(***************************************************************************)
Outbound == INSTANCE OrderedLanes WITH
    Lanes <- Lane, Frames <- Frame, up <- connected,
    accepted <- PerLane(sent), arrived <- PerLane(wire),
    transit <- OutTransit(connected, pending.frame, slot, out)

Inbound == INSTANCE OrderedLanes WITH
    Lanes <- Lane, Frames <- Frame, up <- connected,
    accepted <- PerLane(peerSent), arrived <- PerLane(delivered),
    transit <- InTransit(connected, in, inbound, flight)

(***************************************************************************)
(* No frame of a lane is lost, repeated, cut short or moved while the      *)
(* connection stands, in either direction: a blocked write keeps its tail, *)
(* a full lane holds frames back, and the frame the multiplexer set aside  *)
(* goes before those still queued.                                         *)
(***************************************************************************)
OutboundIsOrdered == Outbound!Spec
InboundIsOrdered == Inbound!Spec

(***************************************************************************)
(* shutdown() always returns: the join is not held up by a peer that       *)
(* neither reads nor writes, nor by queues nobody drains, nor by a frame   *)
(* that is half written.                                                   *)
(***************************************************************************)
ShutdownReturns == joining ~> (pc = "done")

(***************************************************************************)
(* The peer keeps reading: a socket that is asked again and again takes a  *)
(* chunk in the end.  An assumption of the next property only.             *)
(***************************************************************************)
SocketAccepts == SF_vars(WriteChunk)

(***************************************************************************)
(* As long as the socket accepts bytes, an accepted frame reaches the wire *)
(* or the link goes down; neither lane starves the other.                  *)
(***************************************************************************)
AcceptedReachesWire ==
    SocketAccepts =>
        \A n \in 1 .. MaxFrames :
            (Len(sent) >= n) ~> ((\E i \in DOMAIN wire : wire[i].seq = n) \/ ~connected)

(***************************************************************************)
(* Claim of ldfl_stream.rs, LdflPacketMux ("Merge independent control and  *)
(* media queues back into global LDFL order"): frames leave in the order   *)
(* of their sequence numbers.  The run MCTcpOrder refutes it.              *)
(***************************************************************************)
GlobalWireOrder ==
    \A i, j \in DOMAIN wire : i < j => wire[i].seq < wire[j].seq

=============================================================================
