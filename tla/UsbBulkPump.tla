---------------------------- MODULE UsbBulkPump ----------------------------
(***************************************************************************)
(* The bulk worker of one Android Open Accessory session: run_bulk_session *)
(* and pump_bulk_stream in                                                 *)
(* apps/desktop/src-tauri/src/platform/windows/usb_accessory.rs.  It       *)
(* differs from the TCP worker in two ways: write_bulk blocks until a      *)
(* frame is out or the transfer fails, and an inbound frame that finds its *)
(* lane full ends the link.                                                *)
(***************************************************************************)
EXTENDS LdflStream

CONSTANT MaxRead    \* bound: frames one bulk transfer can complete

VARIABLES
    pc,
    inbound,    \* frames of the last transfer not yet put into their lane
    writing,    \* the frame write_chunked is sending, or None
    written,    \* chunks of it already transferred
    ended,      \* why the pump returned: "running", "cancelled", "full", "io"
    phase,      \* UsbLinkState of the shared LinkStatus
    stopping    \* the owner is in AccessorySession::stop, joining

workerVars == <<pc, inbound, writing, written, ended, phase>>
vars == <<streamVars, workerVars, stopping>>

Init ==
    /\ StreamInit
    /\ pc = "top"
    /\ inbound = <<>>
    /\ writing = None
    /\ written = 0
    /\ ended = "running"
    /\ phase = "Connected"
    /\ stopping = FALSE

Application ==
    /\ ~stopping
    /\ \/ \E l \in Lane, size \in Size : AppSend(l, size)
       \/ \E l \in Lane : AppReceive(l)
    /\ UNCHANGED <<workerVars, stopping>>

(***************************************************************************)
(* AccessorySession::stop.                                                 *)
(***************************************************************************)
Stop ==
    /\ ~stopping
    /\ stopping' = TRUE
    /\ cancel' = TRUE
    /\ UNCHANGED <<connected, out, in, sent, slot, wire, peerSent, flight, delivered>>
    /\ UNCHANGED workerVars

Peer ==
    /\ \E l \in Lane : PeerSend(l)
    /\ UNCHANGED <<workerVars, stopping>>

----------------------------------------------------------------------------
\* Mutant: the loop only ends once the worker has read everything in flight.
TopDrainsFirst ==
    /\ pc = "top"
    /\ IF cancel /\ flight = <<>> THEN pc' = "disconnect" /\ ended' = "cancelled"
                                  ELSE pc' = "mux" /\ UNCHANGED ended
    /\ UNCHANGED <<streamVars, inbound, writing, written, phase, stopping>>

Top ==
    /\ pc = "top"
    /\ IF cancel THEN pc' = "disconnect" /\ ended' = "cancelled"
                 ELSE pc' = "mux" /\ UNCHANGED ended
    /\ UNCHANGED <<streamVars, inbound, writing, written, phase, stopping>>

MuxControl ==
    /\ pc = "mux"
    /\ slot' = SlotAfter("Control")
    /\ out' = OutAfter("Control")
    /\ pc' = "muxMedia"
    /\ UNCHANGED <<connected, in, sent, wire, peerSent, flight, delivered, cancel>>
    /\ UNCHANGED <<inbound, writing, written, ended, phase, stopping>>

MuxMedia ==
    /\ pc = "muxMedia"
    /\ LET next == Earliest(SlotAfter("Media"))
       IN  /\ writing' = next
           /\ slot' = Without(SlotAfter("Media"), next)
           /\ out' = OutAfter("Media")
           /\ pc' = IF next = None THEN "read" ELSE "write"
    /\ written' = 0
    /\ UNCHANGED <<connected, in, sent, wire, peerSent, flight, delivered, cancel>>
    /\ UNCHANGED <<inbound, ended, phase, stopping>>

(***************************************************************************)
(* write_chunked: chunk by chunk, without looking at the cancel flag.      *)
(***************************************************************************)
WriteChunk ==
    /\ pc = "write"
    /\ IF written + 1 = writing.size
         THEN /\ wire' = Append(wire, writing)
              /\ writing' = None /\ written' = 0
              /\ pc' = "read"
         ELSE written' = written + 1 /\ UNCHANGED <<wire, writing, pc>>
    /\ UNCHANGED <<connected, out, in, sent, slot, peerSent, flight, delivered, cancel>>
    /\ UNCHANGED <<inbound, ended, phase, stopping>>

(***************************************************************************)
(* A failed, empty or timed-out transfer, and bytes the decoder rejects.   *)
(***************************************************************************)
TransferFails ==
    /\ pc \in {"write", "read"}
    /\ pc' = "disconnect"
    /\ ended' = "io"
    /\ UNCHANGED <<streamVars, inbound, writing, written, phase, stopping>>

Read ==
    /\ pc = "read"
    /\ \E n \in 0 .. MaxRead :
         /\ n <= Len(flight)
         /\ inbound' = SubSeq(flight, 1, n)
         /\ flight' = SubSeq(flight, n + 1, Len(flight))
    /\ pc' = "deliver"
    /\ UNCHANGED <<connected, out, in, sent, slot, wire, peerSent, delivered, cancel>>
    /\ UNCHANGED <<writing, written, ended, phase, stopping>>

\* Mutant: a frame that finds its lane full is skipped.
DeliverSkipsRefused ==
    /\ pc = "deliver"
    /\ LET f == Head(inbound)
       IN  IF inbound = <<>>
             THEN pc' = "top" /\ UNCHANGED <<in, inbound, ended>>
             ELSE /\ in' = IF Fits(in[f.lane], Limits[f.lane], f)
                              THEN [in EXCEPT ![f.lane] = Pushed(@, f)] ELSE in
                  /\ inbound' = Tail(inbound)
                  /\ UNCHANGED <<pc, ended>>
    /\ UNCHANGED <<connected, out, sent, slot, wire, peerSent, flight, delivered, cancel>>
    /\ UNCHANGED <<writing, written, phase, stopping>>

(***************************************************************************)
(* The try_send loop over the frames of one transfer: a refused frame      *)
(* returns from the pump and takes the rest of the transfer with it.       *)
(***************************************************************************)
Deliver ==
    /\ pc = "deliver"
    /\ LET f == Head(inbound)
       IN  IF inbound = <<>>
             THEN pc' = "top" /\ UNCHANGED <<in, inbound, ended>>
           ELSE IF Fits(in[f.lane], Limits[f.lane], f)
             THEN /\ in' = [in EXCEPT ![f.lane] = Pushed(@, f)]
                  /\ inbound' = Tail(inbound)
                  /\ UNCHANGED <<pc, ended>>
           ELSE /\ pc' = "disconnect" /\ ended' = "full"
                /\ UNCHANGED <<in, inbound>>
    /\ UNCHANGED <<connected, out, sent, slot, wire, peerSent, flight, delivered, cancel>>
    /\ UNCHANGED <<writing, written, phase, stopping>>

Disconnect ==
    /\ pc = "disconnect"
    /\ LinkDisconnect
    /\ pc' = "release"
    /\ UNCHANGED <<sent, slot, wire, peerSent, flight, delivered, cancel>>
    /\ UNCHANGED <<inbound, writing, written, ended, phase, stopping>>

(***************************************************************************)
(* release_interface and the final status: Ready only for a worker that    *)
(* was told to stop and whose interface was released.                      *)
(***************************************************************************)
Release(released) ==
    /\ pc = "release"
    /\ phase' = IF cancel /\ released THEN "Ready" ELSE "Failed"
    /\ pc' = "done"
    /\ UNCHANGED <<streamVars, inbound, writing, written, ended, stopping>>

Worker == Top \/ MuxControl \/ MuxMedia \/ WriteChunk \/ TransferFails \/ Read
          \/ Deliver \/ Disconnect \/ \E r \in BOOLEAN : Release(r)

Next == Application \/ Stop \/ Peer \/ Worker

(***************************************************************************)
(* The worker thread is scheduled; every bulk transfer returns within its  *)
(* timeout, so each of its steps is one a scheduled thread completes.      *)
(***************************************************************************)
Spec == Init /\ [][Next]_vars /\ WF_vars(Worker)

----------------------------------------------------------------------------
(***************************************************************************)
(* The worker implements OrderedLanes in both directions.                  *)
(***************************************************************************)
Outbound == INSTANCE OrderedLanes WITH
    Lanes <- Lane, Frames <- Frame, up <- connected,
    accepted <- PerLane(sent), arrived <- PerLane(wire),
    transit <- OutTransit(connected, writing, slot, out)

Inbound == INSTANCE OrderedLanes WITH
    Lanes <- Lane, Frames <- Frame, up <- connected,
    accepted <- PerLane(peerSent), arrived <- PerLane(delivered),
    transit <- InTransit(connected, in, inbound, flight)

(***************************************************************************)
(* No frame of a lane is lost, repeated, cut short or moved while the      *)
(* connection stands, in either direction: a frame the worker cannot place *)
(* costs the link, never a hole in the lane that nobody can see.           *)
(***************************************************************************)
OutboundIsOrdered == Outbound!Spec
InboundIsOrdered == Inbound!Spec

(***************************************************************************)
(* AccessorySession::stop always returns, whatever the worker was doing    *)
(* when the flag was raised: the join that stop() performs while the       *)
(* application waits cannot hang on a full lane or a silent peer.          *)
(***************************************************************************)
StopReturns == stopping ~> (pc = "done")
=============================================================================
