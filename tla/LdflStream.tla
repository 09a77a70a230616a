----------------------------- MODULE LdflStream -----------------------------
(***************************************************************************)
(* One LDFL session as an application thread and an I/O worker share it.   *)
(* The application talks to one endpoint of a Link, the worker to the      *)
(* other; the worker merges the two outbound lanes with LdflPacketMux      *)
(* (crates/ladoflow-transport/src/ldfl_stream.rs) and puts inbound frames  *)
(* into the inbound lanes.  This module holds the shared state, the        *)
(* application's calls and the multiplexer; TcpPump and UsbBulkPump extend *)
(* it with the two workers.                                                *)
(*                                                                         *)
(* A frame is [seq, lane, size, key]: the header sequence, the lane that   *)
(* channel_for_message selects, the length in I/O chunks.  The             *)
(* application numbers its frames with one counter over both lanes, as the *)
(* host loop does with next_sequence (apps/desktop/src-tauri/src/          *)
(* runtime.rs), so DuplicateSequence cannot arise.                         *)
(***************************************************************************)
EXTENDS PacketQueue

CONSTANTS
    Limits,         \* [Lane -> queue limits], TCP_QUEUE_CONFIG / USB_QUEUE_CONFIG
    Size,           \* frame lengths in I/O chunks
    MaxFrames,      \* bound: frames the application sends
    MaxPeerFrames   \* bound: frames the peer sends

ASSUME StreamAssumption == {MaxFrames, MaxPeerFrames} \subseteq Nat

Lane == {"Control", "Media"}
None == [seq |-> 0]

VARIABLES
    connected,  \* Link::connected
    out,        \* out[lane]: accepted from the application, not yet received
    in,         \* in[lane]: put there by the worker, not yet received
    sent,       \* every frame try_send accepted from the application, in order
    slot,       \* LdflPacketMux: the frame held back per lane, or None
    wire,       \* frames whose last byte the worker has written
    peerSent,   \* every frame the peer has put on its stream, in order
    flight,     \* frames of the peer the worker has not read yet
    delivered,  \* frames the application has received, in order
    cancel      \* the worker's cancel flag

streamVars == <<connected, out, in, sent, slot, wire, peerSent, flight, delivered, cancel>>

\* Frames of either side, as far as the bounds reach.
Frame == [seq : 1 .. MaxFrames + MaxPeerFrames, lane : Lane,
          size : Size \cup {1}, key : {NoKey}]
FramesOf == [lane \in Lane |-> {f \in Frame : f.lane = lane}]
OfLane(frames, lane) == Retain(frames, FramesOf[lane])
PerLane(frames) == [l \in Lane |-> OfLane(frames, l)]
Held(f) == IF f = None THEN <<>> ELSE <<f>>

StreamInit ==
    /\ connected = TRUE
    /\ out = [l \in Lane |-> EmptyQueue]
    /\ in = [l \in Lane |-> EmptyQueue]
    /\ sent = <<>>
    /\ slot = [l \in Lane |-> None]
    /\ wire = <<>>
    /\ peerSent = <<>>
    /\ flight = <<>>
    /\ delivered = <<>>
    /\ cancel = FALSE

----------------------------------------------------------------------------
(***************************************************************************)
(* The application's calls.  next_sequence advances only after try_send    *)
(* accepted the frame, so the number of a frame that found its queue full  *)
(* is used again.  A full control queue is retried, a full media queue     *)
(* fails the session and ends in Shutdown: neither changes the stream.     *)
(***************************************************************************)
AppSend(lane, size) ==
    LET f == [seq |-> Len(sent) + 1, lane |-> lane, size |-> size, key |-> NoKey]
    IN  /\ Len(sent) < MaxFrames
        /\ connected
        /\ ~TooLarge(Limits[lane], f)
        /\ Fits(out[lane], Limits[lane], f)
        /\ out' = [out EXCEPT ![lane] = Pushed(@, f)]
        /\ sent' = Append(sent, f)
        /\ UNCHANGED <<connected, in, slot, wire, peerSent, flight, delivered, cancel>>

AppReceive(lane) ==
    /\ connected
    /\ in[lane].packets # <<>>
    /\ delivered' = Append(delivered, Head(in[lane].packets))
    /\ in' = [in EXCEPT ![lane] = Popped(@)]
    /\ UNCHANGED <<connected, out, sent, slot, wire, peerSent, flight, cancel>>

PeerSend(lane) ==
    LET f == [seq |-> Len(peerSent) + 1, lane |-> lane, size |-> 1, key |-> NoKey]
    IN  /\ Len(peerSent) < MaxPeerFrames
        /\ peerSent' = Append(peerSent, f)
        /\ flight' = Append(flight, f)
        /\ UNCHANGED <<connected, out, in, sent, slot, wire, delivered, cancel>>

----------------------------------------------------------------------------
\* Mutant: a frame held back in the slot is overwritten by the next one.
TakesAlways(lane) == out[lane].packets # <<>>

(***************************************************************************)
(* The two receives of LdflPacketMux::next.  Each is a critical section of *)
(* its own: the application may run between them.  A lane is only asked    *)
(* for a frame while none of its frames is held back.                      *)
(***************************************************************************)
Takes(lane) == slot[lane] = None /\ out[lane].packets # <<>>

SlotAfter(lane) ==
    IF Takes(lane) THEN [slot EXCEPT ![lane] = Head(out[lane].packets)] ELSE slot
OutAfter(lane) ==
    IF Takes(lane) THEN [out EXCEPT ![lane] = Popped(@)] ELSE out

(***************************************************************************)
(* The match at the end of next: the held-back frame with the smaller      *)
(* sequence, or the only one there is.                                     *)
(***************************************************************************)
Earliest(s) ==
    IF s["Media"] = None THEN s["Control"]
    ELSE IF s["Control"] = None THEN s["Media"]
    ELSE IF s["Control"].seq < s["Media"].seq THEN s["Control"] ELSE s["Media"]

Without(s, f) == [l \in Lane |-> IF s[l] = f THEN None ELSE s[l]]

(***************************************************************************)
(* endpoint.disconnect(): both directions of the link are emptied.         *)
(***************************************************************************)
LinkDisconnect ==
    /\ connected' = FALSE
    /\ out' = [l \in Lane |-> EmptyQueue]
    /\ in' = [l \in Lane |-> EmptyQueue]

----------------------------------------------------------------------------
(***************************************************************************)
(* What is under way on each lane while the link is `up`.  Outbound, a     *)
(* frame is under way from try_send until its last chunk is written: it is *)
(* in the queue o, in the multiplexer's slot s or the frame h that is      *)
(* being written.  Inbound, it is under way from the peer's stream until   *)
(* try_receive: in flight f, decoded and held back in b, or in the queue i. *)
(***************************************************************************)
OutTransit(up, h, s, o) ==
    [l \in Lane |-> IF up THEN OfLane(Held(h), l) \o Held(s[l]) \o o[l].packets ELSE <<>>]
InTransit(up, i, b, f) ==
    [l \in Lane |-> IF up THEN i[l].packets \o OfLane(b \o f, l) ELSE <<>>]

=============================================================================
