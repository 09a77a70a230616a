-------------------------------- MODULE Link --------------------------------
(***************************************************************************)
(* The duplex link of crates/ladoflow-transport/src/loopback.rs: two       *)
(* endpoints sharing, under one mutex, a connection flag and a control and *)
(* a media queue per direction.  Each method holds the mutex for its whole *)
(* body, so each is one action.  A send or a receive on a disconnected     *)
(* link, an oversized packet and a full queue return an error and change   *)
(* nothing; they are stuttering steps.                                     *)
(***************************************************************************)
EXTENDS PacketQueue

CONSTANTS
    Key,            \* supersession keys used for replaceable media
    Size,           \* payload sizes
    Limits,         \* [Channel -> queue limits], the LoopbackConfig
    MaxPackets,     \* bound: packets offered in a behaviour
    MaxEpochs       \* bound: connections in a behaviour

Side == {"First", "Second"}
Channel == {"Control", "Media"}

ASSUME LimitsAssumption ==
    \A c \in Channel :
        /\ Limits[c] \in [max_packets : Nat, max_queued_bytes : Nat, max_packet_bytes : Nat]
        /\ ValidLimits(Limits[c])
ASSUME SizeAssumption == Size \subseteq Nat
ASSUME KeyAssumption == NoKey \notin Key

VARIABLES
    connected,
    queue,      \* queue[side][channel]: what `side` sent and nobody received
    offered,    \* number of packets offered so far, the identity of the next
    epoch,      \* history: number of reconnects
    accepted,   \* history: accepted[side][channel], packets accepted this epoch
    received,   \* history: received[side][channel], those the peer received
    told        \* history: per channel, what the callers' reports added up to

vars == <<connected, queue, offered, epoch, accepted, received, told>>

Other(side) == IF side = "First" THEN "Second" ELSE "First"
PerLane(v) == [s \in Side |-> [c \in Channel |-> v]]
NoDepth == [packets |-> 0, bytes |-> 0]

(***************************************************************************)
(* Packet::control and Packet::media carry no key; replaceable_media does. *)
(***************************************************************************)
Packets ==
    {p \in [id : {offered + 1}, epoch : {epoch}, channel : Channel,
            key : Key \union {NoKey}, size : Size] :
        p.channel = "Control" => p.key = NoKey}

Depth(packets) == [packets |-> Len(packets), bytes |-> TotalBytes(packets)]
DepthOf(q) == [packets |-> Len(q.packets), bytes |-> q.bytes]
Plus(a, b) == [packets |-> a.packets + b.packets, bytes |-> a.bytes + b.bytes]

----------------------------------------------------------------------------
Init ==
    /\ connected = TRUE
    /\ queue = PerLane(EmptyQueue)
    /\ offered = 0
    /\ epoch = 1
    /\ accepted = PerLane({})
    /\ received = PerLane({})
    /\ told = [c \in Channel |-> [superseded |-> NoDepth, discarded |-> NoDepth,
                                  accepted |-> NoDepth, received |-> NoDepth]]

TrySend(side, p) ==
    LET c == p.channel
        q == queue[side][c]
    IN  /\ connected
        /\ ~TooLarge(Limits[c], p)
        /\ Fits(q, Limits[c], p)
        /\ queue' = [queue EXCEPT ![side][c] = Pushed(q, p)]
        /\ accepted' = [accepted EXCEPT ![side][c] = @ \union {p}]
        /\ told' = [told EXCEPT
               ![c].superseded = Plus(@, Depth(SupersededBy(q, p))),
               ![c].accepted = Plus(@, Depth(<<p>>))]
        /\ UNCHANGED <<connected, epoch, received>>

(***************************************************************************)
(* The caller keeps a packet the transport refuses; it may offer another.  *)
(***************************************************************************)
Refused(side, p) ==
    LET q == queue[side][p.channel]
    IN  /\ ~connected \/ TooLarge(Limits[p.channel], p) \/ ~Fits(q, Limits[p.channel], p)
        /\ UNCHANGED <<connected, queue, epoch, accepted, received, told>>

Send(side) ==
    /\ offered < MaxPackets
    /\ offered' = offered + 1
    /\ \E p \in Packets : TrySend(side, p) \/ Refused(side, p)

TryReceive(side, c) ==
    LET q == queue[Other(side)][c]
        p == Head(q.packets)
    IN  /\ connected
        /\ q.packets # <<>>
        /\ queue' = [queue EXCEPT ![Other(side)][c] = Popped(q)]
        /\ received' = [received EXCEPT ![Other(side)][c] = @ \union {p}]
        /\ told' = [told EXCEPT ![c].received = Plus(@, Depth(<<p>>))]
        /\ UNCHANGED <<connected, offered, epoch, accepted>>

\* Mutant: the report counts one direction only.
DisconnectReportsOneDirection(side) ==
    /\ connected' = FALSE
    /\ queue' = PerLane(EmptyQueue)
    /\ told' = [c \in Channel |-> [told[c] EXCEPT !.discarded =
           Plus(@, DepthOf(queue[side][c]))]]
    /\ UNCHANGED <<offered, epoch, accepted, received>>

(***************************************************************************)
(* disconnect, from either side and also when already disconnected: both   *)
(* directions are emptied and their depths reported.                       *)
(***************************************************************************)
Disconnect(side) ==
    /\ connected' = FALSE
    /\ queue' = PerLane(EmptyQueue)
    /\ told' = [c \in Channel |-> [told[c] EXCEPT !.discarded =
           Plus(@, Plus(DepthOf(queue["First"][c]), DepthOf(queue["Second"][c])))]]
    /\ UNCHANGED <<offered, epoch, accepted, received>>

Reconnect(side) ==
    /\ ~connected
    /\ epoch < MaxEpochs
    /\ connected' = TRUE
    /\ queue' = PerLane(EmptyQueue)
    /\ epoch' = epoch + 1
    /\ accepted' = PerLane({})
    /\ received' = PerLane({})
    /\ UNCHANGED <<offered, told>>

Next ==
    \E side \in Side :
        \/ Send(side)
        \/ \E c \in Channel : TryReceive(side, c)
        \/ Disconnect(side)
        \/ Reconnect(side)

Spec == Init /\ [][Next]_vars

----------------------------------------------------------------------------
(***************************************************************************)
(* Every accepted packet of this connection is still queued, was received, *)
(* or was made obsolete by a later accepted packet of its own key: media   *)
(* without a key and all control traffic are never lost, and a replacement *)
(* that does not fit evicts nothing (packet.rs, SupersessionKey).          *)
(***************************************************************************)
NothingLostWhileConnected ==
    connected =>
        \A s \in Side, c \in Channel : \A p \in accepted[s][c] :
            \/ p \in ToSet(queue[s][c].packets)
            \/ p \in received[s][c]
            \/ \E newer \in accepted[s][c] : newer.id > p.id /\ Obsoletes(newer, p)

(***************************************************************************)
(* The SendReports and DisconnectReports callers were given add up: every  *)
(* accepted packet and byte is received, reported superseded, reported     *)
(* discarded, or still queued.                                             *)
(***************************************************************************)
ReportsAddUp ==
    \A c \in Channel :
        LET queued == Plus(DepthOf(queue["First"][c]), DepthOf(queue["Second"][c]))
        IN  told[c].accepted =
              Plus(Plus(told[c].superseded, told[c].discarded),
                   Plus(told[c].received, queued))

(***************************************************************************)
(* A lane delivers in the order it accepted and only packets of the        *)
(* current connection: nothing queued before a disconnect is ever received *)
(* after it.                                                               *)
(***************************************************************************)
InOrderWithinEpoch ==
    [][\A s \in Side, c \in Channel :
         \A p \in received'[s][c] \ received[s][c] :
            /\ p.epoch = epoch
            /\ \A earlier \in received[s][c] : earlier.id < p.id]_vars
=============================================================================
