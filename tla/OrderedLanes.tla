--------------------------- MODULE OrderedLanes ---------------------------
(***************************************************************************)
(* What PacketTransport promises for one direction of a connection         *)
(* (crates/ladoflow-transport/src/transport.rs): every lane is a first-in  *)
(* first-out channel of whole frames.  A frame enters at the back, leaves  *)
(* at the front, and is lost only by losing the connection.  Nothing is    *)
(* promised about the order between lanes.                                 *)
(*                                                                         *)
(* TcpPump and UsbBulkPump implement this specification in both            *)
(* directions; the queues, the multiplexer, partial writes and held-back   *)
(* frames are all inside `transit`.                                        *)
(***************************************************************************)
EXTENDS Naturals, Sequences

CONSTANTS Lanes, Frames

VARIABLES
    up,         \* the connection stands
    accepted,   \* accepted[l]: frames handed in on the lane, in order
    transit,    \* transit[l]: frames under way, oldest first
    arrived     \* arrived[l]: frames that have come out, in order

laneVars == <<up, accepted, transit, arrived>>

Init ==
    /\ up = TRUE
    /\ accepted = [l \in Lanes |-> <<>>]
    /\ transit = [l \in Lanes |-> <<>>]
    /\ arrived = [l \in Lanes |-> <<>>]

(***************************************************************************)
(* A frame handed in after the connection is gone is gone too.             *)
(***************************************************************************)
Accept(l, f) ==
    /\ accepted' = [accepted EXCEPT ![l] = Append(@, f)]
    /\ transit' = IF up THEN [transit EXCEPT ![l] = Append(@, f)] ELSE transit
    /\ UNCHANGED <<up, arrived>>

Arrive(l) ==
    /\ up
    /\ transit[l] # <<>>
    /\ arrived' = [arrived EXCEPT ![l] = Append(@, Head(transit[l]))]
    /\ transit' = [transit EXCEPT ![l] = Tail(@)]
    /\ UNCHANGED <<up, accepted>>

Close ==
    /\ up
    /\ up' = FALSE
    /\ transit' = [l \in Lanes |-> <<>>]
    /\ UNCHANGED <<accepted, arrived>>

Next ==
    \/ \E l \in Lanes : Arrive(l) \/ \E f \in Frames : Accept(l, f)
    \/ Close

Spec == Init /\ [][Next]_laneVars
=============================================================================
