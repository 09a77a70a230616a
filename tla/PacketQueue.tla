---------------------------- MODULE PacketQueue ----------------------------
(***************************************************************************)
(* The bounded in-memory lane that every LadoFlow transport puts between   *)
(* an application thread and its I/O worker: BoundedQueue in               *)
(* crates/ladoflow-transport/src/loopback.rs.                              *)
(*                                                                         *)
(* A queue value is [packets, bytes]; `bytes` is the queued_bytes field,   *)
(* kept apart from the packets because the code keeps it apart.  A packet  *)
(* is a record with at least `size` (payload length) and `key` (its        *)
(* supersession key, or NoKey).  Limits are [max_packets,                  *)
(* max_queued_bytes, max_packet_bytes].                                    *)
(***************************************************************************)
EXTENDS Integers, Sequences, SequencesExt

CONSTANT NoKey      \* Option::None as a supersession key

(***************************************************************************)
(* QueueLimits::new refuses zero limits and a packet limit above the byte  *)
(* capacity.                                                               *)
(***************************************************************************)
ValidLimits(l) ==
    /\ l.max_packets > 0
    /\ l.max_packet_bytes > 0
    /\ l.max_packet_bytes <= l.max_queued_bytes

EmptyQueue == [packets |-> <<>>, bytes |-> 0]

TotalBytes(packets) ==
    LET sum[n \in 0 .. Len(packets)] ==
          IF n = 0 THEN 0 ELSE sum[n - 1] + packets[n].size
    IN  sum[Len(packets)]

\* VecDeque::retain: the members of s that are in K, in their order.  (What
\* SelectSeq(s, LAMBDA x : x \in K) is; the proofs cannot look into that.)
Retain(s, K) ==
    LET kept[n \in 0 .. Len(s)] ==
          IF n = 0 THEN <<>>
          ELSE IF s[n] \in K THEN Append(kept[n - 1], s[n]) ELSE kept[n - 1]
    IN  kept[Len(s)]

Obsoletes(p, queued) == p.key # NoKey /\ queued.key = p.key

Obsolete(q, p) == {x \in ToSet(q.packets) : Obsoletes(p, x)}

SupersededBy(q, p) == Retain(q.packets, Obsolete(q, p))

TooLarge(l, p) == p.size > l.max_packet_bytes

(***************************************************************************)
(* The capacity test: what the packet replaces is credited before the      *)
(* packet is charged, so a replacement fits a full queue.                  *)
(***************************************************************************)
Fits(q, l, p) ==
    LET old == SupersededBy(q, p)
    IN  /\ Len(q.packets) - Len(old) < l.max_packets
        /\ p.size <= l.max_queued_bytes - (q.bytes - TotalBytes(old))

\* Mutant: every keyed packet is dropped, not only those of the same key.
PushedDropsAnyKey(q, p) ==
    [packets |-> Append(SelectSeq(q.packets,
                            LAMBDA x : ~(p.key # NoKey /\ x.key # NoKey)), p),
     bytes   |-> q.bytes - TotalBytes(SupersededBy(q, p)) + p.size]

\* Mutant: a packet jumps the queue.
PushedInFront(q, p) ==
    [packets |-> <<p>> \o Retain(q.packets, ToSet(q.packets) \ Obsolete(q, p)),
     bytes   |-> q.bytes - TotalBytes(SupersededBy(q, p)) + p.size]

(***************************************************************************)
(* try_push once the packet fits: older packets of the key leave the queue *)
(* wherever they stand in it, the packet goes to the back.                 *)
(***************************************************************************)
Pushed(q, p) ==
    [packets |-> Append(Retain(q.packets, ToSet(q.packets) \ Obsolete(q, p)), p),
     bytes   |-> q.bytes - TotalBytes(SupersededBy(q, p)) + p.size]

Popped(q) ==
    [packets |-> Tail(q.packets), bytes |-> q.bytes - Head(q.packets).size]

=============================================================================
