------------------------------ MODULE Pairing ------------------------------
(***************************************************************************)
(* The USB-tether pairing preface: pair_tether_connection                  *)
(* (apps/desktop/src-tauri/src/tether.rs) and the host half of             *)
(* crates/ladoflow-transport/src/pairing.rs against Android's              *)
(* TetherPairingServer, which answers as the display half of pairing.rs    *)
(* does.  Host calls follow each other; the connections they leave behind  *)
(* may still wait in the listener's backlog.                               *)
(*                                                                         *)
(* A record is [kind, nonce, tag].  An HMAC is what it was computed from,  *)
(* and the n-th random nonce of a side is n: equal tags mean equal inputs  *)
(* and nonces are fresh.  A stream is the sequence of what was written and *)
(* not yet read, pairing records first and LDFL frames behind them.        *)
(***************************************************************************)
EXTENDS Integers, SequencesExt

CONSTANTS
    Tokens,         \* raw tokens the display may generate: sequences of bytes
    MaxAttempts,    \* bound: how often the user presses Pair
    MaxFailed       \* USB_TETHER_MAX_FAILED_HANDSHAKES

ASSUME PairingAssumption ==
    /\ \A t \in Tokens : t \in Seq(0 .. 255) /\ Len(t) % 5 = 0
    /\ {MaxAttempts, MaxFailed} \subseteq Nat \ {0}

VARIABLES
    conns,      \* conns[n]: the socket of the n-th pairing call
    attempts,   \* pairing calls so far
    host,       \* the host's side of the current call; right and refused record
                \* whether the code was the one shown and was turned down
    server,     \* TetherPairingServer, on its I/O thread
    token,      \* the display's TetherPairingToken
    valid,      \* TetherPairingToken.valid
    failed,     \* failedHandshakes
    expired,    \* the two minutes are over
    stopped,    \* the user left or disconnected: a newer generation
    timed       \* sides whose socket still has its pairing timeout

pairVars == <<conns, attempts, host, server, token, valid, failed, expired, stopped, timed>>

----------------------------------------------------------------------------
(***************************************************************************)
(* The code the display shows is the token's bits in groups of five.  Both *)
(* conversions shift their input into an accumulator and keep of it, after *)
(* each output, the bits that are left over.                               *)
(***************************************************************************)
\* 1 << b.
TwoTo(b) == <<1, 2, 4, 8, 16, 32, 64, 128>>[b + 1]

\* expose_grouped: the k-th symbol ends in byte i, 8 * i - 5 * k bits before
\* the end of the accumulator.
Expose(bytes) ==
    LET Left(i) == IF i = 0 THEN 0 ELSE bytes[i] % TwoTo((8 * i) % 5)
        Accumulator(i) == Left(i - 1) * 256 + bytes[i]
        Symbol(k, i) == (Accumulator(i) \div TwoTo(8 * i - 5 * k)) % 32
    IN  [k \in 1 .. (8 * Len(bytes)) \div 5 |-> Symbol(k, (5 * k + 7) \div 8)]

\* TetherPairingToken::from_str on symbols decode_crockford has read: the j-th
\* byte ends in symbol i.  What is left over may come from two symbols.
FromStr(symbols) ==
    LET At(i) == IF i < 1 THEN 0 ELSE symbols[i]
        Left(i) == (At(i - 1) * 32 + At(i)) % TwoTo((5 * i) % 8)
        Accumulator(i) == Left(i - 1) * 32 + symbols[i]
        Byte(j, i) == (Accumulator(i) \div TwoTo(5 * i - 8 * j)) % 256
    IN  [j \in 1 .. (5 * Len(symbols)) \div 8 |-> Byte(j, (8 * j + 4) \div 5)]

\* What the user may type: the code, or the code with its last symbol wrong.
Typed ==
    LET code == Expose(token)
    IN  {code, [code EXCEPT ![Len(code)] = (@ + 1) % 32]}

----------------------------------------------------------------------------
(***************************************************************************)
(* Records.                                                                *)
(***************************************************************************)
NoTag == <<>>

\* Mutant: the tag covers the two nonces but not the code.
PairingTagKeyless(key, kind, hn, dn) == <<kind, hn, dn>>

\* pairing_tag.
PairingTag(key, kind, hn, dn) == <<key, kind, hn, dn>>
Record(kind, nonce, tag) == [kind |-> kind, nonce |-> nonce, tag |-> tag]
FinishedRecord(key, kind, hn, dn) == Record(kind, 0, PairingTag(key, kind, hn, dn))

\* validate_finished_record.
ValidFinished(r, key, kind, hn, dn) ==
    /\ r.kind = kind /\ r.nonce = 0
    /\ r.tag = PairingTag(key, kind, hn, dn)

\* The host's checks on DisplayHello.
ValidDisplayHello(r, key, hn) ==
    /\ r.kind = "DisplayHello" /\ r.nonce # 0
    /\ r.tag = PairingTag(key, "DisplayHello", hn, r.nonce)

ValidHostHello(r) == r.kind = "HostHello" /\ r.nonce # 0 /\ r.tag = NoTag

NoConn == [queued |-> FALSE, toDisplay |-> <<>>, toHost |-> <<>>,
           hostOpen |-> FALSE, displayOpen |-> FALSE]

PairInit ==
    /\ conns = [n \in 1 .. MaxAttempts |-> NoConn]
    /\ attempts = 0
    /\ host = [pc |-> "idle", conn |-> 0, key |-> <<>>, dn |-> 0,
               right |-> FALSE, refused |-> FALSE]
    /\ server = [pc |-> "head", conn |-> 0, hn |-> 0]
    /\ token \in Tokens
    /\ valid = TRUE
    /\ failed = 0
    /\ expired = FALSE
    /\ stopped = FALSE
    /\ timed = {}

displayVars == <<server, token, valid, failed, expired, stopped>>

----------------------------------------------------------------------------
(***************************************************************************)
(* The host: pair_tether_connection.  An error drops the stream.           *)
(***************************************************************************)
Listening == server.pc \in {"head", "accept", "hello", "finish"} /\ ~stopped
Backlog == {n \in DOMAIN conns : conns[n].queued}

\* connect_timeout and the first record; a refused connection changes nothing.
Pair(code) ==
    LET n == attempts + 1
    IN  /\ host.pc = "idle" /\ attempts < MaxAttempts
        /\ Listening /\ Backlog = {}
        /\ attempts' = n
        /\ conns' = [conns EXCEPT ![n] =
                [queued |-> TRUE, toDisplay |-> <<Record("HostHello", n, NoTag)>>,
                 toHost |-> <<>>, hostOpen |-> TRUE, displayOpen |-> TRUE]]
        /\ host' = [pc |-> "hello", conn |-> n, key |-> FromStr(code), dn |-> 0,
                    right |-> code = Expose(token), refused |-> FALSE]
        /\ timed' = timed \cup {"Host"}
        /\ UNCHANGED displayVars

HostFails(refused) ==
    /\ host' = [host EXCEPT !.pc = "idle", !.refused = refused]
    /\ conns' = [conns EXCEPT ![host.conn].hostOpen = FALSE]
    /\ timed' = timed \ {"Host"}
    /\ UNCHANGED <<attempts, displayVars>>

\* Mutant: a buffered reader takes what is behind the record along.
UnreadBuffered(s) == <<>>

\* read_exact: one record leaves the stream and nothing behind it.
Unread(s) == Tail(s)

HostReadsHello ==
    LET n == host.conn
        r == Head(conns[n].toHost)
    IN  /\ host.pc = "hello" /\ conns[n].toHost # <<>>
        /\ IF ValidDisplayHello(r, host.key, n)
           THEN /\ host' = [host EXCEPT !.pc = "finished", !.dn = r.nonce]
                /\ conns' = [conns EXCEPT
                       ![n].toHost = Unread(@),
                       ![n].toDisplay = Append(@,
                           FinishedRecord(host.key, "HostFinished", n, r.nonce))]
                /\ UNCHANGED <<attempts, timed, displayVars>>
           ELSE HostFails(TRUE)

\* clear_pairing_timeouts.
ClearTimeouts == timed \ {"Host"}

HostReadsFinished ==
    LET n == host.conn
        r == Head(conns[n].toHost)
    IN  /\ host.pc = "finished" /\ conns[n].toHost # <<>>
        /\ IF ValidFinished(r, host.key, "DisplayFinished", n, host.dn)
           THEN /\ host' = [host EXCEPT !.pc = "paired"]
                /\ conns' = [conns EXCEPT ![n].toHost = Unread(@)]
                /\ timed' = ClearTimeouts
                /\ UNCHANGED <<attempts, displayVars>>
           ELSE HostFails(TRUE)

\* A read fails: the timeout, if the socket has one, or the display has
\* closed its end.  On an authenticated socket the packet worker reads.
HostReadFails ==
    /\ host.pc \in {"hello", "finished", "paired"}
    /\ "Host" \in timed \/ ~conns[host.conn].displayOpen
    /\ HostFails(FALSE)

----------------------------------------------------------------------------
(***************************************************************************)
(* TetherPairingServer.serve, and the display half of the handshake.       *)
(***************************************************************************)
hostVars == <<attempts, host, token, stopped>>

\* finally: the token is void, the listener and its backlog are closed.
ServeReturns(result, cs) ==
    /\ server' = [server EXCEPT !.pc = result]
    /\ valid' = FALSE
    /\ conns' = [n \in DOMAIN cs |->
            IF cs[n].queued THEN [cs[n] EXCEPT !.queued = FALSE, !.displayOpen = FALSE]
                            ELSE cs[n]]

LoopHead ==
    /\ server.pc = "head"
    /\ IF stopped THEN ServeReturns("Closed", conns)
       ELSE IF expired THEN ServeReturns("Expired", conns)
       ELSE server' = [server EXCEPT !.pc = "accept"] /\ UNCHANGED <<valid, conns>>
    /\ UNCHANGED <<hostVars, failed, expired, timed>>

Accept ==
    /\ server.pc = "accept" /\ ~stopped
    /\ \/ /\ Backlog = {}                          \* the poll interval is over
          /\ server' = [server EXCEPT !.pc = "head"]
          /\ UNCHANGED <<conns, timed>>
       \/ \E n \in Backlog :
          /\ server' = [pc |-> "hello", conn |-> n, hn |-> 0]
          /\ conns' = [conns EXCEPT ![n].queued = FALSE]
          /\ timed' = timed \cup {"Display"}
    /\ UNCHANGED <<hostVars, valid, failed, expired>>

AcceptClosed ==
    /\ server.pc = "accept" /\ stopped
    /\ ServeReturns("Closed", conns)
    /\ UNCHANGED <<hostVars, failed, expired, timed>>

LockedOut == failed + 1 >= MaxFailed

\* The socket is closed before the deadline is looked at.
HandshakeFails ==
    LET cs == [conns EXCEPT ![server.conn].displayOpen = FALSE]
    IN  /\ timed' = timed \ {"Display"}
        /\ IF expired THEN ServeReturns("Expired", cs) /\ failed' = failed
           ELSE /\ failed' = failed + 1
                /\ IF LockedOut THEN ServeReturns("LockedOut", cs)
                   ELSE server' = [server EXCEPT !.pc = "head"] /\ conns' = cs /\ valid' = valid
        /\ UNCHANGED <<hostVars, expired>>

\* computeTag needs the token, which stop invalidates.  A write towards a
\* closed peer succeeds or fails.
ServerReadsHello ==
    LET n == server.conn
        r == Head(conns[n].toDisplay)
    IN  /\ server.pc = "hello" /\ conns[n].toDisplay # <<>> /\ conns[n].displayOpen
        /\ IF ValidHostHello(r) /\ valid
           THEN \/ /\ server' = [server EXCEPT !.pc = "finish", !.hn = r.nonce]
                   /\ conns' = [conns EXCEPT
                          ![n].toDisplay = Unread(@),
                          ![n].toHost = Append(@, Record("DisplayHello", n,
                              PairingTag(token, "DisplayHello", r.nonce, n)))]
                   /\ UNCHANGED <<hostVars, valid, failed, expired, timed>>
                \/ ~conns[n].hostOpen /\ HandshakeFails
           ELSE HandshakeFails

ServerReadsFinished ==
    LET n == server.conn
        r == Head(conns[n].toDisplay)
    IN  /\ server.pc = "finish" /\ conns[n].toDisplay # <<>> /\ conns[n].displayOpen
        /\ IF valid /\ ValidFinished(r, token, "HostFinished", server.hn, n)
           THEN \/ /\ ServeReturns("Authenticated", [conns EXCEPT
                          ![n].toDisplay = Unread(@),
                          ![n].toHost = Append(@,
                              FinishedRecord(token, "DisplayFinished", server.hn, n))])
                   /\ timed' = timed \ {"Display"}
                   /\ UNCHANGED <<hostVars, failed, expired>>
                \/ ~conns[n].hostOpen /\ HandshakeFails
           ELSE HandshakeFails

ServerReadFails ==
    /\ server.pc \in {"hello", "finish"}
    /\ \/ "Display" \in timed
       \/ ~conns[server.conn].hostOpen
       \/ ~conns[server.conn].displayOpen
    /\ HandshakeFails

\* The two minutes end.
Expire ==
    /\ ~expired /\ server.pc \in {"head", "accept", "hello", "finish"}
    /\ expired' = TRUE
    /\ UNCHANGED <<conns, hostVars, server, valid, failed, timed>>

----------------------------------------------------------------------------
(***************************************************************************)
(* startPairing's continuation: the result crosses from the I/O thread to  *)
(* the main thread, with a generation check on each side.  A stop between  *)
(* the two cancels the job and the result is dropped with its socket open. *)
(***************************************************************************)
Closing(n) == [conns EXCEPT ![n].displayOpen = FALSE]

OnIoThread ==
    /\ server.pc = "Authenticated"
    /\ IF stopped
       THEN server' = [server EXCEPT !.pc = "Closed"] /\ conns' = Closing(server.conn)
       ELSE server' = [server EXCEPT !.pc = "posted"] /\ conns' = conns
    /\ UNCHANGED <<hostVars, valid, failed, expired, timed>>

PairNext ==
    \/ \E code \in Typed : Pair(code)
    \/ HostReadsHello \/ HostReadsFinished \/ HostReadFails
    \/ LoopHead \/ Accept \/ AcceptClosed
    \/ ServerReadsHello \/ ServerReadsFinished \/ ServerReadFails
    \/ Expire \/ OnIoThread

=============================================================================
