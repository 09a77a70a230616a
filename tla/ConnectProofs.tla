---------------------------- MODULE ConnectProofs ----------------------------
(***************************************************************************)
(* Proofs about Connect: pairing succeeds exactly for the code shown, the  *)
(* stream is handed over where LDFL begins, the configuration fits both    *)
(* ends, and the host never speaks out of turn.                            *)
(***************************************************************************)
EXTENDS Connect, FiniteSetTheorems, TLAPS

-----------------------------------------------------------------------------
(***************************************************************************)
(* Streams.  What travels on a socket is of many kinds, so a stream is     *)
(* only required to be a sequence, of whatever it holds.                   *)
(***************************************************************************)
Stream(s) == s \in Seq({s[i] : i \in DOMAIN s})

\* A sequence over any set is a stream.
LEMMA StreamOf ==
  ASSUME NEW S, NEW s \in Seq(S)
  PROVE  Stream(s)
  <1>1. Len(s) \in Nat /\ DOMAIN s = 1 .. Len(s) /\ s \in [1 .. Len(s) -> S]
    OBVIOUS
  <1> DEFINE T == {s[i] : i \in DOMAIN s}
  <1>2. s \in [1 .. Len(s) -> T]
    BY <1>1
  <1> HIDE DEF T
  <1>3. s \in Seq(T)
    BY ONLY <1>1, <1>2
  <1> QED BY <1>3 DEF Stream, T

\* Nothing, on a socket, is a stream.
LEMMA EmptyStream == Stream(<<>>)
  <1>1. <<>> \in Seq({})
    OBVIOUS
  <1> QED BY <1>1, StreamOf

\* Two streams are sequences over one set.
LEMMA CommonSet ==
  ASSUME NEW s, NEW t, NEW e, Stream(s), Stream(t)
  PROVE  \E S : s \in Seq(S) /\ t \in Seq(S) /\ e \in S
  <1> DEFINE A == {s[i] : i \in DOMAIN s}
             B == {t[i] : i \in DOMAIN t}
             S == A \cup B \cup {e}
  <1>1. s \in Seq(A) /\ t \in Seq(B)
    BY DEF Stream
  <1>2. A \subseteq S /\ B \subseteq S /\ e \in S
    OBVIOUS
  <1> HIDE DEF A, B, S
  <1>3. s \in Seq(S) /\ t \in Seq(S)
    BY <1>1, <1>2
  <1> QED BY <1>2, <1>3

\* The streams a write leaves.
LEMMA StreamWrites ==
  ASSUME NEW s, NEW t, NEW e, Stream(s), Stream(t)
  PROVE  /\ Stream(<<>>) /\ Stream(<<e>>) /\ Stream(Append(s, e)) /\ Stream(s \o t)
         /\ Len(s) \in Nat /\ DOMAIN s = 1 .. Len(s) /\ (s = <<>> <=> Len(s) = 0)
         /\ Len(Append(s, e)) = Len(s) + 1 /\ Len(s \o t) = Len(s) + Len(t)
         /\ Append(s, e)[Len(s) + 1] = e
         /\ \A i \in 1 .. Len(s) : Append(s, e)[i] = s[i]
         /\ Append(s, e) # <<>> /\ Append(<<>>, e) = <<e>>
         /\ <<>> \o t = t /\ s \o <<>> = s
         /\ Append(s \o t, e) = s \o Append(t, e)
         /\ s # <<>> => Head(Append(s, e)) = Head(s) /\ Tail(Append(s, e)) = Append(Tail(s), e)
         /\ s # <<>> => Head(s \o t) = Head(s) /\ Tail(s \o t) = Tail(s) \o t
  <1>1. PICK S : s \in Seq(S) /\ t \in Seq(S) /\ e \in S
    BY CommonSet
  <1>2. /\ <<>> \in Seq(S) /\ <<e>> \in Seq(S) /\ Append(s, e) \in Seq(S) /\ s \o t \in Seq(S)
        /\ Append(t, e) \in Seq(S) /\ Append(s \o t, e) \in Seq(S) /\ s \o Append(t, e) \in Seq(S)
    BY <1>1
  <1>3. Stream(<<>>) /\ Stream(<<e>>) /\ Stream(Append(s, e)) /\ Stream(s \o t)
    BY <1>2, StreamOf
  <1>4. /\ Len(s) \in Nat /\ DOMAIN s = 1 .. Len(s) /\ (s = <<>> <=> Len(s) = 0)
        /\ Len(Append(s, e)) = Len(s) + 1 /\ Len(s \o t) = Len(s) + Len(t)
        /\ Append(s, e)[Len(s) + 1] = e
        /\ \A i \in 1 .. Len(s) : Append(s, e)[i] = s[i]
        /\ Append(s, e) # <<>> /\ Append(<<>>, e) = <<e>>
    BY <1>1
  <1>5. <<>> \o t = t /\ s \o <<>> = s
    BY <1>1
  <1>6. Append(s \o t, e) = s \o Append(t, e)
    BY <1>1, <1>2
  <1>7. ASSUME s # <<>>
        PROVE  Head(Append(s, e)) = Head(s) /\ Tail(Append(s, e)) = Append(Tail(s), e)
    BY <1>1, <1>2, <1>7
  <1>8. ASSUME s # <<>>
        PROVE  Head(s \o t) = Head(s) /\ Tail(s \o t) = Tail(s) \o t
    BY <1>1, <1>2, <1>8
  <1> QED BY <1>3, <1>4, <1>5, <1>6, <1>7, <1>8

\* The length of a stream.
LEMMA StreamLen ==
  ASSUME NEW s, Stream(s)
  PROVE  Len(s) \in Nat /\ DOMAIN s = 1 .. Len(s) /\ (s = <<>> <=> Len(s) = 0)
  <1>1. PICK S : s \in Seq(S)
    BY DEF Stream
  <1> QED BY <1>1

\* Reading the last element leaves nothing.
LEMMA StreamShrinks ==
  ASSUME NEW s, Stream(s), s # <<>>
  PROVE  Len(s) > 1 <=> Tail(s) # <<>>
  <1>1. PICK S : s \in Seq(S)
    BY DEF Stream
  <1>2. Tail(s) \in Seq(S) /\ Len(Tail(s)) = Len(s) - 1 /\ Len(s) \in Nat
    BY <1>1
  <1>3. ASSUME NEW t \in Seq(S) PROVE t = <<>> <=> Len(t) = 0
    OBVIOUS
  <1>4. Tail(s) = <<>> <=> Len(Tail(s)) = 0
    BY <1>2, <1>3
  <1>5. PICK m \in Nat : m = Len(s)
    BY <1>2
  <1>6. s = <<>> <=> Len(s) = 0
    BY <1>1, <1>3
  <1>7. Len(Tail(s)) = m - 1 /\ m # 0
    BY <1>2, <1>5, <1>6
  <1>8. m > 1 <=> m - 1 # 0
    BY <1>5, <1>7
  <1> QED BY <1>4, <1>5, <1>7, <1>8

\* One more element.
LEMMA StreamGrows ==
  ASSUME NEW s, Stream(s), NEW e
  PROVE  Stream(Append(s, e)) /\ Len(Append(s, e)) = Len(s) + 1
  <1>1. PICK S : s \in Seq(S) /\ e \in S
    BY CommonSet
  <1>2. Append(s, e) \in Seq(S) /\ Len(Append(s, e)) = Len(s) + 1
    BY <1>1
  <1> QED BY <1>2, StreamOf

\* The stream a read leaves.
LEMMA StreamReads ==
  ASSUME NEW s, NEW t, Stream(s), Stream(t), t # <<>>
  PROVE  /\ Stream(Tail(t)) /\ Head(t) = t[1] /\ Len(Tail(t)) = Len(t) - 1
         /\ s \o t = Append(s, Head(t)) \o Tail(t)
         /\ t = <<Head(t)>> \o Tail(t)
  <1>1. PICK S : s \in Seq(S) /\ t \in Seq(S) /\ 0 \in S
    BY CommonSet
  <1>2. Tail(t) \in Seq(S) /\ Head(t) \in S /\ Head(t) = t[1] /\ Len(Tail(t)) = Len(t) - 1
    BY <1>1
  <1>3. Stream(Tail(t))
    BY <1>2, StreamOf
  <1>4. t = <<Head(t)>> \o Tail(t)
    BY <1>1, <1>2
  <1>5. s \o t = Append(s, Head(t)) \o Tail(t)
    BY <1>1, <1>2
  <1> QED BY <1>2, <1>3, <1>4, <1>5

-----------------------------------------------------------------------------
(***************************************************************************)
(* Sockets.  Every step that touches one of them leaves another socket in  *)
(* its place and the others as they were.                                  *)
(***************************************************************************)
Socket(q, td, th, ho, do) ==
    [queued |-> q, toDisplay |-> td, toHost |-> th, hostOpen |-> ho, displayOpen |-> do]

\* A Boolean, as a predicate.
Flag(b) == b \in BOOLEAN

SocketShape(c) ==
    /\ c \in [queued : BOOLEAN, toDisplay : {c.toDisplay}, toHost : {c.toHost},
              hostOpen : BOOLEAN, displayOpen : BOOLEAN]
    /\ Stream(c.toDisplay) /\ Stream(c.toHost)

ConnsShape(cs) ==
    /\ cs = [k \in 1 .. MaxAttempts |-> cs[k]]
    /\ \A k \in 1 .. MaxAttempts : SocketShape(cs[k])

\* A socket is the record of its five fields.
LEMMA SocketFields ==
  ASSUME NEW q, NEW td, NEW th, NEW ho, NEW do, Flag(q), Flag(ho), Flag(do),
         Stream(td), Stream(th)
  PROVE  SocketShape(Socket(q, td, th, ho, do))
  BY DEF SocketShape, Socket, Flag

\* One socket is replaced.
LEMMA SocketReplaced ==
  ASSUME NEW cs, ConnsShape(cs), NEW n \in 1 .. MaxAttempts, NEW c, SocketShape(c)
  PROVE  /\ ConnsShape([cs EXCEPT ![n] = c])
         /\ [cs EXCEPT ![n] = c][n] = c
         /\ \A k \in 1 .. MaxAttempts : k # n => [cs EXCEPT ![n] = c][k] = cs[k]
  <1> DEFINE ds == [cs EXCEPT ![n] = c]
  <1>1. ds = [k \in 1 .. MaxAttempts |-> IF k = n THEN c ELSE cs[k]]
    BY DEF ConnsShape
  <1>2. ds[n] = c /\ \A k \in 1 .. MaxAttempts : k # n => ds[k] = cs[k]
    BY <1>1
  <1>3. ds = [k \in 1 .. MaxAttempts |-> ds[k]]
    BY <1>1
  <1>4. \A k \in 1 .. MaxAttempts : SocketShape(ds[k])
    <2> HIDE DEF ds
    <2> QED BY <1>2 DEF ConnsShape
  <1> HIDE DEF ds
  <1>5. ConnsShape(ds)
    BY <1>3, <1>4 DEF ConnsShape
  <1> QED BY <1>2, <1>5 DEF ds

\* The sockets with c in the place of the n-th, and with some field of the
\* n-th replaced.
Put(cs, n, c) == [cs EXCEPT ![n] = c]
SetToHost(cs, n, s) == [cs EXCEPT ![n].toHost = s]
SetToDisplay(cs, n, s) == [cs EXCEPT ![n].toDisplay = s]
SetBoth(cs, n, td, th) == [cs EXCEPT ![n].toHost = th, ![n].toDisplay = td]
SetBothToo(cs, n, td, th) == [cs EXCEPT ![n].toDisplay = td, ![n].toHost = th]
SetHostOpen(cs, n, b) == [cs EXCEPT ![n].hostOpen = b]
SetDisplayOpen(cs, n, b) == [cs EXCEPT ![n].displayOpen = b]
SetQueued(cs, n, b) == [cs EXCEPT ![n].queued = b]

\* Writing to a field or two of a socket replaces it.
LEMMA SocketWritten ==
  ASSUME NEW cs, ConnsShape(cs), NEW n \in 1 .. MaxAttempts, NEW s, NEW td, NEW th, NEW b
  PROVE  LET c == cs[n]
         IN  /\ SetToHost(cs, n, s)
                  = Put(cs, n, Socket(c.queued, c.toDisplay, s, c.hostOpen, c.displayOpen))
             /\ SetToDisplay(cs, n, s)
                  = Put(cs, n, Socket(c.queued, s, c.toHost, c.hostOpen, c.displayOpen))
             /\ SetBoth(cs, n, td, th)
                  = Put(cs, n, Socket(c.queued, td, th, c.hostOpen, c.displayOpen))
             /\ SetBothToo(cs, n, td, th)
                  = Put(cs, n, Socket(c.queued, td, th, c.hostOpen, c.displayOpen))
             /\ SetHostOpen(cs, n, b)
                  = Put(cs, n, Socket(c.queued, c.toDisplay, c.toHost, b, c.displayOpen))
             /\ SetDisplayOpen(cs, n, b)
                  = Put(cs, n, Socket(c.queued, c.toDisplay, c.toHost, c.hostOpen, b))
             /\ SetQueued(cs, n, b)
                  = Put(cs, n, Socket(b, c.toDisplay, c.toHost, c.hostOpen, c.displayOpen))
  <1> DEFINE c == cs[n]
  <1>1. c \in [queued : BOOLEAN, toDisplay : {c.toDisplay}, toHost : {c.toHost},
               hostOpen : BOOLEAN, displayOpen : BOOLEAN]
    BY DEF ConnsShape, SocketShape
  <1> HIDE DEF c
  <1>2. /\ [c EXCEPT !.toHost = s] = Socket(c.queued, c.toDisplay, s, c.hostOpen, c.displayOpen)
        /\ [c EXCEPT !.toDisplay = s] = Socket(c.queued, s, c.toHost, c.hostOpen, c.displayOpen)
        /\ [c EXCEPT !.hostOpen = b] = Socket(c.queued, c.toDisplay, c.toHost, b, c.displayOpen)
        /\ [c EXCEPT !.displayOpen = b] = Socket(c.queued, c.toDisplay, c.toHost, c.hostOpen, b)
        /\ [c EXCEPT !.queued = b] = Socket(b, c.toDisplay, c.toHost, c.hostOpen, c.displayOpen)
    BY <1>1 DEF Socket
  <1>3. /\ [c EXCEPT !.toHost = th, !.toDisplay = td]
             = Socket(c.queued, td, th, c.hostOpen, c.displayOpen)
        /\ [c EXCEPT !.toDisplay = td, !.toHost = th]
             = Socket(c.queued, td, th, c.hostOpen, c.displayOpen)
    <2>1. [c EXCEPT !.toHost = th, !.toDisplay = td]
            = [[c EXCEPT !.toHost = th] EXCEPT !.toDisplay = td]
      OBVIOUS
    <2>2. [c EXCEPT !.toDisplay = td, !.toHost = th]
            = [[c EXCEPT !.toDisplay = td] EXCEPT !.toHost = th]
      OBVIOUS
    <2>3. [Socket(c.queued, c.toDisplay, th, c.hostOpen, c.displayOpen) EXCEPT !.toDisplay = td]
            = Socket(c.queued, td, th, c.hostOpen, c.displayOpen)
      BY DEF Socket
    <2>4. [Socket(c.queued, td, c.toHost, c.hostOpen, c.displayOpen) EXCEPT !.toHost = th]
            = Socket(c.queued, td, th, c.hostOpen, c.displayOpen)
      BY DEF Socket
    <2>5. /\ [c EXCEPT !.toHost = th]
               = Socket(c.queued, c.toDisplay, th, c.hostOpen, c.displayOpen)
          /\ [c EXCEPT !.toDisplay = td]
               = Socket(c.queued, td, c.toHost, c.hostOpen, c.displayOpen)
      BY <1>1 DEF Socket
    <2> QED BY <2>1, <2>2, <2>3, <2>4, <2>5
  <1>4. /\ SetToHost(cs, n, s) = Put(cs, n, [c EXCEPT !.toHost = s])
        /\ SetToDisplay(cs, n, s) = Put(cs, n, [c EXCEPT !.toDisplay = s])
        /\ SetHostOpen(cs, n, b) = Put(cs, n, [c EXCEPT !.hostOpen = b])
        /\ SetDisplayOpen(cs, n, b) = Put(cs, n, [c EXCEPT !.displayOpen = b])
        /\ SetQueued(cs, n, b) = Put(cs, n, [c EXCEPT !.queued = b])
    BY DEF c, Put, SetToHost, SetToDisplay, SetHostOpen, SetDisplayOpen, SetQueued
  <1>5. n \in DOMAIN cs
    BY DEF ConnsShape
  <1>6. /\ SetBoth(cs, n, td, th) = Put(cs, n, [c EXCEPT !.toHost = th, !.toDisplay = td])
        /\ SetBothToo(cs, n, td, th) = Put(cs, n, [c EXCEPT !.toDisplay = td, !.toHost = th])
    BY <1>5 DEF c, Put, SetBoth, SetBothToo
  <1> QED BY <1>2, <1>3, <1>4, <1>6 DEF c

\* Socket n is now made of these fields, and nothing else has changed.
Touched(cs, ds, n, q, td, th, ho, do) ==
    /\ ConnsShape(ds)
    /\ ds[n].queued = q /\ ds[n].toDisplay = td /\ ds[n].toHost = th
    /\ ds[n].hostOpen = ho /\ ds[n].displayOpen = do
    /\ \A k \in 1 .. MaxAttempts : k # n => ds[k] = cs[k]

\* A socket put in the place of another.
LEMMA PutTouches ==
  ASSUME NEW cs, ConnsShape(cs), NEW n \in 1 .. MaxAttempts,
         NEW q, NEW td, NEW th, NEW ho, NEW do, Flag(q), Flag(ho), Flag(do),
         Stream(td), Stream(th)
  PROVE  Touched(cs, Put(cs, n, Socket(q, td, th, ho, do)), n, q, td, th, ho, do)
  <1> DEFINE s == Socket(q, td, th, ho, do)
             ds == Put(cs, n, s)
  <1>1. SocketShape(s)
    BY SocketFields
  <1>2. s.queued = q /\ s.toDisplay = td /\ s.toHost = th /\ s.hostOpen = ho /\ s.displayOpen = do
    BY DEF Socket
  <1> HIDE DEF s
  <1>3. ConnsShape(ds) /\ ds[n] = s /\ \A k \in 1 .. MaxAttempts : k # n => ds[k] = cs[k]
    BY <1>1, SocketReplaced DEF Put
  <1> HIDE DEF ds
  <1>4. Touched(cs, ds, n, q, td, th, ho, do)
    BY <1>2, <1>3 DEF Touched
  <1> QED BY <1>4 DEF ds, s

\* The seven ways in which a step writes to a socket.
LEMMA Touches ==
  ASSUME NEW cs, ConnsShape(cs), NEW n \in 1 .. MaxAttempts,
         NEW s, NEW td, NEW th, Stream(s), Stream(td), Stream(th), NEW b, Flag(b)
  PROVE  LET c == cs[n]
         IN  /\ Touched(cs, SetToHost(cs, n, s), n,
                        c.queued, c.toDisplay, s, c.hostOpen, c.displayOpen)
             /\ Touched(cs, SetToDisplay(cs, n, s), n,
                        c.queued, s, c.toHost, c.hostOpen, c.displayOpen)
             /\ Touched(cs, SetBoth(cs, n, td, th), n,
                        c.queued, td, th, c.hostOpen, c.displayOpen)
             /\ Touched(cs, SetBothToo(cs, n, td, th), n,
                        c.queued, td, th, c.hostOpen, c.displayOpen)
             /\ Touched(cs, SetHostOpen(cs, n, b), n,
                        c.queued, c.toDisplay, c.toHost, b, c.displayOpen)
             /\ Touched(cs, SetDisplayOpen(cs, n, b), n,
                        c.queued, c.toDisplay, c.toHost, c.hostOpen, b)
             /\ Touched(cs, SetQueued(cs, n, b), n,
                        b, c.toDisplay, c.toHost, c.hostOpen, c.displayOpen)
  <1> DEFINE c == cs[n]
  <1>1. /\ Flag(c.queued) /\ Flag(c.hostOpen) /\ Flag(c.displayOpen)
        /\ Stream(c.toDisplay) /\ Stream(c.toHost)
    BY DEF ConnsShape, SocketShape, Flag
  <1>2. /\ SetToHost(cs, n, s)
             = Put(cs, n, Socket(c.queued, c.toDisplay, s, c.hostOpen, c.displayOpen))
        /\ SetToDisplay(cs, n, s)
             = Put(cs, n, Socket(c.queued, s, c.toHost, c.hostOpen, c.displayOpen))
        /\ SetBoth(cs, n, td, th)
             = Put(cs, n, Socket(c.queued, td, th, c.hostOpen, c.displayOpen))
        /\ SetBothToo(cs, n, td, th)
             = Put(cs, n, Socket(c.queued, td, th, c.hostOpen, c.displayOpen))
        /\ SetHostOpen(cs, n, b)
             = Put(cs, n, Socket(c.queued, c.toDisplay, c.toHost, b, c.displayOpen))
        /\ SetDisplayOpen(cs, n, b)
             = Put(cs, n, Socket(c.queued, c.toDisplay, c.toHost, c.hostOpen, b))
        /\ SetQueued(cs, n, b)
             = Put(cs, n, Socket(b, c.toDisplay, c.toHost, c.hostOpen, c.displayOpen))
    BY SocketWritten
  <1> HIDE DEF c
  <1>3. /\ Touched(cs, SetToHost(cs, n, s), n,
                   c.queued, c.toDisplay, s, c.hostOpen, c.displayOpen)
        /\ Touched(cs, SetToDisplay(cs, n, s), n,
                   c.queued, s, c.toHost, c.hostOpen, c.displayOpen)
    BY <1>1, <1>2, PutTouches
  <1>4. /\ Touched(cs, SetBoth(cs, n, td, th), n,
                   c.queued, td, th, c.hostOpen, c.displayOpen)
        /\ Touched(cs, SetBothToo(cs, n, td, th), n,
                   c.queued, td, th, c.hostOpen, c.displayOpen)
    BY <1>1, <1>2, PutTouches
  <1>5. /\ Touched(cs, SetHostOpen(cs, n, b), n,
                   c.queued, c.toDisplay, c.toHost, b, c.displayOpen)
        /\ Touched(cs, SetDisplayOpen(cs, n, b), n,
                   c.queued, c.toDisplay, c.toHost, c.hostOpen, b)
        /\ Touched(cs, SetQueued(cs, n, b), n,
                   b, c.toDisplay, c.toHost, c.hostOpen, c.displayOpen)
    BY <1>1, <1>2, PutTouches
  <1> QED BY <1>3, <1>4, <1>5 DEF c

\* Both streams of a socket at once.
LEMMA BothTouched ==
  ASSUME NEW cs, ConnsShape(cs), NEW n \in 1 .. MaxAttempts,
         NEW td, NEW th, Stream(td), Stream(th)
  PROVE  /\ Touched(cs, SetBoth(cs, n, td, th), n,
                    cs[n].queued, td, th, cs[n].hostOpen, cs[n].displayOpen)
         /\ Touched(cs, SetBothToo(cs, n, td, th), n,
                    cs[n].queued, td, th, cs[n].hostOpen, cs[n].displayOpen)
  <1>1. Flag(cs[n].queued)
    BY DEF ConnsShape, SocketShape, Flag
  <1> QED BY <1>1, Touches

\* Both streams of every socket are as they were, and none joined the backlog.
Kept(cs, ds) ==
    /\ ConnsShape(ds)
    /\ \A k \in 1 .. MaxAttempts :
         /\ ds[k].toDisplay = cs[k].toDisplay /\ ds[k].toHost = cs[k].toHost
         /\ ds[k].hostOpen = cs[k].hostOpen
         /\ ds[k].queued => cs[k].queued

\* A socket that is taken off the backlog and closed.
Shut(c) == [c EXCEPT !.queued = FALSE, !.displayOpen = FALSE]

\* Its streams stay.
LEMMA SocketClosed ==
  ASSUME NEW c, SocketShape(c)
  PROVE  /\ SocketShape(Shut(c)) /\ ~Shut(c).queued
         /\ Shut(c).toDisplay = c.toDisplay /\ Shut(c).toHost = c.toHost
         /\ Shut(c).hostOpen = c.hostOpen
  <1>1. ASSUME NEW b
        PROVE  /\ [c EXCEPT !.queued = b, !.displayOpen = b]
                    = Socket(b, c.toDisplay, c.toHost, c.hostOpen, b)
               /\ Socket(b, c.toDisplay, c.toHost, c.hostOpen, b).queued = b
               /\ Socket(b, c.toDisplay, c.toHost, c.hostOpen, b).toDisplay = c.toDisplay
               /\ Socket(b, c.toDisplay, c.toHost, c.hostOpen, b).toHost = c.toHost
               /\ Socket(b, c.toDisplay, c.toHost, c.hostOpen, b).hostOpen = c.hostOpen
    <2>1. [c EXCEPT !.queued = b] = Socket(b, c.toDisplay, c.toHost, c.hostOpen, c.displayOpen)
      BY DEF Socket, SocketShape
    <2>2. [Socket(b, c.toDisplay, c.toHost, c.hostOpen, c.displayOpen) EXCEPT !.displayOpen = b]
            = Socket(b, c.toDisplay, c.toHost, c.hostOpen, b)
      BY DEF Socket
    <2>3. [c EXCEPT !.queued = b, !.displayOpen = b]
            = [[c EXCEPT !.queued = b] EXCEPT !.displayOpen = b]
      OBVIOUS
    <2>4. /\ Socket(b, c.toDisplay, c.toHost, c.hostOpen, b).queued = b
          /\ Socket(b, c.toDisplay, c.toHost, c.hostOpen, b).toDisplay = c.toDisplay
          /\ Socket(b, c.toDisplay, c.toHost, c.hostOpen, b).toHost = c.toHost
          /\ Socket(b, c.toDisplay, c.toHost, c.hostOpen, b).hostOpen = c.hostOpen
      BY DEF Socket
    <2> QED BY <2>1, <2>2, <2>3, <2>4
  <1>2. PICK no : no = FALSE
    OBVIOUS
  <1>3. Shut(c) = [c EXCEPT !.queued = no, !.displayOpen = no]
    BY <1>2 DEF Shut
  <1>4. Stream(c.toDisplay) /\ Stream(c.toHost) /\ Flag(c.hostOpen) /\ Flag(no)
    BY <1>2 DEF SocketShape, Flag
  <1>5. Shut(c) = Socket(no, c.toDisplay, c.toHost, c.hostOpen, no)
    BY <1>1, <1>3
  <1>6. SocketShape(Shut(c))
    BY <1>4, <1>5, SocketFields
  <1> QED BY <1>1, <1>2, <1>5, <1>6

\* Closing the listener's and some more sockets keeps the streams.
LEMMA SocketsClosed ==
  ASSUME NEW cs, ConnsShape(cs), NEW ds, NEW C,
         ds = [k \in DOMAIN cs |->
                IF k \in C THEN Shut(cs[k]) ELSE cs[k]]
  PROVE  /\ Kept(cs, ds)
         /\ \A k \in 1 .. MaxAttempts : k \in C => ~ds[k].queued
  <1>1. DOMAIN cs = 1 .. MaxAttempts
    BY DEF ConnsShape
  <1>2. ASSUME NEW k \in 1 .. MaxAttempts
        PROVE  /\ SocketShape(ds[k]) /\ (k \in C => ~ds[k].queued)
               /\ ds[k].toDisplay = cs[k].toDisplay /\ ds[k].toHost = cs[k].toHost
               /\ ds[k].hostOpen = cs[k].hostOpen
               /\ ds[k].queued => cs[k].queued
    <2> DEFINE c == cs[k]
    <2>1. SocketShape(c)
      BY DEF ConnsShape
    <2>2. ds[k] = IF k \in C THEN Shut(c) ELSE c
      BY <1>1
    <2> HIDE DEF c
    <2> QED BY <2>1, <2>2, SocketClosed DEF c
  <1>3. ds = [k \in 1 .. MaxAttempts |-> ds[k]]
    BY <1>1
  <1> QED BY <1>2, <1>3 DEF Kept, ConnsShape

-----------------------------------------------------------------------------
(***************************************************************************)
(* Shape: the type invariant.  A record has its fields, and those that     *)
(* hold whatever a peer sent are left open here.                           *)
(***************************************************************************)
HostPcs == {"idle", "hello", "finished", "paired", "session", "over"}
ServerPcs == {"head", "accept", "hello", "finish", "Closed", "Expired", "LockedOut",
              "Authenticated", "posted", "begun", "active", "Failed"}
Talking == {"send", "wait", "config", "prepare", "active"}
NegPcs == Talking \cup {"idle", "failed"}

HostShape(h) ==
    h \in [pc : HostPcs, conn : Nat, key : {h.key}, dn : {h.dn}, right : BOOLEAN, refused : BOOLEAN]

ServerShape(s) == s \in [pc : ServerPcs, conn : Nat, hn : {s.hn}]

NegShape(x) ==
    /\ x \in [pc : NegPcs, todo : {x.todo}, hello : {x.hello}, caps : {x.caps},
              highest : {x.highest}, config : {x.config}, next : {x.next},
              produced : {x.produced}, video : {x.video}, presented : {x.presented}]
    /\ Stream(x.todo)
    /\ x.pc \in {"send", "config"} => x.todo # <<>>

DispShape(d) ==
    d \in [on : {d.on}, hello : {d.hello}, caps : {d.caps}, negotiated : {d.negotiated},
           failed : {d.failed}, config : {d.config}, highest : {d.highest}, refused : {d.refused},
           pics : {d.pics}]

Shape ==
    /\ ConnsShape(conns)
    /\ attempts \in 0 .. MaxAttempts
    /\ HostShape(host) /\ host.conn = attempts /\ (host.pc # "idle" => attempts # 0)
    /\ ServerShape(server) /\ server.conn <= attempts
    /\ server.pc \in {"hello", "finish", "Authenticated", "posted", "begun", "active", "Failed"}
          => server.conn # 0
    /\ token \in Tokens /\ failed \in Nat
    /\ {valid, expired, stopped} \subseteq BOOLEAN
    /\ timed \subseteq {"Host", "Display"}
    /\ request \in Requests /\ display \in Displays
    /\ NegShape(neg) /\ DispShape(disp)
    /\ Stream(hostSent) /\ Stream(hostGot) /\ Stream(dispSent) /\ Stream(dispGot)
    /\ host.pc = "session" <=> neg.pc \in Talking
    /\ host.pc \in {"idle", "hello", "finished", "paired"} => neg.pc = "idle"

-----------------------------------------------------------------------------
(***************************************************************************)
(* Pairing: what lies on the sockets while host and display shake hands.   *)
(***************************************************************************)
HH(k) == Record("HostHello", k, NoTag)
DH(k) == Record("DisplayHello", k, PairingTag(token, "DisplayHello", k, k))
HF(k) == FinishedRecord(token, "HostFinished", k, k)
DF(k) == FinishedRecord(token, "DisplayFinished", k, k)

\* The display has accepted a code on this socket, or has given up with it.
DoneOn(n) == server.conn = n /\ server.hn = n /\ server.pc \notin Serving

\* A call the display has not looked at.
Untouched(k) ==
    /\ conns[k].toDisplay = <<HH(k)>> /\ conns[k].toHost = <<>>
    /\ host.conn = k => host.pc \in {"idle", "hello"}

OnBacklog ==
    \A k \in 1 .. MaxAttempts : conns[k].queued =>
        k = attempts /\ server.conn < k /\ server.pc \in Serving
OnNewCalls ==
    \A k \in 1 .. MaxAttempts : server.conn < k /\ k <= attempts => Untouched(k)
OnServerHello == server.pc = "hello" => Untouched(server.conn)
OnServerFinish ==
    server.pc = "finish" =>
        LET k == server.conn
        IN  /\ server.hn = k
            /\ host.conn = k =>
                  \/ host.pc = "idle"
                  \/ host.pc = "hello" /\ conns[k].toHost = <<DH(k)>> /\ conns[k].toDisplay = <<>>
                  \/ host.pc = "finished" /\ conns[k].toHost = <<>> /\ conns[k].toDisplay = <<HF(k)>>
            /\ conns[k].toDisplay \in {<<>>, <<HF(k)>>}
OnServed ==
    server.pc \in {"Authenticated", "posted", "begun", "active"} =>
        /\ server.hn = server.conn
        /\ host.conn = server.conn =>
              host.pc # "hello" /\ (host.pc = "finished" => conns[host.conn].toHost # <<>>)
OnHostHello == host.pc = "hello" => conns[host.conn].toHost \in {<<>>, <<DH(host.conn)>>}
OnHostFinished ==
    host.pc = "finished" =>
        /\ host.key = token /\ host.dn = host.conn
        /\ conns[host.conn].toHost # <<>> =>
              Head(conns[host.conn].toHost) = DF(host.conn) /\ DoneOn(host.conn)
OnPaired ==
    /\ host.pc \in {"paired", "session", "over"} => host.key = token /\ DoneOn(host.conn)
    /\ host.pc \in {"paired", "session"} => "Host" \notin timed
    /\ host.refused => host.key # token

Handshakes ==
    /\ OnBacklog /\ OnNewCalls /\ OnServerHello /\ OnServerFinish /\ OnServed
    /\ OnHostHello /\ OnHostFinished /\ OnPaired

\* The host holds the display's token if and only if the code was the one shown.
CodeKnown == IF attempts = 0 THEN ~host.right ELSE (host.right <=> host.key = token)

-----------------------------------------------------------------------------
(***************************************************************************)
(* Streams: what each side has read and what is under way is what the      *)
(* other side wrote.                                                       *)
(***************************************************************************)
Fresh(d) ==
    /\ d.hello = None /\ d.caps = None /\ d.negotiated = FALSE /\ d.failed = FALSE
    /\ d.config = None /\ d.highest = -1 /\ d.refused = "none" /\ d.pics = NoPictures

Streams ==
    /\ neg.pc = "idle" => neg = NoHandshake /\ hostSent = <<>> /\ hostGot = <<>>
    /\ server.pc \notin {"active", "Failed", "Closed"} =>
          dispSent = <<>> /\ dispGot = <<>> /\ Fresh(disp)
    /\ host.pc = "finished" /\ conns[host.conn].toHost # <<>> =>
          Tail(conns[host.conn].toHost) = dispSent
    /\ Paired => dispSent = hostGot \o conns[host.conn].toHost
    /\ server.pc \in {"Authenticated", "posted", "begun", "active"} =>
          hostSent = dispGot \o conns[server.conn].toDisplay
    /\ IsPrefix(hostGot, dispSent) /\ IsPrefix(dispGot, hostSent)

-----------------------------------------------------------------------------
(***************************************************************************)
(* Frames: what the two streams say.                                       *)
(***************************************************************************)
Offer == Agreed(HostCapabilities.limits, display.limits)

\* The i-th frame of the host, and of the display.
HostFrame(i, f) ==
    /\ f.seq = i - 1
    /\ i = 1 => f = Frame("Hello", 0, HostHello)
    /\ i = 2 => f = Frame("Capabilities", 1, HostCapabilities)
    /\ i = 3 => neg.config # None /\ f = Frame("DisplayConfig", 2, neg.config)
    /\ i > 3 => f.type \in {"VideoFrame", "Pong"}

DisplayFrame(i, f) ==
    /\ i = 1 => f = Frame("Hello", 0, DisplayHello)
    /\ i = 2 => f = Frame("Capabilities", 1, DisplayCapabilities)
    /\ i > 2 => f.type \in {"Ping", "Telemetry", "Error"}

\* Where the host is in the negotiation.
HostState ==
    /\ neg.pc = "send" =>
          /\ neg.config = None
          /\ \/ hostSent = <<>> /\ neg.todo = <<Frame("Hello", 0, HostHello),
                                                Frame("Capabilities", 1, HostCapabilities)>>
             \/ Len(hostSent) = 1 /\ neg.todo = <<Frame("Capabilities", 1, HostCapabilities)>>
    /\ neg.pc = "wait" => neg.config = None /\ Len(hostSent) = 2
    /\ neg.pc = "config" =>
          /\ neg.config # None /\ Len(hostSent) = 2
          /\ neg.todo = <<Frame("DisplayConfig", 2, neg.config)>>
    /\ neg.pc = "prepare" => neg.config # None /\ Len(hostSent) = 3
    /\ neg.pc = "active" => neg.config # None /\ Len(hostSent) >= 3 /\ neg.next = Len(hostSent)
    /\ neg.pc \in {"idle", "send", "wait", "config", "prepare"} => neg.next = 3

\* What the host knows of the display.
HostKnows ==
    /\ neg.hello \in {None, DisplayHello} /\ neg.caps \in {None, DisplayCapabilities}
    /\ neg.config # None => neg.config \in SelectConfig(request, Offer)

HostSays ==
    HostKnows /\ HostState /\ \A i \in DOMAIN hostSent : HostFrame(i, hostSent[i])

DisplaySays ==
    /\ server.pc = "active" => Len(dispSent) >= 2
    /\ \A i \in DOMAIN dispSent : DisplayFrame(i, dispSent[i])

\* What the display knows is what it has read.
DisplayKnows ==
    server.pc = "active" =>
        /\ disp.highest = Len(dispGot) - 1
        /\ disp.failed \in BOOLEAN
        /\ ~disp.failed =>
              /\ disp.hello = IF Len(dispGot) >= 1 THEN HostHello ELSE None
              /\ disp.caps = IF Len(dispGot) >= 2 THEN HostCapabilities ELSE None
              /\ disp.negotiated = (Len(dispGot) >= 2)
              /\ disp.config = IF Len(dispGot) >= 3 THEN neg.config ELSE None

NoComplaint == disp.refused \in {"none", "decoder"}

-----------------------------------------------------------------------------
(***************************************************************************)
(* Counting: Videos(s, n) of the first n frames of s carry pictures.       *)
(***************************************************************************)
VideoAt(s, n) == {j \in DOMAIN s : j <= n /\ s[j].type = "VideoFrame"}
Videos(s, n) == Cardinality(VideoAt(s, n))

PicShape(p) ==
    /\ p \in [ready : {p.ready}, stalled : {p.stalled}, waiting : {p.waiting},
              released : Nat, shown : Nat, dropped : Nat, uncounted : Nat]
    /\ IsFiniteSet(p.waiting) /\ p.waiting \subseteq Nat

\* Pictures that no longer wait, and those that no count will take away.
Done(p) == p.shown + p.dropped + p.uncounted
Seen(p) == p.shown + p.uncounted

\* The first n frames of s: every picture waits or is done, and so is every one
\* up to the last that was released.
Accounted(p, s, n) ==
    /\ Done(p) + Cardinality(p.waiting) = Videos(s, n)
    /\ \A x \in p.waiting : x < n
    /\ p.ready => p.waiting = {}
    /\ p.released = 0 \/ (p.released < n /\ Videos(s, p.released + 1) <= Done(p))

\* The display counts the pictures it has read.
DisplayCounts ==
    /\ PicShape(disp.pics)
    /\ server.pc = "active" /\ ~disp.failed => Accounted(disp.pics, hostSent, Len(dispGot))

\* The host counts the pictures it has written.
HostCounts ==
    /\ Stream(neg.video)
    /\ neg.produced = Videos(hostSent, Len(hostSent))
    /\ \A i \in DOMAIN neg.video :
          /\ neg.video[i][1] \in Nat /\ neg.video[i][1] < Len(hostSent)
          /\ neg.video[i][2] = Videos(hostSent, neg.video[i][1] + 1)

\* A report counts the pictures up to the frame it names.
ReportOf(b) ==
    /\ b.frame \in Nat /\ b.dropped \in Nat /\ b.frame < Len(hostSent)
    /\ Videos(hostSent, b.frame + 1) <= b.dropped + Seen(disp.pics)

ReportCounts ==
    \A i \in DOMAIN dispSent : dispSent[i].type = "Telemetry" => ReportOf(dispSent[i].body)

Presented == neg.presented \in Nat /\ neg.presented <= Seen(disp.pics)

Counts == DisplayCounts /\ HostCounts /\ ReportCounts /\ Presented

-----------------------------------------------------------------------------
\* The host's record after an update.
LEMMA HostMoves ==
  ASSUME NEW h, NEW g, HostShape(h), NEW p \in HostPcs, g = [h EXCEPT !.pc = p]
  PROVE  /\ HostShape(g) /\ g.pc = p /\ g.conn = h.conn /\ g.key = h.key /\ g.dn = h.dn
         /\ g.right = h.right /\ g.refused = h.refused
  BY DEF HostShape

\* The display server's record after an update.
LEMMA ServerMoves ==
  ASSUME NEW s, NEW g, ServerShape(s), NEW p \in ServerPcs, g = [s EXCEPT !.pc = p]
  PROVE  ServerShape(g) /\ g.pc = p /\ g.conn = s.conn /\ g.hn = s.hn
  BY DEF ServerShape

\* Shape of the initial states.
LEMMA ShapeInit == Init => Shape
  <1> SUFFICES ASSUME Init PROVE Shape
    OBVIOUS
  <1>1. ConnsShape(conns)
    <2>1. Stream(<<>>)
      BY EmptyStream
    <2>2. SocketShape(NoConn)
      BY <2>1 DEF SocketShape, NoConn
    <2> QED BY <2>2 DEF Init, PairInit, ConnsShape
  <1>2. HostShape(host) /\ host.conn = 0 /\ host.pc = "idle"
    BY DEF Init, PairInit, HostShape, HostPcs
  <1>3. ServerShape(server) /\ server.conn = 0 /\ server.pc = "head"
    BY DEF Init, PairInit, ServerShape, ServerPcs
  <1>4. NegShape(neg) /\ neg.pc = "idle"
    <2>1. Stream(<<>>)
      BY EmptyStream
    <2> QED BY <2>1 DEF Init, NegShape, NoHandshake, NegPcs, Talking
  <1>5. DispShape(disp)
    BY DEF Init, DispShape, NoSession
  <1>6. Stream(hostSent) /\ Stream(hostGot) /\ Stream(dispSent) /\ Stream(dispGot)
    BY EmptyStream DEF Init
  <1>7. /\ attempts = 0 /\ token \in Tokens /\ failed = 0 /\ timed = {}
        /\ {valid, expired, stopped} \subseteq BOOLEAN
        /\ request \in Requests /\ display \in Displays
    BY DEF Init, PairInit
  <1>8. 0 \in 0 .. MaxAttempts
    BY PairingAssumption
  <1> QED BY <1>1, <1>2, <1>3, <1>4, <1>5, <1>6, <1>7, <1>8 DEF Shape, Talking

\* The socket of an active call, and the one the display works on, exist.
LEMMA SocketsExist ==
  ASSUME Shape
  PROVE  /\ MaxAttempts \in Nat \ {0}
         /\ host.pc # "idle" => host.conn \in 1 .. MaxAttempts
         /\ server.conn # 0 => server.conn \in 1 .. MaxAttempts
         /\ attempts < MaxAttempts => attempts + 1 \in 1 .. MaxAttempts
         /\ \A k \in 1 .. MaxAttempts :
              /\ Flag(conns[k].queued) /\ Flag(conns[k].hostOpen) /\ Flag(conns[k].displayOpen)
              /\ Stream(conns[k].toDisplay) /\ Stream(conns[k].toHost)
  <1>1. MaxAttempts \in Nat \ {0} /\ attempts \in 0 .. MaxAttempts
    BY PairingAssumption DEF Shape
  <1>2. host.conn = attempts /\ server.conn \in Nat /\ server.conn <= attempts
    BY DEF Shape, ServerShape
  <1>3. \A k \in 1 .. MaxAttempts : SocketShape(conns[k])
    BY DEF Shape, ConnsShape
  <1> QED BY <1>1, <1>2, <1>3 DEF Shape, SocketShape, Flag

\* What a step of pairing leaves alone keeps its shape.
Rest == <<neg, disp, hostSent, hostGot, dispSent, dispGot, request, display>>

\* The parts of Shape a pairing step may change.
LEMMA ShapeOfPairing ==
  ASSUME Shape, UNCHANGED Rest, ConnsShape(conns'),
         attempts' \in 0 .. MaxAttempts,
         HostShape(host'), host'.conn = attempts', host'.pc # "idle" => attempts' # 0,
         ServerShape(server'), server'.conn <= attempts',
         server'.pc \in {"hello", "finish", "Authenticated", "posted", "begun", "active", "Failed"}
            => server'.conn # 0,
         token' = token, failed' \in Nat, {valid', expired', stopped'} \subseteq BOOLEAN,
         timed' \subseteq {"Host", "Display"},
         \/ host'.pc \in {"idle", "hello", "finished", "paired"} /\ host.pc \notin {"session", "over"}
         \/ host' = host
  PROVE  Shape'
  <1>1. token' \in Tokens /\ request' \in Requests /\ display' \in Displays
    BY DEF Shape, Rest
  <1>2. NegShape(neg') /\ DispShape(disp')
        /\ Stream(hostSent') /\ Stream(hostGot') /\ Stream(dispSent') /\ Stream(dispGot')
    BY DEF Shape, Rest
  <1>3. /\ host'.pc = "session" <=> neg'.pc \in Talking
        /\ host'.pc \in {"idle", "hello", "finished", "paired"} => neg'.pc = "idle"
    <2>1. CASE host' = host
      BY <2>1 DEF Shape, Rest
    <2>2. CASE host'.pc \in {"idle", "hello", "finished", "paired"}
               /\ host.pc # "session" /\ host.pc # "over"
      <3>1. host.pc \in {"idle", "hello", "finished", "paired"}
        BY <2>2 DEF Shape, HostShape, HostPcs
      <3>2. neg'.pc = "idle"
        BY <3>1 DEF Shape, Rest
      <3> QED BY <2>2, <3>2 DEF Talking
    <2> QED BY <2>1, <2>2
  <1> QED BY <1>1, <1>2, <1>3 DEF Shape

\* A pairing call opens the next socket.
LEMMA PairShape ==
  ASSUME Shape, NEW code, Pair(code), UNCHANGED negVars
  PROVE  /\ Shape'
         /\ Touched(conns, conns', attempts + 1, TRUE, <<HH(attempts + 1)>>, <<>>, TRUE, TRUE)
  <1>1. attempts + 1 \in 1 .. MaxAttempts /\ attempts' = attempts + 1
    BY SocketsExist DEF Pair
  <1>2. conns' = Put(conns, attempts + 1,
                     Socket(TRUE, <<HH(attempts + 1)>>, <<>>, TRUE, TRUE))
    BY DEF Pair, Put, Socket, HH
  <1>3. Stream(<<HH(attempts + 1)>>) /\ Stream(<<>>) /\ Flag(TRUE)
    BY EmptyStream, StreamWrites DEF Flag
  <1>4. Touched(conns, conns', attempts + 1, TRUE, <<HH(attempts + 1)>>, <<>>, TRUE, TRUE)
    <2>1. ConnsShape(conns)
      BY DEF Shape
    <2> QED BY <1>1, <1>2, <1>3, <2>1, PutTouches
  <1>5. HostShape(host') /\ host'.conn = attempts' /\ host'.pc = "hello"
    BY <1>1 DEF Pair, HostShape, HostPcs
  <1>6. timed' \subseteq {"Host", "Display"} /\ UNCHANGED displayVars
    BY DEF Pair, Shape
  <1>7. Shape'
    <2>1. attempts' \in 0 .. MaxAttempts /\ attempts' # 0 /\ server'.conn <= attempts'
      BY <1>1, <1>6 DEF Shape, ServerShape, displayVars
    <2>2. host.pc = "idle" /\ UNCHANGED Rest
      BY DEF Pair, negVars, Rest
    <2>3. ConnsShape(conns')
      BY <1>4 DEF Touched
    <2>4. /\ ServerShape(server') /\ token' = token /\ failed' \in Nat
          /\ {valid', expired', stopped'} \subseteq BOOLEAN
          /\ server'.pc \in {"hello", "finish", "Authenticated", "posted", "begun", "active", "Failed"}
                => server'.conn # 0
      BY <1>6 DEF Shape, displayVars
    <2> QED BY <1>5, <1>6, <2>1, <2>2, <2>3, <2>4, ShapeOfPairing
  <1> QED BY <1>4, <1>7

\* The host's steps of the handshake leave the display's side alone.
LEMMA ShapeOfHostStep ==
  ASSUME Shape, UNCHANGED <<attempts, displayVars>>, UNCHANGED Rest, ConnsShape(conns'),
         HostShape(host'), host'.conn = host.conn, host.pc \in {"hello", "finished", "paired"},
         host'.pc \in {"idle", "hello", "finished", "paired"},
         timed' \subseteq {"Host", "Display"}
  PROVE  Shape'
  <1>1. /\ ServerShape(server') /\ token' = token /\ failed' \in Nat
        /\ {valid', expired', stopped'} \subseteq BOOLEAN /\ server'.conn <= attempts'
        /\ server'.pc \in {"hello", "finish", "Authenticated", "posted", "begun", "active", "Failed"}
              => server'.conn # 0
        /\ attempts' \in 0 .. MaxAttempts /\ attempts' # 0 /\ host'.conn = attempts'
    BY DEF Shape, displayVars
  <1> QED BY <1>1, ShapeOfPairing

\* HostFails closes the host's end.
LEMMA HostFailsShape ==
  ASSUME Shape, NEW b, Flag(b), HostFails(b), UNCHANGED Rest,
         host.pc \in {"hello", "finished", "paired"}
  PROVE  LET c == conns[host.conn]
         IN  /\ Shape' /\ host'.pc = "idle" /\ host'.refused = b /\ host'.key = host.key
             /\ host'.right = host.right
             /\ Touched(conns, conns', host.conn, c.queued, c.toDisplay, c.toHost,
                        FALSE, c.displayOpen)
  <1> DEFINE c == conns[host.conn]
  <1>1. host.conn \in 1 .. MaxAttempts /\ Stream(c.toHost) /\ Flag(FALSE) /\ ConnsShape(conns)
    BY SocketsExist DEF Flag, Shape
  <1>2. conns' = SetHostOpen(conns, host.conn, FALSE)
    BY DEF HostFails, SetHostOpen
  <1>3. Touched(conns, conns', host.conn, c.queued, c.toDisplay, c.toHost, FALSE, c.displayOpen)
    BY <1>1, <1>2, Touches
  <1>4. HostShape(host) /\ "idle" \in HostPcs /\ host' = [host EXCEPT !.pc = "idle", !.refused = b]
    BY DEF Shape, HostFails, HostPcs
  <1>5. /\ HostShape(host') /\ host'.conn = host.conn /\ host'.pc = "idle" /\ host'.refused = b
        /\ host'.key = host.key /\ host'.right = host.right
    BY <1>4 DEF HostShape, Flag
  <1>6. UNCHANGED <<attempts, displayVars>> /\ timed' \subseteq {"Host", "Display"}
    BY DEF HostFails, Shape
  <1>7. ConnsShape(conns')
    BY <1>3 DEF Touched
  <1>8. Shape'
    BY <1>5, <1>6, <1>7, ShapeOfHostStep
  <1> QED BY <1>3, <1>5, <1>8

\* HostReadsHello with a tag that fits the code.
LEMMA ReadsHelloShape ==
  ASSUME Shape, HostReadsHello, UNCHANGED negVars,
         ValidDisplayHello(Head(conns[host.conn].toHost), host.key, host.conn)
  PROVE  LET c == conns[host.conn]
             r == Head(c.toHost)
         IN  /\ Shape' /\ host'.pc = "finished" /\ host'.dn = r.nonce /\ host'.key = host.key
             /\ host'.refused = host.refused /\ host'.right = host.right
             /\ timed' = timed /\ UNCHANGED <<attempts, displayVars>>
             /\ Touched(conns, conns', host.conn, c.queued,
                        Append(c.toDisplay,
                               FinishedRecord(host.key, "HostFinished", host.conn, r.nonce)),
                        Tail(c.toHost), c.hostOpen, c.displayOpen)
  <1> DEFINE c == conns[host.conn]
             r == Head(c.toHost)
             w == Append(c.toDisplay, FinishedRecord(host.key, "HostFinished", host.conn, r.nonce))
  <1>1. /\ host.conn \in 1 .. MaxAttempts /\ ConnsShape(conns)
        /\ Stream(c.toDisplay) /\ Stream(c.toHost) /\ host.pc = "hello" /\ c.toHost # <<>>
        /\ Flag(c.queued)
    BY SocketsExist DEF Shape, HostReadsHello
  <1>2. Stream(w) /\ Stream(Tail(c.toHost))
    <2>1. Stream(w)
      BY <1>1, StreamGrows
    <2>2. Stream(Tail(c.toHost))
      BY <1>1, StreamReads
    <2> QED BY <2>1, <2>2
  <1>3. /\ host' = [host EXCEPT !.pc = "finished", !.dn = r.nonce]
        /\ UNCHANGED <<attempts, timed, displayVars>>
        /\ conns' = SetBoth(conns, host.conn, w, Tail(c.toHost))
    BY DEF HostReadsHello, SetBoth, Unread
  <1> HIDE DEF w
  <1>4. Touched(conns, conns', host.conn, c.queued, w, Tail(c.toHost), c.hostOpen, c.displayOpen)
    BY <1>1, <1>2, <1>3, Touches
  <1>5. HostShape(host) /\ "finished" \in HostPcs
    BY DEF Shape, HostPcs
  <1>6. /\ HostShape(host') /\ host'.conn = host.conn /\ host'.pc = "finished"
        /\ host'.dn = r.nonce /\ host'.refused = host.refused
        /\ host'.key = host.key /\ host'.right = host.right
    BY <1>3, <1>5 DEF HostShape
  <1>7. ConnsShape(conns') /\ timed' \subseteq {"Host", "Display"} /\ UNCHANGED Rest
    BY <1>3, <1>4 DEF Touched, Shape, negVars, Rest
  <1>8. Shape'
    BY <1>1, <1>3, <1>6, <1>7, ShapeOfHostStep
  <1> QED BY <1>3, <1>4, <1>6, <1>8 DEF w

\* HostReadsFinished with a tag that fits.
LEMMA ReadsFinishedShape ==
  ASSUME Shape, HostReadsFinished, UNCHANGED negVars,
         ValidFinished(Head(conns[host.conn].toHost), host.key, "DisplayFinished",
                       host.conn, host.dn)
  PROVE  LET c == conns[host.conn]
         IN  /\ Shape' /\ host'.pc = "paired" /\ host'.dn = host.dn /\ host'.key = host.key
             /\ host'.refused = host.refused /\ host'.right = host.right
             /\ timed' = timed \ {"Host"} /\ UNCHANGED <<attempts, displayVars>>
             /\ Touched(conns, conns', host.conn, c.queued, c.toDisplay, Tail(c.toHost),
                        c.hostOpen, c.displayOpen)
  <1> DEFINE c == conns[host.conn]
  <1>1. /\ host.conn \in 1 .. MaxAttempts /\ ConnsShape(conns)
        /\ Stream(c.toDisplay) /\ Stream(c.toHost) /\ host.pc = "finished" /\ c.toHost # <<>>
        /\ Flag(c.queued)
    BY SocketsExist DEF Shape, HostReadsFinished
  <1>2. Stream(Tail(c.toHost))
    BY <1>1, StreamReads
  <1>3. /\ host' = [host EXCEPT !.pc = "paired"]
        /\ UNCHANGED <<attempts, displayVars>> /\ timed' = timed \ {"Host"}
        /\ conns' = SetToHost(conns, host.conn, Tail(c.toHost))
    BY DEF HostReadsFinished, SetToHost, Unread, ClearTimeouts
  <1>4. Touched(conns, conns', host.conn, c.queued, c.toDisplay, Tail(c.toHost),
                c.hostOpen, c.displayOpen)
    BY <1>1, <1>2, <1>3, Touches
  <1>5. HostShape(host) /\ "paired" \in HostPcs
    BY DEF Shape, HostPcs
  <1>6. /\ HostShape(host') /\ host'.conn = host.conn /\ host'.pc = "paired"
        /\ host'.dn = host.dn /\ host'.refused = host.refused
        /\ host'.key = host.key /\ host'.right = host.right
    BY <1>3, <1>5, HostMoves
  <1>7. ConnsShape(conns') /\ timed' \subseteq {"Host", "Display"} /\ UNCHANGED Rest
    BY <1>3, <1>4 DEF Touched, Shape, negVars, Rest
  <1>8. Shape'
    BY <1>1, <1>3, <1>6, <1>7, ShapeOfHostStep
  <1> QED BY <1>3, <1>4, <1>6, <1>8

-----------------------------------------------------------------------------
(***************************************************************************)
(* Many steps of the display only move its server along and close sockets. *)
(***************************************************************************)
SessionKept ==
    \/ disp' = disp
    \/ \E b \in BOOLEAN : disp' = [disp EXCEPT !.on = b]
    \/ DecoderChanges

Quiet ==
    /\ Shape' /\ Kept(conns, conns')
    /\ UNCHANGED <<host, attempts, token, neg, hostSent, hostGot, dispSent, dispGot,
                   request, display>>
    /\ timed' \subseteq timed
    /\ SessionKept
    /\ server'.conn = server.conn /\ server'.hn = server.hn
    /\ server.pc \in Serving /\ server'.pc \notin Serving =>
          \A k \in 1 .. MaxAttempts : ~conns'[k].queued
    /\ \/ server'.pc = server.pc
       \/ server.pc \in Serving /\ server'.pc \in {"head", "accept", "Closed", "Expired", "LockedOut"}
       \/ server.pc = "Authenticated" /\ server'.pc \in {"posted", "Closed"}
       \/ server.pc = "posted" /\ server'.pc = "begun"
       \/ server.pc \in {"begun", "active"} /\ server'.pc \in {"Closed", "Failed"}

\* Nothing changed, or the display's end of one socket was closed.
LEMMA KeptSame ==
  ASSUME NEW cs, ConnsShape(cs)
  PROVE  /\ Kept(cs, cs)
         /\ \A n \in 1 .. MaxAttempts : Kept(cs, SetDisplayOpen(cs, n, FALSE))
  <1>1. Kept(cs, cs)
    BY DEF Kept
  <1>2. ASSUME NEW n \in 1 .. MaxAttempts PROVE Kept(cs, SetDisplayOpen(cs, n, FALSE))
    <2> DEFINE c == cs[n]
               ds == SetDisplayOpen(cs, n, FALSE)
    <2>1. Stream(c.toHost) /\ Flag(FALSE)
      BY DEF ConnsShape, SocketShape, Flag
    <2>2. Touched(cs, ds, n, c.queued, c.toDisplay, c.toHost, c.hostOpen, FALSE)
      BY <2>1, Touches
    <2> HIDE DEF ds
    <2> QED BY <2>2 DEF Touched, Kept, ds
  <1> QED BY <1>1, <1>2

\* serve returns: the backlog is closed.
LEMMA ServeReturnsKeeps ==
  ASSUME NEW cs, ConnsShape(cs), NEW p \in {"Closed", "Expired", "LockedOut", "Authenticated"},
         ServeReturns(p, cs), ServerShape(server)
  PROVE  /\ Kept(cs, conns') /\ \A k \in 1 .. MaxAttempts : ~conns'[k].queued
         /\ ServerShape(server') /\ server'.pc = p /\ server'.conn = server.conn
         /\ server'.hn = server.hn /\ valid' = FALSE
  <1> DEFINE C == {k \in DOMAIN cs : cs[k].queued}
  <1>1. conns' = [k \in DOMAIN cs |-> IF k \in C THEN Shut(cs[k]) ELSE cs[k]]
    <2>1. conns' = [k \in DOMAIN cs |-> IF cs[k].queued THEN Shut(cs[k]) ELSE cs[k]]
      BY Zenon DEF ServeReturns, Shut
    <2> QED BY <2>1
  <1>2. DOMAIN cs = 1 .. MaxAttempts
    BY DEF ConnsShape
  <1> HIDE DEF C
  <1>3. Kept(cs, conns') /\ \A k \in 1 .. MaxAttempts : k \in C => ~conns'[k].queued
    BY <1>1, SocketsClosed
  <1>4. \A k \in 1 .. MaxAttempts : ~conns'[k].queued
    BY <1>2, <1>3 DEF C, Kept
  <1>5. p \in ServerPcs /\ server' = [server EXCEPT !.pc = p] /\ valid' = FALSE
    <2>1. server' = [server EXCEPT !.pc = p] /\ valid' = FALSE
      BY Zenon DEF ServeReturns
    <2> QED BY <2>1 DEF ServerPcs
  <1>6. /\ ServerShape(server') /\ server'.pc = p /\ server'.conn = server.conn
        /\ server'.hn = server.hn
    BY <1>5, ServerMoves
  <1> QED BY <1>3, <1>4, <1>5, <1>6

\* The display's steps of the handshake leave the host's side alone.
LEMMA ShapeOfServerStep ==
  ASSUME Shape, UNCHANGED hostVars, UNCHANGED Rest, ConnsShape(conns'),
         ServerShape(server'), server'.conn <= attempts,
         server'.pc \in {"hello", "finish", "Authenticated", "posted", "begun", "active", "Failed"}
            => server'.conn # 0,
         failed' \in Nat, {valid', expired'} \subseteq BOOLEAN,
         timed' \subseteq {"Host", "Display"}
  PROVE  Shape'
  <1>1. /\ HostShape(host') /\ host' = host /\ token' = token /\ stopped' \in BOOLEAN
        /\ attempts' \in 0 .. MaxAttempts /\ host'.conn = attempts'
        /\ host'.pc # "idle" => attempts' # 0
        /\ server'.conn <= attempts'
    BY DEF Shape, hostVars
  <1>2. {valid', expired', stopped'} \subseteq BOOLEAN
    BY <1>1
  <1> QED BY <1>1, <1>2, ShapeOfPairing

\* LoopHead.
LEMMA LoopHeadQuiet ==
  ASSUME Shape, LoopHead, UNCHANGED negVars
  PROVE  Quiet
  <1>1. ConnsShape(conns) /\ ServerShape(server) /\ server.pc = "head" /\ server.conn <= attempts
    BY DEF Shape, LoopHead
  <1>2. UNCHANGED hostVars /\ UNCHANGED Rest /\ timed' = timed /\ failed' = failed
        /\ expired' = expired /\ disp' = disp
    BY DEF LoopHead, negVars, Rest
  <1>3. /\ Kept(conns, conns') /\ ServerShape(server') /\ valid' \in BOOLEAN
        /\ server'.conn = server.conn /\ server'.hn = server.hn
        /\ \/ server'.pc \in {"Closed", "Expired"} /\ \A k \in 1 .. MaxAttempts : ~conns'[k].queued
           \/ server'.pc = "accept"
    <2>1. CASE stopped
      <3>1. ServeReturns("Closed", conns)
        BY <2>1 DEF LoopHead
      <3> QED BY <1>1, <3>1, ServeReturnsKeeps
    <2>2. CASE ~stopped /\ expired
      <3>1. ServeReturns("Expired", conns)
        BY <2>2 DEF LoopHead
      <3> QED BY <1>1, <3>1, ServeReturnsKeeps
    <2>3. CASE ~stopped /\ ~expired
      <3>1. server' = [server EXCEPT !.pc = "accept"] /\ conns' = conns /\ valid' = valid
        BY <2>3 DEF LoopHead
      <3>2. "accept" \in ServerPcs /\ valid \in BOOLEAN
        BY DEF ServerPcs, Shape
      <3> QED BY <1>1, <3>1, <3>2, ServerMoves, KeptSame
    <2> QED BY <2>1, <2>2, <2>3
  <1>4. Shape'
    <2>1. ConnsShape(conns') /\ failed' \in Nat /\ {valid', expired'} \subseteq BOOLEAN
          /\ timed' \subseteq {"Host", "Display"}
      BY <1>2, <1>3 DEF Kept, Shape
    <2> QED BY <1>1, <1>2, <1>3, <2>1, ShapeOfServerStep
  <1> QED BY <1>1, <1>2, <1>3, <1>4 DEF Quiet, SessionKept, hostVars, Rest, Serving

\* Accept, when the poll interval is over.
LEMMA AcceptQuiet ==
  ASSUME Shape, UNCHANGED negVars, UNCHANGED <<hostVars, valid, failed, expired>>,
         server.pc = "accept", server' = [server EXCEPT !.pc = "head"], UNCHANGED <<conns, timed>>
  PROVE  Quiet
  <1>1. ConnsShape(conns) /\ ServerShape(server) /\ "head" \in ServerPcs /\ server.conn <= attempts
    BY DEF Shape, ServerPcs
  <1>2. /\ ServerShape(server') /\ server'.pc = "head" /\ server'.conn = server.conn
        /\ server'.hn = server.hn
    BY <1>1, ServerMoves
  <1>3. Kept(conns, conns') /\ ConnsShape(conns')
    BY <1>1, KeptSame
  <1>4. Shape'
    <2>1. failed' \in Nat /\ {valid', expired'} \subseteq BOOLEAN
          /\ timed' \subseteq {"Host", "Display"} /\ UNCHANGED Rest
      BY DEF Shape, negVars, Rest
    <2> QED BY <1>1, <1>2, <1>3, <2>1, ShapeOfServerStep DEF hostVars
  <1> QED BY <1>1, <1>2, <1>3, <1>4 DEF Quiet, SessionKept, hostVars, negVars, Serving

\* AcceptClosed.
LEMMA AcceptClosedQuiet ==
  ASSUME Shape, AcceptClosed, UNCHANGED negVars
  PROVE  Quiet
  <1>1. ConnsShape(conns) /\ ServerShape(server) /\ server.pc = "accept" /\ server.conn <= attempts
    BY DEF Shape, AcceptClosed
  <1>2. /\ UNCHANGED hostVars /\ UNCHANGED Rest /\ timed' = timed /\ failed' = failed
        /\ expired' = expired /\ disp' = disp /\ ServeReturns("Closed", conns)
    BY DEF AcceptClosed, negVars, Rest
  <1>3. /\ Kept(conns, conns') /\ ServerShape(server') /\ valid' \in BOOLEAN
        /\ server'.conn = server.conn /\ server'.hn = server.hn
        /\ server'.pc = "Closed" /\ \A k \in 1 .. MaxAttempts : ~conns'[k].queued
    BY <1>1, <1>2, ServeReturnsKeeps
  <1>4. Shape'
    <2>1. ConnsShape(conns') /\ failed' \in Nat /\ {valid', expired'} \subseteq BOOLEAN
          /\ timed' \subseteq {"Host", "Display"}
      BY <1>2, <1>3 DEF Kept, Shape
    <2> QED BY <1>1, <1>2, <1>3, <2>1, ShapeOfServerStep
  <1> QED BY <1>1, <1>2, <1>3, <1>4 DEF Quiet, SessionKept, hostVars, Rest, Serving

\* Expire and OnIoThread.
LEMMA ExpireQuiet ==
  ASSUME Shape, Expire \/ OnIoThread, UNCHANGED negVars
  PROVE  Quiet
  <1>1. ConnsShape(conns) /\ ServerShape(server) /\ server.conn <= attempts
    BY DEF Shape
  <1>2. /\ UNCHANGED hostVars /\ UNCHANGED Rest /\ timed' = timed /\ failed' = failed
        /\ valid' = valid /\ disp' = disp
    BY DEF Expire, OnIoThread, negVars, Rest
  <1>3. /\ Kept(conns, conns') /\ ServerShape(server') /\ expired' \in BOOLEAN
        /\ server'.conn = server.conn /\ server'.hn = server.hn
        /\ \/ server'.pc = server.pc
           \/ server.pc = "Authenticated" /\ server'.pc \in {"posted", "Closed"}
    <2>1. CASE Expire
      BY <1>1, <2>1, KeptSame DEF Expire
    <2>2. CASE OnIoThread
      <3>1. {"posted", "Closed"} \subseteq ServerPcs /\ expired' \in BOOLEAN
        BY <2>2 DEF OnIoThread, Shape, ServerPcs
      <3>2. server.pc = "Authenticated" /\ server.conn \in 1 .. MaxAttempts
        BY <2>2, SocketsExist DEF OnIoThread, Shape
      <3>3. CASE stopped
        <4>1. /\ server' = [server EXCEPT !.pc = "Closed"]
              /\ conns' = SetDisplayOpen(conns, server.conn, FALSE)
          BY <2>2, <3>3 DEF OnIoThread, Closing, SetDisplayOpen
        <4>2. Kept(conns, conns')
          BY <1>1, <3>2, <4>1, KeptSame
        <4>3. /\ ServerShape(server') /\ server'.pc = "Closed" /\ server'.conn = server.conn
              /\ server'.hn = server.hn
          BY <1>1, <3>1, <4>1, ServerMoves
        <4> QED BY ONLY <3>1, <3>2, <4>2, <4>3
      <3>4. CASE ~stopped
        <4>1. server' = [server EXCEPT !.pc = "posted"] /\ conns' = conns
          BY <2>2, <3>4 DEF OnIoThread
        <4>2. Kept(conns, conns')
          BY <1>1, <4>1, KeptSame
        <4>3. /\ ServerShape(server') /\ server'.pc = "posted" /\ server'.conn = server.conn
              /\ server'.hn = server.hn
          BY <1>1, <3>1, <4>1, ServerMoves
        <4> QED BY ONLY <3>1, <3>2, <4>2, <4>3
      <3> QED BY <3>3, <3>4
    <2> QED BY <2>1, <2>2
  <1>4. Shape'
    <2>1. ConnsShape(conns') /\ failed' \in Nat /\ {valid', expired'} \subseteq BOOLEAN
          /\ timed' \subseteq {"Host", "Display"}
      BY <1>2, <1>3 DEF Kept, Shape
    <2>2. server'.pc \in {"hello", "finish", "Authenticated", "posted", "begun", "active", "Failed"}
             => server'.conn # 0
      BY <1>3 DEF Shape
    <2> QED BY <1>1, <1>2, <1>3, <2>1, <2>2, ShapeOfServerStep
  <1> QED BY <1>1, <1>2, <1>3, <1>4 DEF Quiet, SessionKept, hostVars, Rest, Serving

\* Closing keeps, however many sockets are closed one after the other.
LEMMA KeptTwice ==
  ASSUME NEW cs, NEW ds, NEW es, Kept(cs, ds), Kept(ds, es)
  PROVE  Kept(cs, es)
  BY DEF Kept

\* HandshakeFails.
LEMMA HandshakeFailsQuiet ==
  ASSUME Shape, HandshakeFails, UNCHANGED Rest, server.pc \in {"hello", "finish"}
  PROVE  Quiet
  <1> DEFINE cs == SetDisplayOpen(conns, server.conn, FALSE)
  <1>1. /\ ConnsShape(conns) /\ ServerShape(server) /\ server.conn <= attempts
        /\ server.conn \in 1 .. MaxAttempts
    BY SocketsExist DEF Shape
  <1>2. UNCHANGED hostVars /\ timed' = timed \ {"Display"} /\ expired' = expired
    BY DEF HandshakeFails
  <1>3. Kept(conns, cs) /\ ConnsShape(cs)
    BY <1>1, KeptSame DEF Kept
  <1>4. /\ Kept(conns, conns') /\ ServerShape(server') /\ valid' \in BOOLEAN /\ failed' \in Nat
        /\ server'.conn = server.conn /\ server'.hn = server.hn
        /\ \/ /\ server'.pc \in {"Expired", "LockedOut"}
              /\ \A k \in 1 .. MaxAttempts : ~conns'[k].queued
           \/ server'.pc = "head"
    <2>1. failed \in Nat /\ valid \in BOOLEAN
      BY DEF Shape
    <2>2. CASE expired
      <3>1. ServeReturns("Expired", cs) /\ failed' = failed
        BY <2>2 DEF HandshakeFails, SetDisplayOpen
      <3> HIDE DEF cs
      <3>2. /\ Kept(cs, conns') /\ ServerShape(server') /\ server'.conn = server.conn
            /\ server'.hn = server.hn /\ server'.pc = "Expired" /\ valid' = FALSE
            /\ \A k \in 1 .. MaxAttempts : ~conns'[k].queued
        BY <1>1, <1>3, <3>1, ServeReturnsKeeps
      <3>3. Kept(conns, conns')
        BY <1>3, <3>2, KeptTwice
      <3>4. valid' \in BOOLEAN
        BY <3>2
      <3>5. failed' \in Nat
        BY <2>1, <3>1
      <3> QED BY <3>2, <3>3, <3>4, <3>5
    <2>3. CASE ~expired /\ LockedOut
      <3>1. ServeReturns("LockedOut", cs) /\ failed' = failed + 1
        BY <2>3 DEF HandshakeFails, SetDisplayOpen
      <3> HIDE DEF cs
      <3>2. /\ Kept(cs, conns') /\ ServerShape(server') /\ server'.conn = server.conn
            /\ server'.hn = server.hn /\ server'.pc = "LockedOut" /\ valid' = FALSE
            /\ \A k \in 1 .. MaxAttempts : ~conns'[k].queued
        BY <1>1, <1>3, <3>1, ServeReturnsKeeps
      <3>3. Kept(conns, conns')
        BY <1>3, <3>2, KeptTwice
      <3>4. valid' \in BOOLEAN
        BY <3>2
      <3>5. failed' \in Nat
        BY <2>1, <3>1
      <3> QED BY <3>2, <3>3, <3>4, <3>5
    <2>4. CASE ~expired /\ ~LockedOut
      <3>1. /\ server' = [server EXCEPT !.pc = "head"] /\ conns' = cs /\ valid' = valid
            /\ failed' = failed + 1 /\ "head" \in ServerPcs
        BY <2>4 DEF HandshakeFails, SetDisplayOpen, ServerPcs
      <3> HIDE DEF cs
      <3> QED BY <1>1, <1>3, <2>1, <3>1, ServerMoves
    <2> QED BY <2>2, <2>3, <2>4
  <1>5. Shape'
    <2>1. ConnsShape(conns') /\ {valid', expired'} \subseteq BOOLEAN
          /\ timed' \subseteq {"Host", "Display"}
      BY <1>2, <1>4 DEF Kept, Shape
    <2> QED BY <1>1, <1>2, <1>4, <2>1, ShapeOfServerStep
  <1>6. server.pc \in Serving /\ server'.pc \in {"head", "accept", "Closed", "Expired", "LockedOut"}
    BY <1>4 DEF Serving
  <1>7. timed' \subseteq timed /\ disp' = disp
        /\ UNCHANGED <<host, attempts, token, neg, hostSent, hostGot, dispSent, dispGot,
                       request, display>>
    BY <1>2 DEF hostVars, Rest
  <1>8. server'.pc \notin Serving => \A k \in 1 .. MaxAttempts : ~conns'[k].queued
    BY <1>4 DEF Serving
  <1> QED BY <1>4, <1>5, <1>6, <1>7, <1>8 DEF Quiet, SessionKept

\* A call is taken from the backlog.
LEMMA AcceptShape ==
  ASSUME Shape, UNCHANGED negVars, UNCHANGED <<hostVars, valid, failed, expired>>,
         NEW n \in Backlog, server' = [pc |-> "hello", conn |-> n, hn |-> 0],
         conns' = [conns EXCEPT ![n].queued = FALSE], timed' = timed \cup {"Display"},
         n <= attempts
  PROVE  /\ Shape' /\ Kept(conns, conns') /\ n \in 1 .. MaxAttempts /\ ~conns'[n].queued
         /\ conns[n].queued
  <1>1. ConnsShape(conns) /\ n \in 1 .. MaxAttempts /\ conns[n].queued
    BY DEF Shape, Backlog, ConnsShape
  <1> DEFINE c == conns[n]
  <1>2. Stream(c.toHost) /\ Flag(FALSE)
    BY <1>1 DEF ConnsShape, SocketShape, Flag
  <1>3. conns' = SetQueued(conns, n, FALSE)
    BY DEF SetQueued
  <1>4. Touched(conns, conns', n, FALSE, c.toDisplay, c.toHost, c.hostOpen, c.displayOpen)
    BY <1>1, <1>2, <1>3, Touches
  <1>5. Kept(conns, conns') /\ ~conns'[n].queued
    BY <1>4 DEF Touched, Kept
  <1>6. Shape'
    <2>1. ServerShape(server') /\ server'.conn <= attempts /\ server'.conn # 0
      BY <1>1 DEF ServerShape, ServerPcs
    <2>2. /\ ConnsShape(conns') /\ failed' \in Nat /\ {valid', expired'} \subseteq BOOLEAN
          /\ timed' \subseteq {"Host", "Display"} /\ UNCHANGED Rest /\ UNCHANGED hostVars
      BY <1>5 DEF Kept, Shape, Rest, negVars
    <2> QED BY <2>1, <2>2, ShapeOfServerStep
  <1> QED BY <1>1, <1>5, <1>6

\* What ServerReadsHello writes.
HelloAnswered(nonce, r) ==
    /\ server' = [server EXCEPT !.pc = "finish", !.hn = nonce]
    /\ conns' = [conns EXCEPT ![server.conn].toDisplay = Unread(@),
                              ![server.conn].toHost = Append(@, r)]

\* The display answers a hello.
LEMMA AnswersHelloShape ==
  ASSUME Shape, UNCHANGED negVars, UNCHANGED <<hostVars, valid, failed, expired, timed>>,
         server.pc = "hello", conns[server.conn].toDisplay # <<>>, NEW nonce, NEW r,
         HelloAnswered(nonce, r)
  PROVE  LET c == conns[server.conn]
         IN  /\ Shape' /\ server'.pc = "finish" /\ server'.conn = server.conn /\ server'.hn = nonce
             /\ Touched(conns, conns', server.conn, c.queued, Tail(c.toDisplay),
                        Append(c.toHost, r), c.hostOpen, c.displayOpen)
  <1> DEFINE c == conns[server.conn]
             w == Append(c.toHost, r)
  <1>1. /\ ConnsShape(conns) /\ server.conn \in 1 .. MaxAttempts /\ server.conn <= attempts
        /\ Stream(c.toDisplay) /\ Stream(c.toHost) /\ Flag(c.queued) /\ server.conn # 0
    BY SocketsExist DEF Shape
  <1>2. conns' = SetBothToo(conns, server.conn, Tail(c.toDisplay), w)
    BY DEF SetBothToo, Unread, HelloAnswered
  <1>3. Stream(Tail(c.toDisplay)) /\ Stream(w)
    <2>1. Stream(Tail(c.toDisplay))
      BY <1>1, StreamReads
    <2> QED BY <1>1, <2>1, StreamGrows
  <1> HIDE DEF w
  <1>4. Touched(conns, conns', server.conn, c.queued, Tail(c.toDisplay), w,
                c.hostOpen, c.displayOpen)
    BY <1>1, <1>2, <1>3, BothTouched
  <1>5. /\ ServerShape(server') /\ server'.pc = "finish" /\ server'.conn = server.conn
        /\ server'.hn = nonce
    BY DEF Shape, ServerShape, ServerPcs, HelloAnswered
  <1>6. Shape'
    <2>1. /\ ConnsShape(conns') /\ failed' \in Nat /\ {valid', expired'} \subseteq BOOLEAN
          /\ timed' \subseteq {"Host", "Display"} /\ UNCHANGED Rest /\ UNCHANGED hostVars
      BY <1>4 DEF Touched, Shape, Rest, negVars
    <2> QED BY <1>1, <1>5, <2>1, ShapeOfServerStep
  <1> QED BY <1>4, <1>5, <1>6 DEF w

\* The display accepts a finished record: the backlog is closed as well.
LEMMA AnswersFinishedShape ==
  ASSUME Shape, UNCHANGED negVars, UNCHANGED <<hostVars, failed, expired>>,
         server.pc = "finish", conns[server.conn].toDisplay # <<>>, NEW r,
         timed' = timed \ {"Display"},
         ServeReturns("Authenticated",
             [conns EXCEPT ![server.conn].toDisplay = Unread(@),
                           ![server.conn].toHost = Append(@, r)])
  PROVE  LET c == conns[server.conn]
         IN  /\ Shape' /\ server'.pc = "Authenticated" /\ server'.conn = server.conn
             /\ server'.hn = server.hn
             /\ \A k \in 1 .. MaxAttempts :
                  /\ ~conns'[k].queued
                  /\ k # server.conn => /\ conns'[k].toDisplay = conns[k].toDisplay
                                        /\ conns'[k].toHost = conns[k].toHost
             /\ conns'[server.conn].toDisplay = Tail(c.toDisplay)
             /\ conns'[server.conn].toHost = Append(c.toHost, r)
  <1> DEFINE c == conns[server.conn]
             w == Append(c.toHost, r)
             cs == SetBothToo(conns, server.conn, Tail(c.toDisplay), w)
  <1>1. /\ ConnsShape(conns) /\ server.conn \in 1 .. MaxAttempts /\ server.conn <= attempts
        /\ Stream(c.toDisplay) /\ Stream(c.toHost) /\ Flag(c.queued) /\ server.conn # 0
        /\ ServerShape(server)
    BY SocketsExist DEF Shape
  <1>2. ServeReturns("Authenticated", cs)
    BY DEF SetBothToo, Unread
  <1>3. Stream(Tail(c.toDisplay)) /\ Stream(w)
    <2>1. Stream(Tail(c.toDisplay))
      BY <1>1, StreamReads
    <2> QED BY <1>1, <2>1, StreamGrows
  <1> HIDE DEF w
  <1>4. Touched(conns, cs, server.conn, c.queued, Tail(c.toDisplay), w,
                c.hostOpen, c.displayOpen)
    BY <1>1, <1>3, Touches
  <1> HIDE DEF cs
  <1>5. ConnsShape(cs)
    BY <1>4 DEF Touched
  <1>6. /\ Kept(cs, conns') /\ \A k \in 1 .. MaxAttempts : ~conns'[k].queued
        /\ ServerShape(server') /\ server'.pc = "Authenticated" /\ server'.conn = server.conn
        /\ server'.hn = server.hn /\ valid' = FALSE
    BY <1>1, <1>2, <1>5, ServeReturnsKeeps
  <1>7. Shape'
    <2>1. /\ ConnsShape(conns') /\ failed' \in Nat /\ {valid', expired'} \subseteq BOOLEAN
          /\ timed' \subseteq {"Host", "Display"} /\ UNCHANGED Rest /\ UNCHANGED hostVars
      BY <1>6 DEF Kept, Shape, Rest, negVars
    <2> QED BY <1>1, <1>6, <2>1, ShapeOfServerStep
  <1>8. ASSUME NEW k \in 1 .. MaxAttempts, k # server.conn
        PROVE  conns'[k].toDisplay = conns[k].toDisplay /\ conns'[k].toHost = conns[k].toHost
    BY <1>4, <1>6, <1>8 DEF Touched, Kept
  <1>9. conns'[server.conn].toDisplay = Tail(c.toDisplay) /\ conns'[server.conn].toHost = w
    BY <1>1, <1>4, <1>6 DEF Touched, Kept
  <1> QED BY <1>6, <1>7, <1>8, <1>9 DEF w

-----------------------------------------------------------------------------
(***************************************************************************)
(* A step of the host on a paired socket: it may read a frame, write one,  *)
(* or both; when it fails it closes its end, and the frame it choked on    *)
(* counts as read.                                                         *)
(***************************************************************************)
Talks ==
    LET n == host.conn
    IN  /\ Shape'
        /\ UNCHANGED <<attempts, server, token, timed, request, display, disp, dispSent, dispGot>>
        /\ host.pc \in {"paired", "session"} /\ host'.pc \in {"session", "over"}
        /\ host'.conn = n /\ host'.key = host.key
        /\ host'.right = host.right /\ host'.refused = host.refused
        /\ \A k \in 1 .. MaxAttempts : k # n => conns'[k] = conns[k]
        /\ conns'[n].queued = conns[n].queued
        /\ \/ hostGot' = hostGot /\ conns'[n].toHost = conns[n].toHost
           \/ /\ conns[n].toHost # <<>> /\ hostGot' = Append(hostGot, Head(conns[n].toHost))
              /\ \/ conns'[n].toHost = Tail(conns[n].toHost)
                 \/ host'.pc = "over"
        /\ \/ hostSent' = hostSent /\ conns'[n].toDisplay = conns[n].toDisplay
           \/ \E f : /\ hostSent' = Append(hostSent, f)
                     /\ conns'[n].toDisplay = Append(conns[n].toDisplay, f)
        /\ neg'.pc = "idle" => neg' = neg /\ hostGot' = hostGot /\ hostSent' = hostSent

\* The parts of Shape a step of the host may change.
LEMMA ShapeOfTalk ==
  ASSUME Shape, UNCHANGED wireVars, UNCHANGED <<server, disp, dispSent, dispGot>>,
         host.pc # "idle", HostShape(host'), host'.conn = host.conn,
         host'.pc \in {"session", "over"}, NegShape(neg'), ConnsShape(conns'),
         host'.pc = "session" <=> neg'.pc \in Talking,
         Stream(hostSent'), Stream(hostGot')
  PROVE  Shape'
  <1>1. /\ attempts' \in 0 .. MaxAttempts /\ attempts' # 0 /\ host'.conn = attempts'
        /\ token' \in Tokens /\ failed' \in Nat /\ timed' \subseteq {"Host", "Display"}
        /\ request' \in Requests /\ display' \in Displays
    BY DEF Shape, wireVars
  <1>2. {valid', expired', stopped'} \subseteq BOOLEAN
    BY DEF Shape, wireVars
  <1>3. /\ ServerShape(server') /\ server'.conn <= attempts' /\ DispShape(disp')
        /\ server'.pc \in {"hello", "finish", "Authenticated", "posted", "begun", "active", "Failed"}
              => server'.conn # 0
        /\ Stream(dispSent') /\ Stream(dispGot')
    BY DEF Shape, wireVars
  <1> QED BY <1>1, <1>2, <1>3 DEF Shape

\* The negotiation's record after it has failed.
LEMMA NegFails ==
  ASSUME NEW x, NEW y, NegShape(x), NEW p \in {"failed", "idle", "active"}, y = [x EXCEPT !.pc = p]
  PROVE  /\ NegShape(y) /\ y.pc = p /\ y.todo = x.todo /\ y.hello = x.hello /\ y.caps = x.caps
         /\ y.config = x.config /\ y.next = x.next /\ y.produced = x.produced
         /\ y.video = x.video /\ y.presented = x.presented
  BY DEF NegShape, NegPcs, Talking

\* Every error drops the transport.
LEMMA DropShape ==
  ASSUME Shape, Drop, host.pc = "session"
  PROVE  LET c == conns[host.conn]
         IN  /\ HostShape(host') /\ host'.pc = "over" /\ host'.conn = host.conn
             /\ host'.key = host.key /\ host'.right = host.right /\ host'.refused = host.refused
             /\ NegShape(neg') /\ neg'.pc = "failed"
             /\ Touched(conns, conns', host.conn, c.queued, c.toDisplay, c.toHost,
                        FALSE, c.displayOpen)
  <1> DEFINE c == conns[host.conn]
  <1>1. host.conn \in 1 .. MaxAttempts /\ Stream(c.toHost) /\ Flag(FALSE) /\ ConnsShape(conns)
    BY SocketsExist DEF Flag, Shape
  <1>2. conns' = SetHostOpen(conns, host.conn, FALSE)
    BY DEF Drop, SetHostOpen
  <1>3. Touched(conns, conns', host.conn, c.queued, c.toDisplay, c.toHost, FALSE, c.displayOpen)
    BY <1>1, <1>2, Touches
  <1>4. HostShape(host) /\ "over" \in HostPcs /\ host' = [host EXCEPT !.pc = "over"]
        /\ NegShape(neg) /\ neg' = [neg EXCEPT !.pc = "failed"]
    BY DEF Shape, Drop, HostPcs
  <1>5. /\ HostShape(host') /\ host'.pc = "over" /\ host'.conn = host.conn
        /\ host'.key = host.key /\ host'.right = host.right /\ host'.refused = host.refused
    BY <1>4, HostMoves
  <1>6. NegShape(neg') /\ neg'.pc = "failed"
    BY <1>4, NegFails
  <1> QED BY <1>3, <1>5, <1>6

\* A dropped transport is a step of the host.
LEMMA DropTalks ==
  ASSUME Shape, Drop, neg.pc \in Talking, UNCHANGED wireVars,
         UNCHANGED <<server, disp, hostSent, dispSent, dispGot>>,
         \/ hostGot' = hostGot
         \/ /\ conns[host.conn].toHost # <<>>
            /\ hostGot' = Append(hostGot, Head(conns[host.conn].toHost))
  PROVE  Talks
  <1>1. host.pc = "session" /\ Stream(hostGot) /\ Stream(hostSent)
    BY DEF Shape
  <1> DEFINE c == conns[host.conn]
  <1>2. /\ HostShape(host') /\ host'.pc = "over" /\ host'.conn = host.conn
        /\ host'.key = host.key /\ host'.right = host.right /\ host'.refused = host.refused
        /\ NegShape(neg') /\ neg'.pc = "failed"
        /\ Touched(conns, conns', host.conn, c.queued, c.toDisplay, c.toHost,
                   FALSE, c.displayOpen)
    BY <1>1, DropShape
  <1>3. ConnsShape(conns') /\ Stream(hostGot') /\ Stream(hostSent')
    BY <1>1, <1>2, StreamGrows DEF Touched
  <1>4. neg'.pc \notin Talking
    BY <1>2 DEF Talking
  <1>5. Shape'
    BY <1>1, <1>2, <1>3, <1>4, ShapeOfTalk
  <1>6. UNCHANGED <<attempts, server, token, timed, request, display, disp, dispSent, dispGot>>
    BY DEF wireVars
  <1> QED BY <1>1, <1>2, <1>5, <1>6 DEF Touched, Talks

\* The user starts a session on a paired socket.
LEMMA StartTalks ==
  ASSUME Shape, Start
  PROVE  /\ Talks /\ UNCHANGED <<hostSent, hostGot>> /\ neg'.pc = "send" /\ host'.pc = "session"
         /\ neg'.todo = <<Frame("Hello", 0, HostHello), Frame("Capabilities", 1, HostCapabilities)>>
         /\ neg'.hello = None /\ neg'.caps = None /\ neg'.config = None /\ neg'.next = 3
         /\ neg'.video = <<>> /\ neg'.produced = 0 /\ neg'.presented = 0
  <1>1. /\ HostShape(host) /\ "session" \in HostPcs /\ host' = [host EXCEPT !.pc = "session"]
        /\ host.pc = "paired" /\ neg.pc = "idle" /\ ConnsShape(conns) /\ conns' = conns
        /\ UNCHANGED wireVars /\ UNCHANGED <<server, disp, hostSent, hostGot, dispSent, dispGot>>
    BY DEF Shape, Start, HostPcs
  <1>2. /\ HostShape(host') /\ host'.pc = "session" /\ host'.conn = host.conn
        /\ host'.key = host.key /\ host'.right = host.right /\ host'.refused = host.refused
    BY <1>1, HostMoves
  <1> DEFINE w == <<Frame("Hello", 0, HostHello), Frame("Capabilities", 1, HostCapabilities)>>
  <1>3. Stream(w) /\ w # <<>>
    <2>1. ASSUME NEW a, NEW b PROVE Stream(<<a, b>>) /\ <<a, b>> # <<>>
      <3>1. <<a, b>> \in Seq({a, b})
        OBVIOUS
      <3> QED BY <3>1, StreamOf
    <2> QED BY <2>1
  <1>4. neg' = [NoHandshake EXCEPT !.pc = "send", !.todo = w]
    BY DEF Start
  <1> HIDE DEF w
  <1>5. /\ neg'.pc = "send" /\ neg'.todo = w
        /\ neg'.hello = None /\ neg'.caps = None /\ neg'.config = None /\ neg'.next = 3
        /\ neg'.video = <<>> /\ neg'.produced = 0 /\ neg'.presented = 0
    BY <1>4 DEF NoHandshake
  <1>6. NegShape(neg')
    BY <1>3, <1>4 DEF NoHandshake, NegShape, NegPcs, Talking
  <1>7. Shape'
    <2>1. neg'.pc \in Talking /\ Stream(hostSent') /\ Stream(hostGot')
      BY <1>1, <1>5 DEF Talking, Shape
    <2> QED BY <1>1, <1>2, <1>6, <2>1, ShapeOfTalk
  <1>8. Talks
    BY <1>1, <1>2, <1>5, <1>7 DEF Talks, wireVars
  <1> QED BY <1>1, <1>2, <1>5, <1>8 DEF w

\* The next packet of the negotiation goes out.
LEMMA HostSendsTalks ==
  ASSUME Shape, HostSends
  PROVE  LET f == Head(neg.todo)
         IN  /\ Talks /\ hostSent' = Append(hostSent, f) /\ hostGot' = hostGot
             /\ neg'.todo = Tail(neg.todo) /\ host' = host
             /\ neg'.pc = IF Len(neg.todo) > 1 THEN neg.pc
                          ELSE IF neg.pc = "send" THEN "wait" ELSE "prepare"
             /\ neg'.hello = neg.hello /\ neg'.caps = neg.caps /\ neg'.config = neg.config
             /\ neg'.next = neg.next /\ neg'.video = neg.video
             /\ neg'.produced = neg.produced /\ neg'.presented = neg.presented
  <1> DEFINE c == conns[host.conn]
             f == Head(neg.todo)
             w == Append(c.toDisplay, f)
             p == IF Len(neg.todo) > 1 THEN neg.pc ELSE IF neg.pc = "send" THEN "wait" ELSE "prepare"
  <1>1. /\ neg.pc \in {"send", "config"} /\ host.pc = "session" /\ ConnsShape(conns)
        /\ NegShape(neg) /\ Stream(hostSent) /\ Stream(hostGot) /\ HostShape(host)
    BY DEF Shape, HostSends, Talking
  <1>2. host.conn \in 1 .. MaxAttempts /\ Stream(c.toDisplay) /\ Stream(c.toHost) /\ Flag(FALSE)
    BY <1>1, SocketsExist DEF Flag
  <1>3. /\ conns' = SetToDisplay(conns, host.conn, w) /\ hostSent' = Append(hostSent, f)
        /\ neg' = [neg EXCEPT !.todo = Tail(neg.todo), !.pc = p]
        /\ UNCHANGED wireVars /\ UNCHANGED <<host, server, disp, hostGot, dispSent, dispGot>>
    BY DEF HostSends, SetToDisplay
  <1>4. Stream(w) /\ Stream(hostSent')
    BY <1>1, <1>2, <1>3, StreamGrows
  <1>5. Stream(neg.todo) /\ neg.todo # <<>> /\ Stream(Tail(neg.todo))
        /\ (Len(neg.todo) > 1 => Tail(neg.todo) # <<>>)
    <2>1. Stream(neg.todo) /\ neg.todo # <<>>
      BY <1>1 DEF NegShape
    <2> QED BY <2>1, StreamReads, StreamShrinks
  <1>6. p \in {"send", "config", "wait", "prepare"}
        /\ (p \in {"send", "config"} => Len(neg.todo) > 1)
    BY <1>1
  <1> HIDE DEF w, p, f
  <1>7. Touched(conns, conns', host.conn, c.queued, w, c.toHost, c.hostOpen, c.displayOpen)
    BY <1>1, <1>2, <1>3, <1>4, Touches
  <1>8. /\ neg'.todo = Tail(neg.todo) /\ neg'.pc = p
        /\ neg'.hello = neg.hello /\ neg'.caps = neg.caps /\ neg'.config = neg.config
        /\ neg'.next = neg.next /\ neg'.video = neg.video
        /\ neg'.produced = neg.produced /\ neg'.presented = neg.presented
    BY <1>1, <1>3 DEF NegShape
  <1>9. NegShape(neg')
    <2>1. p \in NegPcs
      BY <1>6 DEF NegPcs, Talking
    <2> QED BY <1>1, <1>3, <1>5, <1>6, <2>1 DEF NegShape
  <1>10. Shape'
    <2>1. neg'.pc \in Talking /\ Stream(hostGot') /\ ConnsShape(conns')
      BY <1>1, <1>3, <1>6, <1>7, <1>8 DEF Talking, Touched
    <2> QED BY <1>1, <1>3, <1>4, <1>9, <2>1, ShapeOfTalk
  <1>11. Talks
    <2>1. neg'.pc # "idle"
      BY <1>6, <1>8
    <2> QED BY <1>1, <1>3, <1>7, <1>10, <2>1 DEF Talks, wireVars, Touched, w
  <1> QED BY <1>3, <1>8, <1>11 DEF f, p

\* The wait for the negotiation, or the session, ends badly.
LEMMA FailuresTalk ==
  ASSUME Shape, NegotiationFails \/ SessionEnds \/ (StartStream /\ Drop)
  PROVE  Talks /\ UNCHANGED <<hostSent, hostGot>> /\ Drop
  <1>1. /\ Drop /\ neg.pc \in Talking /\ UNCHANGED wireVars
        /\ UNCHANGED <<server, disp, hostSent, hostGot, dispSent, dispGot>>
    BY DEF NegotiationFails, SessionEnds, StartStream, Talking
  <1> QED BY <1>1, DropTalks

\* The stream starts.
LEMMA StartStreamTalks ==
  ASSUME Shape, StartStream, ~Drop
  PROVE  /\ Talks /\ UNCHANGED <<host, hostSent, hostGot>> /\ neg.pc = "prepare" /\ neg'.pc = "active"
         /\ neg'.todo = neg.todo /\ neg'.hello = neg.hello /\ neg'.caps = neg.caps
         /\ neg'.config = neg.config /\ neg'.next = neg.next /\ neg'.produced = neg.produced
         /\ neg'.video = neg.video /\ neg'.presented = neg.presented
  <1>1. /\ neg.pc = "prepare" /\ neg' = [neg EXCEPT !.pc = "active"] /\ host' = host
        /\ conns' = conns /\ UNCHANGED wireVars
        /\ UNCHANGED <<server, disp, hostSent, hostGot, dispSent, dispGot>>
    BY DEF StartStream
  <1>2. /\ host.pc = "session" /\ ConnsShape(conns)
        /\ NegShape(neg) /\ Stream(hostSent) /\ Stream(hostGot) /\ HostShape(host)
    BY <1>1 DEF Shape, Talking
  <1>3. /\ NegShape(neg') /\ neg'.pc = "active" /\ neg'.todo = neg.todo
        /\ neg'.hello = neg.hello /\ neg'.caps = neg.caps
        /\ neg'.config = neg.config /\ neg'.next = neg.next /\ neg'.produced = neg.produced
        /\ neg'.video = neg.video /\ neg'.presented = neg.presented
    BY <1>1, <1>2, NegFails
  <1>4. Shape'
    <2>1. neg'.pc \in Talking
      BY <1>3 DEF Talking
    <2> QED BY <1>1, <1>2, <1>3, <2>1, ShapeOfTalk
  <1>5. Talks
    BY <1>1, <1>2, <1>3, <1>4 DEF Talks, wireVars
  <1> QED BY <1>1, <1>3, <1>5

\* A step that reads a frame and goes on.
LEMMA ReadTalks ==
  ASSUME Shape, host.pc = "session", conns[host.conn].toHost # <<>>,
         UNCHANGED wireVars, UNCHANGED <<host, server, disp, dispSent, dispGot>>,
         NegShape(neg'), neg'.pc \in Talking,
         hostGot' = Append(hostGot, Head(conns[host.conn].toHost)),
         \/ /\ conns' = SetToHost(conns, host.conn, Tail(conns[host.conn].toHost))
            /\ hostSent' = hostSent
         \/ \E f : /\ conns' = SetBoth(conns, host.conn, Append(conns[host.conn].toDisplay, f),
                                       Tail(conns[host.conn].toHost))
                   /\ hostSent' = Append(hostSent, f)
  PROVE  Talks
  <1> DEFINE c == conns[host.conn]
  <1>1. /\ host.conn \in 1 .. MaxAttempts /\ Stream(c.toHost) /\ Stream(c.toDisplay)
        /\ ConnsShape(conns) /\ Flag(FALSE) /\ Stream(hostSent) /\ Stream(hostGot)
        /\ HostShape(host)
    BY SocketsExist DEF Shape, Flag
  <1>2. Stream(Tail(c.toHost)) /\ Stream(hostGot')
    <2>1. c.toHost # <<>> /\ hostGot' = Append(hostGot, Head(c.toHost))
      OBVIOUS
    <2> HIDE DEF c
    <2>2. Stream(Tail(c.toHost))
      BY ONLY <1>1, <2>1, StreamReads, Zenon
    <2>3. Stream(hostGot')
      BY ONLY <1>1, <2>1, StreamGrows, Zenon
    <2> QED BY <2>2, <2>3
  <1>3. CASE conns' = SetToHost(conns, host.conn, Tail(c.toHost)) /\ hostSent' = hostSent
    <2>1. Touched(conns, conns', host.conn, c.queued, c.toDisplay, Tail(c.toHost),
                  c.hostOpen, c.displayOpen)
      BY <1>1, <1>2, <1>3, Touches
    <2>2. Shape'
      <3>1. ConnsShape(conns') /\ Stream(hostSent')
        BY <1>1, <1>3, <2>1 DEF Touched
      <3> QED BY <1>1, <1>2, <3>1, ShapeOfTalk
    <2>3. neg'.pc # "idle"
      BY DEF Talking
    <2> QED BY <1>3, <2>1, <2>2, <2>3 DEF Talks, Touched, wireVars
  <1>4. ASSUME NEW f,
               conns' = SetBoth(conns, host.conn, Append(c.toDisplay, f), Tail(c.toHost)),
               hostSent' = Append(hostSent, f)
        PROVE  Talks
    <2> DEFINE w == Append(c.toDisplay, f)
    <2>1. Stream(w) /\ Stream(hostSent')
      BY <1>1, <1>4, StreamGrows
    <2>2. conns' = SetBoth(conns, host.conn, w, Tail(c.toHost))
      BY <1>4
    <2> HIDE DEF w
    <2>3. Touched(conns, conns', host.conn, c.queued, w, Tail(c.toHost),
                  c.hostOpen, c.displayOpen)
      BY <1>1, <1>2, <2>1, <2>2, BothTouched
    <2>4. Shape'
      <3>1. ConnsShape(conns')
        BY <2>3 DEF Touched
      <3> QED BY <1>1, <1>2, <2>1, <3>1, ShapeOfTalk
    <2>5. neg'.pc # "idle"
      BY DEF Talking
    <2> QED BY <1>4, <2>3, <2>4, <2>5 DEF Talks, Touched, wireVars, w
  <1> QED BY <1>3, <1>4

\* What HostAccepts makes of a frame it accepts.
Accepted(f) ==
    /\ neg'.hello = IF f.type = "Hello" THEN f.body ELSE neg.hello
    /\ neg'.caps = IF f.type = "Capabilities" THEN f.body ELSE neg.caps
    /\ neg'.next = neg.next /\ neg'.video = neg.video
    /\ neg'.produced = neg.produced /\ neg'.presented = neg.presented
    /\ \/ neg'.pc = "wait" /\ neg'.config = neg.config
       \/ /\ neg'.pc = "config" /\ neg'.hello # None /\ neg'.caps # None
          /\ neg'.config \in SelectConfig(request, Agreed(HostCapabilities.limits, neg'.caps.limits))
          /\ neg'.todo = <<Frame("DisplayConfig", 2, neg'.config)>>

\* A frame arrives during the negotiation.
LEMMA HostAcceptsTalks ==
  ASSUME Shape, HostAccepts
  PROVE  LET f == Head(conns[host.conn].toHost)
         IN  /\ Talks /\ hostSent' = hostSent /\ neg.pc = "wait" /\ conns[host.conn].toHost # <<>>
             /\ hostGot' = Append(hostGot, f)
             /\ Drop \/ (host' = host /\ f.type \in {"Hello", "Capabilities"} /\ Accepted(f))
  <1> DEFINE n == host.conn
             f == Head(conns[n].toHost)
             hs == [neg EXCEPT !.highest = f.seq,
                        !.hello = IF f.type = "Hello" THEN f.body ELSE @,
                        !.caps = IF f.type = "Capabilities" THEN f.body ELSE @]
             agreed == Agreed(HostCapabilities.limits, hs.caps.limits)
  <1>1. /\ neg.pc = "wait" /\ conns[n].toHost # <<>> /\ hostGot' = Append(hostGot, f)
        /\ UNCHANGED wireVars /\ UNCHANGED <<server, disp, hostSent, dispSent, dispGot>>
    BY DEF HostAccepts
  <1>2. /\ NegShape(neg) /\ host.pc = "session" /\ neg.pc \in Talking
    BY <1>1 DEF Shape, Talking
  <1>3. CASE Drop
    <2>1. Talks
      BY <1>1, <1>2, <1>3, DropTalks
    <2> QED BY <1>1, <1>3, <2>1
  <1>4. CASE ~Drop
    <2>1. /\ f.type \in {"Hello", "Capabilities"} /\ host' = host
          /\ conns' = SetToHost(conns, n, Tail(conns[n].toHost))
          /\ \/ neg' = hs
             \/ /\ Establishes(hs)
                /\ \E c \in SelectConfig(request, agreed) :
                     neg' = [hs EXCEPT !.pc = "config", !.config = c,
                                !.todo = <<Frame("DisplayConfig", 2, c)>>]
      BY <1>4 DEF HostAccepts, SetToHost
    <2>2. /\ hs \in [pc : {"wait"}, todo : {neg.todo}, hello : {hs.hello}, caps : {hs.caps},
                     highest : {hs.highest}, config : {neg.config}, next : {neg.next},
                     produced : {neg.produced}, video : {neg.video}, presented : {neg.presented}]
          /\ hs.hello = IF f.type = "Hello" THEN f.body ELSE neg.hello
          /\ hs.caps = IF f.type = "Capabilities" THEN f.body ELSE neg.caps
      <3> HIDE DEF f
      <3> QED BY <1>1, <1>2 DEF NegShape
    <2> HIDE DEF hs, f
    <2>3. NegShape(neg') /\ neg'.pc \in Talking /\ Accepted(f)
      <3>1. CASE neg' = hs
        <4>1. NegShape(neg')
          BY <1>2, <2>2, <3>1 DEF NegShape, NegPcs, Talking
        <4> QED BY <2>2, <3>1, <4>1 DEF Accepted, Talking
      <3>2. ASSUME Establishes(hs), NEW c \in SelectConfig(request, agreed),
                   neg' = [hs EXCEPT !.pc = "config", !.config = c,
                              !.todo = <<Frame("DisplayConfig", 2, c)>>]
            PROVE  NegShape(neg') /\ neg'.pc \in Talking /\ Accepted(f)
        <4> DEFINE w == <<Frame("DisplayConfig", 2, c)>>
        <4>1. Stream(w) /\ w # <<>>
          BY EmptyStream, StreamWrites
        <4> HIDE DEF w
        <4>2. neg' = [hs EXCEPT !.pc = "config", !.config = c, !.todo = w]
          BY <3>2 DEF w
        <4>3. neg' \in [pc : {"config"}, todo : {w}, hello : {hs.hello}, caps : {hs.caps},
                        highest : {hs.highest}, config : {c}, next : {neg.next},
                        produced : {neg.produced}, video : {neg.video},
                        presented : {neg.presented}]
          BY <2>2, <4>2
        <4>4. NegShape(neg') /\ neg'.pc \in Talking
          BY <4>1, <4>3 DEF NegShape, NegPcs, Talking
        <4>5. Accepted(f)
          BY <2>2, <3>2, <4>3 DEF Accepted, Establishes, w
        <4> QED BY <4>4, <4>5
      <3> QED BY ONLY <2>1, <3>1, <3>2, Zenon
    <2>4. Talks
      BY <1>1, <1>2, <2>1, <2>3, ReadTalks, Zenon DEF f, n
    <2> QED BY ONLY <1>1, <1>4, <2>1, <2>3, <2>4, Zenon DEF f, n
  <1> QED BY <1>3, <1>4

\* An access unit goes out.
LEMMA HostStreamsTalks ==
  ASSUME Shape, HostStreams
  PROVE  LET f == Frame("VideoFrame", neg.next, neg.config)
         IN  /\ Talks /\ hostSent' = Append(hostSent, f) /\ hostGot' = hostGot /\ host' = host
             /\ neg.pc = "active" /\ neg'.pc = "active" /\ neg'.next = neg.next + 1
             /\ neg'.produced = neg.produced + 1
             /\ neg'.video = Remembered(Append(neg.video, <<neg.next, neg.produced + 1>>))
             /\ neg'.todo = neg.todo /\ neg'.hello = neg.hello /\ neg'.caps = neg.caps
             /\ neg'.config = neg.config /\ neg'.presented = neg.presented
  <1> DEFINE c == conns[host.conn]
             f == Frame("VideoFrame", neg.next, neg.config)
             w == Append(c.toDisplay, f)
             v == Remembered(Append(neg.video, <<f.seq, neg.produced + 1>>))
  <1>1. /\ neg.pc = "active" /\ host.pc = "session" /\ ConnsShape(conns)
        /\ NegShape(neg) /\ Stream(hostSent) /\ Stream(hostGot) /\ HostShape(host)
    BY DEF Shape, HostStreams, Talking
  <1>2. host.conn \in 1 .. MaxAttempts /\ Stream(c.toDisplay) /\ Stream(c.toHost) /\ Flag(FALSE)
    BY <1>1, SocketsExist DEF Flag
  <1>3. /\ conns' = SetToDisplay(conns, host.conn, w) /\ hostSent' = Append(hostSent, f)
        /\ neg' = [neg EXCEPT !.next = neg.next + 1, !.produced = neg.produced + 1, !.video = v]
        /\ UNCHANGED wireVars /\ UNCHANGED <<host, server, disp, hostGot, dispSent, dispGot>>
    BY DEF HostStreams, SetToDisplay, Out
  <1>4. Stream(w) /\ Stream(hostSent')
    BY <1>1, <1>2, <1>3, StreamGrows
  <1>5. f.seq = neg.next
    BY DEF Frame
  <1> HIDE DEF w, f, v
  <1>6. Touched(conns, conns', host.conn, c.queued, w, c.toHost, c.hostOpen, c.displayOpen)
    BY <1>1, <1>2, <1>3, <1>4, Touches
  <1>7. /\ neg'.pc = "active" /\ neg'.next = neg.next + 1 /\ neg'.produced = neg.produced + 1
        /\ neg'.video = v /\ neg'.todo = neg.todo /\ neg'.hello = neg.hello
        /\ neg'.caps = neg.caps /\ neg'.config = neg.config /\ neg'.presented = neg.presented
        /\ NegShape(neg')
    BY <1>1, <1>3 DEF NegShape
  <1>8. Shape'
    <2>1. neg'.pc \in Talking /\ Stream(hostGot') /\ ConnsShape(conns')
      BY <1>1, <1>3, <1>6, <1>7 DEF Talking, Touched
    <2> QED BY <1>1, <1>3, <1>4, <1>7, <2>1, ShapeOfTalk
  <1>9. Talks
    BY <1>1, <1>3, <1>6, <1>7, <1>8 DEF Talks, wireVars, Touched, w
  <1>10. neg'.video = Remembered(Append(neg.video, <<neg.next, neg.produced + 1>>))
    BY <1>5, <1>7 DEF v
  <1> QED BY <1>1, <1>3, <1>7, <1>9, <1>10 DEF f

\* What the host makes of a report: the ordinal of the frame it names, less
\* what was dropped.
Presents(b) ==
    \/ neg'.presented = neg.presented
    \/ \E i \in DOMAIN neg.video :
          /\ neg.video[i][1] = b.frame
          /\ neg'.presented = IF neg.video[i][2] > b.dropped THEN neg.video[i][2] - b.dropped ELSE 0

\* A frame arrives during the session.
LEMMA HostHearsTalks ==
  ASSUME Shape, HostHears
  PROVE  LET f == Head(conns[host.conn].toHost)
             pong == Frame("Pong", neg.next, None)
         IN  /\ Talks /\ neg.pc = "active" /\ conns[host.conn].toHost # <<>>
             /\ hostGot' = Append(hostGot, f)
             /\ \/ Drop /\ hostSent' = hostSent
                \/ /\ host' = host /\ neg'.pc = "active"
                   /\ neg'.todo = neg.todo /\ neg'.hello = neg.hello /\ neg'.caps = neg.caps
                   /\ neg'.config = neg.config /\ neg'.produced = neg.produced
                   /\ neg'.video = neg.video
                   /\ \/ /\ hostSent' = Append(hostSent, pong) /\ neg'.next = neg.next + 1
                         /\ neg'.presented = neg.presented
                      \/ /\ hostSent' = hostSent /\ neg'.next = neg.next
                         /\ f.type = "Telemetry" /\ Presents(f.body)
  <1> DEFINE n == host.conn
             f == Head(conns[n].toHost)
             heard == [neg EXCEPT !.highest = f.seq]
             pong == Frame("Pong", neg.next, None)
  <1>1. /\ neg.pc = "active" /\ conns[n].toHost # <<>> /\ hostGot' = Append(hostGot, f)
        /\ UNCHANGED wireVars /\ UNCHANGED <<server, disp, dispSent, dispGot>>
    BY DEF HostHears
  <1>2. NegShape(neg) /\ host.pc = "session" /\ neg.pc \in Talking
    BY <1>1 DEF Shape, Talking
  <1>3. /\ heard \in [pc : {"active"}, todo : {neg.todo}, hello : {neg.hello}, caps : {neg.caps},
                      highest : {f.seq}, config : {neg.config}, next : {neg.next},
                      produced : {neg.produced}, video : {neg.video},
                      presented : {neg.presented}]
    <2> HIDE DEF f
    <2> QED BY <1>1, <1>2 DEF NegShape
  <1>4. ASSUME Drop, hostSent' = hostSent
        PROVE  Talks
    BY <1>1, <1>2, <1>4, DropTalks
  <1>5. ASSUME /\ hostSent' = Append(hostSent, pong) /\ neg' = [heard EXCEPT !.next = neg.next + 1]
               /\ conns' = SetBoth(conns, n, Append(conns[n].toDisplay, pong), Tail(conns[n].toHost))
               /\ host' = host
        PROVE  /\ Talks /\ host' = host /\ neg'.pc = "active"
               /\ neg'.todo = neg.todo /\ neg'.hello = neg.hello /\ neg'.caps = neg.caps
               /\ neg'.config = neg.config /\ neg'.produced = neg.produced
               /\ neg'.video = neg.video /\ hostSent' = Append(hostSent, pong)
               /\ neg'.next = neg.next + 1 /\ neg'.presented = neg.presented
    <2> HIDE DEF heard, f, pong
    <2>1. neg' \in [pc : {"active"}, todo : {neg.todo}, hello : {neg.hello}, caps : {neg.caps},
                    highest : {f.seq}, config : {neg.config}, next : {neg.next + 1},
                    produced : {neg.produced}, video : {neg.video},
                    presented : {neg.presented}]
      BY <1>3, <1>5
    <2>2. NegShape(neg') /\ neg'.pc \in Talking
      BY <1>2, <2>1 DEF NegShape, NegPcs, Talking
    <2>3. Talks
      BY <1>1, <1>2, <1>5, <2>2, ReadTalks DEF f
    <2> QED BY <1>5, <2>1, <2>3
  <1>6. ASSUME /\ f.type = "Telemetry" /\ neg' = Telemetry(heard, f.body)
               /\ conns' = SetToHost(conns, n, Tail(conns[n].toHost))
               /\ host' = host /\ hostSent' = hostSent
        PROVE  /\ Talks /\ host' = host /\ neg'.pc = "active"
               /\ neg'.todo = neg.todo /\ neg'.hello = neg.hello /\ neg'.caps = neg.caps
               /\ neg'.config = neg.config /\ neg'.produced = neg.produced
               /\ neg'.video = neg.video /\ hostSent' = hostSent
               /\ neg'.next = neg.next /\ Presents(f.body)
    <2> DEFINE b == f.body
               ordinals == {p[2] : p \in {q \in ToSet(heard.video) : q[1] = b.frame}}
               v == IF ordinals = {} THEN heard.presented
                    ELSE LET k == CHOOSE k \in ordinals : TRUE
                         IN  IF k > b.dropped THEN k - b.dropped ELSE 0
    <2>1. neg' = [heard EXCEPT !.presented = v]
      BY <1>6, Zenon DEF Telemetry
    <2>2. heard.video = neg.video /\ heard.presented = neg.presented
      <3> HIDE DEF heard, f
      <3> QED BY <1>3
    <2>3. v = neg.presented \/ \E i \in DOMAIN neg.video :
                /\ neg.video[i][1] = b.frame
                /\ v = IF neg.video[i][2] > b.dropped THEN neg.video[i][2] - b.dropped ELSE 0
      <3> HIDE DEF heard, f, b
      <3>1. CASE ordinals = {}
        BY <2>2, <3>1
      <3>2. CASE ordinals # {}
        <4> DEFINE k == CHOOSE k \in ordinals : TRUE
        <4>1. k \in ordinals
          <5> HIDE DEF ordinals
          <5> QED BY <3>2
        <4>2. v = IF k > b.dropped THEN k - b.dropped ELSE 0
          BY <3>2, Zenon
        <4> HIDE DEF k, v
        <4>3. PICK q \in ToSet(neg.video) : q[1] = b.frame /\ k = q[2]
          BY <2>2, <4>1
        <4>4. PICK i \in DOMAIN neg.video : q = neg.video[i]
          BY <4>3 DEF ToSet
        <4> QED BY <4>2, <4>3, <4>4
      <3> QED BY <3>1, <3>2
    <2> HIDE DEF heard, f, b, v
    <2>4. neg' \in [pc : {"active"}, todo : {neg.todo}, hello : {neg.hello}, caps : {neg.caps},
                    highest : {f.seq}, config : {neg.config}, next : {neg.next},
                    produced : {neg.produced}, video : {neg.video}, presented : {v}]
      BY <1>3, <2>1
    <2>5. NegShape(neg') /\ neg'.pc \in Talking
      BY <1>2, <2>4 DEF NegShape, NegPcs, Talking
    <2>6. Talks
      BY <1>1, <1>2, <1>6, <2>5, ReadTalks DEF f
    <2>7. Presents(f.body)
      BY <2>3, <2>4 DEF Presents, b
    <2> QED BY <1>6, <2>4, <2>6, <2>7
  <1>7. \/ Drop /\ hostSent' = hostSent
        \/ /\ hostSent' = Append(hostSent, pong) /\ neg' = [heard EXCEPT !.next = neg.next + 1]
           /\ conns' = SetBoth(conns, n, Append(conns[n].toDisplay, pong), Tail(conns[n].toHost))
           /\ host' = host
        \/ /\ f.type = "Telemetry" /\ neg' = Telemetry(heard, f.body)
           /\ conns' = SetToHost(conns, n, Tail(conns[n].toHost))
           /\ host' = host /\ hostSent' = hostSent
    BY <1>3 DEF HostHears, Out, SetBoth, SetToHost
  <1> HIDE DEF f, heard, pong
  <1> QED BY <1>1, <1>4, <1>5, <1>6, <1>7 DEF f, pong

\* The cable is pulled.
LEMMA UnplugTalks ==
  ASSUME Shape, Unplug
  PROVE  /\ Talks /\ UNCHANGED <<hostSent, hostGot>> /\ NegShape(neg) /\ host'.pc = "over"
         /\ neg'.pc \in {"idle", "failed"}
         /\ neg'.hello = neg.hello /\ neg'.caps = neg.caps
         /\ neg'.config = neg.config /\ neg'.next = neg.next /\ neg'.produced = neg.produced
         /\ neg'.video = neg.video /\ neg'.presented = neg.presented
         /\ neg'.pc = "idle" => neg.pc = "idle"
  <1> DEFINE c == conns[host.conn]
             p == IF neg.pc = "idle" THEN neg.pc ELSE "failed"
  <1>1. /\ host.pc \in {"paired", "session"} /\ UNCHANGED wireVars
        /\ UNCHANGED <<server, disp, hostSent, hostGot, dispSent, dispGot>>
        /\ host' = [host EXCEPT !.pc = "over"] /\ neg' = [neg EXCEPT !.pc = p]
        /\ conns' = SetHostOpen(conns, host.conn, FALSE)
    BY DEF Unplug, SetHostOpen
  <1>2. /\ HostShape(host) /\ NegShape(neg) /\ "over" \in HostPcs /\ ConnsShape(conns)
        /\ Stream(hostSent) /\ Stream(hostGot)
        /\ host.conn \in 1 .. MaxAttempts /\ Stream(c.toHost) /\ Flag(FALSE)
    BY <1>1, SocketsExist DEF Flag, Shape, HostPcs
  <1>3. Touched(conns, conns', host.conn, c.queued, c.toDisplay, c.toHost, FALSE, c.displayOpen)
    BY <1>1, <1>2, Touches
  <1>4. /\ HostShape(host') /\ host'.pc = "over" /\ host'.conn = host.conn
        /\ host'.key = host.key /\ host'.right = host.right /\ host'.refused = host.refused
    BY <1>1, <1>2, HostMoves
  <1>5. p \in {"failed", "idle", "active"} /\ p \in {"idle", "failed"} /\ (p = "idle" => neg.pc = p)
    OBVIOUS
  <1> HIDE DEF p
  <1>6. /\ NegShape(neg') /\ neg'.pc = p /\ neg'.hello = neg.hello /\ neg'.caps = neg.caps
        /\ neg'.config = neg.config /\ neg'.next = neg.next /\ neg'.produced = neg.produced
        /\ neg'.video = neg.video /\ neg'.presented = neg.presented
    BY <1>1, <1>2, <1>5, NegFails
  <1>7. neg'.pc = "idle" => neg' = neg
    BY <1>1, <1>2, <1>5, <1>6 DEF NegShape
  <1>8. Shape'
    <2>1. neg'.pc \notin Talking /\ ConnsShape(conns')
      BY <1>3, <1>5, <1>6 DEF Talking, Touched
    <2> QED BY <1>1, <1>2, <1>4, <1>6, <2>1, ShapeOfTalk
  <1>9. Talks
    BY <1>1, <1>3, <1>4, <1>7, <1>8 DEF Talks, Touched, wireVars
  <1> QED BY <1>1, <1>2, <1>4, <1>5, <1>6, <1>9

-----------------------------------------------------------------------------
(***************************************************************************)
(* The steps of the display's session.                                     *)
(***************************************************************************)
\* The parts of Shape such a step may change.
LEMMA ShapeOfDisplay ==
  ASSUME Shape, UNCHANGED <<attempts, host, token, failed, expired, timed>>,
         UNCHANGED <<request, display, neg, hostSent, hostGot>>,
         {valid', stopped'} \subseteq BOOLEAN, ConnsShape(conns'),
         ServerShape(server'), server'.conn = server.conn, server.conn # 0 \/ server'.pc = server.pc,
         DispShape(disp'), Stream(dispSent'), Stream(dispGot')
  PROVE  Shape'
  <1>1. /\ attempts' \in 0 .. MaxAttempts /\ HostShape(host') /\ host'.conn = attempts'
        /\ host'.pc # "idle" => attempts' # 0
        /\ token' \in Tokens /\ failed' \in Nat /\ timed' \subseteq {"Host", "Display"}
        /\ request' \in Requests /\ display' \in Displays
    BY DEF Shape
  <1>2. {valid', expired', stopped'} \subseteq BOOLEAN
    BY DEF Shape
  <1>3. /\ server'.conn <= attempts' /\ NegShape(neg')
        /\ server'.pc \in {"hello", "finish", "Authenticated", "posted", "begun", "active", "Failed"}
              => server'.conn # 0
        /\ Stream(hostSent') /\ Stream(hostGot')
    BY DEF Shape
  <1>4. /\ host'.pc = "session" <=> neg'.pc \in Talking
        /\ host'.pc \in {"idle", "hello", "finished", "paired"} => neg'.pc = "idle"
    BY DEF Shape
  <1> QED BY <1>1, <1>2, <1>3, <1>4 DEF Shape

\* The session's record after it is switched off.
LEMMA DispOff ==
  ASSUME NEW d, NEW e, DispShape(d), NEW b, e = [d EXCEPT !.on = b]
  PROVE  /\ DispShape(e) /\ e.hello = d.hello /\ e.caps = d.caps /\ e.negotiated = d.negotiated
         /\ e.failed = d.failed /\ e.config = d.config /\ e.highest = d.highest
         /\ e.refused = d.refused /\ e.pics = d.pics
  BY DEF DispShape

\* StopDisplay.
LEMMA StopDisplayQuiet ==
  ASSUME Shape, StopDisplay
  PROVE  Quiet
  <1> DEFINE C == (IF server.pc \in {"hello", "finish", "begun", "active"} THEN {server.conn} ELSE {})
                     \cup Backlog
  <1>1. conns' = [k \in DOMAIN conns |-> IF k \in C THEN Shut(conns[k]) ELSE conns[k]]
    BY Zenon DEF StopDisplay, Shut
  <1>2. /\ UNCHANGED <<attempts, host, token, failed, expired, timed>>
        /\ UNCHANGED <<request, display, neg, hostSent, hostGot, dispSent, dispGot>>
        /\ disp' = [disp EXCEPT !.on = FALSE] /\ {valid', stopped'} \subseteq BOOLEAN
    <2>1. stopped' = TRUE /\ valid' = FALSE /\ disp' = [disp EXCEPT !.on = FALSE]
      BY Zenon DEF StopDisplay
    <2>2. UNCHANGED <<attempts, host, token, failed, expired, timed>>
      BY Zenon DEF StopDisplay
    <2>3. UNCHANGED <<request, display, neg, hostSent, hostGot, dispSent, dispGot>>
      BY Zenon DEF StopDisplay
    <2> QED BY <2>1, <2>2, <2>3
  <1>3. /\ ConnsShape(conns) /\ ServerShape(server) /\ DispShape(disp)
        /\ Stream(dispSent) /\ Stream(dispGot)
    BY DEF Shape
  <1> HIDE DEF C
  <1>4. Kept(conns, conns')
    BY <1>1, <1>3, SocketsClosed
  <1>5. /\ ServerShape(server') /\ server'.conn = server.conn /\ server'.hn = server.hn
        /\ \/ server'.pc = server.pc
           \/ server.pc \in {"begun", "active"} /\ server'.pc = "Closed"
    <2>1. CASE server.pc \in {"begun", "active"}
      <3>1. server' = [server EXCEPT !.pc = "Closed"]
        BY <2>1, Zenon DEF StopDisplay
      <3>2. "Closed" \in ServerPcs
        BY DEF ServerPcs
      <3> QED BY <1>3, <2>1, <3>1, <3>2, ServerMoves
    <2>2. CASE server.pc \notin {"begun", "active"}
      <3>1. server' = server
        BY <2>2, Zenon DEF StopDisplay
      <3> QED BY <1>3, <3>1
    <2> QED BY <2>1, <2>2
  <1>6. Shape'
    <2>1. ConnsShape(conns') /\ DispShape(disp') /\ Stream(dispSent') /\ Stream(dispGot')
      BY <1>2, <1>3, <1>4, DispOff DEF Kept
    <2>2. server.conn # 0 \/ server'.pc = server.pc
      BY <1>5 DEF Shape
    <2> QED BY <1>2, <1>5, <2>1, <2>2, ShapeOfDisplay
  <1>7. SessionKept
    BY <1>2, Zenon DEF SessionKept
  <1> QED BY <1>2, <1>4, <1>5, <1>6, <1>7 DEF Quiet, Serving

\* DisplayReadEnds.
LEMMA DisplayReadEndsQuiet ==
  ASSUME Shape, DisplayReadEnds
  PROVE  Quiet
  <1>1. /\ server.pc = "active" /\ server' = [server EXCEPT !.pc = "Failed"]
        /\ disp' = [disp EXCEPT !.on = FALSE]
        /\ conns' = SetDisplayOpen(conns, server.conn, FALSE)
        /\ UNCHANGED wireVars /\ UNCHANGED <<host, neg, hostSent, hostGot, dispSent, dispGot>>
    BY DEF DisplayReadEnds, Closing, SetDisplayOpen
  <1>2. /\ ConnsShape(conns) /\ ServerShape(server) /\ DispShape(disp) /\ "Failed" \in ServerPcs
        /\ Stream(dispSent) /\ Stream(dispGot) /\ server.conn \in 1 .. MaxAttempts
        /\ server.conn # 0 /\ {valid, stopped} \subseteq BOOLEAN
    BY <1>1, SocketsExist DEF Shape, ServerPcs
  <1>3. Kept(conns, conns') /\ ConnsShape(conns')
    BY <1>1, <1>2, KeptSame DEF Kept
  <1>4. /\ ServerShape(server') /\ server'.conn = server.conn /\ server'.hn = server.hn
        /\ server'.pc = "Failed"
    BY <1>1, <1>2, ServerMoves
  <1>5. DispShape(disp')
    BY <1>1, <1>2, DispOff
  <1>6. /\ UNCHANGED <<attempts, host, token, failed, expired, timed>>
        /\ UNCHANGED <<request, display, neg, hostSent, hostGot, dispSent, dispGot>>
        /\ {valid', stopped'} \subseteq BOOLEAN
    BY <1>1, <1>2 DEF wireVars
  <1>7. Shape'
    BY <1>2, <1>3, <1>4, <1>5, <1>6, ShapeOfDisplay
  <1>8. SessionKept
    BY <1>1, Zenon DEF SessionKept
  <1> QED BY <1>1, <1>3, <1>4, <1>6, <1>7, <1>8 DEF Quiet, Serving

\* beginHandshake.
LEMMA BeginHandshakeQuiet ==
  ASSUME Shape, Streams, BeginHandshake
  PROVE  Quiet
  <1>1. /\ server.pc = "posted" /\ server' = [server EXCEPT !.pc = "begun"]
        /\ disp' = [NoSession EXCEPT !.on = TRUE] /\ conns' = conns
        /\ UNCHANGED wireVars /\ UNCHANGED <<host, neg, hostSent, hostGot, dispSent, dispGot>>
    BY Zenon DEF BeginHandshake
  <1>2. /\ ConnsShape(conns) /\ ServerShape(server) /\ DispShape(disp) /\ "begun" \in ServerPcs
        /\ Stream(dispSent) /\ Stream(dispGot)
        /\ server.conn # 0 /\ {valid, stopped} \subseteq BOOLEAN
    BY <1>1 DEF Shape, ServerPcs
  <1>3. disp' = [disp EXCEPT !.on = TRUE]
    <2> DEFINE Same(x, y) == x = y
    <2>1. Fresh(disp)
      BY <1>1 DEF Streams
    <2>2. ASSUME NEW d, NEW e, DispShape(d), DispShape(e), d.hello = e.hello, d.caps = e.caps,
                 d.negotiated = e.negotiated, d.failed = e.failed, d.config = e.config,
                 d.highest = e.highest, d.refused = e.refused, d.pics = e.pics, NEW b
          PROVE  Same([d EXCEPT !.on = b], [e EXCEPT !.on = b])
      BY <2>2 DEF DispShape, Same
    <2> DEFINE Blank(e, no, none, p) ==
                 /\ DispShape(e) /\ e.hello = none /\ e.caps = none /\ e.negotiated = no
                 /\ e.failed = no /\ e.config = none /\ e.highest = -1 /\ e.refused = "none"
                 /\ e.pics = p
    <2>3. ASSUME NEW no, NEW none, NEW p
          PROVE  Blank([on |-> no, hello |-> none, caps |-> none, negotiated |-> no,
                        failed |-> no, config |-> none, highest |-> -1, refused |-> "none",
                        pics |-> p], no, none, p)
      BY DEF DispShape
    <2>4. DispShape(NoSession) /\ Fresh(NoSession)
      <3> HIDE DEF Blank
      <3>1. Blank(NoSession, FALSE, None, NoPictures)
        BY ONLY <2>3, Zenon DEF NoSession
      <3> QED BY ONLY <3>1, Zenon DEF Blank, Fresh
    <2>5. disp.negotiated = NoSession.negotiated /\ disp.failed = NoSession.failed
      BY <2>1, <2>4, Zenon DEF Fresh
    <2>6. /\ disp.hello = NoSession.hello /\ disp.caps = NoSession.caps
          /\ disp.config = NoSession.config /\ disp.highest = NoSession.highest
          /\ disp.refused = NoSession.refused /\ disp.pics = NoSession.pics
      BY ONLY <2>1, <2>4, Zenon DEF Fresh
    <2>7. [disp EXCEPT !.on = TRUE] = [NoSession EXCEPT !.on = TRUE]
      <3> HIDE DEF Same
      <3>1. Same([disp EXCEPT !.on = TRUE], [NoSession EXCEPT !.on = TRUE])
        BY ONLY <1>2, <2>2, <2>4, <2>5, <2>6, Zenon
      <3> QED BY <3>1, Zenon DEF Same
    <2> QED BY <1>1, <2>7, Zenon
  <1>4. /\ ServerShape(server') /\ server'.conn = server.conn /\ server'.hn = server.hn
        /\ server'.pc = "begun"
    BY <1>1, <1>2, ServerMoves
  <1>5. DispShape(disp') /\ ConnsShape(conns') /\ Kept(conns, conns')
    BY <1>1, <1>2, <1>3, DispOff, KeptSame
  <1>6. /\ UNCHANGED <<attempts, host, token, failed, expired, timed>>
        /\ UNCHANGED <<request, display, neg, hostSent, hostGot, dispSent, dispGot>>
        /\ {valid', stopped'} \subseteq BOOLEAN
    BY <1>1, <1>2 DEF wireVars
  <1>7. Shape'
    BY <1>2, <1>4, <1>5, <1>6, ShapeOfDisplay
  <1>8. SessionKept
    BY <1>3, Zenon DEF SessionKept
  <1> QED BY <1>1, <1>4, <1>5, <1>6, <1>7, <1>8 DEF Quiet, Serving

\* handleDecoderState: what it may change of the session.
LEMMA DecoderMoves ==
  ASSUME DispShape(disp), DecoderChanges
  PROVE  /\ server.pc = "active" /\ server' = server /\ DispShape(disp')
         /\ disp'.hello = disp.hello /\ disp'.caps = disp.caps
         /\ disp'.negotiated = disp.negotiated /\ disp'.config = disp.config
         /\ disp'.highest = disp.highest /\ disp'.refused = disp.refused
         /\ disp'.failed \in {disp.failed, TRUE}
         /\ disp'.pics \in Drained(disp.pics) \cup {[disp.pics EXCEPT !.ready = FALSE]}
  <1>1. /\ server.pc = "active" /\ server' = server
        /\ \/ \E p \in Drained(disp.pics) : disp' = [disp EXCEPT !.pics = p]
           \/ \E b \in {disp.failed, TRUE} :
                 disp' = [disp EXCEPT !.failed = b, !.pics = [@ EXCEPT !.ready = FALSE]]
    BY Zenon DEF DecoderChanges
  <1>2. ASSUME NEW b, NEW p,
               \/ disp' = [disp EXCEPT !.failed = b, !.pics = p]
               \/ disp' = [disp EXCEPT !.pics = p] /\ b = disp.failed
        PROVE  /\ DispShape(disp') /\ disp'.failed = b /\ disp'.pics = p
               /\ disp'.hello = disp.hello /\ disp'.caps = disp.caps
               /\ disp'.negotiated = disp.negotiated /\ disp'.config = disp.config
               /\ disp'.highest = disp.highest /\ disp'.refused = disp.refused
    BY <1>2 DEF DispShape
  <1>3. CASE \E p \in Drained(disp.pics) : disp' = [disp EXCEPT !.pics = p]
    <2>1. PICK p \in Drained(disp.pics) : disp' = [disp EXCEPT !.pics = p]
      BY <1>3
    <2>2. disp'.failed = disp.failed /\ disp'.pics = p
      BY <1>2, <2>1, Zenon
    <2>3. disp'.failed \in {disp.failed, TRUE}
          /\ disp'.pics \in Drained(disp.pics) \cup {[disp.pics EXCEPT !.ready = FALSE]}
      BY <2>1, <2>2, Zenon
    <2> QED BY <1>1, <1>2, <2>1, <2>3, Zenon
  <1>4. CASE \E b \in {disp.failed, TRUE} :
               disp' = [disp EXCEPT !.failed = b, !.pics = [@ EXCEPT !.ready = FALSE]]
    <2>1. PICK b \in {disp.failed, TRUE} :
            disp' = [disp EXCEPT !.failed = b, !.pics = [disp.pics EXCEPT !.ready = FALSE]]
      BY <1>4, Zenon
    <2>2. disp'.failed = b /\ disp'.pics = [disp.pics EXCEPT !.ready = FALSE]
      BY <1>2, <2>1, Zenon
    <2>3. disp'.failed \in {disp.failed, TRUE}
          /\ disp'.pics \in Drained(disp.pics) \cup {[disp.pics EXCEPT !.ready = FALSE]}
      BY <2>1, <2>2, Zenon
    <2> QED BY <1>1, <1>2, <2>1, <2>3, Zenon
  <1> QED BY <1>1, <1>3, <1>4

\* handleDecoderState.
LEMMA DecoderChangesQuiet ==
  ASSUME Shape, DecoderChanges
  PROVE  Quiet
  <1>1. /\ ConnsShape(conns) /\ ServerShape(server) /\ DispShape(disp)
        /\ Stream(dispSent) /\ Stream(dispGot) /\ {valid, stopped} \subseteq BOOLEAN
    BY DEF Shape
  <1>2. /\ UNCHANGED wireVars
        /\ UNCHANGED <<conns, host, server, neg, hostSent, hostGot, dispSent, dispGot>>
    BY Zenon DEF DecoderChanges
  <1>3. /\ UNCHANGED <<attempts, host, token, failed, expired, timed>>
        /\ UNCHANGED <<request, display, neg, hostSent, hostGot, dispSent, dispGot>>
        /\ {valid', stopped'} \subseteq BOOLEAN
    BY <1>1, <1>2 DEF wireVars
  <1>4. DispShape(disp')
    BY <1>1, DecoderMoves
  <1>5. Shape' /\ Kept(conns, conns')
    BY <1>1, <1>2, <1>3, <1>4, ShapeOfDisplay, KeptSame
  <1>6. SessionKept
    BY DEF SessionKept
  <1> QED BY <1>2, <1>3, <1>5, <1>6 DEF Quiet, Serving

(***************************************************************************)
(* A step of the display on the authenticated socket: it may read a frame, *)
(* write some, or both.                                                    *)
(***************************************************************************)
DisplayTalks ==
    LET n == server.conn
    IN  /\ Shape'
        /\ UNCHANGED <<attempts, host, token, timed, request, display, neg, hostSent, hostGot>>
        /\ server.pc \in {"begun", "active"} /\ server'.pc = "active"
        /\ server'.conn = n /\ server'.hn = server.hn
        /\ \A k \in 1 .. MaxAttempts : k # n => conns'[k] = conns[k]
        /\ conns'[n].queued = conns[n].queued
        /\ \/ dispGot' = dispGot /\ conns'[n].toDisplay = conns[n].toDisplay
           \/ /\ conns[n].toDisplay # <<>>
              /\ dispGot' = Append(dispGot, Head(conns[n].toDisplay))
              /\ conns'[n].toDisplay = Tail(conns[n].toDisplay)
        /\ \E w : /\ Stream(w) /\ conns'[n].toHost = conns[n].toHost \o w
                  /\ dispSent' = IF server.pc = "begun" THEN w ELSE dispSent \o w

\* Writing nothing, and writing one frame.
LEMMA StreamJoins ==
  ASSUME NEW s, Stream(s), NEW e
  PROVE  Stream(<<e>>) /\ s \o <<>> = s /\ Append(s, e) = s \o <<e>>
  <1>1. PICK S : s \in Seq(S) /\ e \in S
    BY CommonSet
  <1>2. <<e>> \in Seq(S) /\ s \o <<>> = s /\ Append(s, e) = s \o <<e>>
    BY <1>1
  <1> QED BY <1>2, StreamOf

\* One stream behind another.
LEMMA StreamConcat ==
  ASSUME NEW s, NEW t, Stream(s), Stream(t)
  PROVE  Stream(s \o t) /\ <<>> \o t = t /\ Len(s \o t) = Len(s) + Len(t)
  <1>1. PICK S : s \in Seq(S) /\ t \in Seq(S) /\ 0 \in S
    BY CommonSet
  <1>2. s \o t \in Seq(S) /\ <<>> \o t = t /\ Len(s \o t) = Len(s) + Len(t)
    BY <1>1
  <1> QED BY <1>2, StreamOf

\* activateAuthenticatedSocket.
LEMMA ActivateTalks ==
  ASSUME Shape, Activate
  PROVE  LET w == <<Frame("Hello", 0, DisplayHello), Frame("Capabilities", 1, DisplayCapabilities)>>
         IN  /\ DisplayTalks /\ server.pc = "begun" /\ dispSent' = w /\ dispGot' = dispGot
             /\ disp' = disp
  <1> DEFINE c == conns[server.conn]
             w == <<Frame("Hello", 0, DisplayHello), Frame("Capabilities", 1, DisplayCapabilities)>>
             t == c.toHost \o w
  <1>1. /\ server.pc = "begun" /\ server' = [server EXCEPT !.pc = "active"]
        /\ disp' = disp /\ dispSent' = w
        /\ conns' = SetToHost(conns, server.conn, t)
        /\ UNCHANGED wireVars /\ UNCHANGED <<host, neg, hostSent, hostGot, dispGot>>
    BY DEF Activate, SetToHost
  <1>2. Stream(w)
    <2>1. ASSUME NEW a, NEW b PROVE Stream(<<a, b>>)
      <3>1. <<a, b>> \in Seq({a, b})
        OBVIOUS
      <3> QED BY <3>1, StreamOf
    <2> QED BY <2>1
  <1> HIDE DEF w
  <1>3. /\ ConnsShape(conns) /\ ServerShape(server) /\ "active" \in ServerPcs
        /\ Stream(dispGot) /\ server.conn \in 1 .. MaxAttempts
        /\ server.conn # 0 /\ {valid, stopped} \subseteq BOOLEAN
        /\ Stream(c.toHost) /\ Stream(c.toDisplay) /\ Flag(c.queued)
    BY <1>1, SocketsExist DEF Shape, ServerPcs
  <1>4. Stream(t)
    BY <1>2, <1>3, StreamConcat
  <1> HIDE DEF t
  <1>5. Touched(conns, conns', server.conn, c.queued, c.toDisplay, t, c.hostOpen, c.displayOpen)
    BY <1>1, <1>3, <1>4, Touches
  <1>6. /\ ServerShape(server') /\ server'.conn = server.conn /\ server'.hn = server.hn
        /\ server'.pc = "active"
    BY <1>1, <1>3, ServerMoves
  <1>7. DispShape(disp')
    BY <1>1 DEF Shape
  <1>8. /\ UNCHANGED <<attempts, host, token, failed, expired, timed>>
        /\ UNCHANGED <<request, display, neg, hostSent, hostGot, dispGot>>
        /\ {valid', stopped'} \subseteq BOOLEAN
    BY <1>1, <1>3 DEF wireVars
  <1>9. Shape'
    <2>1. ConnsShape(conns') /\ Stream(dispSent') /\ Stream(dispGot')
      BY <1>1, <1>2, <1>3, <1>5 DEF Touched
    <2> QED BY <1>3, <1>6, <1>7, <1>8, <2>1, ShapeOfDisplay
  <1>10. DisplayTalks
    <2>1. conns'[server.conn].toHost = c.toHost \o w
          /\ dispSent' = IF server.pc = "begun" THEN w ELSE dispSent \o w
      BY <1>1, <1>5 DEF Touched, t
    <2>2. \E x : /\ Stream(x) /\ conns'[server.conn].toHost = c.toHost \o x
                 /\ dispSent' = IF server.pc = "begun" THEN x ELSE dispSent \o x
      BY <1>2, <2>1, Zenon
    <2>3. server.pc = "begun"
      BY <1>1
    <2> QED BY <1>5, <1>6, <1>8, <1>9, <2>2, <2>3 DEF DisplayTalks, Touched
  <1> QED BY <1>1, <1>10 DEF w

\* pingLoop and sendTelemetryNow.
LEMMA DisplayReportsTalks ==
  ASSUME Shape, DisplayReports
  PROVE  /\ DisplayTalks /\ server.pc = "active" /\ dispGot' = dispGot /\ disp' = disp
         /\ disp.negotiated /\ ~disp.failed
         /\ \/ dispSent' = Append(dispSent, Frame("Ping", Len(dispSent), None))
            \/ dispSent' = Append(dispSent, Frame("Telemetry", Len(dispSent),
                                     [frame |-> disp.pics.released, dropped |-> disp.pics.dropped]))
  <1> DEFINE c == conns[server.conn]
  <1>1. /\ server.pc = "active" /\ disp.negotiated /\ ~disp.failed
        /\ UNCHANGED wireVars
        /\ UNCHANGED <<host, server, neg, disp, hostSent, hostGot, dispGot>>
    BY DEF DisplayReports
  <1>2. PICK f \in {Frame("Ping", Len(dispSent), None),
                    Frame("Telemetry", Len(dispSent),
                          [frame |-> disp.pics.released, dropped |-> disp.pics.dropped])} :
          /\ dispSent' = Append(dispSent, f)
          /\ conns' = SetToHost(conns, server.conn, Append(c.toHost, f))
    BY DEF DisplayReports, SetToHost
  <1>3. /\ ConnsShape(conns) /\ ServerShape(server) /\ DispShape(disp)
        /\ Stream(dispGot) /\ Stream(dispSent) /\ server.conn \in 1 .. MaxAttempts
        /\ server.conn # 0 /\ {valid, stopped} \subseteq BOOLEAN
        /\ Stream(c.toHost) /\ Stream(c.toDisplay) /\ Flag(c.queued)
    BY <1>1, SocketsExist DEF Shape
  <1> DEFINE t == Append(c.toHost, f)
  <1>4. Stream(t) /\ Stream(dispSent')
    BY <1>2, <1>3, StreamGrows
  <1>5. conns' = SetToHost(conns, server.conn, t)
    BY <1>2
  <1>6. t = c.toHost \o <<f>> /\ dispSent' = dispSent \o <<f>> /\ Stream(<<f>>)
    BY <1>2, <1>3, StreamJoins
  <1> HIDE DEF t
  <1>7. Touched(conns, conns', server.conn, c.queued, c.toDisplay, t, c.hostOpen, c.displayOpen)
    BY <1>3, <1>4, <1>5, Touches
  <1>8. Shape'
    <2>1. /\ UNCHANGED <<attempts, host, token, failed, expired, timed>>
          /\ UNCHANGED <<request, display, neg, hostSent, hostGot>>
          /\ {valid', stopped'} \subseteq BOOLEAN /\ ConnsShape(conns')
          /\ ServerShape(server') /\ server'.conn = server.conn /\ DispShape(disp')
          /\ Stream(dispGot')
      BY <1>1, <1>3, <1>7 DEF wireVars, Touched
    <2> QED BY <1>3, <1>4, <2>1, ShapeOfDisplay
  <1>9. DisplayTalks
    BY <1>1, <1>6, <1>7, <1>8 DEF DisplayTalks, Touched, wireVars
  <1> QED BY <1>1, <1>2, <1>9

\* The display refuses a frame: it says so, and forgets its configuration.
Refuses(why) ==
    /\ disp'.failed = TRUE /\ disp'.refused = why
    /\ disp'.pics = [disp.pics EXCEPT !.ready = FALSE, !.waiting = {}]
    /\ disp'.highest = Head(conns[server.conn].toDisplay).seq
    /\ dispSent' = Append(dispSent, Frame("Error", Len(dispSent), why))

\* The display takes a frame and becomes d.
Takes(d) ==
    /\ disp'.hello = d.hello /\ disp'.caps = d.caps /\ disp'.negotiated = d.negotiated
    /\ disp'.failed = d.failed /\ disp'.config = d.config /\ disp'.refused = d.refused
    /\ disp'.pics = d.pics
    /\ disp'.highest = Head(conns[server.conn].toDisplay).seq
    /\ dispSent' = dispSent

\* What the display's answers to a frame have in common.
LEMMA ReadsTalk ==
  ASSUME Shape, server.pc = "active", conns[server.conn].toDisplay # <<>>,
         dispGot' = Append(dispGot, Head(conns[server.conn].toDisplay)),
         UNCHANGED wireVars, UNCHANGED <<host, server, neg, hostSent, hostGot>>,
         DispShape(disp'), NEW w, Stream(w), dispSent' = dispSent \o w,
         Touched(conns, conns', server.conn, conns[server.conn].queued,
                 Tail(conns[server.conn].toDisplay), conns[server.conn].toHost \o w,
                 conns[server.conn].hostOpen, conns[server.conn].displayOpen)
  PROVE  DisplayTalks
  <1> DEFINE c == conns[server.conn]
  <1>1. /\ ServerShape(server) /\ Stream(dispGot) /\ Stream(dispSent)
        /\ server.conn # 0 /\ {valid, stopped} \subseteq BOOLEAN
    BY DEF Shape
  <1>2. Stream(dispGot') /\ Stream(dispSent')
    BY <1>1, StreamGrows, StreamConcat
  <1>3. Shape'
    <2>1. /\ UNCHANGED <<attempts, host, token, failed, expired, timed>>
          /\ UNCHANGED <<request, display, neg, hostSent, hostGot>>
          /\ {valid', stopped'} \subseteq BOOLEAN /\ ConnsShape(conns')
          /\ ServerShape(server') /\ server'.conn = server.conn
      BY <1>1 DEF wireVars, Touched
    <2> QED BY <1>1, <1>2, <2>1, ShapeOfDisplay
  <1>4. \E x : /\ Stream(x) /\ conns'[server.conn].toHost = c.toHost \o x
               /\ dispSent' = IF server.pc = "begun" THEN x ELSE dispSent \o x
    <2>1. conns'[server.conn].toHost = c.toHost \o w
          /\ dispSent' = IF server.pc = "begun" THEN w ELSE dispSent \o w
      BY DEF Touched
    <2> QED BY <2>1, Zenon
  <1>5. /\ UNCHANGED <<attempts, host, token, timed, request, display, neg, hostSent, hostGot>>
        /\ server'.pc = "active" /\ server' = server
    BY DEF wireVars
  <1> QED BY <1>3, <1>4, <1>5 DEF DisplayTalks, Touched

\* rejectProtocol.
LEMMA RejectTalks ==
  ASSUME Shape, server.pc = "active", conns[server.conn].toDisplay # <<>>,
         dispGot' = Append(dispGot, Head(conns[server.conn].toDisplay)),
         UNCHANGED wireVars, UNCHANGED <<host, server, neg, hostSent, hostGot>>,
         NEW why, Reject(why)
  PROVE  DisplayTalks /\ Refuses(why)
  <1> DEFINE c == conns[server.conn]
             f == Head(c.toDisplay)
             e == Frame("Error", Len(dispSent), why)
             t == Append(c.toHost, e)
  <1>1. /\ disp' = [disp EXCEPT !.config = None, !.negotiated = FALSE, !.failed = TRUE,
                                !.refused = why, !.highest = f.seq,
                                !.pics = [@ EXCEPT !.ready = FALSE, !.waiting = {}]]
        /\ dispSent' = Append(dispSent, e)
        /\ conns' = SetBothToo(conns, server.conn, Tail(c.toDisplay), t)
    BY DEF Reject, SetBothToo
  <1>2. /\ ConnsShape(conns) /\ DispShape(disp) /\ server.conn \in 1 .. MaxAttempts
        /\ Stream(c.toHost) /\ Stream(c.toDisplay) /\ Flag(c.queued) /\ Stream(dispSent)
    BY SocketsExist DEF Shape
  <1>3. Stream(t) /\ Stream(Tail(c.toDisplay)) /\ Stream(<<e>>)
        /\ t = c.toHost \o <<e>> /\ dispSent' = dispSent \o <<e>>
    <2> HIDE DEF e
    <2> QED BY <1>1, <1>2, StreamGrows, StreamReads, StreamJoins
  <1> HIDE DEF t, e, f
  <1>4. Touched(conns, conns', server.conn, c.queued, Tail(c.toDisplay), t,
                c.hostOpen, c.displayOpen)
    BY <1>1, <1>2, <1>3, BothTouched
  <1>5. ASSUME NEW no, NEW yes, NEW none, NEW p,
               disp' = [disp EXCEPT !.config = none, !.negotiated = no, !.failed = yes,
                                    !.refused = why, !.highest = f.seq, !.pics = p]
        PROVE  /\ DispShape(disp') /\ disp'.failed = yes /\ disp'.refused = why
               /\ disp'.pics = p /\ disp'.highest = f.seq
    BY <1>2, <1>5 DEF DispShape
  <1>6. /\ DispShape(disp') /\ disp'.failed = TRUE /\ disp'.refused = why
        /\ disp'.pics = [disp.pics EXCEPT !.ready = FALSE, !.waiting = {}]
        /\ disp'.highest = f.seq
    BY <1>1, <1>5, Zenon
  <1>7. DisplayTalks
    <2>1. Touched(conns, conns', server.conn, c.queued, Tail(c.toDisplay), c.toHost \o <<e>>,
                  c.hostOpen, c.displayOpen)
      BY <1>3, <1>4
    <2> QED BY <1>3, <1>6, <2>1, ReadsTalk
  <1> QED BY <1>1, <1>6, <1>7 DEF Refuses, f, e

\* A frame is taken.
LEMMA AcceptsTalks ==
  ASSUME Shape, server.pc = "active", conns[server.conn].toDisplay # <<>>,
         dispGot' = Append(dispGot, Head(conns[server.conn].toDisplay)),
         UNCHANGED wireVars, UNCHANGED <<host, server, neg, hostSent, hostGot>>,
         NEW d, DispShape(d), Accepts(d)
  PROVE  DisplayTalks /\ Takes(d)
  <1> DEFINE c == conns[server.conn]
             f == Head(c.toDisplay)
  <1>1. /\ disp' = [d EXCEPT !.highest = f.seq] /\ dispSent' = dispSent
        /\ conns' = SetToDisplay(conns, server.conn, Tail(c.toDisplay))
    BY DEF Accepts, SetToDisplay
  <1>2. /\ ConnsShape(conns) /\ server.conn \in 1 .. MaxAttempts
        /\ Stream(c.toHost) /\ Stream(c.toDisplay) /\ Flag(c.queued) /\ Stream(dispSent)
    BY SocketsExist DEF Shape
  <1>3. Stream(Tail(c.toDisplay)) /\ Stream(<<>>) /\ c.toHost = c.toHost \o <<>>
        /\ dispSent = dispSent \o <<>>
    BY <1>2, StreamReads, StreamJoins, EmptyStream
  <1>4. Touched(conns, conns', server.conn, c.queued, Tail(c.toDisplay), c.toHost,
                c.hostOpen, c.displayOpen)
    BY <1>1, <1>2, <1>3, Touches
  <1> HIDE DEF f
  <1>5. DispShape(disp') /\ Takes(d)
    <2>1. /\ DispShape(disp') /\ disp'.hello = d.hello /\ disp'.caps = d.caps
          /\ disp'.negotiated = d.negotiated /\ disp'.highest = f.seq
      BY <1>1 DEF DispShape
    <2>2. /\ disp'.failed = d.failed /\ disp'.config = d.config /\ disp'.refused = d.refused
          /\ disp'.pics = d.pics
      BY <1>1 DEF DispShape
    <2> QED BY <1>1, <2>1, <2>2 DEF Takes, f
  <1>6. DisplayTalks
    <2>1. Touched(conns, conns', server.conn, c.queued, Tail(c.toDisplay), c.toHost \o <<>>,
                  c.hostOpen, c.displayOpen)
      BY <1>3, <1>4
    <2>2. dispSent' = dispSent \o <<>>
      BY <1>1, <1>3
    <2> QED BY <1>3, <1>5, <2>1, <2>2, ReadsTalk
  <1> QED BY <1>5, <1>6

\* The display refuses the frame or takes it.
Answers == (\E why : Reject(why)) \/ (\E d : DispShape(d) /\ Accepts(d))

\* Each handler does one or the other.
LEMMA HandlersAnswer ==
  ASSUME DispShape(disp), NEW f,
         OnHello(f) \/ OnCapabilities(f) \/ OnDisplayConfig(f) \/ OnVideoFrame(f) \/ OnPong
  PROVE  Answers
  <1>1. ASSUME NEW x
        PROVE  /\ DispShape([disp EXCEPT !.hello = x]) /\ DispShape([disp EXCEPT !.config = x])
               /\ DispShape([disp EXCEPT !.pics = x])
    BY DEF DispShape
  <1>2. ASSUME NEW x, NEW y
        PROVE  DispShape([disp EXCEPT !.caps = x, !.negotiated = y])
    BY DEF DispShape
  <1>3. CASE OnHello(f)
    <2>1. (\E why : Reject(why)) \/ Accepts([disp EXCEPT !.hello = f.body])
      BY <1>3, Zenon DEF OnHello
    <2> QED BY <1>1, <2>1, Zenon DEF Answers
  <1>4. CASE OnCapabilities(f)
    <2>1. (\E why : Reject(why)) \/ Accepts([disp EXCEPT !.caps = f.body, !.negotiated = TRUE])
      BY <1>4, Zenon DEF OnCapabilities
    <2> QED BY <1>2, <2>1, Zenon DEF Answers
  <1>5. CASE OnDisplayConfig(f)
    <2>1. (\E why : Reject(why)) \/ Accepts([disp EXCEPT !.config = f.body])
      BY <1>5, Zenon DEF OnDisplayConfig
    <2> QED BY <1>1, <2>1, Zenon DEF Answers
  <1>6. CASE OnVideoFrame(f)
    <2>1. \/ \E why : Reject(why)
          \/ \E p : Accepts([disp EXCEPT !.pics = p])
      BY <1>6, Zenon DEF OnVideoFrame
    <2> QED BY <1>1, <2>1, Zenon DEF Answers
  <1>7. CASE OnPong
    <2>1. (\E why : Reject(why)) \/ Accepts(disp)
      BY <1>7, Zenon DEF OnPong
    <2> QED BY <2>1, Zenon DEF Answers
  <1> QED BY <1>3, <1>4, <1>5, <1>6, <1>7

\* handleInboundFrame.
LEMMA DisplayReadsTalks ==
  ASSUME Shape, DisplayReads
  PROVE  LET f == Head(conns[server.conn].toDisplay)
         IN  /\ DisplayTalks /\ server.pc = "active" /\ conns[server.conn].toDisplay # <<>>
             /\ dispGot' = Append(dispGot, f)
             /\ (\E why : Reject(why)) \/ (\E d : DispShape(d) /\ Accepts(d))
             /\ \A why : Reject(why) => Refuses(why)
             /\ \A d : DispShape(d) /\ Accepts(d) => Takes(d)
  <1> DEFINE f == Head(conns[server.conn].toDisplay)
  <1>1. /\ server.pc = "active" /\ conns[server.conn].toDisplay # <<>>
        /\ dispGot' = Append(dispGot, f)
        /\ UNCHANGED wireVars /\ UNCHANGED <<host, server, neg, hostSent, hostGot>>
    BY Zenon DEF DisplayReads
  <1>2. DispShape(disp)
    BY DEF Shape
  <1>3. \/ \E why : Reject(why)
        \/ Accepts(disp)
        \/ OnHello(f) \/ OnCapabilities(f) \/ OnDisplayConfig(f) \/ OnVideoFrame(f) \/ OnPong
    BY Zenon DEF DisplayReads
  <1> HIDE DEF f
  <1>4. Answers
    <2>1. (\E why : Reject(why)) => Answers
      BY Zenon DEF Answers
    <2>2. Accepts(disp) => Answers
      BY <1>2, Zenon DEF Answers
    <2> QED BY <1>2, <1>3, <2>1, <2>2, HandlersAnswer
  <1>5. ASSUME NEW why, Reject(why) PROVE DisplayTalks /\ Refuses(why)
    BY <1>1, <1>5, RejectTalks DEF f
  <1>6. ASSUME NEW d, DispShape(d), Accepts(d) PROVE DisplayTalks /\ Takes(d)
    BY <1>1, <1>6, AcceptsTalks DEF f
  <1>7. DisplayTalks
    BY <1>4, <1>5, <1>6, Zenon DEF Answers
  <1>8. \A why : Reject(why) => Refuses(why)
    BY <1>5, Zenon
  <1>9. \A d : DispShape(d) /\ Accepts(d) => Takes(d)
    BY <1>6, Zenon
  <1> QED BY <1>1, <1>4, <1>7, <1>8, <1>9, Zenon DEF Answers, f

-----------------------------------------------------------------------------
(***************************************************************************)
(* Handshakes and Streams are kept by every step.                          *)
(***************************************************************************)
\* A stream is a prefix of itself with more behind it.
LEMMA PrefixOf ==
  ASSUME NEW s, NEW t, Stream(s), Stream(t)
  PROVE  IsPrefix(s, s \o t)
  <1>1. PICK S : s \in Seq(S) /\ t \in Seq(S) /\ 0 \in S
    BY CommonSet
  <1> QED BY <1>1 DEF IsPrefix

\* A prefix stays one when more is written.
LEMMA PrefixGrows ==
  ASSUME NEW s, NEW t, NEW w, Stream(s), Stream(t), Stream(w), IsPrefix(s, t)
  PROVE  IsPrefix(s, t \o w)
  <1>1. PICK A : s \in Seq(A) /\ t \in Seq(A) /\ 0 \in A
    BY CommonSet
  <1>2. PICK B : w \in Seq(B)
    BY DEF Stream
  <1> DEFINE S == A \cup B
  <1>3. s \in Seq(S) /\ t \in Seq(S) /\ w \in Seq(S)
    <2>1. A \subseteq S /\ B \subseteq S
      OBVIOUS
    <2> HIDE DEF S
    <2> QED BY <1>1, <1>2, <2>1
  <1> HIDE DEF S
  <1>4. /\ Len(s) \in Nat /\ Len(t) \in Nat /\ Len(w) \in Nat /\ Len(t \o w) = Len(t) + Len(w)
        /\ t \o w \in Seq(S)
        /\ \A i \in 1 .. Len(t) : (t \o w)[i] = t[i]
    BY <1>3
  <1>5. Len(s) <= Len(t) /\ SubSeq(s, 1, Len(s)) = SubSeq(t, 1, Len(s))
    BY DEF IsPrefix
  <1>6. Len(s) <= Len(t \o w)
    BY <1>4, <1>5
  <1>7. SubSeq(t \o w, 1, Len(s)) = SubSeq(t, 1, Len(s))
    BY <1>3, <1>4, <1>5
  <1> QED BY <1>5, <1>6, <1>7 DEF IsPrefix

\* The host's steps on a paired socket.
LEMMA TalksHandshakes ==
  ASSUME Shape, Handshakes, Talks
  PROVE  Handshakes'
  <1>1. /\ host.pc \in {"paired", "session"} /\ host'.pc \in {"session", "over"}
        /\ host'.conn = host.conn /\ host'.key = host.key /\ host'.refused = host.refused
        /\ UNCHANGED <<attempts, server, token, timed>>
    BY DEF Talks
  <1>2. host.key = token /\ DoneOn(host.conn) /\ "Host" \notin timed
    BY <1>1 DEF Handshakes, OnPaired
  <1>3. server.conn = host.conn /\ host.conn = attempts /\ server.pc \notin Serving
    BY <1>2 DEF DoneOn, Shape
  <1>4. \A k \in 1 .. MaxAttempts : conns'[k].queued = conns[k].queued
    BY DEF Talks
  <1>5. \A k \in 1 .. MaxAttempts : ~conns'[k].queued
    BY <1>3, <1>4 DEF Handshakes, OnBacklog
  <1>6. \A k \in 1 .. MaxAttempts : ~(server'.conn < k /\ k <= attempts')
    <2>1. attempts \in Nat
      BY PairingAssumption DEF Shape
    <2> QED BY <1>1, <1>3, <2>1
  <1>7. server'.pc \notin {"hello", "finish"}
    BY <1>1, <1>3 DEF Serving
  <1>8. DoneOn(host.conn)' /\ (host.refused => host.key # token)
    BY <1>1, <1>2 DEF DoneOn, Handshakes, OnPaired
  <1>9. server'.hn = server'.conn
    BY <1>1, <1>2 DEF DoneOn
  <1> QED BY <1>1, <1>2, <1>5, <1>6, <1>7, <1>8, <1>9
            DEF Handshakes, OnBacklog, OnNewCalls, OnServerHello, OnServerFinish, OnServed,
                OnHostHello, OnHostFinished, OnPaired

\* What the host reads and writes stays in step with the display.
LEMMA TalksStreams ==
  ASSUME Shape, Handshakes, Streams, Talks
  PROVE  Streams'
  <1> DEFINE n == host.conn
             td == conns[n].toDisplay
             th == conns[n].toHost
  <1>1. /\ host.pc \in {"paired", "session"} /\ host'.pc \in {"session", "over"}
        /\ host'.conn = n /\ UNCHANGED <<server, disp, dispSent, dispGot>>
        /\ server.conn = n
    BY DEF Talks, Handshakes, OnPaired, DoneOn
  <1>2. /\ Stream(td) /\ Stream(th) /\ Stream(hostSent) /\ Stream(hostGot)
        /\ Stream(dispSent) /\ Stream(dispGot)
    BY <1>1, SocketsExist DEF Shape
  <1>3. dispSent = hostGot \o th
    BY <1>1 DEF Streams, Paired
  <1>4. neg'.pc = "idle" => neg' = NoHandshake /\ hostSent' = <<>> /\ hostGot' = <<>>
    BY DEF Talks, Streams
  <1>5. /\ host'.pc = "session" => dispSent = hostGot' \o conns'[n].toHost
        /\ IsPrefix(hostGot', dispSent)
    <2>1. CASE hostGot' = hostGot /\ conns'[n].toHost = th
      BY <1>3, <2>1 DEF Streams
    <2>2. CASE /\ th # <<>> /\ hostGot' = Append(hostGot, Head(th))
               /\ conns'[n].toHost = Tail(th) \/ host'.pc = "over"
      <3>1. dispSent = hostGot' \o Tail(th) /\ Stream(Tail(th)) /\ Stream(hostGot')
        BY <1>2, <1>3, <2>2, StreamReads, StreamGrows
      <3>2. IsPrefix(hostGot', dispSent)
        BY <3>1, PrefixOf
      <3> QED BY <2>2, <3>1, <3>2
    <2> QED BY <2>1, <2>2 DEF Talks
  <1>6. /\ server.pc \in {"Authenticated", "posted", "begun", "active"} =>
              hostSent' = dispGot \o conns'[n].toDisplay
        /\ IsPrefix(dispGot, hostSent')
    <2>1. /\ server.pc \in {"Authenticated", "posted", "begun", "active"} => hostSent = dispGot \o td
          /\ IsPrefix(dispGot, hostSent)
      BY <1>1 DEF Streams
    <2>2. CASE hostSent' = hostSent /\ conns'[n].toDisplay = td
      BY <2>1, <2>2
    <2>3. ASSUME NEW f, hostSent' = Append(hostSent, f), conns'[n].toDisplay = Append(td, f)
          PROVE  <1>6!:
      <3>1. Stream(<<f>>) /\ hostSent' = hostSent \o <<f>>
        BY <1>2, <2>3, StreamJoins
      <3>2. IsPrefix(dispGot, hostSent')
        BY <1>2, <2>1, <3>1, PrefixGrows
      <3>3. Append(dispGot \o td, f) = dispGot \o Append(td, f)
        BY <1>2, StreamWrites
      <3> QED BY <2>1, <2>3, <3>2, <3>3
    <2> QED BY <2>2, <2>3 DEF Talks
  <1>7. /\ server'.pc \notin {"active", "Failed", "Closed"} =>
              dispSent' = <<>> /\ dispGot' = <<>> /\ Fresh(disp')
        /\ host'.pc # "finished"
    BY <1>1 DEF Streams
  <1> QED BY <1>1, <1>4, <1>5, <1>6, <1>7 DEF Streams, Paired

\* While the token stays, so do the records.
LEMMA SameRecords ==
  ASSUME token' = token
  PROVE  /\ \A k : DH(k)' = DH(k)
         /\ \A k : HF(k)' = HF(k)
         /\ \A k : DF(k)' = DF(k)
  BY DEF DH, HF, DF, Record, FinishedRecord, PairingTag

\* The display's quiet steps.
LEMMA QuietHandshakes ==
  ASSUME Shape, Handshakes, Quiet
  PROVE  Handshakes'
  <1>1. /\ host' = host /\ attempts' = attempts /\ token' = token /\ timed' \subseteq timed
        /\ server'.conn = server.conn /\ server'.hn = server.hn
    BY DEF Quiet
  <1>2. \A k \in 1 .. MaxAttempts :
          /\ conns'[k].toDisplay = conns[k].toDisplay /\ conns'[k].toHost = conns[k].toHost
          /\ conns'[k].queued => conns[k].queued
    BY DEF Quiet, Kept
  <1>3. /\ server.pc \notin Serving => server'.pc \notin Serving
        /\ \A p \in {"hello", "finish", "active", "Authenticated"} : server'.pc = p => server.pc = p
        /\ server'.pc = "posted" => server.pc \in {"posted", "Authenticated"}
        /\ server'.pc = "begun" => server.pc \in {"begun", "posted"}
        /\ server.pc \in Serving /\ server'.pc \notin Serving =>
              \A k \in 1 .. MaxAttempts : ~conns'[k].queued
    BY DEF Quiet, Serving
  <1>4. /\ host.pc # "idle" => host.conn \in 1 .. MaxAttempts
        /\ server.pc \in {"hello", "finish", "Authenticated", "posted", "begun", "active"} =>
              server.conn \in 1 .. MaxAttempts
    BY SocketsExist DEF Shape
  <1>5. \A k \in 1 .. MaxAttempts : Untouched(k) => Untouched(k)'
    BY <1>1, <1>2 DEF Untouched, HH
  <1>6. OnBacklog'
    BY <1>1, <1>2, <1>3 DEF Handshakes, OnBacklog
  <1>7. OnNewCalls'
    BY <1>1, <1>5 DEF Handshakes, OnNewCalls
  <1>8. OnServerHello'
    BY <1>1, <1>3, <1>4, <1>5 DEF Handshakes, OnServerHello
  <1>9. DoneOn(host.conn) => DoneOn(host.conn)'
    BY <1>1, <1>3 DEF DoneOn
  <1>10. OnServerFinish'
    BY <1>1, <1>2, <1>3, <1>4, SameRecords DEF Handshakes, OnServerFinish
  <1>11. OnServed'
    BY <1>1, <1>2, <1>3, <1>4 DEF Handshakes, OnServed
  <1>12. OnHostHello'
    BY <1>1, <1>2, <1>4, SameRecords DEF Handshakes, OnHostHello
  <1>13. OnHostFinished'
    BY <1>1, <1>2, <1>4, <1>9, SameRecords DEF Handshakes, OnHostFinished
  <1>14. OnPaired'
    BY <1>1, <1>9 DEF Handshakes, OnPaired
  <1> QED BY <1>6, <1>7, <1>8, <1>10, <1>11, <1>12, <1>13, <1>14 DEF Handshakes

\* Nothing is read or written by them.
LEMMA QuietStreams ==
  ASSUME Shape, Streams, Quiet
  PROVE  Streams'
  <1>1. /\ host' = host /\ neg' = neg /\ UNCHANGED <<hostSent, hostGot, dispSent, dispGot>>
        /\ server'.conn = server.conn
    BY DEF Quiet
  <1>2. \A k \in 1 .. MaxAttempts :
          conns'[k].toDisplay = conns[k].toDisplay /\ conns'[k].toHost = conns[k].toHost
    BY DEF Quiet, Kept
  <1>3. /\ server'.pc \in {"Authenticated", "posted", "begun", "active"} =>
              server.pc \in {"Authenticated", "posted", "begun", "active"}
        /\ server'.pc \notin {"active", "Failed", "Closed"} =>
              server.pc \notin {"active", "Failed", "Closed"}
    BY DEF Quiet, Serving
  <1>4. /\ host.pc # "idle" => host.conn \in 1 .. MaxAttempts
        /\ server.pc \in {"Authenticated", "posted", "begun", "active"} =>
              server.conn \in 1 .. MaxAttempts
    BY SocketsExist DEF Shape
  <1>5. server'.pc \notin {"active", "Failed", "Closed"} => Fresh(disp')
    <2>1. CASE disp' = disp
      BY <1>3, <2>1 DEF Streams
    <2>2. CASE \E b \in BOOLEAN : disp' = [disp EXCEPT !.on = b]
      <3>1. Fresh(disp) => Fresh(disp')
        BY <2>2, DispOff DEF Shape, Fresh
      <3> QED BY <1>3, <3>1 DEF Streams
    <2>3. CASE DecoderChanges
      BY <2>3, DecoderMoves DEF Shape
    <2> QED BY <2>1, <2>2, <2>3 DEF Quiet, SessionKept
  <1> QED BY <1>1, <1>2, <1>3, <1>4, <1>5 DEF Streams, Paired

\* While the display still serves, nobody is paired.
LEMMA WhileServing ==
  ASSUME Shape, Handshakes, server.pc \in Serving
  PROVE  /\ host.pc \in {"idle", "hello", "finished"} /\ neg.pc = "idle"
         /\ host.pc = "finished" => conns[host.conn].toHost = <<>>
  <1>1. host.pc \notin {"paired", "session", "over"}
    BY DEF Handshakes, OnPaired, DoneOn
  <1>2. host.pc = "finished" => conns[host.conn].toHost = <<>>
    BY DEF Handshakes, OnHostFinished, DoneOn
  <1>3. host.pc \in {"idle", "hello", "finished"}
    BY <1>1 DEF Shape, HostShape, HostPcs
  <1> QED BY <1>2, <1>3 DEF Shape

\* A pairing call.
LEMMA PairHandshakes ==
  ASSUME Shape, Handshakes, Streams, NEW code, Pair(code), UNCHANGED negVars
  PROVE  Handshakes' /\ Streams'
  <1> DEFINE n == attempts + 1
  <1>1. Touched(conns, conns', n, TRUE, <<HH(n)>>, <<>>, TRUE, TRUE)
    BY PairShape
  <1>2. /\ host.pc = "idle" /\ attempts' = n /\ server.pc \in Serving
        /\ \A k \in 1 .. MaxAttempts : ~conns[k].queued
    BY DEF Pair, Listening, Serving, Backlog, Shape, ConnsShape
  <1>3. host'.pc = "hello" /\ host'.conn = n /\ ~host'.refused /\ server' = server /\ token' = token
    BY DEF Pair, displayVars
  <1>4. attempts \in Nat /\ server.conn \in Nat /\ server.conn <= attempts /\ n \in 1 .. MaxAttempts
    BY <1>2, SocketsExist DEF Shape, ServerShape, Pair
  <1>5. /\ conns'[n].toDisplay = <<HH(n)>> /\ conns'[n].toHost = <<>>
        /\ \A k \in 1 .. MaxAttempts : k # n => conns'[k] = conns[k]
    BY <1>1 DEF Touched
  <1>6. \A k \in 1 .. MaxAttempts : k # n /\ Untouched(k) => Untouched(k)'
    BY <1>3, <1>5 DEF Untouched, HH
  <1>7. OnBacklog'
    BY <1>2, <1>3, <1>4, <1>5 DEF OnBacklog
  <1>8. OnNewCalls'
    <2>1. ASSUME NEW k, k = n PROVE Untouched(k)'
      BY <1>3, <1>5, <2>1 DEF Untouched, HH
    <2>2. ASSUME NEW k \in 1 .. MaxAttempts, server'.conn < k, k <= attempts'
          PROVE  Untouched(k)'
      <3>1. CASE k = n
        BY <2>1, <3>1
      <3>2. CASE k # n
        BY <1>2, <1>3, <1>4, <1>6, <2>2, <3>2 DEF Handshakes, OnNewCalls
      <3> QED BY <3>1, <3>2
    <2> QED BY <2>2 DEF OnNewCalls
  <1>9. server.conn # n /\ (server.conn # 0 => server.conn \in 1 .. MaxAttempts)
    BY <1>4, SocketsExist
  <1>10. OnServerHello'
    <2>1. server.pc = "hello" => server.conn # 0
      BY DEF Shape
    <2> QED BY <1>3, <1>6, <1>9, <2>1 DEF Handshakes, OnServerHello
  <1>11. OnServerFinish'
    <2>1. server.pc = "finish" => server.conn # 0
      BY DEF Shape
    <2> QED BY <1>3, <1>5, <1>9, <2>1, SameRecords DEF Handshakes, OnServerFinish
  <1>12. OnServed'
    BY <1>2, <1>3 DEF OnServed, Serving
  <1>13. OnHostHello' /\ OnHostFinished' /\ OnPaired'
    BY <1>3, <1>5 DEF OnHostHello, OnHostFinished, OnPaired
  <1>14. Streams'
    <2>1. UNCHANGED <<neg, disp, hostSent, hostGot, dispSent, dispGot>>
      BY DEF negVars
    <2>2. server.pc \notin {"Authenticated", "posted", "begun", "active"}
      BY <1>2 DEF Serving
    <2> QED BY <1>3, <2>1, <2>2 DEF Streams, Paired
  <1> QED BY <1>7, <1>8, <1>10, <1>11, <1>12, <1>13, <1>14 DEF Handshakes

\* A call ends badly; a refusal means that the code was another.
LEMMA HostFailsHandshakes ==
  ASSUME Shape, Handshakes, Streams, NEW b, Flag(b), HostFails(b), UNCHANGED Rest,
         host.pc \in {"hello", "finished", "paired"}, b => host.key # token
  PROVE  Handshakes' /\ Streams'
  <1> DEFINE n == host.conn
             c == conns[n]
  <1>1. /\ host'.pc = "idle" /\ host'.refused = b /\ host'.key = host.key
        /\ Touched(conns, conns', n, c.queued, c.toDisplay, c.toHost, FALSE, c.displayOpen)
    BY HostFailsShape
  <1>2. UNCHANGED <<attempts, displayVars>>
    BY DEF HostFails
  <1>3. attempts' = attempts /\ server' = server /\ token' = token
    BY <1>2 DEF displayVars
  <1>4. \A k \in 1 .. MaxAttempts :
          /\ conns'[k].toDisplay = conns[k].toDisplay /\ conns'[k].toHost = conns[k].toHost
          /\ conns'[k].queued = conns[k].queued
    BY <1>1 DEF Touched
  <1>5. \A k \in 1 .. MaxAttempts : Untouched(k) => Untouched(k)'
    BY <1>1, <1>4 DEF Untouched, HH
  <1>6. server.pc \in {"hello", "finish", "Authenticated", "posted", "begun", "active"} =>
           server.conn \in 1 .. MaxAttempts
    BY SocketsExist DEF Shape
  <1>7. OnBacklog' /\ OnNewCalls' /\ OnServerHello'
    BY <1>3, <1>4, <1>5, <1>6 DEF Handshakes, OnBacklog, OnNewCalls, OnServerHello
  <1>8. OnServerFinish'
    BY <1>1, <1>3, <1>4, <1>6, SameRecords DEF Handshakes, OnServerFinish
  <1>9. OnServed'
    BY <1>1, <1>3, <1>6 DEF Handshakes, OnServed
  <1>10. OnHostHello' /\ OnHostFinished' /\ OnPaired'
    BY <1>1, <1>3 DEF OnHostHello, OnHostFinished, OnPaired
  <1>11. Streams'
    <2>1. UNCHANGED <<neg, disp, hostSent, hostGot, dispSent, dispGot>>
      BY DEF Rest
    <2> QED BY <1>1, <1>3, <1>4, <1>6, <2>1 DEF Streams, Paired
  <1> QED BY <1>7, <1>8, <1>9, <1>10, <1>11 DEF Handshakes

\* A display hello fits the host's code exactly when it was made with it.
LEMMA HelloFits ==
  ASSUME Shape, Handshakes, host.pc = "hello", conns[host.conn].toHost # <<>>
  PROVE  LET r == Head(conns[host.conn].toHost)
         IN  /\ conns[host.conn].toHost = <<DH(host.conn)>> /\ r = DH(host.conn)
             /\ r.nonce = host.conn
             /\ ValidDisplayHello(r, host.key, host.conn) <=> host.key = token
             /\ server.conn = host.conn /\ server.pc \notin {"hello", "Authenticated", "posted", "begun", "active"}
             /\ server.pc = "finish" => conns[host.conn].toDisplay = <<>>
  <1> DEFINE n == host.conn
  <1>1. conns[n].toHost = <<DH(n)>> /\ Head(conns[n].toHost) = DH(n)
    BY DEF Handshakes, OnHostHello
  <1>2. n \in 1 .. MaxAttempts /\ n = attempts /\ server.conn \in Nat /\ server.conn <= attempts
        /\ attempts \in Nat
    BY SocketsExist, PairingAssumption DEF Shape, ServerShape
  <1>3. /\ DH(n).kind = "DisplayHello" /\ DH(n).nonce = n
        /\ DH(n).tag = PairingTag(token, "DisplayHello", n, n)
    BY DEF DH, Record
  <1>4. PairingTag(token, "DisplayHello", n, n) = PairingTag(host.key, "DisplayHello", n, n)
          <=> host.key = token
    BY DEF PairingTag
  <1>5. ValidDisplayHello(DH(n), host.key, n) <=> host.key = token
    BY <1>2, <1>3, <1>4 DEF ValidDisplayHello
  <1>6. ~Untouched(n)
    BY <1>1 DEF Untouched
  <1>7. server.conn = n
    BY <1>2, <1>6 DEF Handshakes, OnNewCalls
  <1>8. server.pc \notin {"hello", "Authenticated", "posted", "begun", "active"}
    BY <1>6, <1>7 DEF Handshakes, OnServerHello, OnServed
  <1>9. server.pc = "finish" => conns[n].toDisplay = <<>>
    BY <1>7 DEF Handshakes, OnServerFinish
  <1> QED BY <1>1, <1>3, <1>5, <1>7, <1>8, <1>9

\* The host takes the display's hello.
LEMMA ReadsHelloHandshakes ==
  ASSUME Shape, Handshakes, Streams, HostReadsHello, UNCHANGED negVars,
         ValidDisplayHello(Head(conns[host.conn].toHost), host.key, host.conn)
  PROVE  Handshakes' /\ Streams'
  <1> DEFINE n == host.conn
             c == conns[n]
             r == Head(c.toHost)
             w == Append(c.toDisplay, FinishedRecord(host.key, "HostFinished", n, r.nonce))
  <1>1. /\ host'.pc = "finished" /\ host'.dn = r.nonce /\ host'.key = host.key
        /\ host'.refused = host.refused /\ UNCHANGED <<attempts, displayVars>>
        /\ Touched(conns, conns', n, c.queued, w, Tail(c.toHost), c.hostOpen, c.displayOpen)
    BY ReadsHelloShape
  <1>2. attempts' = attempts /\ server' = server /\ token' = token /\ host'.conn = n
    BY <1>1, ReadsHelloShape DEF displayVars, Shape
  <1>3. /\ c.toHost = <<DH(n)>> /\ r.nonce = n /\ host.key = token /\ server.conn = n
        /\ server.pc \notin {"hello", "Authenticated", "posted", "begun", "active"}
        /\ server.pc = "finish" => c.toDisplay = <<>>
    BY HelloFits DEF HostReadsHello
  <1>4. /\ conns'[n].toDisplay = w /\ conns'[n].toHost = <<>>
        /\ \A k \in 1 .. MaxAttempts : k # n => conns'[k] = conns[k]
        /\ \A k \in 1 .. MaxAttempts : conns'[k].queued = conns[k].queued
    BY <1>1, <1>3 DEF Touched
  <1>5. server.pc = "finish" => w = <<HF(n)>>
    <2>1. ASSUME NEW e PROVE Append(<<>>, e) = <<e>>
      OBVIOUS
    <2>2. FinishedRecord(host.key, "HostFinished", n, r.nonce) = HF(n)
      BY <1>3 DEF HF
    <2> QED BY <1>3, <2>1, <2>2
  <1>6. attempts \in Nat /\ n = attempts
    BY PairingAssumption DEF Shape
  <1> HIDE DEF w
  <1>7. OnBacklog' /\ OnNewCalls'
    BY <1>2, <1>3, <1>4, <1>6 DEF Handshakes, OnBacklog, OnNewCalls
  <1>8. OnServerHello' /\ OnServed' /\ OnHostHello'
    BY <1>1, <1>2, <1>3 DEF OnServerHello, OnServed, OnHostHello
  <1>9. OnServerFinish'
    BY <1>1, <1>2, <1>3, <1>4, <1>5, SameRecords DEF Handshakes, OnServerFinish
  <1>10. OnHostFinished' /\ OnPaired'
    BY <1>1, <1>2, <1>3, <1>4 DEF Handshakes, OnHostFinished, OnPaired
  <1>11. Streams'
    <2>1. UNCHANGED <<neg, disp, hostSent, hostGot, dispSent, dispGot>>
      BY DEF negVars
    <2> QED BY <1>1, <1>2, <1>3, <1>4, <2>1 DEF Streams, Paired
  <1> QED BY <1>7, <1>8, <1>9, <1>10, <1>11 DEF Handshakes

\* The display's last record always fits.
LEMMA FinishedFits ==
  ASSUME Shape, Handshakes, host.pc = "finished", conns[host.conn].toHost # <<>>
  PROVE  /\ ValidFinished(Head(conns[host.conn].toHost), host.key, "DisplayFinished",
                          host.conn, host.dn)
         /\ DoneOn(host.conn) /\ host.key = token
  <1>1. /\ host.key = token /\ host.dn = host.conn /\ DoneOn(host.conn)
        /\ Head(conns[host.conn].toHost) = DF(host.conn)
    BY DEF Handshakes, OnHostFinished
  <1> QED BY <1>1 DEF DF, FinishedRecord, Record, ValidFinished

\* The host takes the display's last record: it is paired.
LEMMA ReadsFinishedHandshakes ==
  ASSUME Shape, Handshakes, Streams, HostReadsFinished, UNCHANGED negVars
  PROVE  Handshakes' /\ Streams'
  <1> DEFINE n == host.conn
             c == conns[n]
  <1>1. host.pc = "finished" /\ c.toHost # <<>>
    BY DEF HostReadsFinished
  <1>2. /\ ValidFinished(Head(c.toHost), host.key, "DisplayFinished", n, host.dn)
        /\ DoneOn(n) /\ host.key = token
    BY <1>1, FinishedFits
  <1>3. /\ host'.pc = "paired" /\ host'.key = host.key /\ host'.refused = host.refused
        /\ timed' = timed \ {"Host"} /\ UNCHANGED <<attempts, displayVars>> /\ Shape'
        /\ Touched(conns, conns', n, c.queued, c.toDisplay, Tail(c.toHost),
                   c.hostOpen, c.displayOpen)
    BY <1>2, ReadsFinishedShape
  <1>4. attempts' = attempts /\ server' = server /\ token' = token /\ host'.conn = n
    BY <1>3 DEF displayVars, Shape
  <1>5. /\ conns'[n].toDisplay = c.toDisplay /\ conns'[n].toHost = Tail(c.toHost)
        /\ \A k \in 1 .. MaxAttempts : conns'[k].queued = conns[k].queued
    BY <1>3 DEF Touched
  <1>6. attempts \in Nat /\ n = attempts /\ server.conn = n /\ server.pc \notin Serving
        /\ server.hn = n
    BY <1>2, PairingAssumption DEF Shape, DoneOn
  <1>7. OnBacklog' /\ OnNewCalls' /\ OnServerHello' /\ OnServerFinish'
    BY <1>4, <1>5, <1>6 DEF Handshakes, OnBacklog, OnNewCalls, OnServerHello, OnServerFinish, Serving
  <1>8. OnServed' /\ OnHostHello' /\ OnHostFinished'
    BY <1>3, <1>4, <1>6 DEF OnServed, OnHostHello, OnHostFinished
  <1>9. OnPaired'
    BY <1>2, <1>3, <1>4, <1>6 DEF Handshakes, OnPaired, DoneOn
  <1>10. Streams'
    <2>1. UNCHANGED <<neg, disp, hostSent, hostGot, dispSent, dispGot>> /\ neg.pc = "idle"
      BY <1>1 DEF negVars, Shape
    <2>2. hostGot = <<>> /\ Tail(c.toHost) = dispSent /\ Stream(dispSent)
      BY <1>1, <2>1 DEF Streams, Shape
    <2>3. dispSent = hostGot \o Tail(c.toHost)
      BY <2>2, StreamConcat
    <2> QED BY <1>3, <1>4, <1>5, <1>6, <2>1, <2>3 DEF Streams, Paired
  <1> QED BY <1>7, <1>8, <1>9, <1>10 DEF Handshakes

\* The display takes a call from its backlog.
LEMMA AcceptHandshakes ==
  ASSUME Shape, Handshakes, Streams, Accept, Backlog # {}, UNCHANGED negVars
  PROVE  Shape' /\ Handshakes' /\ Streams'
  <1>1. PICK n \in Backlog :
          /\ server' = [pc |-> "hello", conn |-> n, hn |-> 0]
          /\ conns' = [conns EXCEPT ![n].queued = FALSE]
          /\ timed' = timed \cup {"Display"}
    BY DEF Accept
  <1>2. UNCHANGED <<hostVars, valid, failed, expired>> /\ server.pc = "accept"
    BY DEF Accept
  <1>3. n \in 1 .. MaxAttempts /\ conns[n].queued
    BY DEF Backlog, Shape, ConnsShape
  <1>4. n = attempts /\ server.conn < n
    BY <1>3 DEF Handshakes, OnBacklog
  <1>5. n <= attempts
    BY <1>3, <1>4
  <1>6. Shape' /\ Kept(conns, conns') /\ ~conns'[n].queued
    BY <1>1, <1>2, <1>5, AcceptShape
  <1>7. /\ host' = host /\ attempts' = attempts /\ token' = token
        /\ server'.pc = "hello" /\ server'.conn = n
    BY <1>1, <1>2 DEF hostVars
  <1>8. \A k \in 1 .. MaxAttempts :
          /\ conns'[k].toDisplay = conns[k].toDisplay /\ conns'[k].toHost = conns[k].toHost
          /\ conns'[k].queued => conns[k].queued
    BY <1>6 DEF Kept
  <1>9. host.pc \in {"idle", "hello", "finished"}
        /\ (host.pc = "finished" => conns[host.conn].toHost = <<>>)
    BY <1>2, WhileServing DEF Serving
  <1>10. OnBacklog' /\ OnNewCalls'
    <2>1. \A k \in 1 .. MaxAttempts : ~conns'[k].queued
      BY <1>4, <1>6, <1>8 DEF Handshakes, OnBacklog
    <2>2. \A k \in 1 .. MaxAttempts : ~(n < k /\ k <= n)
      BY <1>3
    <2> QED BY <1>4, <1>7, <2>1, <2>2 DEF OnBacklog, OnNewCalls
  <1>11. OnServerHello'
    <2>1. Untouched(n)
      BY <1>3, <1>4, <1>5 DEF Handshakes, OnNewCalls
    <2>2. Untouched(n)'
      BY <1>3, <1>7, <1>8, <2>1 DEF Untouched, HH
    <2> QED BY <1>7, <2>2 DEF OnServerHello
  <1>12. OnServerFinish' /\ OnServed'
    BY <1>7 DEF OnServerFinish, OnServed
  <1>13. host.pc # "idle" => host.conn \in 1 .. MaxAttempts
    BY SocketsExist
  <1>14. OnHostHello'
    BY <1>7, <1>8, <1>13, SameRecords DEF Handshakes, OnHostHello
  <1>15. OnHostFinished' /\ OnPaired'
    BY <1>7, <1>8, <1>9, <1>13 DEF Handshakes, OnHostFinished, OnPaired
  <1>16. Streams'
    <2>1. UNCHANGED <<neg, disp, hostSent, hostGot, dispSent, dispGot>>
      BY DEF negVars
    <2> QED BY <1>2, <1>7, <1>8, <1>9, <1>13, <2>1 DEF Streams, Paired
  <1> QED BY <1>6, <1>10, <1>11, <1>12, <1>14, <1>15, <1>16 DEF Handshakes

\* The display answers a hello.
LEMMA AnswersHelloHandshakes ==
  ASSUME Shape, Handshakes, Streams, ServerReadsHello, ~HandshakeFails, UNCHANGED negVars
  PROVE  Shape' /\ Handshakes' /\ Streams'
  <1> DEFINE n == server.conn
             c == conns[n]
             r == Head(c.toDisplay)
  <1>1. server.pc = "hello" /\ c.toDisplay # <<>>
    BY DEF ServerReadsHello
  <1>2. n \in 1 .. MaxAttempts /\ n <= attempts /\ n \in Nat
    BY <1>1, SocketsExist DEF Shape
  <1>3. /\ Untouched(n) /\ c.toDisplay = <<HH(n)>> /\ c.toHost = <<>>
        /\ host.conn = n => host.pc \in {"idle", "hello"}
    BY <1>1 DEF Handshakes, OnServerHello, Untouched
  <1>4. r.nonce = n /\ Tail(c.toDisplay) = <<>>
    BY <1>3 DEF HH, Record
  <1>5. /\ UNCHANGED <<hostVars, valid, failed, expired, timed>>
        /\ HelloAnswered(r.nonce, Record("DisplayHello", n,
                                         PairingTag(token, "DisplayHello", r.nonce, n)))
    BY DEF ServerReadsHello, HelloAnswered
  <1>6. HelloAnswered(n, DH(n))
    BY <1>4, <1>5 DEF DH
  <1>7. /\ Shape' /\ server'.pc = "finish" /\ server'.conn = n /\ server'.hn = n
        /\ Touched(conns, conns', n, c.queued, Tail(c.toDisplay),
                   Append(c.toHost, DH(n)), c.hostOpen, c.displayOpen)
    BY <1>1, <1>5, <1>6, AnswersHelloShape
  <1>8. /\ conns'[n].toDisplay = <<>> /\ conns'[n].toHost = <<DH(n)>>
        /\ \A k \in 1 .. MaxAttempts : k # n => conns'[k] = conns[k]
        /\ \A k \in 1 .. MaxAttempts : conns'[k].queued = conns[k].queued
    <2>1. ASSUME NEW e PROVE Append(<<>>, e) = <<e>>
      OBVIOUS
    <2> QED BY <1>3, <1>4, <1>7, <2>1 DEF Touched
  <1>9. host' = host /\ attempts' = attempts /\ token' = token
    BY <1>5 DEF hostVars
  <1>10. host.pc \in {"idle", "hello", "finished"}
        /\ (host.pc = "finished" => conns[host.conn].toHost = <<>>)
    BY <1>1, WhileServing DEF Serving
  <1>11. host.pc # "idle" => host.conn \in 1 .. MaxAttempts
    BY SocketsExist
  <1>12. OnBacklog'
    BY <1>1, <1>2, <1>7, <1>8, <1>9 DEF Handshakes, OnBacklog, Serving
  <1>13. OnNewCalls'
    <2>1. \A k \in 1 .. MaxAttempts : k # n /\ Untouched(k) => Untouched(k)'
      BY <1>8, <1>9 DEF Untouched, HH
    <2> QED BY <1>2, <1>7, <1>9, <2>1 DEF Handshakes, OnNewCalls
  <1>14. OnServerHello' /\ OnServed'
    BY <1>7 DEF OnServerHello, OnServed
  <1>15. OnServerFinish'
    BY <1>3, <1>7, <1>8, <1>9, SameRecords DEF OnServerFinish
  <1>16. OnHostHello'
    <2>1. CASE host.conn = n
      BY <1>8, <1>9, <2>1, SameRecords DEF OnHostHello
    <2>2. CASE host.conn # n
      BY <1>8, <1>9, <1>11, <2>2, SameRecords DEF Handshakes, OnHostHello
    <2> QED BY <2>1, <2>2
  <1>17. OnHostFinished' /\ OnPaired'
    BY <1>3, <1>8, <1>9, <1>10, <1>11 DEF Handshakes, OnHostFinished, OnPaired
  <1>18. Streams'
    <2>1. UNCHANGED <<neg, disp, hostSent, hostGot, dispSent, dispGot>>
      BY DEF negVars
    <2> QED BY <1>1, <1>3, <1>7, <1>8, <1>9, <1>10, <1>11, <2>1 DEF Streams, Paired
  <1> QED BY <1>7, <1>12, <1>13, <1>14, <1>15, <1>16, <1>17, <1>18 DEF Handshakes

\* The display accepts the host.
LEMMA AnswersFinishedHandshakes ==
  ASSUME Shape, Handshakes, Streams, ServerReadsFinished, ~HandshakeFails, UNCHANGED negVars
  PROVE  Shape' /\ Handshakes' /\ Streams'
  <1> DEFINE n == server.conn
             c == conns[n]
  <1>1. server.pc = "finish" /\ c.toDisplay # <<>>
    BY DEF ServerReadsFinished
  <1>2. n \in 1 .. MaxAttempts /\ n <= attempts /\ n \in Nat
    BY <1>1, SocketsExist DEF Shape
  <1>3. /\ server.hn = n /\ c.toDisplay = <<HF(n)>>
        /\ host.conn = n => \/ host.pc = "idle"
                            \/ host.pc = "finished" /\ c.toHost = <<>>
    BY <1>1 DEF Handshakes, OnServerFinish
  <1>4. /\ UNCHANGED <<hostVars, failed, expired>> /\ timed' = timed \ {"Display"}
        /\ ServeReturns("Authenticated",
             [conns EXCEPT ![server.conn].toDisplay = Unread(@),
                           ![server.conn].toHost =
                              Append(@, FinishedRecord(token, "DisplayFinished", server.hn, n))])
    BY Zenon DEF ServerReadsFinished
  <1>5. FinishedRecord(token, "DisplayFinished", server.hn, n) = DF(n)
    BY <1>3 DEF DF
  <1>6. ServeReturns("Authenticated",
             [conns EXCEPT ![server.conn].toDisplay = Unread(@),
                           ![server.conn].toHost = Append(@, DF(n))])
    BY <1>4, <1>5
  <1>7. /\ Shape' /\ server'.pc = "Authenticated" /\ server'.conn = server.conn
        /\ server'.hn = server.hn
        /\ \A k \in 1 .. MaxAttempts :
             /\ ~conns'[k].queued
             /\ k # server.conn => /\ conns'[k].toDisplay = conns[k].toDisplay
                                   /\ conns'[k].toHost = conns[k].toHost
        /\ conns'[n].toDisplay = Tail(c.toDisplay)
        /\ conns'[n].toHost = Append(c.toHost, DF(n))
    BY <1>1, <1>4, <1>6, AnswersFinishedShape
  <1>8. conns'[n].toDisplay = <<>>
    BY <1>3, <1>7
  <1>9. host.conn = n /\ host.pc = "finished" => conns'[n].toHost = <<DF(n)>>
    <2>1. ASSUME NEW e PROVE Append(<<>>, e) = <<e>>
      OBVIOUS
    <2> QED BY <1>3, <1>7, <2>1
  <1>10. host' = host /\ attempts' = attempts /\ token' = token
    BY <1>4 DEF hostVars
  <1>11. /\ host.pc \in {"idle", "hello", "finished"} /\ neg.pc = "idle"
         /\ host.pc = "finished" => conns[host.conn].toHost = <<>>
    BY <1>1, WhileServing DEF Serving
  <1>12. host.pc # "idle" => host.conn \in 1 .. MaxAttempts
    BY SocketsExist
  <1>13. OnBacklog' /\ OnServerHello' /\ OnServerFinish'
    BY <1>7 DEF OnBacklog, OnServerHello, OnServerFinish
  <1>14. OnNewCalls'
    <2>1. \A k \in 1 .. MaxAttempts : k # n /\ Untouched(k) => Untouched(k)'
      BY <1>7, <1>10 DEF Untouched, HH
    <2> QED BY <1>2, <1>7, <1>10, <2>1 DEF Handshakes, OnNewCalls
  <1>15. OnServed'
    BY <1>3, <1>7, <1>9, <1>10 DEF OnServed
  <1>16. OnHostHello'
    BY <1>3, <1>7, <1>10, <1>12, SameRecords DEF Handshakes, OnHostHello
  <1>17. OnHostFinished'
    <2>1. CASE host.conn = n
      <3>1. DoneOn(host.conn)'
        BY <1>3, <1>7, <1>10, <2>1 DEF DoneOn, Serving
      <3>2. host.pc = "finished" => Head(conns'[n].toHost) = DF(n)
        BY <1>9, <2>1
      <3> QED BY <1>10, <2>1, <3>1, <3>2, SameRecords DEF Handshakes, OnHostFinished
    <2>2. CASE host.conn # n
      BY <1>7, <1>10, <1>11, <1>12, <2>2 DEF Handshakes, OnHostFinished
    <2> QED BY <2>1, <2>2
  <1>18. OnPaired'
    BY <1>10, <1>11 DEF Handshakes, OnPaired
  <1>19. Streams'
    <2>1. UNCHANGED <<neg, disp, hostSent, hostGot, dispSent, dispGot>>
      BY DEF negVars
    <2>2. hostSent = <<>> /\ dispSent = <<>> /\ dispGot = <<>> /\ Fresh(disp)
      BY <1>1, <1>11 DEF Streams
    <2>3. hostSent = dispGot \o conns'[n].toDisplay
      BY <1>8, <2>2, EmptyStream, StreamConcat
    <2>4. host.pc = "finished" /\ conns'[host.conn].toHost # <<>> =>
            Tail(conns'[host.conn].toHost) = <<>>
      <3>1. CASE host.conn = n
        <4>1. ASSUME NEW e PROVE Tail(<<e>>) = <<>>
          OBVIOUS
        <4> QED BY <1>9, <3>1, <4>1
      <3>2. CASE host.conn # n
        BY <1>7, <1>11, <1>12, <3>2
      <3> QED BY <3>1, <3>2
    <2> QED BY <1>7, <1>10, <1>11, <2>1, <2>2, <2>3, <2>4 DEF Streams, Paired
  <1> QED BY <1>7, <1>13, <1>14, <1>15, <1>16, <1>17, <1>18, <1>19 DEF Handshakes

\* More behind a stream that is not empty.
LEMMA StreamFront ==
  ASSUME NEW s, NEW t, Stream(s), Stream(t), s # <<>>
  PROVE  s \o t # <<>> /\ Head(s \o t) = Head(s) /\ Tail(s \o t) = Tail(s) \o t
  <1>1. PICK S : s \in Seq(S) /\ t \in Seq(S) /\ 0 \in S
    BY CommonSet
  <1> QED BY <1>1

\* Writing behind what is under way.
LEMMA StreamBehind ==
  ASSUME NEW r, NEW s, NEW t, Stream(r), Stream(s), Stream(t)
  PROVE  (r \o s) \o t = r \o (s \o t)
  <1>1. PICK A : r \in Seq(A) /\ s \in Seq(A) /\ 0 \in A
    BY CommonSet
  <1>2. PICK B : t \in Seq(B)
    BY DEF Stream
  <1> DEFINE S == A \cup B
  <1>3. r \in Seq(S) /\ s \in Seq(S) /\ t \in Seq(S)
    <2>1. A \subseteq S /\ B \subseteq S
      OBVIOUS
    <2> HIDE DEF S
    <2> QED BY <1>1, <1>2, <2>1
  <1> HIDE DEF S
  <1> QED BY <1>3

\* The display's steps on the authenticated socket.
LEMMA DisplayTalksHandshakes ==
  ASSUME Shape, Handshakes, Streams, DisplayTalks
  PROVE  Handshakes' /\ Streams'
  <1> DEFINE n == server.conn
             td == conns[n].toDisplay
             th == conns[n].toHost
  <1>1. /\ UNCHANGED <<attempts, host, token, timed, neg, hostSent, hostGot>>
        /\ server.pc \in {"begun", "active"} /\ server'.pc = "active"
        /\ server'.conn = n /\ server'.hn = server.hn
        /\ \A k \in 1 .. MaxAttempts : k # n => conns'[k] = conns[k]
        /\ \A k \in 1 .. MaxAttempts : conns'[k].queued = conns[k].queued
    BY DEF DisplayTalks
  <1>2. PICK w : /\ Stream(w) /\ conns'[n].toHost = th \o w
                 /\ dispSent' = IF server.pc = "begun" THEN w ELSE dispSent \o w
    BY DEF DisplayTalks
  <1>3. /\ n \in 1 .. MaxAttempts /\ Stream(td) /\ Stream(th)
        /\ Stream(hostSent) /\ Stream(hostGot) /\ Stream(dispSent) /\ Stream(dispGot)
    BY <1>1, SocketsExist DEF Shape
  <1>4. dispSent' = dispSent \o w
    <2>1. CASE server.pc = "begun"
      <3>1. dispSent = <<>>
        BY <2>1 DEF Streams
      <3>2. <<>> \o w = w
        BY <1>2, EmptyStream, StreamConcat
      <3> QED BY <1>2, <2>1, <3>1, <3>2
    <2>2. CASE server.pc # "begun"
      BY <1>2, <2>2
    <2> QED BY <2>1, <2>2
  <1>5. server.hn = n /\ (host.conn = n => host.pc # "hello" /\ (host.pc = "finished" => th # <<>>))
    BY <1>1 DEF Handshakes, OnServed
  <1>6. th # <<>> => /\ conns'[n].toHost # <<>> /\ Head(conns'[n].toHost) = Head(th)
                     /\ Tail(conns'[n].toHost) = Tail(th) \o w
    BY <1>2, <1>3, StreamFront
  <1>7. host.pc # "idle" => host.conn \in 1 .. MaxAttempts
    BY SocketsExist
  <1>8. DoneOn(host.conn) => DoneOn(host.conn)' /\ host.conn = n
    BY <1>1 DEF DoneOn, Serving
  <1>9. OnBacklog' /\ OnServerHello' /\ OnServerFinish'
    BY <1>1 DEF Handshakes, OnBacklog, OnServerHello, OnServerFinish, Serving
  <1>10. OnNewCalls'
    <2>1. \A k \in 1 .. MaxAttempts : k # n /\ Untouched(k) => Untouched(k)'
      BY <1>1 DEF Untouched, HH
    <2> QED BY <1>1, <1>3, <2>1 DEF Handshakes, OnNewCalls
  <1>11. OnServed'
    BY <1>1, <1>5, <1>6 DEF OnServed
  <1>12. OnHostHello'
    BY <1>1, <1>5, <1>7, SameRecords DEF Handshakes, OnHostHello
  <1>13. OnHostFinished'
    <2>1. CASE host.conn = n
      BY <1>1, <1>5, <1>6, <1>8, <2>1, SameRecords DEF Handshakes, OnHostFinished
    <2>2. CASE host.conn # n
      BY <1>1, <1>7, <1>8, <2>2 DEF Handshakes, OnHostFinished
    <2> QED BY <2>1, <2>2
  <1>14. OnPaired'
    BY <1>1, <1>8 DEF Handshakes, OnPaired
  <1>15. host.pc = "finished" /\ conns'[host.conn].toHost # <<>> =>
           Tail(conns'[host.conn].toHost) = dispSent'
    <2>1. CASE host.conn = n
      BY <1>4, <1>5, <1>6, <2>1 DEF Streams
    <2>2. CASE host.conn # n
      BY <1>1, <1>7, <1>8, <2>2 DEF Handshakes, OnHostFinished
    <2> QED BY <2>1, <2>2
  <1>16. Paired => dispSent' = hostGot \o conns'[host.conn].toHost
    <2>1. ASSUME Paired PROVE host.conn = n /\ dispSent = hostGot \o th
      BY <1>8, <2>1 DEF Streams, Paired, Handshakes, OnPaired
    <2>2. (hostGot \o th) \o w = hostGot \o (th \o w)
      <3>1. Stream(hostGot) /\ Stream(th) /\ Stream(w)
        BY <1>2, <1>3
      <3> HIDE DEF th
      <3>2. ASSUME NEW r, NEW s, NEW t, Stream(r) /\ Stream(s) /\ Stream(t)
            PROVE  (r \o s) \o t = r \o (s \o t)
        BY <3>2, StreamBehind
      <3> QED BY <3>1, <3>2
    <2> QED BY <1>2, <1>4, <2>1, <2>2
  <1>17. /\ hostSent = dispGot' \o conns'[n].toDisplay
         /\ IsPrefix(dispGot', hostSent)
    <2>1. hostSent = dispGot \o td /\ IsPrefix(dispGot, hostSent)
      BY <1>1 DEF Streams
    <2>2. CASE dispGot' = dispGot /\ conns'[n].toDisplay = td
      BY <2>1, <2>2
    <2>3. CASE /\ td # <<>> /\ dispGot' = Append(dispGot, Head(td))
               /\ conns'[n].toDisplay = Tail(td)
      <3>1. hostSent = dispGot' \o Tail(td) /\ Stream(Tail(td)) /\ Stream(dispGot')
        BY <1>3, <2>1, <2>3, StreamReads, StreamGrows
      <3> QED BY <2>3, <3>1, PrefixOf
    <2> QED BY <2>2, <2>3 DEF DisplayTalks
  <1>18. IsPrefix(hostGot, dispSent')
    BY <1>2, <1>3, <1>4, PrefixGrows DEF Streams
  <1>19. Streams'
    BY <1>1, <1>15, <1>16, <1>17, <1>18 DEF Streams, Paired
  <1> QED BY <1>9, <1>10, <1>11, <1>12, <1>13, <1>14, <1>19 DEF Handshakes

-----------------------------------------------------------------------------
\* The part of the inductive invariant that pairing needs.
Base == Shape /\ Handshakes /\ Streams

\* A step that leaves negotiation and session alone.
Aside ==
    /\ UNCHANGED <<neg, hostSent, hostGot, dispSent, dispGot, request, display>>
    /\ SessionKept
    /\ server'.pc = "active" => server.pc = "active"

\* The initial states.
LEMMA BaseInit == Init => Base
  <1> SUFFICES ASSUME Init PROVE Handshakes /\ Streams
    BY ShapeInit DEF Base
  <1>1. /\ host.pc = "idle" /\ ~host.refused /\ server.pc = "head" /\ server.conn = 0
        /\ attempts = 0 /\ \A k \in 1 .. MaxAttempts : ~conns[k].queued
    BY DEF Init, PairInit, NoConn
  <1>2. Handshakes
    <2>1. \A k \in 1 .. MaxAttempts : ~(0 < k /\ k <= 0)
      BY PairingAssumption
    <2> QED BY <1>1, <2>1 DEF Handshakes, OnBacklog, OnNewCalls, OnServerHello, OnServerFinish,
                              OnServed, OnHostHello, OnHostFinished, OnPaired
  <1>3. Streams
    <2>1. /\ neg = NoHandshake /\ hostSent = <<>> /\ hostGot = <<>> /\ dispSent = <<>>
          /\ dispGot = <<>> /\ Fresh(disp)
      BY DEF Init, NoSession, Fresh
    <2>2. IsPrefix(<<>>, <<>>)
      <3>1. <<>> \o <<>> = <<>>
        BY EmptyStream, StreamConcat
      <3> QED BY <3>1, EmptyStream, PrefixOf
    <2> QED BY <1>1, <2>1, <2>2 DEF Streams, Paired
  <1> QED BY <1>2, <1>3

\* The host's steps of pairing.
LEMMA HostPairingKeepsBase ==
  ASSUME Base, UNCHANGED negVars,
         \/ \E code \in Typed : Pair(code)
         \/ HostReadsHello \/ HostReadsFinished \/ HostReadFails
  PROVE  Base' /\ Aside
  <1>1. Shape /\ Handshakes /\ Streams /\ UNCHANGED Rest
    BY DEF Base, negVars, Rest
  <1>2. CASE \E code \in Typed : Pair(code)
    <2>1. PICK code \in Typed : Pair(code)
      BY <1>2
    <2>2. server' = server
      BY <2>1 DEF Pair, displayVars
    <2> QED BY <1>1, <2>1, <2>2, PairShape, PairHandshakes DEF Base, Aside, SessionKept, Rest
  <1>3. CASE HostReadsHello
    <2>1. CASE ValidDisplayHello(Head(conns[host.conn].toHost), host.key, host.conn)
      <3>1. Shape' /\ server' = server
        BY <1>1, <1>3, <2>1, ReadsHelloShape DEF displayVars
      <3> QED BY <1>1, <1>3, <2>1, <3>1, ReadsHelloHandshakes DEF Base, Aside, SessionKept, Rest
    <2>2. CASE ~ValidDisplayHello(Head(conns[host.conn].toHost), host.key, host.conn)
      <3>1. HostFails(TRUE) /\ host.pc = "hello" /\ conns[host.conn].toHost # <<>>
        BY <1>3, <2>2 DEF HostReadsHello
      <3>2. host.key # token
        BY <1>1, <2>2, <3>1, HelloFits
      <3>3. server' = server /\ Flag(TRUE)
        BY <3>1 DEF HostFails, displayVars, Flag
      <3>4. Shape'
        BY <1>1, <3>1, <3>3, HostFailsShape
      <3>5. Handshakes' /\ Streams'
        BY <1>1, <3>1, <3>2, <3>3, HostFailsHandshakes
      <3> QED BY <1>1, <3>3, <3>4, <3>5 DEF Base, Aside, SessionKept, Rest
    <2> QED BY <2>1, <2>2
  <1>4. CASE HostReadsFinished
    <2>1. ValidFinished(Head(conns[host.conn].toHost), host.key, "DisplayFinished",
                        host.conn, host.dn)
      BY <1>1, <1>4, FinishedFits DEF HostReadsFinished
    <2>2. Shape' /\ server' = server
      BY <1>1, <1>4, <2>1, ReadsFinishedShape DEF displayVars
    <2> QED BY <1>1, <1>4, <2>2, ReadsFinishedHandshakes DEF Base, Aside, SessionKept, Rest
  <1>5. CASE HostReadFails
    <2>1. HostFails(FALSE) /\ host.pc \in {"hello", "finished", "paired"}
      BY <1>5 DEF HostReadFails
    <2>2. server' = server /\ Flag(FALSE)
      BY <2>1 DEF HostFails, displayVars, Flag
    <2>3. Shape'
      BY <1>1, <2>1, <2>2, HostFailsShape
    <2>4. Handshakes' /\ Streams'
      BY <1>1, <2>1, <2>2, HostFailsHandshakes
    <2> QED BY <1>1, <2>2, <2>3, <2>4 DEF Base, Aside, SessionKept, Rest
  <1> QED BY <1>2, <1>3, <1>4, <1>5

\* A quiet step leaves negotiation and session alone.
LEMMA QuietAside ==
  ASSUME Base, Quiet
  PROVE  Base' /\ Aside
  <1>1. Shape /\ Handshakes /\ Streams /\ Shape'
    BY DEF Base, Quiet
  <1>2. Handshakes' /\ Streams'
    BY <1>1, QuietHandshakes, QuietStreams
  <1> QED BY <1>1, <1>2 DEF Base, Quiet, Aside

\* The display's steps of pairing.
LEMMA DisplayPairingKeepsBase ==
  ASSUME Base, UNCHANGED negVars,
         \/ LoopHead \/ Accept \/ AcceptClosed
         \/ ServerReadsHello \/ ServerReadsFinished \/ ServerReadFails
         \/ Expire \/ OnIoThread
  PROVE  Base' /\ Aside
  <1>1. Shape /\ Handshakes /\ Streams /\ UNCHANGED Rest
    BY DEF Base, negVars, Rest
  <1>2. CASE LoopHead
    BY <1>1, <1>2, LoopHeadQuiet, QuietAside
  <1>3. CASE Accept
    <2>1. CASE Backlog = {}
      <3>1. /\ server.pc = "accept" /\ server' = [server EXCEPT !.pc = "head"]
            /\ UNCHANGED <<conns, timed>> /\ UNCHANGED <<hostVars, valid, failed, expired>>
        BY <1>3, <2>1 DEF Accept
      <3> QED BY <1>1, <3>1, AcceptQuiet, QuietAside
    <2>2. CASE Backlog # {}
      <3>1. server'.pc = "hello"
        BY <1>3, <2>2 DEF Accept
      <3> QED BY <1>1, <1>3, <2>2, <3>1, AcceptHandshakes DEF Base, Aside, SessionKept, Rest
    <2> QED BY <2>1, <2>2
  <1>4. CASE AcceptClosed
    BY <1>1, <1>4, AcceptClosedQuiet, QuietAside
  <1>5. CASE HandshakeFails /\ server.pc \in {"hello", "finish"}
    BY <1>1, <1>5, HandshakeFailsQuiet, QuietAside
  <1>6. CASE ServerReadsHello /\ ~HandshakeFails
    <2>1. server'.pc = "finish"
      <3>1. server' = [server EXCEPT !.pc = "finish", !.hn = Head(conns[server.conn].toDisplay).nonce]
        BY <1>6 DEF ServerReadsHello
      <3>2. ServerShape(server)
        BY <1>1 DEF Shape
      <3> QED BY <3>1, <3>2 DEF ServerShape
    <2> QED BY <1>1, <1>6, <2>1, AnswersHelloHandshakes DEF Base, Aside, SessionKept, Rest
  <1>7. CASE ServerReadsFinished /\ ~HandshakeFails
    <2>1. server'.pc = "Authenticated"
      <3>1. server' = [server EXCEPT !.pc = "Authenticated"]
        BY <1>7, Zenon DEF ServerReadsFinished, ServeReturns
      <3>2. ServerShape(server)
        BY <1>1 DEF Shape
      <3> QED BY <3>1, <3>2 DEF ServerShape
    <2> QED BY <1>1, <1>7, <2>1, AnswersFinishedHandshakes DEF Base, Aside, SessionKept, Rest
  <1>8. CASE Expire \/ OnIoThread
    BY <1>1, <1>8, ExpireQuiet, QuietAside
  <1>9. /\ ServerReadsHello => server.pc = "hello"
        /\ ServerReadsFinished => server.pc = "finish"
        /\ ServerReadFails => HandshakeFails /\ server.pc \in {"hello", "finish"}
    BY DEF ServerReadsHello, ServerReadsFinished, ServerReadFails
  <1> QED BY <1>2, <1>3, <1>4, <1>5, <1>6, <1>7, <1>8, <1>9

\* Everything else.
HostTalk ==
    \/ Start \/ HostSends \/ HostAccepts \/ NegotiationFails \/ StartStream
    \/ HostStreams \/ HostHears \/ SessionEnds \/ Unplug
DisplayTalk == Activate \/ DisplayReads \/ DisplayReports

\* The host's and the display's steps on the authenticated socket.
LEMMA TalkTalks ==
  ASSUME Shape
  PROVE  (HostTalk => Talks) /\ (DisplayTalk => DisplayTalks)
  <1>1. ASSUME HostTalk PROVE Talks
    <2>1. CASE StartStream
      BY <2>1, FailuresTalk, StartStreamTalks
    <2>2. CASE HostAccepts
      BY <2>2, HostAcceptsTalks
    <2>3. CASE HostHears
      BY <2>3, HostHearsTalks
    <2>4. CASE HostSends \/ HostStreams
      BY <2>4, HostSendsTalks, HostStreamsTalks
    <2>5. CASE Start \/ NegotiationFails \/ SessionEnds \/ Unplug
      BY <2>5, StartTalks, FailuresTalk, UnplugTalks
    <2> QED BY <1>1, <2>1, <2>2, <2>3, <2>4, <2>5 DEF HostTalk
  <1>2. ASSUME DisplayTalk PROVE DisplayTalks
    BY <1>2, ActivateTalks, DisplayReadsTalks, DisplayReportsTalks DEF DisplayTalk
  <1> QED BY <1>1, <1>2

\* They keep it too.
LEMMA TalkKeepsBase ==
  ASSUME Base, HostTalk \/ DisplayTalk
  PROVE  Base'
  <1>1. Shape /\ Handshakes /\ Streams
    BY DEF Base
  <1>2. CASE Talks
    BY <1>1, <1>2, TalksHandshakes, TalksStreams DEF Base, Talks
  <1>3. CASE DisplayTalks
    BY <1>1, <1>3, DisplayTalksHandshakes DEF Base, DisplayTalks
  <1> QED BY <1>1, <1>2, <1>3, TalkTalks

\* The kinds of steps.
LEMMA Steps ==
  ASSUME Base, Next
  PROVE  Base' /\ (Aside \/ HostTalk \/ DisplayTalk)
  <1>1. CASE Pairs
    BY <1>1, HostPairingKeepsBase, DisplayPairingKeepsBase DEF Pairs, PairNext
  <1>2. CASE StopDisplay \/ DisplayReadEnds \/ BeginHandshake \/ DecoderChanges
    <2>1. Quiet
      BY <1>2, StopDisplayQuiet, DisplayReadEndsQuiet, BeginHandshakeQuiet, DecoderChangesQuiet DEF Base
    <2> QED BY <2>1, QuietAside
  <1>3. CASE HostTalk \/ DisplayTalk
    BY <1>3, TalkKeepsBase
  <1> QED BY <1>1, <1>2, <1>3 DEF Next, HostTalk, DisplayTalk

\* A step that changes nothing.
LEMMA Stutter ==
  ASSUME Base, UNCHANGED vars
  PROVE  Base' /\ Aside
  <1>1. /\ UNCHANGED <<conns, attempts, host, server, token, valid, failed, expired, stopped, timed>>
        /\ UNCHANGED <<request, display, neg, disp, hostSent, hostGot, dispSent, dispGot>>
    BY DEF vars, pairVars, negVars
  <1>2. Quiet
    <2>1. Shape'
      BY <1>1 DEF Base, Shape
    <2>2. Kept(conns, conns')
      BY <1>1, KeptSame DEF Base, Shape
    <2> QED BY <1>1, <2>1, <2>2 DEF Quiet, SessionKept, Serving
  <1> QED BY <1>2, QuietAside

\* What is needed to prove HandoverIsExact holds always.
THEOREM BaseAlways == Spec => []Base
  <1>1. Base /\ [Next]_vars => Base'
    BY Steps, Stutter
  <1> QED BY <1>1, BaseInit, PTL DEF Spec

(***************************************************************************)
(* HandoverIsExact holds for every number of attempts, every token, every  *)
(* request and every display: what the two ends of the handed-over socket  *)
(* read is what the other end wrote, from its first LDFL frame on, and the *)
(* pairing deadline of tether.rs is off once the host is paired.           *)
(***************************************************************************)
THEOREM HandoverExact == Spec => []HandoverIsExact
  <1>1. Base => HandoverIsExact
    <2> SUFFICES ASSUME Base PROVE HandoverIsExact
      OBVIOUS
    <2>1. Paired => "Host" \notin timed
      BY DEF Base, Handshakes, OnPaired, Paired
    <2>2. IsPrefix(hostGot, dispSent) /\ IsPrefix(dispGot, hostSent)
      BY DEF Base, Streams
    <2>3. ASSUME host.pc = "session", server.pc = "active"
          PROVE  /\ dispSent = hostGot \o conns[host.conn].toHost
                 /\ hostSent = dispGot \o conns[host.conn].toDisplay
      <3>1. server.conn = host.conn
        BY <2>3 DEF Base, Handshakes, OnPaired, DoneOn
      <3> QED BY <2>3, <3>1 DEF Base, Streams, Paired
    <2> QED BY <2>1, <2>2, <2>3 DEF HandoverIsExact
  <1> QED BY <1>1, BaseAlways, PTL

-----------------------------------------------------------------------------
(***************************************************************************)
(* What the two streams say.                                               *)
(***************************************************************************)
\* The elements of a stream that has grown by one.
LEMMA Appended ==
  ASSUME NEW s, Stream(s), NEW e, NEW i \in DOMAIN Append(s, e)
  PROVE  \/ i \in DOMAIN s /\ Append(s, e)[i] = s[i]
         \/ i = Len(s) + 1 /\ Append(s, e)[i] = e
  <1>1. PICK S : s \in Seq(S) /\ e \in S
    BY CommonSet
  <1>2. /\ Len(s) \in Nat /\ DOMAIN s = 1 .. Len(s) /\ DOMAIN Append(s, e) = 1 .. Len(s) + 1
        /\ Append(s, e)[Len(s) + 1] = e
        /\ \A k \in 1 .. Len(s) : Append(s, e)[k] = s[k]
    BY <1>1
  <1>3. i \in 1 .. Len(s) \/ i = Len(s) + 1
    BY <1>2
  <1> QED BY <1>2, <1>3

\* The next element to be read.
LEMMA NextOf ==
  ASSUME NEW s, NEW t, NEW u, Stream(s), Stream(t), t # <<>>, u = s \o t
  PROVE  Len(s) + 1 \in DOMAIN u /\ u[Len(s) + 1] = Head(t) /\ Len(s) < Len(u)
  <1>1. PICK S : s \in Seq(S) /\ t \in Seq(S) /\ 0 \in S
    BY CommonSet
  <1>2. /\ Len(s) \in Nat /\ Len(t) \in Nat /\ Len(t) # 0
        /\ DOMAIN (s \o t) = 1 .. Len(s) + Len(t) /\ Len(s \o t) = Len(s) + Len(t)
        /\ \A k \in 1 .. Len(s) + Len(t) : (s \o t)[k] = IF k <= Len(s) THEN s[k] ELSE t[k - Len(s)]
    BY <1>1
  <1>3. Head(t) = t[1]
    BY <1>1
  <1>4. Len(s) + 1 \in 1 .. Len(s) + Len(t) /\ ~(Len(s) + 1 <= Len(s)) /\ (Len(s) + 1) - Len(s) = 1
        /\ Len(s) < Len(s) + Len(t)
    BY <1>2
  <1> QED BY <1>2, <1>3, <1>4

\* The display's stream: others leave it alone.
LEMMA DisplaySaysAside ==
  ASSUME Base, DisplaySays, Aside \/ HostTalk
  PROVE  DisplaySays'
  <1>1. dispSent' = dispSent /\ display' = display /\ (server'.pc = "active" => server.pc = "active")
    <2>1. CASE Aside
      BY <2>1 DEF Aside
    <2>2. CASE HostTalk
      BY <2>2, TalkTalks DEF Base, Talks
    <2> QED BY <2>1, <2>2
  <1> QED BY <1>1 DEF DisplaySays, DisplayFrame, DisplayCapabilities, DisplayHello

\* What the display writes.
LEMMA DisplaySaysTalk ==
  ASSUME Base, DisplaySays, DisplayTalk
  PROVE  DisplaySays'
  <1>1. Shape /\ Stream(dispSent)
    BY DEF Base, Shape
  <1>2. Len(dispSent) \in Nat
    BY <1>1, StreamLen
  <1>3. display' = display
    BY <1>1, TalkTalks DEF DisplayTalks
  <1>4. \A i, f : DisplayFrame(i, f)' <=> DisplayFrame(i, f)
    BY <1>3 DEF DisplayFrame, DisplayCapabilities, DisplayHello
  <1>5. ASSUME server.pc = "active", NEW f, f.type \in {"Ping", "Telemetry", "Error"},
               dispSent' = Append(dispSent, f)
        PROVE  DisplaySays'
    <2>1. Len(dispSent) >= 2 /\ Len(dispSent') = Len(dispSent) + 1
      BY <1>1, <1>5, StreamGrows DEF DisplaySays
    <2>2. ASSUME NEW i \in DOMAIN dispSent' PROVE DisplayFrame(i, dispSent[i])'
      <3>1. \/ i \in DOMAIN dispSent /\ dispSent'[i] = dispSent[i]
            \/ i = Len(dispSent) + 1 /\ dispSent'[i] = f
        BY <1>1, <1>5, <2>2, Appended
      <3>2. i = Len(dispSent) + 1 => DisplayFrame(i, f)
        BY <1>2, <1>5, <2>1 DEF DisplayFrame
      <3> QED BY <1>4, <3>1, <3>2 DEF DisplaySays
    <2> QED BY <1>2, <2>1, <2>2 DEF DisplaySays
  <1>6. CASE Activate
    <2>1. dispSent' = <<Frame("Hello", 0, DisplayHello), Frame("Capabilities", 1, DisplayCapabilities)>>
      BY <1>1, <1>6, ActivateTalks
    <2>2. ASSUME NEW a, NEW b, dispSent' = <<a, b>>
          PROVE  /\ Len(dispSent') = 2 /\ DOMAIN dispSent' = 1 .. 2
                 /\ dispSent'[1] = a /\ dispSent'[2] = b
      BY <2>2
    <2>3. /\ Len(dispSent') = 2 /\ DOMAIN dispSent' = 1 .. 2
          /\ dispSent'[1] = Frame("Hello", 0, DisplayHello)
          /\ dispSent'[2] = Frame("Capabilities", 1, DisplayCapabilities)
      BY <2>1, <2>2
    <2>4. ASSUME NEW i \in DOMAIN dispSent' PROVE DisplayFrame(i, dispSent[i])'
      <3>1. i = 1 \/ i = 2
        BY <2>3
      <3>2. DisplayFrame(1, dispSent'[1]) /\ DisplayFrame(2, dispSent'[2])
        BY <2>3 DEF DisplayFrame
      <3> QED BY <1>4, <3>1, <3>2
    <2> QED BY <2>3, <2>4 DEF DisplaySays
  <1>7. CASE DisplayReports
    <2>1. /\ server.pc = "active"
          /\ \/ dispSent' = Append(dispSent, Frame("Ping", Len(dispSent), None))
             \/ dispSent' = Append(dispSent, Frame("Telemetry", Len(dispSent),
                                     [frame |-> disp.pics.released, dropped |-> disp.pics.dropped]))
      BY <1>1, <1>7, DisplayReportsTalks
    <2>2. /\ Frame("Ping", Len(dispSent), None).type = "Ping"
          /\ Frame("Telemetry", Len(dispSent),
                   [frame |-> disp.pics.released, dropped |-> disp.pics.dropped]).type = "Telemetry"
      BY DEF Frame
    <2> QED BY <1>5, <2>1, <2>2
  <1>8. CASE DisplayReads
    <2>1. /\ server.pc = "active"
          /\ (\E why : Reject(why)) \/ (\E d : DispShape(d) /\ Accepts(d))
          /\ \A why : Reject(why) => Refuses(why)
          /\ \A d : DispShape(d) /\ Accepts(d) => Takes(d)
      BY <1>1, <1>8, DisplayReadsTalks
    <2>2. ASSUME NEW why, Refuses(why) PROVE DisplaySays'
      <3>1. dispSent' = Append(dispSent, Frame("Error", Len(dispSent), why))
        BY <2>2 DEF Refuses
      <3>2. Frame("Error", Len(dispSent), why).type = "Error"
        BY DEF Frame
      <3> QED BY <1>5, <2>1, <3>1, <3>2
    <2>3. ASSUME NEW d, Takes(d) PROVE DisplaySays'
      <3>1. dispSent' = dispSent
        BY <2>3 DEF Takes
      <3> QED BY <1>4, <2>1, <3>1 DEF DisplaySays
    <2> QED BY <2>1, <2>2, <2>3, Zenon
  <1> QED BY <1>6, <1>7, <1>8 DEF DisplayTalk

\* What the host's stream is measured against depends on the two ends only.
LEMMA SameOffer ==
  ASSUME request' = request, display' = display
  PROVE  /\ HostCapabilities' = HostCapabilities /\ DisplayCapabilities' = DisplayCapabilities
         /\ Offer' = Offer /\ HostHello' = HostHello /\ DisplayHello' = DisplayHello
         /\ \A c : (c \in SelectConfig(request, Offer))' <=> c \in SelectConfig(request, Offer)
  <1>1. /\ HostCapabilities' = HostCapabilities /\ DisplayCapabilities' = DisplayCapabilities
        /\ HostHello' = HostHello /\ DisplayHello' = DisplayHello
    BY DEF HostCapabilities, DisplayCapabilities, HostHello, DisplayHello
  <1>2. Offer' = Offer
    BY <1>1 DEF Offer, Agreed
  <1> QED BY <1>1, <1>2

\* The host's stream: others leave it alone.
LEMMA HostSaysAside ==
  ASSUME Base, HostSays, Aside \/ DisplayTalk
  PROVE  HostSays'
  <1>1. UNCHANGED <<neg, hostSent, request, display>>
    BY TalkTalks DEF Base, Aside, DisplayTalks
  <1>2. HostKnows'
    BY <1>1, SameOffer DEF HostSays, HostKnows
  <1>3. HostState'
    BY <1>1, SameOffer DEF HostSays, HostState
  <1>4. ASSUME NEW i \in DOMAIN hostSent PROVE HostFrame(i, hostSent[i])'
    BY <1>1, SameOffer DEF HostSays, HostFrame
  <1> QED BY <1>1, <1>2, <1>3, <1>4 DEF HostSays

\* The host fails, or goes on without writing.
LEMMA HostSaysSame ==
  ASSUME HostSays, UNCHANGED <<hostSent, request, display>>, neg'.config = neg.config
  PROVE  \A i \in DOMAIN hostSent' : HostFrame(i, hostSent[i])'
  BY SameOffer DEF HostSays, HostFrame

\* The host writes the frame that is due.
LEMMA HostSaysMore ==
  ASSUME Shape, HostSays, UNCHANGED <<request, display>>, neg'.config = neg.config, NEW f,
         hostSent' = Append(hostSent, f), HostFrame(Len(hostSent) + 1, f)
  PROVE  /\ \A i \in DOMAIN hostSent' : HostFrame(i, hostSent[i])'
         /\ Len(hostSent') = Len(hostSent) + 1 /\ Len(hostSent) \in Nat
  <1>1. Stream(hostSent)
    BY DEF Shape
  <1>2. \A i, g : HostFrame(i, g)' <=> HostFrame(i, g)
    BY SameOffer DEF HostFrame
  <1>3. ASSUME NEW i \in DOMAIN hostSent' PROVE HostFrame(i, hostSent[i])'
    <2>1. \/ i \in DOMAIN hostSent /\ hostSent'[i] = hostSent[i]
          \/ i = Len(hostSent) + 1 /\ hostSent'[i] = f
      BY <1>1, <1>3, Appended
    <2> QED BY <1>2, <2>1 DEF HostSays
  <1> QED BY <1>1, <1>3, StreamGrows, StreamLen

\* Configurations differ from None.
LEMMA ConfigIsSome ==
  ASSUME NEW c, NEW req, NEW max, c \in SelectConfig(req, max)
  PROVE  c # None
  <1>1. PICK m : c = [width |-> m[1], height |-> m[2], refresh |-> Refresh(req, max),
                      bitrate |-> MinOf(TargetBitrate(m[1], m[2], Refresh(req, max)), max.bitrate)]
    BY DEF SelectConfig
  <1>2. ASSUME NEW w, NEW h, NEW r, NEW b, c = [width |-> w, height |-> h, refresh |-> r, bitrate |-> b]
        PROVE  "width" \in DOMAIN c
    BY <1>2
  <1>3. "width" \in DOMAIN c
    BY <1>1, <1>2
  <1>4. "width" \notin DOMAIN None
    BY DEF None
  <1> QED BY <1>3, <1>4

\* The frame the host is about to read is the display's.
LEMMA HostReadsDisplay ==
  ASSUME Base, DisplaySays, host.pc = "session", conns[host.conn].toHost # <<>>
  PROVE  LET f == Head(conns[host.conn].toHost)
         IN  /\ Len(hostGot) + 1 \in DOMAIN dispSent /\ dispSent[Len(hostGot) + 1] = f
             /\ f.type = "Hello" => f.body = DisplayHello
             /\ f.type = "Capabilities" => f.body = DisplayCapabilities
  <1> DEFINE th == conns[host.conn].toHost
             f == Head(th)
             i == Len(hostGot) + 1
  <1>1. Shape /\ Stream(th) /\ Stream(hostGot) /\ dispSent = hostGot \o th
    BY SocketsExist DEF Base, Shape, Streams, Paired
  <1>2. i \in DOMAIN dispSent /\ dispSent[i] = f /\ Len(hostGot) \in Nat
    BY <1>1, NextOf, StreamLen
  <1>3. DisplayFrame(i, f)
    BY <1>2 DEF DisplaySays
  <1> HIDE DEF f
  <1>4. i = 1 \/ i = 2 \/ i > 2
    BY <1>2
  <1>5. ASSUME NEW t, NEW q, NEW b, f = Frame(t, q, b) PROVE f.type = t /\ f.body = b
    BY <1>5 DEF Frame
  <1>6. /\ i = 1 => f.type = "Hello" /\ f.body = DisplayHello
        /\ i = 2 => f.type = "Capabilities" /\ f.body = DisplayCapabilities
        /\ i > 2 => f.type \in {"Ping", "Telemetry", "Error"}
    <2> HIDE DEF i
    <2> QED BY <1>3, <1>5 DEF DisplayFrame
  <1>7. /\ f.type = "Hello" => f.body = DisplayHello
        /\ f.type = "Capabilities" => f.body = DisplayCapabilities
    <2> HIDE DEF i
    <2> QED BY <1>4, <1>6
  <1> QED BY <1>2, <1>7 DEF f

\* The host fails.
LEMMA HostSaysDrop ==
  ASSUME Base, HostSays, UNCHANGED <<hostSent, request, display>>, neg'.pc \in {"failed", "idle"},
         neg'.hello = neg.hello, neg'.caps = neg.caps, neg'.config = neg.config,
         neg'.pc = "idle" => neg'.next = 3
  PROVE  HostSays'
  <1>1. HostKnows'
    BY SameOffer DEF HostSays, HostKnows
  <1>2. HostState'
    BY DEF HostState
  <1>3. \A i \in DOMAIN hostSent' : HostFrame(i, hostSent[i])'
    BY HostSaysSame
  <1> QED BY <1>1, <1>2, <1>3 DEF HostSays

\* Every error of the host keeps what it knows.
LEMMA DropKeeps ==
  ASSUME Shape, Drop
  PROVE  /\ neg'.pc = "failed" /\ neg'.hello = neg.hello /\ neg'.caps = neg.caps
         /\ neg'.config = neg.config /\ neg'.next = neg.next /\ neg'.produced = neg.produced
         /\ neg'.video = neg.video /\ neg'.presented = neg.presented
  <1>1. NegShape(neg) /\ neg' = [neg EXCEPT !.pc = "failed"]
    BY DEF Shape, Drop
  <1> QED BY <1>1, NegFails

\* Start, and the packets of the negotiation.
LEMMA HostSaysSends ==
  ASSUME Base, HostSays, Start \/ HostSends
  PROVE  HostSays'
  <1>1. Shape /\ UNCHANGED <<request, display>>
    BY TalkTalks DEF Base, HostTalk, Talks
  <1>2. CASE Start
    <2>1. /\ hostSent' = hostSent /\ neg'.pc = "send"
          /\ neg'.todo = <<Frame("Hello", 0, HostHello), Frame("Capabilities", 1, HostCapabilities)>>
          /\ neg'.hello = None /\ neg'.caps = None /\ neg'.config = None /\ neg'.next = 3
      BY <1>1, <1>2, StartTalks
    <2>2. neg = NoHandshake /\ hostSent = <<>>
      BY <1>2 DEF Start, Base, Streams
    <2>3. neg'.config = neg.config
      BY <2>1, <2>2 DEF NoHandshake
    <2>4. HostKnows'
      BY <2>1 DEF HostKnows
    <2>5. HostState'
      BY <1>1, <2>1, <2>2, SameOffer DEF HostState
    <2> QED BY <1>1, <2>1, <2>3, <2>4, <2>5, HostSaysSame DEF HostSays
  <1>3. CASE HostSends
    <2> DEFINE f == Head(neg.todo)
    <2>1. /\ hostSent' = Append(hostSent, f) /\ neg'.todo = Tail(neg.todo)
          /\ neg'.pc = IF Len(neg.todo) > 1 THEN neg.pc
                       ELSE IF neg.pc = "send" THEN "wait" ELSE "prepare"
          /\ neg'.hello = neg.hello /\ neg'.caps = neg.caps /\ neg'.config = neg.config
          /\ neg'.next = neg.next /\ neg.pc \in {"send", "config"}
      <3>1. neg.pc \in {"send", "config"}
        BY <1>3 DEF HostSends
      <3> QED BY <1>1, <1>3, <3>1, HostSendsTalks
    <2>2. HostKnows'
      BY <1>1, <2>1, SameOffer DEF HostSays, HostKnows
    <2>3. neg.next = 3
      BY <2>1 DEF HostSays, HostState
    <2>4. ASSUME NEW a, NEW b
          PROVE  /\ Len(<<a>>) = 1 /\ Len(<<a, b>>) = 2 /\ Head(<<a>>) = a /\ Head(<<a, b>>) = a
                 /\ Tail(<<a, b>>) = <<b>>
      OBVIOUS
    <2>5. Len(<<>>) = 0
      OBVIOUS
    <2>6. ASSUME NEW t, NEW q, NEW b PROVE Frame(t, q, b).seq = q
      BY DEF Frame
    <2>7. CASE neg.pc = "send" /\ hostSent = <<>>
      <3>1. neg.todo = <<Frame("Hello", 0, HostHello), Frame("Capabilities", 1, HostCapabilities)>>
            /\ neg.config = None
        BY <2>5, <2>7 DEF HostSays, HostState
      <3>2. /\ f = Frame("Hello", 0, HostHello) /\ neg'.pc = "send"
            /\ neg'.todo = <<Frame("Capabilities", 1, HostCapabilities)>>
        BY <2>1, <2>4, <2>7, <3>1
      <3>3. HostFrame(Len(hostSent) + 1, f)
        BY <2>5, <2>6, <2>7, <3>2 DEF HostFrame
      <3>4. (\A i \in DOMAIN hostSent' : HostFrame(i, hostSent[i])') /\ Len(hostSent') = 1
        BY <1>1, <2>1, <2>5, <2>7, <3>3, HostSaysMore
      <3>5. HostState'
        BY <1>1, <2>1, <2>3, <3>1, <3>2, <3>4, SameOffer DEF HostState
      <3> QED BY <2>2, <3>4, <3>5 DEF HostSays
    <2>8. CASE neg.pc = "send" /\ hostSent # <<>>
      <3>1. /\ neg.todo = <<Frame("Capabilities", 1, HostCapabilities)>> /\ Len(hostSent) = 1
            /\ neg.config = None
        BY <2>8 DEF HostSays, HostState
      <3>2. f = Frame("Capabilities", 1, HostCapabilities) /\ neg'.pc = "wait"
        BY <2>1, <2>4, <2>8, <3>1
      <3>3. HostFrame(Len(hostSent) + 1, f)
        BY <2>6, <3>1, <3>2 DEF HostFrame
      <3>4. (\A i \in DOMAIN hostSent' : HostFrame(i, hostSent[i])') /\ Len(hostSent') = 2
        BY <1>1, <2>1, <3>1, <3>3, HostSaysMore
      <3>5. HostState'
        BY <2>1, <2>3, <3>1, <3>2, <3>4 DEF HostState
      <3> QED BY <2>2, <3>4, <3>5 DEF HostSays
    <2>9. CASE neg.pc = "config"
      <3>1. /\ neg.todo = <<Frame("DisplayConfig", 2, neg.config)>> /\ Len(hostSent) = 2
            /\ neg.config # None
        BY <2>9 DEF HostSays, HostState
      <3>2. f = Frame("DisplayConfig", 2, neg.config) /\ neg'.pc = "prepare"
        BY <2>1, <2>4, <2>9, <3>1
      <3>3. HostFrame(Len(hostSent) + 1, f)
        BY <2>6, <3>1, <3>2 DEF HostFrame
      <3>4. (\A i \in DOMAIN hostSent' : HostFrame(i, hostSent[i])') /\ Len(hostSent') = 3
        BY <1>1, <2>1, <3>1, <3>3, HostSaysMore
      <3>5. HostState'
        BY <2>1, <2>3, <3>1, <3>2, <3>4 DEF HostState
      <3> QED BY <2>2, <3>4, <3>5 DEF HostSays
    <2> QED BY <2>1, <2>7, <2>8, <2>9
  <1> QED BY <1>2, <1>3

\* The host takes the display's side of the negotiation.
LEMMA HostSaysAccepts ==
  ASSUME Base, HostSays, DisplaySays, HostAccepts
  PROVE  HostSays'
  <1> DEFINE f == Head(conns[host.conn].toHost)
  <1>1. Shape /\ UNCHANGED <<request, display>>
    BY TalkTalks DEF Base, HostTalk, Talks
  <1>2. /\ hostSent' = hostSent /\ neg.pc = "wait" /\ conns[host.conn].toHost # <<>>
        /\ Drop \/ (f.type \in {"Hello", "Capabilities"} /\ Accepted(f))
    BY <1>1, HostAcceptsTalks
  <1>3. host.pc = "session"
    BY <1>1, <1>2 DEF Shape, Talking
  <1>4. /\ f.type = "Hello" => f.body = DisplayHello
        /\ f.type = "Capabilities" => f.body = DisplayCapabilities
    BY <1>2, <1>3, HostReadsDisplay
  <1> HIDE DEF f
  <1>5. CASE Drop
    BY <1>1, <1>2, <1>5, DropKeeps, HostSaysDrop
  <1>6. CASE Accepted(f)
    <2>1. neg.config = None /\ Len(hostSent) = 2 /\ neg.next = 3
      BY <1>2 DEF HostSays, HostState
    <2>2. neg'.hello \in {None, DisplayHello} /\ neg'.caps \in {None, DisplayCapabilities}
      BY <1>4, <1>6 DEF Accepted, HostSays, HostKnows
    <2>3. CASE neg'.pc = "wait" /\ neg'.config = neg.config
      <3>1. neg'.next = 3
        BY <1>6, <2>1 DEF Accepted
      <3>2. HostKnows'
        BY <1>1, <2>1, <2>2, <2>3, SameOffer DEF HostKnows
      <3>3. HostState'
        BY <1>2, <2>1, <2>3, <3>1 DEF HostState
      <3> QED BY <1>1, <1>2, <2>3, <3>2, <3>3, HostSaysSame DEF HostSays
    <2>4. CASE /\ neg'.pc = "config" /\ neg'.caps # None
               /\ neg'.config \in SelectConfig(request,
                                     Agreed(HostCapabilities.limits, neg'.caps.limits))
               /\ neg'.todo = <<Frame("DisplayConfig", 2, neg'.config)>>
      <3>1. neg'.next = 3
        BY <1>6, <2>1 DEF Accepted
      <3>2. neg'.caps = DisplayCapabilities /\ DisplayCapabilities.limits = display.limits
        BY <2>2, <2>4 DEF DisplayCapabilities
      <3>3. neg'.config \in SelectConfig(request, Offer) /\ neg'.config # None
        BY <2>4, <3>2, ConfigIsSome DEF Offer
      <3>4. HostKnows'
        BY <1>1, <2>2, <3>3, SameOffer DEF HostKnows
      <3>5. HostState'
        BY <1>2, <2>1, <2>4, <3>1, <3>3 DEF HostState
      <3>6. ASSUME NEW i \in DOMAIN hostSent' PROVE HostFrame(i, hostSent[i])'
        <4>1. i \in DOMAIN hostSent /\ i \in 1 .. 2
          BY <1>1, <1>2, <2>1, <3>6, StreamLen DEF Shape
        <4>2. HostFrame(i, hostSent[i])
          BY <4>1 DEF HostSays
        <4> QED BY <1>1, <1>2, <4>1, <4>2, SameOffer DEF HostFrame
      <3> QED BY <3>4, <3>5, <3>6 DEF HostSays
    <2> QED BY <1>6, <2>3, <2>4 DEF Accepted
  <1> QED BY <1>2, <1>5, <1>6

\* The session.
LEMMA HostSaysSession ==
  ASSUME Base, HostSays, StartStream \/ HostStreams \/ HostHears
  PROVE  HostSays'
  <1>1. Shape /\ UNCHANGED <<request, display>>
    BY TalkTalks DEF Base, HostTalk, Talks
  <1>2. CASE Drop
    <2>1. hostSent' = hostSent \/ HostStreams
      BY <1>1, <1>2, HostHearsTalks, FailuresTalk, StartStreamTalks, DropKeeps
    <2>2. HostStreams => neg'.pc = "active"
      BY <1>1, HostStreamsTalks
    <2>3. neg'.pc = "failed"
      BY <1>1, <1>2, DropKeeps
    <2> QED BY <1>1, <1>2, <2>1, <2>2, <2>3, DropKeeps, HostSaysDrop
  <1>3. CASE StartStream /\ ~Drop
    <2>1. /\ hostSent' = hostSent /\ neg.pc = "prepare" /\ neg'.pc = "active"
          /\ neg'.hello = neg.hello /\ neg'.caps = neg.caps
          /\ neg'.config = neg.config /\ neg'.next = neg.next
      BY <1>1, <1>3, StartStreamTalks
    <2>2. HostKnows'
      BY <1>1, <2>1, SameOffer DEF HostSays, HostKnows
    <2>3. HostState'
      <3>1. neg.config # None /\ Len(hostSent) = 3 /\ neg.next = 3
        BY <2>1 DEF HostSays, HostState
      <3> QED BY <2>1, <3>1 DEF HostState
    <2> QED BY <1>1, <2>1, <2>2, <2>3, HostSaysSame DEF HostSays
  <1>4. ASSUME neg.pc = "active", neg'.pc = "active", neg'.hello = neg.hello, neg'.caps = neg.caps,
               neg'.config = neg.config, hostSent' = hostSent, neg'.next = neg.next
        PROVE  HostSays'
    <2>1. HostKnows'
      BY <1>1, <1>4, SameOffer DEF HostSays, HostKnows
    <2>2. HostState'
      BY <1>4 DEF HostSays, HostState
    <2> QED BY <1>1, <1>4, <2>1, <2>2, HostSaysSame DEF HostSays
  <1>5. ASSUME neg.pc = "active", neg'.pc = "active", neg'.hello = neg.hello, neg'.caps = neg.caps,
               neg'.config = neg.config, neg'.next = neg.next + 1,
               NEW t \in {"VideoFrame", "Pong"}, NEW b,
               hostSent' = Append(hostSent, Frame(t, neg.next, b))
        PROVE  HostSays'
    <2>1. HostKnows'
      BY <1>1, <1>5, SameOffer DEF HostSays, HostKnows
    <2>2. /\ neg.next = Len(hostSent) /\ Len(hostSent) >= 3 /\ neg.config # None
          /\ Len(hostSent) \in Nat
      BY <1>1, <1>5, StreamLen DEF HostSays, HostState, Shape
    <2> DEFINE f == Frame(t, neg.next, b)
    <2>3. f.type = t /\ f.seq = neg.next
      BY DEF Frame
    <2> HIDE DEF f
    <2>4. HostFrame(Len(hostSent) + 1, f)
      BY <2>2, <2>3 DEF HostFrame
    <2>5. /\ \A i \in DOMAIN hostSent' : HostFrame(i, hostSent[i])'
          /\ Len(hostSent') = Len(hostSent) + 1
      BY <1>1, <1>5, <2>4, HostSaysMore DEF f
    <2>6. HostState'
      BY <1>5, <2>2, <2>5 DEF HostState
    <2> QED BY <2>1, <2>5, <2>6 DEF HostSays
  <1>6. CASE HostStreams
    <2>1. /\ hostSent' = Append(hostSent, Frame("VideoFrame", neg.next, neg.config))
          /\ neg.pc = "active" /\ neg'.pc = "active" /\ neg'.next = neg.next + 1
          /\ neg'.hello = neg.hello /\ neg'.caps = neg.caps /\ neg'.config = neg.config
      BY <1>1, <1>6, HostStreamsTalks
    <2> QED BY <1>5, <2>1
  <1>7. CASE HostHears /\ ~Drop
    <2>1. /\ neg.pc = "active" /\ neg'.pc = "active"
          /\ neg'.hello = neg.hello /\ neg'.caps = neg.caps /\ neg'.config = neg.config
          /\ \/ hostSent' = Append(hostSent, Frame("Pong", neg.next, None)) /\ neg'.next = neg.next + 1
             \/ hostSent' = hostSent /\ neg'.next = neg.next
      BY <1>1, <1>7, HostHearsTalks
    <2> QED BY <1>4, <1>5, <2>1
  <1> QED BY <1>2, <1>3, <1>6, <1>7

\* The failures that need no frame.
LEMMA HostSaysEnds ==
  ASSUME Base, HostSays, NegotiationFails \/ SessionEnds \/ Unplug
  PROVE  HostSays'
  <1>1. Shape /\ UNCHANGED <<request, display>>
    BY TalkTalks DEF Base, HostTalk, Talks
  <1>2. CASE NegotiationFails \/ SessionEnds
    <2>1. Drop /\ hostSent' = hostSent
      BY <1>1, <1>2, FailuresTalk
    <2> QED BY <1>1, <2>1, DropKeeps, HostSaysDrop
  <1>3. CASE Unplug
    <2>1. /\ hostSent' = hostSent /\ neg'.pc \in {"idle", "failed"}
          /\ neg'.hello = neg.hello /\ neg'.caps = neg.caps /\ neg'.config = neg.config
          /\ neg'.next = neg.next /\ (neg'.pc = "idle" => neg.pc = "idle")
      BY <1>1, <1>3, UnplugTalks
    <2>2. neg'.pc = "idle" => neg'.next = 3
      BY <2>1 DEF HostSays, HostState
    <2> QED BY <1>1, <2>1, <2>2, HostSaysDrop
  <1> QED BY <1>2, <1>3

\* Both streams together.
Says == Base /\ HostSays /\ DisplaySays

\* The initial states.
LEMMA SaysInit == Init => Says
  <1> SUFFICES ASSUME Init PROVE HostSays /\ DisplaySays
    BY BaseInit DEF Says
  <1>1. neg = NoHandshake /\ hostSent = <<>> /\ dispSent = <<>> /\ server.pc = "head"
    BY DEF Init, PairInit
  <1>2. DOMAIN <<>> = {}
    OBVIOUS
  <1>3. neg.pc = "idle" /\ neg.hello = None /\ neg.caps = None /\ neg.config = None /\ neg.next = 3
    BY <1>1 DEF NoHandshake
  <1>4. HostKnows /\ HostState
    BY <1>3 DEF HostKnows, HostState
  <1> QED BY <1>1, <1>2, <1>4 DEF HostSays, DisplaySays

\* Every step.
LEMMA SaysNext ==
  ASSUME Says, [Next]_vars
  PROVE  Says'
  <1>1. Base /\ HostSays /\ DisplaySays
    BY DEF Says
  <1>2. Base' /\ (Aside \/ HostTalk \/ DisplayTalk)
    BY <1>1, Steps, Stutter
  <1>3. DisplaySays'
    BY <1>1, <1>2, DisplaySaysAside, DisplaySaysTalk
  <1>4. HostSays'
    BY <1>1, <1>2, HostSaysAside, HostSaysSends, HostSaysAccepts, HostSaysSession, HostSaysEnds
       DEF HostTalk
  <1> QED BY <1>2, <1>3, <1>4 DEF Says

\* What both ends say on their streams is always what the protocol says.
THEOREM SaysAlways == Spec => []Says
  BY SaysInit, SaysNext, PTL DEF Spec

-----------------------------------------------------------------------------
(***************************************************************************)
(* The configuration.                                                      *)
(***************************************************************************)
\* Products of naturals.
LEMMA Products ==
  ASSUME NEW a \in Nat, NEW b \in Nat, NEW c \in Nat
  PROVE  /\ a * b \in Nat
         /\ a < b /\ c > 0 => a * c < b * c /\ c * a < c * b
         /\ a <= b => a * c <= b * c /\ c * a <= c * b
         /\ a > 0 /\ b > 0 => a * b > 0
         /\ 0 * b = 0
  OBVIOUS

\* Of two modes of one shape the one with the larger area is the wider one.
LEMMA WiderMode ==
  ASSUME NEW w \in Nat \ {0}, NEW h \in Nat \ {0},
         NEW d1 \in Nat \ {0}, NEW d2 \in Nat \ {0}, NEW e1 \in Nat \ {0}, NEW e2 \in Nat \ {0},
         d1 * h = w * d2, e1 * h = w * e2, ~(e1 * e2 > d1 * d2)
  PROVE  e1 <= d1
  <1> SUFFICES ASSUME d1 < e1 PROVE FALSE
    OBVIOUS
  <1>1. d1 * h < e1 * h
    BY Products
  <1>2. w * d2 < w * e2
    BY <1>1
  <1>3. d2 < e2
    <2> SUFFICES ASSUME e2 <= d2 PROVE FALSE
      OBVIOUS
    <2>1. w * e2 <= w * d2
      BY Products
    <2>2. w * e2 \in Nat /\ w * d2 \in Nat
      BY Products
    <2> QED BY <1>2, <2>1, <2>2
  <1>4. d1 * d2 < e1 * d2
    BY Products
  <1>5. e1 * d2 < e1 * e2
    BY <1>3, Products
  <1>6. d1 * d2 \in Nat /\ e1 * d2 \in Nat /\ e1 * e2 \in Nat
    BY Products
  <1> QED BY <1>4, <1>5, <1>6

\* compare_mode_fit against a mode of the requested shape.
LEMMA CloserExact ==
  ASSUME NEW req, req.width \in Nat \ {0}, req.height \in Nat \ {0},
         NEW d \in (Nat \ {0}) \X (Nat \ {0}), NEW e \in (Nat \ {0}) \X (Nat \ {0}),
         e[1] * req.height = req.width * e[2], ~Closer(e, d, req)
  PROVE  d[1] * req.height = req.width * d[2] /\ e[1] <= d[1]
  <1> DEFINE w == req.width
             h == req.height
             delta == AbsDiff(d[1] * h, w * d[2])
  <1>1. /\ d[1] \in Nat \ {0} /\ d[2] \in Nat \ {0} /\ e[1] \in Nat \ {0} /\ e[2] \in Nat \ {0}
        /\ w \in Nat \ {0} /\ h \in Nat \ {0}
    OBVIOUS
  <1>2. d[1] * h \in Nat /\ w * d[2] \in Nat /\ e[1] * h \in Nat /\ w * e[2] \in Nat
    BY <1>1, Products
  <1>3. AbsDiff(e[1] * h, w * e[2]) = 0
    BY <1>2 DEF AbsDiff
  <1>4. delta \in Nat /\ (delta = 0 <=> d[1] * h = w * d[2])
    BY <1>2 DEF AbsDiff
  <1>5. ~(AbsDiff(e[1] * h, w * e[2]) * d[2] < delta * e[2]
           \/ (AbsDiff(e[1] * h, w * e[2]) * d[2] = delta * e[2] /\ e[1] * e[2] > d[1] * d[2]))
    BY DEF Closer
  <1>6. 0 * d[2] = 0
    BY <1>1, Products
  <1> HIDE DEF delta
  <1>7. ~(0 < delta * e[2] \/ (0 = delta * e[2] /\ e[1] * e[2] > d[1] * d[2]))
    BY <1>3, <1>5, <1>6
  <1>8. delta = 0
    <2> SUFFICES ASSUME delta > 0 PROVE FALSE
      BY <1>4
    <2>1. delta * e[2] > 0
      BY <1>1, <1>4, Products
    <2> QED BY <1>7, <2>1
  <1>9. delta * e[2] = 0
    BY <1>1, <1>8, Products
  <1>10. d[1] * h = w * d[2] /\ ~(e[1] * e[2] > d[1] * d[2])
    BY <1>4, <1>7, <1>8, <1>9
  <1>11. e[1] <= d[1]
    BY <1>1, <1>10, WiderMode
  <1> QED BY <1>10, <1>11

\* What both ends can do.
LEMMA OfferLimits ==
  ASSUME Shape
  PROVE  /\ DOMAIN Offer = {"width", "height", "refresh", "bitrate"}
         /\ \A l \in DOMAIN Offer : Offer[l] \in Nat
         /\ Offer.width <= request.width /\ Offer.height <= request.height
         /\ {request.width, request.height} \subseteq Nat \ {0} /\ request.hz \in {30, 60}
         /\ Offer.width <= display.limits.width /\ Offer.height <= display.limits.height
         /\ Offer.refresh <= display.limits.refresh /\ Offer.bitrate <= display.limits.bitrate
         /\ \A l \in DOMAIN Offer : display.limits[l] \in Nat
  <1>1. /\ {request.width, request.height} \subseteq Nat \ {0} /\ request.hz \in {30, 60}
        /\ display.limits \in Limits
    BY ConnectAssumption DEF Shape
  <1> DEFINE a == [width |-> request.width, height |-> request.height,
                   refresh |-> request.hz * 1000, bitrate |-> 40000]
             b == display.limits
  <1>2. Offer = [f \in {"width", "height", "refresh", "bitrate"} |-> MinOf(a[f], b[f])]
    BY DEF Offer, Agreed, HostCapabilities
  <1>3. b.width \in Nat /\ b.height \in Nat /\ b.refresh \in Nat /\ b.bitrate \in Nat
    BY <1>1 DEF Limits
  <1>4. a.width = request.width /\ a.height = request.height /\ a.refresh = request.hz * 1000
        /\ a.bitrate = 40000
    OBVIOUS
  <1>5. a.width \in Nat /\ a.height \in Nat /\ a.refresh \in Nat /\ a.bitrate \in Nat
    BY <1>1, <1>4
  <1> HIDE DEF a, b
  <1>6. /\ Offer.width = MinOf(a.width, b.width) /\ Offer.height = MinOf(a.height, b.height)
        /\ Offer.refresh = MinOf(a.refresh, b.refresh) /\ Offer.bitrate = MinOf(a.bitrate, b.bitrate)
    BY <1>2
  <1>7. ASSUME NEW x \in Nat, NEW y \in Nat
        PROVE  MinOf(x, y) \in Nat /\ MinOf(x, y) <= x /\ MinOf(x, y) <= y
    BY DEF MinOf
  <1>8. Offer.width \in Nat /\ Offer.width <= a.width /\ Offer.width <= b.width
    <2>1. a.width \in Nat /\ b.width \in Nat
      BY <1>3, <1>5
    <2>2. MinOf(a.width, b.width) \in Nat /\ MinOf(a.width, b.width) <= a.width
          /\ MinOf(a.width, b.width) <= b.width
      BY <2>1, <1>7
    <2> QED BY <1>6, <2>2
  <1>9. Offer.height \in Nat /\ Offer.height <= a.height /\ Offer.height <= b.height
    <2>1. a.height \in Nat /\ b.height \in Nat
      BY <1>3, <1>5
    <2>2. MinOf(a.height, b.height) \in Nat /\ MinOf(a.height, b.height) <= a.height
          /\ MinOf(a.height, b.height) <= b.height
      BY <2>1, <1>7
    <2> QED BY <1>6, <2>2
  <1>10. Offer.refresh \in Nat /\ Offer.refresh <= b.refresh
    <2>1. a.refresh \in Nat /\ b.refresh \in Nat
      BY <1>3, <1>5
    <2>2. MinOf(a.refresh, b.refresh) \in Nat /\ MinOf(a.refresh, b.refresh) <= b.refresh
      BY <2>1, <1>7
    <2> QED BY <1>6, <2>2
  <1>11. Offer.bitrate \in Nat /\ Offer.bitrate <= b.bitrate
    <2>1. a.bitrate \in Nat /\ b.bitrate \in Nat
      BY <1>3, <1>5
    <2>2. MinOf(a.bitrate, b.bitrate) \in Nat /\ MinOf(a.bitrate, b.bitrate) <= b.bitrate
      BY <2>1, <1>7
    <2> QED BY <1>6, <2>2
  <1>12. DOMAIN Offer = {"width", "height", "refresh", "bitrate"}
    BY <1>2
  <1> QED BY <1>1, <1>3, <1>4, <1>8, <1>9, <1>10, <1>11, <1>12 DEF b

\* What select_bounded_display_dimensions may answer.
LEMMA DimensionsFit ==
  ASSUME Shape, NEW d \in Dimensions(request, Offer)
  PROVE  /\ d \in (Nat \ {0}) \X (Nat \ {0}) /\ d[1] <= Offer.width /\ d[2] <= Offer.height
         /\ request.width <= Offer.width /\ request.height <= Offer.height =>
               d[1] = request.width /\ d[2] = request.height
         /\ ~(request.width <= Offer.width /\ request.height <= Offer.height) =>
               d \in Fitting(request, Offer) /\ \A o \in Fitting(request, Offer) : ~Closer(o, d, request)
  <1> DEFINE fits == request.width <= Offer.width /\ request.height <= Offer.height
  <1>1. /\ Offer.width \in Nat /\ Offer.height \in Nat
        /\ request.width \in Nat \ {0} /\ request.height \in Nat \ {0}
    BY OfferLimits
  <1>2. CASE fits
    <2>1. d = <<request.width, request.height>>
      BY <1>2 DEF Dimensions
    <2> QED BY <1>1, <1>2, <2>1
  <1>3. CASE ~fits
    <2>1. d \in Fitting(request, Offer) /\ \A o \in Fitting(request, Offer) : ~Closer(o, d, request)
      BY <1>3, Zenon DEF Dimensions
    <2>2. /\ d \in ToSet(Modes) /\ d[1] <= MinOf(request.width, Offer.width)
          /\ d[2] <= MinOf(request.height, Offer.height)
      BY <2>1, Zenon DEF Fitting
    <2>3. d \in (Nat \ {0}) \X (Nat \ {0})
      BY <2>2, ConnectAssumption
    <2>4. d[1] \in Nat /\ d[2] \in Nat
      BY <2>3
    <2>5. d[1] <= Offer.width /\ d[2] <= Offer.height
      BY <1>1, <2>2, <2>4 DEF MinOf
    <2> QED BY <1>3, <2>1, <2>3, <2>5
  <1> QED BY <1>2, <1>3

\* What select_display_config answers is within what both ends can do.
LEMMA ConfigWithin ==
  ASSUME Shape, NEW c \in SelectConfig(request, Offer)
  PROVE  /\ DOMAIN c = {"width", "height", "refresh", "bitrate"}
         /\ c.width <= Offer.width /\ c.height <= Offer.height
         /\ c.refresh <= Offer.refresh /\ c.bitrate <= Offer.bitrate
         /\ <<c.width, c.height>> \in Dimensions(request, Offer)
         /\ c.width \in Nat /\ c.height \in Nat /\ c.refresh \in Nat /\ c.bitrate \in Nat
  <1> DEFINE r == Refresh(request, Offer)
             b(d) == MinOf(TargetBitrate(d[1], d[2], r), Offer.bitrate)
  <1>1. PICK d \in Dimensions(request, Offer) :
            r # 0 /\ c = [width |-> d[1], height |-> d[2], refresh |-> r, bitrate |-> b(d)]
    BY DEF SelectConfig
  <1>2. /\ d \in (Nat \ {0}) \X (Nat \ {0}) /\ d[1] <= Offer.width /\ d[2] <= Offer.height
    BY DimensionsFit
  <1>3. Offer.refresh \in Nat /\ Offer.bitrate \in Nat /\ request.hz \in {30, 60}
    BY OfferLimits
  <1>4. r <= Offer.refresh /\ r \in Nat
    BY <1>1, <1>3 DEF Refresh
  <1>5. b(d) <= Offer.bitrate /\ b(d) \in Nat
    <2> DEFINE area == d[1] * d[2]
               hz == r \div 1000
    <2>1. area \in Nat
      BY <1>2, Products
    <2>2. hz \in Nat
      BY <1>4
    <2> HIDE DEF area, hz
    <2>3. area * hz \in Nat
      BY <2>1, <2>2, Products
    <2>4. ASSUME NEW x \in Nat PROVE (x * 12) \div 1000 \in Nat
      OBVIOUS
    <2> DEFINE e == (area * hz * 12) \div 1000
    <2>5. e \in Nat
      BY <2>3, <2>4
    <2>6. TargetBitrate(d[1], d[2], r) = IF e < 4000 THEN 4000 ELSE MinOf(e, 40000)
      BY DEF TargetBitrate, area, hz
    <2> HIDE DEF e
    <2>7. TargetBitrate(d[1], d[2], r) \in Nat
      BY <2>5, <2>6 DEF MinOf
    <2> QED BY <1>3, <2>7 DEF MinOf
  <1> HIDE DEF r, b
  <1>6. /\ c.width = d[1] /\ c.height = d[2] /\ c.refresh = r /\ c.bitrate = b(d)
        /\ DOMAIN c = {"width", "height", "refresh", "bitrate"}
    BY <1>1
  <1>7. <<d[1], d[2]>> = d
    BY <1>2
  <1>8. <<c.width, c.height>> \in Dimensions(request, Offer)
    BY <1>6, <1>7
  <1> QED BY <1>2, <1>4, <1>5, <1>6, <1>8

\* ConfigFits for what the host may have chosen.
LEMMA ConfigChosen ==
  ASSUME Shape, HostKnows
  PROVE  ConfigFits
  <1> DEFINE c == neg.config
             fits == request.width <= Offer.width /\ request.height <= Offer.height
             exact == {m \in Fitting(request, Offer) :
                          m[1] * request.height = request.width * m[2]}
             d == <<c.width, c.height>>
  <1> SUFFICES ASSUME c # None
               PROVE  /\ \A l \in DOMAIN Offer : c[l] <= Offer[l]
                      /\ fits => c.width = request.width /\ c.height = request.height
                      /\ exact # {} /\ ~fits => d \in exact /\ \A m \in exact : m[1] <= c.width
    BY DEF ConfigFits, Offer
  <1>1. c \in SelectConfig(request, Offer)
    BY DEF HostKnows
  <1> HIDE DEF c
  <1>2. /\ c.width <= Offer.width /\ c.height <= Offer.height
        /\ c.refresh <= Offer.refresh /\ c.bitrate <= Offer.bitrate
        /\ d \in Dimensions(request, Offer)
    BY <1>1, ConfigWithin
  <1>3. \A l \in DOMAIN Offer : c[l] <= Offer[l]
    BY <1>2, OfferLimits
  <1>4. d[1] = c.width /\ d[2] = c.height
    OBVIOUS
  <1> HIDE DEF d
  <1>5. /\ d \in (Nat \ {0}) \X (Nat \ {0})
        /\ fits => d[1] = request.width /\ d[2] = request.height
        /\ ~fits => d \in Fitting(request, Offer) /\ \A o \in Fitting(request, Offer) : ~Closer(o, d, request)
    BY <1>2, DimensionsFit
  <1>6. ASSUME ~fits, NEW e \in exact
        PROVE  d \in exact /\ e[1] <= d[1]
    <2>1. e \in Fitting(request, Offer) /\ e[1] * request.height = request.width * e[2]
      OBVIOUS
    <2>2. e \in (Nat \ {0}) \X (Nat \ {0})
      BY <2>1, ConnectAssumption DEF Fitting
    <2>3. ~Closer(e, d, request) /\ d \in Fitting(request, Offer)
      BY <1>5, <1>6, <2>1
    <2>4. request.width \in Nat \ {0} /\ request.height \in Nat \ {0}
      BY OfferLimits
    <2>5. d[1] * request.height = request.width * d[2] /\ e[1] <= d[1]
      BY <1>5, <2>1, <2>2, <2>3, <2>4, CloserExact
    <2> QED BY <2>3, <2>5
  <1> QED BY <1>3, <1>4, <1>5, <1>6

\* The host's configuration stays within both ends' limits; the request is
\* kept where it fits, and a smaller mode has the requested shape whenever one
\* of that shape fits, as large as possible (select_display_config).
THEOREM ConfigAlwaysFits == Spec => []ConfigFits
  <1>1. Says => ConfigFits
    BY ConfigChosen DEF Says, Base, HostSays
  <1> QED BY <1>1, SaysAlways, PTL

-----------------------------------------------------------------------------
(***************************************************************************)
(* The display: what it reads comes in turn.                               *)
(***************************************************************************)
\* The frame the display reads next.
LEMMA NextFrame ==
  ASSUME Says, server.pc = "active", conns[server.conn].toDisplay # <<>>
  PROVE  LET f == Head(conns[server.conn].toDisplay)
             n == Len(dispGot)
         IN  /\ n \in Nat /\ n + 1 \in DOMAIN hostSent /\ f = hostSent[n + 1] /\ HostFrame(n + 1, f)
             /\ n < Len(hostSent) /\ (n >= 3 => neg.config # None)
  <1> DEFINE c == conns[server.conn]
             f == Head(c.toDisplay)
             n == Len(dispGot)
  <1>1. /\ hostSent = dispGot \o c.toDisplay /\ Stream(dispGot) /\ Stream(hostSent) /\ Stream(c.toDisplay)
    BY SocketsExist DEF Says, Base, Shape, Streams
  <1>2. n + 1 \in DOMAIN hostSent /\ hostSent[n + 1] = f /\ n < Len(hostSent)
    BY <1>1, NextOf
  <1>3. n \in Nat /\ Len(hostSent) \in Nat /\ DOMAIN hostSent = 1 .. Len(hostSent)
    BY <1>1, StreamLen
  <1>4. \A i \in DOMAIN hostSent : HostFrame(i, hostSent[i])
    BY DEF Says, HostSays
  <1>5. n >= 3 => neg.config # None
    <2> SUFFICES ASSUME n >= 3 PROVE neg.config # None
      OBVIOUS
    <2>1. 3 \in DOMAIN hostSent
      BY <1>2, <1>3
    <2>2. HostFrame(3, hostSent[3])
      BY <1>4, <2>1
    <2> QED BY <2>2 DEF HostFrame
  <1> QED BY <1>2, <1>3, <1>4, <1>5

\* The limits handleDisplayConfiguration measures the configuration against.
LEMMA LimitsKept ==
  ASSUME Shape, HostKnows, neg.config # None, disp.caps = HostCapabilities
  PROVE  LET max == Agreed(display.limits, disp.caps.limits)
         IN  ~\E l \in DOMAIN max : neg.config[l] > max[l]
  <1> DEFINE max == Agreed(display.limits, disp.caps.limits)
             c == neg.config
             b == HostCapabilities.limits
  <1>1. /\ display.limits \in Limits
        /\ request.width \in Nat /\ request.height \in Nat /\ request.hz \in {30, 60}
    BY ConnectAssumption DEF Shape
  <1>2. DOMAIN display.limits = {"width", "height", "refresh", "bitrate"}
        /\ display.limits.width \in Nat /\ display.limits.height \in Nat
        /\ display.limits.refresh \in Nat /\ display.limits.bitrate \in Nat
    BY <1>1 DEF Limits
  <1>3. b.width \in Nat /\ b.height \in Nat /\ b.refresh \in Nat /\ b.bitrate \in Nat
        /\ DOMAIN b = {"width", "height", "refresh", "bitrate"}
    BY <1>1 DEF HostCapabilities
  <1> HIDE DEF b
  <1>4. ASSUME NEW l \in {"width", "height", "refresh", "bitrate"}
        PROVE  max[l] = Offer[l] /\ l \in DOMAIN Offer
    <2>1. max[l] = MinOf(display.limits[l], b[l])
      BY <1>2 DEF Agreed, b
    <2>2. Offer[l] = MinOf(b[l], display.limits[l]) /\ l \in DOMAIN Offer
      BY <1>3 DEF Agreed, Offer, b
    <2>3. b[l] \in Nat /\ display.limits[l] \in Nat
      BY <1>2, <1>3
    <2> QED BY <2>1, <2>2, <2>3 DEF MinOf
  <1>5. DOMAIN max = {"width", "height", "refresh", "bitrate"}
    BY <1>2 DEF Agreed
  <1> HIDE DEF max
  <1>6. c \in SelectConfig(request, Offer)
    BY DEF HostKnows
  <1> HIDE DEF c
  <1>7. /\ c.width <= Offer.width /\ c.height <= Offer.height
        /\ c.refresh <= Offer.refresh /\ c.bitrate <= Offer.bitrate
    BY <1>6, ConfigWithin
  <1>8. c.width \in Nat /\ c.height \in Nat /\ c.refresh \in Nat /\ c.bitrate \in Nat
    BY <1>6, ConfigWithin
  <1>9. Offer.width \in Nat /\ Offer.height \in Nat /\ Offer.refresh \in Nat /\ Offer.bitrate \in Nat
    BY OfferLimits
  <1>10. \A l \in DOMAIN max : ~(c[l] > max[l])
    BY <1>4, <1>5, <1>7, <1>8, <1>9
  <1> QED BY <1>10 DEF max, c

\* handleInboundFrame, case by case.
LEMMA ReadCases ==
  ASSUME DisplayReads
  PROVE  LET f == Head(conns[server.conn].toDisplay)
         IN  \/ f.seq <= disp.highest
             \/ disp.failed /\ Accepts(disp)
             \/ ~disp.failed /\ f.type = "Hello" /\ OnHello(f)
             \/ ~disp.failed /\ f.type = "Capabilities" /\ OnCapabilities(f)
             \/ ~disp.failed /\ f.type = "DisplayConfig" /\ OnDisplayConfig(f)
             \/ ~disp.failed /\ f.type = "VideoFrame" /\ OnVideoFrame(f)
             \/ ~disp.failed /\ f.type = "Pong" /\ OnPong
             \/ f.type \notin {"Hello", "Capabilities", "DisplayConfig", "VideoFrame", "Pong"}
  BY Zenon DEF DisplayReads

\* handleMediaFrame gives a picture to the decoder, or makes it wait.
HandsOver(n, p) ==
    p \in IF disp.pics.ready THEN Decoded(disp.pics, {n}) ELSE Enqueued(disp.pics, n)

\* What the display makes of its n-th frame.
InTurn(n, f) ==
    \/ disp.failed /\ Takes(disp)
    \/ ~disp.failed /\ n = 0 /\ f.type = "Hello" /\ Takes([disp EXCEPT !.hello = HostHello])
    \/ /\ ~disp.failed /\ n = 1 /\ f.type = "Capabilities"
       /\ \E yes : yes = TRUE /\ Takes([disp EXCEPT !.caps = HostCapabilities, !.negotiated = yes])
    \/ /\ ~disp.failed /\ n = 2 /\ f.type = "DisplayConfig"
       /\ Refuses("decoder") \/ Takes([disp EXCEPT !.config = neg.config])
    \/ /\ ~disp.failed /\ n >= 3 /\ f.type = "VideoFrame"
       /\ \E p : HandsOver(n, p) /\ Takes([disp EXCEPT !.pics = p])
    \/ ~disp.failed /\ n >= 3 /\ f.type = "Pong" /\ Takes(disp)

\* The host gives the display no reason to complain.
LEMMA ReadsInTurn ==
  ASSUME Says, DisplayKnows, DisplayReads
  PROVE  /\ DisplayTalks /\ server.pc = "active" /\ conns[server.conn].toDisplay # <<>>
         /\ dispGot' = Append(dispGot, Head(conns[server.conn].toDisplay))
         /\ InTurn(Len(dispGot), Head(conns[server.conn].toDisplay))
  <1> DEFINE c == conns[server.conn]
             f == Head(c.toDisplay)
             n == Len(dispGot)
  <1>1. /\ DisplayTalks /\ server.pc = "active" /\ c.toDisplay # <<>> /\ dispGot' = Append(dispGot, f)
        /\ \A why : Reject(why) => Refuses(why)
        /\ \A d : DispShape(d) /\ Accepts(d) => Takes(d)
    BY DisplayReadsTalks DEF Says, Base
  <1>2. Shape /\ DispShape(disp) /\ HostKnows
    BY DEF Says, Base, Shape, HostSays
  <1>3. /\ n \in Nat /\ HostFrame(n + 1, f) /\ (n >= 3 => neg.config # None)
    BY <1>1, NextFrame
  <1>4. f.seq = n
    BY <1>3 DEF HostFrame
  <1>5. disp.highest = n - 1 /\ disp.failed \in BOOLEAN
    BY <1>1 DEF DisplayKnows
  <1>6. ~disp.failed =>
              /\ disp.hello = IF n >= 1 THEN HostHello ELSE None
              /\ disp.caps = IF n >= 2 THEN HostCapabilities ELSE None
              /\ disp.negotiated = (n >= 2)
              /\ disp.config = IF n >= 3 THEN neg.config ELSE None
    BY <1>1 DEF DisplayKnows
  <1> HIDE DEF f, n, c
  <1>7. /\ n = 0 => f = Frame("Hello", 0, HostHello)
        /\ n = 1 => f = Frame("Capabilities", 1, HostCapabilities)
        /\ n = 2 => neg.config # None /\ f = Frame("DisplayConfig", 2, neg.config)
        /\ n >= 3 => f.type \in {"VideoFrame", "Pong"}
    BY <1>3 DEF HostFrame
  <1>8. /\ n = 0 => f.type = "Hello" /\ f.body = HostHello
        /\ n = 1 => f.type = "Capabilities" /\ f.body = HostCapabilities
        /\ n = 2 => f.type = "DisplayConfig" /\ f.body = neg.config
    BY <1>7 DEF Frame
  <1>9. n = 0 \/ n = 1 \/ n = 2 \/ n >= 3
    BY <1>3
  <1>10. \/ disp.failed /\ Accepts(disp)
         \/ ~disp.failed /\ f.type = "Hello" /\ OnHello(f)
         \/ ~disp.failed /\ f.type = "Capabilities" /\ OnCapabilities(f)
         \/ ~disp.failed /\ f.type = "DisplayConfig" /\ OnDisplayConfig(f)
         \/ ~disp.failed /\ f.type = "VideoFrame" /\ OnVideoFrame(f)
         \/ ~disp.failed /\ f.type = "Pong" /\ OnPong
    <2>1. ~(f.seq <= disp.highest)
      BY <1>3, <1>4, <1>5
    <2>2. f.type \in {"Hello", "Capabilities", "DisplayConfig", "VideoFrame", "Pong"}
      BY <1>7, <1>8, <1>9
    <2> QED BY <2>1, <2>2, ReadCases DEF f, c
  <1>11. CASE disp.failed
    <2>1. Takes(disp)
      BY <1>1, <1>2, <1>10, <1>11
    <2> QED BY <1>1, <1>11, <2>1 DEF InTurn, n, f, c
  <1>12. CASE ~disp.failed /\ n = 0
    <2>1. OnHello(f) /\ f.body = HostHello /\ f.seq = 0 /\ disp.hello = None /\ disp.caps = None
      BY <1>4, <1>6, <1>8, <1>10, <1>12
    <2>2. HostHello.role = "host" /\ HostHello.low <= 1 /\ 1 <= HostHello.high
      BY DEF HostHello
    <2>3. Accepts([disp EXCEPT !.hello = HostHello])
      BY <2>1, <2>2, Zenon DEF OnHello
    <2>4. ASSUME NEW x PROVE DispShape([disp EXCEPT !.hello = x])
      BY <1>2 DEF DispShape
    <2>5. Takes([disp EXCEPT !.hello = HostHello])
      BY <1>1, <2>3, <2>4, Zenon
    <2> QED BY <1>1, <1>8, <1>12, <2>5, Zenon DEF InTurn, n, f, c
  <1>13. CASE ~disp.failed /\ n = 1
    <2>1. OnCapabilities(f) /\ f.body = HostCapabilities /\ f.seq = 1
      BY <1>4, <1>8, <1>10, <1>13
    <2>2. disp.hello = HostHello /\ disp.caps = None
      BY <1>6, <1>13
    <2>3. HostHello # None
      <3>1. HostHello.role = "host" /\ DOMAIN HostHello = {"role", "low", "high"} /\ DOMAIN None = {"type"}
        BY DEF HostHello, None
      <3>2. "role" \in {"role", "low", "high"} /\ "role" \notin {"type"}
        OBVIOUS
      <3> QED BY <3>1, <3>2
    <2>4. "H264" \in display.codecs \cap HostCapabilities.codecs
      BY <1>2, ConnectAssumption DEF Shape, HostCapabilities
    <2>5. Accepts([disp EXCEPT !.caps = HostCapabilities, !.negotiated = TRUE])
      BY <2>1, <2>2, <2>3, <2>4, Zenon DEF OnCapabilities
    <2>6. ASSUME NEW x, NEW y PROVE DispShape([disp EXCEPT !.caps = x, !.negotiated = y])
      BY <1>2 DEF DispShape
    <2>7. Takes([disp EXCEPT !.caps = HostCapabilities, !.negotiated = TRUE])
      BY <1>1, <2>5, <2>6, Zenon
    <2> QED BY <1>1, <1>8, <1>13, <2>7, Zenon DEF InTurn, n, f, c
  <1>14. CASE ~disp.failed /\ n = 2
    <2>1. OnDisplayConfig(f) /\ f.body = neg.config /\ f.seq = 2
      BY <1>4, <1>8, <1>10, <1>14
    <2>2. disp.caps = HostCapabilities /\ disp.negotiated /\ disp.config = None /\ neg.config # None
      <3>1. n >= 2 /\ ~(n >= 3)
        BY <1>14
      <3> QED BY <1>6, <1>7, <1>14, <3>1, Zenon
    <2> DEFINE max == Agreed(display.limits, disp.caps.limits)
    <2>3. ~\E l \in DOMAIN max : neg.config[l] > max[l]
      BY <1>2, <2>2, LimitsKept
    <2>4. Reject("decoder") \/ Accepts([disp EXCEPT !.config = neg.config])
      BY <2>1, <2>2, <2>3, Zenon DEF OnDisplayConfig
    <2>5. ASSUME NEW x PROVE DispShape([disp EXCEPT !.config = x])
      BY <1>2 DEF DispShape
    <2>6. Refuses("decoder") \/ Takes([disp EXCEPT !.config = neg.config])
      BY <1>1, <2>4, <2>5, Zenon
    <2> QED BY <1>1, <1>8, <1>14, <2>6, Zenon DEF InTurn, n, f, c
  <1>15. CASE ~disp.failed /\ n >= 3
    <2>1. disp.config # None /\ f.type \in {"VideoFrame", "Pong"}
      BY <1>3, <1>6, <1>7, <1>15
    <2>2. CASE f.type = "VideoFrame"
      <3>1. OnVideoFrame(f)
        BY <1>10, <1>15, <2>2
      <3>2. \E p : HandsOver(f.seq, p) /\ Accepts([disp EXCEPT !.pics = p])
        BY <2>1, <3>1, Zenon DEF OnVideoFrame, HandsOver
      <3>3. ASSUME NEW p PROVE DispShape([disp EXCEPT !.pics = p])
        BY <1>2 DEF DispShape
      <3>4. \E p : HandsOver(f.seq, p) /\ Takes([disp EXCEPT !.pics = p])
        BY <1>1, <3>2, <3>3, Zenon
      <3> QED BY <1>1, <1>4, <1>15, <2>2, <3>4, Zenon DEF InTurn, n, f, c
    <2>3. CASE f.type = "Pong"
      <3>1. OnPong
        BY <1>10, <1>15, <2>3
      <3>2. Takes(disp)
        BY <1>1, <1>2, <2>1, <3>1, Zenon DEF OnPong
      <3> QED BY <1>1, <1>15, <2>3, <3>2, Zenon DEF InTurn, n, f, c
    <2> QED BY <2>1, <2>2, <2>3
  <1> QED BY <1>9, <1>11, <1>12, <1>13, <1>14, <1>15

\* What the host counts is left alone.
SameCounts == neg'.produced = neg.produced /\ neg'.video = neg.video

\* A step of the host writes a picture, writes something else or nothing, or
\* takes a report.
Writes ==
    /\ neg.next = Len(hostSent) /\ neg'.produced = neg.produced + 1
    /\ neg'.video = Remembered(Append(neg.video, <<neg.next, neg.produced + 1>>))
    /\ neg'.presented = neg.presented
    /\ \E f : f.type = "VideoFrame" /\ hostSent' = Append(hostSent, f)

Idles ==
    /\ SameCounts /\ neg'.presented = neg.presented
    /\ hostSent' = hostSent \/ \E f : f.type # "VideoFrame" /\ hostSent' = Append(hostSent, f)

Learns ==
    /\ SameCounts /\ hostSent' = hostSent
    /\ \E i \in DOMAIN dispSent : dispSent[i].type = "Telemetry" /\ Presents(dispSent[i].body)

\* Each step of the host is one of them, and the configuration is chosen
\* before it is sent.
LEMMA HostSteps ==
  ASSUME Says, HostTalk
  PROVE  /\ UNCHANGED <<server, disp, dispSent, dispGot, request, display>>
         /\ neg'.config = neg.config \/ Len(hostSent) = 2
         /\ Writes \/ Idles \/ Learns
  <1>1. Shape /\ Base /\ HostSays /\ DisplaySays
    BY DEF Says, Base
  <1>2. UNCHANGED <<server, disp, dispSent, dispGot, request, display>>
    BY <1>1, TalkTalks DEF Talks
  <1>3. ASSUME NEW t, NEW q, NEW b PROVE Frame(t, q, b).type = t
    BY DEF Frame
  <1>4. CASE Drop /\ hostSent' = hostSent
    BY <1>1, <1>2, <1>4, DropKeeps DEF Idles, SameCounts
  <1>5. CASE Start
    <2>1. neg = NoHandshake
      BY <1>5 DEF Start, Says, Base, Streams
    <2>2. neg.config = None /\ neg.video = <<>> /\ neg.produced = 0 /\ neg.presented = 0
      BY <2>1 DEF NoHandshake
    <2>3. neg'.config = None /\ neg'.video = <<>> /\ neg'.produced = 0 /\ neg'.presented = 0
          /\ hostSent' = hostSent
      BY <1>1, <1>5, StartTalks
    <2> QED BY <1>2, <2>2, <2>3 DEF Idles, SameCounts
  <1>6. CASE HostSends
    <2> DEFINE f == Head(neg.todo)
    <2>1. /\ hostSent' = Append(hostSent, f) /\ neg'.config = neg.config /\ neg'.video = neg.video
          /\ neg'.produced = neg.produced /\ neg'.presented = neg.presented
      BY <1>1, <1>6, HostSendsTalks
    <2>2. neg.pc \in {"send", "config"}
      BY <1>6 DEF HostSends
    <2>3. ASSUME NEW a, NEW b PROVE Head(<<a>>) = a /\ Head(<<a, b>>) = a
      OBVIOUS
    <2>4. \/ f = Frame("Hello", 0, HostHello) \/ f = Frame("Capabilities", 1, HostCapabilities)
          \/ f = Frame("DisplayConfig", 2, neg.config)
      BY <1>1, <2>2, <2>3 DEF HostSays, HostState
    <2> HIDE DEF f
    <2>5. f.type # "VideoFrame"
      BY <1>3, <2>4
    <2> QED BY <1>2, <2>1, <2>5 DEF Idles, SameCounts
  <1>7. CASE HostAccepts
    <2>1. /\ hostSent' = hostSent /\ neg.pc = "wait"
          /\ Drop \/ Accepted(Head(conns[host.conn].toHost))
      BY <1>1, <1>7, HostAcceptsTalks
    <2>2. Len(hostSent) = 2
      BY <1>1, <2>1 DEF HostSays, HostState
    <2> QED BY <1>2, <1>4, <2>1, <2>2 DEF Accepted, Idles, SameCounts
  <1>8. CASE StartStream
    <2>1. CASE Drop
      BY <1>1, <1>4, <1>8, <2>1, FailuresTalk
    <2>2. CASE ~Drop
      BY <1>1, <1>2, <1>8, <2>2, StartStreamTalks DEF Idles, SameCounts
    <2> QED BY <2>1, <2>2
  <1>9. CASE HostStreams
    <2> DEFINE f == Frame("VideoFrame", neg.next, neg.config)
    <2>1. /\ hostSent' = Append(hostSent, f) /\ neg.pc = "active"
          /\ neg'.produced = neg.produced + 1
          /\ neg'.video = Remembered(Append(neg.video, <<neg.next, neg.produced + 1>>))
          /\ neg'.config = neg.config /\ neg'.presented = neg.presented
      BY <1>1, <1>9, HostStreamsTalks
    <2>2. f.type = "VideoFrame"
      BY <1>3
    <2>3. neg.next = Len(hostSent)
      BY <1>1, <2>1 DEF HostSays, HostState
    <2> HIDE DEF f
    <2> QED BY <1>2, <2>1, <2>2, <2>3 DEF Writes
  <1>10. CASE HostHears
    <2> DEFINE f == Head(conns[host.conn].toHost)
               pong == Frame("Pong", neg.next, None)
    <2>1. /\ neg.pc = "active" /\ conns[host.conn].toHost # <<>>
          /\ \/ Drop /\ hostSent' = hostSent
             \/ /\ neg'.config = neg.config /\ neg'.produced = neg.produced /\ neg'.video = neg.video
                /\ \/ hostSent' = Append(hostSent, pong) /\ neg'.presented = neg.presented
                   \/ hostSent' = hostSent /\ f.type = "Telemetry" /\ Presents(f.body)
      BY <1>1, <1>10, HostHearsTalks
    <2>2. pong.type = "Pong"
      BY <1>3
    <2>3. host.pc = "session"
      BY <1>1, <2>1 DEF Shape, Talking
    <2>4. Len(hostGot) + 1 \in DOMAIN dispSent /\ dispSent[Len(hostGot) + 1] = f
      BY <1>1, <2>1, <2>3, HostReadsDisplay
    <2> HIDE DEF f, pong
    <2>5. CASE hostSent' = Append(hostSent, pong) /\ neg'.presented = neg.presented
               /\ neg'.config = neg.config /\ neg'.produced = neg.produced /\ neg'.video = neg.video
      BY <1>2, <2>2, <2>5 DEF Idles, SameCounts
    <2>6. CASE hostSent' = hostSent /\ f.type = "Telemetry" /\ Presents(f.body)
               /\ neg'.config = neg.config /\ neg'.produced = neg.produced /\ neg'.video = neg.video
      BY <1>2, <2>4, <2>6 DEF Learns, SameCounts
    <2> QED BY <1>4, <2>1, <2>5, <2>6
  <1>11. CASE NegotiationFails \/ SessionEnds
    BY <1>1, <1>4, <1>11, FailuresTalk
  <1>12. CASE Unplug
    BY <1>1, <1>2, <1>12, UnplugTalks DEF Idles, SameCounts
  <1> QED BY <1>5, <1>6, <1>7, <1>8, <1>9, <1>10, <1>11, <1>12 DEF HostTalk

\* The display's record after a step of another.
LEMMA DispStops ==
  ASSUME DispShape(disp), SessionKept
  PROVE  /\ disp'.hello = disp.hello /\ disp'.caps = disp.caps /\ disp'.negotiated = disp.negotiated
         /\ disp'.failed \in {disp.failed, TRUE} /\ disp'.config = disp.config
         /\ disp'.refused = disp.refused /\ disp'.highest = disp.highest
         /\ DecoderChanges \/ (disp'.failed = disp.failed /\ disp'.pics = disp.pics)
  <1>1. CASE disp' = disp
    BY <1>1, Zenon
  <1>2. CASE \E b \in BOOLEAN : disp' = [disp EXCEPT !.on = b]
    <2>1. /\ disp'.hello = disp.hello /\ disp'.caps = disp.caps /\ disp'.negotiated = disp.negotiated
          /\ disp'.failed = disp.failed /\ disp'.config = disp.config
          /\ disp'.refused = disp.refused /\ disp'.highest = disp.highest /\ disp'.pics = disp.pics
      BY <1>2, DispOff
    <2> QED BY <2>1, Zenon
  <1>3. CASE DecoderChanges
    BY <1>3, DecoderMoves, Zenon
  <1> QED BY <1>1, <1>2, <1>3 DEF SessionKept

\* What the display knows.
Turns == Says /\ DisplayKnows /\ NoComplaint

\* A display that reads in turn.
LEMMA KnowsReads ==
  ASSUME Turns, DisplayReads
  PROVE  (DisplayKnows /\ NoComplaint)'
  <1> DEFINE f == Head(conns[server.conn].toDisplay)
             n == Len(dispGot)
  <1>1. /\ DisplayTalks /\ server.pc = "active" /\ conns[server.conn].toDisplay # <<>>
        /\ dispGot' = Append(dispGot, f) /\ InTurn(n, f)
    BY ReadsInTurn DEF Turns
  <1>2. n \in Nat /\ HostFrame(n + 1, f) /\ Stream(dispGot) /\ DispShape(disp)
    BY <1>1, NextFrame DEF Turns, Says, Base, Shape
  <1>3. Len(dispGot') = n + 1
    BY <1>1, <1>2, StreamGrows
  <1>4. f.seq = n
    BY <1>2 DEF HostFrame
  <1>5. neg' = neg /\ request' = request /\ display' = display
    BY <1>1 DEF DisplayTalks
  <1>6. HostHello' = HostHello /\ HostCapabilities' = HostCapabilities
    BY <1>5, SameOffer
  <1>7. /\ disp.failed \in BOOLEAN /\ disp.refused \in {"none", "decoder"}
        /\ ~disp.failed =>
              /\ disp.hello = IF n >= 1 THEN HostHello ELSE None
              /\ disp.caps = IF n >= 2 THEN HostCapabilities ELSE None
              /\ disp.negotiated = (n >= 2)
              /\ disp.config = IF n >= 3 THEN neg.config ELSE None
    BY <1>1 DEF Turns, DisplayKnows, NoComplaint
  <1> DEFINE Fields(h, c, g, k) ==
               /\ disp'.hello = h /\ disp'.caps = c /\ disp'.negotiated = g /\ disp'.config = k
  <1>8. ASSUME disp'.failed \in BOOLEAN, disp'.highest = n, disp'.refused \in {"none", "decoder"},
               \/ disp'.failed
               \/ Fields(IF n + 1 >= 1 THEN HostHello ELSE None,
                         IF n + 1 >= 2 THEN HostCapabilities ELSE None,
                         (n + 1 >= 2), IF n + 1 >= 3 THEN neg.config ELSE None)
        PROVE  (DisplayKnows /\ NoComplaint)'
    <2> HIDE DEF n
    <2>1. n = (n + 1) - 1
      BY <1>2 DEF n
    <2>2. /\ disp'.highest = Len(dispGot') - 1 /\ disp'.failed \in BOOLEAN
          /\ ~disp'.failed =>
                /\ disp'.hello = IF Len(dispGot') >= 1 THEN HostHello' ELSE None
                /\ disp'.caps = IF Len(dispGot') >= 2 THEN HostCapabilities' ELSE None
                /\ disp'.negotiated = (Len(dispGot') >= 2)
                /\ disp'.config = IF Len(dispGot') >= 3 THEN neg'.config ELSE None
      BY <1>3, <1>5, <1>6, <1>8, <2>1, Zenon
    <2> QED BY <1>8, <2>2, Zenon DEF DisplayKnows, NoComplaint
  <1> HIDE DEF f, n
  <1>9. CASE disp.failed /\ Takes(disp)
    BY <1>4, <1>7, <1>8, <1>9 DEF Takes, f
  <1>10. CASE ~disp.failed /\ n >= 3 /\ f.type = "Pong" /\ Takes(disp)
    BY <1>2, <1>4, <1>7, <1>8, <1>10 DEF Takes, f
  <1>11. CASE ~disp.failed /\ n = 0 /\ Takes([disp EXCEPT !.hello = HostHello])
    <2> DEFINE d == [disp EXCEPT !.hello = HostHello]
    <2>1. ASSUME NEW x
          PROVE  LET e == [disp EXCEPT !.hello = x]
                 IN  /\ e.hello = x /\ e.caps = disp.caps /\ e.negotiated = disp.negotiated
                     /\ e.failed = disp.failed /\ e.config = disp.config /\ e.refused = disp.refused
      BY <1>2 DEF DispShape
    <2>2. /\ d.hello = HostHello /\ d.caps = disp.caps /\ d.negotiated = disp.negotiated
          /\ d.failed = disp.failed /\ d.config = disp.config /\ d.refused = disp.refused
      BY <2>1, Zenon
    <2> HIDE DEF d
    <2>3. Takes(d)
      BY <1>11 DEF d
    <2> QED BY <1>2, <1>4, <1>7, <1>8, <1>11, <2>2, <2>3 DEF Takes, f
  <1>12. CASE /\ ~disp.failed /\ n = 1
              /\ \E yes : yes = TRUE /\ Takes([disp EXCEPT !.caps = HostCapabilities, !.negotiated = yes])
    <2>1. PICK yes : yes = TRUE /\ Takes([disp EXCEPT !.caps = HostCapabilities, !.negotiated = yes])
      BY <1>12, Zenon
    <2> DEFINE d == [disp EXCEPT !.caps = HostCapabilities, !.negotiated = yes]
    <2>2. /\ d.hello = disp.hello /\ d.caps = HostCapabilities /\ d.negotiated = yes
          /\ d.failed = disp.failed /\ d.config = disp.config /\ d.refused = disp.refused
      BY <1>2 DEF DispShape
    <2>3. Takes(d)
      BY <2>1, Zenon
    <2> HIDE DEF d
    <2>4. /\ n >= 1 /\ ~(n >= 2) /\ ~(n >= 3) /\ n + 1 >= 1 /\ n + 1 >= 2 /\ ~(n + 1 >= 3)
      BY <1>12
    <2>5. disp'.negotiated = TRUE
      BY <2>1, <2>2, <2>3, Zenon DEF Takes
    <2>6. (n + 1 >= 2) = TRUE
      BY <2>4, Zenon
    <2>7. disp'.hello = HostHello /\ disp'.caps = HostCapabilities /\ disp'.config = None
      BY <1>7, <1>12, <2>2, <2>3, <2>4, Zenon DEF Takes
    <2>8. Fields(IF n + 1 >= 1 THEN HostHello ELSE None,
                 IF n + 1 >= 2 THEN HostCapabilities ELSE None,
                 (n + 1 >= 2), IF n + 1 >= 3 THEN neg.config ELSE None)
      BY <2>4, <2>5, <2>6, <2>7, Zenon
    <2>9. disp'.failed \in BOOLEAN /\ disp'.highest = n /\ disp'.refused \in {"none", "decoder"}
      BY <1>4, <1>7, <2>2, <2>3, Zenon DEF Takes, f
    <2> QED BY <1>8, <2>8, <2>9, Zenon
  <1>13. CASE ~disp.failed /\ n = 2 /\ Refuses("decoder")
    BY <1>4, <1>8, <1>13 DEF Refuses, f
  <1>14. CASE ~disp.failed /\ n = 2 /\ Takes([disp EXCEPT !.config = neg.config])
    <2> DEFINE d == [disp EXCEPT !.config = neg.config]
    <2>1. ASSUME NEW x
          PROVE  LET e == [disp EXCEPT !.config = x]
                 IN  /\ e.hello = disp.hello /\ e.caps = disp.caps /\ e.negotiated = disp.negotiated
                     /\ e.failed = disp.failed /\ e.config = x /\ e.refused = disp.refused
      BY <1>2 DEF DispShape
    <2>2. /\ d.hello = disp.hello /\ d.caps = disp.caps /\ d.negotiated = disp.negotiated
          /\ d.failed = disp.failed /\ d.config = neg.config /\ d.refused = disp.refused
      BY <2>1, Zenon
    <2> HIDE DEF d
    <2>3. Takes(d)
      BY <1>14 DEF d
    <2> QED BY <1>2, <1>4, <1>7, <1>8, <1>14, <2>2, <2>3 DEF Takes, f
  <1>15. ASSUME ~disp.failed, n >= 3, NEW d, Takes(d),
                /\ d.hello = disp.hello /\ d.caps = disp.caps /\ d.negotiated = disp.negotiated
                /\ d.failed = disp.failed /\ d.config = disp.config /\ d.refused = disp.refused
         PROVE  (DisplayKnows /\ NoComplaint)'
    BY <1>2, <1>4, <1>7, <1>8, <1>15 DEF Takes, f
  <1>16. CASE /\ ~disp.failed /\ n >= 3
              /\ \E p : HandsOver(n, p) /\ Takes([disp EXCEPT !.pics = p])
    <2>1. PICK p : Takes([disp EXCEPT !.pics = p])
      BY <1>16
    <2> DEFINE e == [disp EXCEPT !.pics = p]
    <2>2. /\ e.hello = disp.hello /\ e.caps = disp.caps /\ e.negotiated = disp.negotiated
          /\ e.failed = disp.failed /\ e.config = disp.config /\ e.refused = disp.refused
      BY <1>2 DEF DispShape
    <2>3. Takes(e)
      BY <2>1
    <2>4. ~disp.failed /\ n >= 3
      BY <1>16
    <2> HIDE DEF e
    <2> QED BY ONLY <1>15, <2>2, <2>3, <2>4, Zenon
  <1> QED BY <1>1, <1>9, <1>10, <1>11, <1>12, <1>13, <1>14, <1>16, Zenon DEF InTurn

\* Another's step.
LEMMA KnowsAside ==
  ASSUME Turns, Aside \/ HostTalk
  PROVE  (DisplayKnows /\ NoComplaint)'
  <1>1. Says /\ DisplayKnows /\ NoComplaint /\ Base /\ Shape /\ DispShape(disp)
        /\ Stream(dispGot) /\ Stream(hostSent)
    BY DEF Turns, Says, Base, Shape
  <1>2. /\ dispGot' = dispGot /\ UNCHANGED <<request, display>>
        /\ server'.pc = "active" => server.pc = "active"
        /\ SessionKept
    <2>1. CASE Aside
      BY <2>1 DEF Aside
    <2>2. CASE HostTalk
      BY <1>1, <2>2, HostSteps DEF SessionKept
    <2> QED BY <2>1, <2>2
  <1>3. /\ disp'.hello = disp.hello /\ disp'.caps = disp.caps /\ disp'.negotiated = disp.negotiated
        /\ disp'.failed \in {disp.failed, TRUE} /\ disp'.config = disp.config
        /\ disp'.refused = disp.refused /\ disp'.highest = disp.highest
    BY <1>1, <1>2, DispStops
  <1>4. HostHello' = HostHello /\ HostCapabilities' = HostCapabilities
    BY <1>2, SameOffer
  <1>5. neg'.config = neg.config \/ (server.pc = "active" => ~(Len(dispGot) >= 3))
    <2>1. CASE Aside
      BY <2>1 DEF Aside
    <2>2. CASE HostTalk
      <3>1. neg'.config = neg.config \/ Len(hostSent) = 2
        BY <1>1, <2>2, HostSteps
      <3>2. IsPrefix(dispGot, hostSent)
        BY <1>1 DEF Base, Streams
      <3>3. Len(dispGot) <= Len(hostSent) /\ Len(dispGot) \in Nat /\ Len(hostSent) \in Nat
        BY <1>1, <3>2, StreamLen DEF IsPrefix
      <3>4. Len(hostSent) = 2 => ~(Len(dispGot) >= 3)
        BY <3>3
      <3> QED BY <3>1, <3>4, Zenon
    <2> QED BY <2>1, <2>2
  <1>6. NoComplaint'
    BY <1>1, <1>3, Zenon DEF NoComplaint
  <1> DEFINE n == Len(dispGot)
  <1> SUFFICES ASSUME server'.pc = "active" PROVE DisplayKnows'
    BY <1>6, Zenon DEF DisplayKnows
  <1>7. /\ disp.highest = n - 1
        /\ disp.failed \in BOOLEAN
        /\ ~disp.failed =>
              /\ disp.hello = IF n >= 1 THEN HostHello ELSE None
              /\ disp.caps = IF n >= 2 THEN HostCapabilities ELSE None
              /\ disp.negotiated = (n >= 2)
              /\ disp.config = IF n >= 3 THEN neg.config ELSE None
    BY <1>1, <1>2, Zenon DEF DisplayKnows
  <1>8. Len(dispGot') = n /\ (neg'.config = neg.config \/ ~(n >= 3))
    BY <1>2, <1>5
  <1> HIDE DEF n
  <1>9. /\ disp'.highest = n - 1
        /\ disp'.failed \in BOOLEAN
        /\ ~disp'.failed =>
              /\ disp'.hello = IF n >= 1 THEN HostHello' ELSE None
              /\ disp'.caps = IF n >= 2 THEN HostCapabilities' ELSE None
              /\ disp'.negotiated = (n >= 2)
              /\ disp'.config = IF n >= 3 THEN neg'.config ELSE None
    BY <1>3, <1>4, <1>7, <1>8, Zenon
  <1> QED BY <1>8, <1>9, Zenon DEF DisplayKnows

\* The display begins, and reports.
LEMMA KnowsDisplay ==
  ASSUME Turns, DisplayTalk
  PROVE  (DisplayKnows /\ NoComplaint)'
  <1>1. Says /\ DisplayKnows /\ NoComplaint /\ Base /\ Shape
    BY DEF Turns, Says, Base
  <1>2. CASE DisplayReads
    BY <1>2, KnowsReads
  <1>3. CASE DisplayReports
    <2>1. DisplayTalks /\ server.pc = "active" /\ dispGot' = dispGot /\ disp' = disp
      BY <1>1, <1>3, DisplayReportsTalks
    <2>2. neg' = neg /\ request' = request /\ display' = display
      BY <2>1 DEF DisplayTalks
    <2>3. HostHello' = HostHello /\ HostCapabilities' = HostCapabilities
      BY <2>2, SameOffer
    <2> QED BY <1>1, <2>1, <2>2, <2>3, Zenon DEF DisplayKnows, NoComplaint
  <1>4. CASE Activate
    <2>1. server.pc = "begun" /\ dispGot' = dispGot /\ disp' = disp
      BY <1>1, <1>4, ActivateTalks
    <2>2. dispGot = <<>> /\ Fresh(disp)
      BY <1>1, <2>1 DEF Base, Streams
    <2>3. /\ disp'.highest = -1 /\ disp'.hello = None /\ disp'.caps = None /\ disp'.negotiated = FALSE
          /\ disp'.config = None /\ disp'.failed = FALSE /\ disp'.refused = "none"
      BY <2>1, <2>2, Zenon DEF Fresh
    <2>4. Len(dispGot') = 0 /\ 0 - 1 = -1 /\ ~(0 >= 1) /\ ~(0 >= 2) /\ ~(0 >= 3)
      BY <2>1, <2>2
    <2>5. (0 >= 2) = FALSE
      BY SMT
    <2> QED BY <2>3, <2>4, <2>5, Zenon DEF DisplayKnows, NoComplaint
  <1> QED BY <1>2, <1>3, <1>4 DEF DisplayTalk

\* The initial states.
LEMMA TurnsInit == Init => Turns
  <1> SUFFICES ASSUME Init PROVE DisplayKnows /\ NoComplaint
    BY SaysInit DEF Turns
  <1>1. disp = NoSession /\ server.pc = "head"
    BY DEF Init, PairInit
  <1>2. disp.refused = "none"
    BY <1>1 DEF NoSession
  <1> QED BY <1>1, <1>2 DEF DisplayKnows, NoComplaint

\* Every step.
LEMMA TurnsNext ==
  ASSUME Turns, [Next]_vars
  PROVE  Turns'
  <1>1. Says /\ Base
    BY DEF Turns, Says
  <1>2. Says'
    BY <1>1, SaysNext
  <1>3. Aside \/ HostTalk \/ DisplayTalk
    BY <1>1, Steps, Stutter
  <1> QED BY <1>2, <1>3, KnowsAside, KnowsDisplay DEF Turns

\* The display is always where the host's stream has brought it, and has no
\* complaint but its decoder's.
THEOREM TurnsAlways == Spec => []Turns
  BY TurnsInit, TurnsNext, PTL DEF Spec

-----------------------------------------------------------------------------
(***************************************************************************)
(* Counting the pictures.                                                  *)
(***************************************************************************)
\* The number of pictures among the first frames: a number that grows with
\* every picture, and only then.
LEMMA VideosCount ==
  ASSUME NEW s, Stream(s), NEW n \in Nat
  PROVE  /\ IsFiniteSet(VideoAt(s, n)) /\ Videos(s, n) \in Nat /\ Videos(s, 0) = 0
         /\ n + 1 \in DOMAIN s =>
               Videos(s, n + 1) = IF s[n + 1].type = "VideoFrame" THEN Videos(s, n) + 1 ELSE Videos(s, n)
         /\ \A m \in Nat : m <= n => Videos(s, m) <= Videos(s, n)
  <1>1. Len(s) \in Nat /\ DOMAIN s = 1 .. Len(s)
    BY StreamLen
  <1>2. ASSUME NEW m \in Nat
        PROVE  IsFiniteSet(VideoAt(s, m)) /\ Videos(s, m) \in Nat
    <2>1. IsFiniteSet(1 .. Len(s))
      BY <1>1, FS_Interval
    <2>2. VideoAt(s, m) \subseteq 1 .. Len(s)
      BY <1>1 DEF VideoAt
    <2>3. IsFiniteSet(VideoAt(s, m))
      BY <2>1, <2>2, FS_Subset
    <2> QED BY <2>3, FS_CardinalityType DEF Videos
  <1>3. Videos(s, 0) = 0
    <2>1. VideoAt(s, 0) = {}
      BY <1>1 DEF VideoAt
    <2> QED BY <2>1, FS_EmptySet DEF Videos
  <1>4. ASSUME n + 1 \in DOMAIN s
        PROVE  Videos(s, n + 1) = IF s[n + 1].type = "VideoFrame" THEN Videos(s, n) + 1 ELSE Videos(s, n)
    <2>1. CASE s[n + 1].type = "VideoFrame"
      <3>1. VideoAt(s, n + 1) = VideoAt(s, n) \cup {n + 1} /\ n + 1 \notin VideoAt(s, n)
        BY <1>1, <1>4, <2>1 DEF VideoAt
      <3>2. Cardinality(VideoAt(s, n) \cup {n + 1}) = Cardinality(VideoAt(s, n)) + 1
        BY <1>2, <3>1, FS_AddElement
      <3> QED BY <2>1, <3>1, <3>2 DEF Videos
    <2>2. CASE s[n + 1].type # "VideoFrame"
      <3>1. VideoAt(s, n + 1) = VideoAt(s, n)
        BY <1>1, <1>4, <2>2 DEF VideoAt
      <3> QED BY <2>2, <3>1 DEF Videos
    <2> QED BY <2>1, <2>2
  <1>5. ASSUME NEW m \in Nat, m <= n PROVE Videos(s, m) <= Videos(s, n)
    <2>1. VideoAt(s, m) \subseteq VideoAt(s, n)
      BY <1>1, <1>5 DEF VideoAt
    <2>2. Cardinality(VideoAt(s, m)) <= Cardinality(VideoAt(s, n))
      BY <1>2, <2>1, FS_Subset
    <2> QED BY <2>2 DEF Videos
  <1> QED BY <1>2, <1>3, <1>4, <1>5

\* t is the stream s with f behind it: what was counted stays counted.
Grown(s, f, t) ==
    /\ \A n \in Nat : n <= Len(s) => Videos(t, n) = Videos(s, n)
    /\ Stream(t) /\ Len(t) = Len(s) + 1 /\ Len(s) \in Nat
    /\ f.type = "VideoFrame" => Videos(t, Len(t)) = Videos(s, Len(s)) + 1
    /\ f.type # "VideoFrame" => Videos(t, Len(t)) = Videos(s, Len(s))

\* A stream that grows keeps its counts.
LEMMA VideosGrow ==
  ASSUME NEW s, Stream(s), NEW f, NEW t, t = Append(s, f)
  PROVE  Grown(s, f, t)
  <1>1. Len(s) \in Nat /\ DOMAIN s = 1 .. Len(s)
    BY StreamLen
  <1>2. Stream(t) /\ Len(t) = Len(s) + 1
    BY StreamGrows
  <1>3. DOMAIN t = 1 .. Len(s) + 1
    BY <1>2, StreamLen
  <1>4. \A i \in 1 .. Len(s) : t[i] = s[i]
    <2> SUFFICES ASSUME NEW i \in 1 .. Len(s) PROVE t[i] = s[i]
      OBVIOUS
    <2>1. i \in DOMAIN t /\ i # Len(s) + 1
      BY <1>1, <1>3
    <2> QED BY <2>1, Appended
  <1>5. t[Len(s) + 1] = f
    <2>1. Len(s) + 1 \in DOMAIN t /\ Len(s) + 1 \notin DOMAIN s
      BY <1>1, <1>3
    <2> QED BY <2>1, Appended
  <1>6. ASSUME NEW n \in Nat, n <= Len(s) PROVE Videos(t, n) = Videos(s, n)
    <2>1. ASSUME NEW j PROVE j \in VideoAt(t, n) <=> j \in VideoAt(s, n)
      BY <1>1, <1>3, <1>4, <1>6 DEF VideoAt
    <2>2. VideoAt(t, n) = VideoAt(s, n)
      BY <2>1
    <2> QED BY <2>2 DEF Videos
  <1>7. Videos(t, Len(s) + 1) = IF t[Len(s) + 1].type = "VideoFrame" THEN Videos(t, Len(s)) + 1
                                ELSE Videos(t, Len(s))
    <2>1. Len(s) + 1 \in DOMAIN t
      BY <1>1, <1>3
    <2> QED BY <1>1, <1>2, <2>1, VideosCount
  <1> QED BY <1>1, <1>2, <1>5, <1>6, <1>7 DEF Grown

\* sent_video_ordinals keeps the latest.
LEMMA RememberedPart ==
  ASSUME NEW s, Stream(s), s # <<>>
  PROVE  /\ Stream(Remembered(s))
         /\ \A i \in DOMAIN Remembered(s) : \E j \in DOMAIN s : Remembered(s)[i] = s[j]
  <1> DEFINE S == {s[i] : i \in DOMAIN s}
             m == IF Len(s) > History THEN Len(s) - History + 1 ELSE 1
             r == SubSeq(s, m, Len(s))
  <1>1. s \in Seq(S) /\ Len(s) \in Nat /\ Len(s) # 0
    BY StreamLen DEF Stream
  <1>2. m \in Nat /\ m >= 1 /\ m <= Len(s)
    BY <1>1, ConnectAssumption
  <1> HIDE DEF S, m
  <1>3. r \in Seq(S) /\ DOMAIN r = 1 .. Len(s) + 1 - m /\ Len(r) = Len(s) + 1 - m
        /\ \A i \in 1 .. Len(s) + 1 - m : r[i] = s[m + i - 1]
    BY <1>1, <1>2
  <1>4. DOMAIN s = 1 .. Len(s)
    BY <1>1
  <1>5. ASSUME NEW i \in DOMAIN r PROVE \E j \in DOMAIN s : r[i] = s[j]
    <2>1. i \in 1 .. Len(s) + 1 - m /\ m + i - 1 \in 1 .. Len(s)
      BY <1>1, <1>2, <1>3
    <2> QED BY <1>3, <1>4, <2>1
  <1>6. r = Remembered(s)
    BY DEF Remembered, m
  <1> HIDE DEF r
  <1>7. Stream(r)
    BY <1>3, StreamOf
  <1> QED BY <1>5, <1>6, <1>7

\* The host has written: what was counted stays counted.
LEMMA CountsWritten ==
  ASSUME Turns, Counts, NEW f, hostSent' = Append(hostSent, f),
         UNCHANGED <<server, disp, dispSent, dispGot>>
  PROVE  DisplayCounts' /\ ReportCounts'
  <1>1. Stream(hostSent) /\ Stream(dispGot) /\ IsPrefix(dispGot, hostSent)
    BY DEF Turns, Says, Base, Shape, Streams
  <1>2. Len(dispGot) <= Len(hostSent) /\ Len(dispGot) \in Nat /\ Len(hostSent) \in Nat
    BY <1>1, StreamLen DEF IsPrefix
  <1>3. Len(hostSent') = Len(hostSent) + 1
        /\ \A n \in Nat : n <= Len(hostSent) => Videos(hostSent', n) = Videos(hostSent, n)
    <2>1. hostSent' = Append(hostSent, f)
      OBVIOUS
    <2>2. Grown(hostSent, f, hostSent')
      BY ONLY <1>1, <2>1, VideosGrow, Zenon
    <2> QED BY ONLY <2>2 DEF Grown
  <1>4. DisplayCounts'
    <2> DEFINE p == disp.pics
    <2>1. PicShape(p) /\ (server.pc = "active" /\ ~disp.failed => Accounted(p, hostSent, Len(dispGot)))
      BY DEF Counts, DisplayCounts
    <2>2. ASSUME Accounted(p, hostSent, Len(dispGot)) PROVE Accounted(p, hostSent', Len(dispGot))
      <3>1. Videos(hostSent', Len(dispGot)) = Videos(hostSent, Len(dispGot))
        BY <1>2, <1>3
      <3>2. p.released \in Nat
        BY <2>1 DEF PicShape
      <3>3. p.released < Len(dispGot) =>
              Videos(hostSent', p.released + 1) = Videos(hostSent, p.released + 1)
        BY <1>2, <1>3, <3>2
      <3> HIDE DEF p
      <3> QED BY <2>2, <3>1, <3>3 DEF Accounted
    <2> HIDE DEF p
    <2> QED BY <2>1, <2>2, Zenon DEF DisplayCounts, p
  <1>5. ASSUME NEW b, ReportOf(b) PROVE ReportOf(b)'
    <2>1. /\ b.frame \in Nat /\ b.dropped \in Nat /\ b.frame < Len(hostSent)
          /\ Videos(hostSent, b.frame + 1) <= b.dropped + Seen(disp.pics)
      BY <1>5 DEF ReportOf
    <2>2. Videos(hostSent', b.frame + 1) = Videos(hostSent, b.frame + 1)
      BY <1>2, <1>3, <2>1
    <2> QED BY <1>2, <1>3, <2>1, <2>2 DEF ReportOf
  <1>6. ReportCounts'
    BY <1>5 DEF Counts, ReportCounts
  <1> QED BY <1>4, <1>6

\* The host's own counts when it writes something else.
LEMMA HostCountsKept ==
  ASSUME Turns, Counts, SameCounts,
         hostSent' = hostSent \/ \E f : f.type # "VideoFrame" /\ hostSent' = Append(hostSent, f)
  PROVE  HostCounts'
  <1>1. Stream(hostSent) /\ HostCounts
    BY DEF Turns, Says, Base, Shape, Counts
  <1>2. CASE hostSent' = hostSent
    BY <1>1, <1>2 DEF HostCounts, SameCounts
  <1>3. CASE \E f : f.type # "VideoFrame" /\ hostSent' = Append(hostSent, f)
    <2>1. PICK f : f.type # "VideoFrame" /\ hostSent' = Append(hostSent, f)
      BY <1>3
    <2>2. /\ Len(hostSent') = Len(hostSent) + 1 /\ Len(hostSent) \in Nat
          /\ \A n \in Nat : n <= Len(hostSent) => Videos(hostSent', n) = Videos(hostSent, n)
          /\ Videos(hostSent', Len(hostSent')) = Videos(hostSent, Len(hostSent))
      <3>1. ASSUME NEW t, t = Append(hostSent, f)
            PROVE  /\ \A n \in Nat : n <= Len(hostSent) => Videos(t, n) = Videos(hostSent, n)
                   /\ Len(t) = Len(hostSent) + 1 /\ Len(hostSent) \in Nat
                   /\ Videos(t, Len(t)) = Videos(hostSent, Len(hostSent))
        <4>1. f.type # "VideoFrame"
          BY <2>1
        <4>2. Grown(hostSent, f, t)
          BY ONLY <1>1, <3>1, VideosGrow, Zenon
        <4> QED BY ONLY <4>1, <4>2 DEF Grown
      <3> QED BY <2>1, <3>1
    <2>3. ASSUME NEW i \in DOMAIN neg.video
          PROVE  /\ neg.video[i][1] \in Nat /\ neg.video[i][1] < Len(hostSent')
                 /\ neg.video[i][2] = Videos(hostSent', neg.video[i][1] + 1)
      <3> DEFINE q == neg.video[i][1]
      <3>1. q \in Nat /\ q < Len(hostSent) /\ neg.video[i][2] = Videos(hostSent, q + 1)
        BY <1>1 DEF HostCounts
      <3> HIDE DEF q
      <3>2. q < Len(hostSent') /\ q + 1 \in Nat /\ q + 1 <= Len(hostSent)
        BY <2>2, <3>1
      <3> QED BY <2>2, <3>1, <3>2 DEF q
    <2> QED BY <1>1, <2>2, <2>3 DEF HostCounts, SameCounts
  <1> QED BY <1>2, <1>3

\* The host writes a picture.
LEMMA HostCountsMore ==
  ASSUME Turns, Counts, Writes
  PROVE  HostCounts'
  <1>1. Stream(hostSent) /\ HostCounts /\ Stream(neg.video)
    BY DEF Turns, Says, Base, Shape, Counts, HostCounts
  <1>2. PICK f : f.type = "VideoFrame" /\ hostSent' = Append(hostSent, f)
    BY DEF Writes
  <1> DEFINE n == Len(hostSent)
             e == <<neg.next, neg.produced + 1>>
             v == Append(neg.video, e)
  <1>3. /\ Len(hostSent') = n + 1 /\ n \in Nat
        /\ \A k \in Nat : k <= n => Videos(hostSent', k) = Videos(hostSent, k)
        /\ Videos(hostSent', Len(hostSent')) = Videos(hostSent, n) + 1
    <2>1. ASSUME NEW t, t = Append(hostSent, f)
          PROVE  /\ Len(t) = n + 1 /\ n \in Nat
                 /\ \A k \in Nat : k <= n => Videos(t, k) = Videos(hostSent, k)
                 /\ Videos(t, Len(t)) = Videos(hostSent, n) + 1
      <3>1. f.type = "VideoFrame"
        BY <1>2
      <3>2. Grown(hostSent, f, t)
        BY ONLY <1>1, <2>1, VideosGrow, Zenon
      <3> QED BY ONLY <3>1, <3>2 DEF Grown
    <2> QED BY <1>2, <2>1
  <1>4. neg.next = n /\ neg'.produced = neg.produced + 1 /\ neg'.video = Remembered(v)
    BY DEF Writes
  <1>5. neg.produced = Videos(hostSent, n)
    BY <1>1 DEF HostCounts
  <1>6. e[1] = n /\ e[2] = neg.produced + 1
    BY <1>4
  <1> HIDE DEF e, n
  <1>7. Stream(v) /\ v # <<>>
    <2>1. Stream(v) /\ Len(v) = Len(neg.video) + 1 /\ Len(neg.video) \in Nat
      BY <1>1, StreamGrows, StreamLen
    <2> HIDE DEF v
    <2>2. Len(v) # 0
      BY <2>1
    <2> QED BY <2>1, <2>2, StreamLen
  <1>8. ASSUME NEW i \in DOMAIN v
        PROVE  /\ v[i][1] \in Nat /\ v[i][1] < n + 1
               /\ v[i][2] = Videos(hostSent', v[i][1] + 1)
    <2>1. (i \in DOMAIN neg.video /\ v[i] = neg.video[i]) \/ v[i] = e
      BY <1>1, <1>8, Appended
    <2>2. CASE v[i] = e
      BY <1>3, <1>5, <1>6, <2>2
    <2>3. CASE i \in DOMAIN neg.video /\ v[i] = neg.video[i]
      <3> DEFINE q == neg.video[i][1]
      <3>1. q \in Nat /\ q < n /\ neg.video[i][2] = Videos(hostSent, q + 1)
        BY <1>1, <2>3 DEF HostCounts, n
      <3> HIDE DEF q
      <3>2. q < n + 1 /\ q + 1 \in Nat /\ q + 1 <= n
        BY <1>3, <3>1
      <3> QED BY <1>3, <2>3, <3>1, <3>2 DEF q
    <2> QED BY <2>1, <2>2, <2>3
  <1> HIDE DEF v
  <1>9. /\ Stream(Remembered(v))
        /\ \A i \in DOMAIN Remembered(v) : \E j \in DOMAIN v : Remembered(v)[i] = v[j]
    BY <1>7, RememberedPart
  <1>10. ASSUME NEW i \in DOMAIN neg'.video
         PROVE  /\ neg'.video[i][1] \in Nat /\ neg'.video[i][1] < Len(hostSent')
                /\ neg'.video[i][2] = Videos(hostSent', neg'.video[i][1] + 1)
    <2>1. PICK j \in DOMAIN v : neg'.video[i] = v[j]
      BY <1>4, <1>9
    <2> QED BY <1>3, <1>8, <2>1
  <1>11. Stream(neg'.video) /\ neg'.produced = Videos(hostSent', Len(hostSent'))
    BY <1>3, <1>4, <1>5, <1>9
  <1> QED BY <1>10, <1>11 DEF HostCounts

\* The host takes a report.
LEMMA PresentedKept ==
  ASSUME Turns, Counts, Learns, disp' = disp
  PROVE  Presented'
  <1>1. PICK i \in DOMAIN dispSent : dispSent[i].type = "Telemetry" /\ Presents(dispSent[i].body)
    BY DEF Learns
  <1> DEFINE b == dispSent[i].body
  <1>2. ReportOf(b) /\ Presents(b) /\ HostCounts /\ Presented /\ Stream(hostSent)
    BY <1>1 DEF Counts, ReportCounts, Turns, Says, Base, Shape
  <1> HIDE DEF b
  <1>3. /\ b.frame \in Nat /\ b.dropped \in Nat
        /\ Videos(hostSent, b.frame + 1) <= b.dropped + Seen(disp.pics)
        /\ Seen(disp.pics) \in Nat
    BY <1>2 DEF ReportOf, Counts, DisplayCounts, PicShape, Seen
  <1>4. CASE neg'.presented = neg.presented
    BY <1>2, <1>4 DEF Presented
  <1>5. CASE \E k \in DOMAIN neg.video :
                /\ neg.video[k][1] = b.frame
                /\ neg'.presented = IF neg.video[k][2] > b.dropped THEN neg.video[k][2] - b.dropped ELSE 0
    <2>1. PICK k \in DOMAIN neg.video :
                /\ neg.video[k][1] = b.frame
                /\ neg'.presented = IF neg.video[k][2] > b.dropped THEN neg.video[k][2] - b.dropped ELSE 0
      BY <1>5
    <2> DEFINE o == neg.video[k][2]
    <2>2. o = Videos(hostSent, b.frame + 1)
      BY <1>2, <2>1 DEF HostCounts
    <2>3. o \in Nat /\ o <= b.dropped + Seen(disp.pics)
      BY <1>2, <1>3, <2>2, VideosCount
    <2>4. neg'.presented = IF o > b.dropped THEN o - b.dropped ELSE 0
      BY <2>1
    <2> HIDE DEF o
    <2> QED BY <1>3, <2>3, <2>4 DEF Presented
  <1> QED BY <1>2, <1>4, <1>5 DEF Presents

\* Every step of the host keeps the counts.
LEMMA CountsHost ==
  ASSUME Turns, Counts, HostTalk
  PROVE  Counts'
  <1>1. Says /\ DisplayCounts /\ HostCounts /\ ReportCounts /\ Presented
    BY DEF Turns, Counts
  <1>2. UNCHANGED <<server, disp, dispSent, dispGot>> /\ (Writes \/ Idles \/ Learns)
    BY <1>1, HostSteps
  <1>3. DisplayCounts' /\ ReportCounts'
    <2>1. CASE hostSent' = hostSent
      BY <1>1, <1>2, <2>1 DEF DisplayCounts, ReportCounts, ReportOf
    <2>2. CASE \E f : hostSent' = Append(hostSent, f)
      BY <1>2, <2>2, CountsWritten
    <2> QED BY <1>2, <2>1, <2>2 DEF Writes, Idles, Learns
  <1>4. HostCounts'
    BY <1>2, HostCountsMore, HostCountsKept DEF Idles, Learns
  <1>5. Presented'
    <2>1. CASE neg'.presented = neg.presented
      BY <1>1, <1>2, <2>1 DEF Presented
    <2>2. CASE Learns
      BY <1>2, <2>2, PresentedKept
    <2> QED BY <1>2, <2>1, <2>2 DEF Writes, Idles
  <1> QED BY <1>3, <1>4, <1>5 DEF Counts

\* Reports and what is seen only grow.
LEMMA ReportsKept ==
  ASSUME Turns, Counts, hostSent' = hostSent, neg' = neg, Seen(disp.pics)' \in Nat,
         Seen(disp.pics)' >= Seen(disp.pics),
         \A i \in DOMAIN dispSent' :
            \/ i \in DOMAIN dispSent /\ dispSent'[i] = dispSent[i]
            \/ dispSent'[i].type # "Telemetry"
            \/ ReportOf(dispSent'[i].body)
  PROVE  HostCounts' /\ ReportCounts' /\ Presented'
  <1>1. /\ Seen(disp.pics) \in Nat /\ HostCounts /\ ReportCounts /\ Presented
        /\ Stream(hostSent)
    BY DEF Counts, DisplayCounts, Turns, Says, Base, Shape, Seen, PicShape
  <1>2. HostCounts'
    BY <1>1 DEF HostCounts
  <1>3. Presented'
    BY <1>1 DEF Presented
  <1>4. ASSUME NEW b, ReportOf(b) PROVE ReportOf(b)'
    <2>1. /\ b.frame \in Nat /\ b.dropped \in Nat /\ b.frame < Len(hostSent)
          /\ Videos(hostSent, b.frame + 1) <= b.dropped + Seen(disp.pics)
      BY <1>4 DEF ReportOf
    <2>2. Videos(hostSent, b.frame + 1) \in Nat
      BY <1>1, <2>1, VideosCount
    <2>3. Videos(hostSent, b.frame + 1) <= b.dropped + Seen(disp.pics)'
      BY <1>1, <2>1, <2>2
    <2> QED BY <2>1, <2>3 DEF ReportOf
  <1>5. ReportCounts'
    BY <1>1, <1>4 DEF ReportCounts
  <1> QED BY <1>2, <1>3, <1>5

\* q comes from p when the pictures N arrive: none gets lost from the account.
Moves(p, q, N) ==
    /\ PicShape(q)
    /\ Done(q) + Cardinality(q.waiting) = Done(p) + Cardinality(p.waiting) + Cardinality(N)
    /\ Done(q) >= Done(p) /\ Seen(q) >= Seen(p)
    /\ q.waiting \subseteq p.waiting \cup N
    /\ q.ready => q.waiting = {}
    /\ q.released = p.released \/ (q.released \in p.waiting \cup N /\ q.waiting = {})

\* What becomes of the pictures the decoder takes.
DecodesTo(p, q, T) ==
    /\ PicShape(q) /\ q.ready = p.ready /\ q.waiting = p.waiting
    /\ Done(q) = Done(p) + Cardinality(T) /\ Seen(q) >= Seen(p)
    /\ q.released = p.released \/ q.released \in T

\* decoder.submit: each picture is shown, counted or lost.
LEMMA DecodedCounts ==
  ASSUME NEW p, PicShape(p), NEW T, IsFiniteSet(T), T \subseteq Nat, NEW q \in Decoded(p, T)
  PROVE  DecodesTo(p, q, T)
  <1>1. PICK o \in [out : SUBSET T, counted : SUBSET T, last : T \cup {p.released}] :
          /\ o.out \cap o.counted = {}
          /\ IF o.out = {} THEN o.last = p.released
             ELSE o.last \in o.out /\ \A x \in o.out : x <= o.last
          /\ q = [p EXCEPT !.released = o.last, !.shown = @ + Cardinality(o.out),
                           !.dropped = @ + Cardinality(o.counted),
                           !.uncounted = @ + Cardinality(T \ (o.out \cup o.counted))]
    BY Zenon DEF Decoded
  <1> DEFINE A == o.out
             B == o.counted
             C == T \ (A \cup B)
             a == Cardinality(A)
             b == Cardinality(B)
             c == Cardinality(C)
             r == o.last
  <1>2. A \subseteq T /\ B \subseteq T /\ A \cap B = {} /\ r \in T \cup {p.released}
    BY <1>1
  <1>3. q = [p EXCEPT !.released = r, !.shown = @ + a, !.dropped = @ + b, !.uncounted = @ + c]
    BY <1>1
  <1> HIDE DEF A, B, r
  <1>4. /\ IsFiniteSet(A) /\ IsFiniteSet(B) /\ IsFiniteSet(A \cup B) /\ IsFiniteSet(C)
        /\ a \in Nat /\ b \in Nat /\ c \in Nat
    <2>1. A \cup B \subseteq T /\ C \subseteq T
      BY <1>2
    <2>2. IsFiniteSet(A) /\ IsFiniteSet(B) /\ IsFiniteSet(A \cup B) /\ IsFiniteSet(C)
      BY <1>2, <2>1, FS_Subset
    <2> QED BY <2>2, FS_CardinalityType
  <1>5. Cardinality(T) = a + b + c
    <2>1. Cardinality(A \cup B) = a + b - Cardinality(A \cap B)
      BY <1>4, FS_Union
    <2>2. Cardinality(A \cap B) = 0
      BY <1>2, FS_EmptySet
    <2>3. c = Cardinality(T) - Cardinality(T \cap (A \cup B))
      BY <1>4, FS_Difference
    <2>4. T \cap (A \cup B) = A \cup B
      BY <1>2
    <2>5. Cardinality(T) \in Nat /\ Cardinality(A \cup B) \in Nat
      BY <1>4, FS_CardinalityType
    <2>6. c = Cardinality(T) - Cardinality(A \cup B)
      BY <2>3, <2>4
    <2> HIDE DEF a, b, c
    <2> QED BY <1>4, <2>1, <2>2, <2>5, <2>6
  <1> HIDE DEF a, b, c, C
  <1>6. r \in Nat
    BY <1>2 DEF PicShape
  <1>7. /\ PicShape(q) /\ q.ready = p.ready /\ q.waiting = p.waiting /\ q.released = r
        /\ q.shown = p.shown + a /\ q.dropped = p.dropped + b /\ q.uncounted = p.uncounted + c
    <2>1. p.shown + a \in Nat /\ p.dropped + b \in Nat /\ p.uncounted + c \in Nat
      BY <1>4 DEF PicShape
    <2>2. ASSUME NEW x \in Nat, NEW y \in Nat, NEW z \in Nat, NEW u \in Nat,
                 q = [p EXCEPT !.released = u, !.shown = x, !.dropped = y, !.uncounted = z]
          PROVE  /\ PicShape(q) /\ q.ready = p.ready /\ q.waiting = p.waiting /\ q.released = u
                 /\ q.shown = x /\ q.dropped = y /\ q.uncounted = z
      BY <2>2 DEF PicShape
    <2> QED BY ONLY <1>3, <1>6, <2>1, <2>2, Zenon
  <1>8. Done(q) = Done(p) + Cardinality(T) /\ Seen(q) >= Seen(p)
    BY <1>4, <1>5, <1>7 DEF Done, Seen, PicShape
  <1>9. r = p.released \/ r \in T
    BY <1>2
  <1> QED BY <1>7, <1>8, <1>9 DEF DecodesTo

\* enqueueUntilSurfaceReady.
LEMMA EnqueuedCounts ==
  ASSUME NEW p, PicShape(p), NEW x \in Nat, x \notin p.waiting, ~p.ready, NEW q \in Enqueued(p, x)
  PROVE  Moves(p, q, {x})
  <1> DEFINE n == Cardinality(p.waiting)
  <1>1. \/ q = [p EXCEPT !.waiting = {x}, !.stalled = FALSE, !.dropped = @ + n]
        \/ q = [p EXCEPT !.dropped = @ + 1]
        \/ q = [p EXCEPT !.waiting = {}, !.stalled = TRUE, !.dropped = @ + n + 1]
        \/ q = [p EXCEPT !.waiting = @ \cup {x}]
    BY Zenon DEF Enqueued
  <1>2. /\ n \in Nat /\ IsFiniteSet({x}) /\ Cardinality({x}) = 1 /\ IsFiniteSet({})
        /\ Cardinality({}) = 0 /\ IsFiniteSet(p.waiting \cup {x})
        /\ Cardinality(p.waiting \cup {x}) = n + 1
    BY FS_CardinalityType, FS_Singleton, FS_EmptySet, FS_AddElement DEF PicShape
  <1> DEFINE Now(w, d) ==
               /\ PicShape(q) /\ q.waiting = w /\ q.dropped = d /\ q.ready = p.ready
               /\ q.released = p.released /\ q.shown = p.shown /\ q.uncounted = p.uncounted
  <1>3. ASSUME NEW w, NEW t, NEW d, d \in Nat, IsFiniteSet(w), w \subseteq Nat,
               q = [p EXCEPT !.waiting = w, !.stalled = t, !.dropped = d]
        PROVE  Now(w, d)
    BY <1>3 DEF PicShape
  <1>4. /\ p.shown \in Nat /\ p.dropped \in Nat /\ p.uncounted \in Nat
        /\ IsFiniteSet(p.waiting) /\ p.waiting \subseteq Nat
    BY DEF PicShape
  <1> HIDE DEF n
  <1> HIDE DEF Now
  <1>5. ASSUME NEW w, NEW d, d \in Nat, IsFiniteSet(w), w \subseteq p.waiting \cup {x}, Now(w, d),
               d + Cardinality(w) = p.dropped + n + 1, d >= p.dropped
        PROVE  Moves(p, q, {x})
    <2>1. /\ PicShape(q) /\ q.waiting = w /\ q.dropped = d /\ q.ready = p.ready
          /\ q.released = p.released /\ q.shown = p.shown /\ q.uncounted = p.uncounted
      BY <1>5 DEF Now
    <2>2. Cardinality(w) \in Nat
      BY <1>5, FS_CardinalityType
    <2>3. /\ Done(q) + Cardinality(w) = Done(p) + n + 1 /\ Done(q) >= Done(p) /\ Seen(q) >= Seen(p)
      BY <1>2, <1>4, <1>5, <2>1, <2>2 DEF Done, Seen
    <2> QED BY <1>2, <1>5, <2>1, <2>3 DEF Moves, n
  <1>6. CASE q = [p EXCEPT !.waiting = {x}, !.stalled = FALSE, !.dropped = @ + n]
    <2>1. p.dropped + n \in Nat /\ (p.dropped + n) + 1 = p.dropped + n + 1 /\ p.dropped + n >= p.dropped
          /\ {x} \subseteq Nat /\ {x} \subseteq p.waiting \cup {x}
      BY <1>2, <1>4
    <2>2. Now({x}, p.dropped + n)
      BY ONLY <1>2, <1>3, <1>6, <2>1, Zenon
    <2> QED BY <1>2, <1>5, <2>1, <2>2
  <1>7. CASE q = [p EXCEPT !.dropped = @ + 1]
    <2>1. q = [p EXCEPT !.waiting = p.waiting, !.stalled = p.stalled, !.dropped = p.dropped + 1]
      BY <1>7 DEF PicShape
    <2>2. p.dropped + 1 \in Nat /\ (p.dropped + 1) + n = p.dropped + n + 1 /\ p.dropped + 1 >= p.dropped
          /\ p.waiting \subseteq p.waiting \cup {x}
      BY <1>2, <1>4
    <2>3. Now(p.waiting, p.dropped + 1)
      BY ONLY <1>3, <1>4, <2>1, <2>2, Zenon
    <2> QED BY <1>4, <1>5, <2>2, <2>3 DEF n
  <1>8. CASE q = [p EXCEPT !.waiting = {}, !.stalled = TRUE, !.dropped = @ + n + 1]
    <2>1. p.dropped + n + 1 \in Nat /\ (p.dropped + n + 1) + 0 = p.dropped + n + 1
          /\ p.dropped + n + 1 >= p.dropped /\ {} \subseteq Nat /\ {} \subseteq p.waiting \cup {x}
      BY <1>2, <1>4
    <2>2. Now({}, p.dropped + n + 1)
      BY ONLY <1>2, <1>3, <1>8, <2>1, Zenon
    <2> QED BY <1>2, <1>5, <2>1, <2>2
  <1>9. CASE q = [p EXCEPT !.waiting = @ \cup {x}]
    <2> DEFINE w == p.waiting \cup {x}
    <2>1. q = [p EXCEPT !.waiting = w, !.stalled = p.stalled, !.dropped = p.dropped]
      BY <1>9 DEF PicShape
    <2>2. p.dropped + (n + 1) = p.dropped + n + 1 /\ p.dropped >= p.dropped
          /\ w \subseteq Nat /\ IsFiniteSet(w) /\ Cardinality(w) = n + 1 /\ w \subseteq p.waiting \cup {x}
      BY <1>2, <1>4
    <2> HIDE DEF w
    <2>3. Now(w, p.dropped)
      BY ONLY <1>3, <1>4, <2>1, <2>2, Zenon
    <2> QED BY <1>4, <1>5, <2>2, <2>3
  <1> QED BY <1>1, <1>6, <1>7, <1>8, <1>9

\* handleMediaFrame.
LEMMA HandsOverCounts ==
  ASSUME PicShape(disp.pics), NEW n \in Nat, n \notin disp.pics.waiting,
         disp.pics.ready => disp.pics.waiting = {}, NEW q, HandsOver(n, q)
  PROVE  Moves(disp.pics, q, {n})
  <1> DEFINE p == disp.pics
  <1>1. CASE p.ready
    <2>1. q \in Decoded(p, {n}) /\ p.waiting = {}
      BY <1>1 DEF HandsOver
    <2>2. IsFiniteSet({n}) /\ {n} \subseteq Nat
      BY FS_Singleton
    <2> HIDE DEF p
    <2>3. DecodesTo(p, q, {n})
      BY <2>1, <2>2, DecodedCounts DEF p
    <2>4. Cardinality({}) = 0 /\ Cardinality({n}) = 1
      BY FS_EmptySet, FS_Singleton
    <2>5. Done(p) \in Nat /\ Done(q) = Done(p) + 1
      BY <2>3, <2>4 DEF DecodesTo, Done, PicShape, p
    <2>6. Moves(p, q, {n})
      BY <2>1, <2>3, <2>4, <2>5 DEF Moves, DecodesTo
    <2> QED BY <2>6 DEF p
  <1>2. CASE ~p.ready
    BY <1>2, EnqueuedCounts DEF HandsOver
  <1> QED BY <1>1, <1>2

\* drainPendingSurfaceFrames.
LEMMA DrainedCounts ==
  ASSUME NEW p, PicShape(p), NEW q \in Drained(p)
  PROVE  Moves(p, q, {})
  <1> DEFINE W == p.waiting
             d == [p EXCEPT !.ready = TRUE, !.waiting = {}]
             less(x) == {y \in W : y < x}
             more(x) == {y \in W : y > x}
             e(x) == [d EXCEPT !.stalled = TRUE, !.dropped = @ + 1,
                               !.uncounted = @ + Cardinality(more(x))]
  <1>1. IsFiniteSet(W) /\ W \subseteq Nat /\ Cardinality(W) \in Nat
        /\ IsFiniteSet({}) /\ Cardinality({}) = 0
    BY FS_CardinalityType, FS_EmptySet DEF PicShape
  <1>2. q \in Decoded(d, W) \/ \E x \in W : q \in Decoded(e(x), less(x))
    BY Zenon DEF Drained
  <1>3. /\ PicShape(d) /\ d.waiting = {} /\ d.released = p.released /\ d.shown = p.shown
        /\ d.dropped = p.dropped /\ d.uncounted = p.uncounted
    <2>1. ASSUME NEW yes, NEW g, g = [p EXCEPT !.ready = yes, !.waiting = {}]
          PROVE  /\ PicShape(g) /\ g.waiting = {} /\ g.released = p.released /\ g.shown = p.shown
                 /\ g.dropped = p.dropped /\ g.uncounted = p.uncounted
      BY <1>1, <2>1 DEF PicShape
    <2> QED BY <2>1, Zenon
  <1>4. /\ p.shown \in Nat /\ p.dropped \in Nat /\ p.uncounted \in Nat
    BY DEF PicShape
  <1> HIDE DEF W, d
  \* e is left by the refusal, and the decoder has taken the pictures T.
  <1>5. ASSUME NEW g, PicShape(g), g.waiting = {}, g.released = p.released, NEW T, T \subseteq W,
               Done(g) + Cardinality(T) = Done(p) + Cardinality(W), Seen(g) >= Seen(p),
               q \in Decoded(g, T)
        PROVE  Moves(p, q, {})
    <2>1. IsFiniteSet(T) /\ T \subseteq Nat /\ Cardinality(T) \in Nat /\ Cardinality(T) <= Cardinality(W)
      BY <1>1, <1>5, FS_Subset, FS_CardinalityType
    <2>2. DecodesTo(g, q, T)
      BY <1>5, <2>1, DecodedCounts
    <2>3. /\ PicShape(q) /\ q.waiting = {} /\ Done(q) = Done(g) + Cardinality(T) /\ Seen(q) >= Seen(g)
          /\ q.released = p.released \/ q.released \in T
      BY <1>5, <2>2 DEF DecodesTo
    <2>4. Done(g) \in Nat /\ Done(p) \in Nat /\ Seen(g) \in Nat /\ Seen(p) \in Nat /\ Seen(q) \in Nat
      BY <1>5, <2>3 DEF PicShape, Done, Seen
    <2>5. /\ Done(q) + 0 = Done(p) + Cardinality(W) + 0 /\ Done(q) >= Done(p) /\ Seen(q) >= Seen(p)
      BY <1>1, <1>5, <2>1, <2>3, <2>4
    <2> QED BY <1>1, <1>5, <2>3, <2>5 DEF Moves, W
  <1>6. CASE q \in Decoded(d, W)
    <2>1. Done(d) = Done(p) /\ Seen(d) = Seen(p) /\ Seen(p) \in Nat
      BY <1>3, <1>4 DEF Done, Seen
    <2> QED BY <1>3, <1>5, <1>6, <2>1
  <1>7. ASSUME NEW x \in W, q \in Decoded(e(x), less(x)) PROVE Moves(p, q, {})
    <2> DEFINE L == less(x)
               M == more(x)
               m == Cardinality(M)
               g == e(x)
    <2>1. /\ IsFiniteSet(L) /\ IsFiniteSet(M) /\ m \in Nat /\ Cardinality(L) \in Nat /\ L \subseteq W
      <3>1. L \subseteq W /\ M \subseteq W
        OBVIOUS
      <3> HIDE DEF L, M
      <3> QED BY <1>1, <3>1, FS_Subset, FS_CardinalityType
    <2>2. Cardinality(W) = Cardinality(L) + 1 + m
      <3>1. W = (L \cup {x}) \cup M /\ (L \cup {x}) \cap M = {} /\ x \notin L
        BY <1>1, <1>7
      <3> HIDE DEF L, M
      <3>2. IsFiniteSet(L \cup {x}) /\ Cardinality(L \cup {x}) = Cardinality(L) + 1
        BY <2>1, <3>1, FS_AddElement
      <3>3. Cardinality(W) = Cardinality(L \cup {x}) + Cardinality(M) - Cardinality((L \cup {x}) \cap M)
        BY <2>1, <3>1, <3>2, FS_Union
      <3> QED BY <1>1, <2>1, <3>1, <3>2, <3>3
    <2> HIDE DEF M, m
    <2>3. /\ PicShape(g) /\ g.waiting = {} /\ g.released = p.released /\ g.shown = p.shown
          /\ g.dropped = p.dropped + 1 /\ g.uncounted = p.uncounted + m
      <3> DEFINE Left(h, y, z) ==
                   /\ PicShape(h) /\ h.waiting = d.waiting /\ h.released = d.released
                   /\ h.shown = d.shown /\ h.dropped = y /\ h.uncounted = z
      <3>1. ASSUME NEW yes, NEW y, NEW z, y \in Nat, z \in Nat
            PROVE  Left([d EXCEPT !.stalled = yes, !.dropped = y, !.uncounted = z], y, z)
        BY <1>3, <3>1 DEF PicShape
      <3>2. g = [d EXCEPT !.stalled = TRUE, !.dropped = d.dropped + 1, !.uncounted = d.uncounted + m]
        BY Zenon DEF M, m
      <3>3. d.dropped + 1 \in Nat /\ d.uncounted + m \in Nat
        BY <1>3, <1>4, <2>1
      <3>4. /\ PicShape(g) /\ g.waiting = d.waiting /\ g.released = d.released /\ g.shown = d.shown
            /\ g.dropped = d.dropped + 1 /\ g.uncounted = d.uncounted + m
        <4> HIDE DEF g, Left
        <4>1. Left(g, d.dropped + 1, d.uncounted + m)
          BY ONLY <3>1, <3>2, <3>3, Zenon
        <4> QED BY <4>1, Zenon DEF Left
      <3> HIDE DEF g
      <3> QED BY <1>3, <3>4
    <2>4. q \in Decoded(g, L)
      BY <1>7
    <2> HIDE DEF g, L
    <2>5. Done(g) + Cardinality(L) = Done(p) + Cardinality(W) /\ Seen(g) >= Seen(p)
      BY <1>4, <2>1, <2>2, <2>3 DEF Done, Seen
    <2> QED BY <1>5, <2>1, <2>3, <2>4, <2>5
  <1> QED BY ONLY <1>2, <1>6, <1>7, Zenon

\* The surface goes, or a refusal gives up what waits.
LEMMA UnreadyCounts ==
  ASSUME NEW p, PicShape(p)
  PROVE  /\ Moves(p, [p EXCEPT !.ready = FALSE], {})
         /\ PicShape([p EXCEPT !.ready = FALSE, !.waiting = {}])
         /\ Seen([p EXCEPT !.ready = FALSE, !.waiting = {}]) = Seen(p)
  <1>1. ASSUME NEW no, ~no, NEW q, q = [p EXCEPT !.ready = no]
        PROVE  Moves(p, q, {})
    <2>1. /\ PicShape(q) /\ q.ready = no /\ q.waiting = p.waiting /\ q.released = p.released
          /\ q.shown = p.shown /\ q.dropped = p.dropped /\ q.uncounted = p.uncounted
      BY <1>1 DEF PicShape
    <2>2. /\ Done(q) = Done(p) /\ Seen(q) = Seen(p) /\ Done(p) \in Nat /\ Seen(p) \in Nat
          /\ Cardinality({}) = 0 /\ Cardinality(p.waiting) \in Nat
      BY <2>1, FS_EmptySet, FS_CardinalityType DEF Done, Seen, PicShape
    <2>3. /\ Done(q) + Cardinality(q.waiting) = Done(p) + Cardinality(p.waiting) + Cardinality({})
          /\ Done(q) >= Done(p) /\ Seen(q) >= Seen(p)
      BY <2>1, <2>2
    <2> QED BY <1>1, <2>1, <2>3 DEF Moves
  <1>2. ASSUME NEW no, NEW q, q = [p EXCEPT !.ready = no, !.waiting = {}]
        PROVE  PicShape(q) /\ Seen(q) = Seen(p)
    <2>1. IsFiniteSet({})
      BY FS_EmptySet
    <2> QED BY <1>2, <2>1 DEF PicShape, Seen
  <1> QED BY <1>1, <1>2, Zenon

\* The account of the first n frames, and of one more.
LEMMA AccountedMoves ==
  ASSUME NEW s, Stream(s), NEW n \in Nat, NEW p, PicShape(p), Accounted(p, s, n), NEW q
  PROVE  /\ Moves(p, q, {}) => Accounted(q, s, n)
         /\ n + 1 \in DOMAIN s /\ s[n + 1].type = "VideoFrame" /\ Moves(p, q, {n})
               => Accounted(q, s, n + 1)
         /\ n + 1 \in DOMAIN s /\ s[n + 1].type # "VideoFrame" => Accounted(p, s, n + 1)
  <1>1. ASSUME NEW N, IsFiniteSet(N), NEW m \in Nat, m >= n, \A x \in N : x \in Nat /\ x < m,
               Videos(s, m) = Videos(s, n) + Cardinality(N), Moves(p, q, N)
        PROVE  Accounted(q, s, m)
    <2>1. /\ Done(p) + Cardinality(p.waiting) = Videos(s, n) /\ \A x \in p.waiting : x < n
          /\ p.released = 0 \/ (p.released < n /\ Videos(s, p.released + 1) <= Done(p))
      BY DEF Accounted
    <2>2. /\ PicShape(q) /\ q.waiting \subseteq p.waiting \cup N /\ (q.ready => q.waiting = {})
          /\ Done(q) + Cardinality(q.waiting) = Done(p) + Cardinality(p.waiting) + Cardinality(N)
          /\ Done(q) >= Done(p)
          /\ q.released = p.released \/ (q.released \in p.waiting \cup N /\ q.waiting = {})
      BY <1>1 DEF Moves
    <2>3. /\ Cardinality(N) \in Nat /\ Cardinality(p.waiting) \in Nat /\ Cardinality(q.waiting) \in Nat
          /\ Done(p) \in Nat /\ Done(q) \in Nat /\ Videos(s, n) \in Nat /\ Videos(s, m) \in Nat
          /\ p.released \in Nat /\ q.released \in Nat /\ p.waiting \subseteq Nat
      <3>1. Cardinality(N) \in Nat /\ Videos(s, n) \in Nat /\ Videos(s, m) \in Nat
        BY <1>1, FS_CardinalityType, VideosCount
      <3>2. ASSUME NEW o, PicShape(o)
            PROVE  Cardinality(o.waiting) \in Nat /\ Done(o) \in Nat /\ o.released \in Nat
                   /\ o.waiting \subseteq Nat
        BY <3>2, FS_CardinalityType DEF PicShape, Done
      <3> QED BY <2>2, <3>1, <3>2
    <2>4. Done(q) + Cardinality(q.waiting) = Videos(s, m)
      BY <1>1, <2>1, <2>2, <2>3
    <2>5. \A x \in p.waiting \cup N : x < m /\ x \in Nat
      BY <1>1, <2>1, <2>3
    <2>6. q.released = 0 \/ (q.released < m /\ Videos(s, q.released + 1) <= Done(q))
      <3>1. CASE q.released = p.released
        <4>1. CASE p.released = 0
          BY <3>1, <4>1
        <4>2. CASE p.released < n /\ Videos(s, p.released + 1) <= Done(p)
          <5>1. Videos(s, p.released + 1) \in Nat
            BY <2>3, VideosCount
          <5> QED BY <1>1, <2>2, <2>3, <3>1, <4>2, <5>1
        <4> QED BY <2>1, <4>1, <4>2
      <3>2. CASE q.released \in p.waiting \cup N /\ q.waiting = {}
        <4>1. q.released < m /\ q.released + 1 \in Nat /\ q.released + 1 <= m
          BY <1>1, <2>3, <2>5, <3>2
        <4>2. Videos(s, q.released + 1) <= Videos(s, m)
          BY <1>1, <4>1, VideosCount
        <4>3. Done(q) = Videos(s, m)
          BY <2>3, <2>4, <3>2, FS_EmptySet
        <4> QED BY <4>1, <4>2, <4>3
      <3> QED BY <2>2, <3>1, <3>2
    <2> QED BY <2>2, <2>4, <2>5, <2>6 DEF Accounted
  <1>2. Videos(s, n) \in Nat /\ Cardinality({}) = 0 /\ IsFiniteSet({}) /\ n >= n
        /\ Cardinality({n}) = 1 /\ IsFiniteSet({n}) /\ n + 1 \in Nat /\ n + 1 >= n /\ n < n + 1
    <2>1. Videos(s, n) \in Nat
      BY VideosCount
    <2>2. Cardinality({}) = 0 /\ IsFiniteSet({})
      BY FS_EmptySet
    <2>3. Cardinality({n}) = 1 /\ IsFiniteSet({n})
      BY FS_Singleton
    <2> QED BY <2>1, <2>2, <2>3
  <1>3. ASSUME Moves(p, q, {}) PROVE Accounted(q, s, n)
    <2>1. Videos(s, n) = Videos(s, n) + Cardinality({})
      BY <1>2
    <2> QED BY <1>1, <1>2, <1>3, <2>1
  <1>4. ASSUME n + 1 \in DOMAIN s, s[n + 1].type = "VideoFrame", Moves(p, q, {n})
        PROVE  Accounted(q, s, n + 1)
    <2>1. Videos(s, n + 1) = Videos(s, n) + Cardinality({n})
      BY <1>2, <1>4, VideosCount
    <2> QED BY <1>1, <1>2, <1>4, <2>1
  <1>5. ASSUME n + 1 \in DOMAIN s, s[n + 1].type # "VideoFrame" PROVE Accounted(p, s, n + 1)
    <2>1. Videos(s, n + 1) = Videos(s, n)
      BY <1>5, VideosCount
    <2>2. \A x \in p.waiting : x < n + 1
      BY DEF Accounted, PicShape
    <2>3. p.released < n => p.released < n + 1
      BY DEF PicShape
    <2> QED BY <2>1, <2>2, <2>3 DEF Accounted
  <1> QED BY <1>3, <1>4, <1>5

\* The rest of the world.
LEMMA CountsAside ==
  ASSUME Turns, Counts, Aside
  PROVE  Counts'
  <1>1. /\ DispShape(disp) /\ UNCHANGED <<neg, hostSent, dispSent, dispGot>>
        /\ (server'.pc = "active" => server.pc = "active") /\ SessionKept
        /\ Stream(hostSent) /\ Stream(dispGot)
    BY DEF Turns, Says, Base, Shape, Aside
  <1>2. /\ disp'.failed \in {disp.failed, TRUE}
        /\ DecoderChanges \/ (disp'.failed = disp.failed /\ disp'.pics = disp.pics)
    BY <1>1, DispStops
  <1> DEFINE p == disp.pics
             q == disp'.pics
  <1>3. PicShape(p) /\ (server.pc = "active" /\ ~disp.failed => Accounted(p, hostSent, Len(dispGot)))
    BY DEF Counts, DisplayCounts
  <1>4. Moves(p, q, {}) \/ q = p
    <2>1. CASE DecoderChanges
      <3>1. q \in Drained(p) \cup {[p EXCEPT !.ready = FALSE]}
        BY <1>1, <2>1, DecoderMoves
      <3> HIDE DEF p, q
      <3>2. CASE q \in Drained(p)
        BY <1>3, <3>2, DrainedCounts
      <3>3. CASE q = [p EXCEPT !.ready = FALSE]
        BY <1>3, <3>3, UnreadyCounts, Zenon
      <3> QED BY <3>1, <3>2, <3>3, Zenon
    <2> QED BY <1>2, <2>1
  <1> HIDE DEF p, q
  <1>5. PicShape(q) /\ Seen(q) >= Seen(p) /\ Seen(q) \in Nat
    <2>1. PicShape(q) /\ (q = p \/ Seen(q) >= Seen(p))
      BY <1>3, <1>4 DEF Moves
    <2>2. Seen(q) \in Nat /\ Seen(p) \in Nat
      BY <1>3, <2>1 DEF PicShape, Seen
    <2> QED BY <2>1, <2>2
  <1>6. Accounted(p, hostSent, Len(dispGot)) => Accounted(q, hostSent, Len(dispGot))
    <2>1. Len(dispGot) \in Nat
      BY <1>1, StreamLen
    <2> QED BY <1>1, <1>3, <1>4, <2>1, AccountedMoves
  <1>7. DisplayCounts'
    <2>1. ~disp'.failed => ~disp.failed
      BY <1>2, Zenon
    <2> QED BY <1>1, <1>3, <1>5, <1>6, <2>1, Zenon DEF DisplayCounts, q
  <1>8. Seen(disp.pics)' \in Nat /\ Seen(disp.pics)' >= Seen(disp.pics)
    BY <1>5 DEF p, q
  <1>9. HostCounts' /\ ReportCounts' /\ Presented'
    BY <1>1, <1>8, ReportsKept
  <1> QED BY <1>7, <1>9 DEF Counts

\* What the display's n-th frame does to its pictures.
TurnsTo(n, f) ==
    \/ disp'.failed /\ disp'.pics \in {disp.pics, [disp.pics EXCEPT !.ready = FALSE, !.waiting = {}]}
    \/ disp'.failed = disp.failed /\ f.type # "VideoFrame" /\ disp'.pics = disp.pics
    \/ disp'.failed = disp.failed /\ ~disp.failed /\ f.type = "VideoFrame" /\ HandsOver(n, disp'.pics)

\* Taking a frame.
LEMMA TurnCounts ==
  ASSUME DispShape(disp), NEW n, NEW f, InTurn(n, f)
  PROVE  TurnsTo(n, f)
  <1>1. CASE disp.failed /\ Takes(disp)
    BY <1>1, Zenon DEF Takes, TurnsTo
  <1>2. CASE f.type = "Pong" /\ Takes(disp)
    <2>1. f.type # "VideoFrame"
      BY <1>2
    <2> QED BY <1>2, <2>1, Zenon DEF Takes, TurnsTo
  <1>3. CASE f.type = "Hello" /\ Takes([disp EXCEPT !.hello = HostHello])
    <2>1. f.type # "VideoFrame"
      BY <1>3
    <2> DEFINE d == [disp EXCEPT !.hello = HostHello]
    <2>2. d.failed = disp.failed /\ d.pics = disp.pics
      BY DEF DispShape
    <2>3. Takes(d)
      BY <1>3, Zenon
    <2> HIDE DEF d
    <2> QED BY <2>1, <2>2, <2>3, Zenon DEF Takes, TurnsTo
  <1>4. CASE f.type = "Capabilities" /\ \E yes : yes = TRUE
                /\ Takes([disp EXCEPT !.caps = HostCapabilities, !.negotiated = yes])
    <2>1. f.type # "VideoFrame"
      BY <1>4
    <2>2. PICK yes : Takes([disp EXCEPT !.caps = HostCapabilities, !.negotiated = yes])
      BY <1>4, Zenon
    <2> DEFINE d == [disp EXCEPT !.caps = HostCapabilities, !.negotiated = yes]
    <2>3. d.failed = disp.failed /\ d.pics = disp.pics
      BY DEF DispShape
    <2>4. Takes(d)
      BY <2>2, Zenon
    <2> HIDE DEF d
    <2> QED BY <2>1, <2>3, <2>4, Zenon DEF Takes, TurnsTo
  <1>5. CASE Refuses("decoder")
    BY <1>5, Zenon DEF Refuses, TurnsTo
  <1>6. CASE f.type = "DisplayConfig" /\ Takes([disp EXCEPT !.config = neg.config])
    <2>1. f.type # "VideoFrame"
      BY <1>6
    <2> DEFINE d == [disp EXCEPT !.config = neg.config]
    <2>2. d.failed = disp.failed /\ d.pics = disp.pics
      BY DEF DispShape
    <2>3. Takes(d)
      BY <1>6, Zenon
    <2> HIDE DEF d
    <2> QED BY <1>6, <2>1, <2>2, <2>3, Zenon DEF Takes, TurnsTo
  <1>7. CASE /\ ~disp.failed /\ f.type = "VideoFrame"
             /\ \E p : HandsOver(n, p) /\ Takes([disp EXCEPT !.pics = p])
    <2>1. PICK p : HandsOver(n, p) /\ Takes([disp EXCEPT !.pics = p])
      BY <1>7
    <2> DEFINE d == [disp EXCEPT !.pics = p]
    <2>2. d.failed = disp.failed /\ d.pics = p
      BY DEF DispShape
    <2>3. Takes(d)
      BY <2>1, Zenon
    <2> HIDE DEF d
    <2> QED BY <1>7, <2>1, <2>2, <2>3, Zenon DEF Takes, TurnsTo
  <1> QED BY <1>1, <1>2, <1>3, <1>4, <1>5, <1>6, <1>7, Zenon DEF InTurn

\* The display reads a frame.
LEMMA CountsReads ==
  ASSUME Turns, Counts, DisplayReads
  PROVE  Counts'
  <1> DEFINE f == Head(conns[server.conn].toDisplay)
             n == Len(dispGot)
             p == disp.pics
             q == disp'.pics
  <1>1. Says /\ DisplayKnows /\ Shape /\ DispShape(disp) /\ Stream(hostSent) /\ Stream(dispGot)
        /\ Stream(dispSent)
    BY DEF Turns, Says, Base, Shape
  <1>2. /\ DisplayTalks /\ server.pc = "active" /\ conns[server.conn].toDisplay # <<>>
        /\ dispGot' = Append(dispGot, f) /\ InTurn(n, f)
    BY <1>1, ReadsInTurn
  <1>3. n \in Nat /\ n + 1 \in DOMAIN hostSent /\ f = hostSent[n + 1]
    BY <1>1, <1>2, NextFrame
  <1>4. Len(dispGot') = n + 1
    BY <1>1, <1>2, StreamGrows
  <1>5. hostSent' = hostSent /\ neg' = neg
    BY <1>2 DEF DisplayTalks
  <1>6. PicShape(p) /\ (~disp.failed => Accounted(p, hostSent, n))
    BY <1>2 DEF Counts, DisplayCounts
  <1>7. TurnsTo(n, f)
    BY <1>1, <1>2, TurnCounts
  <1>8. /\ PicShape(q) /\ Seen(q) >= Seen(p)
        /\ ~disp'.failed => Accounted(q, hostSent, n + 1)
    <2>1. Seen(p) \in Nat
      BY <1>6 DEF PicShape, Seen
    <2>2. CASE disp'.failed /\ q \in {p, [p EXCEPT !.ready = FALSE, !.waiting = {}]}
      <3>1. q = p \/ q = [p EXCEPT !.ready = FALSE, !.waiting = {}]
        BY <2>2
      <3> HIDE DEF p, q, n
      <3>2. PicShape(q) /\ Seen(q) = Seen(p)
        BY <1>6, <3>1, UnreadyCounts, Zenon
      <3>3. Seen(q) >= Seen(p)
        BY <2>1, <3>2
      <3> QED BY <2>2, <3>2, <3>3, Zenon
    <2>3. CASE disp'.failed = disp.failed /\ f.type # "VideoFrame" /\ q = p
      <3>1. Accounted(p, hostSent, n) => Accounted(p, hostSent, n + 1)
        <4> HIDE DEF p, n, f
        <4> QED BY <1>1, <1>3, <1>6, <2>3, AccountedMoves
      <3>2. Seen(q) >= Seen(p)
        BY <2>1, <2>3
      <3> HIDE DEF p, q, n
      <3> QED BY <1>6, <2>3, <3>1, <3>2, Zenon
    <2>4. CASE disp'.failed = disp.failed /\ ~disp.failed /\ f.type = "VideoFrame" /\ HandsOver(n, q)
      <3>1. Accounted(p, hostSent, n)
        BY <1>6, <2>4
      <3>2. (p.ready => p.waiting = {}) /\ n \notin p.waiting
        BY <1>3, <3>1 DEF Accounted
      <3>3. Moves(p, q, {n})
        BY <1>3, <1>6, <2>4, <3>2, HandsOverCounts
      <3> HIDE DEF p, q, n, f
      <3>4. Accounted(q, hostSent, n + 1)
        BY <1>1, <1>3, <1>6, <2>4, <3>1, <3>3, AccountedMoves
      <3> QED BY <3>3, <3>4 DEF Moves
    <2> QED BY <1>7, <2>2, <2>3, <2>4, Zenon DEF TurnsTo
  <1>9. Seen(q) \in Nat
    BY <1>8 DEF PicShape, Seen
  <1>10. DisplayCounts'
    <2> HIDE DEF q, n
    <2> QED BY <1>4, <1>5, <1>8, Zenon DEF DisplayCounts, q
  <1>11. ASSUME NEW i \in DOMAIN dispSent'
         PROVE  (i \in DOMAIN dispSent /\ dispSent'[i] = dispSent[i]) \/ dispSent'[i].type # "Telemetry"
    <2>1. dispSent' = dispSent \/ \E why : dispSent' = Append(dispSent, Frame("Error", Len(dispSent), why))
      <3>1. /\ (\E why : Reject(why)) \/ (\E d : DispShape(d) /\ Accepts(d))
            /\ \A why : Reject(why) => Refuses(why)
            /\ \A d : DispShape(d) /\ Accepts(d) => Takes(d)
        BY <1>1, DisplayReadsTalks
      <3> QED BY <3>1, Zenon DEF Refuses, Takes
    <2>2. CASE dispSent' = dispSent
      BY <1>11, <2>2
    <2>3. ASSUME NEW why, dispSent' = Append(dispSent, Frame("Error", Len(dispSent), why))
          PROVE  (i \in DOMAIN dispSent /\ dispSent'[i] = dispSent[i]) \/ dispSent'[i].type # "Telemetry"
      <3> DEFINE e == Frame("Error", Len(dispSent), why)
      <3>1. e.type = "Error"
        BY DEF Frame
      <3> HIDE DEF e
      <3>2. (i \in DOMAIN dispSent /\ dispSent'[i] = dispSent[i]) \/ dispSent'[i] = e
        BY <1>1, <1>11, <2>3, Appended DEF e
      <3> QED BY <3>1, <3>2
    <2> QED BY <2>1, <2>2, <2>3, Zenon
  <1>12. HostCounts' /\ ReportCounts' /\ Presented'
    <2>1. Seen(disp.pics)' \in Nat /\ Seen(disp.pics)' >= Seen(disp.pics)
      BY <1>8, <1>9
    <2> QED BY <1>5, <1>11, <2>1, ReportsKept
  <1> QED BY <1>10, <1>12 DEF Counts

\* The display reports.
LEMMA CountsReports ==
  ASSUME Turns, Counts, DisplayReports
  PROVE  Counts'
  <1>1. Says /\ DisplayKnows /\ Shape /\ Base /\ Stream(hostSent) /\ Stream(dispGot) /\ Stream(dispSent)
    BY DEF Turns, Says, Base, Shape
  <1>2. /\ DisplayTalks /\ server.pc = "active" /\ dispGot' = dispGot /\ disp' = disp
        /\ disp.negotiated /\ ~disp.failed
        /\ \/ dispSent' = Append(dispSent, Frame("Ping", Len(dispSent), None))
           \/ dispSent' = Append(dispSent, Frame("Telemetry", Len(dispSent),
                                    [frame |-> disp.pics.released, dropped |-> disp.pics.dropped]))
    BY <1>1, DisplayReportsTalks
  <1>3. hostSent' = hostSent /\ neg' = neg /\ server'.pc = "active"
    BY <1>2 DEF DisplayTalks
  <1>4. DisplayCounts'
    BY <1>2, <1>3, Zenon DEF Counts, DisplayCounts
  <1> DEFINE n == Len(dispGot)
             p == disp.pics
             b == [frame |-> p.released, dropped |-> p.dropped]
  <1>5. n >= 2
    BY <1>1, <1>2, Zenon DEF DisplayKnows
  <1>6. n <= Len(hostSent) /\ n \in Nat /\ Len(hostSent) \in Nat
    BY <1>1, StreamLen DEF Base, Streams, IsPrefix
  <1>7. PicShape(p) /\ Accounted(p, hostSent, n)
    BY <1>2 DEF Counts, DisplayCounts
  <1>8. /\ p.released \in Nat /\ p.dropped \in Nat /\ Seen(p) \in Nat /\ Done(p) = p.dropped + Seen(p)
    BY <1>7 DEF PicShape, Seen, Done
  <1>9. Videos(hostSent, 1) = 0
    <2>1. 0 \in Nat /\ 0 + 1 = 1 /\ 1 \in DOMAIN hostSent
      BY <1>1, <1>5, <1>6, StreamLen
    <2>2. hostSent[1].type = "Hello"
      BY <1>1, <2>1 DEF Says, HostSays, HostFrame, Frame
    <2>3. Videos(hostSent, 0) = 0
      BY <1>1, <2>1, VideosCount
    <2>4. Videos(hostSent, 0 + 1) = IF hostSent[0 + 1].type = "VideoFrame" THEN Videos(hostSent, 0) + 1
                                    ELSE Videos(hostSent, 0)
      BY <1>1, <2>1, VideosCount
    <2> QED BY <2>1, <2>2, <2>3, <2>4
  <1> HIDE DEF n
  <1>10. ReportOf(b)
    <2>1. b.frame = p.released /\ b.dropped = p.dropped
      OBVIOUS
    <2>2. p.released < n /\ Videos(hostSent, p.released + 1) <= p.dropped + Seen(p)
      <3>1. CASE p.released = 0
        BY <1>5, <1>6, <1>8, <1>9, <3>1
      <3>2. CASE p.released # 0
        BY <1>7, <1>8, <3>2 DEF Accounted
      <3> QED BY <3>1, <3>2
    <2> HIDE DEF b
    <2> QED BY <1>6, <1>8, <2>1, <2>2 DEF ReportOf
  <1> HIDE DEF b
  <1>11. ASSUME NEW i \in DOMAIN dispSent'
         PROVE  \/ i \in DOMAIN dispSent /\ dispSent'[i] = dispSent[i]
                \/ dispSent'[i].type # "Telemetry" \/ ReportOf(dispSent'[i].body)
    <2> DEFINE r == Frame("Ping", Len(dispSent), None)
               t == Frame("Telemetry", Len(dispSent), b)
    <2>1. r.type = "Ping" /\ t.body = b
      BY DEF Frame
    <2>2. dispSent' = Append(dispSent, r) \/ dispSent' = Append(dispSent, t)
      BY <1>2 DEF b
    <2> HIDE DEF r, t
    <2>3. (i \in DOMAIN dispSent /\ dispSent'[i] = dispSent[i]) \/ dispSent'[i] = r \/ dispSent'[i] = t
      BY <1>1, <1>11, <2>2, Appended
    <2> QED BY <1>10, <2>1, <2>3
  <1>12. HostCounts' /\ ReportCounts' /\ Presented'
    <2>1. Seen(disp.pics)' \in Nat /\ Seen(disp.pics)' >= Seen(disp.pics)
      BY <1>2, <1>8
    <2> QED BY <1>3, <1>11, <2>1, ReportsKept
  <1> QED BY <1>4, <1>12 DEF Counts

\* Nothing is counted at first.
LEMMA NoPicturesCount ==
  ASSUME NEW s, Stream(s)
  PROVE  PicShape(NoPictures) /\ Accounted(NoPictures, s, 0) /\ Seen(NoPictures) = 0
  <1>1. ASSUME NEW no, NEW yes, ~no, NEW p,
               p = [ready |-> no, stalled |-> yes, waiting |-> {},
                    released |-> 0, shown |-> 0, dropped |-> 0, uncounted |-> 0]
        PROVE  PicShape(p) /\ Accounted(p, s, 0) /\ Seen(p) = 0
    <2>1. Videos(s, 0) = 0 /\ Cardinality({}) = 0 /\ IsFiniteSet({})
      BY VideosCount, FS_EmptySet
    <2>2. /\ p.ready = no /\ p.waiting = {} /\ p.released = 0 /\ p.shown = 0
          /\ p.dropped = 0 /\ p.uncounted = 0
      BY <1>1
    <2>3. PicShape(p)
      BY <1>1, <2>1 DEF PicShape
    <2> QED BY <1>1, <2>1, <2>2, <2>3 DEF Accounted, Done, Seen
  <1> QED BY <1>1, Zenon DEF NoPictures

\* The display begins.
LEMMA CountsActivate ==
  ASSUME Turns, Counts, Activate
  PROVE  Counts'
  <1>1. Base /\ Shape /\ Stream(hostSent)
    BY DEF Turns, Says, Base, Shape
  <1>2. /\ DisplayTalks /\ server.pc = "begun" /\ dispGot' = dispGot
        /\ dispSent' = <<Frame("Hello", 0, DisplayHello), Frame("Capabilities", 1, DisplayCapabilities)>>
        /\ disp' = disp
    BY <1>1, ActivateTalks
  <1>3. hostSent' = hostSent /\ neg' = neg
    BY <1>2 DEF DisplayTalks
  <1>4. dispGot = <<>> /\ disp.pics = NoPictures
    BY <1>1, <1>2 DEF Base, Streams, Fresh
  <1>5. PicShape(NoPictures) /\ Accounted(NoPictures, hostSent, 0) /\ Seen(NoPictures) \in Nat
    BY <1>1, NoPicturesCount
  <1>6. DisplayCounts'
    <2>1. Len(dispGot') = 0
      BY <1>2, <1>4
    <2> QED BY <1>2, <1>3, <1>4, <1>5, <2>1 DEF DisplayCounts
  <1>7. ASSUME NEW i \in DOMAIN dispSent' PROVE dispSent'[i].type # "Telemetry"
    <2>1. ASSUME NEW a, NEW b, dispSent' = <<a, b>>, a.type = "Hello", b.type = "Capabilities"
          PROVE  dispSent'[i].type # "Telemetry"
      BY <1>7, <2>1
    <2>2. /\ Frame("Hello", 0, DisplayHello).type = "Hello"
          /\ Frame("Capabilities", 1, DisplayCapabilities).type = "Capabilities"
      BY DEF Frame
    <2> QED BY <1>2, <2>1, <2>2
  <1>8. HostCounts' /\ ReportCounts' /\ Presented'
    <2>1. Seen(disp.pics)' \in Nat /\ Seen(disp.pics)' >= Seen(disp.pics)
      BY <1>2, <1>4, <1>5
    <2> QED BY <1>3, <1>7, <2>1, ReportsKept
  <1> QED BY <1>6, <1>8 DEF Counts

\* The inductive invariant with its counts.
Counted == Turns /\ Counts

\* The initial states.
LEMMA CountedInit == Init => Counted
  <1> SUFFICES ASSUME Init PROVE Counts
    BY TurnsInit DEF Counted
  <1>1. /\ disp = NoSession /\ neg = NoHandshake /\ hostSent = <<>> /\ dispSent = <<>>
        /\ server.pc = "head"
    BY DEF Init, PairInit
  <1>2. disp.pics = NoPictures /\ PicShape(NoPictures) /\ Seen(NoPictures) = 0
    BY <1>1, EmptyStream, NoPicturesCount DEF NoSession
  <1>3. neg.video = <<>> /\ neg.produced = 0 /\ neg.presented = 0
    BY <1>1 DEF NoHandshake
  <1>4. Stream(<<>>) /\ Len(<<>>) = 0 /\ DOMAIN <<>> = {}
    BY EmptyStream, StreamLen
  <1>5. Videos(<<>>, 0) = 0
    BY <1>4, VideosCount
  <1>6. DisplayCounts
    BY <1>1, <1>2 DEF DisplayCounts
  <1>7. HostCounts
    BY <1>1, <1>3, <1>4, <1>5 DEF HostCounts
  <1>8. ReportCounts /\ Presented
    BY <1>1, <1>2, <1>3, <1>4 DEF ReportCounts, Presented
  <1> QED BY <1>6, <1>7, <1>8 DEF Counts

\* Every step.
LEMMA CountedNext ==
  ASSUME Counted, [Next]_vars
  PROVE  Counted'
  <1>1. Turns /\ Counts /\ Base
    BY DEF Counted, Turns, Says
  <1>2. Turns'
    BY <1>1, TurnsNext
  <1>3. Aside \/ HostTalk \/ DisplayTalk
    BY <1>1, Steps, Stutter
  <1>4. Counts'
    BY <1>1, <1>3, CountsAside, CountsHost, CountsActivate, CountsReads, CountsReports DEF DisplayTalk
  <1> QED BY <1>2, <1>4 DEF Counted

\* The host never gives the display a reason to refuse it, neither by the order
\* of its frames nor by what they ask for: only the decoder may still say no.
\* And the host presents no more frames than the display has shown and lost
\* without counting, for every length of its queues, although pongs take sequences
\* between the frames, telemetry arrives late, and frames are dropped while they
\* wait for a surface (HostHandshake, apply_usb_telemetry, handleInboundFrame,
\* enqueueUntilSurfaceReady, drainPendingSurfaceFrames).
THEOREM InTurnAlways == Spec => []NeverOutOfTurn
  <1>1. Spec => []Counted
    BY CountedInit, CountedNext, PTL DEF Spec
  <1>2. Counted => NeverOutOfTurn
    BY DEF Counted, Counts, Presented, Seen, Turns, NoComplaint, NeverOutOfTurn
  <1> QED BY <1>1, <1>2, PTL

-----------------------------------------------------------------------------
(***************************************************************************)
(* The code: expose_grouped and from_str, group by group.  Five bytes are  *)
(* eight symbols, and the eight symbols are the five bytes again.          *)
(***************************************************************************)
\* The shifts.
LEMMA Shifts ==
  /\ TwoTo(0) = 1 /\ TwoTo(1) = 2 /\ TwoTo(2) = 4 /\ TwoTo(3) = 8
  /\ TwoTo(4) = 16 /\ TwoTo(5) = 32 /\ TwoTo(6) = 64 /\ TwoTo(7) = 128
  BY DEF TwoTo

\* The elements of a sequence.
LEMMA SeqElements ==
  ASSUME NEW S, NEW u \in Seq(S)
  PROVE  /\ Len(u) \in Nat /\ DOMAIN u = 1 .. Len(u) /\ \A i \in 1 .. Len(u) : u[i] \in S
         /\ u \in [1 .. Len(u) -> S]
  <1>1. Len(u) \in Nat /\ DOMAIN u = 1 .. Len(u)
    OBVIOUS
  <1>2. u \in [1 .. Len(u) -> S]
    OBVIOUS
  <1>3. \A i \in 1 .. Len(u) : u[i] \in S
    BY ONLY <1>2, Zenon
  <1> QED BY <1>1, <1>2, <1>3

\* Only the last symbol's bits are left over.
LEMMA LeftBits ==
  ASSUME NEW x \in 0 .. 31, NEW y \in 0 .. 31
  PROVE  (x * 32 + y) % 32 = y
  OBVIOUS

\* What expose_grouped has left over after i bytes, and its symbol k, which ends in byte i.
LeftOver(t, i) == IF i = 0 THEN 0 ELSE t[i] % TwoTo((8 * i) % 5)
SymbolIn(t, h, i, z) == ((LeftOver(t, h) * 256 + t[i]) \div z) % 32

\* One symbol of the code.
LEMMA OneSymbol ==
  ASSUME NEW t \in Seq(0 .. 255), NEW k, NEW i, NEW h, NEW z,
         k \in DOMAIN Expose(t), (5 * k + 7) \div 8 = i,
         i - 1 = h, TwoTo(8 * i - 5 * k) = z
  PROVE  Expose(t)[k] = SymbolIn(t, h, i, z)
  BY DEF Expose, SymbolIn, LeftOver

\* What from_str has left over after i symbols, and its byte, which ends in symbol i.
SymbolAt(s, i) == IF i < 1 THEN 0 ELSE s[i]
SymbolsLeft(s, g, h, y) == (SymbolAt(s, g) * 32 + SymbolAt(s, h)) % y
ByteIn(s, g, h, i, y, z) == ((SymbolsLeft(s, g, h, y) * 32 + s[i]) \div z) % 256

\* One byte of the token.
LEMMA OneByte ==
  ASSUME NEW s \in Seq(0 .. 31), NEW j, NEW i, NEW h, NEW g, NEW y, NEW z,
         j \in DOMAIN FromStr(s), (8 * j + 4) \div 5 = i,
         i - 1 = h, h - 1 = g, TwoTo((5 * h) % 8) = y, TwoTo(5 * i - 8 * j) = z
  PROVE  FromStr(s)[j] = ByteIn(s, g, h, i, y, z)
  <1> DEFINE at(k) == IF k < 1 THEN 0 ELSE s[k]
             left(k) == (at(k - 1) * 32 + at(k)) % TwoTo((5 * k) % 8)
             byte(m, k) == ((left(k - 1) * 32 + s[k]) \div TwoTo(5 * k - 8 * m)) % 256
  <1>1. FromStr(s)[j] = byte(j, (8 * j + 4) \div 5)
    BY DEF FromStr
  <1>2. left(h) = SymbolsLeft(s, g, h, y)
    BY DEF SymbolsLeft, SymbolAt
  <1>3. byte(j, i) = ((left(h) * 32 + s[i]) \div z) % 256
    OBVIOUS
  <1> HIDE DEF left, byte
  <1> QED BY <1>1, <1>2, <1>3 DEF ByteIn


\* What is left over inside a group.
LEMMA LeftInGroup ==
  ASSUME NEW t \in Seq(0 .. 255), NEW q \in Nat, 5 * q + 5 <= Len(t)
  PROVE  /\ LeftOver(t, 5 * q) = 0
         /\ LeftOver(t, 5 * q + 1) = t[5 * q + 1] % 8
         /\ LeftOver(t, 5 * q + 2) = t[5 * q + 2] % 2
         /\ LeftOver(t, 5 * q + 3) = t[5 * q + 3] % 16
         /\ LeftOver(t, 5 * q + 4) = t[5 * q + 4] % 4
  <1>1. LeftOver(t, 5 * q) = 0
    <2>1. CASE q = 0
      BY <2>1 DEF LeftOver
    <2>2. CASE q # 0
      <3>1. (8 * (5 * q)) % 5 = 0
        OBVIOUS
      <3>2. 5 * q \in 1 .. Len(t) /\ 5 * q # 0
        BY <2>2
      <3>4. t[5 * q] \in 0 .. 255
        BY <3>2, SeqElements, Zenon
      <3>3. ASSUME NEW x \in 0 .. 255 PROVE x % 1 = 0
        OBVIOUS
      <3> QED BY <3>1, <3>2, <3>3, <3>4, Shifts DEF LeftOver
    <2> QED BY <2>1, <2>2
  <1>2. LeftOver(t, 5 * q + 1) = t[5 * q + 1] % 8
    <2>1. (8 * (5 * q + 1)) % 5 = 3 /\ 5 * q + 1 # 0
      OBVIOUS
    <2> QED BY <2>1, Shifts DEF LeftOver
  <1>3. LeftOver(t, 5 * q + 2) = t[5 * q + 2] % 2
    <2>1. (8 * (5 * q + 2)) % 5 = 1 /\ 5 * q + 2 # 0
      OBVIOUS
    <2> QED BY <2>1, Shifts DEF LeftOver
  <1>4. LeftOver(t, 5 * q + 3) = t[5 * q + 3] % 16
    <2>1. (8 * (5 * q + 3)) % 5 = 4 /\ 5 * q + 3 # 0
      OBVIOUS
    <2> QED BY <2>1, Shifts DEF LeftOver
  <1>5. LeftOver(t, 5 * q + 4) = t[5 * q + 4] % 4
    <2>1. (8 * (5 * q + 4)) % 5 = 2 /\ 5 * q + 4 # 0
      OBVIOUS
    <2> QED BY <2>1, Shifts DEF LeftOver
  <1> QED BY <1>1, <1>2, <1>3, <1>4, <1>5

\* The symbols of a group of bytes.
LEMMA ExposedGroup ==
  ASSUME NEW t \in Seq(0 .. 255), NEW q \in Nat, 5 * q + 5 <= Len(t)
  PROVE  /\ Expose(t)[8 * q + 1] = (t[5 * q + 1] \div 8) % 32
         /\ Expose(t)[8 * q + 2] = (((t[5 * q + 1] % 8) * 256 + t[5 * q + 2]) \div 64) % 32
         /\ Expose(t)[8 * q + 3] = (((t[5 * q + 1] % 8) * 256 + t[5 * q + 2]) \div 2) % 32
         /\ Expose(t)[8 * q + 4] = (((t[5 * q + 2] % 2) * 256 + t[5 * q + 3]) \div 16) % 32
         /\ Expose(t)[8 * q + 5] = (((t[5 * q + 3] % 16) * 256 + t[5 * q + 4]) \div 128) % 32
         /\ Expose(t)[8 * q + 6] = (((t[5 * q + 3] % 16) * 256 + t[5 * q + 4]) \div 4) % 32
         /\ Expose(t)[8 * q + 7] = (((t[5 * q + 4] % 4) * 256 + t[5 * q + 5]) \div 32) % 32
         /\ Expose(t)[8 * q + 8] = ((t[5 * q + 4] % 4) * 256 + t[5 * q + 5]) % 32
  <1>1. t[5 * q + 1] \in 0 .. 255 /\ t[5 * q + 2] \in 0 .. 255 /\ t[5 * q + 3] \in 0 .. 255 /\ t[5 * q + 4] \in 0 .. 255 /\ t[5 * q + 5] \in 0 .. 255
    <2>1. /\ 5 * q + 1 \in 1 .. Len(t) /\ 5 * q + 2 \in 1 .. Len(t) /\ 5 * q + 3 \in 1 .. Len(t)
          /\ 5 * q + 4 \in 1 .. Len(t) /\ 5 * q + 5 \in 1 .. Len(t)
      OBVIOUS
    <2>2. \A i \in 1 .. Len(t) : t[i] \in 0 .. 255
      BY SeqElements
    <2> QED BY ONLY <2>1, <2>2, Zenon
  <1>2. Len(t) \in Nat
    OBVIOUS
  <1>3. Expose(t)[8 * q + 1] = (t[5 * q + 1] \div 8) % 32
    <2>0. 8 * q + 1 \in DOMAIN Expose(t)
      <3>1. 8 * q + 1 \in 1 .. (8 * Len(t)) \div 5
        BY ONLY <1>2, q \in Nat, 5 * q + 5 <= Len(t)
      <3> QED BY <3>1 DEF Expose
    <2>1. /\ (5 * (8 * q + 1) + 7) \div 8 = 5 * q + 1
          /\ (5 * q + 1) - 1 = 5 * q
          /\ 8 * (5 * q + 1) - 5 * (8 * q + 1) = 3
      BY ONLY <1>2, q \in Nat, 5 * q + 5 <= Len(t)
    <2>2. TwoTo(8 * (5 * q + 1) - 5 * (8 * q + 1)) = 8
      BY <2>1, Shifts
    <2>3. Expose(t)[8 * q + 1] = SymbolIn(t, 5 * q, 5 * q + 1, 8)
      <3>1. ASSUME NEW k, NEW i, NEW h, NEW z, k = 8 * q + 1, i = 5 * q + 1, h = 5 * q, z = 8
            PROVE  Expose(t)[k] = SymbolIn(t, h, i, z)
        <4>1. k \in DOMAIN Expose(t) /\ (5 * k + 7) \div 8 = i /\ i - 1 = h /\ TwoTo(8 * i - 5 * k) = z
          BY ONLY <2>0, <2>1, <2>2, <3>1, Zenon
        <4> QED BY ONLY <4>1, t \in Seq(0 .. 255), OneSymbol
      <3> QED BY ONLY <3>1
    <2>4. LeftOver(t, 5 * q) = 0
      BY LeftInGroup
    <2>5. Expose(t)[8 * q + 1] = ((0 * 256 + t[5 * q + 1]) \div 8) % 32
      BY <2>3, <2>4 DEF SymbolIn
    <2>6. ASSUME NEW x \in 0 .. 255, NEW y \in 0 .. 255
          PROVE  ((0 * 256 + y) \div 8) % 32 = (y \div 8) % 32
      OBVIOUS
    <2> QED BY ONLY <1>1, <2>5, <2>6, Zenon
  <1>4. Expose(t)[8 * q + 2] = (((t[5 * q + 1] % 8) * 256 + t[5 * q + 2]) \div 64) % 32
    <2>0. 8 * q + 2 \in DOMAIN Expose(t)
      <3>1. 8 * q + 2 \in 1 .. (8 * Len(t)) \div 5
        BY ONLY <1>2, q \in Nat, 5 * q + 5 <= Len(t)
      <3> QED BY <3>1 DEF Expose
    <2>1. /\ (5 * (8 * q + 2) + 7) \div 8 = 5 * q + 2
          /\ (5 * q + 2) - 1 = 5 * q + 1
          /\ 8 * (5 * q + 2) - 5 * (8 * q + 2) = 6
      BY ONLY <1>2, q \in Nat, 5 * q + 5 <= Len(t)
    <2>2. TwoTo(8 * (5 * q + 2) - 5 * (8 * q + 2)) = 64
      BY <2>1, Shifts
    <2>3. Expose(t)[8 * q + 2] = SymbolIn(t, 5 * q + 1, 5 * q + 2, 64)
      <3>1. ASSUME NEW k, NEW i, NEW h, NEW z, k = 8 * q + 2, i = 5 * q + 2, h = 5 * q + 1, z = 64
            PROVE  Expose(t)[k] = SymbolIn(t, h, i, z)
        <4>1. k \in DOMAIN Expose(t) /\ (5 * k + 7) \div 8 = i /\ i - 1 = h /\ TwoTo(8 * i - 5 * k) = z
          BY ONLY <2>0, <2>1, <2>2, <3>1, Zenon
        <4> QED BY ONLY <4>1, t \in Seq(0 .. 255), OneSymbol
      <3> QED BY ONLY <3>1
    <2>4. LeftOver(t, 5 * q + 1) = t[5 * q + 1] % 8
      BY LeftInGroup
    <2>5. Expose(t)[8 * q + 2] = (((t[5 * q + 1] % 8) * 256 + t[5 * q + 2]) \div 64) % 32
      BY <2>3, <2>4 DEF SymbolIn
    <2> QED BY ONLY <2>5
  <1>5. Expose(t)[8 * q + 3] = (((t[5 * q + 1] % 8) * 256 + t[5 * q + 2]) \div 2) % 32
    <2>0. 8 * q + 3 \in DOMAIN Expose(t)
      <3>1. 8 * q + 3 \in 1 .. (8 * Len(t)) \div 5
        BY ONLY <1>2, q \in Nat, 5 * q + 5 <= Len(t)
      <3> QED BY <3>1 DEF Expose
    <2>1. /\ (5 * (8 * q + 3) + 7) \div 8 = 5 * q + 2
          /\ (5 * q + 2) - 1 = 5 * q + 1
          /\ 8 * (5 * q + 2) - 5 * (8 * q + 3) = 1
      BY ONLY <1>2, q \in Nat, 5 * q + 5 <= Len(t)
    <2>2. TwoTo(8 * (5 * q + 2) - 5 * (8 * q + 3)) = 2
      BY <2>1, Shifts
    <2>3. Expose(t)[8 * q + 3] = SymbolIn(t, 5 * q + 1, 5 * q + 2, 2)
      <3>1. ASSUME NEW k, NEW i, NEW h, NEW z, k = 8 * q + 3, i = 5 * q + 2, h = 5 * q + 1, z = 2
            PROVE  Expose(t)[k] = SymbolIn(t, h, i, z)
        <4>1. k \in DOMAIN Expose(t) /\ (5 * k + 7) \div 8 = i /\ i - 1 = h /\ TwoTo(8 * i - 5 * k) = z
          BY ONLY <2>0, <2>1, <2>2, <3>1, Zenon
        <4> QED BY ONLY <4>1, t \in Seq(0 .. 255), OneSymbol
      <3> QED BY ONLY <3>1
    <2>4. LeftOver(t, 5 * q + 1) = t[5 * q + 1] % 8
      BY LeftInGroup
    <2>5. Expose(t)[8 * q + 3] = (((t[5 * q + 1] % 8) * 256 + t[5 * q + 2]) \div 2) % 32
      BY <2>3, <2>4 DEF SymbolIn
    <2> QED BY ONLY <2>5
  <1>6. Expose(t)[8 * q + 4] = (((t[5 * q + 2] % 2) * 256 + t[5 * q + 3]) \div 16) % 32
    <2>0. 8 * q + 4 \in DOMAIN Expose(t)
      <3>1. 8 * q + 4 \in 1 .. (8 * Len(t)) \div 5
        BY ONLY <1>2, q \in Nat, 5 * q + 5 <= Len(t)
      <3> QED BY <3>1 DEF Expose
    <2>1. /\ (5 * (8 * q + 4) + 7) \div 8 = 5 * q + 3
          /\ (5 * q + 3) - 1 = 5 * q + 2
          /\ 8 * (5 * q + 3) - 5 * (8 * q + 4) = 4
      BY ONLY <1>2, q \in Nat, 5 * q + 5 <= Len(t)
    <2>2. TwoTo(8 * (5 * q + 3) - 5 * (8 * q + 4)) = 16
      BY <2>1, Shifts
    <2>3. Expose(t)[8 * q + 4] = SymbolIn(t, 5 * q + 2, 5 * q + 3, 16)
      <3>1. ASSUME NEW k, NEW i, NEW h, NEW z, k = 8 * q + 4, i = 5 * q + 3, h = 5 * q + 2, z = 16
            PROVE  Expose(t)[k] = SymbolIn(t, h, i, z)
        <4>1. k \in DOMAIN Expose(t) /\ (5 * k + 7) \div 8 = i /\ i - 1 = h /\ TwoTo(8 * i - 5 * k) = z
          BY ONLY <2>0, <2>1, <2>2, <3>1, Zenon
        <4> QED BY ONLY <4>1, t \in Seq(0 .. 255), OneSymbol
      <3> QED BY ONLY <3>1
    <2>4. LeftOver(t, 5 * q + 2) = t[5 * q + 2] % 2
      BY LeftInGroup
    <2>5. Expose(t)[8 * q + 4] = (((t[5 * q + 2] % 2) * 256 + t[5 * q + 3]) \div 16) % 32
      BY <2>3, <2>4 DEF SymbolIn
    <2> QED BY ONLY <2>5
  <1>7. Expose(t)[8 * q + 5] = (((t[5 * q + 3] % 16) * 256 + t[5 * q + 4]) \div 128) % 32
    <2>0. 8 * q + 5 \in DOMAIN Expose(t)
      <3>1. 8 * q + 5 \in 1 .. (8 * Len(t)) \div 5
        BY ONLY <1>2, q \in Nat, 5 * q + 5 <= Len(t)
      <3> QED BY <3>1 DEF Expose
    <2>1. /\ (5 * (8 * q + 5) + 7) \div 8 = 5 * q + 4
          /\ (5 * q + 4) - 1 = 5 * q + 3
          /\ 8 * (5 * q + 4) - 5 * (8 * q + 5) = 7
      BY ONLY <1>2, q \in Nat, 5 * q + 5 <= Len(t)
    <2>2. TwoTo(8 * (5 * q + 4) - 5 * (8 * q + 5)) = 128
      BY <2>1, Shifts
    <2>3. Expose(t)[8 * q + 5] = SymbolIn(t, 5 * q + 3, 5 * q + 4, 128)
      <3>1. ASSUME NEW k, NEW i, NEW h, NEW z, k = 8 * q + 5, i = 5 * q + 4, h = 5 * q + 3, z = 128
            PROVE  Expose(t)[k] = SymbolIn(t, h, i, z)
        <4>1. k \in DOMAIN Expose(t) /\ (5 * k + 7) \div 8 = i /\ i - 1 = h /\ TwoTo(8 * i - 5 * k) = z
          BY ONLY <2>0, <2>1, <2>2, <3>1, Zenon
        <4> QED BY ONLY <4>1, t \in Seq(0 .. 255), OneSymbol
      <3> QED BY ONLY <3>1
    <2>4. LeftOver(t, 5 * q + 3) = t[5 * q + 3] % 16
      BY LeftInGroup
    <2>5. Expose(t)[8 * q + 5] = (((t[5 * q + 3] % 16) * 256 + t[5 * q + 4]) \div 128) % 32
      BY <2>3, <2>4 DEF SymbolIn
    <2> QED BY ONLY <2>5
  <1>8. Expose(t)[8 * q + 6] = (((t[5 * q + 3] % 16) * 256 + t[5 * q + 4]) \div 4) % 32
    <2>0. 8 * q + 6 \in DOMAIN Expose(t)
      <3>1. 8 * q + 6 \in 1 .. (8 * Len(t)) \div 5
        BY ONLY <1>2, q \in Nat, 5 * q + 5 <= Len(t)
      <3> QED BY <3>1 DEF Expose
    <2>1. /\ (5 * (8 * q + 6) + 7) \div 8 = 5 * q + 4
          /\ (5 * q + 4) - 1 = 5 * q + 3
          /\ 8 * (5 * q + 4) - 5 * (8 * q + 6) = 2
      BY ONLY <1>2, q \in Nat, 5 * q + 5 <= Len(t)
    <2>2. TwoTo(8 * (5 * q + 4) - 5 * (8 * q + 6)) = 4
      BY <2>1, Shifts
    <2>3. Expose(t)[8 * q + 6] = SymbolIn(t, 5 * q + 3, 5 * q + 4, 4)
      <3>1. ASSUME NEW k, NEW i, NEW h, NEW z, k = 8 * q + 6, i = 5 * q + 4, h = 5 * q + 3, z = 4
            PROVE  Expose(t)[k] = SymbolIn(t, h, i, z)
        <4>1. k \in DOMAIN Expose(t) /\ (5 * k + 7) \div 8 = i /\ i - 1 = h /\ TwoTo(8 * i - 5 * k) = z
          BY ONLY <2>0, <2>1, <2>2, <3>1, Zenon
        <4> QED BY ONLY <4>1, t \in Seq(0 .. 255), OneSymbol
      <3> QED BY ONLY <3>1
    <2>4. LeftOver(t, 5 * q + 3) = t[5 * q + 3] % 16
      BY LeftInGroup
    <2>5. Expose(t)[8 * q + 6] = (((t[5 * q + 3] % 16) * 256 + t[5 * q + 4]) \div 4) % 32
      BY <2>3, <2>4 DEF SymbolIn
    <2> QED BY ONLY <2>5
  <1>9. Expose(t)[8 * q + 7] = (((t[5 * q + 4] % 4) * 256 + t[5 * q + 5]) \div 32) % 32
    <2>0. 8 * q + 7 \in DOMAIN Expose(t)
      <3>1. 8 * q + 7 \in 1 .. (8 * Len(t)) \div 5
        BY ONLY <1>2, q \in Nat, 5 * q + 5 <= Len(t)
      <3> QED BY <3>1 DEF Expose
    <2>1. /\ (5 * (8 * q + 7) + 7) \div 8 = 5 * q + 5
          /\ (5 * q + 5) - 1 = 5 * q + 4
          /\ 8 * (5 * q + 5) - 5 * (8 * q + 7) = 5
      BY ONLY <1>2, q \in Nat, 5 * q + 5 <= Len(t)
    <2>2. TwoTo(8 * (5 * q + 5) - 5 * (8 * q + 7)) = 32
      BY <2>1, Shifts
    <2>3. Expose(t)[8 * q + 7] = SymbolIn(t, 5 * q + 4, 5 * q + 5, 32)
      <3>1. ASSUME NEW k, NEW i, NEW h, NEW z, k = 8 * q + 7, i = 5 * q + 5, h = 5 * q + 4, z = 32
            PROVE  Expose(t)[k] = SymbolIn(t, h, i, z)
        <4>1. k \in DOMAIN Expose(t) /\ (5 * k + 7) \div 8 = i /\ i - 1 = h /\ TwoTo(8 * i - 5 * k) = z
          BY ONLY <2>0, <2>1, <2>2, <3>1, Zenon
        <4> QED BY ONLY <4>1, t \in Seq(0 .. 255), OneSymbol
      <3> QED BY ONLY <3>1
    <2>4. LeftOver(t, 5 * q + 4) = t[5 * q + 4] % 4
      BY LeftInGroup
    <2>5. Expose(t)[8 * q + 7] = (((t[5 * q + 4] % 4) * 256 + t[5 * q + 5]) \div 32) % 32
      BY <2>3, <2>4 DEF SymbolIn
    <2> QED BY ONLY <2>5
  <1>10. Expose(t)[8 * q + 8] = ((t[5 * q + 4] % 4) * 256 + t[5 * q + 5]) % 32
    <2>0. 8 * q + 8 \in DOMAIN Expose(t)
      <3>1. 8 * q + 8 \in 1 .. (8 * Len(t)) \div 5
        BY ONLY <1>2, q \in Nat, 5 * q + 5 <= Len(t)
      <3> QED BY <3>1 DEF Expose
    <2>1. /\ (5 * (8 * q + 8) + 7) \div 8 = 5 * q + 5
          /\ (5 * q + 5) - 1 = 5 * q + 4
          /\ 8 * (5 * q + 5) - 5 * (8 * q + 8) = 0
      BY ONLY <1>2, q \in Nat, 5 * q + 5 <= Len(t)
    <2>2. TwoTo(8 * (5 * q + 5) - 5 * (8 * q + 8)) = 1
      BY <2>1, Shifts
    <2>3. Expose(t)[8 * q + 8] = SymbolIn(t, 5 * q + 4, 5 * q + 5, 1)
      <3>1. ASSUME NEW k, NEW i, NEW h, NEW z, k = 8 * q + 8, i = 5 * q + 5, h = 5 * q + 4, z = 1
            PROVE  Expose(t)[k] = SymbolIn(t, h, i, z)
        <4>1. k \in DOMAIN Expose(t) /\ (5 * k + 7) \div 8 = i /\ i - 1 = h /\ TwoTo(8 * i - 5 * k) = z
          BY ONLY <2>0, <2>1, <2>2, <3>1, Zenon
        <4> QED BY ONLY <4>1, t \in Seq(0 .. 255), OneSymbol
      <3> QED BY ONLY <3>1
    <2>4. LeftOver(t, 5 * q + 4) = t[5 * q + 4] % 4
      BY LeftInGroup
    <2>5. Expose(t)[8 * q + 8] = (((t[5 * q + 4] % 4) * 256 + t[5 * q + 5]) \div 1) % 32
      BY <2>3, <2>4 DEF SymbolIn
    <2>6. ASSUME NEW x \in 0 .. 255, NEW y \in 0 .. 255
          PROVE  (((x % 4) * 256 + y) \div 1) % 32 = ((x % 4) * 256 + y) % 32
      OBVIOUS
    <2>7. ASSUME NEW x, NEW y, x = t[5 * q + 4], y = t[5 * q + 5]
          PROVE  (((x % 4) * 256 + y) \div 1) % 32 = ((x % 4) * 256 + y) % 32
      <3>1. x \in 0 .. 255 /\ y \in 0 .. 255
        BY ONLY <1>1, <2>7, Zenon
      <3> QED BY ONLY <3>1, <2>6
    <2>8. (((t[5 * q + 4] % 4) * 256 + t[5 * q + 5]) \div 1) % 32 = ((t[5 * q + 4] % 4) * 256 + t[5 * q + 5]) % 32
      BY ONLY <2>7
    <2> QED BY ONLY <2>5, <2>8, Zenon
  <1> QED BY <1>3, <1>4, <1>5, <1>6, <1>7, <1>8, <1>9, <1>10

\* The bytes of a group of symbols.
LEMMA ReadGroup ==
  ASSUME NEW s \in Seq(0 .. 31), NEW q \in Nat, 8 * q + 8 <= Len(s)
  PROVE  /\ FromStr(s)[5 * q + 1] = ((s[8 * q + 1] * 32 + s[8 * q + 2]) \div 4) % 256
         /\ FromStr(s)[5 * q + 2] = ((((s[8 * q + 2] * 32 + s[8 * q + 3]) % 128) * 32 + s[8 * q + 4]) \div 16) % 256
         /\ FromStr(s)[5 * q + 3] = ((((s[8 * q + 3] * 32 + s[8 * q + 4]) % 16) * 32 + s[8 * q + 5]) \div 2) % 256
         /\ FromStr(s)[5 * q + 4] = ((((s[8 * q + 5] * 32 + s[8 * q + 6]) % 64) * 32 + s[8 * q + 7]) \div 8) % 256
         /\ FromStr(s)[5 * q + 5] = (((s[8 * q + 6] * 32 + s[8 * q + 7]) % 8) * 32 + s[8 * q + 8]) % 256
  <1>1. /\ s[8 * q + 1] \in 0 .. 31 /\ s[8 * q + 2] \in 0 .. 31 /\ s[8 * q + 3] \in 0 .. 31 /\ s[8 * q + 4] \in 0 .. 31
        /\ s[8 * q + 5] \in 0 .. 31 /\ s[8 * q + 6] \in 0 .. 31 /\ s[8 * q + 7] \in 0 .. 31 /\ s[8 * q + 8] \in 0 .. 31
    <2>1. /\ 8 * q + 1 \in 1 .. Len(s) /\ 8 * q + 2 \in 1 .. Len(s) /\ 8 * q + 3 \in 1 .. Len(s)
          /\ 8 * q + 4 \in 1 .. Len(s) /\ 8 * q + 5 \in 1 .. Len(s) /\ 8 * q + 6 \in 1 .. Len(s)
          /\ 8 * q + 7 \in 1 .. Len(s) /\ 8 * q + 8 \in 1 .. Len(s)
      OBVIOUS
    <2>2. \A i \in 1 .. Len(s) : s[i] \in 0 .. 31
      BY SeqElements
    <2> QED BY ONLY <2>1, <2>2, Zenon
  <1>2. Len(s) \in Nat
    OBVIOUS
  <1>3. FromStr(s)[5 * q + 1] = ((s[8 * q + 1] * 32 + s[8 * q + 2]) \div 4) % 256
    <2>0. 5 * q + 1 \in DOMAIN FromStr(s)
      <3>1. 5 * q + 1 \in 1 .. (5 * Len(s)) \div 8
        BY ONLY <1>2, q \in Nat, 8 * q + 8 <= Len(s)
      <3> QED BY <3>1 DEF FromStr
    <2>1. /\ (8 * (5 * q + 1) + 4) \div 5 = 8 * q + 2
          /\ (8 * q + 2) - 1 = 8 * q + 1 /\ (8 * q + 1) - 1 = 8 * q
          /\ 5 * (8 * q + 2) - 8 * (5 * q + 1) = 2
          /\ (5 * (8 * q + 1)) % 8 = 5
      BY ONLY <1>2, q \in Nat, 8 * q + 8 <= Len(s)
    <2>2. TwoTo(5 * (8 * q + 2) - 8 * (5 * q + 1)) = 4 /\ TwoTo((5 * (8 * q + 1)) % 8) = 32
      BY <2>1, Shifts
    <2>3. FromStr(s)[5 * q + 1] = ByteIn(s, 8 * q, 8 * q + 1, 8 * q + 2, 32, 4)
      <3>1. ASSUME NEW j, NEW i, NEW h, NEW g, NEW y, NEW z, j = 5 * q + 1, i = 8 * q + 2, h = 8 * q + 1, g = 8 * q, y = 32, z = 4
            PROVE  FromStr(s)[j] = ByteIn(s, g, h, i, y, z)
        <4>1. /\ j \in DOMAIN FromStr(s) /\ (8 * j + 4) \div 5 = i
              /\ i - 1 = h /\ h - 1 = g /\ TwoTo((5 * h) % 8) = y /\ TwoTo(5 * i - 8 * j) = z
          BY ONLY <2>0, <2>1, <2>2, <3>1, Zenon
        <4> QED BY ONLY <4>1, s \in Seq(0 .. 31), OneByte
      <3> QED BY ONLY <3>1
    <2>4. SymbolAt(s, 8 * q + 1) = s[8 * q + 1]
      BY DEF SymbolAt
    <2>5. SymbolAt(s, 8 * q) \in 0 .. 31
      <3>1. CASE q = 0
        BY <3>1 DEF SymbolAt
      <3>2. CASE q # 0
        <4>1. 8 * q \in 1 .. Len(s) /\ ~(8 * q < 1)
          BY <3>2
        <4>2. s[8 * q] \in 0 .. 31
          BY <4>1, SeqElements, Zenon
        <4> QED BY <4>1, <4>2 DEF SymbolAt
      <3> QED BY <3>1, <3>2
    <2>6. FromStr(s)[5 * q + 1] = ((((SymbolAt(s, 8 * q) * 32 + s[8 * q + 1]) % 32) * 32 + s[8 * q + 2]) \div 4) % 256
      BY <2>3, <2>4 DEF ByteIn, SymbolsLeft
    <2>8. (SymbolAt(s, 8 * q) * 32 + s[8 * q + 1]) % 32 = s[8 * q + 1]
      BY <1>1, <2>5, LeftBits
    <2> QED BY <2>6, <2>8
  <1>4. FromStr(s)[5 * q + 2] = ((((s[8 * q + 2] * 32 + s[8 * q + 3]) % 128) * 32 + s[8 * q + 4]) \div 16) % 256
    <2>0. 5 * q + 2 \in DOMAIN FromStr(s)
      <3>1. 5 * q + 2 \in 1 .. (5 * Len(s)) \div 8
        BY ONLY <1>2, q \in Nat, 8 * q + 8 <= Len(s)
      <3> QED BY <3>1 DEF FromStr
    <2>1. /\ (8 * (5 * q + 2) + 4) \div 5 = 8 * q + 4
          /\ (8 * q + 4) - 1 = 8 * q + 3 /\ (8 * q + 3) - 1 = 8 * q + 2
          /\ 5 * (8 * q + 4) - 8 * (5 * q + 2) = 4
          /\ (5 * (8 * q + 3)) % 8 = 7
      BY ONLY <1>2, q \in Nat, 8 * q + 8 <= Len(s)
    <2>2. TwoTo(5 * (8 * q + 4) - 8 * (5 * q + 2)) = 16 /\ TwoTo((5 * (8 * q + 3)) % 8) = 128
      BY <2>1, Shifts
    <2>3. FromStr(s)[5 * q + 2] = ByteIn(s, 8 * q + 2, 8 * q + 3, 8 * q + 4, 128, 16)
      <3>1. ASSUME NEW j, NEW i, NEW h, NEW g, NEW y, NEW z, j = 5 * q + 2, i = 8 * q + 4, h = 8 * q + 3, g = 8 * q + 2, y = 128, z = 16
            PROVE  FromStr(s)[j] = ByteIn(s, g, h, i, y, z)
        <4>1. /\ j \in DOMAIN FromStr(s) /\ (8 * j + 4) \div 5 = i
              /\ i - 1 = h /\ h - 1 = g /\ TwoTo((5 * h) % 8) = y /\ TwoTo(5 * i - 8 * j) = z
          BY ONLY <2>0, <2>1, <2>2, <3>1, Zenon
        <4> QED BY ONLY <4>1, s \in Seq(0 .. 31), OneByte
      <3> QED BY ONLY <3>1
    <2>4. SymbolAt(s, 8 * q + 3) = s[8 * q + 3] /\ SymbolAt(s, 8 * q + 2) = s[8 * q + 2]
      BY DEF SymbolAt
    <2>5. FromStr(s)[5 * q + 2] = ((((s[8 * q + 2] * 32 + s[8 * q + 3]) % 128) * 32 + s[8 * q + 4]) \div 16) % 256
      BY <2>3, <2>4 DEF ByteIn, SymbolsLeft
    <2> QED BY <2>5
  <1>5. FromStr(s)[5 * q + 3] = ((((s[8 * q + 3] * 32 + s[8 * q + 4]) % 16) * 32 + s[8 * q + 5]) \div 2) % 256
    <2>0. 5 * q + 3 \in DOMAIN FromStr(s)
      <3>1. 5 * q + 3 \in 1 .. (5 * Len(s)) \div 8
        BY ONLY <1>2, q \in Nat, 8 * q + 8 <= Len(s)
      <3> QED BY <3>1 DEF FromStr
    <2>1. /\ (8 * (5 * q + 3) + 4) \div 5 = 8 * q + 5
          /\ (8 * q + 5) - 1 = 8 * q + 4 /\ (8 * q + 4) - 1 = 8 * q + 3
          /\ 5 * (8 * q + 5) - 8 * (5 * q + 3) = 1
          /\ (5 * (8 * q + 4)) % 8 = 4
      BY ONLY <1>2, q \in Nat, 8 * q + 8 <= Len(s)
    <2>2. TwoTo(5 * (8 * q + 5) - 8 * (5 * q + 3)) = 2 /\ TwoTo((5 * (8 * q + 4)) % 8) = 16
      BY <2>1, Shifts
    <2>3. FromStr(s)[5 * q + 3] = ByteIn(s, 8 * q + 3, 8 * q + 4, 8 * q + 5, 16, 2)
      <3>1. ASSUME NEW j, NEW i, NEW h, NEW g, NEW y, NEW z, j = 5 * q + 3, i = 8 * q + 5, h = 8 * q + 4, g = 8 * q + 3, y = 16, z = 2
            PROVE  FromStr(s)[j] = ByteIn(s, g, h, i, y, z)
        <4>1. /\ j \in DOMAIN FromStr(s) /\ (8 * j + 4) \div 5 = i
              /\ i - 1 = h /\ h - 1 = g /\ TwoTo((5 * h) % 8) = y /\ TwoTo(5 * i - 8 * j) = z
          BY ONLY <2>0, <2>1, <2>2, <3>1, Zenon
        <4> QED BY ONLY <4>1, s \in Seq(0 .. 31), OneByte
      <3> QED BY ONLY <3>1
    <2>4. SymbolAt(s, 8 * q + 4) = s[8 * q + 4] /\ SymbolAt(s, 8 * q + 3) = s[8 * q + 3]
      BY DEF SymbolAt
    <2>5. FromStr(s)[5 * q + 3] = ((((s[8 * q + 3] * 32 + s[8 * q + 4]) % 16) * 32 + s[8 * q + 5]) \div 2) % 256
      BY <2>3, <2>4 DEF ByteIn, SymbolsLeft
    <2> QED BY <2>5
  <1>6. FromStr(s)[5 * q + 4] = ((((s[8 * q + 5] * 32 + s[8 * q + 6]) % 64) * 32 + s[8 * q + 7]) \div 8) % 256
    <2>0. 5 * q + 4 \in DOMAIN FromStr(s)
      <3>1. 5 * q + 4 \in 1 .. (5 * Len(s)) \div 8
        BY ONLY <1>2, q \in Nat, 8 * q + 8 <= Len(s)
      <3> QED BY <3>1 DEF FromStr
    <2>1. /\ (8 * (5 * q + 4) + 4) \div 5 = 8 * q + 7
          /\ (8 * q + 7) - 1 = 8 * q + 6 /\ (8 * q + 6) - 1 = 8 * q + 5
          /\ 5 * (8 * q + 7) - 8 * (5 * q + 4) = 3
          /\ (5 * (8 * q + 6)) % 8 = 6
      BY ONLY <1>2, q \in Nat, 8 * q + 8 <= Len(s)
    <2>2. TwoTo(5 * (8 * q + 7) - 8 * (5 * q + 4)) = 8 /\ TwoTo((5 * (8 * q + 6)) % 8) = 64
      BY <2>1, Shifts
    <2>3. FromStr(s)[5 * q + 4] = ByteIn(s, 8 * q + 5, 8 * q + 6, 8 * q + 7, 64, 8)
      <3>1. ASSUME NEW j, NEW i, NEW h, NEW g, NEW y, NEW z, j = 5 * q + 4, i = 8 * q + 7, h = 8 * q + 6, g = 8 * q + 5, y = 64, z = 8
            PROVE  FromStr(s)[j] = ByteIn(s, g, h, i, y, z)
        <4>1. /\ j \in DOMAIN FromStr(s) /\ (8 * j + 4) \div 5 = i
              /\ i - 1 = h /\ h - 1 = g /\ TwoTo((5 * h) % 8) = y /\ TwoTo(5 * i - 8 * j) = z
          BY ONLY <2>0, <2>1, <2>2, <3>1, Zenon
        <4> QED BY ONLY <4>1, s \in Seq(0 .. 31), OneByte
      <3> QED BY ONLY <3>1
    <2>4. SymbolAt(s, 8 * q + 6) = s[8 * q + 6] /\ SymbolAt(s, 8 * q + 5) = s[8 * q + 5]
      BY DEF SymbolAt
    <2>5. FromStr(s)[5 * q + 4] = ((((s[8 * q + 5] * 32 + s[8 * q + 6]) % 64) * 32 + s[8 * q + 7]) \div 8) % 256
      BY <2>3, <2>4 DEF ByteIn, SymbolsLeft
    <2> QED BY <2>5
  <1>7. FromStr(s)[5 * q + 5] = (((s[8 * q + 6] * 32 + s[8 * q + 7]) % 8) * 32 + s[8 * q + 8]) % 256
    <2>0. 5 * q + 5 \in DOMAIN FromStr(s)
      <3>1. 5 * q + 5 \in 1 .. (5 * Len(s)) \div 8
        BY ONLY <1>2, q \in Nat, 8 * q + 8 <= Len(s)
      <3> QED BY <3>1 DEF FromStr
    <2>1. /\ (8 * (5 * q + 5) + 4) \div 5 = 8 * q + 8
          /\ (8 * q + 8) - 1 = 8 * q + 7 /\ (8 * q + 7) - 1 = 8 * q + 6
          /\ 5 * (8 * q + 8) - 8 * (5 * q + 5) = 0
          /\ (5 * (8 * q + 7)) % 8 = 3
      BY ONLY <1>2, q \in Nat, 8 * q + 8 <= Len(s)
    <2>2. TwoTo(5 * (8 * q + 8) - 8 * (5 * q + 5)) = 1 /\ TwoTo((5 * (8 * q + 7)) % 8) = 8
      BY <2>1, Shifts
    <2>3. FromStr(s)[5 * q + 5] = ByteIn(s, 8 * q + 6, 8 * q + 7, 8 * q + 8, 8, 1)
      <3>1. ASSUME NEW j, NEW i, NEW h, NEW g, NEW y, NEW z, j = 5 * q + 5, i = 8 * q + 8, h = 8 * q + 7, g = 8 * q + 6, y = 8, z = 1
            PROVE  FromStr(s)[j] = ByteIn(s, g, h, i, y, z)
        <4>1. /\ j \in DOMAIN FromStr(s) /\ (8 * j + 4) \div 5 = i
              /\ i - 1 = h /\ h - 1 = g /\ TwoTo((5 * h) % 8) = y /\ TwoTo(5 * i - 8 * j) = z
          BY ONLY <2>0, <2>1, <2>2, <3>1, Zenon
        <4> QED BY ONLY <4>1, s \in Seq(0 .. 31), OneByte
      <3> QED BY ONLY <3>1
    <2>4. SymbolAt(s, 8 * q + 7) = s[8 * q + 7] /\ SymbolAt(s, 8 * q + 6) = s[8 * q + 6]
      BY DEF SymbolAt
    <2>5. FromStr(s)[5 * q + 5] = ((((s[8 * q + 6] * 32 + s[8 * q + 7]) % 8) * 32 + s[8 * q + 8]) \div 1) % 256
      BY <2>3, <2>4 DEF ByteIn, SymbolsLeft
    <2>6. ASSUME NEW x \in 0 .. 31, NEW y \in 0 .. 31, NEW z \in 0 .. 31
          PROVE  ((((x * 32 + y) % 8) * 32 + z) \div 1) = (((x * 32 + y) % 8) * 32 + z)
      OBVIOUS
    <2>7. ASSUME NEW x, NEW y, NEW z, x = s[8 * q + 6], y = s[8 * q + 7], z = s[8 * q + 8]
          PROVE  ((((x * 32 + y) % 8) * 32 + z) \div 1) = (((x * 32 + y) % 8) * 32 + z)
      <3>1. x \in 0 .. 31 /\ y \in 0 .. 31 /\ z \in 0 .. 31
        BY ONLY <1>1, <2>7, Zenon
      <3> QED BY ONLY <3>1, <2>6
    <2>8. ((((s[8 * q + 6] * 32 + s[8 * q + 7]) % 8) * 32 + s[8 * q + 8]) \div 1) = (((s[8 * q + 6] * 32 + s[8 * q + 7]) % 8) * 32 + s[8 * q + 8])
      BY ONLY <2>7
    <2> QED BY ONLY <2>5, <2>8, Zenon
  <1> QED BY <1>3, <1>4, <1>5, <1>6, <1>7

\* The symbols five bytes make, and the bytes eight symbols make.
MakesSymbols(b1, b2, b3, b4, b5,
             v1, v2, v3, v4, v5, v6, v7, v8) ==
  /\ v1 = (b1 \div 8) % 32
  /\ v2 = (((b1 % 8) * 256 + b2) \div 64) % 32
  /\ v3 = (((b1 % 8) * 256 + b2) \div 2) % 32
  /\ v4 = (((b2 % 2) * 256 + b3) \div 16) % 32
  /\ v5 = (((b3 % 16) * 256 + b4) \div 128) % 32
  /\ v6 = (((b3 % 16) * 256 + b4) \div 4) % 32
  /\ v7 = (((b4 % 4) * 256 + b5) \div 32) % 32
  /\ v8 = ((b4 % 4) * 256 + b5) % 32

MakesBytes(v1, v2, v3, v4, v5, v6, v7, v8,
           b1, b2, b3, b4, b5) ==
  /\ b1 = ((v1 * 32 + v2) \div 4) % 256
  /\ b2 = ((((v2 * 32 + v3) % 128) * 32 + v4) \div 16) % 256
  /\ b3 = ((((v3 * 32 + v4) % 16) * 32 + v5) \div 2) % 256
  /\ b4 = ((((v5 * 32 + v6) % 64) * 32 + v7) \div 8) % 256
  /\ b5 = (((v6 * 32 + v7) % 8) * 32 + v8) % 256

AreSymbols(v1, v2, v3, v4, v5, v6, v7, v8) ==
  /\ v1 \in 0 .. 31 /\ v2 \in 0 .. 31 /\ v3 \in 0 .. 31 /\ v4 \in 0 .. 31
  /\ v5 \in 0 .. 31 /\ v6 \in 0 .. 31 /\ v7 \in 0 .. 31 /\ v8 \in 0 .. 31

\* Those symbols make those bytes.
LEMMA SymbolsMakeBytes ==
  ASSUME NEW b1 \in 0 .. 255, NEW b2 \in 0 .. 255, NEW b3 \in 0 .. 255,
         NEW b4 \in 0 .. 255, NEW b5 \in 0 .. 255,
         NEW v1, NEW v2, NEW v3, NEW v4, NEW v5, NEW v6, NEW v7, NEW v8,
         MakesSymbols(b1, b2, b3, b4, b5, v1, v2, v3, v4, v5, v6, v7, v8)
  PROVE  AreSymbols(v1, v2, v3, v4, v5, v6, v7, v8) /\ MakesBytes(v1, v2, v3, v4, v5, v6, v7, v8, b1, b2, b3, b4, b5)
  <1>0. /\ v1 = (b1 \div 8) % 32
        /\ v2 = (((b1 % 8) * 256 + b2) \div 64) % 32
        /\ v3 = (((b1 % 8) * 256 + b2) \div 2) % 32
        /\ v4 = (((b2 % 2) * 256 + b3) \div 16) % 32
        /\ v5 = (((b3 % 16) * 256 + b4) \div 128) % 32
        /\ v6 = (((b3 % 16) * 256 + b4) \div 4) % 32
        /\ v7 = (((b4 % 4) * 256 + b5) \div 32) % 32
        /\ v8 = ((b4 % 4) * 256 + b5) % 32
    BY DEF MakesSymbols
  <1>1. v1 \in 0 .. 31 /\ v2 \in 0 .. 31 /\ v3 \in 0 .. 31 /\ v4 \in 0 .. 31
    BY <1>0
  <1>2. v5 \in 0 .. 31 /\ v6 \in 0 .. 31 /\ v7 \in 0 .. 31 /\ v8 \in 0 .. 31
    BY <1>0
  <1>3. ((v1 * 32 + v2) \div 4) % 256 = b1
    BY <1>0
  <1>4. ((((v2 * 32 + v3) % 128) * 32 + v4) \div 16) % 256 = b2
    <2>1. v2 % 4 = b2 \div 64
      BY <1>0
    <2>2. v3 = (b2 \div 2) % 32
      BY <1>0
    <2>3. v4 \div 16 = b2 % 2
      BY <1>0
    <2>4. ASSUME NEW x \in 0 .. 31, NEW y \in 0 .. 31, NEW z \in 0 .. 31
          PROVE  ((((x * 32 + y) % 128) * 32 + z) \div 16) = (x % 4) * 64 + y * 2 + (z \div 16)
      OBVIOUS
    <2>5. b2 = (b2 \div 64) * 64 + ((b2 \div 2) % 32) * 2 + (b2 % 2)
      OBVIOUS
    <2>6. (((v2 * 32 + v3) % 128) * 32 + v4) \div 16 = b2
      BY ONLY <1>1, <2>1, <2>2, <2>3, <2>4, <2>5
    <2> QED BY ONLY <2>6, b2 \in 0 .. 255
  <1>5. ((((v3 * 32 + v4) % 16) * 32 + v5) \div 2) % 256 = b3
    <2>1. v4 % 16 = b3 \div 16
      BY <1>0
    <2>2. v5 \div 2 = b3 % 16
      BY <1>0
    <2>3. ASSUME NEW x \in 0 .. 31, NEW y \in 0 .. 31, NEW z \in 0 .. 31
          PROVE  ((((x * 32 + y) % 16) * 32 + z) \div 2) = (y % 16) * 16 + (z \div 2)
      OBVIOUS
    <2>4. b3 = (b3 \div 16) * 16 + (b3 % 16)
      OBVIOUS
    <2>5. (((v3 * 32 + v4) % 16) * 32 + v5) \div 2 = b3
      BY ONLY <1>1, <1>2, <2>1, <2>2, <2>3, <2>4
    <2> QED BY ONLY <2>5, b3 \in 0 .. 255
  <1>6. ((((v5 * 32 + v6) % 64) * 32 + v7) \div 8) % 256 = b4
    <2>1. v5 % 2 = b4 \div 128
      BY <1>0
    <2>2. v6 = (b4 \div 4) % 32
      BY <1>0
    <2>3. v7 \div 8 = b4 % 4
      BY <1>0
    <2>4. ASSUME NEW x \in 0 .. 31, NEW y \in 0 .. 31, NEW z \in 0 .. 31
          PROVE  ((((x * 32 + y) % 64) * 32 + z) \div 8) = (x % 2) * 128 + y * 4 + (z \div 8)
      OBVIOUS
    <2>5. b4 = (b4 \div 128) * 128 + ((b4 \div 4) % 32) * 4 + (b4 % 4)
      OBVIOUS
    <2>6. (((v5 * 32 + v6) % 64) * 32 + v7) \div 8 = b4
      BY ONLY <1>1, <1>2, <2>1, <2>2, <2>3, <2>4, <2>5
    <2> QED BY ONLY <2>6, b4 \in 0 .. 255
  <1>7. (((v6 * 32 + v7) % 8) * 32 + v8) % 256 = b5
    BY <1>0
  <1> QED BY ONLY <1>1, <1>2, <1>3, <1>4, <1>5, <1>6, <1>7, Zenon DEF MakesBytes, AreSymbols

\* A group of the code.
LEMMA GroupExposed ==
  ASSUME NEW t \in Seq(0 .. 255), NEW q \in Nat, 5 * q + 5 <= Len(t)
  PROVE  /\ AreSymbols(Expose(t)[8 * q + 1], Expose(t)[8 * q + 2], Expose(t)[8 * q + 3], Expose(t)[8 * q + 4],
                       Expose(t)[8 * q + 5], Expose(t)[8 * q + 6], Expose(t)[8 * q + 7], Expose(t)[8 * q + 8])
         /\ MakesBytes(Expose(t)[8 * q + 1], Expose(t)[8 * q + 2], Expose(t)[8 * q + 3], Expose(t)[8 * q + 4],
                       Expose(t)[8 * q + 5], Expose(t)[8 * q + 6], Expose(t)[8 * q + 7], Expose(t)[8 * q + 8],
                       t[5 * q + 1], t[5 * q + 2], t[5 * q + 3], t[5 * q + 4], t[5 * q + 5])
  <1>1. MakesSymbols(t[5 * q + 1], t[5 * q + 2], t[5 * q + 3], t[5 * q + 4], t[5 * q + 5],
                     Expose(t)[8 * q + 1], Expose(t)[8 * q + 2], Expose(t)[8 * q + 3], Expose(t)[8 * q + 4],
                       Expose(t)[8 * q + 5], Expose(t)[8 * q + 6], Expose(t)[8 * q + 7], Expose(t)[8 * q + 8])
    BY ONLY ExposedGroup, t \in Seq(0 .. 255), q \in Nat, 5 * q + 5 <= Len(t) DEF MakesSymbols
  <1>2. /\ t[5 * q + 1] \in 0 .. 255 /\ t[5 * q + 2] \in 0 .. 255 /\ t[5 * q + 3] \in 0 .. 255
        /\ t[5 * q + 4] \in 0 .. 255 /\ t[5 * q + 5] \in 0 .. 255
    <2>1. /\ 5 * q + 1 \in 1 .. Len(t) /\ 5 * q + 2 \in 1 .. Len(t) /\ 5 * q + 3 \in 1 .. Len(t)
          /\ 5 * q + 4 \in 1 .. Len(t) /\ 5 * q + 5 \in 1 .. Len(t)
      OBVIOUS
    <2>2. \A i \in 1 .. Len(t) : t[i] \in 0 .. 255
      BY SeqElements
    <2> QED BY ONLY <2>1, <2>2, Zenon
  <1> QED BY ONLY <1>1, <1>2, SymbolsMakeBytes, Zenon

\* A group of the token.
LEMMA GroupRead ==
  ASSUME NEW s \in Seq(0 .. 31), NEW q \in Nat, 8 * q + 8 <= Len(s)
  PROVE  MakesBytes(s[8 * q + 1], s[8 * q + 2], s[8 * q + 3], s[8 * q + 4],
                       s[8 * q + 5], s[8 * q + 6], s[8 * q + 7], s[8 * q + 8],
                    FromStr(s)[5 * q + 1], FromStr(s)[5 * q + 2], FromStr(s)[5 * q + 3], FromStr(s)[5 * q + 4], FromStr(s)[5 * q + 5])
  BY ONLY ReadGroup, s \in Seq(0 .. 31), q \in Nat, 8 * q + 8 <= Len(s) DEF MakesBytes

\* The code of a token of whole groups: eight symbols for five bytes.
LEMMA CodeShape ==
  ASSUME NEW t \in Seq(0 .. 255), NEW n \in Nat, Len(t) = 5 * n
  PROVE  Expose(t) \in Seq(0 .. 31) /\ Len(Expose(t)) = 8 * n
  <1>1. (8 * Len(t)) \div 5 = 8 * n
    OBVIOUS
  <1>2. DOMAIN Expose(t) = 1 .. 8 * n /\ Expose(t) = [k \in 1 .. 8 * n |-> Expose(t)[k]]
    BY <1>1 DEF Expose
  <1>3. ASSUME NEW k \in 1 .. 8 * n PROVE Expose(t)[k] \in 0 .. 31
    <2>1. PICK q \in Nat : 8 * q < k /\ k <= 8 * q + 8
      <3>1. (k - 1) \div 8 \in Nat /\ 8 * ((k - 1) \div 8) < k /\ k <= 8 * ((k - 1) \div 8) + 8
        OBVIOUS
      <3> QED BY <3>1
    <2>2. 5 * q + 5 <= Len(t)
      BY <2>1
    <2>3. /\ Expose(t)[8 * q + 1] \in 0 .. 31 /\ Expose(t)[8 * q + 2] \in 0 .. 31
          /\ Expose(t)[8 * q + 3] \in 0 .. 31 /\ Expose(t)[8 * q + 4] \in 0 .. 31
          /\ Expose(t)[8 * q + 5] \in 0 .. 31 /\ Expose(t)[8 * q + 6] \in 0 .. 31
          /\ Expose(t)[8 * q + 7] \in 0 .. 31 /\ Expose(t)[8 * q + 8] \in 0 .. 31
      BY ONLY <2>2, t \in Seq(0 .. 255), q \in Nat, GroupExposed, Zenon DEF AreSymbols
    <2>4. \/ k = 8 * q + 1 \/ k = 8 * q + 2 \/ k = 8 * q + 3 \/ k = 8 * q + 4
          \/ k = 8 * q + 5 \/ k = 8 * q + 6 \/ k = 8 * q + 7 \/ k = 8 * q + 8
      BY <2>1
    <2> QED BY ONLY <2>3, <2>4, Zenon
  <1>4. Expose(t) \in [1 .. 8 * n -> 0 .. 31]
    BY <1>2, <1>3, Zenon
  <1>5. 8 * n \in Nat
    OBVIOUS
  <1> HIDE DEF Expose
  <1> QED BY ONLY <1>4, <1>5

\* The code reads as the token it shows.
LEMMA CodeReads ==
  ASSUME NEW t \in Seq(0 .. 255), NEW n \in Nat, Len(t) = 5 * n
  PROVE  FromStr(Expose(t)) = t
  <1> DEFINE c == Expose(t)
  <1>1. c \in Seq(0 .. 31) /\ Len(c) = 8 * n
    BY CodeShape
  <1>2. (5 * Len(c)) \div 8 = 5 * n
    BY <1>1
  <1> HIDE DEF c
  <1>3. DOMAIN FromStr(c) = 1 .. 5 * n /\ FromStr(c) = [j \in 1 .. 5 * n |-> FromStr(c)[j]]
    BY <1>2 DEF FromStr
  <1>4. ASSUME NEW j \in 1 .. 5 * n PROVE FromStr(c)[j] = t[j]
    <2>1. PICK q \in Nat : 5 * q < j /\ j <= 5 * q + 5
      <3>1. (j - 1) \div 5 \in Nat /\ 5 * ((j - 1) \div 5) < j /\ j <= 5 * ((j - 1) \div 5) + 5
        OBVIOUS
      <3> QED BY <3>1
    <2>2. 5 * q + 5 <= Len(t) /\ 8 * q + 8 <= Len(c)
      BY <1>1, <2>1
    <2>3. /\ FromStr(c)[5 * q + 1] = t[5 * q + 1] /\ FromStr(c)[5 * q + 2] = t[5 * q + 2]
          /\ FromStr(c)[5 * q + 3] = t[5 * q + 3] /\ FromStr(c)[5 * q + 4] = t[5 * q + 4]
          /\ FromStr(c)[5 * q + 5] = t[5 * q + 5]
      <3>1. MakesBytes(c[8 * q + 1], c[8 * q + 2], c[8 * q + 3], c[8 * q + 4],
                       c[8 * q + 5], c[8 * q + 6], c[8 * q + 7], c[8 * q + 8],
                       FromStr(c)[5 * q + 1], FromStr(c)[5 * q + 2], FromStr(c)[5 * q + 3],
                       FromStr(c)[5 * q + 4], FromStr(c)[5 * q + 5])
        BY ONLY <1>1, <2>2, q \in Nat, GroupRead, Zenon
      <3>2. MakesBytes(c[8 * q + 1], c[8 * q + 2], c[8 * q + 3], c[8 * q + 4],
                       c[8 * q + 5], c[8 * q + 6], c[8 * q + 7], c[8 * q + 8],
                       t[5 * q + 1], t[5 * q + 2], t[5 * q + 3], t[5 * q + 4], t[5 * q + 5])
        BY ONLY <2>2, t \in Seq(0 .. 255), q \in Nat, GroupExposed, Zenon DEF c
      <3> QED BY ONLY <3>1, <3>2, Zenon DEF MakesBytes
    <2>4. \/ j = 5 * q + 1 \/ j = 5 * q + 2 \/ j = 5 * q + 3 \/ j = 5 * q + 4 \/ j = 5 * q + 5
      BY <2>1
    <2> QED BY ONLY <2>3, <2>4, Zenon
  <1>5. DOMAIN t = 1 .. 5 * n /\ t = [j \in 1 .. 5 * n |-> t[j]]
    BY Len(t) = 5 * n
  <1>6. FromStr(c) = t
    BY ONLY <1>3, <1>4, <1>5, Zenon
  <1> QED BY <1>6 DEF c

\* A code whose last symbol is another one reads as another token.
LEMMA WrongCodeReads ==
  ASSUME NEW t \in Seq(0 .. 255), NEW n \in Nat, n # 0, Len(t) = 5 * n,
         NEW x \in 0 .. 31, x # Expose(t)[8 * n]
  PROVE  FromStr([Expose(t) EXCEPT ![8 * n] = x]) # t
  <1> DEFINE c == Expose(t)
             w == [c EXCEPT ![8 * n] = x]
  <1>1. c \in Seq(0 .. 31) /\ Len(c) = 8 * n
    BY CodeShape
  <1>2. x # c[8 * n]
    OBVIOUS
  <1> HIDE DEF c
  <1>3. /\ w \in Seq(0 .. 31) /\ Len(w) = 8 * n /\ w[8 * n] = x
        /\ \A k \in 1 .. 8 * n : k # 8 * n => w[k] = c[k]
    <2>0. 8 * n \in 1 .. 8 * n /\ 8 * n \in Nat
      BY n # 0
    <2>1. c \in [1 .. 8 * n -> 0 .. 31] /\ 8 * n \in 1 .. 8 * n /\ 8 * n \in Nat
      <3>1. c \in [1 .. Len(c) -> 0 .. 31]
        BY ONLY <1>1, SeqElements, Zenon
      <3> QED BY ONLY <1>1, <2>0, <3>1, Zenon
    <2>2. w \in [1 .. 8 * n -> 0 .. 31]
      BY <2>1
    <2>3. w[8 * n] = x /\ \A k \in 1 .. 8 * n : k # 8 * n => w[k] = c[k]
      BY <2>1
    <2> HIDE DEF w
    <2>4. w \in Seq(0 .. 31) /\ Len(w) = 8 * n
      BY ONLY <2>1, <2>2
    <2> QED BY <2>3, <2>4
  <1> HIDE DEF w
  <1>4. PICK q \in Nat : n = q + 1
    <2>1. n - 1 \in Nat /\ n = (n - 1) + 1
      BY n # 0
    <2> QED BY <2>1
  <1>5. 5 * q + 5 <= Len(t) /\ 8 * q + 8 <= Len(w) /\ 8 * q + 8 = 8 * n
    BY <1>3, <1>4
  <1>6. w[8 * q + 6] = c[8 * q + 6] /\ w[8 * q + 7] = c[8 * q + 7] /\ w[8 * q + 8] = x
    <2>1. 8 * q + 6 \in 1 .. 8 * n /\ 8 * q + 7 \in 1 .. 8 * n /\ 8 * q + 6 # 8 * n /\ 8 * q + 7 # 8 * n
      BY <1>4
    <2> QED BY <1>3, <1>5, <2>1, Zenon
  <1>7. ASSUME NEW v6, NEW v7, NEW v8, v6 = c[8 * q + 6], v7 = c[8 * q + 7], v8 = c[8 * q + 8]
        PROVE  FromStr(w)[5 * q + 5] # t[5 * q + 5]
    <2>1. FromStr(w)[5 * q + 5] = (((v6 * 32 + v7) % 8) * 32 + x) % 256
      <3>1. FromStr(w)[5 * q + 5] = (((w[8 * q + 6] * 32 + w[8 * q + 7]) % 8) * 32 + w[8 * q + 8]) % 256
        <4>1. MakesBytes(w[8 * q + 1], w[8 * q + 2], w[8 * q + 3], w[8 * q + 4],
                         w[8 * q + 5], w[8 * q + 6], w[8 * q + 7], w[8 * q + 8],
                         FromStr(w)[5 * q + 1], FromStr(w)[5 * q + 2], FromStr(w)[5 * q + 3],
                         FromStr(w)[5 * q + 4], FromStr(w)[5 * q + 5])
          BY ONLY <1>3, <1>5, q \in Nat, GroupRead, Zenon
        <4> QED BY ONLY <4>1, Zenon DEF MakesBytes
      <3> QED BY ONLY <1>6, <1>7, <3>1, Zenon
    <2>2. /\ (((v6 * 32 + v7) % 8) * 32 + v8) % 256 = t[5 * q + 5]
          /\ v6 \in 0 .. 31 /\ v7 \in 0 .. 31 /\ v8 \in 0 .. 31
      <3>1. /\ t[5 * q + 5] = (((c[8 * q + 6] * 32 + c[8 * q + 7]) % 8) * 32 + c[8 * q + 8]) % 256
            /\ c[8 * q + 6] \in 0 .. 31 /\ c[8 * q + 7] \in 0 .. 31 /\ c[8 * q + 8] \in 0 .. 31
        <4>1. /\ AreSymbols(c[8 * q + 1], c[8 * q + 2], c[8 * q + 3], c[8 * q + 4],
                            c[8 * q + 5], c[8 * q + 6], c[8 * q + 7], c[8 * q + 8])
              /\ MakesBytes(c[8 * q + 1], c[8 * q + 2], c[8 * q + 3], c[8 * q + 4],
                            c[8 * q + 5], c[8 * q + 6], c[8 * q + 7], c[8 * q + 8],
                            t[5 * q + 1], t[5 * q + 2], t[5 * q + 3], t[5 * q + 4], t[5 * q + 5])
          BY ONLY <1>5, t \in Seq(0 .. 255), q \in Nat, GroupExposed, Zenon DEF c
        <4> QED BY ONLY <4>1, Zenon DEF MakesBytes, AreSymbols
      <3> QED BY ONLY <1>7, <3>1, Zenon
    <2>3. v8 # x
      BY <1>2, <1>5, <1>7, Zenon
    <2>4. PICK m \in 0 .. 7 : m = (v6 * 32 + v7) % 8
      BY ONLY <2>2
    <2>5. (m * 32 + x) % 256 = m * 32 + x /\ (m * 32 + v8) % 256 = m * 32 + v8 /\ m * 32 + x # m * 32 + v8
      <3>1. ASSUME NEW y \in 0 .. 31 PROVE (m * 32 + y) % 256 = m * 32 + y
        BY ONLY m \in 0 .. 7, y \in 0 .. 31
      <3>2. ASSUME NEW y \in 0 .. 31, NEW z \in 0 .. 31, y # z PROVE m * 32 + y # m * 32 + z
        BY ONLY m \in 0 .. 7, y \in 0 .. 31, z \in 0 .. 31, <3>2
      <3> QED BY ONLY <2>2, <2>3, <3>1, <3>2, x \in 0 .. 31, Zenon
    <2> QED BY ONLY <2>1, <2>2, <2>4, <2>5, Zenon
  <1>8. FromStr(w)[5 * q + 5] # t[5 * q + 5]
    BY ONLY <1>7, Zenon
  <1>9. FromStr(w) # t
    BY ONLY <1>8, Zenon
  <1> QED BY <1>9 DEF w, c

\* What the user types is the code shown exactly when it reads as the token.
LEMMA TypedIsExact ==
  ASSUME NEW t \in Seq(0 .. 255), Len(t) % 5 = 0, NEW code,
         \/ code = Expose(t)
         \/ code = [Expose(t) EXCEPT ![Len(Expose(t))] = (Expose(t)[Len(Expose(t))] + 1) % 32]
  PROVE  code = Expose(t) <=> FromStr(code) = t
  <1>1. PICK n \in Nat : Len(t) = 5 * n
    <2>1. Len(t) \div 5 \in Nat /\ Len(t) = 5 * (Len(t) \div 5)
      BY Len(t) % 5 = 0
    <2> QED BY <2>1
  <1> DEFINE c == Expose(t)
  <1>2. c \in Seq(0 .. 31) /\ Len(c) = 8 * n /\ FromStr(c) = t
    BY <1>1, CodeShape, CodeReads
  <1>3. CASE code = c
    BY <1>2, <1>3
  <1>4. CASE code # c
    <2> DEFINE x == (c[8 * n] + 1) % 32
    <2>1. code = [c EXCEPT ![8 * n] = x]
      BY <1>2, <1>4
    <2> HIDE DEF c
    <2>2. n # 0
      <3> SUFFICES ASSUME n = 0 PROVE FALSE
        OBVIOUS
      <3>1. c = <<>>
        BY <1>2
      <3>2. code = <<>>
        BY <2>1, <3>1
      <3> QED BY <1>4, <3>1, <3>2
    <2>3. c[8 * n] \in 0 .. 31
      <3>1. 8 * n \in 1 .. Len(c)
        BY <1>2, <2>2
      <3> QED BY <1>2, <3>1, SeqElements, Zenon
    <2>4. x \in 0 .. 31 /\ x # c[8 * n]
      <3>1. ASSUME NEW y \in 0 .. 31 PROVE (y + 1) % 32 \in 0 .. 31 /\ (y + 1) % 32 # y
        OBVIOUS
      <3> QED BY ONLY <2>3, <3>1, Zenon
    <2> HIDE DEF x
    <2>5. FromStr([c EXCEPT ![8 * n] = x]) # t
      BY <1>1, <2>2, <2>4, WrongCodeReads DEF c
    <2> QED BY <1>4, <2>1, <2>5 DEF c
  <1> QED BY <1>3, <1>4 DEF c


\* The code shown reads as the token, and no other code the user may type does.
LEMMA CodeTyped ==
  ASSUME Shape, NEW code \in Typed
  PROVE  code = Expose(token) <=> FromStr(code) = token
  <1>1. token \in Seq(0 .. 255) /\ Len(token) % 5 = 0
    BY PairingAssumption DEF Shape
  <1>2. \/ code = Expose(token)
        \/ code = [Expose(token) EXCEPT ![Len(Expose(token))] = (Expose(token)[Len(Expose(token))] + 1) % 32]
    BY DEF Typed
  <1>3. ASSUME NEW t \in Seq(0 .. 255), Len(t) % 5 = 0,
               \/ code = Expose(t)
               \/ code = [Expose(t) EXCEPT ![Len(Expose(t))] = (Expose(t)[Len(Expose(t))] + 1) % 32]
        PROVE  code = Expose(t) <=> FromStr(code) = t
    BY ONLY <1>3, TypedIsExact, Zenon
  <1> QED BY ONLY <1>1, <1>2, <1>3, Zenon

\* The host still holds the code of the same call.
SameCall == attempts' = attempts /\ token' = token /\ host'.key = host.key /\ host'.right = host.right

\* Only a new call takes a new code.
LEMMA CallKept ==
  ASSUME Base, Next
  PROVE  SameCall \/ \E code \in Typed : Pair(code)
  <1>1. Shape /\ Handshakes /\ Streams
    BY DEF Base
  <1>2. CASE HostReadsHello /\ UNCHANGED negVars
    <2>1. CASE ValidDisplayHello(Head(conns[host.conn].toHost), host.key, host.conn)
      BY <1>1, <1>2, <2>1, ReadsHelloShape DEF SameCall, displayVars
    <2>2. CASE ~ValidDisplayHello(Head(conns[host.conn].toHost), host.key, host.conn)
      <3>1. HostFails(TRUE)
        BY <1>2, <2>2 DEF HostReadsHello
      <3>2. HostShape(host)
        BY <1>1 DEF Shape
      <3> QED BY <3>1, <3>2 DEF HostFails, HostShape, SameCall, displayVars
    <2> QED BY <2>1, <2>2
  <1>3. CASE HostReadsFinished /\ UNCHANGED negVars
    <2>1. ValidFinished(Head(conns[host.conn].toHost), host.key, "DisplayFinished",
                        host.conn, host.dn)
      BY <1>1, <1>3, FinishedFits DEF HostReadsFinished
    <2> QED BY <1>1, <1>3, <2>1, ReadsFinishedShape DEF SameCall, displayVars
  <1>4. CASE HostReadFails
    <2>1. HostFails(FALSE)
      BY <1>4 DEF HostReadFails
    <2>2. HostShape(host)
      BY <1>1 DEF Shape
    <2> QED BY <2>1, <2>2 DEF HostFails, HostShape, SameCall, displayVars
  <1>5. CASE UNCHANGED hostVars
    BY <1>5 DEF hostVars, SameCall
  <1>6. /\ LoopHead => UNCHANGED hostVars
        /\ Accept => UNCHANGED hostVars
        /\ AcceptClosed => UNCHANGED hostVars
        /\ HandshakeFails => UNCHANGED hostVars
        /\ OnIoThread => UNCHANGED hostVars
        /\ Expire => UNCHANGED hostVars
    BY DEF LoopHead, Accept, AcceptClosed, HandshakeFails, OnIoThread, Expire, hostVars
  <1>7. /\ ServerReadsHello => UNCHANGED hostVars
        /\ ServerReadsFinished => UNCHANGED hostVars
        /\ ServerReadFails => UNCHANGED hostVars
    BY <1>6, Zenon DEF ServerReadsHello, ServerReadsFinished, ServerReadFails, hostVars
  <1>8. CASE Pairs /\ ~\E code \in Typed : Pair(code)
    BY <1>2, <1>3, <1>4, <1>5, <1>6, <1>7, <1>8 DEF Pairs, PairNext
  <1>9. CASE StopDisplay \/ DisplayReadEnds \/ BeginHandshake \/ DecoderChanges
    <2>1. Quiet
      BY <1>1, <1>9, StopDisplayQuiet, DisplayReadEndsQuiet, BeginHandshakeQuiet,
         DecoderChangesQuiet
    <2> QED BY <2>1 DEF Quiet, SameCall
  <1>10. CASE HostTalk \/ DisplayTalk
    BY <1>1, <1>10, TalkTalks DEF Talks, DisplayTalks, SameCall
  <1> QED BY <1>8, <1>9, <1>10 DEF Next, HostTalk, DisplayTalk, Pairs, PairNext

\* A new call takes the code typed, and what from_str makes of it.
LEMMA CallMade ==
  ASSUME Base, NEW code \in Typed, Pair(code)
  PROVE  CodeKnown'
  <1>1. code = Expose(token) <=> FromStr(code) = token
    BY CodeTyped DEF Base
  <1>2. attempts' = attempts + 1 /\ token' = token /\ attempts \in Nat
    BY DEF Pair, displayVars, Base, Shape
  <1>3. host'.key = FromStr(code) /\ (host'.right <=> code = Expose(token))
    BY DEF Pair
  <1>4. attempts' # 0
    BY <1>2
  <1>5. host'.right <=> host'.key = token'
    BY <1>1, <1>2, <1>3
  <1> QED BY <1>4, <1>5 DEF CodeKnown

\* The host knows the code always.
THEOREM CodeAlwaysKnown == Spec => []CodeKnown
  <1>1. Init => CodeKnown
    BY DEF Init, PairInit, CodeKnown
  <1>2. ASSUME Base, CodeKnown, [Next]_vars PROVE CodeKnown'
    <2>1. CASE SameCall
      BY <1>2, <2>1 DEF SameCall, CodeKnown
    <2>2. CASE \E code \in Typed : Pair(code)
      BY <1>2, <2>2, CallMade
    <2>3. CASE UNCHANGED vars
      <3>1. SameCall
        BY <2>3 DEF vars, pairVars, SameCall
      <3> QED BY <2>1, <3>1
    <2> QED BY <1>2, <2>1, <2>2, <2>3, CallKept
  <1> QED BY <1>1, <1>2, BaseAlways, PTL DEF Spec

(***************************************************************************)
(* PairingIsExact holds for every set of tokens of whole groups, every     *)
(* bound on attempts and every limit on failed handshakes: a host that     *)
(* reports success typed the code the display shows, and the display has   *)
(* accepted it on the same socket with the same nonces; and a code typed   *)
(* as shown is never refused by either half of pairing.rs.                 *)
(***************************************************************************)
THEOREM PairingExact == Spec => []PairingIsExact
  <1>1. Base /\ CodeKnown => PairingIsExact
    <2> SUFFICES ASSUME Base, CodeKnown PROVE PairingIsExact
      OBVIOUS
    <2>1. /\ host.pc \in {"paired", "session", "over"} => host.key = token /\ DoneOn(host.conn)
          /\ host.refused => host.key # token
      BY DEF Base, Handshakes, OnPaired
    <2>2. host.pc # "idle" => attempts # 0
      BY DEF Base, Shape
    <2>3. ASSUME Paired
          PROVE  /\ host.right /\ host.key = token
                 /\ server.conn = host.conn /\ server.hn = host.conn
                 /\ server.pc \notin Serving
      <3>1. host.pc \in {"paired", "session"}
        BY <2>3 DEF Paired
      <3> QED BY <2>1, <2>2, <3>1 DEF CodeKnown, DoneOn
    <2>4. ASSUME host.refused PROVE ~host.right
      BY <2>1, <2>4 DEF CodeKnown
    <2> QED BY <2>3, <2>4 DEF PairingIsExact
  <1> QED BY <1>1, BaseAlways, CodeAlwaysKnown, PTL

=============================================================================
