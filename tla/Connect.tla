------------------------------ MODULE Connect ------------------------------
(***************************************************************************)
(* From a typed code to a configured display: Pairing, then the LDFL       *)
(* negotiation on the authenticated socket.  The host is                   *)
(* apps/desktop/src-tauri/src/host_protocol.rs with negotiate from         *)
(* crates/ladoflow-core, the display Android's AndroidDisplaySession.      *)
(*                                                                         *)
(* A frame is [type, seq, body]; decode errors are left out, both ends     *)
(* send well-formed frames.  A stream keeps the order in which its frames  *)
(* were queued; where the multiplexer does not is TcpPump's subject.       *)
(* Dimensions are in units of ten pixels and refresh rates in millihertz.  *)
(***************************************************************************)
EXTENDS Pairing

CONSTANTS
    Modes,          \* NEGOTIATED_LANDSCAPE_MODES, <<width, height>>
    Requests,       \* HostProtocolConfig values: [width, height, hz]
    Displays,       \* display capabilities, and whether the decoder takes a mode
    Capacity,       \* control packets the outbound queue holds
    History,        \* SENT_VIDEO_HISTORY
    SurfaceQueue,   \* frames that wait for a surface, the 3 of enqueueUntilSurfaceReady
    MaxVideo,       \* bound: frames the host sends once it streams
    MaxReports      \* bound: pings and telemetry of the display

Limits == [width : Nat, height : Nat, refresh : Nat, bitrate : Nat]

ASSUME ConnectAssumption ==
    /\ \A m \in ToSet(Modes) : m \in (Nat \ {0}) \X (Nat \ {0})
    /\ \A r \in Requests : {r.width, r.height} \subseteq Nat \ {0} /\ r.hz \in {30, 60}
    /\ \A d \in Displays : d.limits \in Limits /\ "H264" \in d.codecs
    /\ {Capacity, History, SurfaceQueue} \subseteq Nat \ {0} /\ MaxVideo \in Nat /\ MaxReports \in Nat

VARIABLES
    request,    \* the user's HostProtocolConfig
    display,    \* localCapabilities and the decoder of this Android device
    neg,        \* HostHandshake and the session loop behind it
    disp,       \* AndroidDisplaySession
    hostSent,   \* LDFL frames each side put on its stream
    hostGot,
    dispSent,
    dispGot

negVars == <<request, display, neg, disp, hostSent, hostGot, dispSent, dispGot>>
vars == <<pairVars, negVars>>

None == [type |-> "none"]
Frame(type, seq, body) == [type |-> type, seq |-> seq, body |-> body]

----------------------------------------------------------------------------
(***************************************************************************)
(* What the two ends offer, and what the host makes of it.                 *)
(***************************************************************************)
MinOf(a, b) == IF a <= b THEN a ELSE b
AbsDiff(a, b) == IF a <= b THEN b - a ELSE a - b

\* HostHandshake::with_nonce.
HostHello == [role |-> "host", low |-> 1, high |-> 1]
HostCapabilities ==
    [limits |-> [width |-> request.width, height |-> request.height,
                 refresh |-> request.hz * 1000, bitrate |-> 40000],
     codecs |-> {"H264"}]

\* beginHandshake.
DisplayHello == [role |-> "display", low |-> 1, high |-> 1]
DisplayCapabilities == [limits |-> display.limits, codecs |-> display.codecs]

\* negotiate.
Negotiable(hello, caps) ==
    /\ hello.role # "host"
    /\ hello.low <= 1 /\ 1 <= hello.high
    /\ caps.codecs \cap {"H264"} # {}

\* Mutant: the host's own limits are taken for agreed.
AgreedOurs(a, b) == a

Agreed(a, b) == [f \in DOMAIN a |-> MinOf(a[f], b[f])]

\* Mutant: of two modes that keep the shape the smaller one wins.
CloserSmaller(a, b, req) ==
    LET delta(m) == AbsDiff(m[1] * req.height, req.width * m[2])
        left == delta(a) * b[2]
        right == delta(b) * a[2]
    IN  left < right \/ (left = right /\ a[1] * a[2] < b[1] * b[2])

\* compare_mode_fit: the relative error of the aspect ratio, then the area.
Closer(a, b, req) ==
    LET delta(m) == AbsDiff(m[1] * req.height, req.width * m[2])
        left == delta(a) * b[2]
        right == delta(b) * a[2]
    IN  left < right \/ (left = right /\ a[1] * a[2] > b[1] * b[2])

Fitting(req, max) ==
    {m \in ToSet(Modes) :
        /\ (m[1] >= m[2]) <=> (req.width >= req.height)
        /\ m[1] <= MinOf(req.width, max.width)
        /\ m[2] <= MinOf(req.height, max.height)}

\* select_bounded_display_dimensions, as the set of possible answers.
Dimensions(req, max) ==
    IF req.width <= max.width /\ req.height <= max.height
    THEN {<<req.width, req.height>>}
    ELSE {m \in Fitting(req, max) : \A o \in Fitting(req, max) : ~Closer(o, m, req)}

\* The refresh rate of select_display_config, 0 for its error.
Refresh(req, max) ==
    IF max.refresh >= req.hz * 1000 THEN req.hz * 1000
    ELSE IF req.hz = 60 /\ max.refresh >= 30000 THEN 30000 ELSE 0

\* target_h264_bitrate; a unit of area is a hundred pixels.
TargetBitrate(w, h, refresh) ==
    LET estimate == (w * h * (refresh \div 1000) * 12) \div 1000
    IN  IF estimate < 4000 THEN 4000 ELSE MinOf(estimate, 40000)

\* select_display_config, as the set of possible answers: empty is its error.
SelectConfig(req, max) ==
    {[width |-> m[1], height |-> m[2], refresh |-> Refresh(req, max),
      bitrate |-> MinOf(TargetBitrate(m[1], m[2], Refresh(req, max)), max.bitrate)]
        : m \in {d \in Dimensions(req, max) : Refresh(req, max) # 0}}

----------------------------------------------------------------------------
NoHandshake == [pc |-> "idle", todo |-> <<>>, hello |-> None, caps |-> None,
                highest |-> -1, config |-> None, next |-> 3, produced |-> 0, video |-> <<>>, presented |-> 0]

(***************************************************************************)
(* The display's pictures, by sequence: those that wait for a surface, and *)
(* whether a keyframe must come first; the last one released to the        *)
(* surface, and how many were; how many were lost and counted, and how     *)
(* many were lost and left out of the count, which no variable of the code *)
(* knows.                                                                  *)
(***************************************************************************)
NoPictures == [ready |-> FALSE, stalled |-> TRUE, waiting |-> {},
               released |-> 0, shown |-> 0, dropped |-> 0, uncounted |-> 0]

NoSession == [on |-> FALSE, hello |-> None, caps |-> None, negotiated |-> FALSE,
              failed |-> FALSE, config |-> None, highest |-> -1, refused |-> "none",
              pics |-> NoPictures]

Init ==
    /\ PairInit
    /\ request \in Requests
    /\ display \in Displays
    /\ neg = NoHandshake
    /\ disp = NoSession
    /\ hostSent = <<>> /\ hostGot = <<>>
    /\ dispSent = <<>> /\ dispGot = <<>>

\* Pairing goes on beside an idle negotiation.
Pairs == PairNext /\ UNCHANGED negVars

wireVars == <<attempts, token, valid, failed, expired, stopped, timed, request, display>>

----------------------------------------------------------------------------
(***************************************************************************)
(* The host: negotiate_host_transport and the session behind it.  Every    *)
(* error drops the transport.                                              *)
(***************************************************************************)
\* The user presses Start; initial_packets.
Start ==
    /\ host.pc = "paired" /\ neg.pc = "idle"
    /\ host' = [host EXCEPT !.pc = "session"]
    /\ neg' = [NoHandshake EXCEPT !.pc = "send",
            !.todo = <<Frame("Hello", 0, HostHello), Frame("Capabilities", 1, HostCapabilities)>>]
    /\ UNCHANGED <<wireVars, conns, server, disp, hostSent, hostGot, dispSent, dispGot>>

Drop ==
    /\ host' = [host EXCEPT !.pc = "over"]
    /\ neg' = [neg EXCEPT !.pc = "failed"]
    /\ conns' = [conns EXCEPT ![host.conn].hostOpen = FALSE]

\* try_send answers Full otherwise.
HasRoom(n) == Len(conns[n].toDisplay) < Capacity

\* send_reliable_control: a full queue is tried again until the deadline.
HostSends ==
    LET n == host.conn
        f == Head(neg.todo)
    IN  /\ neg.pc \in {"send", "config"}
        /\ HasRoom(n)
        /\ conns' = [conns EXCEPT ![n].toDisplay = Append(@, f)]
        /\ hostSent' = Append(hostSent, f)
        /\ neg' = [neg EXCEPT !.todo = Tail(@),
               !.pc = IF Len(neg.todo) > 1 THEN @ ELSE IF @ = "send" THEN "wait" ELSE "prepare"]
        /\ UNCHANGED <<wireVars, host, server, disp, hostGot, dispSent, dispGot>>

\* accept establishes once it has both.
Establishes(hs) == hs.hello # None /\ hs.caps # None

\* HostHandshake::accept and establish.
HostAccepts ==
    LET n == host.conn
        f == Head(conns[n].toHost)
        hs == [neg EXCEPT !.highest = f.seq,
                   !.hello = IF f.type = "Hello" THEN f.body ELSE @,
                   !.caps = IF f.type = "Capabilities" THEN f.body ELSE @]
        agreed == Agreed(HostCapabilities.limits, hs.caps.limits)
    IN  /\ neg.pc = "wait" /\ conns[n].toHost # <<>>
        /\ hostGot' = Append(hostGot, f)
        /\ \/ /\ \/ f.seq <= neg.highest
                 \/ f.type = "Hello" /\ neg.hello # None
                 \/ f.type = "Capabilities" /\ neg.caps # None
                 \/ f.type \notin {"Hello", "Capabilities"}
                 \/ Establishes(hs) /\ ~Negotiable(hs.hello, hs.caps)
                 \/ Establishes(hs) /\ SelectConfig(request, agreed) = {}
              /\ Drop
           \/ /\ f.seq > neg.highest
              /\ \/ f.type = "Hello" /\ neg.hello = None
                 \/ f.type = "Capabilities" /\ neg.caps = None
              /\ conns' = [conns EXCEPT ![n].toHost = Tail(@)]
              /\ IF ~Establishes(hs) THEN neg' = hs
                 ELSE /\ Negotiable(hs.hello, hs.caps)
                      /\ \E c \in SelectConfig(request, agreed) :
                           neg' = [hs EXCEPT !.pc = "config", !.config = c,
                                      !.todo = <<Frame("DisplayConfig", 2, c)>>]
              /\ host' = host
        /\ UNCHANGED <<wireVars, server, disp, hostSent, dispSent, dispGot>>

\* Mutant: the wait has no deadline.
CheckWaitForever == ~conns[host.conn].displayOpen

\* check_wait, a deadline or a cancel, and an error of the transport: all of
\* them can come at any time.
CheckWait == TRUE

NegotiationFails ==
    /\ neg.pc \in {"send", "wait", "config"}
    /\ CheckWait
    /\ Drop
    /\ UNCHANGED <<wireVars, server, disp, hostSent, hostGot, dispSent, dispGot>>

\* integer_refresh_hz.
IntegerHz(millihertz) == millihertz % 1000 = 0

\* negotiated_runtime_parameters, then start_negotiated_capture_stream and
\* NativeInputController::new, which may fail.
StartStream ==
    /\ neg.pc = "prepare"
    /\ \/ /\ IntegerHz(neg.config.refresh)
          /\ neg' = [neg EXCEPT !.pc = "active"]
          /\ UNCHANGED <<host, conns>>
       \/ Drop
    /\ UNCHANGED <<wireVars, server, disp, hostSent, hostGot, dispSent, dispGot>>

\* A frame with the session's next sequence goes out.
Out(f) ==
    /\ HasRoom(host.conn)
    /\ hostSent' = Append(hostSent, f)

\* sent_video_ordinals forgets all but the latest.
Remembered(s) == SubSeq(s, IF Len(s) > History THEN Len(s) - History + 1 ELSE 1, Len(s))

\* send_usb_h264_access_unit; a full queue fails the session (SessionEnds).
HostStreams ==
    LET f == Frame("VideoFrame", neg.next, neg.config)
    IN  /\ neg.pc = "active" /\ neg.next < 3 + MaxVideo
        /\ Out(f)
        /\ conns' = [conns EXCEPT ![host.conn].toDisplay = Append(@, f)]
        /\ neg' = [neg EXCEPT !.next = @ + 1, !.produced = @ + 1,
                      !.video = Remembered(Append(@, <<f.seq, neg.produced + 1>>))]
        /\ UNCHANGED <<wireVars, host, server, disp, hostGot, dispSent, dispGot>>

\* apply_usb_telemetry: the ordinal of the frame the display names, less all
\* it has dropped, is shown as presented.
Telemetry(n, body) ==
    LET ordinals == {p[2] : p \in {q \in ToSet(n.video) : q[1] = body.frame}}
    IN  [n EXCEPT !.presented =
            IF ordinals = {} THEN @
            ELSE LET k == CHOOSE k \in ordinals : TRUE
                 IN  IF k > body.dropped THEN k - body.dropped ELSE 0]

\* handle_usb_control.  A Ping is answered with the next sequence, which waits
\* for room up to a deadline; Error, a stale sequence and whatever does not
\* belong here end the session.
HostHears ==
    LET n == host.conn
        f == Head(conns[n].toHost)
        heard == [neg EXCEPT !.highest = f.seq]
        pong == Frame("Pong", neg.next, None)
    IN  /\ neg.pc = "active" /\ conns[n].toHost # <<>>
        /\ hostGot' = Append(hostGot, f)
        /\ \/ /\ f.type = "Ping" /\ f.seq > neg.highest
              /\ Out(pong)
              /\ neg' = [heard EXCEPT !.next = @ + 1]
              /\ conns' = [conns EXCEPT ![n].toHost = Tail(@), ![n].toDisplay = Append(@, pong)]
              /\ host' = host
           \/ /\ f.type = "Telemetry" /\ f.seq > neg.highest
              /\ neg' = Telemetry(heard, f.body)
              /\ conns' = [conns EXCEPT ![n].toHost = Tail(@)]
              /\ UNCHANGED <<host, hostSent>>
           \/ /\ \/ f.type \notin {"Ping", "Telemetry"} \/ f.seq <= neg.highest
                 \/ f.type = "Ping" /\ ~HasRoom(n)
              /\ Drop
              /\ UNCHANGED hostSent
        /\ UNCHANGED <<wireVars, server, disp, dispSent, dispGot>>

\* The user stops, the capture fails, or the link is gone.
SessionEnds ==
    /\ neg.pc = "active"
    /\ Drop
    /\ UNCHANGED <<wireVars, server, disp, hostSent, hostGot, dispSent, dispGot>>

----------------------------------------------------------------------------
(***************************************************************************)
(* The display: AndroidDisplaySession on the authenticated socket.         *)
(***************************************************************************)
(***************************************************************************)
(* activateAuthenticatedSocket up to its yield: TetherConnected is         *)
(* published, and beginHandshake queues two frames on the idle I/O         *)
(* session.  One step: the transport, the selector behind it and the       *)
(* session share Dispatchers.Main.immediate, so a state that one of them   *)
(* sets is collected by the next on the same thread, in place.             *)
(***************************************************************************)
BeginHandshake ==
    /\ server.pc = "posted" /\ ~stopped
    /\ server' = [server EXCEPT !.pc = "begun"]
    /\ disp' = [NoSession EXCEPT !.on = TRUE]
    /\ UNCHANGED <<wireVars, conns, host, neg, hostSent, hostGot, dispSent, dispGot>>

\* Behind the yield, unless a stop came in between: the session starts to
\* read, and to write what is queued.
Activate ==
    LET hello == <<Frame("Hello", 0, DisplayHello), Frame("Capabilities", 1, DisplayCapabilities)>>
    IN  /\ server.pc = "begun"
        /\ server' = [server EXCEPT !.pc = "active"]
        /\ dispSent' = hello
        /\ conns' = [conns EXCEPT ![server.conn].toHost = @ \o hello]
        /\ UNCHANGED <<wireVars, host, neg, disp, hostSent, hostGot, dispGot>>

\* rejectProtocol, with the Error frame.
Reject(why) ==
    /\ disp' = [disp EXCEPT !.config = None, !.negotiated = FALSE, !.failed = TRUE,
                            !.refused = why, !.highest = Head(conns[server.conn].toDisplay).seq,
                            !.pics = [@ EXCEPT !.ready = FALSE, !.waiting = {}]]
    /\ dispSent' = Append(dispSent, Frame("Error", Len(dispSent), why))
    /\ conns' = [conns EXCEPT ![server.conn].toDisplay = Tail(@),
                              ![server.conn].toHost = Append(@, Frame("Error", Len(dispSent), why))]

Accepts(d) ==
    /\ disp' = [d EXCEPT !.highest = Head(conns[server.conn].toDisplay).seq]
    /\ conns' = [conns EXCEPT ![server.conn].toDisplay = Tail(@)]
    /\ dispSent' = dispSent

\* handleRemoteHello, handleRemoteCapabilities and finishNegotiationIfReady.
OnHello(f) ==
    IF f.seq # 0 \/ disp.hello # None \/ disp.caps # None THEN Reject("order")
    ELSE IF f.body.role # "host" \/ ~(f.body.low <= 1 /\ 1 <= f.body.high) THEN Reject("version")
    ELSE Accepts([disp EXCEPT !.hello = f.body])

OnCapabilities(f) ==
    IF f.seq # 1 \/ disp.hello = None \/ disp.caps # None THEN Reject("order")
    ELSE IF "H264" \notin display.codecs \cap f.body.codecs THEN Reject("codec")
    ELSE Accepts([disp EXCEPT !.caps = f.body, !.negotiated = TRUE])

\* handleDisplayConfiguration.
OnDisplayConfig(f) ==
    LET max == Agreed(display.limits, disp.caps.limits)
    IN  IF ~disp.negotiated THEN Reject("order")
        ELSE IF disp.config = None /\ f.seq # 2 THEN Reject("order")
        ELSE IF \E l \in DOMAIN max : f.body[l] > max[l] THEN Reject("limits")
        ELSE IF display.picky THEN Reject("decoder")
        ELSE Accepts([disp EXCEPT !.config = f.body])

(***************************************************************************)
(* decoder.submit and what becomes of the frames T it takes, decided here  *)
(* at once: the codec gives some of them to the surface, in the order of   *)
(* the stream; the others are dropped, and are counted or, with nothing    *)
(* but parameter sets in them or behind an exception, are not.             *)
(***************************************************************************)
Decoded(p, T) ==
    {[p EXCEPT !.released = o.last, !.shown = @ + Cardinality(o.out),
               !.dropped = @ + Cardinality(o.counted),
               !.uncounted = @ + Cardinality(T \ (o.out \cup o.counted))]
        : o \in {u \in [out : SUBSET T, counted : SUBSET T, last : T \cup {p.released}] :
                    /\ u.out \cap u.counted = {}
                    /\ IF u.out = {} THEN u.last = p.released
                       ELSE u.last \in u.out /\ \A x \in u.out : x <= u.last}}

\* enqueueUntilSurfaceReady, for a keyframe and for any other.
Enqueued(p, x) ==
    LET n == Cardinality(p.waiting)
    IN  {[p EXCEPT !.waiting = {x}, !.stalled = FALSE, !.dropped = @ + n],
         IF p.stalled THEN [p EXCEPT !.dropped = @ + 1]
         ELSE IF n >= SurfaceQueue
              THEN [p EXCEPT !.waiting = {}, !.stalled = TRUE, !.dropped = @ + n + 1]
              ELSE [p EXCEPT !.waiting = @ \cup {x}]}

\* handleMediaFrame.
OnVideoFrame(f) ==
    IF disp.config = None THEN Reject("order")
    ELSE \E p \in IF disp.pics.ready THEN Decoded(disp.pics, {f.seq})
                                     ELSE Enqueued(disp.pics, f.seq) :
            Accepts([disp EXCEPT !.pics = p])

\* ifActive, for a frame that changes nothing.
OnPong == IF disp.config = None THEN Reject("order") ELSE Accepts(disp)

\* handleInboundFrame: the sequence first, then nothing more once failed.
DisplayReads ==
    LET f == Head(conns[server.conn].toDisplay)
    IN  /\ server.pc = "active" /\ conns[server.conn].toDisplay # <<>>
        /\ conns[server.conn].displayOpen
        /\ dispGot' = Append(dispGot, f)
        /\ IF f.seq <= disp.highest THEN Reject("order")
           ELSE IF disp.failed THEN Accepts(disp)
           ELSE CASE f.type = "Hello"         -> OnHello(f)
                  [] f.type = "Capabilities"  -> OnCapabilities(f)
                  [] f.type = "DisplayConfig" -> OnDisplayConfig(f)
                  [] f.type = "VideoFrame"    -> OnVideoFrame(f)
                  [] f.type = "Pong"          -> OnPong
                  [] OTHER                    -> Reject("unexpected")
        /\ UNCHANGED <<wireVars, host, server, neg, hostSent, hostGot>>

\* drainPendingSurfaceFrames: one that is refused is counted, those behind it
\* are cleared.
Drained(p) ==
    LET q == [p EXCEPT !.ready = TRUE, !.waiting = {}]
    IN  Decoded(q, p.waiting) \cup
        UNION {Decoded([q EXCEPT !.stalled = TRUE, !.dropped = @ + 1,
                                 !.uncounted = @ + Cardinality({y \in p.waiting : y > x})],
                       {y \in p.waiting : y < x}) : x \in p.waiting}

\* handleDecoderState.  A decoder that has failed for good ends the session
\* here, and nobody tells the host.
DecoderChanges ==
    /\ server.pc = "active" /\ disp.config # None
    /\ \/ \E p \in Drained(disp.pics) : disp' = [disp EXCEPT !.pics = p]
       \/ \E b \in {disp.failed, TRUE} :
             disp' = [disp EXCEPT !.failed = b, !.pics = [@ EXCEPT !.ready = FALSE]]
    /\ UNCHANGED <<wireVars, conns, host, server, neg, hostSent, hostGot, dispSent, dispGot>>

\* pingLoop and sendTelemetryNow.
DisplayReports ==
    /\ server.pc = "active" /\ conns[server.conn].displayOpen
    /\ disp.negotiated /\ ~disp.failed /\ disp.config # None
    /\ Len(dispSent) < 2 + MaxReports
    /\ \E f \in {Frame("Ping", Len(dispSent), None),
                 Frame("Telemetry", Len(dispSent),
                       [frame |-> disp.pics.released, dropped |-> disp.pics.dropped])} :
         /\ dispSent' = Append(dispSent, f)
         /\ conns' = [conns EXCEPT ![server.conn].toHost = Append(@, f)]
    /\ UNCHANGED <<wireVars, host, server, neg, disp, hostSent, hostGot, dispGot>>

\* UsbIoSession fails: the end of the stream, which may overtake data.
DisplayReadEnds ==
    /\ server.pc = "active" /\ ~conns[server.conn].hostOpen
    /\ server' = [server EXCEPT !.pc = "Failed"]
    /\ disp' = [disp EXCEPT !.on = FALSE]
    /\ conns' = Closing(server.conn)
    /\ UNCHANGED <<wireVars, host, neg, hostSent, hostGot, dispSent, dispGot>>

\* stopPairingAndSession: a new generation, the listener, its pending socket
\* and the active session closed, the token void.
StopDisplay ==
    /\ ~stopped
    /\ stopped' = TRUE
    /\ valid' = FALSE
    /\ LET mine == IF server.pc \in {"hello", "finish", "begun", "active"} THEN {server.conn} ELSE {}
       IN  conns' = [n \in DOMAIN conns |->
               IF n \in mine \cup Backlog
               THEN [conns[n] EXCEPT !.queued = FALSE, !.displayOpen = FALSE] ELSE conns[n]]
    /\ IF server.pc \in {"begun", "active"}
       THEN server' = [server EXCEPT !.pc = "Closed"] ELSE server' = server
    /\ disp' = [disp EXCEPT !.on = FALSE]
    /\ UNCHANGED <<attempts, host, token, failed, expired, timed>>
    /\ UNCHANGED <<request, display, neg, hostSent, hostGot, dispSent, dispGot>>

\* The cable is pulled: the host's worker fails, the display's read will.
Unplug ==
    /\ host.conn # 0 /\ conns[host.conn].hostOpen /\ conns[host.conn].displayOpen
    /\ host.pc \in {"paired", "session"}
    /\ host' = [host EXCEPT !.pc = "over"]
    /\ neg' = [neg EXCEPT !.pc = IF @ = "idle" THEN @ ELSE "failed"]
    /\ conns' = [conns EXCEPT ![host.conn].hostOpen = FALSE]
    /\ UNCHANGED <<wireVars, server, disp, hostSent, hostGot, dispSent, dispGot>>

----------------------------------------------------------------------------
Next ==
    \/ Pairs
    \/ Start \/ HostSends \/ HostAccepts \/ NegotiationFails \/ StartStream
    \/ HostStreams \/ HostHears \/ SessionEnds
    \/ BeginHandshake \/ Activate \/ DisplayReads \/ DecoderChanges
    \/ DisplayReports \/ DisplayReadEnds
    \/ StopDisplay \/ Unplug

Spec == Init /\ [][Next]_vars

(***************************************************************************)
(* Fairness: both programs run, the timeouts of both pairing ends and of   *)
(* the negotiation fire, the two minutes end.  The user owes nothing.      *)
(***************************************************************************)
PairStep(A) == A /\ UNCHANGED negVars

Fairness ==
    /\ WF_vars(PairStep(HostReadsHello)) /\ WF_vars(PairStep(HostReadsFinished))
    /\ WF_vars(PairStep(HostReadFails)) /\ WF_vars(PairStep(ServerReadFails))
    /\ WF_vars(PairStep(LoopHead)) /\ WF_vars(PairStep(Accept)) /\ WF_vars(PairStep(AcceptClosed))
    /\ WF_vars(PairStep(Expire)) /\ WF_vars(PairStep(OnIoThread))
    /\ WF_vars(NegotiationFails) /\ WF_vars(StartStream) /\ WF_vars(HostHears)
    /\ WF_vars(BeginHandshake) /\ WF_vars(Activate) /\ WF_vars(DisplayReads) /\ WF_vars(DisplayReadEnds)

LiveSpec == Spec /\ Fairness

----------------------------------------------------------------------------
Serving == {"head", "accept", "hello", "finish"}
Paired == host.pc \in {"paired", "session"}

(***************************************************************************)
(* Pairing succeeds exactly for the code this display shows.  A host that  *)
(* reports success holds that very code, and the display has accepted it   *)
(* on the same socket, with the same two nonces; and a code typed as shown *)
(* is never refused: converting the token to symbols and back, and both    *)
(* ends' tags, agree.                                                      *)
(***************************************************************************)
PairingIsExact ==
    /\ Paired => /\ host.right /\ host.key = token
                 /\ server.conn = host.conn /\ server.hn = host.conn
                 /\ server.pc \notin Serving
    /\ host.refused => ~host.right

(***************************************************************************)
(* Pairing leaves the stream where LDFL begins: what each side has read is *)
(* a prefix of what the other wrote, from its Hello on, and the deadline   *)
(* of the handshake no longer runs on a socket that waits for Start.       *)
(***************************************************************************)
HandoverIsExact ==
    /\ Paired => "Host" \notin timed
    /\ hostGot = <<>> \/ IsPrefix(hostGot, dispSent)
    /\ dispGot = <<>> \/ IsPrefix(dispGot, hostSent)
    /\ host.pc = "session" /\ server.pc = "active" =>
          /\ dispSent = hostGot \o conns[host.conn].toHost
          /\ hostSent = dispGot \o conns[host.conn].toDisplay

(***************************************************************************)
(* The host's configuration stays within both ends' limits; the request is *)
(* kept where it fits, and a smaller mode has the requested shape whenever *)
(* one of that shape fits, as large as possible.                           *)
(***************************************************************************)
ConfigFits ==
    LET c == neg.config
        max == Agreed(HostCapabilities.limits, display.limits)
        exact == {m \in Fitting(request, max) : m[1] * request.height = request.width * m[2]}
    IN  c # None =>
        /\ \A l \in DOMAIN max : c[l] <= max[l]
        /\ request.width <= max.width /\ request.height <= max.height =>
              c.width = request.width /\ c.height = request.height
        /\ exact # {} /\ ~(request.width <= max.width /\ request.height <= max.height) =>
              /\ <<c.width, c.height>> \in exact
              /\ \A m \in exact : m[1] <= c.width

(***************************************************************************)
(* The host never gives the display a reason to refuse it, neither by the  *)
(* order in which it queues frames nor by what they ask for.  Only the     *)
(* decoder, which no capability describes, may still say no.  And the host *)
(* shows no more frames as presented than the display has shown and lost   *)
(* without counting: pongs that take sequences between the frames, late    *)
(* telemetry, and frames dropped while they wait for a surface or in the   *)
(* decoder add nothing to it.                                              *)
(***************************************************************************)
NeverOutOfTurn ==
    /\ disp.refused \in {"none", "decoder"}
    /\ neg.presented <= disp.pics.shown + disp.pics.uncounted

(***************************************************************************)
(* Nobody waits forever: a pairing call and a negotiation return, the      *)
(* listener closes, a host that streams to a display that has refused it   *)
(* learns of it and stops, and a display whose host is gone notices.       *)
(***************************************************************************)
EveryWaitEnds ==
    /\ \A p \in {"hello", "finished"} : host.pc = p ~> host.pc # p
    /\ \A p \in {"send", "wait", "config", "prepare"} : neg.pc = p ~> neg.pc # p
    /\ <>(server.pc \notin Serving)
    /\ disp.refused # "none" /\ neg.pc = "active" ~> neg.pc # "active"
    /\ server.pc = "active" /\ ~conns[server.conn].hostOpen ~> server.pc # "active"
=============================================================================
