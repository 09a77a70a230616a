---------------------------- MODULE CaptureProbe ----------------------------
(***************************************************************************)
(* The diagnostics worker of platform/windows.rs: the one CaptureWorker    *)
(* thread behind capture_worker(), its start-up encode test over every     *)
(* hardware encoder (windows/media_foundation.rs), the 750 ms capture      *)
(* probe, and the callers that query it through a bounded queue with a     *)
(* deadline on each answer.                                                *)
(*                                                                         *)
(* A deadline may pass at any time.  An encoder is external: it asks for   *)
(* input, keeps the samples, produces one output for each, which may turn  *)
(* out to have no sample or no bytes, and reports the end of a drain once  *)
(* it holds none; any of its calls may fail.                               *)
(***************************************************************************)
EXTENDS Integers, Sequences, FiniteSets

CONSTANTS
    Callers,        \* threads that call collect_status or probe_screen_capture
    NoOne,
    QueueLen,       \* the sync_channel of CaptureWorker::spawn
    Encoders,       \* most hardware encoders MFTEnumEx returns
    Frames,         \* PROBE_FRAME_COUNT
    MaxCalls,       \* bound: commands a caller sends
    MaxArrivals     \* bound: frame callbacks of one probe

ASSUME ProbeAssumption ==
    /\ NoOne \notin Callers
    /\ {QueueLen, Encoders, Frames, MaxCalls, MaxArrivals} \subseteq Nat \ {0}

VARIABLES
    once,           \* the OnceLock: "empty", "running", "ok" or "err"
    spawner,        \* the caller inside get_or_init, or NoOne
    ready,          \* the worker's first message: "none", "ok" or "err"
    pc,             \* where each caller is
    kind,           \* the command it wants answered
    call,           \* the number of its latest command: its reply channel
    answer,         \* what lies in that channel, or "none"
    queue,          \* commands on their way to the worker
    wpc,            \* where the worker is
    com,            \* runtimes it must shut down: "winrt", "mf"
    cmd,            \* the command it executes
    diag,           \* EncoderDiagnostics.encode_probe: "none", "ok", "err"
    left,           \* activations not tried yet
    active,         \* activations whose object has not been shut down
    async,          \* the encoder under test is asynchronous
    outcome,        \* result of the encode under test
    sent,           \* frames_submitted
    draining,
    units,          \* access_units
    empty,          \* outputs taken that had no sample or no bytes
    held,           \* samples inside the encoder
    events,         \* its event queue
    open,           \* WinRT objects of the capture probe
    seen            \* ProbeCounters

callerVars == <<once, spawner, pc, kind, call>>
encoderVars == <<left, active, async, outcome, sent, draining, units, empty, held, events>>
probeVars == <<open, seen>>
vars == <<callerVars, ready, answer, queue, wpc, com, cmd, diag, encoderVars, probeVars>>

NoCommand == [from |-> NoOne, call |-> 0, kind |-> "none"]

NoFrames == [callbacks |-> 0, surfaces |-> 0, incomplete |-> 0]

Init ==
    /\ once = "empty" /\ spawner = NoOne /\ ready = "none"
    /\ pc = [c \in Callers |-> "idle"] /\ kind = [c \in Callers |-> "none"]
    /\ call = [c \in Callers |-> 0] /\ answer = [c \in Callers |-> "none"]
    /\ queue = <<>> /\ wpc = "none" /\ com = {} /\ cmd = NoCommand /\ diag = "none"
    /\ left = 0 /\ active = {} /\ async = FALSE /\ outcome = "ok"
    /\ sent = 0 /\ draining = FALSE /\ units = 0 /\ empty = 0 /\ held = 0 /\ events = <<>>
    /\ open = {} /\ seen = NoFrames

-----------------------------------------------------------------------------
(* The callers. *)

Goes(c, where, what) == pc' = [pc EXCEPT ![c] = where] /\ kind' = [kind EXCEPT ![c] = what]

\* collect_status starts with the support query; probe_screen_capture has
\* the one command.
Ask(c) ==
    /\ pc[c] = "idle" /\ call[c] < MaxCalls
    /\ \E k \in {"support", "probe"} : Goes(c, "once", k)
    /\ UNCHANGED <<once, spawner, ready, call, answer, queue, wpc, com, cmd, diag,
                   encoderVars, probeVars>>

\* The rest of collect_status: a failed or answered support query is
\* followed by the encoder query, whatever the answer was.
Proceed(c) ==
    IF kind[c] = "support" THEN Goes(c, "once", "encoders") ELSE Goes(c, "idle", "none")

\* capture_worker, CaptureWorker::spawn up to the thread.
Spawn(c) ==
    /\ pc[c] = "once" /\ once = "empty"
    /\ \/ once' = "running" /\ spawner' = c /\ wpc' = "apartment"
       \/ once' = "err" /\ UNCHANGED <<spawner, wpc>>
    /\ UNCHANGED <<pc, kind, call, ready, answer, queue, com, cmd, diag, encoderVars, probeVars>>

\* ready_receiver.recv_timeout: the answer, or the deadline.
SpawnEnds ==
    /\ once = "running"
    /\ once' = IF ready = "none" THEN "err" ELSE ready
    /\ spawner' = NoOne
    /\ UNCHANGED <<pc, kind, call, ready, answer, queue, wpc, com, cmd, diag,
                   encoderVars, probeVars>>

\* The OnceLock holds its value: a worker, or the first error for good.
HasWorker(c) ==
    /\ pc[c] = "once" /\ once \in {"ok", "err"}
    /\ IF once = "ok" THEN Goes(c, "send", kind[c]) ELSE Proceed(c)
    /\ UNCHANGED <<once, spawner, call, ready, answer, queue, wpc, com, cmd, diag,
                   encoderVars, probeVars>>

\* SyncSender::send waits while the queue is full.
Send(c) ==
    /\ pc[c] = "send" /\ Len(queue) < QueueLen
    /\ call' = [call EXCEPT ![c] = @ + 1]
    /\ queue' = Append(queue, [from |-> c, call |-> call[c] + 1, kind |-> kind[c]])
    /\ Goes(c, "wait", kind[c])
    /\ UNCHANGED <<once, spawner, ready, answer, wpc, com, cmd, diag, encoderVars, probeVars>>

\* receiver.recv_timeout returns the answer or gives up; the channel of
\* this command is gone either way.
Receive(c) ==
    /\ pc[c] = "wait"
    /\ Proceed(c) /\ answer' = [answer EXCEPT ![c] = "none"]
    /\ UNCHANGED <<once, spawner, call, ready, queue, wpc, com, cmd, diag,
                   encoderVars, probeVars>>

Caller(c) == Ask(c) \/ Spawn(c) \/ HasWorker(c) \/ Send(c) \/ Receive(c)

-----------------------------------------------------------------------------
(* The worker thread starts. *)

Apartment ==
    /\ wpc = "apartment"
    /\ \/ ready' = "ok" /\ wpc' = "startup" /\ \E own \in BOOLEAN : com' = IF own THEN {"winrt"} ELSE {}
       \/ ready' = "err" /\ wpc' = "gone" /\ UNCHANGED com
    /\ UNCHANGED <<callerVars, answer, queue, cmd, diag, encoderVars, probeVars>>

\* MFStartup, hardware_h264_encoders, and the activations of
\* encode_synthetic_h264.
Startup ==
    /\ wpc = "startup"
    /\ \E mf \in BOOLEAN, n \in 0 .. Encoders :
        /\ com' = IF mf THEN com \cup {"mf"} ELSE com
        /\ left' = IF mf THEN n ELSE 0
        /\ IF left' = 0 THEN wpc' = "serve" /\ diag' = "err"
                        ELSE wpc' = "activate" /\ UNCHANGED diag
    /\ UNCHANGED <<callerVars, ready, answer, queue, cmd, active, async, outcome, sent,
                   draining, units, empty, held, events, probeVars>>

-----------------------------------------------------------------------------
(* The encode test of one activation. *)

EncodeEnds(r) == wpc' = "shutdown" /\ outcome' = r

workerOnly == <<callerVars, ready, answer, queue, com, cmd, diag, probeVars>>

\* encode_activation up to START_OF_STREAM.  A failing step still leaves
\* the activated object to be shut down.
Activate ==
    /\ wpc = "activate"
    /\ \/ EncodeEnds("err") /\ UNCHANGED active
       \/ EncodeEnds("err") /\ active' = active \cup {left}
       \/ wpc' = "encode" /\ active' = active \cup {left} /\ UNCHANGED outcome
    /\ async' \in BOOLEAN
    /\ events' = IF async' THEN <<"need">> ELSE <<>>
    /\ UNCHANGED <<left, sent, draining, units, empty, held, workerOnly>>

\* Mutant: the last frame is not sent.
MoreToSendEarly == sent + 1 < Frames
MoreToSend == sent < Frames

\* METransformNeedInput: a frame while there are any, then one drain.
NeedInput ==
    /\ wpc = "encode" /\ async /\ events # <<>> /\ Head(events) = "need"
    /\ events' = Tail(events)
    /\ IF MoreToSend THEN sent' = sent + 1 /\ held' = held + 1 /\ UNCHANGED draining
                     ELSE draining' = TRUE /\ UNCHANGED <<sent, held>>
    /\ UNCHANGED <<wpc, left, active, async, outcome, units, empty, workerOnly>>

\* n outputs are taken, some of them without a sample or without bytes.
Taken(n) == \E full \in 0 .. n : units' = units + full /\ empty' = empty + n - full

\* METransformHaveOutput: take_output gives an output, or has the event sent
\* again after renegotiating the output type.
HaveOutput ==
    /\ wpc = "encode" /\ async /\ events # <<>> /\ Head(events) = "have"
    /\ \/ events' = Tail(events) /\ Taken(1)
       \/ events' = Append(Tail(events), "have") /\ UNCHANGED <<units, empty>>
    /\ UNCHANGED <<wpc, left, active, async, outcome, sent, draining, held, workerOnly>>

DrainComplete ==
    /\ wpc = "encode" /\ async /\ events # <<>> /\ Head(events) = "drained"
    /\ EncodeEnds("ok")
    /\ UNCHANGED <<left, active, async, sent, draining, units, empty, held, events, workerOnly>>

\* A call of the encoder fails.
EncodeFails ==
    /\ wpc = "encode" /\ EncodeEnds("err")
    /\ UNCHANGED <<left, active, async, sent, draining, units, empty, held, events, workerOnly>>

\* Mutant: the wait for an asynchronous encoder's events has no deadline.
EncodeTimesOutSync ==
    /\ wpc = "encode" /\ ~async /\ MoreToSend /\ EncodeEnds("err")
    /\ UNCHANGED <<left, active, async, sent, draining, units, empty, held, events, workerOnly>>

\* PROBE_TIMEOUT passes before the drain is complete, or before a
\* synchronous encoder has taken every frame.
EncodeTimesOut ==
    /\ wpc = "encode" /\ (async \/ MoreToSend) /\ EncodeEnds("err")
    /\ UNCHANGED <<left, active, async, sent, draining, units, empty, held, events, workerOnly>>

\* encode_sync: after each frame the outputs that are ready are taken.
SubmitSync ==
    /\ wpc = "encode" /\ ~async /\ ~draining
    /\ IF MoreToSend
       THEN \E n \in 0 .. held + 1 :
                /\ sent' = sent + 1 /\ held' = held + 1 - n /\ Taken(n)
                /\ UNCHANGED draining
       ELSE draining' = TRUE /\ UNCHANGED <<sent, held, units, empty>>
    /\ UNCHANGED <<wpc, left, active, async, outcome, events, workerOnly>>

\* The drain of encode_sync ends when the encoder wants input, or when the
\* deadline passes: the batch counts either way.
DrainSync ==
    /\ wpc = "encode" /\ ~async /\ draining
    /\ EncodeEnds("ok")
    /\ \E n \in 0 .. held : held' = held - n /\ Taken(n)
    /\ UNCHANGED <<left, active, async, sent, draining, events, workerOnly>>

\* Mutant: a failed test moves on before the shutdown.
ShutdownObjectOnSuccess ==
    active' = IF outcome = "ok" THEN active \ {left} ELSE active

ShutdownObject == active' = active \ {left}

\* probe_hardware_h264_encode: the first batch that passes is looked at for
\* time stamps and key frames, which the units may lack.
Verification == {"ok", "err"}

\* The cleanup messages, ShutdownObject, then the next activation.  A batch
\* without a unit or a NAL unit fails this activation.
NextActivation ==
    /\ wpc = "shutdown" /\ ShutdownObject
    /\ \/ /\ outcome = "ok" /\ units > 0
          /\ wpc' = "serve" /\ diag' \in Verification /\ left' = 0
       \/ /\ left' = left - 1
          /\ IF left > 1 THEN wpc' = "activate" /\ UNCHANGED diag
                         ELSE wpc' = "serve" /\ diag' = "err"
    /\ async' = FALSE /\ outcome' = "ok" /\ sent' = 0 /\ draining' = FALSE
    /\ units' = 0 /\ empty' = 0 /\ held' = 0 /\ events' = <<>>
    /\ UNCHANGED <<callerVars, ready, answer, queue, com, cmd, probeVars>>

\* External: the encoder asks for input, produces, and ends its drain.
EncoderSays(e) ==
    /\ wpc = "encode" /\ async /\ events' = Append(events, e)
    /\ UNCHANGED <<wpc, left, active, async, outcome, sent, draining, units, empty, workerOnly>>

EncoderAsks ==
    /\ ~draining /\ "need" \notin {events[i] : i \in DOMAIN events}
    /\ EncoderSays("need") /\ UNCHANGED held

EncoderProduces == held > 0 /\ EncoderSays("have") /\ held' = held - 1

EncoderDrains ==
    /\ draining /\ held = 0 /\ events = <<>>
    /\ EncoderSays("drained") /\ UNCHANGED held

Encoding ==
    \/ Activate \/ NeedInput \/ HaveOutput \/ DrainComplete \/ EncodeTimesOut
    \/ SubmitSync \/ DrainSync \/ NextActivation

-----------------------------------------------------------------------------
(* The worker serves commands. *)

Reply(r) ==
    answer' = IF pc[cmd'.from] = "wait" /\ call[cmd'.from] = cmd'.call
              THEN [answer EXCEPT ![cmd'.from] = r] ELSE answer

Serve ==
    /\ wpc = "serve" /\ queue # <<>>
    /\ cmd' = Head(queue) /\ queue' = Tail(queue)
    /\ IF cmd'.kind = "probe" THEN wpc' = "probe" /\ UNCHANGED answer
                              ELSE Reply(cmd'.kind) /\ UNCHANGED wpc
    /\ UNCHANGED <<callerVars, ready, com, diag, encoderVars, probeVars>>

\* The senders are gone: the loop ends and the guards shut the runtimes down.
WorkerExits ==
    /\ wpc = "serve" /\ queue = <<>> /\ once = "err"
    /\ wpc' = "gone" /\ com' = {}
    /\ UNCHANGED <<callerVars, ready, answer, queue, cmd, diag, encoderVars, probeVars>>

ProbeEnds(verdict) ==
    /\ wpc' = "serve" /\ open' = {} /\ seen' = NoFrames
    /\ UNCHANGED cmd /\ Reply(verdict)

\* probe_screen_capture_on_worker up to FrameArrived: support, monitor,
\* item, device, pool and subscription.
PrepareProbe ==
    /\ wpc = "probe"
    /\ \/ ProbeEnds("failed")
       \/ wpc' = "create" /\ open' = {"pool", "handler"} /\ UNCHANGED <<cmd, answer, seen>>
    /\ UNCHANGED <<callerVars, ready, queue, com, diag, encoderVars>>

\* CreateCaptureSession and StartCapture, either of which undoes the rest.
StartProbe ==
    /\ wpc = "create"
    /\ \/ ProbeEnds("failed")
       \/ wpc' = "sleep" /\ open' = open \cup {"session"} /\ UNCHANGED <<cmd, answer, seen>>
    /\ UNCHANGED <<callerVars, ready, queue, com, diag, encoderVars>>

\* The callback: observe_frame and record_observation, under the lock.
Record(s, ok) ==
    [callbacks |-> s.callbacks + 1,
     surfaces |-> IF ok THEN s.surfaces + 1 ELSE s.surfaces,
     incomplete |-> IF ok THEN s.incomplete ELSE s.incomplete + 1]

FrameArrives ==
    /\ wpc = "sleep" /\ seen.callbacks < MaxArrivals
    /\ \E ok \in BOOLEAN : seen' = Record(seen, ok)
    /\ UNCHANGED <<callerVars, ready, answer, queue, wpc, com, cmd, diag, encoderVars, open>>

\* build_probe_report, after frames that all lacked a surface are refused.
Verdict(s) ==
    IF s.surfaces > 0 THEN "passed" ELSE IF s.incomplete > 0 THEN "failed" ELSE "blank"

\* close_capture_session, any of whose errors fails the probe.
FinishProbe ==
    /\ wpc = "sleep"
    /\ ProbeEnds("failed") \/ ProbeEnds(Verdict(seen))
    /\ UNCHANGED <<callerVars, ready, queue, com, diag, encoderVars>>

Worker ==
    \/ Apartment \/ Startup \/ Encoding \/ Serve \/ WorkerExits
    \/ PrepareProbe \/ StartProbe \/ FinishProbe

Environment == EncoderAsks \/ EncoderProduces \/ EncoderDrains \/ EncodeFails \/ FrameArrives

Next == SpawnEnds \/ Worker \/ Environment \/ \E c \in Callers : Caller(c)
Spec == Init /\ [][Next]_vars

\* Deadlines pass and threads run: the worker, the spawning caller, and
\* every caller that is inside a call.  Nothing obliges a caller to ask, an
\* encoder to answer or a screen to change.
Fairness ==
    /\ WF_vars(Worker) /\ WF_vars(EncodeTimesOut) /\ WF_vars(SpawnEnds)
    /\ \A c \in Callers : WF_vars(Spawn(c) \/ HasWorker(c) \/ Send(c) \/ Receive(c))

LiveSpec == Spec /\ Fairness

-----------------------------------------------------------------------------
(* Properties. *)

Testing == {"activate", "encode", "shutdown"}

\* A batch counts as encoded only when the encoder was given every frame of it
\* and each of them is accounted for: its output was taken, as an access unit or
\* as an empty one, or it is still inside a synchronous encoder whose drain was
\* cut off by the deadline.  An asynchronous encoder has nothing left inside:
\* the drain is complete only after its last output
\* (media_foundation.rs:778-836, 881-903).
BatchIsComplete ==
    wpc = "shutdown" /\ outcome = "ok" =>
        /\ sent = Frames /\ units + empty + held = Frames
        /\ async => held = 0

\* Hardware encoder sessions are scarce: each activation is shut down before
\* the next is tried, on every failing path, and none is left when the
\* worker starts to serve (media_foundation.rs:224-240).
OneEncoderAtATime ==
    active \subseteq {left} /\ (wpc \notin Testing => active = {})

\* collect_status and probe_screen_capture return, even when the encode test
\* keeps the worker and the command queue is full: the wait for room has no
\* deadline of its own and relies on the worker's (windows.rs:466-497).  A
\* worker whose start was reported as failed ends too, and shuts down the
\* runtimes it started (windows.rs:411-415, 434, 456-462).
CallsEnd ==
    /\ \A c \in Callers : pc[c] # "idle" ~> pc[c] = "idle"
    /\ once = "err" ~> wpc \in {"none", "gone"} /\ com = {}

=============================================================================
