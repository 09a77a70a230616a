------------------------------ MODULE Capture ------------------------------
(***************************************************************************)
(* The Windows capture and H.264 stream: CapturedH264Stream and its worker *)
(* thread (platform/windows.rs), the capture pipeline                      *)
(* (windows/capture_stream.rs), the BGRA to NV12 video processor           *)
(* (windows/video_processor.rs) and the Media Foundation encoder           *)
(* (windows/media_foundation.rs).                                          *)
(*                                                                         *)
(* Four parties run at once: the owner (the session loop), the worker, the *)
(* frame-pool callback on a system thread, and the encoder, which answers  *)
(* through events.  A frame is the pair of the size of its surface (the    *)
(* pool it came from) and of its content (the screen when it was taken);   *)
(* a time stamp is "new" for the sample submitted last and "old" for any   *)
(* other.  Time is counted in ticks; `due` is next_frame_at relative to    *)
(* now.  Every Windows call that can fail fails nondeterministically.      *)
(***************************************************************************)
EXTENDS Integers, Sequences, FiniteSets

CONSTANTS
    Sizes,          \* screen sizes the selected monitor can have
    FrameQueue,     \* CAPTURE_FRAME_QUEUE
    Buffers,        \* CAPTURE_BUFFER_COUNT
    OutQueue,       \* the sync_channel of CapturedH264Stream::start
    Interval,       \* frame_interval, in ticks
    Credits         \* bound: input requests an encoder keeps open at once

ASSUME CaptureAssumption ==
    /\ Sizes # {}
    /\ {FrameQueue, Buffers, OutQueue, Interval, Credits} \subseteq Nat \ {0}

VARIABLES
    owner,          \* "polling", "joining" (in Drop), "gone"
    cancel,
    wpc,            \* where the worker is
    result,         \* the Result the worker is carrying: "ok" or "err"
    res,            \* subscriptions and sessions the worker holds
    refused,        \* those Windows refused to give up
    screen,         \* size of the selected monitor
    poolSize,       \* size of the frame pool's surfaces
    procSize,       \* input size of the video processor
    queue,          \* frame_sender .. frame_receiver
    frame,          \* the frame the worker holds, or NoFrame
    sourceClosed,
    due,            \* next_frame_at - now
    burst,          \* frames converted since the clock last moved
    async,          \* the encoder found is asynchronous
    ready,          \* input_ready
    asked,          \* input requests not answered by ProcessInput
    held,           \* samples inside the encoder, oldest first
    events,         \* its event queue: "need", or an output's time stamp
    pending,        \* pending_outputs, or the outputs of encode_texture_sync
    out             \* batches and errors on their way to the owner

ownerVars == <<owner, cancel>>
sourceVars == <<screen, sourceClosed>>
poolVars == <<poolSize, procSize>>
resVars == <<res, refused>>
clockVars == <<due, burst>>
mftVars == <<asked, held, events>>
encoderVars == <<async, ready, pending, mftVars>>
vars == <<ownerVars, wpc, result, resVars, sourceVars, poolVars, queue, frame,
          clockVars, encoderVars, out>>

\* No frame in hand; in the queue, the Err of a callback that got none.
NoFrame == [surface |-> 0, content |-> 0, fresh |-> FALSE]
Frame == [surface : Sizes, content : Sizes, fresh : BOOLEAN]
Running == {"loop", "take", "size", "need", "have", "pull", "pulled", "send"}

\* The worker is in the loop of encode_texture_sync.
Pulling == wpc \in {"pull", "pulled"}

\* encode_texture_async is inside pump_stream_event.
Pumping ==
    \/ wpc = "need" /\ async /\ ~ready
    \/ wpc = "have" /\ "new" \notin pending

\* Frames of the current pool that are still checked out.
CheckedOut ==
    Cardinality({i \in DOMAIN queue : queue[i].fresh})
        + (IF frame.fresh THEN 1 ELSE 0)

\* A new sample makes every earlier time stamp an old one.
Aged(s) == [i \in DOMAIN s |-> IF s[i] = "new" THEN "old" ELSE s[i]]

\* Where next_frame_at stops mattering: the next frame resets it anyway.
FarPast == -(2 * Interval + 1)

\* CapturedH264Stream::start.
Init ==
    /\ owner = "polling" /\ cancel = FALSE /\ wpc = "prepare" /\ result = "ok"
    /\ res = {} /\ refused = {}
    /\ screen \in Sizes /\ poolSize = screen /\ procSize = screen /\ sourceClosed = FALSE
    /\ queue = <<>> /\ frame = NoFrame /\ due = 0 /\ burst = 0
    /\ async = FALSE /\ ready = FALSE
    /\ asked = 0 /\ held = <<>> /\ events = <<>> /\ pending = {} /\ out = <<>>

----------------------------------------------------------------------------
(***************************************************************************)
(* Setting the stream up, and taking it down when a step of that fails.    *)
(***************************************************************************)
\* close_capture_session and RemoveClosed: the worker gives back all it holds
\* but `kept`; what Windows refuses to take back stays held.
GiveUp(kept) ==
    \E bad \in SUBSET (res \ kept) :
        /\ res' = bad \cup kept
        /\ refused' = bad

\* BgraToNv12Processor::new for an input of this size.
BuildProcessor(size) == procSize' = size

\* HardwareH264Encoder::start: the first encoder, by name, that starts.  Only a
\* synchronous one takes input at once.
StartEncoder ==
    /\ async' \in BOOLEAN
    /\ ready' = ~async'

\* capture_stream::run up to PreparedCapture::new.
Prepare ==
    /\ wpc = "prepare"
    /\ \/ /\ poolSize' = screen
          /\ BuildProcessor(screen)
          /\ StartEncoder
          /\ wpc' = "subscribe"
          /\ UNCHANGED result
       \/ /\ wpc' = "report" /\ result' = "err"
          /\ UNCHANGED <<poolVars, async, ready>>
    /\ UNCHANGED <<ownerVars, resVars, sourceVars, queue, frame, clockVars,
                   pending, mftVars, out>>

\* One step of run_prepared_capture: take `what`, or undo and return Err.
SetUp(at, what, next) ==
    /\ wpc = at
    /\ \/ /\ res' = res \cup what
          /\ wpc' = next
          /\ UNCHANGED <<result, refused>>
       \/ /\ GiveUp({})
          /\ wpc' = "report" /\ result' = "err"
    /\ UNCHANGED <<ownerVars, sourceVars, poolVars, queue, frame, clockVars,
                   encoderVars, out>>

SubscribeClosed == SetUp("subscribe", {"closed"}, "arrive")
SubscribeFrames == SetUp("arrive", {"arrived"}, "session")
CreateSession == SetUp("session", {"session"}, "start")
StartCapture == SetUp("start", {}, "loop")

\* Drop of HardwareH264Encoder flushes whatever the encoder still holds.
DropEncoder ==
    /\ asked' = 0 /\ held' = <<>> /\ events' = <<>>
    /\ pending' = {} /\ ready' = FALSE

\* The pipeline returned: the frame channel and the encoder go with the worker,
\* and a failure to clean up becomes, or joins, the error.
Cleanup ==
    /\ wpc = "cleanup"
    /\ GiveUp({})
    /\ result' = IF refused' # {} THEN "err" ELSE result
    /\ wpc' = IF result' = "err" THEN "report" ELSE "done"
    /\ queue' = <<>> /\ due' = 0 /\ burst' = 0
    /\ DropEncoder
    /\ UNCHANGED <<ownerVars, sourceVars, poolVars, frame, async, out>>

----------------------------------------------------------------------------
(***************************************************************************)
(* The pipeline: CapturePipeline::run and process_next_frame.              *)
(***************************************************************************)
Return(r) == wpc' = "cleanup" /\ result' = r

\* The loop's two tests, made before every wait for a frame.
LoopHead ==
    /\ wpc = "loop"
    /\ IF cancel \/ sourceClosed
         THEN Return(IF cancel THEN "ok" ELSE "err")
         ELSE wpc' = "take" /\ UNCHANGED result
    /\ UNCHANGED <<ownerVars, resVars, sourceVars, poolVars, queue, frame,
                   clockVars, encoderVars, out>>

\* Mutant: a late frame advances next_frame_at by one interval, no catch-up.
PacedNoCatchUp(d) == d + Interval

\* next_frame_at after accepting a frame `d` ticks from being due.
Paced(d) == IF -(d + Interval) > Interval THEN 0 ELSE d + Interval

\* recv_timeout: no frame within CAPTURE_WAIT turns the loop, an Err ends the
\* stream, a frame that is early is closed.
TakeFrame ==
    /\ wpc = "take"
    /\ queue' = IF queue = <<>> THEN queue ELSE Tail(queue)
    /\ IF queue = <<>> THEN wpc' = "loop" /\ UNCHANGED <<result, frame, due>>
       ELSE IF Head(queue) = NoFrame THEN Return("err") /\ UNCHANGED <<frame, due>>
       ELSE IF due > 0 THEN wpc' = "loop" /\ UNCHANGED <<result, frame, due>>
       ELSE /\ due' = Paced(due)
            /\ frame' = Head(queue)
            /\ wpc' = "size"
            /\ UNCHANGED result
    /\ UNCHANGED <<ownerVars, resVars, sourceVars, poolVars, burst, encoderVars, out>>

\* Mutant: the pool is recreated, the processor is not.
ResizePoolOnly ==
    /\ wpc = "size" /\ frame.content # procSize
    /\ frame' = NoFrame /\ poolSize' = frame.content
    /\ due' = 0 /\ wpc' = "loop"
    /\ UNCHANGED <<ownerVars, result, resVars, sourceVars, procSize, queue, burst,
                   encoderVars, out>>

\* The frame's content no longer matches the processor: close the frame,
\* Recreate the pool (frames still queued keep their old surfaces) and build a
\* new processor.
ResizePool ==
    /\ wpc = "size" /\ frame.content # procSize
    /\ frame' = NoFrame
    /\ \/ /\ poolSize' = frame.content /\ BuildProcessor(frame.content)
          /\ queue' = [i \in DOMAIN queue |-> [queue[i] EXCEPT !.fresh = FALSE]]
          /\ due' = 0 /\ wpc' = "loop"
          /\ UNCHANGED <<result, burst>>
       \/ Return("err") /\ UNCHANGED <<poolVars, queue, clockVars>>
    /\ UNCHANGED <<ownerVars, resVars, sourceVars, encoderVars, out>>

\* capture_texture and BgraToNv12Processor::convert, which refuses a surface
\* that does not have the processor's size and otherwise blits it into the one
\* NV12 texture the encoder reads.
Convert ==
    /\ wpc = "size" /\ frame.content = procSize
    /\ \/ /\ frame.surface = procSize
          /\ burst' = burst + 1 /\ wpc' = "need"
          /\ UNCHANGED <<result, frame>>
       \/ Return("err") /\ frame' = NoFrame /\ UNCHANGED burst
    /\ UNCHANGED <<ownerVars, resVars, sourceVars, poolVars, queue, due,
                   encoderVars, out>>

----------------------------------------------------------------------------
(***************************************************************************)
(* HardwareH264Encoder::encode_texture.                                    *)
(***************************************************************************)
EncodeFails == Return("err") /\ frame' = NoFrame

\* convert_h264_access_units, which refuses units without usable time stamps.
ConvertUnits ==
    \/ wpc' = "send" /\ UNCHANGED result
    \/ Return("err")

\* encode_texture_sync: ProcessInput, then take_output until the encoder needs
\* more input.  Nothing else ends that loop: it has no deadline and does not
\* look at cancel.
SubmitSync ==
    /\ wpc = "need" /\ ~async
    /\ \/ wpc' = "pull" /\ UNCHANGED <<result, frame>>
       \/ EncodeFails
    /\ UNCHANGED <<ownerVars, resVars, sourceVars, poolVars, queue, clockVars,
                   encoderVars, out>>

\* take_output gave a unit, nothing or a unit without bytes, or failed.
PullOutput ==
    /\ wpc = "pull"
    /\ \/ wpc' = "pulled" /\ pending' \in {pending, {"new"}} /\ UNCHANGED <<result, frame>>
       \/ EncodeFails /\ UNCHANGED pending
    /\ UNCHANGED <<ownerVars, resVars, sourceVars, poolVars, queue, clockVars,
                   async, ready, mftVars, out>>

PullAgain ==
    /\ wpc = "pulled" /\ wpc' = "pull"
    /\ UNCHANGED <<ownerVars, result, resVars, sourceVars, poolVars, queue, frame,
                   clockVars, encoderVars, out>>

\* The encoder needs more input: close the frame and send what it gave.
NeedsMoreInput ==
    /\ wpc = "pull"
    /\ pending' = {} /\ frame' = NoFrame
    /\ \/ pending = {} /\ wpc' = "loop" /\ UNCHANGED result
       \/ pending # {} /\ ConvertUnits
       \/ Return("err")
    /\ UNCHANGED <<ownerVars, resVars, sourceVars, poolVars, queue, clockVars,
                   async, ready, mftVars, out>>

Submit ==
    /\ wpc = "need" /\ async /\ ready
    /\ \/ /\ asked' = asked - 1
          /\ held' = Append(Aged(held), "new")
          /\ events' = Aged(events)
          /\ pending' = {"old" : t \in pending}
          /\ ready' = FALSE
          /\ wpc' = "have"
          /\ UNCHANGED <<result, frame>>
       \/ EncodeFails /\ UNCHANGED <<ready, mftVars, pending>>
    /\ UNCHANGED <<ownerVars, resVars, sourceVars, poolVars, queue, clockVars,
                   async, out>>

\* renegotiate_output_type: take_output has nothing to return, and the encoder
\* announces the output again.
RenegotiateOutput ==
    /\ events' = Append(Tail(events), Head(events))
    /\ UNCHANGED pending

\* take_output: a sample, one without bytes, or a stream change.
TakeOutput ==
    \/ pending' = pending \cup {Head(events)} /\ events' = Tail(events)
    \/ UNCHANGED pending /\ events' = Tail(events)
    \/ RenegotiateOutput

\* pump_stream_event with an event: an input request, an output, or a failure.
Pump ==
    /\ Pumping /\ events # <<>>
    /\ \/ /\ Head(events) = "need"
          /\ ready' = TRUE /\ events' = Tail(events)
          /\ UNCHANGED <<wpc, result, frame, pending>>
       \/ /\ Head(events) # "need"
          /\ TakeOutput
          /\ UNCHANGED <<wpc, result, frame, ready>>
       \/ EncodeFails /\ events' = Tail(events) /\ UNCHANGED <<pending, ready>>
    /\ UNCHANGED <<ownerVars, resVars, sourceVars, poolVars, queue, clockVars,
                   async, asked, held, out>>

\* STREAM_EVENT_TIMEOUT passes while encode_texture_async pumps.
EncodeTimesOut ==
    /\ Pumping
    /\ EncodeFails
    /\ UNCHANGED <<ownerVars, resVars, sourceVars, poolVars, queue, clockVars,
                   encoderVars, out>>

\* Mutant: the oldest pending output is good enough.
CollectAny ==
    /\ wpc = "have"
    /\ pending' = {} /\ frame' = NoFrame
    /\ wpc' = "send"
    /\ UNCHANGED <<ownerVars, result, resVars, sourceVars, poolVars, queue, clockVars,
                   async, ready, mftVars, out>>

\* The matching output is there: drain pending_outputs and close the frame.
Collect ==
    /\ wpc = "have" /\ "new" \in pending
    /\ pending' = {} /\ frame' = NoFrame
    /\ ConvertUnits
    /\ UNCHANGED <<ownerVars, resVars, sourceVars, poolVars, queue, clockVars,
                   async, ready, mftVars, out>>

----------------------------------------------------------------------------
(***************************************************************************)
(* send_encoder_result: retried every millisecond until there is room or   *)
(* the stream is cancelled.                                                *)
(***************************************************************************)
Deliver(at, what, next) ==
    /\ wpc = at
    /\ \/ cancel /\ UNCHANGED out
       \/ ~cancel /\ Len(out) < OutQueue /\ out' = Append(out, what)
    /\ wpc' = next
    /\ UNCHANGED <<ownerVars, result, resVars, sourceVars, poolVars, queue, frame,
                   clockVars, encoderVars>>

\* Mutant: a batch waits for room even after the stream was cancelled.
SendBatchUncancelled ==
    /\ wpc = "send" /\ Len(out) < OutQueue
    /\ out' = Append(out, "batch") /\ wpc' = "loop"
    /\ UNCHANGED <<ownerVars, result, resVars, sourceVars, poolVars, queue, frame,
                   clockVars, encoderVars>>

\* Mutant: the diagnostic is given up when the channel is full.
ReportErrorOnce ==
    /\ wpc = "report"
    /\ out' = IF Len(out) < OutQueue THEN Append(out, "err") ELSE out
    /\ wpc' = "done"
    /\ UNCHANGED <<ownerVars, result, resVars, sourceVars, poolVars, queue, frame,
                   clockVars, encoderVars>>

SendBatch == Deliver("send", "batch", "loop")
ReportError == Deliver("report", "err", "done")

Worker ==
    \/ Prepare \/ SubscribeClosed \/ SubscribeFrames \/ CreateSession \/ StartCapture
    \/ LoopHead \/ TakeFrame \/ ResizePool \/ Convert
    \/ SubmitSync \/ PullOutput \/ PullAgain \/ NeedsMoreInput
    \/ Submit \/ Pump \/ Collect \/ SendBatch
    \/ Cleanup \/ ReportError

----------------------------------------------------------------------------
(***************************************************************************)
(* The frame-pool callback, the capture source, the clock and the encoder. *)
(***************************************************************************)
Capturing == wpc \in Running /\ "arrived" \in res

\* frame_handler: TryGetNextFrame and try_send; a full queue closes the frame.
FrameArrives ==
    /\ Capturing /\ CheckedOut < Buffers
    /\ queue' = IF Len(queue) < FrameQueue
                  THEN Append(queue, [surface |-> poolSize, content |-> screen, fresh |-> TRUE])
                  ELSE queue
    /\ UNCHANGED <<ownerVars, wpc, result, resVars, sourceVars, poolVars, frame,
                   clockVars, encoderVars, out>>

\* The callback could not dequeue a frame.
FrameFails ==
    /\ Capturing /\ Len(queue) < FrameQueue
    /\ queue' = Append(queue, NoFrame)
    /\ UNCHANGED <<ownerVars, wpc, result, resVars, sourceVars, poolVars, frame,
                   clockVars, encoderVars, out>>

ScreenResizes ==
    /\ wpc \notin {"prepare", "cleanup", "report", "done"}
    /\ \E size \in Sizes \ {screen} : screen' = size
    /\ UNCHANGED <<ownerVars, wpc, result, resVars, sourceClosed, poolVars, queue,
                   frame, clockVars, encoderVars, out>>

\* capture_closed_handler.
SourceCloses ==
    /\ "closed" \in res /\ wpc \in Running /\ ~sourceClosed
    /\ sourceClosed' = TRUE
    /\ UNCHANGED <<ownerVars, wpc, result, resVars, screen, poolVars, queue, frame,
                   clockVars, encoderVars, out>>

\* The clock moves whenever the worker is not between taking a frame and
\* checking its size, two adjacent reads of which only the first has a clock.
Tick ==
    /\ wpc \in Running \ {"size"} /\ <<due, burst>> # <<FarPast, 0>>
    /\ due' = IF due = FarPast THEN FarPast ELSE due - 1
    /\ burst' = 0
    /\ UNCHANGED <<ownerVars, wpc, result, resVars, sourceVars, poolVars, queue, frame,
                   encoderVars, out>>

EncoderAsks ==
    /\ async /\ wpc \in Running /\ asked + Len(held) < Credits
    /\ asked' = asked + 1 /\ events' = Append(events, "need")
    /\ UNCHANGED <<ownerVars, wpc, result, resVars, sourceVars, poolVars, queue, frame,
                   clockVars, async, ready, held, pending, out>>

EncoderProduces ==
    /\ wpc \in Running /\ held # <<>>
    /\ held' = Tail(held) /\ events' = Append(events, Head(held))
    /\ UNCHANGED <<ownerVars, wpc, result, resVars, sourceVars, poolVars, queue, frame,
                   clockVars, async, ready, asked, pending, out>>

----------------------------------------------------------------------------
(***************************************************************************)
(* The owner: CapturedH264Stream::try_next_batch and Drop.                 *)
(***************************************************************************)
\* Drop stores cancel and joins; an Err of try_next_batch ends the session,
\* which drops the stream.
DropStream == owner' = "joining" /\ cancel' = TRUE

Poll ==
    /\ owner = "polling" /\ out # <<>>
    /\ out' = Tail(out)
    /\ IF Head(out) = "err" THEN DropStream ELSE UNCHANGED ownerVars
    /\ UNCHANGED <<wpc, result, resVars, sourceVars, poolVars, queue, frame,
                   clockVars, encoderVars>>

Drop ==
    /\ owner = "polling"
    /\ DropStream
    /\ UNCHANGED <<wpc, result, resVars, sourceVars, poolVars, queue, frame,
                   clockVars, encoderVars, out>>

Join ==
    /\ owner = "joining" /\ wpc = "done"
    /\ owner' = "gone"
    /\ UNCHANGED <<cancel, wpc, result, resVars, sourceVars, poolVars, queue, frame,
                   clockVars, encoderVars, out>>

Environment ==
    \/ FrameArrives \/ FrameFails \/ ScreenResizes \/ SourceCloses \/ Tick
    \/ EncoderAsks \/ EncoderProduces

Next ==
    \/ Worker \/ EncodeTimesOut \/ Environment
    \/ Poll \/ Drop \/ Join

Spec == Init /\ [][Next]_vars

\* The worker thread runs, its deadline passes, the join returns once the
\* thread has ended, the session loop keeps polling, and the pool calls back
\* while the screen is captured.
Fairness ==
    /\ WF_vars(Worker) /\ WF_vars(EncodeTimesOut) /\ WF_vars(Join) /\ WF_vars(Poll)
    /\ WF_vars(FrameArrives) /\ WF_vars(Tick)

LiveSpec == Spec /\ Fairness

----------------------------------------------------------------------------
\* A worker that ends on its own leaves its diagnostic in the channel, however
\* full that was when the error was raised: try_next_batch never has to report
\* "stopped without a diagnostic".  And on every exit of run_prepared_capture it
\* has given back what it had subscribed to, except what Windows refused.
EndsCleanly ==
    /\ wpc = "done" /\ ~cancel => \E i \in DOMAIN out : out[i] = "err"
    /\ wpc \in {"report", "done"} => res \subseteq refused

\* An asynchronous encoder's contract: encode_texture_async never calls
\* ProcessInput without an input request that is still open, and the one NV12
\* texture is never blitted into while the encoder holds the sample made from
\* it.
EncoderContract ==
    /\ asked >= 0
    /\ async /\ wpc = "need" => held = <<>>

\* However long the worker was held up, it encodes at most three frames at one
\* instant: it catches up, then drops back to the configured rate.
CatchUpIsBounded == burst <= 3

\* The capture thread always joins, so Drop of CapturedH264Stream returns: the
\* one thing that can hold it up is a synchronous encoder that answers
\* take_output for ever without asking for input.
DropReturns == owner = "joining" ~> (owner = "gone" \/ []Pulling)

\* A change of the screen's size reaches the processor, or ends the stream,
\* with the same one exception.
ResizeIsFollowed ==
    wpc \in Running /\ procSize # screen ~>
        (procSize = screen \/ wpc \notin Running \/ []Pulling)

=============================================================================
