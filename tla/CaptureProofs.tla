---------------------------- MODULE CaptureProofs ----------------------------
(***************************************************************************)
(* Proofs about Capture, for every set of screen sizes, length of the      *)
(* queues, frame interval and number of input requests an encoder keeps    *)
(* open.                                                                   *)
(***************************************************************************)
EXTENDS Capture, FiniteSetTheorems, FunctionTheorems, TLAPS

EncoderEvents == {"need", "new", "old"}

\* Input requests the worker has not seen yet.
Needs(s) == {i \in DOMAIN s : s[i] = "need"}

\* A worker that ends was cancelled or leaves an error, and has given back
\* what it had taken.
EndInv ==
    /\ cancel \in BOOLEAN /\ result \in {"ok", "err"} /\ out \in Seq({"batch", "err"})
    /\ wpc = "prepare" => res = {}
    /\ wpc = "cleanup" /\ result = "ok" => cancel
    /\ wpc = "done" /\ ~cancel => \E i \in DOMAIN out : out[i] = "err"
    /\ wpc \in {"report", "done"} => res \subseteq refused

\* Frames accepted at this instant, the one whose size is being checked
\* included.
Accepted == burst + (IF wpc = "size" THEN 1 ELSE 0)

\* Each frame accepted at one instant brings next_frame_at an interval
\* closer to the future, from at most two intervals in the past.
ClockInv ==
    /\ due \in Int /\ burst \in Nat /\ Accepted <= 3
    /\ Accepted >= 1 => due >= -Interval
    /\ Accepted >= 2 => due >= 0
    /\ Accepted >= 3 => due >= Interval

\* Every input request the worker has not seen, or has noted in input_ready,
\* is one the encoder still has open.
RequestInv ==
    /\ asked \in Int /\ events \in Seq(EncoderEvents)
    /\ async \in BOOLEAN /\ ready \in BOOLEAN
    /\ Cardinality(Needs(events)) <= asked
    /\ async /\ ready => Cardinality(Needs(events)) < asked

\* The encoder holds one sample at most, the one whose output the worker
\* waits for, and that output is not announced yet.
SampleInv ==
    /\ wpc \notin {"have", "cleanup"} => held = <<>>
    /\ wpc = "have" /\ held # <<>> =>
         /\ held = <<"new">> /\ "new" \notin pending
         /\ \A i \in DOMAIN events : events[i] # "new"

CaptureInv == EndInv /\ ClockInv /\ RequestInv /\ SampleInv

-----------------------------------------------------------------------------
(***************************************************************************)
(* The event queue: what an announcement adds to the input requests that   *)
(* wait, and what taking the first event removes from them.                *)
(***************************************************************************)
LEMMA NeedsOfAppend ==
  ASSUME NEW s \in Seq(EncoderEvents), NEW e \in EncoderEvents
  PROVE  /\ IsFiniteSet(Needs(s)) /\ Cardinality(Needs(s)) \in Nat
         /\ Cardinality(Needs(Append(s, e))) =
              Cardinality(Needs(s)) + (IF e = "need" THEN 1 ELSE 0)
  <1>1. IsFiniteSet(Needs(s)) /\ Cardinality(Needs(s)) \in Nat
    <2>1. IsFiniteSet(1 .. Len(s))
      BY FS_Interval
    <2>2. Needs(s) \subseteq 1 .. Len(s)
      BY DEF Needs
    <2> QED BY <2>1, <2>2, FS_Subset, FS_CardinalityType
  <1>2. CASE e = "need"
    <2>1. Needs(Append(s, e)) = Needs(s) \cup {Len(s) + 1}
      BY <1>2 DEF Needs
    <2>2. Len(s) + 1 \notin Needs(s)
      BY DEF Needs
    <2> QED BY <1>1, <1>2, <2>1, <2>2, FS_AddElement
  <1>3. CASE e # "need"
    <2>1. Needs(Append(s, e)) = Needs(s)
      BY <1>3 DEF Needs
    <2> QED BY <1>1, <1>3, <2>1
  <1> QED BY <1>1, <1>2, <1>3

\* Taking an event off the encoder's queue takes away exactly the request for
\* input it was, if it was one.
LEMMA NeedsOfTail ==
  ASSUME NEW s \in Seq(EncoderEvents), s # <<>>
  PROVE  /\ Tail(s) \in Seq(EncoderEvents) /\ Head(s) \in EncoderEvents
         /\ Cardinality(Needs(s)) =
              Cardinality(Needs(Tail(s))) + (IF Head(s) = "need" THEN 1 ELSE 0)
  <1>1. Tail(s) \in Seq(EncoderEvents) /\ Head(s) \in EncoderEvents
    OBVIOUS
  <1> DEFINE Rest == Needs(s) \ {1}
             shift == [i \in Needs(Tail(s)) |-> i + 1]
  <1>2. IsFiniteSet(Needs(s)) /\ IsFiniteSet(Needs(Tail(s)))
    BY <1>1, NeedsOfAppend DEF EncoderEvents
  <1>3. shift \in Bijection(Needs(Tail(s)), Rest)
    <2>1. shift \in [Needs(Tail(s)) -> Rest]
      BY DEF Needs
    <2>2. \A i, j \in Needs(Tail(s)) : shift[i] = shift[j] => i = j
      BY <1>1 DEF Needs
    <2>3. ASSUME NEW k \in Rest
          PROVE  \E i \in Needs(Tail(s)) : shift[i] = k
      <3>1. k - 1 \in Needs(Tail(s))
        BY <2>3 DEF Needs
      <3>2. shift[k - 1] = k
        BY <2>3, <3>1 DEF Needs
      <3> QED BY <3>1, <3>2
    <2> QED BY <2>1, <2>2, <2>3, Fun_IsBij
  <1>4. Cardinality(Rest) = Cardinality(Needs(Tail(s)))
    <2>1. ExistsBijection(Needs(Tail(s)), Rest)
      BY <1>3 DEF ExistsBijection
    <2> HIDE DEF Rest
    <2> QED BY <1>2, <2>1, FS_Bijection
  <1>5. CASE Head(s) = "need"
    <2>1. 1 \in Needs(s)
      BY <1>5 DEF Needs
    <2> QED BY <1>1, <1>2, <1>4, <1>5, <2>1, FS_RemoveElement, FS_CardinalityType
  <1>6. CASE Head(s) # "need"
    <2>1. Rest = Needs(s)
      BY <1>6 DEF Needs
    <2>2. Cardinality(Needs(Tail(s))) \in Nat
      BY <1>2, FS_CardinalityType
    <2> HIDE DEF Rest
    <2> QED BY <1>1, <1>4, <1>6, <2>1, <2>2
  <1> QED BY <1>1, <1>5, <1>6

(***************************************************************************)
(* A new sample ages the time stamps and leaves the requests alone.        *)
(***************************************************************************)
LEMMA AgedEvents ==
  ASSUME NEW s \in Seq(EncoderEvents)
  PROVE  /\ Aged(s) \in Seq(EncoderEvents) /\ Needs(Aged(s)) = Needs(s)
         /\ \A i \in DOMAIN Aged(s) : Aged(s)[i] # "new"
  <1>1. DOMAIN Aged(s) = 1 .. Len(s) /\ DOMAIN s = 1 .. Len(s) /\ Len(s) \in Nat
    BY DEF Aged
  <1>2. \A i \in 1 .. Len(s) :
          /\ Aged(s)[i] \in EncoderEvents /\ Aged(s)[i] # "new"
          /\ Aged(s)[i] = "need" <=> s[i] = "need"
    BY <1>1 DEF Aged, EncoderEvents
  <1>3. Aged(s) \in [1 .. Len(s) -> EncoderEvents]
    BY <1>1, <1>2 DEF Aged
  <1> QED BY <1>1, <1>2, <1>3 DEF Needs

-----------------------------------------------------------------------------
(***************************************************************************)
(* What an action of the worker, of its environment or of its owner can do *)
(* to the parts of the invariant it is not about.                          *)
(***************************************************************************)
LEMMA EndStep ==
  ASSUME EndInv, [Next]_vars
  PROVE  EndInv'
  <1> USE DEF EndInv, Return, EncodeFails, ConvertUnits, ownerVars, resVars
  <1>1. CASE Prepare
    BY <1>1 DEF Prepare
  <1>2. ASSUME NEW at, NEW what, NEW next, SetUp(at, what, next),
               next \in {"arrive", "session", "start", "loop"}
        PROVE  EndInv'
    BY <1>2 DEF SetUp, GiveUp
  <1>3. CASE SubscribeClosed \/ SubscribeFrames \/ CreateSession \/ StartCapture
    BY <1>2, <1>3 DEF SubscribeClosed, SubscribeFrames, CreateSession, StartCapture
  <1>4. CASE LoopHead \/ TakeFrame \/ ResizePool \/ Convert
    BY <1>4 DEF LoopHead, TakeFrame, ResizePool, Convert
  <1>5. CASE \/ SubmitSync \/ PullOutput \/ PullAgain \/ NeedsMoreInput
             \/ Submit \/ Pump \/ Collect \/ EncodeTimesOut
    BY <1>5 DEF SubmitSync, PullOutput, PullAgain, NeedsMoreInput, Submit, Pump, Pumping,
         Collect, EncodeTimesOut
  <1>6. CASE SendBatch
    BY <1>6 DEF SendBatch, Deliver
  <1>7. CASE ReportError
    <2>1. wpc = "report" /\ wpc' = "done" /\ UNCHANGED <<res, refused, cancel, result>>
      BY <1>7 DEF ReportError, Deliver
    <2>2. CASE cancel /\ out' = out
      BY <2>1, <2>2
    <2>3. CASE out' = Append(out, "err")
      <3>1. out' \in Seq({"batch", "err"}) /\ out'[Len(out) + 1] = "err"
            /\ Len(out) + 1 \in DOMAIN out'
        BY <2>3
      <3> QED BY <2>1, <3>1
    <2> QED BY <1>7, <2>2, <2>3 DEF ReportError, Deliver
  <1>8. CASE Cleanup
    BY <1>8 DEF Cleanup, GiveUp
  <1>9. CASE FrameArrives \/ FrameFails \/ ScreenResizes \/ SourceCloses \/ Tick
    BY <1>9 DEF FrameArrives, FrameFails, ScreenResizes, SourceCloses, Tick
  <1>10. CASE EncoderAsks \/ EncoderProduces
    BY <1>10 DEF EncoderAsks, EncoderProduces
  <1>11. CASE Poll
    <2>1. /\ out # <<>> /\ out' = Tail(out) /\ UNCHANGED <<wpc, result, res, refused>>
          /\ cancel' = IF Head(out) = "err" THEN TRUE ELSE cancel
      BY <1>11 DEF Poll, DropStream
    <2>2. ~cancel' => \A i \in DOMAIN out : out[i] = "err" =>
                        i - 1 \in DOMAIN out' /\ out'[i - 1] = "err"
      BY <2>1
    <2>3. out' \in Seq({"batch", "err"})
      BY <2>1
    <2> QED BY <2>1, <2>2, <2>3
  <1>12. CASE Drop \/ Join
    BY <1>12 DEF Drop, DropStream, Join
  <1>13. CASE UNCHANGED vars
    BY <1>13 DEF vars
  <1> QED BY <1>1, <1>3, <1>4, <1>5, <1>6, <1>7, <1>8, <1>9, <1>10, <1>11, <1>12, <1>13
          DEF Next, Worker, Environment

\* Every step keeps ClockInv: the pacer never runs more than its catch-up
\* behind the clock.
LEMMA ClockStep ==
  ASSUME ClockInv, [Next]_vars
  PROVE  ClockInv'
  <1> USE CaptureAssumption DEF ClockInv, Accepted, Return, EncodeFails, ConvertUnits, clockVars
  <1>1. CASE Prepare \/ SubscribeClosed \/ SubscribeFrames \/ CreateSession \/ StartCapture
    BY <1>1 DEF Prepare, SubscribeClosed, SubscribeFrames, CreateSession, StartCapture, SetUp
  <1>2. CASE LoopHead \/ SendBatch \/ ReportError
    BY <1>2 DEF LoopHead, SendBatch, ReportError, Deliver
  <1>3. CASE TakeFrame
    BY <1>3 DEF TakeFrame, Paced
  <1>4. CASE ResizePool \/ Convert
    BY <1>4 DEF ResizePool, Convert
  <1>5. CASE \/ SubmitSync \/ PullOutput \/ PullAgain \/ NeedsMoreInput
             \/ Submit \/ Pump \/ Collect \/ EncodeTimesOut
    BY <1>5 DEF SubmitSync, PullOutput, PullAgain, NeedsMoreInput, Submit, Pump, Pumping,
         Collect, EncodeTimesOut
  <1>6. CASE Cleanup
    BY <1>6 DEF Cleanup
  <1>7. CASE FrameArrives \/ FrameFails \/ ScreenResizes \/ SourceCloses
    BY <1>7 DEF FrameArrives, FrameFails, ScreenResizes, SourceCloses
  <1>8. CASE Tick
    BY <1>8 DEF Tick, FarPast
  <1>9. CASE EncoderAsks \/ EncoderProduces
    BY <1>9 DEF EncoderAsks, EncoderProduces
  <1>10. CASE Poll \/ Drop \/ Join
    BY <1>10 DEF Poll, Drop, Join
  <1>11. CASE UNCHANGED vars
    BY <1>11 DEF vars
  <1> QED BY <1>1, <1>2, <1>3, <1>4, <1>5, <1>6, <1>7, <1>8, <1>9, <1>10, <1>11
          DEF Next, Worker, Environment

(***************************************************************************)
(* The worker answers only requests that are open.                         *)
(***************************************************************************)
LEMMA RequestStep ==
  ASSUME CaptureInv, [Next]_vars
  PROVE  RequestInv'
  <1> USE DEF CaptureInv, RequestInv
  <1>0. Cardinality(Needs(events)) \in Nat
    BY NeedsOfAppend DEF EncoderEvents
  <1>1. CASE Prepare
    <2>1. /\ UNCHANGED <<asked, events>>
          /\ async' \in BOOLEAN /\ ready' \in BOOLEAN
          /\ (async' = async /\ ready' = ready) \/ ~(async' /\ ready')
      BY <1>1 DEF Prepare, StartEncoder, mftVars
    <2> QED BY <1>0, <2>1
  <1>2. CASE \/ SubscribeClosed \/ SubscribeFrames \/ CreateSession \/ StartCapture
             \/ LoopHead \/ TakeFrame \/ ResizePool \/ Convert \/ SubmitSync
             \/ PullOutput \/ PullAgain \/ NeedsMoreInput
             \/ SendBatch \/ ReportError \/ EncodeTimesOut
             \/ FrameArrives \/ FrameFails \/ ScreenResizes \/ SourceCloses \/ Tick
             \/ Poll \/ Drop \/ Join \/ UNCHANGED vars
    <2>1. UNCHANGED <<asked, events, async, ready>>
      BY <1>2 DEF SubscribeClosed, SubscribeFrames, CreateSession, StartCapture, SetUp,
           LoopHead, TakeFrame, ResizePool, Convert, SubmitSync,
           PullOutput, PullAgain, NeedsMoreInput, SendBatch, ReportError,
           Deliver, EncodeTimesOut, FrameArrives, FrameFails, ScreenResizes, SourceCloses,
           Tick, Poll, Drop, Join, vars, encoderVars, mftVars
    <2> QED BY <2>1
  <1>3. CASE Submit
    <2>1. async /\ ready /\ async' = async
      BY <1>3 DEF Submit
    <2>2. CASE asked' = asked - 1 /\ events' = Aged(events) /\ ready' = FALSE
      <3>1. events' \in Seq(EncoderEvents) /\ Needs(events') = Needs(events)
        BY <2>2, AgedEvents
      <3>2. Cardinality(Needs(events')) = Cardinality(Needs(events))
        BY <3>1
      <3>3. Cardinality(Needs(events')) <= asked'
        BY <1>0, <2>1, <2>2, <3>2
      <3>4. async' \in BOOLEAN /\ ready' \in BOOLEAN /\ ~ready'
        BY <2>1, <2>2, Zenon
      <3>5. asked' \in Int
        BY <2>2
      <3> QED BY <3>1, <3>3, <3>4, <3>5
    <2>3. CASE UNCHANGED <<asked, events, ready>>
      BY <2>1, <2>3
    <2> QED BY <1>3, <2>2, <2>3 DEF Submit, mftVars
  <1>4. CASE Pump
    <2>1. events # <<>> /\ UNCHANGED <<async, asked>>
      BY <1>4 DEF Pump
    <2>2. /\ Tail(events) \in Seq(EncoderEvents) /\ Head(events) \in EncoderEvents
          /\ Cardinality(Needs(events)) =
               Cardinality(Needs(Tail(events))) + (IF Head(events) = "need" THEN 1 ELSE 0)
      BY <2>1, NeedsOfTail
    <2>3. Cardinality(Needs(Tail(events))) \in Nat
      BY <2>2, NeedsOfAppend
    <2>4. CASE Head(events) = "need" /\ ready' = TRUE /\ events' = Tail(events)
      BY <2>1, <2>2, <2>3, <2>4
    <2>5. CASE events' = Tail(events) /\ ready' = ready
      BY <2>1, <2>2, <2>3, <2>5
    <2>6. CASE Head(events) # "need" /\ events' = Append(Tail(events), Head(events)) /\ ready' = ready
      <3>1. Cardinality(Needs(events')) = Cardinality(Needs(Tail(events)))
        <4>1. \A e \in EncoderEvents : e # "need" =>
                Cardinality(Needs(Append(Tail(events), e))) = Cardinality(Needs(Tail(events))) + 0
          BY <2>2, NeedsOfAppend
        <4> QED BY <2>2, <2>3, <2>6, <4>1
      <3>2. events' \in Seq(EncoderEvents)
        BY <2>2, <2>6
      <3> QED BY <2>1, <2>2, <2>3, <2>6, <3>1, <3>2
    <2> QED BY <1>4, <2>4, <2>5, <2>6 DEF Pump, TakeOutput, RenegotiateOutput
  <1>5. CASE Collect
    BY <1>5 DEF Collect, mftVars
  <1>6. CASE Cleanup
    <2>1. asked' = 0 /\ events' = <<>> /\ ready' = FALSE /\ async' = async
      BY <1>6 DEF Cleanup, DropEncoder
    <2>2. Needs(events') = {}
      BY <2>1 DEF Needs
    <2>3. Cardinality(Needs(events')) = 0
      BY <2>2, FS_EmptySet
    <2>4. events' \in Seq(EncoderEvents)
      BY <2>1
    <2>5. async' \in BOOLEAN /\ ready' \in BOOLEAN /\ ~ready'
      BY <2>1
    <2>6. asked' \in Int /\ Cardinality(Needs(events')) <= asked'
      BY <2>1, <2>3
    <2> QED BY <2>4, <2>5, <2>6
  <1>7. CASE EncoderAsks
    <2>1. asked' = asked + 1 /\ events' = Append(events, "need") /\ UNCHANGED <<async, ready>>
      BY <1>7 DEF EncoderAsks
    <2>2. Cardinality(Needs(events')) = Cardinality(Needs(events)) + 1
      BY <2>1, NeedsOfAppend DEF EncoderEvents
    <2>3. events' \in Seq(EncoderEvents)
      BY <2>1 DEF EncoderEvents
    <2> QED BY <1>0, <2>1, <2>2, <2>3
  <1>8. CASE EncoderProduces
    <2>1. /\ wpc \in Running /\ held # <<>> /\ events' = Append(events, Head(held))
          /\ UNCHANGED <<async, ready, asked>>
      BY <1>8 DEF EncoderProduces
    <2>2. Head(held) = "new"
      BY <2>1 DEF SampleInv, Running
    <2>3. Cardinality(Needs(events')) = Cardinality(Needs(events))
      BY <1>0, <2>1, <2>2, NeedsOfAppend DEF EncoderEvents
    <2>4. events' \in Seq(EncoderEvents)
      BY <2>1, <2>2 DEF EncoderEvents
    <2> QED BY <2>1, <2>3, <2>4
  <1> QED BY <1>1, <1>2, <1>3, <1>4, <1>5, <1>6, <1>7, <1>8 DEF Next, Worker, Environment

(***************************************************************************)
(* The worker leaves encode_texture only with the output of its own sample *)
(* in hand, or for good.                                                   *)
(***************************************************************************)
LEMMA SampleStep ==
  ASSUME CaptureInv, [Next]_vars
  PROVE  SampleInv'
  <1> USE DEF CaptureInv, SampleInv
  <1>0. events \in Seq(EncoderEvents)
    BY DEF RequestInv
  <1>1. CASE \/ Prepare \/ SubscribeClosed \/ SubscribeFrames \/ CreateSession \/ StartCapture
             \/ LoopHead \/ TakeFrame \/ ResizePool \/ Convert \/ SubmitSync
             \/ PullOutput \/ PullAgain \/ NeedsMoreInput
             \/ SendBatch \/ ReportError
    <2>1. wpc \notin {"have", "cleanup"} /\ wpc' # "have" /\ held' = held
      BY <1>1 DEF Prepare, SubscribeClosed, SubscribeFrames, CreateSession, StartCapture, SetUp,
           LoopHead, TakeFrame, ResizePool, Convert, SubmitSync,
           PullOutput, PullAgain, NeedsMoreInput, SendBatch, ReportError,
           Deliver, Return, EncodeFails, ConvertUnits, encoderVars, mftVars
    <2> QED BY <2>1
  <1>2. CASE \/ FrameArrives \/ FrameFails \/ ScreenResizes \/ SourceCloses \/ Tick
             \/ Poll \/ Drop \/ Join \/ UNCHANGED vars
    <2>1. UNCHANGED <<wpc, held, pending, events>>
      BY <1>2 DEF FrameArrives, FrameFails, ScreenResizes, SourceCloses,
           Tick, Poll, Drop, Join, vars, encoderVars, mftVars
    <2> QED BY <2>1
  <1>3. CASE Submit
    <2>1. wpc = "need" /\ held = <<>>
      BY <1>3 DEF Submit
    <2>2. CASE /\ held' = Append(Aged(held), "new") /\ events' = Aged(events)
               /\ pending' = {"old" : t \in pending} /\ wpc' = "have"
      <3>1. held' = <<"new">>
        BY <2>1, <2>2 DEF Aged
      <3> QED BY <1>0, <2>2, <3>1, AgedEvents
    <2>3. CASE wpc' = "cleanup"
      BY <2>3
    <2> QED BY <1>3, <2>2, <2>3 DEF Submit, EncodeFails, Return
  <1>4. CASE Pump
    <2>1. /\ wpc \in {"need", "have"} /\ events # <<>> /\ held' = held
          /\ wpc' = wpc \/ wpc' = "cleanup"
      BY <1>4 DEF Pump, Pumping, EncodeFails, Return
    <2>2. CASE wpc' = "have" /\ held # <<>>
      <3>1. wpc = "have" /\ held = <<"new">> /\ "new" \notin pending
            /\ \A i \in DOMAIN events : events[i] # "new"
        BY <2>1, <2>2
      <3>2. Head(events) # "new" /\ \A i \in DOMAIN Tail(events) : Tail(events)[i] # "new"
        BY <1>0, <2>1, <3>1
      <3>3. \/ events' = Tail(events)
            \/ events' = Append(Tail(events), Head(events))
        BY <1>4 DEF Pump, TakeOutput, RenegotiateOutput
      <3>4. \A i \in DOMAIN events' : events'[i] # "new"
        <4>1. Tail(events) \in Seq(EncoderEvents)
          BY <1>0, <2>1
        <4> QED BY <3>2, <3>3, <4>1
      <3>5. "new" \notin pending'
        BY <1>4, <3>1, <3>2 DEF Pump, TakeOutput, RenegotiateOutput
      <3> QED BY <2>1, <2>2, <3>1, <3>4, <3>5
    <2> QED BY <2>1, <2>2
  <1>5. CASE Collect
    BY <1>5 DEF Collect, mftVars, ConvertUnits, Return
  <1>6. CASE EncodeTimesOut
    BY <1>6 DEF EncodeTimesOut, EncodeFails, Return
  <1>7. CASE Cleanup
    BY <1>7 DEF Cleanup, DropEncoder
  <1>8. CASE EncoderAsks
    <2>1. /\ events' = Append(events, "need") /\ UNCHANGED <<wpc, held, pending>>
      BY <1>8 DEF EncoderAsks
    <2>2. \A i \in DOMAIN events' :
            events'[i] = "need" \/ (i \in DOMAIN events /\ events'[i] = events[i])
      BY <1>0, <2>1
    <2> QED BY <2>1, <2>2
  <1>9. CASE EncoderProduces
    <2>1. wpc \in Running /\ held # <<>> /\ held' = Tail(held) /\ wpc' = wpc
      BY <1>9 DEF EncoderProduces
    <2>2. held = <<"new">>
      BY <2>1 DEF Running
    <2>3. held' = <<>>
      BY <2>1, <2>2
    <2> QED BY <2>3
  <1> QED BY <1>1, <1>2, <1>3, <1>4, <1>5, <1>6, <1>7, <1>8, <1>9
          DEF Next, Worker, Environment

-----------------------------------------------------------------------------
(***************************************************************************)
(* The invariant of the capture stream holds in every state.               *)
(***************************************************************************)
THEOREM CaptureInvariant == Spec => []CaptureInv
  <1>1. Init => CaptureInv
    <2> SUFFICES ASSUME Init PROVE CaptureInv
      OBVIOUS
    <2>1. Needs(events) = {}
      BY DEF Init, Needs
    <2>2. Cardinality(Needs(events)) = 0
      BY <2>1, FS_EmptySet
    <2>3. RequestInv
      <3>1. events \in Seq(EncoderEvents)
        BY DEF Init
      <3>2. async \in BOOLEAN /\ ready \in BOOLEAN /\ ~ready
        BY DEF Init
      <3>3. asked \in Int /\ Cardinality(Needs(events)) <= asked
        BY <2>2 DEF Init
      <3> QED BY <3>1, <3>2, <3>3 DEF RequestInv
    <2>4. EndInv
      <3>1. out \in Seq({"batch", "err"})
        BY DEF Init
      <3> QED BY <3>1 DEF Init, EndInv
    <2>5. ClockInv
      BY CaptureAssumption DEF Init, ClockInv, Accepted
    <2>6. SampleInv
      BY DEF Init, SampleInv
    <2> QED BY <2>3, <2>4, <2>5, <2>6 DEF CaptureInv
  <1>2. CaptureInv /\ [Next]_vars => CaptureInv'
    BY EndStep, ClockStep, RequestStep, SampleStep DEF CaptureInv
  <1> QED BY <1>1, <1>2, PTL DEF Spec

(***************************************************************************)
(* A capture thread that ends on its own leaves its diagnostic for         *)
(* try_next_batch however short the channel is, and one that ends at all   *)
(* has given back its subscriptions.                                       *)
(***************************************************************************)
THEOREM DiagnosticIsLeft == Spec => []EndsCleanly
  <1>1. CaptureInv => EndsCleanly
    BY DEF CaptureInv, EndInv, EndsCleanly
  <1> QED BY <1>1, CaptureInvariant, PTL

(***************************************************************************)
(* ProcessInput is called only for a request that is open, and the shared  *)
(* NV12 texture is never overwritten while the encoder reads it, whatever  *)
(* the number of requests an encoder keeps open.                           *)
(***************************************************************************)
THEOREM EncoderContractIsKept == Spec => []EncoderContract
  <1>1. CaptureInv => EncoderContract
    <2> SUFFICES ASSUME CaptureInv PROVE EncoderContract
      OBVIOUS
    <2>1. Cardinality(Needs(events)) \in Nat
      BY NeedsOfAppend DEF EncoderEvents, CaptureInv, RequestInv
    <2>2. asked >= 0
      BY <2>1 DEF CaptureInv, RequestInv
    <2> QED BY <2>2 DEF CaptureInv, SampleInv, EncoderContract
  <1> QED BY <1>1, CaptureInvariant, PTL

(***************************************************************************)
(* At most three frames are converted at one instant, for every interval.  *)
(***************************************************************************)
THEOREM CatchUpEnds == Spec => []CatchUpIsBounded
  <1>1. CaptureInv => CatchUpIsBounded
    BY DEF CaptureInv, ClockInv, Accepted, CatchUpIsBounded
  <1> QED BY <1>1, CaptureInvariant, PTL

=============================================================================
