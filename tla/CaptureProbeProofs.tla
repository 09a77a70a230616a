------------------------- MODULE CaptureProbeProofs -------------------------
(***************************************************************************)
(* Proofs about CaptureProbe, for every number of callers, length of the   *)
(* command queue, number of encoders and length of the encode test.        *)
(***************************************************************************)
EXTENDS CaptureProbe, FiniteSetTheorems, FunctionTheorems, TLAPS

Probing == {"probe", "create", "sleep"}
EncoderEvents == {"need", "have", "drained"}

\* Outputs that are announced and not collected yet.
Haves(s) == {i \in DOMAIN s : s[i] = "have"}

TypedWorker ==
    /\ once \in {"empty", "running", "ok", "err"} /\ ready \in {"none", "ok", "err"}
    /\ wpc \in {"none", "apartment", "startup", "serve", "gone"} \cup Testing \cup Probing
    /\ once = "empty" => wpc = "none"

TypedEncoder ==
    /\ left \in Nat /\ async \in BOOLEAN /\ draining \in BOOLEAN
    /\ outcome \in {"ok", "err"} /\ events \in Seq(EncoderEvents)
    /\ sent \in Nat /\ units \in Nat /\ empty \in Nat /\ held \in Nat

Typed == TypedWorker /\ TypedEncoder

\* At most the activation under test is open, and none before it starts.
EncoderInv ==
    /\ active \subseteq {left}
    /\ wpc \notin {"encode", "shutdown"} => active = {}
    /\ wpc \in Testing => left > 0

\* Nothing is left of an earlier test when the next one starts.
Clean == sent = 0 /\ units = 0 /\ empty = 0 /\ held = 0 /\ draining = FALSE /\ events = <<>>

\* Every frame sent is inside the encoder, announced or taken, as a unit or as
\* an output without bytes.
Balanced ==
    /\ sent = units + empty + held + Cardinality(Haves(events))
    /\ ~async => events = <<>>
    /\ sent <= Frames /\ (draining => sent = Frames)
    /\ \A i \in DOMAIN events :
         events[i] = "drained" => draining /\ held = 0 /\ events = <<"drained">>

EncodeInv ==
    /\ wpc \notin {"encode", "shutdown"} => Clean
    /\ wpc = "encode" => Balanced
    /\ BatchIsComplete

ProbeInv == Typed /\ EncoderInv /\ EncodeInv

-----------------------------------------------------------------------------
(***************************************************************************)
(* The event queue of an encoder that has said nothing, or has asked for   *)
(* its first input.                                                        *)
(***************************************************************************)
LEMMA ShortQueues ==
  /\ <<>> \in Seq(EncoderEvents) /\ Cardinality(Haves(<<>>)) = 0
  /\ <<"need">> \in Seq(EncoderEvents) /\ Cardinality(Haves(<<"need">>)) = 0
  /\ <<"drained">> \in Seq(EncoderEvents) /\ Cardinality(Haves(<<"drained">>)) = 0
  <1>1. "need" \in EncoderEvents /\ "drained" \in EncoderEvents
    BY DEF EncoderEvents
  <1>2. Haves(<<>>) = {} /\ Haves(<<"need">>) = {} /\ Haves(<<"drained">>) = {}
    BY DEF Haves
  <1>3. \A e \in EncoderEvents : <<e>> \in Seq(EncoderEvents)
    OBVIOUS
  <1>4. <<"need">> \in Seq(EncoderEvents) /\ <<"drained">> \in Seq(EncoderEvents)
    BY <1>1, <1>3
  <1>5. Cardinality({}) = 0 /\ <<>> \in Seq(EncoderEvents)
    BY FS_EmptySet
  <1> QED BY <1>2, <1>4, <1>5

(***************************************************************************)
(* The event queue: what an announcement adds to the outputs that wait,    *)
(* and what taking the first event removes from them.                      *)
(***************************************************************************)
LEMMA HavesOfAppend ==
  ASSUME NEW s \in Seq(EncoderEvents), NEW e \in EncoderEvents
  PROVE  /\ IsFiniteSet(Haves(s)) /\ Cardinality(Haves(s)) \in Nat
         /\ Cardinality(Haves(Append(s, e))) =
              Cardinality(Haves(s)) + (IF e = "have" THEN 1 ELSE 0)
  <1>1. IsFiniteSet(Haves(s)) /\ Cardinality(Haves(s)) \in Nat
    <2>1. IsFiniteSet(1 .. Len(s))
      BY FS_Interval
    <2>2. Haves(s) \subseteq 1 .. Len(s)
      BY DEF Haves
    <2> QED BY <2>1, <2>2, FS_Subset, FS_CardinalityType
  <1>2. CASE e = "have"
    <2>1. Haves(Append(s, e)) = Haves(s) \cup {Len(s) + 1}
      BY <1>2 DEF Haves
    <2>2. Len(s) + 1 \notin Haves(s)
      BY DEF Haves
    <2> QED BY <1>1, <1>2, <2>1, <2>2, FS_AddElement
  <1>3. CASE e # "have"
    <2>1. Haves(Append(s, e)) = Haves(s)
      BY <1>3 DEF Haves
    <2> QED BY <1>1, <1>3, <2>1
  <1> QED BY <1>1, <1>2, <1>3

\* Taking an event off the encoder's queue takes away exactly the output it
\* announced, if it announced one.
LEMMA HavesOfTail ==
  ASSUME NEW s \in Seq(EncoderEvents), s # <<>>
  PROVE  /\ Tail(s) \in Seq(EncoderEvents) /\ Head(s) \in EncoderEvents
         /\ Cardinality(Haves(s)) =
              Cardinality(Haves(Tail(s))) + (IF Head(s) = "have" THEN 1 ELSE 0)
  <1>1. Tail(s) \in Seq(EncoderEvents) /\ Head(s) \in EncoderEvents
    OBVIOUS
  <1> DEFINE Rest == Haves(s) \ {1}
             shift == [i \in Haves(Tail(s)) |-> i + 1]
  <1>2. IsFiniteSet(Haves(s)) /\ IsFiniteSet(Haves(Tail(s)))
    BY <1>1, HavesOfAppend DEF EncoderEvents
  <1>3. shift \in Bijection(Haves(Tail(s)), Rest)
    <2>1. shift \in [Haves(Tail(s)) -> Rest]
      BY DEF Haves
    <2>2. \A i, j \in Haves(Tail(s)) : shift[i] = shift[j] => i = j
      BY <1>1 DEF Haves
    <2>3. ASSUME NEW k \in Rest
          PROVE  \E i \in Haves(Tail(s)) : shift[i] = k
      <3>1. k - 1 \in Haves(Tail(s))
        BY <2>3 DEF Haves
      <3>2. shift[k - 1] = k
        BY <2>3, <3>1 DEF Haves
      <3> QED BY <3>1, <3>2
    <2> QED BY <2>1, <2>2, <2>3, Fun_IsBij
  <1>4. Cardinality(Rest) = Cardinality(Haves(Tail(s)))
    <2>1. ExistsBijection(Haves(Tail(s)), Rest)
      BY <1>3 DEF ExistsBijection
    <2> HIDE DEF Rest
    <2> QED BY <1>2, <2>1, FS_Bijection
  <1>5. CASE Head(s) = "have"
    <2>1. 1 \in Haves(s)
      BY <1>5 DEF Haves
    <2> QED BY <1>1, <1>2, <1>4, <1>5, <2>1, FS_RemoveElement, FS_CardinalityType
  <1>6. CASE Head(s) # "have"
    <2>1. Rest = Haves(s)
      BY <1>6 DEF Haves
    <2>2. Cardinality(Haves(Tail(s))) \in Nat
      BY <1>2, FS_CardinalityType
    <2> HIDE DEF Rest
    <2> QED BY <1>1, <1>4, <1>6, <2>1, <2>2
  <1> QED BY <1>1, <1>5, <1>6

-----------------------------------------------------------------------------
(***************************************************************************)
(* Actions that run the encode test, and what every other action leaves    *)
(* alone.                                                                  *)
(***************************************************************************)
EncodeSteps ==
    \/ Startup \/ Encoding \/ EncodeFails
    \/ EncoderAsks \/ EncoderProduces \/ EncoderDrains

\* Only the steps of the encode test touch the encoder, and no other step enters
\* or leaves the test.
LEMMA OthersLeaveTheEncoder ==
  ASSUME Typed, [Next]_vars, ~EncodeSteps
  PROVE  /\ UNCHANGED encoderVars
         /\ wpc' = wpc \/ (wpc \notin Testing /\ wpc' \notin Testing)
  <1> USE DEF Testing, encoderVars
  <1>1. CASE Apartment \/ Serve \/ WorkerExits
    BY <1>1 DEF Apartment, Serve, WorkerExits
  <1>2. CASE PrepareProbe \/ StartProbe \/ FinishProbe
    BY <1>2 DEF PrepareProbe, StartProbe, FinishProbe, ProbeEnds
  <1>3. CASE FrameArrives
    BY <1>3 DEF FrameArrives
  <1>4. CASE SpawnEnds
    BY <1>4 DEF SpawnEnds
  <1>5. ASSUME NEW c \in Callers, Caller(c)
        PROVE  /\ UNCHANGED encoderVars
               /\ wpc' = wpc \/ (wpc \notin Testing /\ wpc' \notin Testing)
    BY <1>5 DEF Caller, Ask, Spawn, HasWorker, Send, Receive, Typed, TypedWorker
  <1>6. CASE UNCHANGED vars
    BY <1>6 DEF vars
  <1> QED BY <1>1, <1>2, <1>3, <1>4, <1>5, <1>6 DEF EncodeSteps, Next, Worker, Environment

\* Every step keeps the types of the worker's own state.
LEMMA TypedWorkerStep ==
  ASSUME Typed, [Next]_vars
  PROVE  TypedWorker'
  <1> USE DEF Typed, TypedWorker, Testing, Probing, callerVars, workerOnly
  <1>1. CASE Apartment \/ Startup \/ WorkerExits \/ Serve
    BY <1>1 DEF Apartment, Startup, WorkerExits, Serve
  <1>2. CASE Activate \/ NeedInput \/ HaveOutput \/ DrainComplete
    BY <1>2 DEF Activate, NeedInput, HaveOutput, DrainComplete, EncodeEnds
  <1>3. CASE EncodeTimesOut \/ EncodeFails \/ SubmitSync \/ DrainSync
    BY <1>3 DEF EncodeTimesOut, EncodeFails, SubmitSync, DrainSync, EncodeEnds
  <1>4. CASE NextActivation
    BY <1>4 DEF NextActivation
  <1>5. CASE EncoderAsks \/ EncoderProduces \/ EncoderDrains
    BY <1>5 DEF EncoderAsks, EncoderProduces, EncoderDrains, EncoderSays
  <1>6. CASE FrameArrives \/ SpawnEnds
    BY <1>6 DEF FrameArrives, SpawnEnds
  <1>7. CASE PrepareProbe \/ StartProbe \/ FinishProbe
    BY <1>7 DEF PrepareProbe, StartProbe, FinishProbe, ProbeEnds
  <1>8. ASSUME NEW c \in Callers, Caller(c)
        PROVE  TypedWorker'
    BY <1>8 DEF Caller, Ask, Spawn, HasWorker, Send, Receive
  <1>9. CASE UNCHANGED vars
    BY <1>9 DEF vars
  <1> QED BY <1>1, <1>2, <1>3, <1>4, <1>5, <1>6, <1>7, <1>8, <1>9
          DEF Next, Worker, Environment, Encoding

\* Every step keeps the types of the encoder's state; the counts need EncoderInv.
LEMMA TypedEncoderStep ==
  ASSUME Typed, EncoderInv, [Next]_vars
  PROVE  TypedEncoder'
  <1> USE DEF Typed, TypedEncoder
  <1>1. CASE Startup
    BY <1>1, ProbeAssumption DEF Startup
  <1>2. CASE Activate
    <2>1. async' \in BOOLEAN /\ outcome' \in {"ok", "err"}
      BY <1>2 DEF Activate, EncodeEnds
    <2>2. events' = <<"need">> \/ events' = <<>>
      BY <1>2 DEF Activate
    <2>3. events' \in Seq(EncoderEvents)
      BY <2>2, ShortQueues
    <2> QED BY <1>2, <2>1, <2>3 DEF Activate
  <1>3. CASE NeedInput
    <2>1. draining' \in BOOLEAN
      BY <1>3 DEF NeedInput
    <2>2. events' \in Seq(EncoderEvents)
      BY <1>3, HavesOfTail DEF NeedInput
    <2>3. sent' \in Nat /\ held' \in Nat
      BY <1>3 DEF NeedInput
    <2> QED BY <1>3, <2>1, <2>2, <2>3 DEF NeedInput
  <1>4. CASE HaveOutput
    <2>1. events' \in Seq(EncoderEvents)
      BY <1>4, HavesOfTail DEF HaveOutput, EncoderEvents
    <2>2. units' \in Nat /\ empty' \in Nat
      BY <1>4 DEF HaveOutput, Taken
    <2> QED BY <1>4, <2>1, <2>2 DEF HaveOutput
  <1>5. CASE DrainComplete \/ EncodeTimesOut \/ EncodeFails
    BY <1>5 DEF DrainComplete, EncodeTimesOut, EncodeFails, EncodeEnds
  <1>6. CASE SubmitSync
    <2>1. draining' \in BOOLEAN
      BY <1>6 DEF SubmitSync
    <2>2. sent' \in Nat /\ held' \in Nat /\ units' \in Nat /\ empty' \in Nat
      BY <1>6 DEF SubmitSync, Taken
    <2> QED BY <1>6, <2>1, <2>2 DEF SubmitSync
  <1>7. CASE DrainSync
    BY <1>7 DEF DrainSync, EncodeEnds, Taken
  <1>8. CASE NextActivation
    <2>1. left' \in Nat
      BY <1>8 DEF NextActivation, EncoderInv, Testing
    <2> QED BY <1>8, <2>1, ShortQueues DEF NextActivation
  <1>9. CASE EncoderAsks \/ EncoderProduces \/ EncoderDrains
    <2>1. PICK e \in EncoderEvents : EncoderSays(e)
      BY <1>9 DEF EncoderAsks, EncoderProduces, EncoderDrains, EncoderEvents
    <2>2. events' \in Seq(EncoderEvents)
      BY <2>1 DEF EncoderSays
    <2>3. held' \in Nat
      BY <1>9 DEF EncoderAsks, EncoderProduces, EncoderDrains
    <2> QED BY <2>1, <2>2, <2>3 DEF EncoderSays
  <1>10. CASE ~EncodeSteps
    BY <1>10, OthersLeaveTheEncoder DEF encoderVars
  <1> QED BY <1>1, <1>2, <1>3, <1>4, <1>5, <1>6, <1>7, <1>8, <1>9, <1>10
          DEF EncodeSteps, Encoding

(***************************************************************************)
(* Each activation is shut down before the next is tried.                  *)
(***************************************************************************)
LEMMA EncoderStep ==
  ASSUME ProbeInv, [Next]_vars
  PROVE  EncoderInv'
  <1> USE DEF ProbeInv, EncoderInv, Testing
  <1>1. CASE Startup
    BY <1>1 DEF Startup, Typed, TypedEncoder
  <1>2. CASE Activate
    BY <1>2 DEF Activate, EncodeEnds
  <1>3. CASE NeedInput \/ HaveOutput \/ DrainComplete \/ EncodeTimesOut \/ EncodeFails
    BY <1>3 DEF NeedInput, HaveOutput, DrainComplete, EncodeTimesOut, EncodeFails, EncodeEnds
  <1>4. CASE SubmitSync \/ DrainSync
    BY <1>4 DEF SubmitSync, DrainSync, EncodeEnds
  <1>5. CASE NextActivation
    BY <1>5 DEF NextActivation, ShutdownObject, Typed, TypedEncoder
  <1>6. CASE EncoderAsks \/ EncoderProduces \/ EncoderDrains
    BY <1>6 DEF EncoderAsks, EncoderProduces, EncoderDrains, EncoderSays
  <1>7. CASE ~EncodeSteps
    BY <1>7, OthersLeaveTheEncoder DEF encoderVars
  <1> QED BY <1>1, <1>2, <1>3, <1>4, <1>5, <1>6, <1>7 DEF EncodeSteps, Encoding

(***************************************************************************)
(* The encode test: every frame sent stays accounted for, and the drain is *)
(* reported only when nothing is left inside or announced.                 *)
(***************************************************************************)
LEMMA EncodeStep ==
  ASSUME ProbeInv, [Next]_vars
  PROVE  EncodeInv'
  <1> USE DEF ProbeInv, EncodeInv, BatchIsComplete
  <1>0. /\ events \in Seq(EncoderEvents) /\ sent \in Nat /\ units \in Nat /\ held \in Nat
        /\ empty \in Nat /\ async \in BOOLEAN
        /\ Frames \in Nat /\ Cardinality(Haves(events)) \in Nat
    BY ProbeAssumption, HavesOfAppend DEF Typed, TypedEncoder, EncoderEvents
  <1>1. CASE Startup
    BY <1>1 DEF Startup, Clean
  <1>2. CASE Activate
    <2>1. Clean /\ UNCHANGED <<sent, draining, units, empty, held>>
      BY <1>2 DEF Activate, workerOnly
    <2>2. CASE wpc' = "encode"
      <3>1. events' = (IF async' THEN <<"need">> ELSE <<>>)
        BY <1>2, <2>2 DEF Activate
      <3>2. Cardinality(Haves(events')) = 0
        BY <3>1, ShortQueues
      <3>3. \A i \in DOMAIN events' : events'[i] # "drained"
        BY <3>1
      <3>4. Balanced'
        BY <1>0, <2>1, <3>1, <3>2, <3>3 DEF Balanced, Clean
      <3> QED BY <2>2, <3>4
    <2>3. CASE wpc' = "shutdown" /\ outcome' = "err"
      BY <2>3
    <2> QED BY <1>2, <2>2, <2>3 DEF Activate, EncodeEnds
  <1>3. CASE NeedInput
    <2>1. /\ wpc = "encode" /\ async /\ Balanced
          /\ events # <<>> /\ Head(events) = "need" /\ events' = Tail(events)
          /\ wpc' = "encode" /\ units' = units /\ empty' = empty /\ async' = async
      BY <1>3 DEF NeedInput
    <2>2. Cardinality(Haves(events')) = Cardinality(Haves(events))
      <3>1. Cardinality(Haves(events')) \in Nat
        BY <1>0, <2>1, HavesOfTail, HavesOfAppend DEF EncoderEvents
      <3> QED BY <1>0, <2>1, <3>1, HavesOfTail
    <2>3. \A i \in DOMAIN events' : events'[i] # "drained"
      <3>1. \A i \in DOMAIN events : events[i] # "drained"
        BY <2>1 DEF Balanced
      <3> QED BY <1>0, <2>1, <3>1
    <2>4. Balanced'
      BY <1>0, <1>3, <2>1, <2>2, <2>3 DEF Balanced, NeedInput, MoreToSend
    <2> QED BY <2>1, <2>4
  <1>4. CASE HaveOutput
    <2>1. /\ wpc = "encode" /\ async /\ Balanced /\ events # <<>> /\ Head(events) = "have"
          /\ wpc' = "encode" /\ sent' = sent /\ held' = held /\ draining' = draining
          /\ async' = async
      BY <1>4 DEF HaveOutput
    <2>2. \A i \in DOMAIN events : events[i] # "drained"
      BY <2>1 DEF Balanced
    <2>3. Tail(events) \in Seq(EncoderEvents) /\ "have" \in EncoderEvents
      BY <1>0, <2>1, HavesOfTail DEF EncoderEvents
    <2>4. Cardinality(Haves(Tail(events))) \in Nat
      BY <2>3, HavesOfAppend
    <2>5. Cardinality(Haves(events)) = Cardinality(Haves(Tail(events))) + 1
      BY <1>0, <2>1, HavesOfTail
    <2>6. CASE events' = Tail(events) /\ Taken(1)
      <3>1. \A i \in DOMAIN events' : events'[i] # "drained"
        BY <1>0, <2>1, <2>2, <2>6
      <3>2. Balanced'
        BY <1>0, <2>1, <2>4, <2>5, <2>6, <3>1 DEF Balanced, Taken
      <3> QED BY <2>1, <3>2
    <2>7. CASE events' = Append(Tail(events), "have") /\ UNCHANGED <<units, empty>>
      <3>1. \A i \in DOMAIN events' : events'[i] # "drained"
        BY <1>0, <2>1, <2>2, <2>3, <2>7
      <3>2. Cardinality(Haves(events')) = Cardinality(Haves(Tail(events))) + 1
        BY <2>3, <2>7, HavesOfAppend
      <3>3. Balanced'
        BY <1>0, <2>1, <2>4, <2>5, <2>7, <3>1, <3>2 DEF Balanced
      <3> QED BY <2>1, <3>3
    <2> QED BY <1>4, <2>6, <2>7 DEF HaveOutput
  <1>5. CASE DrainComplete
    <2>1. /\ wpc = "encode" /\ async /\ Balanced /\ events # <<>> /\ Head(events) = "drained"
          /\ wpc' = "shutdown" /\ UNCHANGED <<sent, units, empty, held, async>>
      BY <1>5 DEF DrainComplete, EncodeEnds
    <2>2. draining /\ held = 0 /\ events = <<"drained">>
      BY <1>0, <2>1 DEF Balanced
    <2>3. sent = units + empty + held + 0 /\ sent = Frames
      BY <2>1, <2>2, ShortQueues DEF Balanced
    <2> QED BY <1>0, <2>1, <2>2, <2>3
  <1>6. CASE EncodeTimesOut \/ EncodeFails
    BY <1>6 DEF EncodeTimesOut, EncodeFails, EncodeEnds
  <1>7. CASE SubmitSync
    <2>1. /\ wpc = "encode" /\ ~async /\ Balanced /\ events = <<>>
          /\ UNCHANGED <<wpc, async, events>>
      BY <1>7 DEF SubmitSync, Balanced
    <2>2. sent = units + empty + held + 0 /\ Cardinality(Haves(events')) = 0
      BY <2>1, ShortQueues DEF Balanced
    <2>3. sent' = units' + empty' + held' + 0 /\ sent' <= Frames /\ (draining' => sent' = Frames)
      <3>1. CASE MoreToSend
        <4>1. PICK n \in 0 .. held + 1 : /\ sent' = sent + 1 /\ held' = held + 1 - n /\ Taken(n)
                                         /\ UNCHANGED draining
          BY <1>7, <3>1 DEF SubmitSync
        <4>2. ~draining /\ sent < Frames
          BY <1>7, <3>1 DEF SubmitSync, MoreToSend
        <4> QED BY <1>0, <2>2, <4>1, <4>2 DEF Taken
      <3>2. CASE ~MoreToSend
        BY <1>0, <1>7, <2>1, <2>2, <3>2 DEF SubmitSync, MoreToSend, Balanced
      <3> QED BY <3>1, <3>2
    <2>4. Balanced'
      BY <2>1, <2>2, <2>3 DEF Balanced
    <2> QED BY <2>1, <2>4
  <1>12. CASE DrainSync
    <2>1. /\ wpc = "encode" /\ ~async /\ draining /\ Balanced /\ events = <<>>
          /\ wpc' = "shutdown" /\ UNCHANGED <<async, sent>>
      BY <1>12 DEF DrainSync, EncodeEnds, Balanced
    <2>2. sent = units + empty + held + 0 /\ sent = Frames
      BY <2>1, ShortQueues DEF Balanced
    <2>3. PICK n \in 0 .. held : held' = held - n /\ Taken(n)
      BY <1>12 DEF DrainSync
    <2> QED BY <1>0, <2>1, <2>2, <2>3 DEF Taken
  <1>8. CASE NextActivation
    BY <1>8 DEF NextActivation, Clean
  <1>9. ASSUME NEW e \in EncoderEvents, EncoderSays(e), Balanced,
               e = "have" => held > 0 /\ held' = held - 1,
               e # "have" => held' = held,
               e = "need" => ~draining,
               e = "drained" => draining /\ held = 0 /\ events = <<>>
        PROVE  EncodeInv'
    <2>1. wpc' = "encode" /\ events' = Append(events, e) /\ UNCHANGED <<sent, units, empty, draining, async>> /\ async
      BY <1>9 DEF EncoderSays
    <2>2. Cardinality(Haves(events')) =
            Cardinality(Haves(events)) + (IF e = "have" THEN 1 ELSE 0)
      BY <1>0, <2>1, HavesOfAppend
    <2>3. sent' = units' + empty' + held' + Cardinality(Haves(events'))
      BY <1>0, <1>9, <2>1, <2>2 DEF Balanced
    <2>4. CASE e = "drained"
      <3>1. events' = <<"drained">> /\ draining' /\ held' = 0
        BY <1>9, <2>1, <2>4
      <3> QED BY <1>9, <2>1, <2>3, <3>1 DEF Balanced
    <2>5. CASE e # "drained"
      <3>1. \A i \in DOMAIN events : events[i] # "drained"
        BY <1>9, <2>5 DEF Balanced, EncoderEvents
      <3>2. \A i \in DOMAIN events' : events'[i] # "drained"
        BY <1>0, <2>1, <2>5, <3>1
      <3> QED BY <1>9, <2>1, <2>3, <3>2 DEF Balanced
    <2> QED BY <2>4, <2>5
  <1>10. CASE EncoderAsks \/ EncoderProduces \/ EncoderDrains
    <2>1. wpc = "encode" /\ async
      BY <1>10 DEF EncoderAsks, EncoderProduces, EncoderDrains, EncoderSays
    <2>2. Balanced
      BY <2>1
    <2>3. CASE EncoderAsks
      BY <1>9, <2>2, <2>3 DEF EncoderAsks, EncoderEvents
    <2>4. CASE EncoderProduces
      BY <1>9, <2>2, <2>4 DEF EncoderProduces, EncoderEvents
    <2>5. CASE EncoderDrains
      BY <1>9, <2>2, <2>5 DEF EncoderDrains, EncoderEvents
    <2> QED BY <1>10, <2>3, <2>4, <2>5
  <1>11. CASE ~EncodeSteps
    BY <1>11, OthersLeaveTheEncoder DEF encoderVars, Testing, Clean, Balanced
  <1> QED BY <1>1, <1>2, <1>3, <1>4, <1>5, <1>6, <1>7, <1>8, <1>10, <1>11, <1>12
          DEF EncodeSteps, Encoding

-----------------------------------------------------------------------------
(***************************************************************************)
(* The invariant of the diagnostics worker holds in every state.           *)
(***************************************************************************)
THEOREM ProbeInvariant == Spec => []ProbeInv
  <1>1. Init => ProbeInv
    <2> SUFFICES ASSUME Init PROVE ProbeInv
      OBVIOUS
    <2>1. Typed
      <3>2. TypedWorker
        BY DEF Init, TypedWorker
      <3>3. TypedEncoder
        BY ShortQueues DEF Init, TypedEncoder
      <3> QED BY <3>2, <3>3 DEF Typed
    <2>2. EncoderInv /\ EncodeInv
      BY DEF Init, EncoderInv, EncodeInv, BatchIsComplete, Clean, Testing
    <2> QED BY <2>1, <2>2 DEF ProbeInv
  <1>2. ProbeInv /\ [Next]_vars => ProbeInv'
    <2> SUFFICES ASSUME ProbeInv, [Next]_vars PROVE ProbeInv'
      OBVIOUS
    <2>1. Typed'
      BY TypedWorkerStep, TypedEncoderStep DEF Typed, ProbeInv
    <2> QED BY <2>1, EncoderStep, EncodeStep DEF ProbeInv
  <1> QED BY <1>1, <1>2, PTL DEF Spec

(***************************************************************************)
(* An encoder passes its test only when every frame of the batch was given *)
(* to it and is accounted for, and an asynchronous one has nothing left    *)
(* inside, for every length of the batch and number of encoders.           *)
(***************************************************************************)
THEOREM BatchesAreComplete == Spec => []BatchIsComplete
  <1>1. ProbeInv => BatchIsComplete
    BY DEF ProbeInv, EncodeInv
  <1> QED BY <1>1, ProbeInvariant, PTL

(***************************************************************************)
(* At most one hardware encoder is open at any time, however many there    *)
(* are to try, and none while the worker serves.                           *)
(***************************************************************************)
THEOREM EncodersTakeTurns == Spec => []OneEncoderAtATime
  <1>1. ProbeInv => OneEncoderAtATime
    BY DEF ProbeInv, EncoderInv, OneEncoderAtATime, Testing
  <1> QED BY <1>1, ProbeInvariant, PTL

=============================================================================
