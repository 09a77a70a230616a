# LadoFlow: formal models, checks and proofs

LadoFlow turns an Android device into a wired display of a Windows desktop. This
directory models its control logic in TLA+, model-checks small instances with
TLC and proves the central results for every instance with TLAPS. Source paths
are relative to the repository; `core`, `transport`, `media` and `protocol` are
the crates `crates/ladoflow-*`.

## 1. Inventory

| Part | State it keeps | Operations | Interacts with | What makes it correct |
|---|---|---|---|---|
| Logical session (`core/session.rs`) | phase, agreement, generation, attempts, receive cursor | start, establish, observe_sequence, transport_lost, schedule_reconnect, begin_reconnect, close | called by a host or display loop | one agreement per stream, exact gaps, stable resume point, bounded retries, monotone backoff |
| Packet link (`transport/loopback.rs`, `packet.rs`, `transport.rs`) | connection flag, four bounded queues with a byte counter each | try_send, try_receive, disconnect, reconnect from both ends | between every application thread and its I/O worker | no loss but supersession, order, exact reports |
| LDFL stream (`transport/ldfl_stream.rs`) | decoder buffer, one held-back frame per lane | push, mux next | used by both I/O workers | lane order, global order |
| TCP transport (`transport/tcp.rs`) | worker loop, pending write, frames held back, status | worker iteration, shutdown, drop | socket, link | ordered lanes under partial writes and back pressure, shutdown returns |
| USB bulk pump (`platform/windows/usb_accessory.rs`) | worker loop, status | worker iteration, stop | libusb, link | as above, and a full lane costs the link |
| USB accessory manager (same file) | current session, status | prepare, reconnect, disconnect, close_runtime_session | called by window, tray and session workers | no link without an owner |
| Desktop runtime (`runtime.rs`) | phase, transport, session, worker slot, paired socket | start, stop, pair, disconnect; session workers with recovery | manager, links, capture, input | no orphan worker, commands that return, recovery that ends |
| Shell and window (`shell.rs`, `commands.rs`, `main.ts`) | snapshot shown, busy flag | commands, tray, quit, polling | runtime | only legal commands are offered |
| Host negotiation (`host_protocol.rs`, `core/negotiation.rs`) | peer's hello and capabilities, highest sequence | one per message, a deadline | both session loops | order, a configuration both ends can show |
| Pairing (`transport/pairing.rs`, `tether.rs`, Android `transport/tether`) | code, nonces, failed attempts, expiry | pair, accept, hello, finished, expire | socket, session | exactly the shown code pairs, the socket is handed over clean |
| Android session and mux (`session/`) | handshake step, highest sequence, three outbound lanes | one per frame or transport event | transport, decoder, input | frames in turn, releases get through |
| Input (Android `input/`, `input_injector.rs`, `protocol/input.rs`) | items and contacts down on either side | user events, codec, inject, release_all | session, Windows | nothing stays pressed, exact mapping |
| Capture stream (`capture_stream.rs`, `video_processor.rs`, `media_foundation.rs`, `windows.rs`) | frame pool, processor, encoder, batch channel, cancel flag | start, frame callback, convert, encode, deliver, drop | runtime, Windows | clean end, encoder contract, bounded catch-up, join returns |
| Capture probe (`windows.rs`, `media_foundation.rs`) | one worker, command queue, encoder diagnostics | status, encode test, screen probe | window | only complete batches pass, no encoder kept, calls end |
| Virtual display client (`virtual_display.rs`, `windows.rs`) | cached status, running controller, mode alignment | status, enable, disable, prepare_capture_display_mode | controller process, monitors | disabled stays disabled, an alignment is of our monitor |
| Display service and controller (`platform/windows/idd`) | service state, one pipe instance, device | status, enable, disable, stop | SCM, plug and play | requests in order, none executed twice |
| Frame scheduler (`media/scheduler.rs`, `metadata.rs`) | one queued frame, next slot, metrics | submit, poll, take_metrics | loopback pipeline of the runtime | newest due slot, newest frame, exact counts |
| Android USB transport, decoder, user interface | state flow, generation, queues, surface | attach, permission, open, decode | Android services | nothing of an old connection reaches a new one |
| Quality and telemetry (`core/quality.rs`, `telemetry.rs`) | window, hysteresis | observe, snapshot | not called by the desktop yet | bounded, no oscillation |

Hard behaviours: several threads on one mutex each and joins between them
(runtime, manager, links, capture); flags raised by one thread and seen by
another at the top of a loop; partial writes, full queues and a peer that
disappears at any point; processes that are killed at a deadline while their
request lives on; answers that arrive after the next question; reconnection with
a deadline; a state read in one critical section and used in the next; integer
time lines and counters at their end. `PROJECT.json` lists the hazards line by
line with the property that covers each.

## 2. Modules

| Module | Models | Correspondence |
|---|---|---|
| `Session` | `core/session.rs` | one action per method; a call the phase forbids changes nothing and is a stutter. `decision`, `accepted`, `skipped`, `dials` are histories. |
| `PacketQueue` | `BoundedQueue` | operators on a queue value; `bytes` stays a field of its own, as in the code. `Retain` and `TotalBytes` are recursive functions, so that the proofs can reason about them. |
| `Link` | `LoopbackEndpoint` | every method holds the mutex for its body and is one action. |
| `LdflStream` | the state an application thread and an I/O worker share, the mux | `Takes` and `SlotAfter` per lane: the two critical sections of `LdflPacketMux::next` are separate steps. |
| `OrderedLanes` | what `PacketTransport` promises | abstract: each lane is a first-in first-out channel, lost only with the connection. |
| `TcpPump` | `tcp.rs` worker | `pc` follows the loop; a step ends at each critical section and socket call. |
| `UsbBulkPump` | `run_bulk_session`, `pump_bulk_stream` | the same for bulk transfers. |
| `HostRuntime` | `runtime.rs`, the manager, tray and window | processes are callers, session workers and link workers; a process stops between any two critical sections. A link worker is reduced to up, down, done: the behaviour the two pump modules establish. |
| `Pairing` | `pairing.rs`, `tether.rs`, `TetherPairingServer.kt` | one step per record read or refused; sockets left by earlier calls stay in the backlog. |
| `Connect` | `host_protocol.rs`, `negotiation.rs`, the session loop of `runtime.rs`, `AndroidDisplaySession.kt` | extends `Pairing`; one step per frame sent or handled; the wire is the authenticated socket. `disp.pics` follows the pictures from the queue for the surface to what the decoder did with them. |
| `Input` | Android controller and mux, codec, `handle_usb_control`, `input_injector.rs` | one step per user event, frame sent, frame handled; `showing` is what `submitInput` tests, `lost` the history of what it discarded; Windows' own state is kept beside the injector's. |
| `Capture` | `CapturedH264Stream` and its worker | `wpc` follows the worker; the frame callback, the encoder and the owner are processes of their own. |
| `CaptureProbe` | `CaptureWorker`, its callers | `wpc` follows the worker through its start, the encode test and its commands; `pc[c]` follows a caller. |
| `DisplayService` | `idd/service/main.cpp`, `idd/controller/main.cpp` | one service, one pipe instance, one controller process per call. |
| `VirtualDisplay` | `virtual_display.rs`, `prepare_capture_display_mode` | extends `DisplayService`; `call[c]` follows a host call, `align` the session worker, with the monitor that has the device name it looked up (`Holder`). |
| `FrameScheduler` | `scheduler.rs`, `FrameRate` | `Submit`, `Poll`, `TakeMetrics`; `Poll` is `FramePacer::poll` and what becomes of the frame, in one step, as in the code. |
| `SessionProofs`, `LinkProofs`, `ConnectProofs`, `HostRuntimeProofs`, `CaptureProofs`, `CaptureProbeProofs`, `VirtualDisplayProofs`, `TrafficProofs` | | the proofs: each extends the module it is about; `TrafficProofs` extends `FrameScheduler` and `Input`, and `LinkProofs` instantiates both pumps beside `Link`. |
| `MC...` | | values for the constants, symmetry. |

Definitions whose comment begins "Mutant" are altered copies of the definition
after them. They are used by no specification; substituting one must break the
property `PROJECT.json` names, which shows that the property depends on that
line of code.

### Composition and refinement

* `TcpPump` and `UsbBulkPump` extend `LdflStream`, which extends `PacketQueue`;
  `Link` extends `PacketQueue` as well. Both pumps implement `OrderedLanes` in
  each direction (`OutboundIsOrdered`, `InboundIsOrdered`): `transit` maps to the
  pending write, the mux's slot and the queue outbound, and to the queue, the
  frames held back and the stream inbound. Application and socket steps map to
  `Accept` and `Arrive`, the end of the link to `Close`, everything else stutters.
* `HostRuntime` uses what those modules show of a link: a worker that was
  cancelled ends (`ShutdownReturns`, `StopReturns`), disconnects before it
  reports, and leaves `Ready` only if it was cancelled and the interface was
  released.
* `Connect` composes pairing, negotiation and the first frames of a session on
  one socket, so that a byte read too early or a timeout left behind is seen by
  the next protocol.
* `VirtualDisplay` composes the host's calls with the controllers they run, the
  service, the monitor and the session worker that aligns its mode.
* `Input` composes the display's mux with the host's dispatch and injector.

## 3. Runs

Bounds are named constants. In each instance the interesting limit is reached.

| Run | Question | Bounds and why they are enough |
|---|---|---|
| `session` | Do losses, failed negotiations, resumes and restarts keep cursor and agreement consistent? | two agreements; sequences 0..3, so gaps, duplicates and stale frames; 3 generations, so two reconnects and the exhausted counter; a multiplier of two bits and four attempts; a policy without reconnects. |
| `link` | Is anything lost, reordered or misreported? | four packets, two connections, two keys, sizes on both sides of the packet and of the byte limit. |
| `tcp_pump` | Does the worker implement ordered lanes; does shutdown return; is what was accepted written? | three frames of two chunks out and two frames in, a control lane of two frames and a media lane of one: full queues, partial writes and held-back frames all occur. |
| `usb_bulk` | The same for bulk transfers, and does stop return? | three frames out, so that one lane waits behind a held-back frame; a transfer of two frames in can overrun a lane of one. |
| `host` | Can window and tray lose a worker or a link, does every command return and recovery end? | four commands, two session workers, two links: start, disconnect, start again while the first worker winds down; no symmetry, as liveness needs. |
| `connect` | Does exactly the shown code pair; what reaches the other protocol; is the configuration one both can show; does every wait end? | three pairing calls against two failures allowed, so lockout and a stale socket happen; a queue of two, two video frames, a history of one and two reports, so that pongs come between frames and telemetry names a forgotten one; one token; five displays and three requests, so that a mode fits, is replaced with and without its shape, or none fits. One small display streams; the decoders of those with larger modes refuse after the configuration was chosen. The queue for the surface has two places: pictures wait, are cleared uncounted or shown late; a third picture that overflows it is left to the theorem, which holds for every length. |
| `input` | Can anything stay pressed; does every release arrive; is the mapping exact? | four user events, a decoder that stops and resumes showing between them, a coalescible lane of one and a wire of two, two contacts, a button and a key; mappers of small extents with negative and positive origins and one-pixel edges. |
| `capture` | Does the stream end cleanly, keep the encoder's contract, bound its catch-up, follow a resize and join? | two sizes, a frame queue and a batch channel of one, two pool buffers, two open input requests. |
| `probe` | Is a batch that passes complete, are encoders released, and do calls end? | two callers with two commands each on a queue of one, so that a sender waits behind an encode test; two encoders, so that there is one to fall back to; two frames. |
| `vdisplay` | Does a disable stay in force; what can an alignment change; do calls return; does the cache catch up? | the poller and two actions, shared by the enables and disables of one caller and by sessions that align the mode; one fault and one service stop, so that a controller is killed, its request executed late, and the opposite asked meanwhile. Two sizes, one of them not advertised and the other the one the physical monitor is in; device names may move at any step of an alignment. |
| `scheduler` | Does pacing skip, repeat or anticipate a slot; does the queue keep the newest frame? | rates 3/2, 1 and 5 at four units per second: slots that do not fall on a unit, that do, and several per unit; the last slot and the time limit are reached. |

Runs whose behaviours can end (a thread that stops, a user who issues no more
commands, a bounded clock) switch the deadlock check off; `session` and `link`
keep it.

One run shows a statement of the repository that the code does not keep.
`tcp_order`: the mux looks into the control queue and then into the media queue.
A control frame and then a media frame queued in between leave in the wrong
order, although the comment promises the globally earliest frame. In a session
this is a Pong overtaken by a later video frame: the display has passed its
sequence, answers with a protocol error (`AndroidDisplaySession.kt:305`) and the
session ends. `Connect` takes the stream in the order the host queued it, so its
`NeverOutOfTurn` is about everything above the mux: it promises that the host
gives no other reason to be refused.

### Behaviours the models show without a run of their own

* `last_error` of the TCP status is set after a clean close as well
  (`tcp.rs:228`); its comment says it is not.
* After a failed direct USB attempt pairing over USB tethering fails, because the
  manager's disconnect returns the old failure (`runtime.rs:326`).
* Quit can ask for the virtual display to be disabled while a session worker is
  alive, because disconnect reads the phase once (`runtime.rs:349`).
* The End of a touch travels on another lane than its Moves; a Move it overtakes
  is refused by the host and ends the session (`input_injector.rs:261`).
  `NothingStuck` shows that nothing stays down.
* A surface of the old size that carries content of the new one ends the capture
  stream (`video_processor.rs:168`); `ResizeIsFollowed` counts that as an end.
* A synchronous encoder whose drain runs into the timeout counts as verified
  (`media_foundation.rs:886`), and so does one that answers with empty units or
  none (`media_foundation.rs:817`, `961`): `BatchIsComplete` accounts for every
  frame, as a unit, an empty unit or one still inside, and says that nothing is
  still inside an asynchronous encoder that passed.
* A synchronous encoder that goes on returning output and never asks for input
  holds the worker in `encode_texture_sync` (`media_foundation.rs:411`), which
  looks at neither a deadline nor the cancel flag, and with it the join in `Drop`.
  `DropReturns` and `ResizeIsFollowed` except exactly that (`[]Pulling`).
* While the decoder recovers or has no surface, `submitInput` discards every
  event (`AndroidDisplaySession.kt:540`) although the view goes on sending them.
  A release discarded there leaves its key or button down on the host until the
  next change of that item that is sent, or the loss of focus; a discarded end of
  a touch makes the next touch in its slot an error that ends the session.
  `apps/android/docs/input-and-rotation.md:33` has critical events wait for room
  and only coalescible ones dropped; it does not mention this. `NothingStuck` and `ReleaseArrives` except what was discarded
  and not yet made good (`lost`).
* Pictures cleared from the queue for the surface (`AndroidDisplaySession.kt:718`)
  and some that the decoder drops are counted by nobody, so the host's
  `frames_presented` may exceed the pictures shown. `NeverOutOfTurn` bounds it by
  the pictures shown and those uncounted ones.
* A decoder that has failed for good leaves the host streaming: no Error frame
  tells it.
* The alignment looks a monitor up and then changes the mode of the device name
  it found (`windows.rs:598`, `763`). When monitors come or go in between, the
  name may be another monitor's, whose mode is then changed, although the comment
  at `windows.rs:582` says the guard prevents that. `AlignsOnlyItsOwn` says what
  the guard does give: no other monitor is changed unless the names moved after
  the look-up, and an alignment that waited for the mode reports it only for the
  monitor it looked up.
* A window without a session may go on showing an old status: after its own
  command it refreshes once (`main.ts:761`), possibly from the cache, and it polls
  only while a session runs (`main.ts:547`).
* A claimed interface can be forgotten once the tray is used. The tray's
  disconnect takes the worker out of the slot before it cancels it; a stop of the
  window in between finds the slot empty and returns, and the window's prepare
  then runs beside the reconnect of the worker that is still recovering. Both
  open an accessory, and `*self.lock_session() = Some(session)`
  (`usb_accessory.rs:214`) overwrites the one published first: `AccessorySession`
  has no `Drop`, so its interface stays claimed until the process ends. It takes
  three links and five commands, more than the run has; the proof attempt found
  it. `EveryLinkHasOwner` is therefore about sockets always and about interfaces
  until the tray is first used.
* `FreshGeneration` holds until the tray is used. With the tray a worker whose
  link was taken away between two of its steps may see a new one before it
  notices; whether that happens depends on how long the window takes to prepare a
  link, and the model has no clock.

## 4. Fairness

* Pumps: weak fairness of the thread. The loops sleep for a bounded time and
  every socket call or bulk transfer is nonblocking or has a timeout, so a
  scheduled thread completes each step. `ShutdownReturns` and `StopReturns` need
  no more, whether the peer reads or not. `AcceptedReachesWire` alone has
  `SocketAccepts` as its antecedent: a socket asked again and again takes a chunk
  (strong fairness of `WriteChunk`), without which nothing can be promised.
* `HostRuntime`: weak fairness of each caller and session worker (operating
  system threads), of a cancelled worker leaving its loop (the flag is tested in
  every iteration), of a link worker that is down finishing, and of time passing
  the reconnect deadline.
* `Capture`: the worker runs, the deadline of an encode passes, a join returns
  once the thread has ended, the session loop polls, time passes, frames keep
  arriving while the screen is captured. An asynchronous encoder owes nothing: its
  deadline is in the code. A synchronous one has no deadline, so the properties
  except the behaviours in which it is pulled for ever instead of assuming them
  away.
* `CaptureProbe`: worker and callers inside a call run, deadlines pass. Nothing
  obliges an encoder to answer or a screen to change.
* `Connect`: both programs run, the timeouts of pairing and negotiation fire, the
  two minutes of a code end.
* `Input`: the display's writer, the session loop and the unwinding of a session
  run.
* `VirtualDisplay`: host threads, controllers and the service run, each of their
  waits has a deadline. That the window asks again is not assumed: it has a timer
  only while a session runs. `StatusCatchesUp` has it as its antecedent
  (`WindowPolls`).

The specifications assume nothing of a peer or of Windows but the frame callbacks
of `Capture`, and nothing of the user, of the window's timer or of which outcome
an operation has. The two exceptions are antecedents of single properties: the
socket of `AcceptedReachesWire` and the polling window of `StatusCatchesUp`.

## 5. Proofs

`tlapm X.tla` checks them, for `X` each of `SessionProofs`, `LinkProofs`,
`ConnectProofs`, `HostRuntimeProofs`, `CaptureProofs`, `CaptureProbeProofs`,
`VirtualDisplayProofs` and `TrafficProofs`. Every safety property that a run
finds to hold, invariant, action property or refinement, is stated by a theorem.
A theorem holds for all values of the constants that meet the assumptions of the
module. TLC checked an inductive invariant on the instance of the component's run
before its proof was attempted, but for the shapes of the two pumps. Where a
theorem says more than a run could (`TypeCorrect`, `BudgetIsKept`,
`BackoffIsMonotone`, `NothingAcceptedTwice`, `NothingUncounted`,
`CountersAreExact`, `EveryMappingExact`) the property is left to the proof.

Two attempts failed for a good reason. `EveryLinkHasOwner` was false beyond the
bounds of its run (section 3). And `DisabledStaysDisabled` was stated over a
history that forgot an enable which was called and killed while a disable ran;
with two acting callers that enable may still be executed afterwards. The history
`alone` of a call now records that no enable was asked for meanwhile.

### Session

Assumptions: `NoAgreement` is no agreement, bounds are positive, policies are
values `ReconnectPolicy::new` accepts, and two facts about powers of two up to
the width of the multiplier (`PowerAssumption`), for which the provers have no
theory and which TLC evaluates.

The inductive invariant `IInv` is the conjunction of the invariants of the module and
four facts they need: an active session has an agreement; a retry that is
scheduled has not been dialled yet (otherwise `dials <= attempts` is lost in
`begin_reconnect`); the set of accepted frames is finite (for its cardinality);
and the recorded decision is the delay of the current attempt under a policy
some caller passed (so that two consecutive delays can be compared). Theorems:
`TypeCorrect` (which also states that an active session has an agreement), `OneAgreementPerStream`, `GapsAreExact`, `ResumePointIsStable`,
`BudgetIsKept`, and the action properties `BackoffIsMonotone` and
`NothingAcceptedTwice`. `GapsAreExact` counts with `FiniteSetTheorems`;
`BackoffIsMonotone` rests on `MultiplierGrows` and `DelayGrows`.

### Packet link

Assumptions: limits are natural numbers that `QueueLimits::new` accepts, sizes
are natural, `NoKey` is no key.

`retain` and the byte count are recursive functions of a queue, and the theorems
need to know what they compute for every queue: what `Retain` keeps and in which
order, that what is kept and what is superseded weigh together what was queued,
and that appending or taking a packet changes the sum by its size. These are
proved by induction. As the library's induction theorems take an operator, the
module first proves the principle for sets (`LeastNumber`, `InductionUpTo`): a
claim holds up to `N` if the set of numbers for which it holds contains 0 and,
with every `n < N`, `n + 1`.

The inductive invariant `LinkInv` says of every lane that its byte counter is
what its packets weigh and within its limits, that its packets are in order, of
the current connection and later than everything received (otherwise order is
lost at the next `try_receive`), that nothing is queued while the link is down,
and the two invariants of the run. `LanePush` and `LanePop` prove the part about
one lane once; the steps lift it to four. Theorems: `NothingIsLost`,
`ReportsAreExact`, the action property `LanesDeliverInOrder`, and
`CountersAreExact`: no `usize` subtraction of `try_push` underflows.

### TCP and USB pumps

Assumptions: the numbers of frames of either side are natural. Queue limits,
lengths of frames and of reads, and the order in which a socket, a transfer or a
caller acts are arbitrary.

Both workers implement `OrderedLanes` in both directions, step by step; as
`OrderedLanes` has no fairness, that is the whole refinement. What a lane has
under way is spread over several variables (`OutTransit`, `InTransit`), so the
argument has three layers. About sequences: `Retain` distributes over
concatenation, so the frames of one lane in a concatenation are those of its
parts, and lanes can be regrouped, extended at the back and taken apart at the
front (`SequenceLaws`, `LaneLaws`). About the stream both workers share: what
sending, muxing, writing, reading, delivering and disconnecting do to a lane is an
accept, an arrival, a loss or nothing (`SendMoves`, `ChooseMoves`, `WriteMoves`,
`PeerMoves`, `ReadMoves`, `DeliverMoves`, `TakeMoves`, `DisconnectMoves`),
whichever worker does it. About each worker: `TcpShape` and `UsbShape` say that
every frame is in a queue or slot of its own lane, that nothing is chosen while a
frame is still being written, that a USB worker reads only when it has delivered
its last transfer, and that the link is up until the worker disconnects it. Without
them a frame of one lane could overtake another in the pending write, or a lane
end with a hole. Theorems: `TcpOutboundOrdered`, `TcpInboundOrdered`,
`UsbOutboundOrdered`, `UsbInboundOrdered`: the properties `OutboundIsOrdered` and
`InboundIsOrdered` of the instances `Tcp` and `Usb` of the two modules.

### Pairing and connection

Assumptions: tokens are byte sequences of whole groups of five (the code has 10
bytes) and bounds are positive (`PairingAssumption`); modes and requested sizes
are positive, requested rates are 30 or 60, every display advertises limits
within what the codec accepts and offers H.264, as `AndroidDisplaySession` does,
and queue and history are not empty (`ConnectAssumption`).

The invariant is built in layers, each inductive on top of the one before.

* `Base`: the records under way on every socket at each step of host and display
  (`Handshakes`; a socket left by an earlier call stays untouched until the
  server reaches it), and that what an end has read and what is under way on its
  socket is what the other end wrote (`Streams`). `Streams` alone is not
  inductive: at the moment of the handover the socket holds a pairing record and
  then the first frames, in either order of the two ends' steps. Theorems:
  `BaseAlways`, `HandoverExact`.
* `CodeKnown`: the key of a call is the token exactly if the code typed is the
  one shown. This is the conversion of `pairing.rs` between groups of five bytes
  and eight symbols, taken apart bit by bit for one group and lifted to all of
  them (`GroupExposed`, `GroupRead`, `CodeReads`, `WrongCodeReads`). Theorems:
  `CodeAlwaysKnown`, `PairingExact`.
* `Says`: the two streams say, frame by frame, what the protocol has them say,
  and the host's configuration is one `select_display_config` may choose from
  the display's limits. `ConfigFits` follows by comparing the cross products
  with which the code compares shapes. Theorems: `SaysAlways`,
  `ConfigAlwaysFits`.
* `Turns`: what the display knows is what the part of the host's stream it has
  read says, so every frame it reads next is in turn. `Counts` counts pictures:
  of those the display has read each waits for the surface, was shown, counted
  as dropped, or discarded uncounted (`Accounted`), and none up to the last one
  released waits any more; the host counts those it has written, its history the
  count at each sequence it remembers. So a report on its way never claims more
  than the display has shown or discarded uncounted. Theorems: `TurnsAlways`, `InTurnAlways`.

### Desktop runtime

Assumptions: the callers are the window and possibly the tray, session workers
are distinct from both, the number of links is natural.

`HostInv` adds to the three invariants what a process stands for at each label:
what it may hold and whether the flag of that link is raised (`HeldInv`), which
links the manager and the workers refer to (`OwnInv`), that only the window
starts, pairs and prepares (`CallInv`), and what the window's own rules give
until the tray is used (`WindowInv`): one session worker at most, known to the
window; the manager without a session while somebody is between taking the old
one and publishing the new one, so that nothing is overwritten; and every worker
past its Hello on the link it negotiated on or on none. Theorems:
`WorkersCanBeStopped`, `LinksAreOwned`, `GenerationsAreFresh`.

### Capture stream

Assumptions: there is a size; queue lengths, the frame interval and the number
of input requests an encoder keeps open are positive.

`EncoderContract` is not inductive: `asked` falls below zero unless every request
still in the event queue or noted in `input_ready` is one the encoder has open,
so `RequestInv` counts them (`Cardinality` of the positions in the queue).
`SampleInv` says that the encoder holds at most the sample whose output the
worker waits for, and that this output is not announced yet. `CatchUpIsBounded`
needs `ClockInv`: each frame accepted at an instant moves `next_frame_at` one
interval towards the future, from at most two intervals in the past. Theorems:
`DiagnosticIsLeft`, `EncoderContractIsKept`, `CatchUpEnds`.

### Capture probe

Assumptions: `NoOne` is no caller; queue, encoders, frames and bounds are
positive.

A drained encoder has given everything back because frames are conserved: what
was sent is inside the encoder, announced, collected or was taken as an output
without bytes (`Balanced`), and `drained` is announced last. Theorems:
`BatchesAreComplete`, `EncodersTakeTurns`.

### Virtual display

Assumptions: the poller is a caller, `NoOne` is not, there is an advertised size,
the physical monitor is in one of the sizes or in another one, bounds are natural.

That a disable is final rests on the single pipe instance. `ClientInv` says that
a controller which is connected has the pipe to itself and waits for its own
request; `PipeInv` that an answer to a disable is given only with the device
closed. So when a disable that ran alone has its answer, no enable is left in the
service (`DisableInv`), although controllers of earlier enables may have been
killed at any point. `AlignInv` says that an alignment under way is of the virtual
monitor, which is there and has the device name unless names were given out anew;
without it a step of the alignment could meet a monitor the look-up never saw.
Theorems: `DisableIsFinal` and the action property `OnlyTheVirtualMonitor`.

### Input

Assumptions: negotiated families are known ones, bounds are positive
(`InputAssumption`).

`NothingStuck` is about states with nothing on its way; the inductive
`OnItsWay` is about all others. For each button, key and contact slot of a
negotiated family, the last frame about it on the wire and in the critical lane
presses it only if the user holds it; if there is none, the host has it down only
if the user holds it (`Tracked`). Where the user let go while nothing was shown the
item counts as held (`lost`) until the next change of it is sent. It needs
`InputShape`: frames are encodings of events of items the session negotiated,
and contacts in slots of their own. The coalescible lane carries moves only, so
what is dropped or overtaken there never changes what is down. Theorems:
`InputAccounted`, `NeverStuck`.

The mapping is proved for every stream size and every display inside the
virtual desktop (`EveryMappingExact`), not only for the mappers of the run, from
what division does to the ends, the bounds and the order of a share
(`ShareBounds`, `ShareWhole`, `ShareGrows`). `MappingExact` is the property of
the run.

### Frame scheduler

Assumptions: `ClockAssumption`: positive resolution and rates, natural times,
clock readings below the largest representable time.

The heart is `SlotHasBegun`: for every rate, resolution, slot `j` and elapsed
time, `timestamp(j) <= elapsed` exactly if `j <= frame_at_or_before(elapsed)`.
`timestamp` is the floor of `j*den*U/num` although it is computed as seconds and
fraction (`ScaledFloor`), and the `+ 1`, `- 1` of `frame_at_or_before` invert a
floor. `ConsumedSlot` lifts this to saturated deadlines and the last slot. The
five invariants of the module together are inductive: the counts need to know whether
the queue is empty and which slot is next, both from the types, and the slots
need `ConsumedSlot`. Theorems: `TypeCorrect`, `NothingUncounted`,
`NoCatchUpBurst`, `QueueHoldsTheLatest`.

### Only model-checked

* The liveness properties of all runs: fairness and `ENABLED` are beyond the
  prover.
* That `GlobalWireOrder` does not hold: a counterexample of TLC.

## 6. Abstractions

* A payload is its size, a frame its sequence, lane and length in chunks; bytes
  that do not decode are a failure step of the pump. In `Connect` a frame is its
  type, sequence and the fields the receiver decides on; in `Input` it is the
  encoded event without time stamp, coordinates and modifiers.
* Counters and times that saturate at the end of their width in `Session` and
  `FrameScheduler` have that end as a constant. Metrics counters of the
  scheduler are unbounded; the code saturates them at 2^64 - 1.
* A MAC is what it was computed from, nonces are fresh: equal tags mean equal
  inputs. The conversion of the code to symbols and back is modelled bit group by
  bit group.
* Every Windows call that can fail fails nondeterministically; where that would
  make every promise void (`VirtualDisplay`) the number of faults is bounded.
* A deadline may pass at any time, or only where the code's constants leave no
  other possibility (`Overdue` in `VirtualDisplay`).
* A captured frame is the size of its surface and of its content; an encoder is
  external and answers through events in any order its interface allows.
* On the display, publishing the connected transport and `beginHandshake` are one
  step: the transport, its state flow and `AndroidDisplaySession` all run on
  `Dispatchers.Main.immediate` (`AndroidUsbTetherTransport.kt:79`,
  `LadoFlowApplication.kt:30`). The `yield` that follows ends the step, the
  generation is tested after it, and reading starts only in `ioSession.start`.
* What the decoder does with a picture is decided when it is handed over.
* One pass of the loop of `wait_for_display_mode` is one step; it reads the
  geometry by the monitor's identity, not by its device name.
* Opening an accessory is one outcome; the device's interface belongs to one
  handle at a time, as libusb enforces.
* Durations in the scheduler's metrics, byte and frame counters of the TCP
  status, log lines and texts are left out.

## 7. Not modelled, and why

Device enumeration, libusb control transfers, adapter discovery and the setup
program: sequences of platform calls whose outcome is one step here. Direct3D
calls, rendering, payload codecs other than input, Annex B parsing and the
synthetic pattern: functions without state whose details unit tests cover. The
indirect display driver runs in callbacks of the display framework and appears
as the monitor that comes and goes. `core/quality.rs` and `core/telemetry.rs`
are not called by the desktop application. The Android USB transport, the
inside of the decoder (`Connect` has what becomes of the pictures given to it)
and the reset of the display session between two connections have state
worth modelling and are the next step.

## 8. Plan

1. `Connection`: the display's session and its USB transport over several
   connections, with generations, permission answers and reconnect timers;
   abstract specification: nothing of an old connection is delivered in a new one.
2. `Decoder`: queue, frame gate, ledger, surface generations.
3. `LoopbackPipeline`: `run_loopback` and `present_latest` over `Link` and
   `FrameScheduler`; `FrameDecoder`: bounded incremental parsing against a
   reference.
4. Proofs: with the modules above, their invariants. What is modelled today has
   no safety property left without a theorem.
