---------------------------- MODULE HostRuntime ----------------------------
(***************************************************************************)
(* The desktop host's session control: DesktopRuntime and its session      *)
(* workers (apps/desktop/src-tauri/src/runtime.rs) over UsbAccessoryManager *)
(* (platform/windows/usb_accessory.rs), driven by the window (src/main.ts) *)
(* and by the tray (shell.rs).                                             *)
(*                                                                         *)
(* Processes are the callers "ui" and "tray", the session workers and      *)
(* the I/O worker of every link.  A process stops between any two critical *)
(* sections of shared, worker, tether_connection and of the manager's      *)
(* session and status.  A link is one physical connection: an accessory    *)
(* bulk session ("usb") or an authenticated socket ("tether").  Links are  *)
(* numbered in the order they are opened.                                  *)
(***************************************************************************)
EXTENDS Integers

CONSTANTS
    Caller,         \* "ui", the window, and with it or not "tray"
    Worker,         \* session workers a behaviour may start (bound)
    MaxLinks,       \* bound: links opened in a behaviour
    MaxCommands     \* bound: commands the callers issue

Proc == Caller \union Worker
Link == 1 .. MaxLinks
NoLink == 0
NoWorker == "none"

ASSUME CallerAssumption == "ui" \in Caller /\ Caller \subseteq {"ui", "tray"}
ASSUME LinksAssumption == MaxLinks \in Nat
ASSUME WorkerAssumption == (Caller \union {NoWorker}) \cap Worker = {}

VARIABLES
    phase, transport,   \* SharedState
    session,    \* SharedState::session, as the link it was negotiated on
    slot,       \* DesktopRuntime::worker
    tether,     \* DesktopRuntime::tether_connection, as a link
    usb,        \* UsbAccessoryManagerInner::session, as a link
    status,     \* LinkStatus::phase
    link,       \* link[l]: kind, cancel flag and state of its I/O worker
    job,        \* job[w]: a session worker's kind, cancel flag, own socket, the
                \* link it negotiated on (gen), its reconnect deadline; crossed:
                \* history, it has written to another link than gen
    isRunning,  \* main.ts: the snapshot it shows has a running phase
    call,       \* call[c]: the command a caller runs, the worker it stops
    issued,     \* commands issued so far
    pc,
    held        \* held[p]: the link p has taken out of the manager or opened

sharedVars == <<phase, transport, session>>
slotVars == <<slot, tether>>
managerVars == <<usb, status>>
callVars == <<isRunning, call, issued>>
vars == <<sharedVars, slotVars, managerVars, link, job, callVars, pc, held>>

Running == {"Negotiating", "Connected", "Streaming", "Recovering"}
NoCall == [cmd |-> "none", target |-> NoWorker]
Done == [cmd |-> "done", target |-> NoWorker]
NoJob == [kind |-> "none", cancel |-> FALSE, own |-> NoLink, gen |-> NoLink,
          crossed |-> FALSE, deadline |-> "none"]
Opened(kind) == [kind |-> kind, state |-> "up", cancel |-> FALSE]

Init ==
    /\ phase = "Idle" /\ transport = "none" /\ session = NoLink
    /\ slot = NoWorker /\ tether = NoLink
    /\ usb = NoLink /\ status = "Ready"
    /\ link = [l \in Link |-> [kind |-> "usb", state |-> "unused", cancel |-> FALSE]]
    /\ job = [w \in Worker |-> NoJob]
    /\ isRunning = FALSE /\ issued = 0
    /\ call = [c \in Caller |-> NoCall]
    /\ pc = [p \in Proc |-> IF p \in Caller THEN "idle" ELSE "unused"]
    /\ held = [p \in Proc |-> NoLink]

Connected(l) == IF l = NoLink THEN FALSE ELSE link[l].state = "up"
Ended(l) == IF l = NoLink THEN TRUE ELSE link[l].state = "done"
Fresh(l) == link[l].state = "unused" /\ \A k \in 1 .. l - 1 : link[k].state # "unused"
Cancelled(l) == [k \in Link |-> IF k = l THEN [link[k] EXCEPT !.cancel = TRUE] ELSE link[k]]
Live(w) == pc[w] \notin {"unused", "finished"}

Goto(p, label) == pc' = [pc EXCEPT ![p] = label]
Hold(p, l) == held' = [held EXCEPT ![p] = l]

\* A step that only moves p on: a test, a wait, or I/O outside this model.
Moves(p, label) ==
    /\ Goto(p, label)
    /\ UNCHANGED <<sharedVars, slotVars, managerVars, link, job, callVars, held>>

(***************************************************************************)
(* The worker lock is held across start().                                 *)
(***************************************************************************)
WorkerLockFree == \A c \in Caller : pc[c] \notin {"start_commit", "start_loopback", "start_failed"}

----------------------------------------------------------------------------
(***************************************************************************)
(* The I/O worker of a link, reduced from TcpPump and UsbBulkPump: it      *)
(* disconnects its endpoint when cancelled or when the cable, the peer or  *)
(* a queue fails, then releases the interface and writes the status.       *)
(***************************************************************************)
LinkDown(l) ==
    /\ link[l].state = "up"
    /\ link' = [link EXCEPT ![l].state = "down"]
    /\ UNCHANGED <<sharedVars, slotVars, managerVars, job, callVars, pc, held>>

LinkEnds(l, released) ==
    /\ link[l].state = "down"
    /\ link' = [link EXCEPT ![l].state = "done"]
    /\ status' = IF link[l].kind = "tether" THEN status
                 ELSE IF link[l].cancel /\ released THEN "Ready" ELSE "Failed"
    /\ UNCHANGED <<sharedVars, slotVars, usb, job, callVars, pc, held>>

----------------------------------------------------------------------------
(***************************************************************************)
(* UsbAccessoryManager.  Its methods run on the thread of whoever calls    *)
(* them; `p` is that process.                                              *)
(***************************************************************************)
\* Mutant: the bulk worker is joined without raising its cancel flag.
TakeSessionNoCancel(p, after) ==
    /\ Hold(p, usb) /\ usb' = NoLink /\ Goto(p, after)
    /\ UNCHANGED <<sharedVars, slotVars, status, link, job, callVars>>

(***************************************************************************)
(* stop_active_session: take the session out, raise its flag; the join is  *)
(* the guard Joined of the step that follows.                              *)
(***************************************************************************)
TakeSession(p, after) ==
    /\ Hold(p, usb) /\ usb' = NoLink /\ Goto(p, after)
    /\ link' = Cancelled(usb)
    /\ UNCHANGED <<sharedVars, slotVars, status, job, callVars>>

Joined(p) == Ended(held[p])

(***************************************************************************)
(* prepare_with_cancel.  The window passes no cancel flag.  A cancelled    *)
(* call leaves the status Ready (cancelled_report).                        *)
(***************************************************************************)
CancelRequested(p) == p \in Worker /\ job[p].cancel

ReportsStatus(p, newStatus, label) ==
    /\ status' = newStatus
    /\ Hold(p, NoLink) /\ Goto(p, label)
    /\ UNCHANGED <<sharedVars, slotVars, usb, link, job, callVars>>

PrepareBegins(p) ==
    /\ pc[p] = "prepare"
    /\ IF CancelRequested(p) THEN ReportsStatus(p, "Ready", "prepare_failed")
                             ELSE TakeSession(p, "prepare_joined")

PrepareJoined(p) ==
    /\ pc[p] = "prepare_joined" /\ Joined(p)
    /\ ReportsStatus(p, "Connecting", "prepare_open")

(***************************************************************************)
(* The device's interface belongs to one handle at a time (libusb).        *)
(***************************************************************************)
InterfaceFree == \A l \in Link : link[l].kind = "usb" => link[l].state \in {"unused", "done"}

PrepareOpens(p, l) ==
    /\ pc[p] = "prepare_open" /\ ~CancelRequested(p)
    /\ Fresh(l) /\ InterfaceFree
    /\ link' = [link EXCEPT ![l] = Opened("usb")]
    /\ status' = "Connected"
    /\ Hold(p, l) /\ Goto(p, "prepare_publish")
    /\ UNCHANGED <<sharedVars, slotVars, usb, job, callVars>>

(***************************************************************************)
(* No device, no interface, no bulk worker, or the wait was cancelled.     *)
(***************************************************************************)
PrepareFails(p) ==
    /\ pc[p] = "prepare_open"
    /\ ReportsStatus(p, IF CancelRequested(p) THEN "Ready" ELSE "Failed", "prepare_failed")

\* Mutant: a session opened for a cancelled worker is dropped without stop().
PreparePublishDrops(p) ==
    /\ pc[p] = "prepare_publish"
    /\ usb' = IF CancelRequested(p) THEN usb ELSE held[p]
    /\ Hold(p, NoLink) /\ Goto(p, IF CancelRequested(p) THEN "prepare_undo" ELSE "prepared")
    /\ UNCHANGED <<sharedVars, slotVars, status, link, job, callVars>>

PreparePublish(p) ==
    /\ pc[p] = "prepare_publish"
    /\ IF CancelRequested(p)
         THEN link' = Cancelled(held[p]) /\ Goto(p, "prepare_undo") /\ UNCHANGED <<usb, held>>
         ELSE usb' = held[p] /\ Hold(p, NoLink) /\ Goto(p, "prepared") /\ UNCHANGED link
    /\ UNCHANGED <<sharedVars, slotVars, status, job, callVars>>

PrepareUndone(p) ==
    /\ pc[p] = "prepare_undo" /\ Joined(p)
    /\ ReportsStatus(p, "Ready", "prepare_failed")

Prepare(p) ==
    \/ PrepareBegins(p) \/ PrepareJoined(p) \/ PrepareFails(p)
    \/ \E l \in Link : PrepareOpens(p, l)
    \/ PreparePublish(p) \/ PrepareUndone(p)

----------------------------------------------------------------------------
(***************************************************************************)
(* Commands.  The window runs one at a time (`busy`) and offers what       *)
(* render() enables for the snapshot it shows: Stop while a session is     *)
(* running, the others while none is; Disconnect always.  Disabling the    *)
(* virtual display begins with stop().                                     *)
(***************************************************************************)
Offered(c) ==
    IF c = "tray" THEN {"disconnect", "quit"}
    ELSE IF isRunning THEN {"disconnect", "stop"}
    ELSE {"disconnect", "start", "prepare", "pair", "disable"}

FirstStep(cmd) ==
    IF cmd \in {"stop", "disable"} THEN "stop_take"
    ELSE IF cmd = "quit" THEN "disconnect" ELSE cmd

Issue(c, cmd) ==
    /\ pc[c] = "idle"
    /\ issued < MaxCommands
    /\ issued' = issued + 1
    /\ call' = [call EXCEPT ![c] = [cmd |-> cmd, target |-> NoWorker]]
    /\ Goto(c, FirstStep(cmd))
    /\ UNCHANGED <<sharedVars, slotVars, managerVars, link, job, isRunning, held>>

(***************************************************************************)
(* get_host_snapshot, from the timer or the refresh button.                *)
(***************************************************************************)
Poll ==
    /\ isRunning' = (phase \in Running)
    /\ isRunning' # isRunning
    /\ UNCHANGED <<sharedVars, slotVars, managerVars, link, job, call, issued, pc, held>>

(***************************************************************************)
(* A command returns; the window renders a new snapshot before it enables  *)
(* its buttons again.                                                      *)
(***************************************************************************)
Returns(c, newPhase) ==
    /\ call' = [call EXCEPT ![c] = Done]
    /\ isRunning' = IF c = "ui" THEN newPhase \in Running ELSE isRunning
    /\ Goto(c, IF call[c].cmd = "quit" THEN "quit_disable" ELSE "idle")
    /\ UNCHANGED issued

Continues(c, label) == Goto(c, label) /\ UNCHANGED callVars

----------------------------------------------------------------------------
(***************************************************************************)
(* stop(): take the worker, raise its flag, join it, publish Stopped.      *)
(***************************************************************************)
StopTake(c) ==
    /\ pc[c] = "stop_take" /\ WorkerLockFree
    /\ call' = [call EXCEPT ![c].target = slot]
    /\ slot' = NoWorker
    /\ Goto(c, IF slot = NoWorker THEN "stop_publish" ELSE "stop_cancel")
    /\ UNCHANGED <<sharedVars, tether, managerVars, link, job, isRunning, issued, held>>

StopCancel(c) ==
    /\ pc[c] = "stop_cancel"
    /\ job' = [job EXCEPT ![call[c].target].cancel = Live(call[c].target)]
    /\ Goto(c, "stop_join")
    /\ UNCHANGED <<sharedVars, slotVars, managerVars, link, callVars, held>>

StopJoin(c) ==
    /\ pc[c] = "stop_join"
    /\ pc[call[c].target] = "finished"
    /\ Moves(c, "stop_publish")

AfterStop(c, newPhase) ==
    IF call[c].cmd \in {"disconnect", "quit"} THEN Continues(c, "disconnect_tether") ELSE Returns(c, newPhase)

StopPublish(c) ==
    /\ pc[c] = "stop_publish"
    /\ phase' = "Stopped"
    /\ AfterStop(c, "Stopped")
    /\ UNCHANGED <<transport, session, slotVars, managerVars, link, job, held>>

Stop(c) == StopTake(c) \/ StopCancel(c) \/ StopJoin(c) \/ StopPublish(c)

(***************************************************************************)
(* disconnect_android_usb(): stop a wired session that is running, drop    *)
(* the paired socket, disconnect the manager.                              *)
(***************************************************************************)
DisconnectReads(c) ==
    /\ pc[c] = "disconnect"
    /\ Moves(c, IF transport \in {"usb", "tether"} /\ phase \in Running
                  THEN "stop_take" ELSE "disconnect_tether")

(***************************************************************************)
(* Dropping a TcpPacketTransport cancels and joins its worker.             *)
(***************************************************************************)
DropTether(c, from, to) ==
    /\ pc[c] = from
    /\ tether' = NoLink
    /\ link' = Cancelled(tether)
    /\ Hold(c, tether) /\ Goto(c, to)
    /\ UNCHANGED <<sharedVars, slot, managerVars, job, callVars>>

ManagerTake(c) ==
    /\ pc[c] = "manager_take" /\ Joined(c)
    /\ TakeSession(c, "manager_joined")

(***************************************************************************)
(* UsbAccessoryManager::disconnect after the join: a Failed status is      *)
(* returned as the error and stays, any other becomes Ready.               *)
(***************************************************************************)
ManagerDisconnected(c) ==
    /\ pc[c] = "manager_joined" /\ Joined(c)
    /\ Hold(c, NoLink)
    /\ status' = IF status = "Failed" THEN "Failed" ELSE "Ready"
    /\ IF call[c].cmd # "pair" THEN Returns(c, phase)
       ELSE Continues(c, IF status = "Failed" THEN "pair_refused" ELSE "pair_drop")
    /\ UNCHANGED <<sharedVars, slotVars, usb, link, job>>

Disconnect(c) ==
    \/ DisconnectReads(c)
    \/ DropTether(c, "disconnect_tether", "manager_take")
    \/ ManagerTake(c) \/ ManagerDisconnected(c)

(***************************************************************************)
(* quit: after the disconnect, whatever it returned, the controller is     *)
(* asked to disable the virtual display and the process exits.             *)
(***************************************************************************)
QuitDisables(c) == pc[c] = "quit_disable" /\ Moves(c, "exited")

(***************************************************************************)
(* pair_android_tether().                                                  *)
(***************************************************************************)
PairBegins(c) ==
    /\ pc[c] = "pair" /\ WorkerLockFree
    /\ IF slot # NoWorker /\ Live(slot) THEN Returns(c, phase) ELSE Continues(c, "manager_take")
    /\ UNCHANGED <<sharedVars, slotVars, managerVars, link, job, held>>

PairConnects(c, l) ==
    /\ pc[c] = "pair_connect" /\ Joined(c)
    /\ Fresh(l)
    /\ link' = [link EXCEPT ![l] = Opened("tether")]
    /\ tether' = l
    /\ phase' = "Idle" /\ transport' = "tether" /\ session' = NoLink
    /\ Hold(c, NoLink) /\ Returns(c, "Idle")
    /\ UNCHANGED <<slot, managerVars, job>>

PairFails(c) ==
    /\ pc[c] \in {"pair_refused", "pair_connect"} /\ Joined(c)
    /\ Hold(c, NoLink) /\ Returns(c, phase)
    /\ UNCHANGED <<sharedVars, slotVars, managerVars, link, job>>

Pair(c) ==
    \/ PairBegins(c)
    \/ DropTether(c, "pair_drop", "pair_connect")
    \/ PairFails(c)
    \/ \E l \in Link : PairConnects(c, l)

PrepareReturns(c) ==
    /\ pc[c] \in {"prepared", "prepare_failed"}
    /\ Returns(c, phase)
    /\ UNCHANGED <<sharedVars, slotVars, managerVars, link, job, held>>

----------------------------------------------------------------------------
\* Mutant: a second session may start beside a running one.
StartRefusesNothing == FALSE

StartRefuses == slot # NoWorker /\ Live(slot)

(***************************************************************************)
(* start(): with the worker lock held, refuse a second session, take the   *)
(* paired socket.                                                          *)
(***************************************************************************)
StartBegins(c) ==
    /\ pc[c] = "start"
    /\ IF StartRefuses THEN Returns(c, phase) /\ UNCHANGED <<slotVars, held>>
       ELSE /\ slot' = NoWorker
            /\ tether' = NoLink /\ Hold(c, tether)
            /\ Continues(c, "start_commit")
    /\ UNCHANGED <<sharedVars, managerVars, link, job>>

StartKind(c) ==
    IF pc[c] = "start_loopback" THEN "loopback"
    ELSE IF held[c] # NoLink THEN "tether" ELSE IF Connected(usb) THEN "usb" ELSE "loopback"

(***************************************************************************)
(* A loopback session is Negotiating, under the name of the transport used *)
(* before, until its own negotiation has run.                              *)
(***************************************************************************)
StartNegotiates(c) ==
    /\ pc[c] = "start_commit" /\ StartKind(c) = "loopback"
    /\ phase' = "Negotiating"
    /\ Goto(c, "start_loopback")
    /\ UNCHANGED <<transport, session, slotVars, managerVars, link, job, callVars, held>>

(***************************************************************************)
(* The rest of start(): publish the new phase, spawn, fill the slot.  The  *)
(* workers are interchangeable: any unused one is the new thread.          *)
(***************************************************************************)
StartSpawns(c, w) ==
    LET kind == StartKind(c)
    IN  /\ pc[c] = IF kind = "loopback" THEN "start_loopback" ELSE "start_commit"
        /\ kind = "tether" => Connected(held[c])
        /\ pc[w] = "unused" /\ w = CHOOSE v \in Worker : pc[v] = "unused"
        /\ phase' = IF kind = "loopback" THEN "Streaming" ELSE "Negotiating"
        /\ transport' = kind /\ session' = NoLink
        /\ job' = [job EXCEPT ![w] = [NoJob EXCEPT !.kind = kind, !.own = held[c]]]
        /\ slot' = w
        /\ Hold(c, NoLink)
        /\ call' = [call EXCEPT ![c] = Done] /\ isRunning' = TRUE
        /\ pc' = [pc EXCEPT ![c] = "idle", ![w] = IF kind = "loopback" THEN "loop" ELSE "hello"]
        /\ UNCHANGED <<tether, managerVars, link, issued>>

(***************************************************************************)
(* A thread that cannot be spawned, a paired socket that has died, or a    *)
(* loopback negotiation that fails; the socket is dropped, which joins its *)
(* worker.                                                                 *)
(***************************************************************************)
SpawnFails(c) ==
    /\ StartKind(c) = "tether" => Connected(held[c])
    /\ pc[c] = IF StartKind(c) = "loopback" THEN "start_loopback" ELSE "start_commit"
    /\ transport' = StartKind(c) /\ session' = NoLink

PairingIsGone(c) ==
    /\ pc[c] = "start_commit"
    /\ held[c] # NoLink /\ ~Connected(held[c])
    /\ session' = NoLink /\ UNCHANGED transport

LoopbackRefused(c) == pc[c] = "start_loopback" /\ UNCHANGED <<transport, session>>

StartFails(c) ==
    /\ SpawnFails(c) \/ PairingIsGone(c) \/ LoopbackRefused(c)
    /\ phase' = "Failed"
    /\ link' = Cancelled(held[c])
    /\ Goto(c, "start_failed")
    /\ UNCHANGED <<slotVars, managerVars, job, callVars, held>>

StartReturns(c) ==
    /\ pc[c] = "start_failed" /\ Joined(c)
    /\ Hold(c, NoLink) /\ Returns(c, phase)
    /\ UNCHANGED <<sharedVars, slotVars, managerVars, link, job>>

Start(c) ==
    StartBegins(c) \/ StartNegotiates(c) \/ StartFails(c) \/ StartReturns(c) \/ \E w \in Worker : StartSpawns(c, w)

----------------------------------------------------------------------------
(***************************************************************************)
(* A session worker.  A USB worker talks to the session the manager holds  *)
(* at that moment, a tether worker to the socket it owns.                  *)
(***************************************************************************)
LinkOf(w) == IF job[w].kind = "usb" THEN usb ELSE job[w].own

Publishes(w, newPhase, newSession, label) ==
    /\ phase' = newPhase /\ session' = newSession
    /\ Goto(w, label)
    /\ UNCHANGED <<transport, slotVars, managerVars, link, job, callVars, held>>

Fails(w) == Publishes(w, "Failed", NoLink, "close")

(***************************************************************************)
(* run_android_control_session_inner: Hello and Capabilities go out, the   *)
(* display answers and is sent its DisplayConfig, capture starts, the      *)
(* session is published, then traffic flows.  Any step may end in an error *)
(* of the peer, of capture, of a queue or of a timeout.                    *)
(***************************************************************************)
SendHello(w) ==
    /\ pc[w] = "hello" /\ ~job[w].cancel
    /\ Connected(LinkOf(w))
    /\ job' = [job EXCEPT ![w].gen = LinkOf(w)]
    /\ Goto(w, "config")
    /\ UNCHANGED <<sharedVars, slotVars, managerVars, link, callVars, held>>

\* A write of w on whatever link it talks to now, without another effect on job.
Writes(w) ==
    /\ Connected(LinkOf(w))
    /\ job' = [job EXCEPT ![w].crossed = @ \/ job[w].gen # LinkOf(w)]

SendConfig(w) ==
    /\ pc[w] = "config" /\ ~job[w].cancel
    /\ Writes(w)
    /\ Goto(w, "establish")
    /\ UNCHANGED <<sharedVars, slotVars, managerVars, link, callVars, held>>

Establish(w) ==
    /\ pc[w] = "establish"
    /\ Publishes(w, "Connected", job[w].gen, "stream")

SendAccessUnit(w) ==
    /\ pc[w] = "stream"
    /\ Writes(w)
    /\ phase' = "Streaming"
    /\ UNCHANGED <<transport, session, slotVars, managerVars, link, callVars, pc, held>>

StreamCancelled(w) == pc[w] = "stream" /\ job[w].cancel /\ Moves(w, "close")

SessionError(w) == pc[w] \in {"hello", "config", "establish", "stream"} /\ Moves(w, "error")

(***************************************************************************)
(* What run_usb_control_session and run_tether_control_session do with an  *)
(* error: nothing when cancelled; only a lost USB link is recovered, and   *)
(* only a session that had streamed gets a new deadline.                   *)
(***************************************************************************)
ErrorCancelled(w) == pc[w] = "error" /\ job[w].cancel /\ Moves(w, "close")

ErrorFails(w) ==
    /\ pc[w] = "error" /\ ~job[w].cancel
    /\ job[w].kind = "tether" \/ Connected(LinkOf(w))
    /\ Fails(w)

ErrorRecovers(w) ==
    /\ pc[w] = "error" /\ ~job[w].cancel
    /\ job[w].kind = "usb" /\ ~Connected(usb)
    /\ job' = [job EXCEPT ![w].deadline =
                  IF phase = "Streaming" \/ @ = "none" THEN "open" ELSE @]
    /\ Goto(w, "recover")
    /\ UNCHANGED <<sharedVars, slotVars, managerVars, link, callVars, held>>

DeadlinePasses(w) ==
    /\ job[w].deadline = "open"
    /\ job' = [job EXCEPT ![w].deadline = "over"]
    /\ UNCHANGED <<sharedVars, slotVars, managerVars, link, callVars, pc, held>>

(***************************************************************************)
(* The retry loop: publish Recovering, wait (cancellable), reopen.  The    *)
(* deadline is tested before and after the wait.                           *)
(***************************************************************************)
RecoverBegins(w) ==
    /\ pc[w] = "recover"
    /\ IF job[w].deadline = "over" THEN Fails(w) ELSE Publishes(w, "Recovering", NoLink, "wait")

\* wait_cancellable returns early.
WaitCancelled(w) == job[w].cancel

WaitEnds(w) ==
    /\ pc[w] = "wait"
    /\ IF WaitCancelled(w) THEN Moves(w, "close")
       ELSE IF job[w].deadline = "over" THEN Fails(w)
       ELSE Moves(w, "prepare")

\* Mutant: the old session goes on over the reopened link.
ReopenedResumes(w) ==
    /\ pc[w] = "prepared"
    /\ Publishes(w, "Streaming", session, "stream")

Reopened(w) ==
    /\ pc[w] = "prepared"
    /\ Publishes(w, "Negotiating", NoLink, "hello")

\* Mutant: every failed attempt opens a new window.
ReopenFailedRestartsWindow(w) ==
    /\ pc[w] = "prepare_failed"
    /\ job' = [job EXCEPT ![w].deadline = "open"]
    /\ Goto(w, IF job[w].cancel THEN "close" ELSE "recover")
    /\ UNCHANGED <<sharedVars, slotVars, managerVars, link, callVars, held>>

ReopenFailed(w) ==
    /\ pc[w] = "prepare_failed"
    /\ Moves(w, IF job[w].cancel THEN "close" ELSE "recover")

(***************************************************************************)
(* UsbRuntimeSessionGuard: close_runtime_session stops whatever session    *)
(* the manager holds.  A tether worker drops its socket instead.           *)
(***************************************************************************)
Close(w) ==
    /\ pc[w] = "close"
    /\ \/ job[w].kind = "usb" /\ TakeSession(w, "closed")
       \/ /\ job[w].kind = "tether"
          /\ link' = Cancelled(job[w].own)
          /\ Hold(w, job[w].own) /\ Goto(w, "closed")
          /\ UNCHANGED <<sharedVars, slotVars, managerVars, job, callVars>>

Closed(w) ==
    /\ pc[w] = "closed" /\ Joined(w)
    /\ status' = IF job[w].kind = "usb" THEN "Ready" ELSE status
    /\ job' = [job EXCEPT ![w] = NoJob]
    /\ Hold(w, NoLink) /\ Goto(w, "finished")
    /\ UNCHANGED <<sharedVars, slotVars, usb, link, callVars>>

(***************************************************************************)
(* run_loopback ends when it is cancelled.                                 *)
(***************************************************************************)
LoopbackEnds(w) ==
    /\ pc[w] = "loop" /\ job[w].cancel
    /\ job' = [job EXCEPT ![w] = NoJob]
    /\ Goto(w, "finished")
    /\ UNCHANGED <<sharedVars, slotVars, managerVars, link, callVars, held>>

SessionWorker(w) ==
    \/ SendHello(w) \/ SendConfig(w) \/ Establish(w) \/ SendAccessUnit(w)
    \/ StreamCancelled(w) \/ SessionError(w)
    \/ ErrorCancelled(w) \/ ErrorFails(w) \/ ErrorRecovers(w)
    \/ RecoverBegins(w) \/ WaitEnds(w) \/ Prepare(w) \/ Reopened(w) \/ ReopenFailed(w)
    \/ Close(w) \/ Closed(w) \/ LoopbackEnds(w)

CallerStep(c) == Stop(c) \/ Disconnect(c) \/ Pair(c) \/ Start(c) \/ Prepare(c)
                 \/ PrepareReturns(c) \/ QuitDisables(c)

Next ==
    \/ \E c \in Caller : CallerStep(c) \/ \E cmd \in Offered(c) : Issue(c, cmd)
    \/ Poll
    \/ \E w \in Worker : SessionWorker(w) \/ DeadlinePasses(w)
    \/ \E l \in Link : LinkDown(l) \/ \E released \in BOOLEAN : LinkEnds(l, released)

(***************************************************************************)
(* Every thread is scheduled.  A cancelled I/O worker leaves its loop, and *)
(* a cancelled session worker leaves its stream: both test the flag on     *)
(* every iteration.  Time passes.  Nothing is assumed of the user, of the  *)
(* window's timer, of a link that is not cancelled, or of which outcome an *)
(* operation has.                                                          *)
(***************************************************************************)
LeavesLoop(l) == link[l].cancel /\ LinkDown(l)

Fairness ==
    /\ \A c \in Caller : WF_vars(CallerStep(c))
    /\ \A w \in Worker : /\ WF_vars(SessionWorker(w))
                         /\ WF_vars(StreamCancelled(w))
                         /\ WF_vars(DeadlinePasses(w))
    /\ \A l \in Link : /\ WF_vars(LeavesLoop(l))
                       /\ WF_vars(\E released \in BOOLEAN : LinkEnds(l, released))

Spec == Init /\ [][Next]_vars
LiveSpec == Spec /\ Fairness

----------------------------------------------------------------------------
(***************************************************************************)
(* A session worker can always be stopped: until it finishes it is the     *)
(* worker in the slot, or somebody who took it out of the slot is about to *)
(* cancel it, or it is cancelled.  No interleaving of window and tray      *)
(* loses the only handle of a running session (start, stop in runtime.rs). *)
(***************************************************************************)
NoOrphanWorker ==
    \A w \in Worker : Live(w) =>
        \/ slot = w
        \/ job[w].cancel
        \/ \E c \in Caller : pc[c] = "stop_cancel" /\ call[c].target = w

(***************************************************************************)
(* Until the tray is first used, the window's own rules keep two of its    *)
(* commands, or a command and a session worker, from being in the manager  *)
(* together (render() in main.ts).                                         *)
(***************************************************************************)
TrayUsed == "tray" \in Caller /\ call["tray"] # NoCall

(***************************************************************************)
(* An open socket, and until the tray is first used a claimed interface,   *)
(* can always be released: a running I/O worker that is not cancelled      *)
(* belongs to the manager, to the paired connection, to a live session     *)
(* worker or to a call in progress.  AccessorySession has no Drop: a       *)
(* session overwritten or forgotten in prepare_with_cancel keeps the       *)
(* device until the process ends.  With the tray one can be overwritten:   *)
(* a stop() that finds the slot emptied by the tray's returns while the    *)
(* worker is still recovering, and a prepare of the window then runs       *)
(* beside the worker's reconnect; whichever publishes last wins.           *)
(***************************************************************************)
EveryLinkHasOwner ==
    \A l \in Link : Connected(l) /\ ~link[l].cancel /\ (link[l].kind = "usb" => ~TrayUsed) =>
        \/ l \in {usb, tether}
        \/ \E w \in Worker : Live(w) /\ job[w].own = l
        \/ \E p \in Proc : held[p] = l

(***************************************************************************)
(* Every command returns: the joins of session, bulk and socket workers    *)
(* that stop, disconnect, prepare and pair perform never wait for each     *)
(* other, whatever the worker was doing when its flag was raised.          *)
(***************************************************************************)
EveryCallReturns ==
    \A c \in Caller : (pc[c] # "idle") ~> (pc[c] \in {"idle", "exited"})

(***************************************************************************)
(* Recovery ends: a USB worker that lost its link streams again or         *)
(* finishes; failed attempts do not extend the 60-second window            *)
(* (run_usb_control_session).                                              *)
(***************************************************************************)
RecoveryEnds ==
    \A w \in Worker : (pc[w] = "recover") ~> (pc[w] \in {"stream", "finished"})

(***************************************************************************)
(* docs/architecture.md: "A reopened physical transport always negotiates  *)
(* a fresh protocol generation; no old sequence cursor [...] crosses the   *)
(* disconnect."  A worker asks the manager for the current session on      *)
(* every call, yet writes only to the link it sent its Hello on.  It holds *)
(* until the tray is first used: the window prepares a new link only when  *)
(* it shows no running session, a rule the tray does not know of.          *)
(***************************************************************************)
FreshGeneration ==
    ~TrayUsed => \A w \in Worker : ~job[w].crossed
=============================================================================
