-------------------------- MODULE DisplayService --------------------------
(***************************************************************************)
(* The privileged side of the virtual display (platform/windows/idd): the  *)
(* service that owns the software device (service/main.cpp), its pipe of   *)
(* one instance, and the controller process that one call of the desktop   *)
(* host runs (controller/main.cpp).  The host may kill a controller at any *)
(* point; a request it has already written stays in the pipe.              *)
(*                                                                         *)
(* A report is the controller's JSON and exit code: the service state it   *)
(* saw, the device state, whether the request succeeded (requestResult),   *)
(* and the exit status.  The generation counter, the instance id and the   *)
(* error codes carry no control and are left out.  Faults are errors of    *)
(* Windows calls and hung peers; there are at most MaxFaults of them.      *)
(***************************************************************************)
EXTENDS Naturals

CONSTANTS
    Callers,    \* host threads that may run a controller
    NoOne,      \* no client on the pipe
    MaxFaults,  \* bound: failing Windows calls and hung processes
    MaxStops    \* bound: times the service is told to stop

ASSUME ServiceAssumption ==
    /\ NoOne \notin Callers
    /\ MaxFaults \in Nat /\ MaxStops \in Nat

VARIABLES
    scm,        \* service state: "absent", "stopped", "starting", "running", "stopping"
    pid,        \* which run of the service this is
    srv,        \* PipeServer: "down", "listen", "read", "create", "reply"
    stopEvent,  \* g_serviceStopEvent is set
    pipe,       \* [client, req, answer]: who is connected, what it asked, the response
    device,     \* DeviceOwner::m_device is held
    state,      \* DeviceSnapshot::State
    monitor,    \* Windows shows the virtual monitor
    child,      \* child[c]: the controller process of caller c
    faults,     \* faults so far
    stops       \* stop controls so far

serviceVars == <<scm, pid, srv, stopEvent, pipe, device, state>>
svcVars == <<serviceVars, monitor, child, faults, stops>>

NoPipe == [client |-> NoOne, req |-> "none", answer |-> [ok |-> FALSE, state |-> "none"]]
NoReport == [seen |-> "none"]
NoChild == [pc |-> "none", cmd |-> "none", seen |-> "none", pid |-> 0,
            started |-> FALSE, report |-> NoReport]
Spawned(cmd) == [NoChild EXCEPT !.pc = "query", !.cmd = cmd]

ServiceInit ==
    /\ scm \in {"absent", "stopped", "running"}
    /\ pid = 1
    /\ srv = IF scm = "running" THEN "listen" ELSE "down"
    /\ stopEvent = FALSE
    /\ pipe = NoPipe
    /\ device = FALSE
    /\ state = "ready"
    /\ monitor = FALSE
    /\ child = [c \in Callers |-> NoChild]
    /\ faults = 0
    /\ stops = 0

Fault == faults < MaxFaults /\ faults' = faults + 1

----------------------------------------------------------------------------
(***************************************************************************)
(* The controller.  PrintUnavailable and PrintResponse end the process;    *)
(* `status` exits with 0 when the service is not there, and not when the   *)
(* call to a running service failed.                                       *)
(***************************************************************************)
Report(seen, st, ok, exit) == [seen |-> seen, state |-> st, ok |-> ok, exit |-> exit]
Exited(ch, r) == [ch EXCEPT !.pc = "exited", !.report = r]
Unavailable(ch, seen, exit) == Exited(ch, Report(seen, "unavailable", FALSE, exit))

QueryService(c) ==
    /\ child[c].pc = "query"
    /\ LET ch == [child[c] EXCEPT !.seen = scm, !.pid = pid]
       IN  child' = [child EXCEPT ![c] =
             IF scm = "absent" THEN Unavailable(ch, "absent", ch.cmd = "Status")
             ELSE IF ch.cmd = "Enable" THEN [ch EXCEPT !.pc = "ensure"]
             ELSE IF scm # "running" THEN Unavailable(ch, scm, ch.cmd = "Status")
             ELSE [ch EXCEPT !.pc = "connect"]]
    /\ UNCHANGED <<serviceVars, monitor, faults, stops>>

(***************************************************************************)
(* EnsureServiceRunning: one StartService, then wait for the service to    *)
(* run; stopped again, or not running within 15 seconds, is an error.      *)
(***************************************************************************)
EnsureServiceRunning(c) ==
    /\ child[c].pc = "ensure"
    /\ \/ /\ scm = "running"
          /\ child' = [child EXCEPT ![c] = [@ EXCEPT !.pc = "connect", !.seen = scm, !.pid = pid]]
          /\ UNCHANGED scm
       \/ /\ scm = "stopped" /\ ~child[c].started
          /\ scm' = "starting"
          /\ child' = [child EXCEPT ![c].started = TRUE]
       \/ /\ scm = "stopped" /\ child[c].started
          /\ child' = [child EXCEPT ![c] = Unavailable(@, scm, FALSE)]
          /\ UNCHANGED scm
    /\ UNCHANGED <<pid, srv, stopEvent, pipe, device, state, monitor, faults, stops>>

ControllerFails(c) ==
    /\ child[c].pc \in {"query", "ensure", "connect", "send"}
    /\ Fault
    /\ \E seen \in {"absent", scm} :
         child' = [child EXCEPT ![c] =
             Unavailable(@, seen, child[c].pc = "query" /\ child[c].cmd = "Status")]
    /\ pipe' = IF pipe.client = c THEN [pipe EXCEPT !.client = NoOne] ELSE pipe
    /\ UNCHANGED <<scm, pid, srv, stopEvent, device, state, monitor, stops>>

(***************************************************************************)
(* A controller that makes no more progress; its end of the pipe is open.  *)
(***************************************************************************)
ControllerHangs(c) ==
    /\ child[c].pc \in {"query", "ensure", "connect", "send", "wait"}
    /\ Fault
    /\ child' = [child EXCEPT ![c].pc = "hung"]
    /\ UNCHANGED <<serviceVars, monitor, stops>>

(***************************************************************************)
(* The pipe has one instance, so a client can only connect while the       *)
(* server listens.                                                         *)
(***************************************************************************)
PipeFree == srv = "listen"

(***************************************************************************)
(* CallService: WaitNamedPipe and CreateFile, then the check that the      *)
(* server is the process SCM named.  A pipe that stays busy for 5 seconds, *)
(* or is not there, is an error.                                           *)
(***************************************************************************)
Connect(c) ==
    /\ child[c].pc = "connect"
    /\ PipeFree
    /\ srv' = "read"
    /\ IF child[c].pid = pid
         THEN /\ child' = [child EXCEPT ![c].pc = "send"]
              /\ pipe' = [NoPipe EXCEPT !.client = c]
         ELSE /\ child' = [child EXCEPT ![c] = Unavailable(@, child[c].seen, FALSE)]
              /\ pipe' = NoPipe
    /\ UNCHANGED <<scm, pid, stopEvent, device, state, monitor, faults, stops>>

PipeBusy(c) ==
    /\ child[c].pc = "connect"
    /\ ~PipeFree
    /\ child' = [child EXCEPT ![c] = Unavailable(@, child[c].seen, FALSE)]
    /\ UNCHANGED <<serviceVars, monitor, faults, stops>>

(***************************************************************************)
(* TransactNamedPipe: the request is in the pipe, the client waits.        *)
(***************************************************************************)
Transact(c) ==
    /\ child[c].pc = "send"
    /\ child' = [child EXCEPT ![c].pc = "wait"]
    /\ pipe' = [pipe EXCEPT !.req = child[c].cmd]
    /\ UNCHANGED <<scm, pid, srv, stopEvent, device, state, monitor, faults, stops>>

Controller(c) ==
    QueryService(c) \/ EnsureServiceRunning(c) \/ Connect(c) \/ PipeBusy(c) \/ Transact(c)

----------------------------------------------------------------------------
(***************************************************************************)
(* ProcessClient.  ExecuteRequest runs as soon as the whole request is     *)
(* read; the response carries the snapshot taken after it.                 *)
(***************************************************************************)
Answer(ok, st) == pipe' = [pipe EXCEPT !.answer = [ok |-> ok, state |-> st]]

ExecuteStatus ==
    /\ srv = "read" /\ pipe.req = "Status"
    /\ Answer(TRUE, state)
    /\ srv' = "reply"
    /\ UNCHANGED <<scm, pid, stopEvent, device, state, monitor, child, faults, stops>>

Disable ==
    /\ srv = "read" /\ pipe.req = "Disable"
    /\ device' = FALSE
    /\ state' = "ready"
    /\ Answer(TRUE, "ready")
    /\ srv' = "reply"
    /\ UNCHANGED <<scm, pid, stopEvent, monitor, child, faults, stops>>

(***************************************************************************)
(* DeviceOwner::Enable up to its wait: nothing to do, or SwDeviceCreate.   *)
(***************************************************************************)
Enable ==
    /\ srv = "read" /\ pipe.req = "Enable"
    /\ IF device /\ state = "enabled"
         THEN Answer(TRUE, state) /\ srv' = "reply" /\ UNCHANGED <<device, state>>
         ELSE device' = TRUE /\ state' = "enabling" /\ srv' = "create" /\ UNCHANGED pipe
    /\ UNCHANGED <<scm, pid, stopEvent, monitor, child, faults, stops>>

Created ==
    /\ srv = "create"
    /\ state' = "enabled"
    /\ Answer(TRUE, "enabled")
    /\ srv' = "reply"
    /\ UNCHANGED <<scm, pid, stopEvent, device, monitor, child, faults, stops>>

(***************************************************************************)
(* The other ends of the wait: the stop event, a failed creation and the   *)
(* 20 second timeout.  All of them close the device.                       *)
(***************************************************************************)
CreateEnds ==
    /\ srv = "create"
    /\ \/ stopEvent /\ state' = "stopping" /\ Answer(FALSE, "stopping") /\ UNCHANGED faults
       \/ ~stopEvent /\ Fault /\ state' = "failed" /\ Answer(FALSE, "failed")
    /\ device' = FALSE
    /\ srv' = "reply"
    /\ UNCHANGED <<scm, pid, stopEvent, monitor, child, stops>>

(***************************************************************************)
(* WriteResponse and DisconnectNamedPipe; nobody may be there to read it.  *)
(***************************************************************************)
Reply ==
    /\ srv = "reply"
    /\ child' = [c \in Callers |->
          IF pipe.client = c /\ child[c].pc = "wait"
          THEN Exited(child[c], Report(child[c].seen, pipe.answer.state,
                                       pipe.answer.ok, pipe.answer.ok))
          ELSE child[c]]
    /\ pipe' = NoPipe
    /\ srv' = "listen"
    /\ UNCHANGED <<scm, pid, stopEvent, device, state, monitor, faults, stops>>

ClientSilent == pipe.client \in Callers => child[pipe.client].pc = "hung"

(***************************************************************************)
(* ReadRequest or WriteResponse that ends without a transfer: the service  *)
(* stops, or the client is gone or has said nothing for 5 seconds.  A      *)
(* client still there sees its pipe broken.                                *)
(***************************************************************************)
ClientDropped ==
    /\ srv \in {"read", "reply"}
    /\ \/ stopEvent \/ (pipe.req = "none" /\ ClientSilent)
       \/ srv = "reply" /\ pipe.client = NoOne
    /\ child' = [c \in Callers |->
          IF pipe.client = c /\ child[c].pc # "hung"
          THEN Unavailable(child[c], child[c].seen, FALSE) ELSE child[c]]
    /\ pipe' = NoPipe
    /\ srv' = "listen"
    /\ UNCHANGED <<scm, pid, stopEvent, device, state, monitor, faults, stops>>

----------------------------------------------------------------------------
(***************************************************************************)
(* ServiceMain: start, and the way out of PipeServer::Run by the stop      *)
(* event or a failing ConnectNamedPipe; device.Shutdown() closes the       *)
(* device before SERVICE_STOPPED.                                          *)
(***************************************************************************)
ServiceStarts ==
    /\ scm = "starting"
    /\ \/ scm' = "running" /\ srv' = "listen" /\ state' = "ready" /\ pid' = pid + 1
          /\ UNCHANGED faults
       \/ scm' = "stopped" /\ Fault /\ UNCHANGED <<srv, state, pid>>
    /\ UNCHANGED <<stopEvent, pipe, device, monitor, child, stops>>

ServiceEnds ==
    /\ srv = "listen"
    /\ \/ stopEvent /\ UNCHANGED faults
       \/ ~stopEvent /\ Fault
    /\ device' = FALSE
    /\ state' = "stopping"
    /\ srv' = "down"
    /\ scm' = "stopped"
    /\ stopEvent' = FALSE
    /\ UNCHANGED <<pid, pipe, monitor, child, stops>>

\* ServiceControlHandler, SERVICE_CONTROL_STOP or SHUTDOWN.
StopControl ==
    /\ scm = "running"
    /\ stops < MaxStops
    /\ stops' = stops + 1
    /\ scm' = "stopping"
    /\ stopEvent' = TRUE
    /\ UNCHANGED <<pid, srv, pipe, device, state, monitor, child, faults>>

Service ==
    ExecuteStatus \/ Disable \/ Enable \/ Created \/ CreateEnds \/ Reply \/ ClientDropped
    \/ ServiceStarts \/ ServiceEnds

(***************************************************************************)
(* Windows brings the monitor of an existing device up, and takes it down  *)
(* some time after the device is closed.                                   *)
(***************************************************************************)
Plug ==
    /\ monitor # device
    /\ monitor' = device
    /\ UNCHANGED <<serviceVars, child, faults, stops>>

=============================================================================
