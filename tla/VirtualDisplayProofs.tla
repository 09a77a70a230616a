------------------------ MODULE VirtualDisplayProofs ------------------------
(***************************************************************************)
(* Proofs about VirtualDisplay, for every number of callers, actions,      *)
(* faults and stops of the service, and every set of sizes.                *)
(***************************************************************************)
EXTENDS VirtualDisplay, TLAPS

Commands == {"none", "Status", "Enable", "Disable"}
ServiceStates == {"none", "absent", "stopped", "starting", "running", "stopping"}
DeviceStates ==
    {"none", "ready", "enabling", "enabled", "failed", "stopping", "unavailable"}
Statuses == DeviceStates \cup {"NotInstalled", "ServiceStopped", "ClientMissing"}
Reports == [seen : ServiceStates, state : DeviceStates, ok : BOOLEAN, exit : BOOLEAN]
Children ==
    [pc : {"none", "query", "ensure", "connect", "send", "wait", "exited", "hung"},
     cmd : Commands, seen : ServiceStates, pid : Nat, started : BOOLEAN,
     report : Reports \cup {NoReport}]
Pipes ==
    [client : Callers \cup {NoOne}, req : Commands,
     answer : [ok : BOOLEAN, state : DeviceStates]]
Calls ==
    [op : Commands, pc : {"idle", "run", "watch"}, st : Statuses, alone : BOOLEAN]
Alignments ==
    [target : {"none", "physical", "virtual"}, size : Sizes \cup {"none"},
     pc : {"idle", "query", "select", "apply", "wait", "ok"},
     name : {"found", "none", "physical", "virtual"}]

\* Type correctness of the service and of the controllers.
ServiceTypes ==
    /\ scm \in ServiceStates \ {"none"} /\ pid \in Nat
    /\ srv \in {"down", "listen", "read", "create", "reply"}
    /\ pipe \in Pipes /\ state \in DeviceStates
    /\ child \in [Callers -> Children]
    /\ \A c \in Callers : child[c].pc = "exited" => child[c].report \in Reports

\* Type correctness of the host.
HostTypes ==
    /\ call \in [Callers -> Calls]
    /\ mode \in [{"physical", "virtual"} -> Sizes \cup {"other"}]
    /\ align \in Alignments

TypeOK == ServiceTypes /\ HostTypes

\* The service is up from its start until it has closed the device; a pipe
\* nobody is connected to is empty.
PipeInv ==
    /\ scm \in {"absent", "stopped", "starting"} => srv = "down"
    /\ srv \in {"down", "listen"} => pipe = NoPipe
    /\ srv = "create" => pipe.req = "Enable"
    /\ srv = "reply" /\ pipe.req = "Disable" => ~device

\* A controller that is connected has the pipe to itself, and its request,
\* once written, is the one in the pipe.
ClientInv ==
    \A c \in Callers :
        /\ pipe.client = c => child[c].pc \in {"send", "wait", "hung"}
        /\ child[c].pc = "send" => pipe.client = c /\ srv = "read" /\ pipe.req = "none"
        /\ child[c].pc = "wait" =>
             pipe.client = c /\ srv \notin {"down", "listen"} /\ pipe.req = child[c].cmd

\* A controller runs for a call that waits for it, and does what it wants.
CallInv ==
    \A c \in Callers :
        /\ call[c].pc # "run" => child[c] = NoChild
        /\ call[c].pc = "run" => child[c].cmd = call[c].op

\* The device is closed and no enable is left in the service.
Off == ~device /\ pipe.req # "Enable"

Quiet == \A c \in Callers : call[c].op # "Enable"

DisableInv ==
    /\ settled => Quiet /\ Off
    /\ \A c \in Callers : call[c].alone =>
         /\ Quiet /\ call[c].op = "Disable"
         /\ call[c].pc = "watch" => Off
         /\ call[c].pc = "run" /\ child[c].pc = "exited" /\ child[c].report.ok => Off

\* An alignment under way is of the virtual monitor, which is there and has the
\* device name unless names were given out anew.
AlignInv ==
    Aligning => /\ align.target = "virtual" /\ align.size \in Sizes
                /\ align.name = "found" => monitor

DisplayInv == TypeOK /\ AlignInv /\ PipeInv /\ ClientInv /\ CallInv /\ DisableInv

-----------------------------------------------------------------------------
(***************************************************************************)
(* A controller that ends keeps its command and leaves a report; without   *)
(* an answer of the service the report is of a failure.                    *)
(***************************************************************************)
LEMMA ExitedChild ==
  ASSUME NEW ch \in Children, NEW r \in Reports
  PROVE  /\ Exited(ch, r) \in Children /\ Exited(ch, r).pc = "exited"
         /\ Exited(ch, r).report = r /\ Exited(ch, r).cmd = ch.cmd
  BY DEF Exited, Children

\* A controller that cannot reach the service exits with a report that says so.
LEMMA UnavailableChild ==
  ASSUME NEW ch \in Children, NEW seen \in ServiceStates, NEW exit \in BOOLEAN
  PROVE  LET u == Unavailable(ch, seen, exit)
         IN  /\ u \in Children /\ u.pc = "exited" /\ u.cmd = ch.cmd
             /\ u.report \in Reports /\ u.report.ok = FALSE
  <1> DEFINE r == Report(seen, "unavailable", FALSE, exit)
  <1>1. r \in Reports /\ r.ok = FALSE
    BY DEF Report, Reports, DeviceStates
  <1> QED BY <1>1, ExitedChild DEF Unavailable

\* The child of a caller before its first call and a controller just started.
LEMMA FreshChild ==
  /\ NoChild \in Children /\ NoChild.pc = "none" /\ NoChild.cmd = "none"
  /\ \A op \in Commands :
       Spawned(op) \in Children /\ Spawned(op).pc = "query" /\ Spawned(op).cmd = op
  BY DEF NoChild, Spawned, Children, Commands, ServiceStates, NoReport

\* A pipe instance without a client and one that has just been connected to.
LEMMA EmptyPipe ==
  /\ NoPipe \in Pipes /\ NoPipe.req = "none" /\ NoPipe.client = NoOne
  /\ \A c \in Callers : LET p == [NoPipe EXCEPT !.client = c]
                        IN  p \in Pipes /\ p.req = "none" /\ p.client = c
  BY DEF NoPipe, Pipes, Commands, DeviceStates

-----------------------------------------------------------------------------
(***************************************************************************)
(* Type correctness of the service and of the controllers.  A step of one  *)
(* controller changes one child.                                           *)
(***************************************************************************)
LEMMA OneChild ==
  ASSUME ServiceTypes, NEW c \in Callers, NEW ch \in Children,
         ch.pc = "exited" => ch.report \in Reports,
         child' = [child EXCEPT ![c] = ch]
  PROVE  /\ child' \in [Callers -> Children]
         /\ \A d \in Callers : child'[d].pc = "exited" => child'[d].report \in Reports
         /\ child'[c] = ch /\ \A d \in Callers \ {c} : child'[d] = child[d]
  BY DEF ServiceTypes

\* Every step of a controller keeps the types of the service's side.
LEMMA ControllerTypes ==
  ASSUME ServiceTypes, NEW c \in Callers,
         Controller(c) \/ ControllerFails(c) \/ ControllerHangs(c)
  PROVE  ServiceTypes'
  <1> DEFINE ch == child[c]
  <1>0. ch \in Children /\ scm \in ServiceStates /\ pid \in Nat
    BY DEF ServiceTypes
  <1>1. CASE QueryService(c)
    <2> DEFINE q == [ch EXCEPT !.seen = scm, !.pid = pid]
    <2>1. q \in Children /\ [q EXCEPT !.pc = "ensure"] \in Children
          /\ [q EXCEPT !.pc = "connect"] \in Children
          /\ [q EXCEPT !.pc = "ensure"].pc # "exited" /\ [q EXCEPT !.pc = "connect"].pc # "exited"
      BY <1>0 DEF Children
    <2>2. \A seen \in ServiceStates, exit \in BOOLEAN :
            LET u == Unavailable(q, seen, exit)
            IN  u \in Children /\ u.report \in Reports
      BY <2>1, UnavailableChild
    <2>3. "absent" \in ServiceStates /\ (q.cmd = "Status") \in BOOLEAN
      BY DEF ServiceStates
    <2>4. \E x \in Children : /\ x.pc = "exited" => x.report \in Reports
                              /\ child' = [child EXCEPT ![c] = x]
      <3> HIDE DEF q
      <3>1. child' = [child EXCEPT ![c] =
             IF scm = "absent" THEN Unavailable(q, "absent", q.cmd = "Status")
             ELSE IF q.cmd = "Enable" THEN [q EXCEPT !.pc = "ensure"]
             ELSE IF scm # "running" THEN Unavailable(q, scm, q.cmd = "Status")
             ELSE [q EXCEPT !.pc = "connect"]]
        BY <1>1 DEF QueryService, q
      <3> QED BY <1>0, <2>1, <2>2, <2>3, <3>1
    <2> QED BY <1>1, <2>4, OneChild DEF QueryService, ServiceTypes, serviceVars
  <1>2. CASE EnsureServiceRunning(c)
    <2>1. \E x \in Children : /\ x.pc = "exited" => x.report \in Reports
                              /\ child' = [child EXCEPT ![c] = x]
      <3>1. CASE child' = [child EXCEPT ![c] = [@ EXCEPT !.pc = "connect", !.seen = scm, !.pid = pid]]
        <4>1. [ch EXCEPT !.pc = "connect", !.seen = scm, !.pid = pid] \in Children
              /\ [ch EXCEPT !.pc = "connect", !.seen = scm, !.pid = pid].pc = "connect"
          BY <1>0 DEF Children
        <4> QED BY <3>1, <4>1 DEF ServiceTypes
      <3>2. CASE child[c].pc = "ensure" /\ child' = [child EXCEPT ![c].started = TRUE]
        <4>1. [ch EXCEPT !.started = TRUE] \in Children
              /\ [ch EXCEPT !.started = TRUE].pc = ch.pc
          BY <1>0 DEF Children
        <4> QED BY <3>2, <4>1 DEF ServiceTypes
      <3>3. CASE child' = [child EXCEPT ![c] = Unavailable(@, scm, FALSE)]
        <4>1. Unavailable(ch, scm, FALSE) \in Children /\ Unavailable(ch, scm, FALSE).report \in Reports
          BY <1>0, UnavailableChild
        <4> QED BY <3>3, <4>1 DEF ServiceTypes
      <3> QED BY <1>2, <3>1, <3>2, <3>3 DEF EnsureServiceRunning
    <2>2. /\ child' \in [Callers -> Children]
          /\ \A d \in Callers : child'[d].pc = "exited" => child'[d].report \in Reports
      BY <2>1, OneChild
    <2>3. scm' \in ServiceStates \ {"none"}
      BY <1>2 DEF EnsureServiceRunning, ServiceTypes, ServiceStates
    <2> QED BY <1>2, <2>2, <2>3 DEF EnsureServiceRunning, ServiceTypes
  <1>3. CASE ControllerFails(c)
    <2>1. \E seen \in ServiceStates, exit \in BOOLEAN :
            child' = [child EXCEPT ![c] = Unavailable(child[c], seen, exit)]
      BY <1>3, <1>0 DEF ControllerFails, ServiceStates
    <2>2. /\ child' \in [Callers -> Children]
          /\ \A d \in Callers : child'[d].pc = "exited" => child'[d].report \in Reports
      BY <1>0, <2>1, UnavailableChild, OneChild
    <2>3. pipe' \in Pipes
      BY <1>3 DEF ControllerFails, ServiceTypes, Pipes
    <2> QED BY <1>3, <2>2, <2>3 DEF ControllerFails, ServiceTypes
  <1>4. CASE ControllerHangs(c)
    <2>1. [ch EXCEPT !.pc = "hung"] \in Children /\ [ch EXCEPT !.pc = "hung"].pc = "hung"
      BY <1>0 DEF Children
    <2>2. child' = [child EXCEPT ![c] = [ch EXCEPT !.pc = "hung"]]
      BY <1>4 DEF ControllerHangs
    <2> QED BY <1>4, <2>1, <2>2, OneChild DEF ControllerHangs, ServiceTypes, serviceVars
  <1>5. CASE Connect(c)
    <2>1. [ch EXCEPT !.pc = "send"] \in Children /\ [ch EXCEPT !.pc = "send"].pc = "send"
      BY <1>0 DEF Children
    <2>2. ch.seen \in ServiceStates
      BY <1>0 DEF Children
    <2>3. \E x \in Children : /\ x.pc = "exited" => x.report \in Reports
                              /\ child' = [child EXCEPT ![c] = x]
      BY <1>0, <1>5, <2>1, <2>2, UnavailableChild DEF Connect
    <2>4. pipe' \in Pipes
      BY <1>5, EmptyPipe DEF Connect
    <2> QED BY <1>5, <2>3, <2>4, OneChild DEF Connect, ServiceTypes
  <1>6. CASE PipeBusy(c)
    <2>1. ch.seen \in ServiceStates
      BY <1>0 DEF Children
    <2>2. child' = [child EXCEPT ![c] = Unavailable(ch, ch.seen, FALSE)]
      BY <1>6 DEF PipeBusy
    <2>3. Unavailable(ch, ch.seen, FALSE) \in Children /\ Unavailable(ch, ch.seen, FALSE).report \in Reports
      BY <1>0, <2>1, UnavailableChild
    <2> QED BY <1>6, <2>2, <2>3, OneChild DEF PipeBusy, ServiceTypes, serviceVars
  <1>7. CASE Transact(c)
    <2>1. [ch EXCEPT !.pc = "wait"] \in Children /\ [ch EXCEPT !.pc = "wait"].pc = "wait"
          /\ ch.cmd \in Commands
      BY <1>0 DEF Children
    <2>2. child' = [child EXCEPT ![c] = [ch EXCEPT !.pc = "wait"]]
      BY <1>7 DEF Transact
    <2>3. pipe' \in Pipes
      BY <1>7, <2>1 DEF Transact, ServiceTypes, Pipes
    <2> QED BY <1>7, <2>1, <2>2, <2>3, OneChild DEF Transact, ServiceTypes
  <1> QED BY <1>1, <1>2, <1>3, <1>4, <1>5, <1>6, <1>7 DEF Controller

\* Every step of the service keeps them too.
LEMMA ServerTypes ==
  ASSUME ServiceTypes, Service \/ StopControl
  PROVE  ServiceTypes'
  <1> USE DEF ServiceTypes
  <1>0. ASSUME NEW ok \in BOOLEAN, NEW st \in DeviceStates, Answer(ok, st)
        PROVE  pipe' \in Pipes
    BY <1>0 DEF Answer, Pipes
  <1>1. CASE ExecuteStatus
    BY <1>0, <1>1 DEF ExecuteStatus
  <1>2. CASE Disable
    BY <1>0, <1>2 DEF Disable, DeviceStates
  <1>3. CASE Enable
    <2>1. pipe' \in Pipes
      BY <1>0, <1>3 DEF Enable
    <2>2. state' \in DeviceStates
      BY <1>3 DEF Enable, DeviceStates
    <2> QED BY <1>3, <2>1, <2>2 DEF Enable
  <1>4. CASE Created
    BY <1>0, <1>4 DEF Created, DeviceStates
  <1>5. CASE CreateEnds
    BY <1>0, <1>5 DEF CreateEnds, DeviceStates
  <1>6. CASE Reply
    <2>1. ASSUME NEW c \in Callers
          PROVE  /\ child'[c] \in Children
                 /\ child'[c].pc = "exited" => child'[c].report \in Reports
      <3>1. Report(child[c].seen, pipe.answer.state, pipe.answer.ok, pipe.answer.ok) \in Reports
        BY DEF Report, Reports, Pipes, Children
      <3> QED BY <1>6, <3>1, ExitedChild DEF Reply
    <2>2. child' \in [Callers -> Children]
      BY <1>6, <2>1 DEF Reply
    <2> QED BY <1>6, <2>1, <2>2, EmptyPipe DEF Reply
  <1>7. CASE ClientDropped
    <2>1. ASSUME NEW c \in Callers
          PROVE  /\ child'[c] \in Children
                 /\ child'[c].pc = "exited" => child'[c].report \in Reports
      <3>1. child[c].seen \in ServiceStates
        BY DEF Children
      <3> QED BY <1>7, <3>1, UnavailableChild DEF ClientDropped
    <2>2. child' \in [Callers -> Children]
      BY <1>7, <2>1 DEF ClientDropped
    <2> QED BY <1>7, <2>1, <2>2, EmptyPipe DEF ClientDropped
  <1>8. CASE ServiceStarts \/ ServiceEnds \/ StopControl
    BY <1>8 DEF ServiceStarts, ServiceEnds, StopControl, ServiceStates, DeviceStates
  <1> QED BY <1>1, <1>2, <1>3, <1>4, <1>5, <1>6, <1>7, <1>8 DEF Service

\* The steps of a host call that start, collect or kill a controller.
ChildSteps ==
    \/ AskStatus
    \/ \E c \in Callers :
         \/ Collect(c) \/ GiveUp(c) \/ LaunchFails(c) \/ ReportRefused(c)
         \/ \E op \in {"Enable", "Disable"} : Begin(c, op)

\* The steps of the host that leave service and controllers alone.
HostOnlySteps ==
    \/ Expire \/ Align \/ OtherReplug
    \/ \E c \in Callers : EnableSeen(c) \/ DisableSeen(c) \/ WatchEnds(c)
    \/ \E d \in Displays, s \in Sizes : PrepareDisplay(d, s)

\* Every step is one of five kinds: the host starts or reaps a controller, acts
\* on its own, Windows plugs or unplugs the monitor, the service's side runs
\* without the host, or nothing happens.
LEMMA NextSteps ==
  ASSUME [Next]_vars
  PROVE  \/ ChildSteps \/ HostOnlySteps \/ Replug
         \/ /\ UNCHANGED <<hostVars, modeVars>>
            /\ \/ Service \/ StopControl
               \/ \E c \in Callers : Controller(c) \/ ControllerFails(c) \/ ControllerHangs(c)
         \/ UNCHANGED vars
  BY DEF Next, Host, ChildSteps, HostOnlySteps

\* What the host does on its own leaves controllers, pipe and service alone.
LEMMA HostLeavesTheService == HostOnlySteps => UNCHANGED svcVars
  BY DEF HostOnlySteps, Expire, Align, QueryMode, SelectMode, ApplyMode, WaitForMode,
         OtherReplug, EnableSeen, DisableSeen, WatchEnds, PrepareDisplay

\* Every alignment record the steps build is well formed, and the name of a
\* device leads to a monitor or to nobody.
LEMMA AlignTypes ==
  ASSUME align \in Alignments
  PROVE  /\ NoAlign \in Alignments /\ ~(NoAlign.pc \in {"query", "select", "apply", "wait", "ok"})
         /\ Holder \in {"none", "physical", "virtual"}
         /\ \A d \in Displays, s \in Sizes : LET a == Alignment(d, s, "query") IN
              /\ a \in Alignments /\ a.pc = "query" /\ a.target = d /\ a.size = s
              /\ a.name = "found"
         /\ LET a == Alignment(align.target, align.size, "ok") IN
              a \in Alignments /\ a.pc = "ok" /\ a.size = align.size
         /\ \A pc \in {"select", "apply", "wait"} : LET a == [align EXCEPT !.pc = pc] IN
              /\ a \in Alignments /\ a.pc = pc /\ a.target = align.target /\ a.size = align.size
              /\ a.name = align.name
         /\ \A n \in {"none", "physical", "virtual"} : LET a == [align EXCEPT !.name = n] IN
              /\ a \in Alignments /\ a.pc = align.pc /\ a.target = align.target
              /\ a.size = align.size /\ a.name = n
  BY DEF NoAlign, Alignment, Alignments, Holder, Displays

\* A step of an alignment gives up, passes or goes on.
LEMMA AlignSteps ==
  ASSUME Align \/ Replug \/ OtherReplug
  PROVE  \/ align' = NoAlign
         \/ AlignPasses
         \/ \E pc \in {"select", "apply", "wait"} : Aligning /\ AlignGoesOn(pc)
         \/ ~Aligning /\ align' = align
         \/ Aligning /\ \E n \in {"none", "physical", "virtual"} : align' = [align EXCEPT !.name = n]
  <1>1. CASE Align
    BY <1>1 DEF Align, QueryMode, SelectMode, ApplyMode, WaitForMode, Aligning, AlignGoesOn
  <1>2. CASE Replug \/ OtherReplug
    BY <1>2 DEF Replug, OtherReplug, Renamed, Monitors
  <1> QED BY <1>1, <1>2

\* Starting, reaping and killing controllers keeps the types of the service's side.
LEMMA ChildStepTypes ==
  ASSUME ServiceTypes, ChildSteps
  PROVE  ServiceTypes'
  <1>1. \E c \in Callers : \E x \in Children :
          (x.pc # "exited" /\ child' = [child EXCEPT ![c] = x]) \/ child' = child
    <2>1. "Status" \in Commands /\ "Enable" \in Commands /\ "Disable" \in Commands
      BY DEF Commands
    <2>2. CASE AskStatus
      BY <2>1, <2>2, FreshChild, HostAssumption DEF AskStatus
    <2>3. ASSUME NEW c \in Callers, NEW op \in {"Enable", "Disable"}, Begin(c, op)
          PROVE  \E x \in Children :
                   (x.pc # "exited" /\ child' = [child EXCEPT ![c] = x]) \/ child' = child
      BY <2>1, <2>3, FreshChild DEF Begin
    <2>4. ASSUME NEW c \in Callers, Collect(c) \/ GiveUp(c) \/ LaunchFails(c) \/ ReportRefused(c)
          PROVE  child' = [child EXCEPT ![c] = NoChild]
      BY <2>4 DEF Collect, GiveUp, LaunchFails, ReportRefused, RunFails
    <2> QED BY <2>2, <2>3, <2>4, FreshChild DEF ChildSteps
  <1>2. /\ child' \in [Callers -> Children]
        /\ \A d \in Callers : child'[d].pc = "exited" => child'[d].report \in Reports
    BY <1>1, OneChild DEF ServiceTypes
  <1>3. UNCHANGED <<scm, pid, srv, state>>
    BY DEF ChildSteps, AskStatus, Begin, Collect, GiveUp, LaunchFails, ReportRefused, serviceVars
  <1>4. pipe' = pipe \/ pipe' = [pipe EXCEPT !.client = NoOne]
    BY DEF ChildSteps, AskStatus, Begin, Collect, GiveUp, LaunchFails, ReportRefused, serviceVars
  <1>5. pipe' \in Pipes
    BY <1>4 DEF ServiceTypes, Pipes
  <1> QED BY <1>2, <1>3, <1>5 DEF ServiceTypes

\* Every step keeps the types of the service's side.
LEMMA ServiceTypesStep ==
  ASSUME ServiceTypes, [Next]_vars
  PROVE  ServiceTypes'
  <1>1. CASE UNCHANGED svcVars
    BY <1>1 DEF ServiceTypes, svcVars, serviceVars
  <1>2. CASE Replug
    BY <1>2 DEF Replug, Plug, ServiceTypes, serviceVars
  <1> QED BY <1>1, <1>2, NextSteps, HostLeavesTheService, ChildStepTypes, ControllerTypes,
             ServerTypes DEF vars

(***************************************************************************)
(* Type correctness of the host.                                           *)
(***************************************************************************)
LEMMA HostTypesStep ==
  ASSUME TypeOK, AlignInv, [Next]_vars
  PROVE  HostTypes'
  <1> USE DEF TypeOK, HostTypes
  <1>0. Idle \in Calls
    BY DEF Idle, Calls, Commands, Statuses, DeviceStates
  <1>1. CASE UNCHANGED <<hostVars, modeVars>>
    BY <1>1 DEF hostVars, modeVars
  <1>2. CASE Replug \/ Align \/ OtherReplug
    <2>1. align' \in Alignments
      BY <1>2, AlignTypes, AlignSteps DEF AlignPasses, AlignGoesOn
    <2>2. CASE ApplyMode
      <3>1. Holder \in {"physical", "virtual"} => mode' \in [{"physical", "virtual"} -> Sizes \cup {"other"}]
        BY <2>2 DEF ApplyMode, AlignInv, Aligning
      <3>2. mode' = mode \/ Holder \in {"physical", "virtual"}
        BY <2>2, AlignTypes DEF ApplyMode, ChangeSucceeds
      <3> QED BY <2>1, <2>2, <3>1, <3>2 DEF ApplyMode, hostVars
    <2>3. CASE ~ApplyMode
      <3>1. mode' \in [{"physical", "virtual"} -> Sizes \cup {"other"}] /\ call' = call
        BY <1>2, <2>3 DEF Replug, Align, OtherReplug, QueryMode, SelectMode, WaitForMode, hostVars
      <3> QED BY <2>1, <3>1
    <2> QED BY <2>2, <2>3
  <1>3. CASE Expire
    BY <1>3 DEF Expire, modeVars
  <1>4. CASE AskStatus
    <2>1. [Idle EXCEPT !.op = "Status", !.pc = "run"] \in Calls
      BY DEF Idle, Calls, Commands, Statuses, DeviceStates
    <2> QED BY <1>4, <2>1, HostAssumption DEF AskStatus, modeVars
  <1>5. ASSUME NEW c \in Callers, NEW op \in {"Enable", "Disable"}, Begin(c, op)
        PROVE  HostTypes'
    <2>1. Started(c, op) \in [Callers -> Calls]
      <3>1. ASSUME NEW d \in Callers
            PROVE  [call[d] EXCEPT !.alone = @ /\ op # "Enable"] \in Calls
        BY DEF Calls
      <3>2. [op |-> op, pc |-> "run", st |-> "none",
             alone |-> op = "Disable" /\ \A e \in Callers : call[e].op # "Enable"] \in Calls
        BY DEF Calls, Commands, Statuses, DeviceStates
      <3> QED BY <3>1, <3>2 DEF Started
    <2> QED BY <1>5, <2>1 DEF Begin, modeVars
  <1>6. ASSUME NEW c \in Callers, Collect(c)
        PROVE  HostTypes'
    <2>1. StatusFromReport(child[c].report) \in Statuses
      <3>1. child[c].report \in Reports
        BY <1>6 DEF Collect, ServiceTypes
      <3> QED BY <3>1 DEF StatusFromReport, Reports, Statuses
    <2>2. \A st \in Statuses : [call[c] EXCEPT !.pc = "watch", !.st = st] \in Calls
      BY DEF Calls
    <2>3. call' \in [Callers -> Calls]
      BY <1>0, <1>6, <2>1, <2>2 DEF Collect, ReturnWith, Return
    <2> QED BY <1>6, <2>3 DEF Collect, modeVars
  <1>7. ASSUME NEW c \in Callers,
               \/ GiveUp(c) \/ LaunchFails(c) \/ ReportRefused(c)
               \/ EnableSeen(c) \/ DisableSeen(c) \/ WatchEnds(c)
        PROVE  HostTypes'
    <2>1. call' = [call EXCEPT ![c] = Idle] /\ UNCHANGED modeVars
      BY <1>7 DEF GiveUp, LaunchFails, ReportRefused, RunFails, EnableSeen, DisableSeen,
                  WatchEnds, ReturnWith, Return
    <2> QED BY <1>0, <2>1 DEF modeVars
  <1>8. ASSUME NEW d \in Displays, NEW s \in Sizes, PrepareDisplay(d, s)
        PROVE  HostTypes'
    BY <1>8, AlignTypes DEF PrepareDisplay
  <1> QED BY <1>1, <1>2, <1>3, <1>4, <1>5, <1>6, <1>7, <1>8, NextSteps
          DEF ChildSteps, HostOnlySteps, vars

-----------------------------------------------------------------------------
(***************************************************************************)
(* What a step of controller c does to its process, and to the pipe: it    *)
(* leaves it alone, lets go of it, connects, or writes its request.        *)
(***************************************************************************)
ChildEffect(c) ==
    /\ \A d \in Callers \ {c} : child'[d] = child[d]
    /\ child'[c].cmd = child[c].cmd /\ child[c].pc \notin {"none", "exited", "hung"}
    /\ child'[c].pc = "exited" => child'[c].report.ok = FALSE

LeavesPipe(c) ==
    /\ UNCHANGED <<srv, pipe>> /\ child'[c].pc \notin {"send", "wait"}
    /\ child[c].pc \in {"query", "ensure", "connect"} \/ child'[c].pc = "hung"
LetsGo(c) ==
    /\ srv' = srv /\ child'[c].pc = "exited"
    /\ pipe' = IF pipe.client = c THEN [pipe EXCEPT !.client = NoOne] ELSE pipe
Connects(c) ==
    /\ srv = "listen" /\ srv' = "read" /\ pipe'.req = "none" /\ scm' = scm
    /\ \/ child'[c].pc = "exited" /\ pipe'.client = NoOne
       \/ child'[c].pc = "send" /\ pipe'.client = c
Writes(c) ==
    /\ child[c].pc = "send" /\ child'[c].pc = "wait" /\ srv' = srv
    /\ pipe' = [pipe EXCEPT !.req = child[c].cmd]

PipeEffect(c) ==
    /\ device' = device /\ (scm' = scm \/ (scm = "stopped" /\ scm' = "starting"))
    /\ LeavesPipe(c) \/ LetsGo(c) \/ Connects(c) \/ Writes(c)

\* Whatever a controller does, it changes its own child as ChildEffect says and
\* the pipe as PipeEffect says.
LEMMA ControllerEffect ==
  ASSUME ServiceTypes, NEW c \in Callers,
         Controller(c) \/ ControllerFails(c) \/ ControllerHangs(c)
  PROVE  ChildEffect(c) /\ PipeEffect(c)
  <1> DEFINE ch == child[c]
  <1>0. /\ ch \in Children /\ child \in [Callers -> Children] /\ scm \in ServiceStates
        /\ ch.seen \in ServiceStates
    BY DEF ServiceTypes, Children
  <1>1. CASE QueryService(c)
    <2> DEFINE q == [ch EXCEPT !.seen = scm, !.pid = pid]
    <2>1. q \in Children /\ q.cmd = ch.cmd
      BY <1>0 DEF Children, ServiceTypes
    <2>2. /\ [q EXCEPT !.pc = "ensure"].cmd = q.cmd /\ [q EXCEPT !.pc = "ensure"].pc = "ensure"
          /\ [q EXCEPT !.pc = "connect"].cmd = q.cmd /\ [q EXCEPT !.pc = "connect"].pc = "connect"
      BY <2>1 DEF Children
    <2>3. \A seen \in ServiceStates, exit \in BOOLEAN :
            LET u == Unavailable(q, seen, exit)
            IN  u.cmd = q.cmd /\ u.pc = "exited" /\ u.report.ok = FALSE
      BY <2>1, UnavailableChild
    <2>4. "absent" \in ServiceStates /\ (q.cmd = "Status") \in BOOLEAN
      BY DEF ServiceStates
    <2>5. child' = [child EXCEPT ![c] =
             IF scm = "absent" THEN Unavailable(q, "absent", q.cmd = "Status")
             ELSE IF q.cmd = "Enable" THEN [q EXCEPT !.pc = "ensure"]
             ELSE IF scm # "running" THEN Unavailable(q, scm, q.cmd = "Status")
             ELSE [q EXCEPT !.pc = "connect"]]
      BY <1>1 DEF QueryService
    <2> HIDE DEF q
    <2>6. /\ child'[c].cmd = q.cmd /\ child'[c].pc \in {"ensure", "connect", "exited"}
          /\ child'[c].pc = "exited" => child'[c].report.ok = FALSE
      BY <1>0, <2>2, <2>3, <2>4, <2>5
    <2>7. \A d \in Callers \ {c} : child'[d] = child[d]
      BY <1>0, <2>5
    <2>8. LeavesPipe(c) /\ UNCHANGED <<device, scm>> /\ ch.pc = "query"
      BY <1>1, <2>6 DEF QueryService, serviceVars, LeavesPipe
    <2> QED BY <2>1, <2>6, <2>7, <2>8 DEF ChildEffect, PipeEffect
  <1>2. CASE EnsureServiceRunning(c)
    <2>1. /\ child'[c].cmd = ch.cmd /\ child'[c].pc \in {"ensure", "connect", "exited"}
          /\ child'[c].pc = "exited" => child'[c].report.ok = FALSE
      <3>1. CASE child' = [child EXCEPT ![c] = [@ EXCEPT !.pc = "connect", !.seen = scm, !.pid = pid]]
        BY <1>0, <3>1 DEF Children
      <3>2. CASE ch.pc = "ensure" /\ child' = [child EXCEPT ![c].started = TRUE]
        BY <1>0, <3>2 DEF Children
      <3>3. CASE child' = [child EXCEPT ![c] = Unavailable(@, scm, FALSE)]
        BY <1>0, <3>3, UnavailableChild
      <3> QED BY <1>2, <3>1, <3>2, <3>3 DEF EnsureServiceRunning
    <2>2. \A d \in Callers \ {c} : child'[d] = child[d]
      BY <1>0, <1>2 DEF EnsureServiceRunning
    <2>3. /\ LeavesPipe(c) /\ device' = device /\ ch.pc = "ensure"
          /\ scm' = scm \/ (scm = "stopped" /\ scm' = "starting")
      BY <1>2, <2>1 DEF EnsureServiceRunning, LeavesPipe
    <2> QED BY <2>1, <2>2, <2>3 DEF ChildEffect, PipeEffect
  <1>3. CASE ControllerFails(c)
    <2>1. PICK seen \in ServiceStates, exit \in BOOLEAN :
            child' = [child EXCEPT ![c] = Unavailable(ch, seen, exit)]
      BY <1>3, <1>0 DEF ControllerFails, ServiceStates
    <2>2. child'[c].cmd = ch.cmd /\ child'[c].pc = "exited" /\ child'[c].report.ok = FALSE
      BY <1>0, <2>1, UnavailableChild
    <2>3. \A d \in Callers \ {c} : child'[d] = child[d]
      BY <1>0, <2>1
    <2>4. LetsGo(c) /\ UNCHANGED <<device, scm>> /\ ch.pc \notin {"none", "exited", "hung"}
      BY <1>3, <2>2 DEF ControllerFails, LetsGo
    <2> QED BY <2>2, <2>3, <2>4 DEF ChildEffect, PipeEffect
  <1>4. CASE ControllerHangs(c)
    <2>1. child'[c].cmd = ch.cmd /\ child'[c].pc = "hung"
      BY <1>0, <1>4 DEF ControllerHangs, Children
    <2>2. \A d \in Callers \ {c} : child'[d] = child[d]
      BY <1>0, <1>4 DEF ControllerHangs
    <2>3. LeavesPipe(c) /\ UNCHANGED <<device, scm>> /\ ch.pc \notin {"none", "exited", "hung"}
      BY <1>4, <2>1 DEF ControllerHangs, LeavesPipe, serviceVars
    <2> QED BY <2>1, <2>2, <2>3 DEF ChildEffect, PipeEffect
  <1>5. CASE Connect(c)
    <2>1. /\ srv = "listen" /\ srv' = "read" /\ UNCHANGED <<device, scm>> /\ ch.pc = "connect"
      BY <1>5 DEF Connect, PipeFree
    <2>2. CASE /\ child' = [child EXCEPT ![c].pc = "send"]
               /\ pipe' = [NoPipe EXCEPT !.client = c]
      <3>1. child'[c].pc = "send" /\ child'[c].cmd = ch.cmd
        BY <1>0, <2>2 DEF Children
      <3>2. Connects(c)
        BY <2>1, <2>2, <3>1, EmptyPipe DEF Connects
      <3> QED BY <1>0, <2>1, <2>2, <3>1, <3>2 DEF ChildEffect, PipeEffect
    <2>3. CASE /\ child' = [child EXCEPT ![c] = Unavailable(@, ch.seen, FALSE)]
               /\ pipe' = NoPipe
      <3>1. child'[c].pc = "exited" /\ child'[c].cmd = ch.cmd /\ child'[c].report.ok = FALSE
        BY <1>0, <2>3, UnavailableChild
      <3>2. Connects(c)
        BY <2>1, <2>3, <3>1, EmptyPipe DEF Connects
      <3> QED BY <1>0, <2>1, <2>3, <3>1, <3>2 DEF ChildEffect, PipeEffect
    <2> QED BY <1>5, <2>2, <2>3 DEF Connect
  <1>6. CASE PipeBusy(c)
    <2>1. child'[c].pc = "exited" /\ child'[c].cmd = ch.cmd /\ child'[c].report.ok = FALSE
      BY <1>0, <1>6, UnavailableChild DEF PipeBusy
    <2>2. LeavesPipe(c) /\ UNCHANGED <<device, scm>> /\ ch.pc = "connect"
      BY <1>6, <2>1 DEF PipeBusy, serviceVars, LeavesPipe
    <2>3. \A d \in Callers \ {c} : child'[d] = child[d]
      BY <1>0, <1>6 DEF PipeBusy
    <2> QED BY <2>1, <2>2, <2>3 DEF ChildEffect, PipeEffect
  <1>7. CASE Transact(c)
    <2>1. child'[c].pc = "wait" /\ child'[c].cmd = ch.cmd
      BY <1>0, <1>7 DEF Transact, Children
    <2>2. Writes(c) /\ UNCHANGED <<device, scm>> /\ ch.pc = "send"
      BY <1>7, <2>1 DEF Transact, Writes
    <2>3. \A d \in Callers \ {c} : child'[d] = child[d]
      BY <1>0, <1>7 DEF Transact
    <2> QED BY <2>1, <2>2, <2>3 DEF ChildEffect, PipeEffect
  <1> QED BY <1>1, <1>2, <1>3, <1>4, <1>5, <1>6, <1>7 DEF Controller

(***************************************************************************)
(* The steps of the controllers preserve the invariant.                    *)
(***************************************************************************)
LEMMA ControllerKeeps ==
  ASSUME DisplayInv, NEW c \in Callers, UNCHANGED <<hostVars, modeVars>>,
         Controller(c) \/ ControllerFails(c) \/ ControllerHangs(c)
  PROVE  PipeInv' /\ ClientInv' /\ CallInv' /\ DisableInv'
  <1> USE DEF DisplayInv, TypeOK
  <1>0. /\ pipe \in Pipes /\ NoOne \notin Callers /\ UNCHANGED <<call, settled>>
        /\ child[c].cmd \in Commands
    BY ServiceAssumption DEF ServiceTypes, Children, hostVars
  <1>1. ChildEffect(c) /\ PipeEffect(c)
    BY ControllerEffect
  <1>2. child[c] # NoChild
    BY <1>1, FreshChild DEF ChildEffect
  <1>3. ClientInv /\ PipeInv /\ CallInv /\ DisableInv
    OBVIOUS
  <1>4. ASSUME LeavesPipe(c)
        PROVE  PipeInv' /\ ClientInv' /\ pipe'.req \in {pipe.req, "none", child[c].cmd}
    <2>1. PipeInv'
      BY <1>1, <1>3, <1>4 DEF PipeInv, PipeEffect, LeavesPipe
    <2>2. ClientInv'
      BY <1>1, <1>3, <1>4 DEF ClientInv, ChildEffect, LeavesPipe
    <2>3. pipe'.req = pipe.req
      BY <1>4 DEF LeavesPipe
    <2> QED BY <2>1, <2>2, <2>3
  <1>5. ASSUME LetsGo(c)
        PROVE  PipeInv' /\ ClientInv' /\ pipe'.req \in {pipe.req, "none", child[c].cmd}
    <2>1. /\ pipe'.req = pipe.req /\ (pipe.client # c => pipe' = pipe)
          /\ pipe'.client = IF pipe.client = c THEN NoOne ELSE pipe.client
          /\ pipe = NoPipe => pipe' = NoPipe
      BY <1>0, <1>5, EmptyPipe DEF LetsGo, Pipes
    <2>2. PipeInv'
      BY <1>1, <1>3, <1>5, <2>1 DEF PipeInv, PipeEffect, LetsGo
    <2>3. ClientInv'
      BY <1>0, <1>1, <1>3, <1>5, <2>1 DEF ClientInv, ChildEffect, LetsGo
    <2> QED BY <2>1, <2>2, <2>3
  <1>6. ASSUME Connects(c)
        PROVE  PipeInv' /\ ClientInv' /\ pipe'.req \in {pipe.req, "none", child[c].cmd}
    <2>1. PipeInv'
      BY <1>1, <1>3, <1>6 DEF PipeInv, PipeEffect, Connects
    <2>2. ClientInv'
      BY <1>0, <1>1, <1>3, <1>6 DEF ClientInv, ChildEffect, Connects
    <2> QED BY <1>6, <2>1, <2>2 DEF Connects
  <1>7. ASSUME Writes(c)
        PROVE  PipeInv' /\ ClientInv' /\ pipe'.req \in {pipe.req, "none", child[c].cmd}
    <2>1. pipe'.req = child[c].cmd /\ pipe'.client = pipe.client
      BY <1>0, <1>7 DEF Writes, Pipes
    <2>2. srv = "read" /\ pipe.client = c
      BY <1>3, <1>7 DEF ClientInv, Writes
    <2>3. PipeInv'
      BY <1>1, <1>3, <1>7, <2>2 DEF PipeInv, PipeEffect, Writes
    <2>4. ClientInv'
      BY <1>1, <1>3, <1>7, <2>1, <2>2 DEF ClientInv, ChildEffect, Writes
    <2> QED BY <2>1, <2>3, <2>4
  <1>8. PipeInv' /\ ClientInv' /\ pipe'.req \in {pipe.req, "none", child[c].cmd}
    BY <1>1, <1>4, <1>5, <1>6, <1>7 DEF PipeEffect
  <1>9. CallInv'
    BY <1>0, <1>1, <1>2, <1>3 DEF CallInv, ChildEffect
  <1>10. ASSUME Quiet, Off PROVE Off'
    BY <1>0, <1>1, <1>2, <1>3, <1>8, <1>10 DEF Quiet, Off, CallInv, PipeEffect
  <1>11. DisableInv'
    BY <1>0, <1>1, <1>3, <1>10 DEF DisableInv, Quiet, ChildEffect
  <1> QED BY <1>8, <1>9, <1>11

(***************************************************************************)
(* The steps of the service preserve the invariant.                        *)
(***************************************************************************)
LEMMA ServiceKeeps ==
  ASSUME DisplayInv, UNCHANGED <<hostVars, modeVars>>, Service \/ StopControl
  PROVE  PipeInv' /\ ClientInv' /\ CallInv' /\ DisableInv'
  <1> USE DEF DisplayInv, TypeOK
  <1>0. /\ pipe \in Pipes /\ child \in [Callers -> Children] /\ NoOne \notin Callers
        /\ UNCHANGED <<call, settled>>
    BY ServiceAssumption DEF ServiceTypes, hostVars
  <1>1. ASSUME NEW ok, NEW st, Answer(ok, st)
        PROVE  pipe'.req = pipe.req /\ pipe'.client = pipe.client
    BY <1>0, <1>1 DEF Answer, Pipes
  <1>2. ASSUME child' = child, pipe'.req = pipe.req, pipe'.client = pipe.client,
               srv \notin {"down", "listen"}, srv' \notin {"down", "listen"},
               (\A c \in Callers : child[c].pc # "send"), Off => ~device'
        PROVE  ClientInv' /\ CallInv' /\ DisableInv'
    BY <1>0, <1>2 DEF ClientInv, CallInv, DisableInv, Quiet, Off
  <1>3. pipe.req # "none" \/ srv # "read" => \A c \in Callers : child[c].pc # "send"
    BY DEF ClientInv
  <1>4. CASE ExecuteStatus \/ Disable
    <2>1. /\ child' = child /\ pipe'.req = pipe.req /\ pipe'.client = pipe.client
          /\ srv = "read" /\ srv' = "reply" /\ pipe.req \in {"Status", "Disable"} /\ scm' = scm
          /\ pipe.req = "Disable" => device' = FALSE
          /\ device' = device \/ device' = FALSE
      BY <1>1, <1>4 DEF ExecuteStatus, Disable
    <2>2. ClientInv' /\ CallInv' /\ DisableInv'
      BY <1>2, <1>3, <2>1 DEF Off
    <2>3. PipeInv'
      BY <2>1 DEF PipeInv
    <2> QED BY <2>2, <2>3
  <1>5. CASE Enable
    <2>1. /\ child' = child /\ pipe'.req = pipe.req /\ pipe'.client = pipe.client
          /\ srv = "read" /\ srv' \in {"reply", "create"} /\ pipe.req = "Enable" /\ scm' = scm
      BY <1>1, <1>5 DEF Enable
    <2>2. ClientInv' /\ CallInv' /\ DisableInv'
      BY <1>2, <1>3, <2>1 DEF Off
    <2>3. PipeInv'
      BY <2>1 DEF PipeInv
    <2> QED BY <2>2, <2>3
  <1>6. CASE Created \/ CreateEnds
    <2>1. /\ child' = child /\ pipe'.req = pipe.req /\ pipe'.client = pipe.client
          /\ srv = "create" /\ srv' = "reply" /\ scm' = scm
          /\ device' = device \/ device' = FALSE
      BY <1>1, <1>6 DEF Created, CreateEnds
    <2>2. ClientInv' /\ CallInv' /\ DisableInv'
      BY <1>2, <1>3, <2>1 DEF Off
    <2>3. PipeInv'
      BY <2>1 DEF PipeInv
    <2> QED BY <2>2, <2>3
  <1>7. CASE Reply
    <2>1. srv = "reply" /\ srv' = "listen" /\ pipe' = NoPipe /\ UNCHANGED <<scm, device>>
      BY <1>7 DEF Reply
    <2>2. ASSUME NEW c \in Callers
          PROVE  \/ child'[c] = child[c] /\ child[c].pc # "wait"
                 \/ /\ child[c].pc = "wait" /\ pipe.req = child[c].cmd
                    /\ child'[c].pc = "exited" /\ child'[c].cmd = child[c].cmd
      <3>1. Report(child[c].seen, pipe.answer.state, pipe.answer.ok, pipe.answer.ok) \in Reports
        BY <1>0 DEF Report, Reports, Pipes, Children
      <3>2. child[c].pc = "wait" => pipe.client = c /\ pipe.req = child[c].cmd
        BY DEF ClientInv
      <3> QED BY <1>0, <1>7, <3>1, <3>2, ExitedChild DEF Reply
    <2>3. PipeInv' /\ ClientInv'
      BY <1>0, <1>3, <2>1, <2>2, EmptyPipe DEF PipeInv, ClientInv
    <2>4. CallInv'
      BY <1>0, <2>2, FreshChild DEF CallInv
    <2>5. Off => Off'
      BY <2>1, EmptyPipe DEF Off
    <2>6. ASSUME NEW c \in Callers, call[c].alone, call[c].pc = "run",
                 child'[c].pc = "exited", child'[c].report.ok
          PROVE  Off'
      <3>1. CASE child'[c] = child[c]
        BY <2>5, <2>6, <3>1 DEF DisableInv
      <3>2. CASE child[c].pc = "wait" /\ pipe.req = child[c].cmd
        <4>1. pipe.req = "Disable"
          BY <2>6, <3>2 DEF DisableInv, CallInv
        <4> QED BY <2>1, <4>1, EmptyPipe DEF PipeInv, Off
      <3> QED BY <2>2, <3>1, <3>2
    <2>7. DisableInv'
      BY <1>0, <2>5, <2>6 DEF DisableInv, Quiet
    <2> QED BY <2>3, <2>4, <2>7
  <1>8. CASE ClientDropped
    <2>1. /\ srv \in {"read", "reply"} /\ srv' = "listen" /\ pipe' = NoPipe
          /\ UNCHANGED <<scm, device>>
      BY <1>8 DEF ClientDropped
    <2>2. ASSUME NEW c \in Callers
          PROVE  \/ child'[c] = child[c] /\ child[c].pc \notin {"send", "wait"}
                 \/ /\ child[c].pc # "none" /\ child'[c].pc = "exited"
                    /\ child'[c].cmd = child[c].cmd /\ child'[c].report.ok = FALSE
      <3>1. child[c].seen \in ServiceStates
        BY <1>0 DEF Children
      <3>2. /\ child[c].pc \in {"send", "wait"} => pipe.client = c
            /\ pipe.client = c => child[c].pc # "none"
        BY DEF ClientInv
      <3> QED BY <1>0, <1>8, <3>1, <3>2, UnavailableChild DEF ClientDropped
    <2>3. PipeInv' /\ ClientInv'
      <3>1. PipeInv'
        BY <2>1, EmptyPipe DEF PipeInv
      <3>2. pipe'.client \notin Callers
        BY <1>0, <2>1, EmptyPipe
      <3>3. \A c \in Callers : child'[c].pc \notin {"send", "wait"}
        BY <2>2
      <3>4. ClientInv'
        BY <3>2, <3>3 DEF ClientInv
      <3> QED BY <3>1, <3>4
    <2>4. CallInv'
      <3> SUFFICES ASSUME NEW c \in Callers
                   PROVE  /\ call[c].pc # "run" => child'[c] = NoChild
                          /\ call[c].pc = "run" => child'[c].cmd = call[c].op
        BY <1>0 DEF CallInv
      <3>1. /\ call[c].pc # "run" => child[c] = NoChild
            /\ call[c].pc = "run" => child[c].cmd = call[c].op
        BY DEF CallInv
      <3> QED BY <2>2, <3>1, FreshChild
    <2>5. DisableInv'
      BY <1>0, <2>1, <2>2, EmptyPipe DEF DisableInv, Quiet, Off
    <2> QED BY <2>3, <2>4, <2>5
  <1>9. CASE ServiceStarts \/ ServiceEnds \/ StopControl
    <2>1. /\ UNCHANGED <<child, pipe>> /\ (device' = device \/ device' = FALSE)
          /\ \/ /\ srv' = srv /\ device' = device
                /\ scm' = "stopping" \/ (scm' = "stopped" /\ scm = "starting")
             \/ srv \in {"down", "listen"} /\ srv' = "listen" /\ scm' = "running"
             \/ srv \in {"down", "listen"} /\ srv' = "down"
      BY <1>9 DEF ServiceStarts, ServiceEnds, StopControl, PipeInv
    <2>2. PipeInv'
      BY <2>1 DEF PipeInv
    <2>3. ClientInv' /\ CallInv' /\ DisableInv'
      BY <1>0, <2>1 DEF ClientInv, CallInv, DisableInv, Quiet, Off
    <2> QED BY <2>2, <2>3
  <1> QED BY <1>4, <1>5, <1>6, <1>7, <1>8, <1>9 DEF Service

(***************************************************************************)
(* The steps of the host preserve the invariant.  A call that begins finds *)
(* no process of its own left.                                             *)
(***************************************************************************)
LEMMA HostKeeps ==
  ASSUME DisplayInv, ChildSteps \/ HostOnlySteps \/ Replug
  PROVE  PipeInv' /\ ClientInv' /\ CallInv' /\ DisableInv'
  <1> USE DEF DisplayInv, TypeOK
  <1>0. /\ pipe \in Pipes /\ child \in [Callers -> Children] /\ NoOne \notin Callers
        /\ call \in [Callers -> Calls] /\ Poller \in Callers
    BY ServiceAssumption, HostAssumption DEF ServiceTypes, HostTypes
  <1>1. /\ Idle.op = "none" /\ Idle.pc = "idle" /\ Idle.alone = FALSE
        /\ LET r == [Idle EXCEPT !.op = "Status", !.pc = "run"]
           IN  r.op = "Status" /\ r.pc = "run" /\ r.alone = FALSE
    BY DEF Idle
  <1>2. UNCHANGED <<srv, scm, device>>
    BY HostLeavesTheService
       DEF ChildSteps, AskStatus, Begin, Collect, GiveUp, LaunchFails, ReportRefused,
           Replug, Plug, svcVars, serviceVars
  <1>3. ASSUME pipe' = pipe PROVE PipeInv'
    BY <1>2, <1>3 DEF PipeInv
  <1>4. ASSUME NEW c \in Callers, NEW op \in {"Status", "Enable", "Disable"}, call[c] = Idle,
               child' = [child EXCEPT ![c] = Spawned(op)], pipe' = pipe
        PROVE  /\ ClientInv'
               /\ child'[c].pc = "query" /\ child'[c].cmd = op
               /\ \A d \in Callers \ {c} : child'[d] = child[d]
    <2>1. child[c] = NoChild
      BY <1>1, <1>4 DEF CallInv
    <2>2. Spawned(op).pc = "query" /\ Spawned(op).cmd = op /\ child[c].pc = "none"
      BY <1>4, <2>1, FreshChild DEF Commands
    <2> QED BY <1>0, <1>2, <1>4, <2>2 DEF ClientInv
  <1>5. CASE AskStatus
    <2>1. /\ UNCHANGED <<pipe, settled>>
      BY <1>5 DEF AskStatus, serviceVars
    <2>2. CASE FindController
      <3>1. /\ call[Poller] = Idle /\ child' = [child EXCEPT ![Poller] = Spawned("Status")]
            /\ call'[Poller].op = "Status" /\ call'[Poller].pc = "run"
            /\ call'[Poller].alone = FALSE
            /\ \A d \in Callers \ {Poller} : call'[d] = call[d]
        BY <1>0, <1>1, <1>5, <2>2 DEF AskStatus
      <3>2. /\ ClientInv' /\ child'[Poller].cmd = "Status"
            /\ \A d \in Callers \ {Poller} : child'[d] = child[d]
        BY <1>0, <1>4, <2>1, <3>1
      <3>3. CallInv'
        BY <1>0, <3>1, <3>2 DEF CallInv
      <3>4. DisableInv'
        BY <1>0, <1>2, <2>1, <3>1, <3>2 DEF DisableInv, Quiet, Off
      <3> QED BY <1>3, <2>1, <3>2, <3>3, <3>4
    <2>3. CASE ~FindController
      BY <1>2, <1>3, <1>5, <2>1, <2>3
         DEF AskStatus, ClientInv, CallInv, DisableInv, Quiet, Off
    <2> QED BY <2>2, <2>3
  <1>6. ASSUME NEW c \in Callers, NEW op \in {"Enable", "Disable"}, Begin(c, op)
        PROVE  PipeInv' /\ ClientInv' /\ CallInv' /\ DisableInv'
    <2>1. pipe' = pipe /\ settled' = (settled /\ op # "Enable") /\ call[c] = Idle
      BY <1>6 DEF Begin, serviceVars
    <2>2. CASE FindController
      <3>1. child' = [child EXCEPT ![c] = Spawned(op)] /\ call' = Started(c, op)
        BY <1>6, <2>2 DEF Begin
      <3>2. /\ ClientInv' /\ child'[c].cmd = op /\ child'[c].pc = "query"
            /\ \A d \in Callers \ {c} : child'[d] = child[d]
        BY <1>4, <2>1, <3>1
      <3>3. /\ call'[c].op = op /\ call'[c].pc = "run"
            /\ call'[c].alone = (op = "Disable" /\ Quiet)
        BY <3>1 DEF Started, Quiet
      <3>4. ASSUME NEW d \in Callers \ {c}
            PROVE  /\ call'[d].op = call[d].op /\ call'[d].pc = call[d].pc
                   /\ call'[d].alone = (call[d].alone /\ op # "Enable")
                   /\ call'[d].st = call[d].st
        BY <1>0, <3>1, <3>4 DEF Started, Calls
      <3>5. CallInv'
        BY <3>2, <3>3, <3>4 DEF CallInv
      <3>6. Quiet /\ op # "Enable" => Quiet'
        BY <3>3, <3>4 DEF Quiet
      <3>7. Off => Off'
        BY <1>2, <2>1 DEF Off
      <3>8. DisableInv'
        <4>1. settled' => Quiet' /\ Off'
          BY <2>1, <3>6, <3>7 DEF DisableInv
        <4>2. ASSUME NEW d \in Callers, call'[d].alone
              PROVE  /\ Quiet' /\ call'[d].op = "Disable"
                     /\ call'[d].pc = "watch" => Off'
                     /\ call'[d].pc = "run" /\ child'[d].pc = "exited" /\ child'[d].report.ok
                          => Off'
          <5>1. CASE d = c
            BY <3>2, <3>3, <3>6, <4>2, <5>1
          <5>2. CASE d # c
            BY <3>2, <3>4, <3>6, <3>7, <4>2, <5>2 DEF DisableInv
          <5> QED BY <5>1, <5>2
        <4> QED BY <4>1, <4>2 DEF DisableInv
      <3> QED BY <1>3, <2>1, <3>2, <3>5, <3>8
    <2>3. CASE ~FindController
      <3>1. UNCHANGED <<call, child>> /\ (settled' => settled)
        BY <1>6, <2>1, <2>3 DEF Begin
      <3>2. DisableInv'
        BY <1>2, <2>1, <3>1 DEF DisableInv, Quiet, Off
      <3> QED BY <1>2, <1>3, <2>1, <3>1, <3>2 DEF ClientInv, CallInv
    <2> QED BY <2>2, <2>3
  <1>7. ASSUME NEW c \in Callers, call' = [call EXCEPT ![c] = Idle],
               child' = [child EXCEPT ![c] = NoChild], settled' = settled,
               pipe' = pipe \/ pipe' = [pipe EXCEPT !.client = NoOne],
               pipe.client = c => pipe'.client = NoOne,
               pipe.client # c => pipe' = pipe
        PROVE  PipeInv' /\ ClientInv' /\ CallInv' /\ DisableInv'
    <2>1. pipe'.req = pipe.req /\ pipe'.client # c /\ (pipe = NoPipe => pipe' = NoPipe)
      BY <1>0, <1>7, EmptyPipe DEF Pipes
    <2>2. PipeInv'
      BY <1>2, <2>1 DEF PipeInv
    <2>3. child'[c].pc = "none" /\ \A d \in Callers \ {c} : child'[d] = child[d]
      BY <1>0, <1>7, FreshChild
    <2>4. ClientInv'
      BY <1>0, <1>2, <1>7, <2>1, <2>3 DEF ClientInv
    <2>5. CallInv'
      BY <1>0, <1>1, <1>7, <2>3 DEF CallInv
    <2>6. DisableInv'
      BY <1>0, <1>1, <1>2, <1>7, <2>1, <2>3 DEF DisableInv, Quiet, Off
    <2> QED BY <2>2, <2>4, <2>5, <2>6
  <1>8. ASSUME NEW c \in Callers, GiveUp(c) \/ LaunchFails(c) \/ ReportRefused(c)
        PROVE  PipeInv' /\ ClientInv' /\ CallInv' /\ DisableInv'
    <2>1. /\ call' = [call EXCEPT ![c] = Idle] /\ child' = [child EXCEPT ![c] = NoChild]
          /\ settled' = settled
      BY <1>8 DEF GiveUp, LaunchFails, ReportRefused, RunFails, ReturnWith, Return
    <2>2. CASE GiveUp(c)
      <3>1. pipe' = IF pipe.client = c THEN [pipe EXCEPT !.client = NoOne] ELSE pipe
        BY <2>2 DEF GiveUp
      <3>2. [pipe EXCEPT !.client = NoOne].client = NoOne
        BY <1>0 DEF Pipes
      <3> QED BY <1>7, <2>1, <3>1, <3>2
    <2>3. CASE LaunchFails(c) \/ ReportRefused(c)
      <3>1. pipe' = pipe /\ child[c].pc \in {"query", "exited"}
        BY <2>3 DEF LaunchFails, ReportRefused, serviceVars
      <3>2. pipe.client # c
        BY <3>1 DEF ClientInv
      <3> QED BY <1>7, <2>1, <3>1, <3>2
    <2> QED BY <1>8, <2>2, <2>3
  <1>9. ASSUME NEW c \in Callers, Collect(c)
        PROVE  PipeInv' /\ ClientInv' /\ CallInv' /\ DisableInv'
    <2>1. /\ child' = [child EXCEPT ![c] = NoChild] /\ settled' = settled /\ pipe' = pipe
          /\ call[c].pc = "run" /\ child[c].pc = "exited"
      BY <1>9 DEF Collect, serviceVars
    <2>2. pipe.client # c
      BY <2>1 DEF ClientInv
    <2>3. CASE call' = [call EXCEPT ![c] = Idle]
      BY <1>7, <2>1, <2>2, <2>3
    <2>4. ASSUME NEW st, call' = [call EXCEPT ![c] = [@ EXCEPT !.pc = "watch", !.st = st]],
                 child[c].report.ok
          PROVE  ClientInv' /\ CallInv' /\ DisableInv'
      <3>1. /\ child'[c] = NoChild /\ child'[c].pc = "none"
            /\ \A d \in Callers \ {c} : child'[d] = child[d]
        BY <1>0, <2>1, FreshChild
      <3>2. /\ call'[c].pc = "watch" /\ call'[c].op = call[c].op
            /\ call'[c].alone = call[c].alone
            /\ \A d \in Callers \ {c} : call'[d] = call[d]
        BY <1>0, <2>4 DEF Calls
      <3>3. ClientInv'
        BY <1>2, <2>1, <2>2, <3>1 DEF ClientInv
      <3>4. CallInv'
        BY <3>1, <3>2 DEF CallInv
      <3>5. DisableInv'
        BY <1>2, <2>1, <2>4, <3>1, <3>2 DEF DisableInv, Quiet, Off
      <3> QED BY <3>3, <3>4, <3>5
    <2> QED BY <1>3, <1>9, <2>1, <2>3, <2>4 DEF Collect, ReturnWith, Return
  <1>10. ASSUME NEW c \in Callers, EnableSeen(c) \/ DisableSeen(c) \/ WatchEnds(c)
         PROVE  PipeInv' /\ ClientInv' /\ CallInv' /\ DisableInv'
    <2>1. /\ call' = [call EXCEPT ![c] = Idle] /\ UNCHANGED <<pipe, child>>
          /\ call[c].pc = "watch"
      BY <1>10 DEF EnableSeen, DisableSeen, WatchEnds, ReturnWith, Return, svcVars, serviceVars
    <2>2. child[c] = NoChild
      BY <2>1 DEF CallInv
    <2>3. ClientInv' /\ PipeInv'
      BY <1>2, <1>3, <2>1 DEF ClientInv
    <2>4. CallInv'
      BY <1>0, <1>1, <2>1, <2>2 DEF CallInv
    <2>5. Quiet => Quiet'
      BY <1>0, <1>1, <2>1 DEF Quiet
    <2>6. Off => Off'
      BY <1>2, <2>1 DEF Off
    <2>7. settled' => Quiet' /\ Off'
      <3>1. settled' => settled \/ call[c].alone
        BY <1>10 DEF EnableSeen, DisableSeen, WatchEnds
      <3> QED BY <2>1, <2>5, <2>6, <3>1 DEF DisableInv
    <2>8. DisableInv'
      BY <1>0, <1>1, <2>1, <2>5, <2>6, <2>7 DEF DisableInv
    <2> QED BY <2>3, <2>4, <2>8
  <1>11. CASE \/ Expire \/ Align \/ Replug \/ OtherReplug
              \/ \E d \in Displays, s \in Sizes : PrepareDisplay(d, s)
    <2>1. UNCHANGED <<pipe, child, call, settled>>
      BY <1>11 DEF Expire, Align, QueryMode, SelectMode, ApplyMode, WaitForMode, Replug,
                   OtherReplug, Plug, PrepareDisplay, svcVars, serviceVars, hostVars
    <2> QED BY <1>2, <1>3, <2>1 DEF ClientInv, CallInv, DisableInv, Quiet, Off
  <1> QED BY <1>5, <1>6, <1>8, <1>9, <1>10, <1>11 DEF ChildSteps, HostOnlySteps

\* Only alignments and Windows change modes, alignments and the monitor.
LEMMA ModeSteps ==
  ASSUME [Next]_vars
  PROVE  \/ UNCHANGED <<align, mode, monitor>>
         \/ Align \/ Replug \/ OtherReplug
         \/ \E d \in Displays, s \in Sizes : PrepareDisplay(d, s)
  <1>1. CASE ChildSteps
    BY <1>1 DEF ChildSteps, AskStatus, Begin, Collect, GiveUp, LaunchFails, ReportRefused,
                RunFails, modeVars
  <1>2. CASE Expire \/ \E c \in Callers : EnableSeen(c) \/ DisableSeen(c) \/ WatchEnds(c)
    BY <1>2 DEF Expire, EnableSeen, DisableSeen, WatchEnds, modeVars, svcVars
  <1>3. CASE UNCHANGED modeVars /\ (Service \/ StopControl)
    BY <1>3 DEF Service, ExecuteStatus, Disable, Enable, Created, CreateEnds, Reply,
                ClientDropped, ServiceStarts, ServiceEnds, StopControl, modeVars
  <1>4. ASSUME NEW c \in Callers, UNCHANGED modeVars,
               Controller(c) \/ ControllerFails(c) \/ ControllerHangs(c)
        PROVE  UNCHANGED <<align, mode, monitor>>
    BY <1>4 DEF Controller, QueryService, EnsureServiceRunning, Connect, PipeBusy, Transact,
                ControllerFails, ControllerHangs, modeVars
  <1>5. CASE UNCHANGED vars
    BY <1>5 DEF vars, modeVars, svcVars
  <1> QED BY <1>1, <1>2, <1>3, <1>4, <1>5, NextSteps DEF HostOnlySteps

(***************************************************************************)
(* An alignment under way is of the virtual monitor, and as long as no     *)
(* name moved the monitor is still there.                                  *)
(***************************************************************************)
LEMMA AlignKeeps ==
  ASSUME DisplayInv, [Next]_vars
  PROVE  AlignInv'
  <1> USE DEF DisplayInv, AlignInv, TypeOK, HostTypes, Aligning
  <1>1. CASE UNCHANGED <<align, mode, monitor>>
    BY <1>1
  <1>2. ASSUME NEW d \in Displays, NEW s \in Sizes, PrepareDisplay(d, s)
        PROVE  AlignInv'
    BY <1>2, AlignTypes DEF PrepareDisplay, Aligns, Present, Monitors, svcVars
  <1>3. CASE Align
    <2>1. monitor' = monitor
      BY <1>3 DEF Align, QueryMode, SelectMode, ApplyMode, WaitForMode, svcVars
    <2>2. \/ align' = NoAlign \/ AlignPasses
          \/ \E pc \in {"select", "apply", "wait"} : Aligning /\ AlignGoesOn(pc)
      BY <1>3 DEF Align, QueryMode, SelectMode, ApplyMode, WaitForMode
    <2>3. \/ ~Aligning'
          \/ Aligning /\ align'.target = align.target /\ align'.size = align.size
             /\ align'.name = align.name
      <3>1. CASE align' = NoAlign \/ AlignPasses
        BY <3>1, AlignTypes DEF AlignPasses
      <3>2. ASSUME NEW pc \in {"select", "apply", "wait"}, Aligning, AlignGoesOn(pc)
            PROVE  Aligning /\ align'.target = align.target /\ align'.size = align.size
                   /\ align'.name = align.name
        BY <3>2 DEF AlignGoesOn, Alignments
      <3> HIDE DEF Aligning
      <3> QED BY <2>2, <3>1, <3>2
    <2> QED BY <2>1, <2>3
  <1>4. CASE Replug \/ OtherReplug
    <2>1. \/ ~Aligning /\ align' = align
          \/ Aligning /\ \E n \in {"none", "physical", "virtual"} : align' = [align EXCEPT !.name = n]
      BY <1>4 DEF Replug, OtherReplug, Renamed, Monitors
    <2>2. \/ ~Aligning'
          \/ Aligning /\ align'.target = align.target /\ align'.size = align.size
             /\ align'.name # "found"
      <3>1. ASSUME NEW n \in {"none", "physical", "virtual"}, align' = [align EXCEPT !.name = n]
            PROVE  align'.target = align.target /\ align'.size = align.size /\ align'.name # "found"
        BY <3>1 DEF Alignments
      <3> QED BY <2>1, <3>1
    <2> QED BY <2>2
  <1> QED BY <1>1, <1>2, <1>3, <1>4, ModeSteps

-----------------------------------------------------------------------------
(***************************************************************************)
(* The invariant of host, controllers and service holds in every state.    *)
(***************************************************************************)
THEOREM DisplayInvariant == Spec => []DisplayInv
  <1>1. Init => DisplayInv
    <2> SUFFICES ASSUME Init PROVE DisplayInv
      OBVIOUS
    <2> USE DEF Init, ServiceInit
    <2>1. ServiceTypes
      BY EmptyPipe, FreshChild DEF ServiceTypes, ServiceStates, DeviceStates
    <2>2. HostTypes
      BY HostAssumption DEF HostTypes, Idle, Calls, Commands, Statuses, DeviceStates, NoAlign,
             Alignment, Alignments
    <2>3. AlignInv /\ PipeInv
      BY EmptyPipe DEF AlignInv, Aligning, PipeInv, NoAlign, Alignment
    <2>4. ClientInv
      BY EmptyPipe, FreshChild, ServiceAssumption DEF ClientInv
    <2>5. CallInv /\ DisableInv
      BY DEF CallInv, DisableInv, Idle
    <2> QED BY <2>1, <2>2, <2>3, <2>4, <2>5 DEF DisplayInv, TypeOK
  <1>2. DisplayInv /\ [Next]_vars => DisplayInv'
    <2> SUFFICES ASSUME DisplayInv, [Next]_vars PROVE DisplayInv'
      OBVIOUS
    <2>1. TypeOK'
      BY ServiceTypesStep, HostTypesStep DEF DisplayInv, TypeOK
    <2>2. ASSUME UNCHANGED vars
          PROVE  PipeInv' /\ ClientInv' /\ CallInv' /\ DisableInv'
      BY <2>2 DEF vars, svcVars, serviceVars, hostVars, PipeInv, ClientInv, CallInv,
                  DisableInv, Quiet, Off, DisplayInv
    <2>3. PipeInv' /\ ClientInv' /\ CallInv' /\ DisableInv'
      BY <2>2, NextSteps, HostKeeps, ControllerKeeps, ServiceKeeps
    <2> QED BY <2>1, <2>3, AlignKeeps DEF DisplayInv
  <1> QED BY <1>1, <1>2, PTL DEF Spec

(***************************************************************************)
(* A disable that passed, with no enable called while it ran, stays in     *)
(* force until the next enable, for any number of callers, killed          *)
(* controllers and restarts of the service.                                *)
(***************************************************************************)
THEOREM DisableIsFinal == Spec => []DisabledStaysDisabled
  <1>1. DisplayInv => DisabledStaysDisabled
    BY DEF DisplayInv, DisableInv, Off, DisabledStaysDisabled
  <1> QED BY <1>1, DisplayInvariant, PTL

(***************************************************************************)
(* The mode of a physical monitor changes only if Windows has given device *)
(* names out anew since the monitor was looked up, and an alignment is     *)
(* reported only while the virtual monitor is there with the negotiated    *)
(* mode, save by an early return that asked for a name that had moved.     *)
(***************************************************************************)
THEOREM OnlyTheVirtualMonitor == Spec => AlignsOnlyItsOwn
  <1> DEFINE Spares == mode'["physical"] # mode["physical"] => align.name # "found"
             Tells == align'.pc = "ok" /\ align' # align =>
                           \/ monitor /\ mode["virtual"] = align'.size
                           \/ align.pc = "query" /\ align.name # "found"
  <1>1. DisplayInv /\ [Next]_vars => [Spares /\ Tells]_vars
    <2> SUFFICES ASSUME DisplayInv, [Next]_vars PROVE Spares /\ Tells
      OBVIOUS
    <2> USE DEF DisplayInv, AlignInv, TypeOK, HostTypes, Aligning, Monitors, Present, CurrentMode
    <2>1. CASE UNCHANGED <<align, mode, monitor>>
      BY <2>1
    <2>2. CASE Replug \/ OtherReplug
      <3>1. mode'["physical"] = mode["physical"]
        BY <2>2 DEF Replug, OtherReplug
      <3>2. align' = align \/ (align'.pc = align.pc /\ Aligning)
        <4>1. \/ ~Aligning /\ align' = align
              \/ Aligning /\ \E n \in {"none", "physical", "virtual"} :
                               align' = [align EXCEPT !.name = n]
          BY <2>2 DEF Replug, OtherReplug, Renamed
        <4>2. ASSUME NEW n \in {"none", "physical", "virtual"}, align' = [align EXCEPT !.name = n]
              PROVE  align'.pc = align.pc
          BY <4>2 DEF Alignments
        <4>3. CASE ~Aligning /\ align' = align
          BY <4>3
        <4>4. CASE Aligning /\ \E n \in {"none", "physical", "virtual"} :
                                align' = [align EXCEPT !.name = n]
          <5>1. PICK n \in {"none", "physical", "virtual"} : align' = [align EXCEPT !.name = n]
            BY <4>4
          <5>2. align'.pc = align.pc
            BY <4>2, <5>1
          <5> QED BY <4>4, <5>2
        <4> QED BY <4>1, <4>3, <4>4
      <3> QED BY <3>1, <3>2
    <2>3. ASSUME NEW d \in Displays, NEW s \in Sizes, PrepareDisplay(d, s)
          PROVE  Spares /\ Tells
      BY <2>3, AlignTypes DEF PrepareDisplay
    <2>4. CASE QueryMode
      <3>1. mode' = mode
        BY <2>4 DEF QueryMode
      <3>2. align'.pc = "ok" => CurrentMode(Holder) = align.size /\ AlignPasses
        BY <2>4, AlignTypes DEF QueryMode, AlignGoesOn
      <3>3. align'.pc = "ok" => align'.size = align.size
        BY <3>2, AlignTypes DEF AlignPasses
      <3>4. align.pc = "query" /\ (align.name = "found" => Holder = "virtual" /\ monitor)
        BY <2>4 DEF QueryMode, Holder
      <3> QED BY <3>1, <3>2, <3>3, <3>4
    <2>5. CASE SelectMode
      BY <2>5, AlignTypes DEF SelectMode, AlignGoesOn
    <2>6. CASE ApplyMode
      BY <2>6, AlignTypes DEF ApplyMode, AlignGoesOn, Holder
    <2>7. CASE WaitForMode
      BY <2>7, AlignTypes DEF WaitForMode, Reached, AlignPasses
    <2> QED BY <2>1, <2>2, <2>3, <2>4, <2>5, <2>6, <2>7, ModeSteps DEF Align
  <1> QED BY <1>1, DisplayInvariant, PTL DEF Spec, AlignsOnlyItsOwn

=============================================================================
