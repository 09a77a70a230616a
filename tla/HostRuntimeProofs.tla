------------------------- MODULE HostRuntimeProofs -------------------------
(***************************************************************************)
(* Proofs about HostRuntime, for every set of session workers and every    *)
(* number of links and commands.                                           *)
(***************************************************************************)
EXTENDS HostRuntime, TLAPS

PrepareLabels ==
    {"prepare", "prepare_joined", "prepare_open", "prepare_publish", "prepare_undo",
     "prepared", "prepare_failed"}
PairLabels == {"pair", "pair_refused", "pair_drop", "pair_connect"}
StartLabels == {"start_commit", "start_loopback", "start_failed"}
CallerLabels ==
    {"idle", "exited", "quit_disable", "stop_take", "stop_cancel", "stop_join",
     "stop_publish", "disconnect", "disconnect_tether", "manager_take",
     "manager_joined", "start"} \cup PairLabels \cup StartLabels \cup PrepareLabels
WorkerLabels ==
    {"unused", "finished", "loop", "hello", "config", "establish", "stream", "error",
     "recover", "wait", "close", "closed"} \cup PrepareLabels
WindowCommands == {"start", "prepare", "pair", "disable"}
TrayCommands == {"none", "done", "disconnect", "quit"}
Kinds == {"none", "usb", "tether", "loopback"}

Links == [kind : {"usb", "tether"}, state : {"unused", "up", "down", "done"}, cancel : BOOLEAN]
Jobs == [kind : Kinds, cancel : BOOLEAN, own : Link \cup {NoLink},
         gen : Link \cup {NoLink}, crossed : BOOLEAN, deadline : {"none", "open", "over"}]
Calls == [cmd : WindowCommands \cup TrayCommands \cup {"stop"},
          target : Worker \cup {NoWorker}]

\* Type correctness.
TypeOK ==
    /\ slot \in Worker \cup {NoWorker}
    /\ usb \in Link \cup {NoLink} /\ tether \in Link \cup {NoLink}
    /\ link \in [Link -> Links]
    /\ job \in [Worker -> Jobs]
    /\ call \in [Caller -> Calls]
    /\ pc \in [Proc -> CallerLabels \cup WorkerLabels]
    /\ \A c \in Caller : pc[c] \in CallerLabels
    /\ \A w \in Worker : pc[w] \in WorkerLabels
    /\ held \in [Proc -> Link \cup {NoLink}]

\* What a caller that stands at a label is doing.  Only the window starts,
\* pairs and prepares.
CallInv ==
    \A c \in Caller :
        /\ pc[c] \in {"start"} \cup StartLabels \cup PairLabels \cup PrepareLabels =>
             c = "ui" /\ call[c].cmd \in WindowCommands
        /\ c = "tray" => call[c].cmd \in TrayCommands
        /\ call[c].cmd = "none" => pc[c] = "idle"
        /\ pc[c] \in {"stop_cancel", "stop_join"} => call[c].target \in Worker
        /\ pc[c] \in StartLabels => slot = NoWorker
        /\ pc[c] = "pair_connect" => tether = NoLink

\* Where a process has taken a link to end it, its flag is raised.
Ending ==
    {"prepare_joined", "prepare_undo", "manager_take", "manager_joined", "pair_connect",
     "start_failed", "closed"}

\* A link somebody refers to has been opened.
InUse(l) == l # NoLink => link[l].state # "unused"

\* What a process holds: nothing, a link it opened or the socket it starts
\* with, or a link whose end it waits for.
HeldInv ==
    \A p \in Proc :
        /\ InUse(held[p])
        /\ pc[p] \notin Ending \cup {"prepare_publish", "start_commit"} => held[p] = NoLink
        /\ pc[p] \in Ending /\ held[p] # NoLink => link[held[p]].cancel
        /\ pc[p] = "prepare_publish" => held[p] # NoLink /\ link[held[p]].kind = "usb"

\* The manager holds interfaces only; only a tether worker owns a socket.
OwnInv ==
    /\ InUse(usb) /\ InUse(tether)
    /\ usb # NoLink => link[usb].kind = "usb"
    /\ \A w \in Worker :
         /\ InUse(job[w].own)
         /\ job[w].kind # "tether" => job[w].own = NoLink
         /\ pc[w] = "closed" /\ job[w].kind = "tether" => held[w] = job[w].own
         /\ pc[w] = "loop" => job[w].kind = "loopback"

\* A worker that may still reach the manager or the link.
Active(w) == Live(w) /\ pc[w] \notin {"close", "closed"}

\* Before the tray is used there is one session worker at most, the window
\* knows of it, and at most one process is in the manager.
WindowInv ==
    ~TrayUsed =>
        /\ \A w \in Worker : Live(w) =>
             \/ slot = w
             \/ pc["ui"] \in {"stop_cancel", "stop_join"} /\ call["ui"].target = w
        /\ pc["ui"] \in {"stop_cancel", "stop_join", "stop_publish"} => slot = NoWorker
        /\ \A w \in Worker : Active(w) =>
             phase \in Running /\ isRunning /\ call["ui"].cmd \notin WindowCommands
        /\ \A p \in Proc :
             pc[p] \in {"prepare_joined", "prepare_open", "prepare_publish"} => usb = NoLink
        /\ \A w \in Worker :
             pc[w] \in {"config", "establish", "stream"} => LinkOf(w) \in {job[w].gen, NoLink}

HostInv ==
    /\ TypeOK /\ CallInv /\ HeldInv /\ OwnInv /\ WindowInv
    /\ NoOrphanWorker /\ EveryLinkHasOwner /\ FreshGeneration

USE DEF sharedVars, slotVars, managerVars, callVars, Goto, Hold, Moves

\* Raising a flag changes no link's kind or state.
LEMMA CancelledLinks ==
  ASSUME TypeOK, NEW l \in Link \cup {NoLink}
  PROVE  /\ Cancelled(l) \in [Link -> Links]
         /\ \A k \in Link : /\ Cancelled(l)[k].state = link[k].state
                            /\ Cancelled(l)[k].kind = link[k].kind
                            /\ Cancelled(l)[k].cancel = (link[k].cancel \/ k = l)
  <1>1. \A k \in Link : link[k] \in Links
    BY DEF TypeOK
  <1>2. \A k \in Link : /\ [link[k] EXCEPT !.cancel = TRUE] \in Links
                        /\ [link[k] EXCEPT !.cancel = TRUE].state = link[k].state
                        /\ [link[k] EXCEPT !.cancel = TRUE].kind = link[k].kind
                        /\ [link[k] EXCEPT !.cancel = TRUE].cancel = TRUE
    BY <1>1 DEF Links
  <1>3. \A k \in Link : link[k].cancel \in BOOLEAN
    BY <1>1 DEF Links
  <1> QED
    BY <1>1, <1>2, <1>3 DEF Cancelled

\* A command that returns is done.
LEMMA ReturnsTypes ==
  ASSUME TypeOK, NEW c \in Caller, NEW newPhase, Returns(c, newPhase)
  PROVE  call' \in [Caller -> Calls] /\ pc'[c] \in {"idle", "quit_disable"}
         /\ pc' = [pc EXCEPT ![c] = pc'[c]]
  BY DEF TypeOK, Returns, Done, Calls, TrayCommands, Proc

\* A session worker's record after an update of some of its fields.
LEMMA JobUpdates ==
  ASSUME TypeOK, NEW w \in Worker
  PROVE  /\ NoJob \in Jobs
         /\ \A b \in BOOLEAN :
              /\ [job EXCEPT ![w].cancel = b] \in [Worker -> Jobs]
              /\ [job EXCEPT ![w].crossed = b] \in [Worker -> Jobs]
         /\ \A l \in Link \cup {NoLink} : [job EXCEPT ![w].gen = l] \in [Worker -> Jobs]
         /\ \A d \in {"none", "open", "over"} :
              [job EXCEPT ![w].deadline = d] \in [Worker -> Jobs]
  BY DEF TypeOK, Jobs, NoJob, Kinds

(***************************************************************************)
(* Shapes of steps.                                                        *)
(***************************************************************************)
Writing == {"config", "establish", "stream"}

\* A session worker goes from one label to another without touching a link,
\* the manager or its flag.  It publishes a running phase or goes to close, and
\* it writes only to a link that is up.
Walks(w) ==
    /\ pc[w] \in Writing \cup {"hello", "error", "recover", "wait", "prepared", "prepare_failed"}
    /\ pc' = [pc EXCEPT ![w] = pc'[w]]
    /\ pc'[w] \in Writing \cup {"hello", "error", "recover", "wait", "prepare", "close"}
    /\ job' = [job EXCEPT ![w] = job'[w]] /\ job'[w] \in Jobs
    /\ job'[w].kind = job[w].kind /\ job'[w].own = job[w].own
    /\ job'[w].cancel = job[w].cancel
    /\ UNCHANGED <<slotVars, usb, link, callVars, held>>
    /\ phase' = phase \/ phase' \in Running \/ pc'[w] = "close"
    /\ pc'[w] \in Writing => \/ job'[w].gen = LinkOf(w)
                             \/ pc[w] \in Writing /\ job'[w].gen = job[w].gen
    /\ job'[w].crossed => \/ job[w].crossed
                          \/ pc[w] \in Writing /\ LinkOf(w) \notin {NoLink, job[w].gen}

\* What a session worker does between two calls of the manager is a walk.
LEMMA WorkerWalks ==
  ASSUME TypeOK, NEW w \in Worker,
         \/ SendHello(w) \/ SendConfig(w) \/ Establish(w) \/ SendAccessUnit(w)
         \/ StreamCancelled(w) \/ SessionError(w)
         \/ ErrorCancelled(w) \/ ErrorFails(w) \/ ErrorRecovers(w)
         \/ RecoverBegins(w) \/ WaitEnds(w) \/ Reopened(w) \/ ReopenFailed(w)
  PROVE  Walks(w)
  <1> USE DEF Walks, Writing, Running
  <1>t. w \in Proc /\ pc \in [Proc -> CallerLabels \cup WorkerLabels]
    BY DEF TypeOK, Proc
  <1>j. job[w] \in Jobs /\ job \in [Worker -> Jobs]
    BY DEF TypeOK
  <1>k. job' = job => job' = [job EXCEPT ![w] = job'[w]]
    BY <1>j
  <1>1. CASE SendHello(w)
    <2>1. LinkOf(w) \in Link \cup {NoLink}
      BY <1>j DEF LinkOf, TypeOK, Jobs
    <2>2. /\ job' = [job EXCEPT ![w] = job'[w]] /\ job'[w] \in Jobs
          /\ job'[w].kind = job[w].kind /\ job'[w].own = job[w].own
          /\ job'[w].cancel = job[w].cancel /\ job'[w].gen = LinkOf(w)
          /\ job'[w].crossed = job[w].crossed
      BY <1>1, <1>j, <2>1 DEF SendHello, Jobs
    <2> QED
      BY <1>1, <1>t, <2>2 DEF SendHello
  <1>2. ASSUME Writes(w)
        PROVE  /\ job' = [job EXCEPT ![w] = job'[w]] /\ job'[w] \in Jobs
               /\ job'[w].kind = job[w].kind /\ job'[w].own = job[w].own
               /\ job'[w].cancel = job[w].cancel /\ job'[w].gen = job[w].gen
               /\ job'[w].crossed => job[w].crossed \/ LinkOf(w) \notin {NoLink, job[w].gen}
    <2>1. job[w].crossed \in BOOLEAN /\ LinkOf(w) # NoLink
      BY <1>2, <1>j DEF Writes, Connected, Jobs
    <2> DEFINE b == job[w].crossed \/ job[w].gen # LinkOf(w)
    <2>2. b \in BOOLEAN /\ job' = [job EXCEPT ![w].crossed = b]
      BY <1>2, <1>j DEF Writes
    <2>3. b => job[w].crossed \/ LinkOf(w) \notin {NoLink, job[w].gen}
      BY <2>1
    <2> HIDE DEF b
    <2>4. /\ job' = [job EXCEPT ![w] = job'[w]] /\ job'[w] \in Jobs
          /\ job'[w].kind = job[w].kind /\ job'[w].own = job[w].own
          /\ job'[w].cancel = job[w].cancel /\ job'[w].gen = job[w].gen
          /\ job'[w].crossed = b
      BY <1>j, <2>2 DEF Jobs
    <2> QED
      BY <2>3, <2>4
  <1>3. CASE SendConfig(w)
    BY <1>3, <1>2, <1>t DEF SendConfig
  <1>4. CASE SendAccessUnit(w)
    BY <1>4, <1>2, <1>t DEF SendAccessUnit
  <1>5. CASE Establish(w)
    BY <1>5, <1>t, <1>j, <1>k DEF Establish, Publishes
  <1>6. CASE StreamCancelled(w) \/ SessionError(w) \/ ErrorCancelled(w) \/ ReopenFailed(w)
    BY <1>6, <1>t, <1>j, <1>k DEF StreamCancelled, SessionError, ErrorCancelled, ReopenFailed
  <1>7. CASE ErrorFails(w) \/ RecoverBegins(w) \/ WaitEnds(w) \/ Reopened(w)
    BY <1>7, <1>t, <1>j, <1>k DEF ErrorFails, RecoverBegins, WaitEnds, Reopened, Fails, Publishes
  <1>8. CASE ErrorRecovers(w)
    <2>1. /\ job' = [job EXCEPT ![w] = job'[w]] /\ job'[w] \in Jobs
          /\ job'[w].kind = job[w].kind /\ job'[w].own = job[w].own
          /\ job'[w].cancel = job[w].cancel /\ job'[w].gen = job[w].gen
          /\ job'[w].crossed = job[w].crossed
      BY <1>8, <1>j DEF ErrorRecovers, Jobs
    <2> QED
      BY <1>8, <1>t, <2>1 DEF ErrorRecovers
  <1> QED
    BY <1>1, <1>3, <1>4, <1>5, <1>6, <1>7, <1>8

\* A caller goes on, issues a command or returns, with nothing in its hands.
Talks(c) ==
    /\ pc' = [pc EXCEPT ![c] = pc'[c]]
    /\ pc'[c] \in CallerLabels \ {"prepare_publish", "start_commit", "stop_cancel"}
    /\ call' = [call EXCEPT ![c] = call'[c]] /\ call'[c] \in Calls
    /\ UNCHANGED <<slotVars, usb, link, job, held>>
    /\ held[c] = NoLink /\ pc[c] # "stop_cancel"

\* Steps of a caller that touch neither a link nor a worker are talks.
LEMMA CallerTalks ==
  ASSUME TypeOK, HeldInv, NEW c \in Caller,
         \/ StopJoin(c) \/ StopPublish(c) \/ DisconnectReads(c) \/ PairBegins(c)
         \/ StartNegotiates(c) \/ PrepareReturns(c) \/ QuitDisables(c)
         \/ \E cmd \in Offered(c) : Issue(c, cmd)
  PROVE  Talks(c)
  <1> USE DEF Talks, CallerLabels, PairLabels, StartLabels, PrepareLabels
  <1>t. c \in Proc /\ pc \in [Proc -> CallerLabels \cup WorkerLabels]
    BY DEF TypeOK, Proc
  <1>c. call[c] \in Calls /\ call \in [Caller -> Calls]
    BY DEF TypeOK
  <1>k. call' = call => call' = [call EXCEPT ![c] = call'[c]] /\ call'[c] \in Calls
    BY <1>c
  <1>r. ASSUME NEW newPhase, Returns(c, newPhase)
        PROVE  /\ call' = [call EXCEPT ![c] = call'[c]] /\ call'[c] \in Calls
               /\ pc' = [pc EXCEPT ![c] = pc'[c]] /\ pc'[c] \in {"idle", "quit_disable"}
    BY <1>r, <1>c, <1>t DEF Returns, Done, Calls, TrayCommands
  <1>h. pc[c] \notin Ending \cup {"prepare_publish", "start_commit"} => held[c] = NoLink
    BY <1>t DEF HeldInv
  <1>1. CASE StopJoin(c) \/ DisconnectReads(c) \/ QuitDisables(c)
    BY <1>1, <1>t, <1>k, <1>h DEF StopJoin, DisconnectReads, QuitDisables, Ending
  <1>2. CASE StartNegotiates(c)
    <2>1. held[c] = NoLink
      BY <1>2 DEF StartNegotiates, StartKind
    <2> QED
      BY <1>2, <1>t, <1>k, <2>1 DEF StartNegotiates
  <1>3. CASE StopPublish(c)
    BY <1>3, <1>t, <1>k, <1>h, <1>r DEF StopPublish, AfterStop, Continues, Ending
  <1>4. CASE PairBegins(c)
    BY <1>4, <1>t, <1>k, <1>h, <1>r DEF PairBegins, Continues, Ending
  <1>5. CASE PrepareReturns(c)
    BY <1>5, <1>t, <1>k, <1>h, <1>r DEF PrepareReturns, Ending
  <1>6. ASSUME NEW cmd \in Offered(c), Issue(c, cmd) PROVE Talks(c)
    <2>1. cmd \in {"disconnect", "quit", "stop", "start", "prepare", "pair", "disable"}
      BY DEF Offered
    <2>2. call' = [call EXCEPT ![c] = call'[c]] /\ call'[c] \in Calls
      BY <1>6, <1>c, <2>1 DEF Issue, Calls, TrayCommands, WindowCommands
    <2> QED
      BY <1>6, <1>t, <1>h, <2>1, <2>2 DEF Issue, FirstStep, Ending
  <1> QED
    BY <1>1, <1>2, <1>3, <1>4, <1>5, <1>6

\* A process lets go of a link that has ended, or of nothing.
Frees(p) ==
    /\ held' = [held EXCEPT ![p] = NoLink]
    /\ Ended(held[p])
    /\ pc' = [pc EXCEPT ![p] = pc'[p]]
    /\ pc'[p] \in {"prepare_open", "prepare_failed"}
                  \cup (IF p \in Caller THEN {"pair_refused", "pair_drop", "idle", "quit_disable"} ELSE {})
    /\ pc[p] \notin {"unused", "finished", "prepare_publish", "close", "closed", "stop_cancel"}
    /\ \/ UNCHANGED callVars
       \/ p \in Caller /\ \E newPhase : Returns(p, newPhase)
    /\ UNCHANGED <<slotVars, usb, link, job>>

\* A process takes the session out of the manager to end it.
Takes(p) ==
    /\ held' = [held EXCEPT ![p] = usb] /\ usb' = NoLink /\ link' = Cancelled(usb)
    /\ Ended(held[p])
    /\ pc' = [pc EXCEPT ![p] = pc'[p]]
    /\ \/ p \in Worker /\ pc[p] = "close" /\ pc'[p] = "closed" /\ job[p].kind = "usb"
       \/ p \in Caller /\ pc[p] = "manager_take" /\ pc'[p] = "manager_joined"
       \/ pc[p] = "prepare" /\ pc'[p] = "prepare_joined"
    /\ UNCHANGED <<sharedVars, slotVars, job, callVars>>

\* A tether worker raises the flag of its own socket.
ClosesSocket(w) ==
    /\ pc[w] = "close" /\ job[w].kind = "tether"
    /\ link' = Cancelled(job[w].own)
    /\ held' = [held EXCEPT ![w] = job[w].own] /\ pc' = [pc EXCEPT ![w] = "closed"]
    /\ UNCHANGED <<sharedVars, slotVars, managerVars, job, callVars>>

\* Steps that let go of a link, and steps that take one out of the manager.
LEMMA ManagerSteps ==
  ASSUME TypeOK, HeldInv, NEW p \in Proc
  PROVE  /\ PrepareJoined(p) \/ PrepareFails(p) \/ PrepareUndone(p) => Frees(p)
         /\ p \in Caller /\ (ManagerDisconnected(p) \/ PairFails(p) \/ StartReturns(p)) => Frees(p)
         /\ PrepareBegins(p) => Frees(p) \/ Takes(p)
         /\ p \in Caller /\ ManagerTake(p) => Takes(p)
         /\ p \in Worker /\ Close(p) => Takes(p) \/ ClosesSocket(p)
  <1>t. pc \in [Proc -> CallerLabels \cup WorkerLabels]
    BY DEF TypeOK
  <1>h. pc[p] \notin Ending \cup {"prepare_publish", "start_commit"} => held[p] = NoLink
    BY DEF HeldInv
  <1>n. held[p] = NoLink => Ended(held[p])
    BY DEF Ended
  <1>r. ASSUME NEW newPhase, p \in Caller, Returns(p, newPhase)
        PROVE  pc' = [pc EXCEPT ![p] = pc'[p]] /\ pc'[p] \in {"idle", "quit_disable"}
    BY <1>r, <1>t DEF Returns
  <1>1. PrepareJoined(p) => Frees(p)
    BY <1>t DEF PrepareJoined, Joined, ReportsStatus, Frees
  <1>2. PrepareFails(p) => Frees(p)
    BY <1>t, <1>h, <1>n DEF PrepareFails, ReportsStatus, Frees, Ending
  <1>3. PrepareUndone(p) => Frees(p)
    BY <1>t DEF PrepareUndone, Joined, ReportsStatus, Frees
  <1>4. p \in Caller /\ ManagerDisconnected(p) => Frees(p)
    BY <1>t, <1>r DEF ManagerDisconnected, Joined, Continues, Frees
  <1>5. p \in Caller /\ PairFails(p) => Frees(p)
    BY <1>t, <1>r DEF PairFails, Joined, Frees
  <1>6. p \in Caller /\ StartReturns(p) => Frees(p)
    BY <1>t, <1>r DEF StartReturns, Joined, Frees
  <1>7. PrepareBegins(p) => Frees(p) \/ Takes(p)
    BY <1>t, <1>h, <1>n DEF PrepareBegins, ReportsStatus, TakeSession, Frees, Takes, Ending
  <1>8. p \in Caller /\ ManagerTake(p) => Takes(p)
    BY <1>t DEF ManagerTake, Joined, TakeSession, Takes
  <1>9. p \in Worker /\ Close(p) => Takes(p) \/ ClosesSocket(p)
    BY <1>t, <1>h, <1>n DEF Close, TakeSession, Takes, ClosesSocket, Ending
  <1> QED
    BY <1>1, <1>2, <1>3, <1>4, <1>5, <1>6, <1>7, <1>8, <1>9

\* Every step has one of these shapes.
LEMMA NextShapes ==
  ASSUME TypeOK, HeldInv, Next
  PROVE  \/ \E p \in Proc : Frees(p) \/ Takes(p) \/ PreparePublish(p)
                            \/ \E l \in Link : PrepareOpens(p, l)
         \/ \E c \in Caller : \/ Talks(c) \/ StopTake(c) \/ StopCancel(c)
                              \/ DropTether(c, "disconnect_tether", "manager_take")
                              \/ DropTether(c, "pair_drop", "pair_connect")
                              \/ StartBegins(c) \/ StartFails(c)
                              \/ \E l \in Link : PairConnects(c, l)
                              \/ \E w \in Worker : StartSpawns(c, w)
         \/ \E w \in Worker : \/ Walks(w) \/ ClosesSocket(w) \/ Closed(w)
                              \/ LoopbackEnds(w) \/ DeadlinePasses(w)
         \/ Poll
         \/ \E l \in Link : LinkDown(l) \/ \E released \in BOOLEAN : LinkEnds(l, released)
  <1> DEFINE Shape ==
         \/ \E p \in Proc : Frees(p) \/ Takes(p) \/ PreparePublish(p)
                            \/ \E l \in Link : PrepareOpens(p, l)
         \/ \E c \in Caller : \/ Talks(c) \/ StopTake(c) \/ StopCancel(c)
                              \/ DropTether(c, "disconnect_tether", "manager_take")
                              \/ DropTether(c, "pair_drop", "pair_connect")
                              \/ StartBegins(c) \/ StartFails(c)
                              \/ \E l \in Link : PairConnects(c, l)
                              \/ \E w \in Worker : StartSpawns(c, w)
         \/ \E w \in Worker : \/ Walks(w) \/ ClosesSocket(w) \/ Closed(w)
                              \/ LoopbackEnds(w) \/ DeadlinePasses(w)
         \/ Poll
         \/ \E l \in Link : LinkDown(l) \/ \E released \in BOOLEAN : LinkEnds(l, released)
  <1>p. ASSUME NEW p \in Proc, Prepare(p) PROVE Shape
    BY <1>p, ManagerSteps DEF Prepare
  <1>1. ASSUME NEW c \in Caller, CallerStep(c) \/ \E cmd \in Offered(c) : Issue(c, cmd)
        PROVE  Shape
    <2>1. c \in Proc
      BY DEF Proc
    <2>2. CASE Prepare(c)
      BY <1>p, <2>1, <2>2
    <2>3. CASE Disconnect(c) \/ Pair(c)
      BY <2>1, <2>3, ManagerSteps, CallerTalks DEF Disconnect, Pair
    <2>4. CASE Stop(c) \/ Start(c)
      BY <2>1, <2>4, ManagerSteps, CallerTalks DEF Stop, Start
    <2>5. CASE PrepareReturns(c) \/ QuitDisables(c) \/ \E cmd \in Offered(c) : Issue(c, cmd)
      BY <2>5, CallerTalks
    <2> QED
      BY <1>1, <2>2, <2>3, <2>4, <2>5 DEF CallerStep
  <1>2. ASSUME NEW w \in Worker, SessionWorker(w) \/ DeadlinePasses(w) PROVE Shape
    <2>1. w \in Proc
      BY DEF Proc
    <2> QED
      BY <1>2, <1>p, <2>1, ManagerSteps, WorkerWalks DEF SessionWorker
  <1> QED
    BY <1>1, <1>2 DEF Next

(***************************************************************************)
(* Type correctness.                                                       *)
(***************************************************************************)
\* Every step keeps the types.
LEMMA TypeStep ==
  ASSUME TypeOK, HeldInv, CallInv, Next
  PROVE  TypeOK'
  <1> USE WorkerAssumption DEF TypeOK, Proc, CallerLabels, WorkerLabels, PairLabels, StartLabels, PrepareLabels
  <1>l. NoLink \in Link \cup {NoLink} /\ NoWorker \in Worker \cup {NoWorker}
    OBVIOUS
  <1>1. ASSUME NEW p \in Proc, Frees(p) PROVE TypeOK'
    <2>1. CASE UNCHANGED callVars
      BY <1>1, <2>1 DEF Frees
    <2>2. ASSUME p \in Caller, NEW newPhase, Returns(p, newPhase) PROVE TypeOK'
      <3>1. call' \in [Caller -> Calls]
        BY <2>2, ReturnsTypes
      <3> QED
        BY <1>1, <2>2, <3>1 DEF Frees
    <2> QED
      BY <1>1, <2>1, <2>2 DEF Frees
  <1>2. ASSUME NEW p \in Proc, Takes(p) PROVE TypeOK'
    <2>1. Cancelled(usb) \in [Link -> Links]
      BY CancelledLinks
    <2> QED
      BY <1>2, <2>1 DEF Takes
  <1>3. ASSUME NEW p \in Proc, PreparePublish(p) PROVE TypeOK'
    <2>1. Cancelled(held[p]) \in [Link -> Links]
      BY CancelledLinks
    <2> QED
      BY <1>3, <2>1 DEF PreparePublish
  <1>4. ASSUME NEW p \in Proc, NEW l \in Link, PrepareOpens(p, l) PROVE TypeOK'
    <2>1. Opened("usb") \in Links
      BY DEF Opened, Links
    <2> QED
      BY <1>4, <2>1 DEF PrepareOpens
  <1>5. ASSUME NEW c \in Caller, Talks(c) PROVE TypeOK'
    BY <1>5 DEF Talks
  <1>6. ASSUME NEW c \in Caller, StopTake(c) PROVE TypeOK'
    <2>1. call' \in [Caller -> Calls]
      BY <1>6 DEF StopTake, Calls
    <2> QED
      BY <1>6, <2>1 DEF StopTake
  <1>7. ASSUME NEW c \in Caller, StopCancel(c) PROVE TypeOK'
    <2>1. call[c].target \in Worker
      BY <1>7 DEF StopCancel, CallInv
    <2>2. Live(call[c].target) \in BOOLEAN
      BY DEF Live
    <2>3. job' \in [Worker -> Jobs]
      BY <1>7, <2>1, <2>2, JobUpdates DEF StopCancel
    <2> QED
      BY <1>7, <2>3 DEF StopCancel
  <1>8. ASSUME NEW c \in Caller,
               \/ DropTether(c, "disconnect_tether", "manager_take")
               \/ DropTether(c, "pair_drop", "pair_connect")
        PROVE  TypeOK'
    <2>1. Cancelled(tether) \in [Link -> Links]
      BY CancelledLinks
    <2> QED
      BY <1>8, <2>1 DEF DropTether
  <1>9. ASSUME NEW c \in Caller, StartBegins(c) PROVE TypeOK'
    <2>1. ASSUME NEW newPhase, Returns(c, newPhase) PROVE call' \in [Caller -> Calls]
      BY <2>1, ReturnsTypes
    <2>2. CASE StartRefuses
      BY <1>9, <2>1, <2>2 DEF StartBegins, Returns
    <2>3. CASE ~StartRefuses
      BY <1>9, <2>3 DEF StartBegins, Continues
    <2> QED BY <2>2, <2>3
  <1>10. ASSUME NEW c \in Caller, StartFails(c) PROVE TypeOK'
    <2>1. Cancelled(held[c]) \in [Link -> Links]
      BY CancelledLinks
    <2> QED
      BY <1>10, <2>1 DEF StartFails
  <1>11. ASSUME NEW c \in Caller, NEW l \in Link, PairConnects(c, l) PROVE TypeOK'
    <2>1. Opened("tether") \in Links
      BY DEF Opened, Links
    <2>2. call' \in [Caller -> Calls] /\ pc'[c] \in {"idle", "quit_disable"}
          /\ pc' = [pc EXCEPT ![c] = pc'[c]]
      BY <1>11, ReturnsTypes DEF PairConnects
    <2> QED
      BY <1>11, <2>1, <2>2 DEF PairConnects
  <1>12. ASSUME NEW c \in Caller, NEW w \in Worker, StartSpawns(c, w) PROVE TypeOK'
    <2>1. StartKind(c) \in Kinds
      BY DEF StartKind, Kinds
    <2>2. [NoJob EXCEPT !.kind = StartKind(c), !.own = held[c]] \in Jobs
      BY <2>1 DEF NoJob, Jobs
    <2>3. Done \in Calls
      BY DEF Done, Calls, TrayCommands
    <2> QED
      BY <1>12, <2>2, <2>3 DEF StartSpawns
  <1>13. ASSUME NEW w \in Worker, Walks(w) PROVE TypeOK'
    BY <1>13 DEF Walks, Writing
  <1>14. ASSUME NEW w \in Worker, ClosesSocket(w) PROVE TypeOK'
    <2>1. job[w].own \in Link \cup {NoLink}
      BY DEF Jobs
    <2>2. Cancelled(job[w].own) \in [Link -> Links]
      BY <2>1, CancelledLinks
    <2> QED
      BY <1>14, <2>1, <2>2 DEF ClosesSocket
  <1>15. ASSUME NEW w \in Worker, Closed(w) \/ LoopbackEnds(w) PROVE TypeOK'
    <2>1. NoJob \in Jobs
      BY JobUpdates
    <2> QED
      BY <1>15, <2>1 DEF Closed, LoopbackEnds
  <1>16. ASSUME NEW w \in Worker, DeadlinePasses(w) PROVE TypeOK'
    <2>1. job' \in [Worker -> Jobs]
      BY <1>16, JobUpdates DEF DeadlinePasses
    <2> QED
      BY <1>16, <2>1 DEF DeadlinePasses
  <1>17. CASE Poll
    BY <1>17 DEF Poll
  <1>18. ASSUME NEW l \in Link, LinkDown(l) \/ \E released \in BOOLEAN : LinkEnds(l, released)
         PROVE  TypeOK'
    <2>1. link' \in [Link -> Links]
      BY <1>18 DEF LinkDown, LinkEnds, Links
    <2> QED
      BY <1>18, <2>1 DEF LinkDown, LinkEnds
  <1> QED
    BY NextShapes, <1>1, <1>2, <1>3, <1>4, <1>5, <1>6, <1>7, <1>8, <1>9, <1>10, <1>11, <1>12,
       <1>13, <1>14, <1>15, <1>16, <1>17, <1>18

(***************************************************************************)
(* The callers.                                                            *)
(***************************************************************************)
\* What CallInv says of one caller.
CallerOK(c) ==
    /\ pc[c] \in {"start"} \cup StartLabels \cup PairLabels \cup PrepareLabels =>
         c = "ui" /\ call[c].cmd \in WindowCommands
    /\ c = "tray" => call[c].cmd \in TrayCommands
    /\ call[c].cmd = "none" => pc[c] = "idle"
    /\ pc[c] \in {"stop_cancel", "stop_join"} => call[c].target \in Worker
    /\ pc[c] \in StartLabels => slot = NoWorker
    /\ pc[c] = "pair_connect" => tether = NoLink

\* Every step keeps what is known of the callers.
LEMMA CallStep ==
  ASSUME TypeOK, HeldInv, CallInv, Next
  PROVE  CallInv'
  <1> USE CallerAssumption, WorkerAssumption
      DEF Proc, PairLabels, StartLabels, PrepareLabels, WindowCommands, TrayCommands
  <1>a. SUFFICES ASSUME NEW c \in Caller PROVE CallerOK(c)'
    BY DEF CallInv, CallerOK
  <1>b. CallerOK(c) /\ c \in Proc /\ (c = "ui" \/ c = "tray")
    BY DEF CallInv, CallerOK
  <1>t. /\ pc \in [Proc -> CallerLabels \cup WorkerLabels]
        /\ call \in [Caller -> Calls] /\ call[c] \in Calls
    BY DEF TypeOK
  <1>n. NoCall.cmd = "none" /\ Done # NoCall /\ Done.cmd = "done"
    BY DEF NoCall, Done
  <1>1. ASSUME pc'[c] = pc[c], call'[c] = call[c],
               slot' = slot \/ slot' = NoWorker \/ c = "tray",
               tether' = tether \/ tether' = NoLink \/ c = "tray"
        PROVE  CallerOK(c)'
    BY <1>1, <1>b DEF CallerOK
  <1>2. ASSUME NEW w \in Worker, SessionWorker(w) \/ DeadlinePasses(w) PROVE CallerOK(c)'
    <2>1. w # c /\ w \in Proc
      OBVIOUS
    <2>2. CASE Prepare(w)
      <3>1. pc'[c] = pc[c] /\ UNCHANGED <<call, slot, tether>>
        BY <1>t, <2>1, <2>2 DEF Prepare, PrepareBegins, PrepareJoined, PrepareFails, PrepareOpens,
           PreparePublish, PrepareUndone, ReportsStatus, TakeSession
      <3> QED
        BY <1>1, <3>1
    <2>3. CASE Walks(w)
      <3>1. pc'[c] = pc[c] /\ UNCHANGED <<call, slot, tether>>
        BY <1>t, <2>1, <2>3 DEF Walks
      <3> QED
        BY <1>1, <3>1
    <2>4. CASE Close(w) \/ Closed(w) \/ LoopbackEnds(w) \/ DeadlinePasses(w)
      <3>1. pc'[c] = pc[c] /\ UNCHANGED <<call, slot, tether>>
        BY <1>t, <2>1, <2>4 DEF Close, Closed, LoopbackEnds, DeadlinePasses, TakeSession
      <3> QED
        BY <1>1, <3>1
    <2> QED
      BY <1>2, <2>2, <2>3, <2>4, WorkerWalks DEF SessionWorker
  <1>3. CASE Poll \/ \E l \in Link : LinkDown(l) \/ \E released \in BOOLEAN : LinkEnds(l, released)
    <2>1. pc'[c] = pc[c] /\ UNCHANGED <<call, slot, tether>>
      BY <1>3 DEF Poll, LinkDown, LinkEnds
    <2> QED
      BY <1>1, <2>1
  <1>4. ASSUME NEW d \in Caller, CallerStep(d) \/ \E cmd \in Offered(d) : Issue(d, cmd)
        PROVE  CallerOK(c)'
    <2>d. d \in Proc /\ (d = "ui" \/ d = "tray") /\ call[d] \in Calls /\ CallerOK(d)
      BY DEF CallInv, CallerOK, TypeOK
    <2>r. ASSUME NEW newPhase, Returns(d, newPhase), UNCHANGED <<slot, tether>> \/ d = "ui"
          PROVE  CallerOK(c)'
      <3>1. CASE c = d
        <4>1. call'[c] = Done /\ pc'[c] \in {"idle", "quit_disable"}
          BY <2>r, <3>1, <1>t DEF Returns
        <4> QED
          BY <4>1, <1>n DEF CallerOK
      <3>2. CASE c # d
        BY <2>r, <3>2, <1>1, <1>t, <1>b, <2>d DEF Returns
      <3> QED
        BY <3>1, <3>2
    <2>1. CASE Prepare(d)
      <3>1. /\ pc[d] \in PrepareLabels /\ pc'[d] \in PrepareLabels
            /\ pc' = [pc EXCEPT ![d] = pc'[d]] /\ UNCHANGED <<call, slot, tether>>
        BY <1>t, <2>1, <2>d DEF Prepare, PrepareBegins, PrepareJoined, PrepareFails, PrepareOpens,
           PreparePublish, PrepareUndone, ReportsStatus, TakeSession
      <3> QED
        BY <3>1, <1>b, <1>t, <1>n DEF CallerOK
    <2>2. CASE StopTake(d)
      <3>1. call'[d].cmd = call[d].cmd /\ call'[d].target = slot
        BY <2>2, <1>t, <2>d DEF StopTake, Calls
      <3>2. /\ pc' = [pc EXCEPT ![d] = pc'[d]] /\ call' = [call EXCEPT ![d] = call'[d]]
            /\ pc[d] = "stop_take" /\ slot' = NoWorker /\ tether' = tether
            /\ pc'[d] \in {"stop_publish", "stop_cancel"}
            /\ pc'[d] = "stop_cancel" => slot \in Worker
        BY <2>2, <1>t, <2>d DEF StopTake, TypeOK
      <3> QED
        BY <3>1, <3>2, <1>1, <1>b, <1>t DEF CallerOK
    <2>3. CASE StopCancel(d)
      <3>1. /\ pc[d] = "stop_cancel" /\ pc'[d] = "stop_join"
            /\ pc' = [pc EXCEPT ![d] = pc'[d]] /\ UNCHANGED <<call, slot, tether>>
        BY <2>3, <1>t, <2>d DEF StopCancel
      <3> QED
        BY <3>1, <1>b, <1>t DEF CallerOK
    <2>4. CASE StopJoin(d) \/ DisconnectReads(d) \/ QuitDisables(d) \/ ManagerTake(d)
               \/ DropTether(d, "disconnect_tether", "manager_take")
      <3>1. /\ pc[d] # "idle"
            /\ pc'[d] \in {"stop_publish", "stop_take", "disconnect_tether", "exited",
                          "manager_take", "manager_joined"}
            /\ pc' = [pc EXCEPT ![d] = pc'[d]] /\ UNCHANGED <<call, slot>>
            /\ tether' = tether \/ tether' = NoLink
        BY <2>4, <1>t, <2>d DEF StopJoin, DisconnectReads, QuitDisables, ManagerTake, DropTether, TakeSession
      <3> QED
        BY <3>1, <1>b, <1>t DEF CallerOK
    <2>5. CASE StopPublish(d)
      <3>1. CASE Continues(d, "disconnect_tether")
        <4>1. /\ pc[d] = "stop_publish" /\ pc'[d] = "disconnect_tether"
              /\ pc' = [pc EXCEPT ![d] = pc'[d]] /\ UNCHANGED <<call, slot, tether>>
          BY <2>5, <3>1, <1>t, <2>d DEF StopPublish, Continues
        <4> QED
          BY <4>1, <1>b, <1>t DEF CallerOK
      <3> QED
        BY <2>5, <2>r, <3>1 DEF StopPublish, AfterStop
    <2>6. CASE ManagerDisconnected(d)
      <3>1. ASSUME call[d].cmd = "pair", Continues(d, IF status = "Failed" THEN "pair_refused" ELSE "pair_drop")
            PROVE  CallerOK(c)'
        <4>1. d = "ui"
          BY <3>1, <2>d DEF CallerOK
        <4>2. /\ pc'[d] \in {"pair_refused", "pair_drop"}
              /\ pc' = [pc EXCEPT ![d] = pc'[d]] /\ UNCHANGED <<call, slot, tether>>
          BY <2>6, <3>1, <1>t, <2>d DEF ManagerDisconnected, Continues
        <4> QED
          BY <3>1, <4>1, <4>2, <1>b, <1>t DEF CallerOK
      <3> QED
        BY <2>6, <2>r, <3>1 DEF ManagerDisconnected
    <2>7. CASE PairBegins(d)
      <3>1. CASE Continues(d, "manager_take")
        <4>1. /\ pc[d] = "pair" /\ pc'[d] = "manager_take"
              /\ pc' = [pc EXCEPT ![d] = pc'[d]] /\ UNCHANGED <<call, slot, tether>>
          BY <2>7, <3>1, <1>t, <2>d DEF PairBegins, Continues
        <4> QED
          BY <4>1, <1>b, <1>t DEF CallerOK
      <3> QED
        BY <2>7, <2>r, <3>1 DEF PairBegins
    <2>8. CASE DropTether(d, "pair_drop", "pair_connect")
      <3>1. /\ pc[d] = "pair_drop" /\ pc'[d] = "pair_connect" /\ tether' = NoLink
            /\ pc' = [pc EXCEPT ![d] = pc'[d]] /\ UNCHANGED <<call, slot>>
        BY <2>8, <1>t, <2>d DEF DropTether
      <3> QED
        BY <3>1, <1>b, <1>t DEF CallerOK
    <2>9. CASE PairFails(d) \/ StartReturns(d) \/ PrepareReturns(d)
      BY <2>9, <2>r DEF PairFails, StartReturns, PrepareReturns
    <2>10. ASSUME NEW l \in Link, PairConnects(d, l) PROVE CallerOK(c)'
      <3>1. d = "ui"
        BY <2>10, <2>d DEF PairConnects, CallerOK
      <3> QED
        BY <2>10, <2>r, <3>1 DEF PairConnects
    <2>11. CASE StartBegins(d)
      <3>1. d = "ui" /\ call[d].cmd \in WindowCommands
        BY <2>11, <2>d DEF StartBegins, CallerOK
      <3>2. CASE Continues(d, "start_commit") /\ slot' = NoWorker /\ tether' = NoLink
        <4>1. pc'[d] = "start_commit" /\ pc' = [pc EXCEPT ![d] = pc'[d]] /\ UNCHANGED call
          BY <3>2, <1>t, <2>d DEF Continues
        <4> QED
          BY <3>1, <3>2, <4>1, <1>b, <1>t DEF CallerOK
      <3> QED
        BY <2>11, <2>r, <3>1, <3>2 DEF StartBegins
    <2>12. CASE StartNegotiates(d) \/ StartFails(d)
      <3>1. /\ pc[d] \in {"start_commit", "start_loopback"} /\ pc'[d] \in {"start_loopback", "start_failed"}
            /\ pc' = [pc EXCEPT ![d] = pc'[d]] /\ UNCHANGED <<call, slot, tether>>
        BY <2>12, <1>t, <2>d DEF StartNegotiates, StartFails, SpawnFails, PairingIsGone, LoopbackRefused
      <3> QED
        BY <3>1, <1>b, <1>t DEF CallerOK
    <2>13. ASSUME NEW w \in Worker, StartSpawns(d, w) PROVE CallerOK(c)'
      <3>1. d = "ui"
        BY <2>13, <2>d DEF StartSpawns, CallerOK
      <3>2. call'[d] = Done /\ pc'[d] = "idle" /\ (c # d => pc'[c] = pc[c] /\ call'[c] = call[c])
        BY <2>13, <1>t, <2>d DEF StartSpawns
      <3> QED
        BY <2>13, <3>1, <3>2, <1>1, <1>b, <1>n DEF StartSpawns, CallerOK
    <2>14. ASSUME NEW cmd \in Offered(d), Issue(d, cmd) PROVE CallerOK(c)'
      <3>1. /\ cmd \in {"disconnect", "quit", "stop", "start", "prepare", "pair", "disable"}
            /\ d = "tray" => cmd \in {"disconnect", "quit"}
            /\ d = "ui" => cmd # "quit"
        BY <2>d DEF Offered
      <3>2. /\ call'[d].cmd = cmd /\ call'[d].target = NoWorker /\ pc'[d] = FirstStep(cmd)
            /\ pc' = [pc EXCEPT ![d] = pc'[d]] /\ call' = [call EXCEPT ![d] = call'[d]]
            /\ UNCHANGED <<slot, tether>>
        BY <2>14, <1>t, <2>d DEF Issue
      <3> QED
        BY <3>1, <3>2, <1>1, <1>b, <1>t, <2>d DEF CallerOK, FirstStep
    <2> QED
      BY <1>4, <2>1, <2>2, <2>3, <2>4, <2>5, <2>6, <2>7, <2>8, <2>9, <2>10, <2>11, <2>12, <2>13, <2>14
         DEF CallerStep, Stop, Disconnect, Pair, Start
  <1> QED
    BY <1>2, <1>3, <1>4 DEF Next

(***************************************************************************)
(* Links and who holds them.                                               *)
(***************************************************************************)
\* An opened link keeps its kind, a raised flag stays raised.
LEMMA LinksLast ==
  ASSUME TypeOK, HeldInv, Next, NEW l \in Link, link[l].state # "unused"
  PROVE  /\ link'[l].state # "unused" /\ link'[l].kind = link[l].kind
         /\ link[l].cancel => link'[l].cancel
  <1>t. link \in [Link -> Links] /\ link[l] \in Links
    BY DEF TypeOK
  <1>1. CASE link' = link
    BY <1>1
  <1>2. ASSUME NEW k \in Link \cup {NoLink}, link' = Cancelled(k)
        PROVE  /\ link'[l].state # "unused" /\ link'[l].kind = link[l].kind
               /\ link[l].cancel => link'[l].cancel
    BY <1>2, CancelledLinks
  <1>3. ASSUME NEW k \in Link, NEW kind, Fresh(k), link' = [link EXCEPT ![k] = Opened(kind)]
        PROVE  link'[l] = link[l]
    BY <1>3, <1>t DEF Fresh
  <1>4. ASSUME NEW k \in Link, LinkDown(k) \/ \E released \in BOOLEAN : LinkEnds(k, released)
        PROVE  /\ link'[l].state # "unused" /\ link'[l].kind = link[l].kind
               /\ link[l].cancel => link'[l].cancel
    BY <1>4, <1>t DEF LinkDown, LinkEnds, Links
  <1>5. ASSUME NEW p \in Proc,
               Frees(p) \/ Takes(p) \/ PreparePublish(p) \/ \E k \in Link : PrepareOpens(p, k)
        PROVE  \/ link' = link \/ \E k \in Link \cup {NoLink} : link' = Cancelled(k)
               \/ \E k \in Link, kind \in {"usb", "tether"} :
                     Fresh(k) /\ link' = [link EXCEPT ![k] = Opened(kind)]
    <2>1. usb \in Link \cup {NoLink} /\ held[p] \in Link \cup {NoLink}
      BY DEF TypeOK
    <2> QED
      BY <1>5, <2>1 DEF Frees, Takes, PreparePublish, PrepareOpens
  <1>6. ASSUME NEW c \in Caller,
               \/ Talks(c) \/ StopTake(c) \/ StopCancel(c)
               \/ DropTether(c, "disconnect_tether", "manager_take")
               \/ DropTether(c, "pair_drop", "pair_connect")
               \/ StartBegins(c) \/ StartFails(c)
               \/ \E k \in Link : PairConnects(c, k)
               \/ \E w \in Worker : StartSpawns(c, w)
        PROVE  \/ link' = link \/ \E k \in Link \cup {NoLink} : link' = Cancelled(k)
               \/ \E k \in Link, kind \in {"usb", "tether"} :
                     Fresh(k) /\ link' = [link EXCEPT ![k] = Opened(kind)]
    <2>1. tether \in Link \cup {NoLink} /\ held[c] \in Link \cup {NoLink}
      BY DEF TypeOK, Proc
    <2> QED
      BY <1>6, <2>1 DEF Talks, StopTake, StopCancel, DropTether, StartBegins, StartFails, PairConnects, StartSpawns
  <1>7. ASSUME NEW w \in Worker,
               Walks(w) \/ ClosesSocket(w) \/ Closed(w) \/ LoopbackEnds(w) \/ DeadlinePasses(w)
        PROVE  link' = link \/ \E k \in Link \cup {NoLink} : link' = Cancelled(k)
    <2>1. job[w].own \in Link \cup {NoLink}
      BY DEF TypeOK, Jobs
    <2> QED
      BY <1>7, <2>1 DEF Walks, ClosesSocket, Closed, LoopbackEnds, DeadlinePasses
  <1>8. Poll => link' = link
    BY DEF Poll
  <1> QED
    BY NextShapes, <1>1, <1>2, <1>3, <1>4, <1>5, <1>6, <1>7, <1>8

\* What HeldInv says of one process.
HeldOK(p) ==
    /\ InUse(held[p])
    /\ pc[p] \notin Ending \cup {"prepare_publish", "start_commit"} => held[p] = NoLink
    /\ pc[p] \in Ending /\ held[p] # NoLink => link[held[p]].cancel
    /\ pc[p] = "prepare_publish" => held[p] # NoLink /\ link[held[p]].kind = "usb"

\* Every step keeps what is known of the links in somebody's hands.
LEMMA HeldStep ==
  ASSUME TypeOK, HeldInv, CallInv, OwnInv, Next
  PROVE  HeldInv'
  <1> USE WorkerAssumption DEF Proc, Ending
  <1>a. SUFFICES ASSUME NEW q \in Proc PROVE HeldOK(q)'
    BY DEF HeldInv, HeldOK
  <1>b. HeldOK(q)
    BY DEF HeldInv, HeldOK
  <1>t. /\ pc \in [Proc -> CallerLabels \cup WorkerLabels] /\ held \in [Proc -> Link \cup {NoLink}]
        /\ link \in [Link -> Links] /\ NoLink \notin Link
        /\ usb \in Link \cup {NoLink} /\ tether \in Link \cup {NoLink}
    BY LinksAssumption DEF TypeOK, NoLink, Link
  <1>k. \A l \in Link : link[l].state # "unused" =>
            /\ link'[l].state # "unused" /\ link'[l].kind = link[l].kind
            /\ link[l].cancel => link'[l].cancel
    BY LinksLast
  <1>1. ASSUME held'[q] = held[q], pc'[q] = pc[q] PROVE HeldOK(q)'
    BY <1>1, <1>b, <1>k, <1>t DEF HeldOK, InUse
  <1>2. ASSUME held'[q] = NoLink, pc'[q] # "prepare_publish" PROVE HeldOK(q)'
    BY <1>2 DEF HeldOK, InUse
  <1>c. ASSUME NEW l \in Link \cup {NoLink}, InUse(l), link' = Cancelled(l), held'[q] = l, pc'[q] \in Ending
        PROVE  HeldOK(q)'
    <2>1. l # NoLink => link'[l].cancel /\ link'[l].state # "unused"
      BY <1>c, <1>t, CancelledLinks DEF InUse
    <2> QED
      BY <1>c, <2>1 DEF HeldOK, InUse
  <1>3. ASSUME NEW p \in Proc, Frees(p) PROVE HeldOK(q)'
    BY <1>3, <1>1, <1>2, <1>t DEF Frees
  <1>4. ASSUME NEW p \in Proc, Takes(p) PROVE HeldOK(q)'
    <2>1. InUse(usb) /\ pc'[p] \in Ending /\ link' = Cancelled(usb)
      BY <1>4 DEF OwnInv, Takes
    <2>2. held' = [held EXCEPT ![p] = usb] /\ pc' = [pc EXCEPT ![p] = pc'[p]]
      BY <1>4 DEF Takes
    <2> QED
      BY <1>1, <1>c, <1>t, <2>1, <2>2
  <1>5. ASSUME NEW p \in Proc, PreparePublish(p) PROVE HeldOK(q)'
    <2>1. CASE CancelRequested(p)
      <3>1. /\ link' = Cancelled(held[p]) /\ held' = held /\ pc' = [pc EXCEPT ![p] = "prepare_undo"]
        BY <1>5, <2>1 DEF PreparePublish
      <3>2. InUse(held[p]) /\ held[p] \in Link \cup {NoLink}
        BY <1>t DEF HeldInv
      <3> QED
        BY <1>1, <1>c, <1>t, <3>1, <3>2
    <2>2. CASE ~CancelRequested(p)
      BY <1>5, <2>2, <1>1, <1>2, <1>t DEF PreparePublish
    <2> QED
      BY <2>1, <2>2
  <1>6. ASSUME NEW p \in Proc, NEW l \in Link, PrepareOpens(p, l) PROVE HeldOK(q)'
    <2>1. /\ held' = [held EXCEPT ![p] = l] /\ pc' = [pc EXCEPT ![p] = "prepare_publish"]
          /\ link'[l] = Opened("usb")
      BY <1>6, <1>t DEF PrepareOpens
    <2>2. Opened("usb").state = "up" /\ Opened("usb").kind = "usb"
      BY DEF Opened
    <2>3. CASE q = p
      BY <1>t, <2>1, <2>2, <2>3 DEF HeldOK, InUse
    <2> QED
      BY <1>1, <1>t, <2>1, <2>3
  <1>7. ASSUME NEW c \in Caller, Talks(c) PROVE HeldOK(q)'
    BY <1>7, <1>1, <1>2, <1>t DEF Talks
  <1>8. ASSUME NEW c \in Caller, StopTake(c) \/ StopCancel(c) PROVE HeldOK(q)'
    <2>1. held[c] = NoLink /\ held' = held /\ pc' = [pc EXCEPT ![c] = pc'[c]] /\ pc'[c] # "prepare_publish"
      BY <1>8, <1>t DEF StopTake, StopCancel, HeldInv
    <2> QED
      BY <1>1, <1>2, <1>t, <2>1
  <1>9. ASSUME NEW c \in Caller,
               \/ DropTether(c, "disconnect_tether", "manager_take")
               \/ DropTether(c, "pair_drop", "pair_connect")
        PROVE  HeldOK(q)'
    <2>1. InUse(tether)
      BY DEF OwnInv
    <2>2. /\ pc' = [pc EXCEPT ![c] = pc'[c]] /\ pc'[c] \in Ending /\ link' = Cancelled(tether)
          /\ held' = [held EXCEPT ![c] = tether]
      BY <1>9, <1>t DEF DropTether
    <2> QED
      BY <1>1, <1>c, <1>t, <2>1, <2>2
  <1>10. ASSUME NEW c \in Caller, StartBegins(c) PROVE HeldOK(q)'
    <2>1. InUse(tether) /\ held[c] = NoLink
      BY <1>10 DEF OwnInv, StartBegins, HeldInv
    <2>2. CASE StartRefuses
      BY <1>10, <2>1, <2>2, <1>1, <1>2, <1>t DEF StartBegins, Returns
    <2>3. CASE ~StartRefuses
      <3>1. /\ pc' = [pc EXCEPT ![c] = "start_commit"] /\ link' = link
            /\ held' = [held EXCEPT ![c] = tether]
        BY <1>10, <2>3 DEF StartBegins, Continues
      <3>2. CASE q = c
        BY <1>t, <2>1, <3>1, <3>2 DEF HeldOK, InUse
      <3> QED
        BY <1>1, <1>t, <3>1, <3>2
    <2> QED
      BY <2>2, <2>3
  <1>11. ASSUME NEW c \in Caller, StartFails(c) PROVE HeldOK(q)'
    <2>1. InUse(held[c]) /\ held[c] \in Link \cup {NoLink}
      BY <1>t DEF HeldInv
    <2>2. pc' = [pc EXCEPT ![c] = "start_failed"] /\ link' = Cancelled(held[c]) /\ held' = held
      BY <1>11 DEF StartFails
    <2> QED
      BY <1>1, <1>c, <1>t, <2>1, <2>2
  <1>12. ASSUME NEW c \in Caller, NEW l \in Link, PairConnects(c, l) PROVE HeldOK(q)'
    <2>1. /\ pc' = [pc EXCEPT ![c] = pc'[c]] /\ pc'[c] \in {"idle", "quit_disable"}
          /\ held' = [held EXCEPT ![c] = NoLink]
      BY <1>12, ReturnsTypes DEF PairConnects
    <2> QED
      BY <1>1, <1>2, <1>t, <2>1
  <1>13. ASSUME NEW c \in Caller, NEW w \in Worker, StartSpawns(c, w) PROVE HeldOK(q)'
    <2>1. held[w] = NoLink
      BY <1>13 DEF StartSpawns, HeldInv
    <2>2. /\ held' = [held EXCEPT ![c] = NoLink]
          /\ pc'[c] # "prepare_publish" /\ pc'[w] # "prepare_publish"
          /\ \A p \in Proc \ {c, w} : pc'[p] = pc[p]
      BY <1>13, <1>t DEF StartSpawns
    <2> QED
      BY <1>1, <1>2, <1>t, <2>1, <2>2
  <1>14. ASSUME NEW w \in Worker, Walks(w) PROVE HeldOK(q)'
    <2>1. held[w] = NoLink
      BY <1>14 DEF Walks, Writing, HeldInv
    <2> QED
      BY <1>14, <2>1, <1>1, <1>2, <1>t DEF Walks, Writing
  <1>15. ASSUME NEW w \in Worker, ClosesSocket(w) PROVE HeldOK(q)'
    <2>1. InUse(job[w].own) /\ job[w].own \in Link \cup {NoLink}
      BY DEF OwnInv, TypeOK, Jobs
    <2> QED
      BY <1>15, <2>1, <1>1, <1>c, <1>t DEF ClosesSocket
  <1>16. ASSUME NEW w \in Worker, Closed(w) \/ LoopbackEnds(w) PROVE HeldOK(q)'
    <2>1. LoopbackEnds(w) => held[w] = NoLink
      BY DEF LoopbackEnds, HeldInv
    <2> QED
      BY <1>16, <2>1, <1>1, <1>2, <1>t DEF Closed, LoopbackEnds
  <1>17. ASSUME \/ \E w \in Worker : DeadlinePasses(w)
                \/ Poll
                \/ \E l \in Link : LinkDown(l) \/ \E released \in BOOLEAN : LinkEnds(l, released)
         PROVE  HeldOK(q)'
    BY <1>17, <1>1 DEF DeadlinePasses, Poll, LinkDown, LinkEnds
  <1> QED
    BY NextShapes, <1>3, <1>4, <1>5, <1>6, <1>7, <1>8, <1>9, <1>10, <1>11, <1>12, <1>13, <1>14,
       <1>15, <1>16, <1>17

\* Raising a worker's flag or passing its deadline leaves its socket alone.
LEMMA JobKeepsSocket ==
  ASSUME TypeOK, CallInv,
         (\E c \in Caller : StopCancel(c)) \/ (\E v \in Worker : DeadlinePasses(v) \/ Walks(v)),
         NEW w \in Worker
  PROVE  job'[w].kind = job[w].kind /\ job'[w].own = job[w].own
  <1>t. job \in [Worker -> Jobs] /\ job[w] \in Jobs
    BY DEF TypeOK
  <1>1. ASSUME NEW c \in Caller, StopCancel(c)
        PROVE  job'[w].kind = job[w].kind /\ job'[w].own = job[w].own
    <2>1. call[c].target \in Worker
      BY <1>1 DEF StopCancel, CallInv
    <2> QED
      BY <1>1, <1>t, <2>1 DEF StopCancel, Jobs
  <1>2. ASSUME NEW v \in Worker, DeadlinePasses(v)
        PROVE  job'[w].kind = job[w].kind /\ job'[w].own = job[w].own
    BY <1>2, <1>t DEF DeadlinePasses, Jobs
  <1>3. ASSUME NEW v \in Worker, Walks(v)
        PROVE  job'[w].kind = job[w].kind /\ job'[w].own = job[w].own
    BY <1>3, <1>t DEF Walks
  <1> QED
    BY <1>1, <1>2, <1>3

\* The socket a started worker is given, and what it keeps at its end.
LEMMA JobAtTheEnds ==
  ASSUME TypeOK, HeldInv, NEW w \in Worker
  PROVE  /\ \A c \in Caller : StartSpawns(c, w) =>
              /\ job'[w].own = held[c] /\ job'[w].kind = StartKind(c)
              /\ \A v \in Worker \ {w} : job'[v] = job[v]
              /\ StartKind(c) # "tether" => held[c] = NoLink
         /\ Closed(w) \/ LoopbackEnds(w) =>
              /\ job'[w].own = NoLink /\ job'[w].kind = "none"
              /\ \A v \in Worker \ {w} : job'[v] = job[v]
  <1>t. job \in [Worker -> Jobs]
    BY DEF TypeOK
  <1>1. ASSUME NEW c \in Caller, StartSpawns(c, w)
        PROVE  /\ job'[w].own = held[c] /\ job'[w].kind = StartKind(c)
               /\ \A v \in Worker \ {w} : job'[v] = job[v]
               /\ StartKind(c) # "tether" => held[c] = NoLink
    <2>1. job'[w].own = held[c] /\ job'[w].kind = StartKind(c)
          /\ \A v \in Worker \ {w} : job'[v] = job[v]
      BY <1>1, <1>t DEF StartSpawns, NoJob
    <2>2. c \in Proc
      BY DEF Proc
    <2>3. pc[c] = "start_loopback" => held[c] = NoLink
      BY <2>2 DEF HeldInv, Ending
    <2> QED
      BY <2>1, <2>3 DEF StartKind
  <1>2. Closed(w) \/ LoopbackEnds(w) =>
              /\ job'[w].own = NoLink /\ job'[w].kind = "none"
              /\ \A v \in Worker \ {w} : job'[v] = job[v]
    BY <1>t DEF Closed, LoopbackEnds, NoJob
  <1> QED
    BY <1>1, <1>2

\* What OwnInv says of one worker.
OwnOK(w) ==
    /\ InUse(job[w].own)
    /\ job[w].kind # "tether" => job[w].own = NoLink
    /\ pc[w] = "closed" /\ job[w].kind = "tether" => held[w] = job[w].own
    /\ pc[w] = "loop" => job[w].kind = "loopback"

\* Every step keeps what is known of the links somebody owns.
LEMMA OwnStep ==
  ASSUME TypeOK, HeldInv, CallInv, OwnInv, Next
  PROVE  OwnInv'
  <1> USE WorkerAssumption DEF Proc
  <1>t. /\ pc \in [Proc -> CallerLabels \cup WorkerLabels] /\ held \in [Proc -> Link \cup {NoLink}]
        /\ link \in [Link -> Links] /\ NoLink \notin Link
        /\ usb \in Link \cup {NoLink} /\ tether \in Link \cup {NoLink}
        /\ job \in [Worker -> Jobs] /\ \A w \in Worker : job[w].own \in Link \cup {NoLink}
    BY LinksAssumption DEF TypeOK, NoLink, Link, Jobs
  <1>k. \A l \in Link : link[l].state # "unused" =>
            link'[l].state # "unused" /\ link'[l].kind = link[l].kind
    BY LinksLast
  <1>i. \A l \in Link \cup {NoLink} : InUse(l) => (l # NoLink => link'[l].state # "unused")
    BY <1>k DEF InUse
  <1>o. \A w \in Worker : OwnOK(w)
    BY DEF OwnInv, OwnOK
  <1>1. InUse(usb)' /\ (usb # NoLink => link[usb].kind = "usb")'
    <2>1. CASE usb' = usb
      BY <2>1, <1>i, <1>k, <1>t DEF OwnInv, InUse
    <2>2. CASE usb' = NoLink
      BY <2>2 DEF InUse
    <2>3. ASSUME NEW p \in Proc, PreparePublish(p), ~CancelRequested(p)
          PROVE  InUse(usb)' /\ (usb # NoLink => link[usb].kind = "usb")'
      <3>1. usb' = held[p] /\ pc[p] = "prepare_publish"
        BY <2>3 DEF PreparePublish
      <3>2. held[p] \in Link /\ InUse(held[p]) /\ link[held[p]].kind = "usb"
        BY <3>1, <1>t DEF HeldInv
      <3> QED
        BY <3>1, <3>2, <1>k DEF InUse
    <2>4. ASSUME NEW p \in Proc,
                 Frees(p) \/ Takes(p) \/ PreparePublish(p) \/ \E l \in Link : PrepareOpens(p, l)
          PROVE  \/ usb' = usb \/ usb' = NoLink
                 \/ PreparePublish(p) /\ ~CancelRequested(p)
      BY <2>4 DEF Frees, Takes, PreparePublish, PrepareOpens
    <2>5. ASSUME NEW c \in Caller,
                 \/ Talks(c) \/ StopTake(c) \/ StopCancel(c)
                 \/ DropTether(c, "disconnect_tether", "manager_take")
                 \/ DropTether(c, "pair_drop", "pair_connect")
                 \/ StartBegins(c) \/ StartFails(c)
                 \/ \E l \in Link : PairConnects(c, l)
                 \/ \E w \in Worker : StartSpawns(c, w)
          PROVE  usb' = usb
      BY <2>5 DEF Talks, StopTake, StopCancel, DropTether, StartBegins, StartFails, PairConnects, StartSpawns
    <2>6. ASSUME NEW w \in Worker,
                 Walks(w) \/ ClosesSocket(w) \/ Closed(w) \/ LoopbackEnds(w) \/ DeadlinePasses(w)
          PROVE  usb' = usb
      BY <2>6 DEF Walks, ClosesSocket, Closed, LoopbackEnds, DeadlinePasses
    <2>7. ASSUME Poll \/ \E l \in Link : LinkDown(l) \/ \E released \in BOOLEAN : LinkEnds(l, released)
          PROVE  usb' = usb
      BY <2>7 DEF Poll, LinkDown, LinkEnds
    <2> QED
      BY NextShapes, <2>1, <2>2, <2>3, <2>4, <2>5, <2>6, <2>7
  <1>2. InUse(tether)'
    <2>1. CASE tether' = tether
      BY <2>1, <1>i, <1>t DEF OwnInv, InUse
    <2>2. CASE tether' = NoLink
      BY <2>2 DEF InUse
    <2>3. ASSUME NEW c \in Caller, NEW l \in Link, PairConnects(c, l) PROVE InUse(tether)'
      <3>1. tether' = l /\ link'[l] = Opened("tether")
        BY <2>3, <1>t DEF PairConnects
      <3> QED
        BY <3>1 DEF InUse, Opened
    <2>4. ASSUME NEW p \in Proc,
                 Frees(p) \/ Takes(p) \/ PreparePublish(p) \/ \E l \in Link : PrepareOpens(p, l)
          PROVE  tether' = tether
      BY <2>4 DEF Frees, Takes, PreparePublish, PrepareOpens
    <2>5. ASSUME NEW c \in Caller,
                 \/ Talks(c) \/ StopTake(c) \/ StopCancel(c)
                 \/ DropTether(c, "disconnect_tether", "manager_take")
                 \/ DropTether(c, "pair_drop", "pair_connect")
                 \/ StartBegins(c) \/ StartFails(c)
                 \/ \E w \in Worker : StartSpawns(c, w)
          PROVE  tether' = tether \/ tether' = NoLink
      BY <2>5 DEF Talks, StopTake, StopCancel, DropTether, StartBegins, StartFails, StartSpawns
    <2>6. ASSUME NEW w \in Worker,
                 Walks(w) \/ ClosesSocket(w) \/ Closed(w) \/ LoopbackEnds(w) \/ DeadlinePasses(w)
          PROVE  tether' = tether
      BY <2>6 DEF Walks, ClosesSocket, Closed, LoopbackEnds, DeadlinePasses
    <2>7. ASSUME Poll \/ \E l \in Link : LinkDown(l) \/ \E released \in BOOLEAN : LinkEnds(l, released)
          PROVE  tether' = tether
      BY <2>7 DEF Poll, LinkDown, LinkEnds
    <2> QED
      BY NextShapes, <2>1, <2>2, <2>3, <2>4, <2>5, <2>6, <2>7
  <1>3. ASSUME NEW w \in Worker PROVE OwnOK(w)'
    <2>1. ASSUME job'[w].kind = job[w].kind, job'[w].own = job[w].own,
                 pc'[w] = "closed" => pc[w] = "closed" /\ held'[w] = held[w],
                 pc'[w] = "loop" => pc[w] = "loop"
          PROVE  OwnOK(w)'
      BY <2>1, <1>o, <1>i, <1>t DEF OwnOK, InUse
    <2>2. ASSUME NEW p \in Proc,
                 Frees(p) \/ Takes(p) \/ PreparePublish(p) \/ \E l \in Link : PrepareOpens(p, l)
          PROVE  OwnOK(w)'
      <3>1. CASE Takes(p) /\ p = w /\ pc[w] = "close"
        <4>1. job[w].kind = "usb" /\ job' = job /\ pc'[w] = "closed"
          BY <3>1 DEF Takes
        <4> QED
          BY <4>1, <1>o, <1>i, <1>t DEF OwnOK, InUse
      <3>2. CASE ~(Takes(p) /\ p = w /\ pc[w] = "close")
        <4>1. /\ job' = job /\ (pc'[w] = "closed" => pc[w] = "closed" /\ held'[w] = held[w])
              /\ pc'[w] = "loop" => pc[w] = "loop"
          BY <2>2, <3>2, <1>t DEF Frees, Takes, PreparePublish, PrepareOpens
        <4> QED
          BY <2>1, <4>1
      <3> QED
        BY <3>1, <3>2
    <2>3. ASSUME NEW c \in Caller,
                 \/ Talks(c) \/ StopTake(c) \/ StopCancel(c)
                 \/ DropTether(c, "disconnect_tether", "manager_take")
                 \/ DropTether(c, "pair_drop", "pair_connect")
                 \/ StartBegins(c) \/ StartFails(c)
                 \/ \E l \in Link : PairConnects(c, l)
          PROVE  OwnOK(w)'
      <3>1. c # w /\ c \in Proc
        OBVIOUS
      <3>2. pc'[w] = pc[w] /\ held'[w] = held[w]
        BY <2>3, <3>1, <1>t DEF Talks, StopTake, StopCancel, DropTether, StartBegins, StartFails, PairConnects,
           Returns, Continues
      <3>3. job'[w].kind = job[w].kind /\ job'[w].own = job[w].own
        BY <2>3, JobKeepsSocket
           DEF Talks, StopTake, DropTether, StartBegins, StartFails, PairConnects
      <3> QED
        BY <2>1, <3>2, <3>3
    <2>4. ASSUME NEW c \in Caller, NEW v \in Worker, StartSpawns(c, v) PROVE OwnOK(w)'
      <3>1. InUse(held[c]) /\ held[c] \in Link \cup {NoLink}
        BY <1>t DEF HeldInv
      <3>2. /\ job'[v].own = held[c] /\ job'[v].kind = StartKind(c)
            /\ \A u \in Worker \ {v} : job'[u] = job[u]
            /\ StartKind(c) # "tether" => held[c] = NoLink
        BY <2>4, JobAtTheEnds
      <3>3. CASE w = v
        <4>1. pc'[w] # "closed" /\ (pc'[w] = "loop" => StartKind(c) = "loopback")
          BY <2>4, <3>3, <1>t DEF StartSpawns
        <4> QED
          BY <3>1, <3>2, <3>3, <4>1, <1>i DEF OwnOK, InUse
      <3>4. CASE w # v
        <4>1. pc'[w] = pc[w] /\ held'[w] = held[w]
          BY <2>4, <3>4, <1>t DEF StartSpawns
        <4> QED
          BY <3>2, <3>4, <4>1, <2>1
      <3> QED
        BY <3>3, <3>4
    <2>5. ASSUME NEW v \in Worker, Walks(v) \/ DeadlinePasses(v) PROVE OwnOK(w)'
      <3>1. job'[w].kind = job[w].kind /\ job'[w].own = job[w].own
        BY <2>5, JobKeepsSocket
      <3>2. /\ pc'[w] = "closed" => pc[w] = "closed" /\ held'[w] = held[w]
            /\ pc'[w] = "loop" => pc[w] = "loop"
        BY <2>5, <1>t DEF Walks, DeadlinePasses, Writing
      <3> QED
        BY <2>1, <3>1, <3>2
    <2>6. ASSUME NEW v \in Worker, ClosesSocket(v) PROVE OwnOK(w)'
      <3>1. CASE w = v
        <4>1. job' = job /\ held'[w] = job[w].own /\ pc'[w] = "closed"
          BY <2>6, <3>1, <1>t DEF ClosesSocket
        <4> QED
          BY <4>1, <1>o, <1>i, <1>t DEF OwnOK, InUse
      <3>2. CASE w # v
        BY <2>6, <3>2, <2>1, <1>t DEF ClosesSocket
      <3> QED
        BY <3>1, <3>2
    <2>7. ASSUME NEW v \in Worker, Closed(v) \/ LoopbackEnds(v) PROVE OwnOK(w)'
      <3>1. /\ job'[v].own = NoLink /\ job'[v].kind = "none"
            /\ \A u \in Worker \ {v} : job'[u] = job[u]
        BY <2>7, JobAtTheEnds
      <3>2. CASE w = v
        <4>1. pc'[w] = "finished"
          BY <2>7, <3>2, <1>t DEF Closed, LoopbackEnds
        <4> QED
          BY <3>1, <3>2, <4>1 DEF OwnOK, InUse
      <3>3. CASE w # v
        <4>1. pc'[w] = pc[w] /\ held'[w] = held[w]
          BY <2>7, <3>3, <1>t DEF Closed, LoopbackEnds
        <4> QED
          BY <3>1, <3>3, <4>1, <2>1
      <3> QED
        BY <3>2, <3>3
    <2>8. CASE Poll \/ \E l \in Link : LinkDown(l) \/ \E released \in BOOLEAN : LinkEnds(l, released)
      BY <2>8, <2>1 DEF Poll, LinkDown, LinkEnds
    <2> QED
      BY NextShapes, <2>2, <2>3, <2>4, <2>5, <2>6, <2>7, <2>8
  <1> QED
    BY <1>1, <1>2, <1>3 DEF OwnInv, OwnOK

(***************************************************************************)
(* The window before the tray is used.                                     *)
(***************************************************************************)
\* A caller's command changes only to one that has been issued or is done, and
\* a caller that runs a step of a command has issued it.
LEMMA CallChanges ==
  ASSUME TypeOK, CallInv, Next, NEW c \in Caller
  PROVE  call'[c] = call[c] \/ call'[c].cmd # "none"
  <1> USE CallerAssumption, WorkerAssumption
  <1>t. call \in [Caller -> Calls]
    BY DEF TypeOK
  <1>r. ASSUME NEW d \in Caller, NEW newPhase, Returns(d, newPhase)
        PROVE  call'[c] = call[c] \/ call'[c].cmd # "none"
    BY <1>r, <1>t DEF Returns, Done
  <1>p. ASSUME NEW p, Prepare(p) PROVE call' = call
    BY <1>p DEF Prepare, PrepareBegins, PrepareJoined, PrepareFails, PrepareOpens, PreparePublish, PrepareUndone,
       ReportsStatus, TakeSession
  <1>1. ASSUME NEW d \in Caller, CallerStep(d) PROVE call'[c] = call[c] \/ call'[c].cmd # "none"
    <2>1. CASE StopTake(d)
      <3>1. call[d].cmd # "none" /\ call[d] \in Calls
        BY <2>1, <1>t DEF StopTake, CallInv
      <3> QED
        BY <2>1, <3>1, <1>t DEF StopTake, Calls
    <2>2. CASE StopCancel(d) \/ StopJoin(d) \/ StopPublish(d)
      BY <2>2, <1>r DEF StopCancel, StopJoin, StopPublish, AfterStop, Continues
    <2>3. CASE Disconnect(d)
      BY <2>3, <1>r DEF Disconnect, DisconnectReads, DropTether, ManagerTake, TakeSession, ManagerDisconnected, Continues
    <2>4. CASE Pair(d)
      BY <2>4, <1>r DEF Pair, PairBegins, DropTether, PairFails, PairConnects, Continues
    <2>5. CASE StartBegins(d) \/ StartNegotiates(d) \/ StartFails(d) \/ StartReturns(d)
      BY <2>5, <1>r DEF StartBegins, StartNegotiates, StartFails, StartReturns, Continues
    <2>6. ASSUME NEW w \in Worker, StartSpawns(d, w) PROVE call'[c] = call[c] \/ call'[c].cmd # "none"
      BY <2>6, <1>t DEF StartSpawns, Done
    <2>7. CASE PrepareReturns(d) \/ QuitDisables(d)
      BY <2>7, <1>r DEF PrepareReturns, QuitDisables
    <2> QED
      BY <1>1, <1>p, <2>1, <2>2, <2>3, <2>4, <2>5, <2>6, <2>7 DEF CallerStep, Stop, Start
  <1>2. ASSUME NEW d \in Caller, NEW cmd \in Offered(d), Issue(d, cmd)
        PROVE  call'[c] = call[c] \/ call'[c].cmd # "none"
    BY <1>2, <1>t DEF Issue, Offered
  <1>3. ASSUME NEW w \in Worker, SessionWorker(w) \/ DeadlinePasses(w) PROVE call' = call
    <2>1. CASE Close(w) \/ Closed(w) \/ LoopbackEnds(w) \/ DeadlinePasses(w)
      BY <2>1 DEF Close, Closed, LoopbackEnds, DeadlinePasses, TakeSession
    <2>2. CASE Walks(w)
      BY <2>2 DEF Walks
    <2> QED
      BY <1>3, <1>p, <2>1, <2>2, WorkerWalks DEF SessionWorker
  <1>4. Poll \/ (\E l \in Link : LinkDown(l) \/ \E released \in BOOLEAN : LinkEnds(l, released))
          => call' = call
    BY DEF Poll, LinkDown, LinkEnds
  <1> QED
    BY <1>1, <1>2, <1>3, <1>4 DEF Next

\* Once used, the tray stays used.
LEMMA TrayStays ==
  ASSUME TypeOK, CallInv, Next, TrayUsed
  PROVE  TrayUsed'
  <1>1. "tray" \in Caller /\ call["tray"] # NoCall
    BY DEF TrayUsed
  <1>2. call'["tray"] = call["tray"] \/ call'["tray"].cmd # "none"
    BY <1>1, CallChanges
  <1> QED
    BY <1>1, <1>2 DEF TrayUsed, NoCall

\* The tray runs no step of a command before it is used.
LEMMA TrayIsIdle ==
  ASSUME TypeOK, CallInv, ~TrayUsed, NEW c \in Caller, pc[c] # "idle"
  PROVE  c = "ui"
  <1>1. c = "tray" => call[c].cmd = "none"
    BY DEF TrayUsed, NoCall
  <1> QED
    BY <1>1, CallerAssumption DEF CallInv

(***************************************************************************)
(* A session worker can always be stopped.                                 *)
(***************************************************************************)
\* What NoOrphanWorker says of one worker.
Reachable(w) ==
    Live(w) => \/ slot = w
               \/ job[w].cancel
               \/ \E c \in Caller : pc[c] = "stop_cancel" /\ call[c].target = w

\* Every step keeps a way to stop every session worker.
LEMMA OrphanStep ==
  ASSUME TypeOK, HeldInv, CallInv, NoOrphanWorker, Next
  PROVE  NoOrphanWorker'
  <1> USE WorkerAssumption DEF Proc
  <1>a. SUFFICES ASSUME NEW w \in Worker PROVE Reachable(w)'
    BY DEF NoOrphanWorker, Reachable
  <1>b. Reachable(w)
    BY DEF NoOrphanWorker, Reachable
  <1>t. /\ pc \in [Proc -> CallerLabels \cup WorkerLabels]
        /\ job \in [Worker -> Jobs] /\ job[w] \in Jobs
        /\ call \in [Caller -> Calls]
    BY DEF TypeOK
  <1>1. ASSUME Live(w)' => Live(w), slot = w /\ Live(w) => slot' = w, job[w].cancel => job'[w].cancel,
               \A c \in Caller : pc[c] = "stop_cancel" => pc'[c] = "stop_cancel" /\ call'[c] = call[c]
        PROVE  Reachable(w)'
    BY <1>1, <1>b DEF Reachable
  <1>2. ASSUME NEW p \in Proc,
               Frees(p) \/ Takes(p) \/ PreparePublish(p) \/ \E l \in Link : PrepareOpens(p, l)
        PROVE  Reachable(w)'
    <2>1. UNCHANGED <<slot, job>>
      BY <1>2 DEF Frees, Takes, PreparePublish, PrepareOpens
    <2>2. /\ pc' = [pc EXCEPT ![p] = pc'[p]]
          /\ pc[p] \notin {"unused", "finished", "stop_cancel"}
      BY <1>2, <1>t DEF Frees, Takes, PreparePublish, PrepareOpens
    <2>3. \A c \in Caller : c # p => call'[c] = call[c]
      BY <1>2, <1>t DEF Frees, Takes, PreparePublish, PrepareOpens, Returns
    <2> QED
      BY <1>1, <1>t, <2>1, <2>2, <2>3 DEF Live
  <1>3. ASSUME NEW c \in Caller, Talks(c) PROVE Reachable(w)'
    BY <1>3, <1>1, <1>t DEF Talks, Live
  <1>4. ASSUME NEW c \in Caller, StopTake(c) PROVE Reachable(w)'
    <2>1. /\ pc' = [pc EXCEPT ![c] = IF slot = NoWorker THEN "stop_publish" ELSE "stop_cancel"]
          /\ pc[c] = "stop_take" /\ job' = job /\ \A d \in Caller : d # c => call'[d] = call[d]
      BY <1>4, <1>t DEF StopTake
    <2>2. call'[c].target = slot
      BY <1>4, <1>t DEF StopTake, Calls
    <2>3. CASE slot = w
      BY <2>1, <2>2, <2>3, <1>t DEF Reachable
    <2>4. CASE slot # w
      BY <2>1, <2>4, <1>1, <1>t DEF Live
    <2> QED
      BY <2>3, <2>4
  <1>5. ASSUME NEW c \in Caller, StopCancel(c) PROVE Reachable(w)'
    <2>1. /\ pc' = [pc EXCEPT ![c] = "stop_join"] /\ slot' = slot /\ call' = call
          /\ call[c].target \in Worker
      BY <1>5 DEF StopCancel, CallInv
    <2>2. (Live(w)' => Live(w)) /\ pc'[w] = pc[w]
      BY <2>1, <1>t DEF Live
    <2>3. job' = [job EXCEPT ![call[c].target].cancel = Live(call[c].target)]
      BY <1>5 DEF StopCancel
    <2>4. CASE call[c].target = w
      <3>1. job'[w].cancel = Live(w)
        BY <2>3, <2>4, <1>t DEF Jobs
      <3> QED
        BY <3>1, <2>2 DEF Reachable
    <2>5. CASE call[c].target # w
      <3>1. job'[w] = job[w]
        BY <2>1, <2>3, <2>5, <1>t
      <3>2. \A d \in Caller : pc[d] = "stop_cancel" /\ d # c => pc'[d] = "stop_cancel"
        BY <2>1, <1>t
      <3> QED
        BY <1>b, <2>1, <2>2, <2>5, <3>1, <3>2 DEF Reachable
    <2> QED
      BY <2>4, <2>5
  <1>6. ASSUME NEW c \in Caller,
               \/ DropTether(c, "disconnect_tether", "manager_take")
               \/ DropTether(c, "pair_drop", "pair_connect")
               \/ StartBegins(c) \/ StartFails(c)
               \/ \E l \in Link : PairConnects(c, l)
        PROVE  Reachable(w)'
    <2>1. /\ pc' = [pc EXCEPT ![c] = pc'[c]] /\ pc[c] # "stop_cancel" /\ job' = job
          /\ \A d \in Caller : d # c => call'[d] = call[d]
      BY <1>6, <1>t DEF DropTether, StartBegins, StartFails, PairConnects, Returns, Continues, SpawnFails,
         PairingIsGone, LoopbackRefused
    <2>2. ASSUME slot = w, Live(w) PROVE slot' = w
      <3>1. StartRefuses
        BY <2>2 DEF StartRefuses
      <3> QED
        BY <1>6, <2>2, <3>1 DEF DropTether, StartBegins, StartFails, PairConnects
    <2> QED
      BY <1>1, <1>t, <2>1, <2>2 DEF Live
  <1>7. ASSUME NEW c \in Caller, NEW v \in Worker, StartSpawns(c, v) PROVE Reachable(w)'
    <2>1. CASE w = v
      BY <1>7, <2>1 DEF StartSpawns, Reachable
    <2>2. CASE w # v
      <3>1. pc[c] \in {"start_commit", "start_loopback"}
        BY <1>7 DEF StartSpawns
      <3>2. slot = NoWorker
        BY <3>1 DEF CallInv, StartLabels
      <3>3. /\ \A d \in Caller : d # c => pc'[d] = pc[d] /\ call'[d] = call[d]
            /\ pc'[w] = pc[w] /\ job'[w] = job[w]
        BY <1>7, <2>2, <1>t DEF StartSpawns
      <3> QED
        BY <1>1, <3>1, <3>2, <3>3 DEF Live
    <2> QED
      BY <2>1, <2>2
  <1>8. ASSUME NEW v \in Worker, Walks(v) \/ ClosesSocket(v) \/ DeadlinePasses(v) PROVE Reachable(w)'
    <2>1. /\ UNCHANGED <<slot, call>> /\ (pc'[v] # pc[v] => Live(v))
          /\ \A p \in Proc : p # v => pc'[p] = pc[p]
      BY <1>8, <1>t DEF Walks, ClosesSocket, DeadlinePasses, Live, Writing
    <2>2. job'[w].cancel = job[w].cancel
      BY <1>8, <1>t DEF Walks, ClosesSocket, DeadlinePasses, Jobs
    <2> QED
      BY <1>1, <2>1, <2>2 DEF Live
  <1>9. ASSUME NEW v \in Worker, Closed(v) \/ LoopbackEnds(v) PROVE Reachable(w)'
    <2>1. /\ UNCHANGED <<slot, call>> /\ pc'[v] = "finished"
          /\ \A p \in Proc : p # v => pc'[p] = pc[p]
          /\ \A u \in Worker : u # v => job'[u] = job[u]
      BY <1>9, <1>t DEF Closed, LoopbackEnds
    <2>2. CASE w = v
      BY <2>1, <2>2 DEF Reachable, Live
    <2>3. CASE w # v
      BY <1>1, <2>1, <2>3 DEF Live
    <2> QED
      BY <2>2, <2>3
  <1>10. CASE Poll \/ \E l \in Link : LinkDown(l) \/ \E released \in BOOLEAN : LinkEnds(l, released)
    BY <1>10, <1>1 DEF Poll, LinkDown, LinkEnds, Live
  <1> QED
    BY NextShapes, <1>2, <1>3, <1>4, <1>5, <1>6, <1>7, <1>8, <1>9, <1>10

(***************************************************************************)
(* Every open link has an owner.                                           *)
(***************************************************************************)
Owner(l) ==
    \/ l \in {usb, tether}
    \/ \E w \in Worker : Live(w) /\ job[w].own = l
    \/ \E p \in Proc : held[p] = l

Loose(l) == Connected(l) /\ ~link[l].cancel /\ (link[l].kind = "usb" => ~TrayUsed)

\* Every step keeps an owner for every link it does not cancel.
LEMMA OwnerStep ==
  ASSUME TypeOK, HeldInv, CallInv, OwnInv, WindowInv, EveryLinkHasOwner, Next
  PROVE  EveryLinkHasOwner'
  <1> USE WorkerAssumption DEF Proc
  <1>a. SUFFICES ASSUME NEW l \in Link, Loose(l)' PROVE Owner(l)'
    BY DEF EveryLinkHasOwner, Owner, Loose
  <1>t. /\ pc \in [Proc -> CallerLabels \cup WorkerLabels] /\ held \in [Proc -> Link \cup {NoLink}]
        /\ link \in [Link -> Links] /\ link[l] \in Links /\ NoLink \notin Link /\ l # NoLink
        /\ usb \in Link \cup {NoLink} /\ tether \in Link \cup {NoLink}
        /\ job \in [Worker -> Jobs] /\ \A w \in Worker : job[w].own \in Link \cup {NoLink}
    BY LinksAssumption DEF TypeOK, NoLink, Link, Jobs
  <1>u. link'[l].state = "up" /\ ~link'[l].cancel
    BY <1>a, <1>t DEF Loose, Connected
  <1>b. ASSUME link[l].state = "up"
        PROVE  Loose(l) /\ Owner(l) /\ ~link[l].cancel
    <2>1. link'[l].kind = link[l].kind /\ ~link[l].cancel
      BY <1>b, <1>u, LinksLast
    <2>2. TrayUsed => TrayUsed'
      BY TrayStays
    <2>3. Loose(l)
      BY <1>a, <1>b, <1>t, <2>1, <2>2 DEF Loose, Connected
    <2> QED
      BY <2>1, <2>3 DEF EveryLinkHasOwner, Loose, Owner
  <1>e. link[l].state = "up" => ~Ended(l)
    BY <1>t DEF Ended
  <1>c. \A k \in Link \cup {NoLink} : link' = Cancelled(k) => link[l].state = "up" /\ l # k
    <2> SUFFICES ASSUME NEW k \in Link \cup {NoLink}, link' = Cancelled(k)
                 PROVE  link[l].state = "up" /\ l # k
      OBVIOUS
    <2>1. link'[l].state = link[l].state /\ link'[l].cancel = (link[l].cancel \/ l = k)
      BY CancelledLinks
    <2> QED
      BY <1>u, <2>1
  <1>1. ASSUME link[l].state = "up",
               l = usb => l \in {usb', tether'} \/ \E p \in Proc : held'[p] = l,
               l = tether => l \in {usb', tether'} \/ \E p \in Proc : held'[p] = l,
               \A w \in Worker : Live(w) /\ job[w].own = l => Live(w)' /\ job'[w].own = l,
               \A p \in Proc : held[p] = l =>
                   l \in {usb', tether'} \/ held'[p] = l \/ \E w \in Worker : Live(w)' /\ job'[w].own = l
        PROVE  Owner(l)'
    BY <1>1, <1>b DEF Owner
  <1>2. ASSUME NEW p \in Proc, Frees(p) PROVE Owner(l)'
    <2>1. link[l].state = "up" /\ held[p] # l
      BY <1>2, <1>u, <1>e DEF Frees
    <2>2. /\ UNCHANGED <<usb, tether, job>> /\ held' = [held EXCEPT ![p] = NoLink]
          /\ \A w \in Worker : Live(w) => Live(w)'
      BY <1>2, <1>t DEF Frees, Live
    <2> QED
      BY <1>1, <1>t, <2>1, <2>2
  <1>3. ASSUME NEW p \in Proc, Takes(p) PROVE Owner(l)'
    <2>1. link[l].state = "up" /\ l # usb /\ held[p] # l
      BY <1>3, <1>c, <1>e, <1>t DEF Takes
    <2>2. /\ UNCHANGED <<tether, job>> /\ held' = [held EXCEPT ![p] = usb]
          /\ \A w \in Worker : Live(w) => Live(w)'
      BY <1>3, <1>t DEF Takes, Live
    <2> QED
      BY <1>1, <1>t, <2>1, <2>2
  <1>4. ASSUME NEW p \in Proc, PreparePublish(p) PROVE Owner(l)'
    <2>0. /\ UNCHANGED <<tether, job>> /\ pc[p] = "prepare_publish"
          /\ \A w \in Worker : Live(w) => Live(w)'
      BY <1>4, <1>t DEF PreparePublish, Live
    <2>1. CASE CancelRequested(p)
      <3>1. link[l].state = "up" /\ UNCHANGED <<usb, held>>
        BY <1>4, <2>1, <1>c, <1>t DEF PreparePublish
      <3> QED
        BY <1>1, <2>0, <3>1
    <2>2. CASE ~CancelRequested(p)
      <3>1. link[l].state = "up" /\ usb' = held[p] /\ held' = [held EXCEPT ![p] = NoLink]
        BY <1>4, <2>2, <1>u DEF PreparePublish
      <3>2. l # usb
        <4>1. SUFFICES ASSUME l = usb PROVE FALSE
          OBVIOUS
        <4>2. link[l].kind = "usb"
          BY <4>1, <1>t DEF OwnInv
        <4>3. ~TrayUsed
          BY <1>b, <3>1, <4>2 DEF Loose
        <4>4. usb = NoLink
          BY <2>0, <4>3 DEF WindowInv
        <4> QED
          BY <4>1, <4>4, <1>t
      <3> QED
        BY <1>1, <1>t, <2>0, <3>1, <3>2
    <2> QED
      BY <2>1, <2>2
  <1>5. ASSUME NEW p \in Proc, NEW k \in Link, PrepareOpens(p, k) PROVE Owner(l)'
    <2>1. /\ UNCHANGED <<usb, tether, job>> /\ held' = [held EXCEPT ![p] = k] /\ held[p] = NoLink
          /\ \A w \in Worker : Live(w) => Live(w)'
      BY <1>5, <1>t DEF PrepareOpens, Live, HeldInv, Ending
    <2>2. CASE k = l
      BY <2>1, <2>2, <1>t DEF Owner
    <2>3. CASE k # l
      <3>1. link[l].state = "up"
        BY <1>5, <2>3, <1>u, <1>t DEF PrepareOpens
      <3> QED
        BY <1>1, <1>t, <2>1, <3>1
    <2> QED
      BY <2>2, <2>3
  <1>6. ASSUME NEW c \in Caller, Talks(c) \/ StopTake(c) \/ StopCancel(c) PROVE Owner(l)'
    <2>1. link' = link /\ UNCHANGED <<usb, tether, held>> /\ \A w \in Worker : pc'[w] = pc[w]
      BY <1>6, <1>t DEF Talks, StopTake, StopCancel
    <2>2. \A w \in Worker : job'[w].own = job[w].own
      BY <1>6, JobKeepsSocket DEF Talks, StopTake
    <2> QED
      BY <1>1, <1>u, <2>1, <2>2 DEF Live
  <1>7. ASSUME NEW c \in Caller,
               \/ DropTether(c, "disconnect_tether", "manager_take")
               \/ DropTether(c, "pair_drop", "pair_connect")
        PROVE  Owner(l)'
    <2>1. /\ link' = Cancelled(tether) /\ UNCHANGED <<usb, job>> /\ held' = [held EXCEPT ![c] = tether]
          /\ \A w \in Worker : pc'[w] = pc[w]
      BY <1>7, <1>t DEF DropTether
    <2>2. held[c] = NoLink
      BY <1>7 DEF DropTether, HeldInv, Ending
    <2> QED
      BY <1>1, <1>c, <1>t, <2>1, <2>2 DEF Live
  <1>8. ASSUME NEW c \in Caller, StartBegins(c) PROVE Owner(l)'
    <2>1. /\ link' = link /\ UNCHANGED <<usb, job>> /\ \A w \in Worker : pc'[w] = pc[w]
      BY <1>8, <1>t DEF StartBegins, Returns, Continues
    <2>2. held[c] = NoLink
      BY <1>8 DEF StartBegins, HeldInv, Ending
    <2>3. \/ UNCHANGED <<tether, held>>
          \/ held' = [held EXCEPT ![c] = tether]
      BY <1>8 DEF StartBegins
    <2> QED
      BY <1>1, <1>u, <1>t, <2>1, <2>2, <2>3 DEF Live
  <1>9. ASSUME NEW c \in Caller, StartFails(c) PROVE Owner(l)'
    <2>1. /\ link' = Cancelled(held[c]) /\ UNCHANGED <<usb, tether, job, held>>
          /\ \A w \in Worker : pc'[w] = pc[w]
      BY <1>9, <1>t DEF StartFails
    <2> QED
      BY <1>1, <1>c, <1>t, <2>1 DEF Live
  <1>10. ASSUME NEW c \in Caller, NEW k \in Link, PairConnects(c, k) PROVE Owner(l)'
    <2>1. /\ UNCHANGED <<usb, job>> /\ tether' = k /\ held' = [held EXCEPT ![c] = NoLink]
          /\ \A w \in Worker : pc'[w] = pc[w]
          /\ Ended(held[c]) /\ tether = NoLink
      BY <1>10, <1>t DEF PairConnects, Returns, Joined, CallInv
    <2>2. CASE k = l
      BY <2>1, <2>2 DEF Owner
    <2>3. CASE k # l
      <3>1. link[l].state = "up"
        BY <1>10, <2>3, <1>u, <1>t DEF PairConnects
      <3>2. held[c] # l
        BY <2>1, <3>1, <1>e
      <3> QED
        BY <1>1, <1>t, <2>1, <3>1, <3>2 DEF Live
    <2> QED
      BY <2>2, <2>3
  <1>11. ASSUME NEW c \in Caller, NEW v \in Worker, StartSpawns(c, v) PROVE Owner(l)'
    <2>1. /\ link' = link /\ UNCHANGED <<usb, tether>> /\ held' = [held EXCEPT ![c] = NoLink]
          /\ pc[v] = "unused" /\ pc'[v] \in {"loop", "hello"}
          /\ \A w \in Worker : w # v => pc'[w] = pc[w]
      BY <1>11, <1>t DEF StartSpawns
    <2>2. job'[v].own = held[c] /\ \A w \in Worker \ {v} : job'[w] = job[w]
      BY <1>11, JobAtTheEnds
    <2> QED
      BY <1>1, <1>u, <1>t, <2>1, <2>2 DEF Live
  <1>12. ASSUME NEW v \in Worker, Walks(v) \/ DeadlinePasses(v) PROVE Owner(l)'
    <2>1. link' = link /\ UNCHANGED <<usb, tether, held>> /\ \A w \in Worker : Live(w) => Live(w)'
      BY <1>12, <1>t DEF Walks, DeadlinePasses, Live, Writing
    <2>2. \A w \in Worker : job'[w].own = job[w].own
      BY <1>12, JobKeepsSocket
    <2> QED
      BY <1>1, <1>u, <2>1, <2>2
  <1>13. ASSUME NEW v \in Worker, ClosesSocket(v) PROVE Owner(l)'
    <2>1. /\ link' = Cancelled(job[v].own) /\ UNCHANGED <<usb, tether, job>>
          /\ held' = [held EXCEPT ![v] = job[v].own] /\ held[v] = NoLink
          /\ \A w \in Worker : Live(w) => Live(w)'
      BY <1>13, <1>t DEF ClosesSocket, Live, HeldInv, Ending
    <2> QED
      BY <1>1, <1>c, <1>t, <2>1
  <1>14. ASSUME NEW v \in Worker, Closed(v) PROVE Owner(l)'
    <2>1. /\ link' = link /\ UNCHANGED <<usb, tether>> /\ held' = [held EXCEPT ![v] = NoLink]
          /\ pc[v] = "closed" /\ Ended(held[v]) /\ \A w \in Worker : w # v => pc'[w] = pc[w]
      BY <1>14, <1>t DEF Closed, Joined
    <2>2. held[v] # l /\ job[v].own # l
      <3>1. held[v] # l
        BY <1>e, <1>u, <2>1
      <3>2. job[v].kind = "tether" => job[v].own = held[v]
        BY <2>1 DEF OwnInv
      <3>3. job[v].kind # "tether" => job[v].own = NoLink
        BY DEF OwnInv
      <3> QED
        BY <3>1, <3>2, <3>3, <1>t
    <2>3. \A w \in Worker : w # v => job'[w] = job[w]
      BY <1>14, JobAtTheEnds
    <2> QED
      BY <1>1, <1>u, <1>t, <2>1, <2>2, <2>3 DEF Live
  <1>15. ASSUME NEW v \in Worker, LoopbackEnds(v) PROVE Owner(l)'
    <2>1. /\ link' = link /\ UNCHANGED <<usb, tether, held>> /\ pc[v] = "loop"
          /\ \A w \in Worker : w # v => pc'[w] = pc[w]
      BY <1>15, <1>t DEF LoopbackEnds
    <2>2. job[v].own = NoLink
      BY <2>1 DEF OwnInv
    <2>3. \A w \in Worker : w # v => job'[w] = job[w]
      BY <1>15, JobAtTheEnds
    <2> QED
      BY <1>1, <1>u, <1>t, <2>1, <2>2, <2>3 DEF Live
  <1>16. CASE Poll
    BY <1>16, <1>1, <1>u DEF Poll, Live
  <1>17. ASSUME NEW k \in Link, LinkDown(k) \/ \E released \in BOOLEAN : LinkEnds(k, released)
         PROVE  Owner(l)'
    <2>1. UNCHANGED <<usb, tether, held, job, pc>>
      BY <1>17 DEF LinkDown, LinkEnds
    <2>2. link[l].state = "up"
      BY <1>17, <1>u, <1>t DEF LinkDown, LinkEnds, Links
    <2> QED
      BY <1>1, <2>1, <2>2 DEF Live
  <1> QED
    BY NextShapes, <1>2, <1>3, <1>4, <1>5, <1>6, <1>7, <1>8, <1>9, <1>10, <1>11, <1>12, <1>13,
       <1>14, <1>15, <1>16, <1>17

(***************************************************************************)
(* One worker, and one process in the manager, before the tray is used.    *)
(***************************************************************************)
Known(w) ==
    Live(w) => \/ slot = w
               \/ pc["ui"] \in {"stop_cancel", "stop_join"} /\ call["ui"].target = w
Emptied == pc["ui"] \in {"stop_cancel", "stop_join", "stop_publish"} => slot = NoWorker
Shown(w) == Active(w) => phase \in Running /\ isRunning /\ call["ui"].cmd \notin WindowCommands
Vacant(p) == pc[p] \in {"prepare_joined", "prepare_open", "prepare_publish"} => usb = NoLink
Tuned(w) == pc[w] \in Writing => LinkOf(w) \in {job[w].gen, NoLink}

\* The parts of WindowInv by name.
LEMMA WindowParts ==
  ASSUME WindowInv, ~TrayUsed
  PROVE  /\ \A w \in Worker : Known(w) /\ Shown(w) /\ Tuned(w)
         /\ Emptied /\ \A p \in Proc : Vacant(p)
  BY DEF WindowInv, Known, Shown, Tuned, Emptied, Vacant, Writing

\* At most one session worker is alive.
LEMMA OneWorker ==
  ASSUME WindowInv, ~TrayUsed, NEW w \in Worker, NEW v \in Worker, Live(w), Live(v)
  PROVE  w = v
  BY WindowParts, WorkerAssumption DEF Known, Emptied

\* Whoever is in the manager keeps every other worker out of it and off the link.
LEMMA OneInManager ==
  ASSUME TypeOK, CallInv, WindowInv, ~TrayUsed, NEW p \in Proc, NEW q \in Proc,
         pc[p] \in PrepareLabels,
         pc[q] \in PrepareLabels \/ (q \in Worker /\ Active(q))
  PROVE  p = q
  <1>1. ASSUME NEW w \in Worker, pc[w] \in PrepareLabels PROVE Active(w)
    BY <1>1 DEF Active, Live, PrepareLabels
  <1>2. ASSUME NEW c \in Caller, pc[c] \in PrepareLabels
        PROVE  c = "ui" /\ \A w \in Worker : ~Active(w)
    <2>1. c = "ui" /\ call["ui"].cmd \in WindowCommands
      BY <1>2 DEF CallInv
    <2> QED
      BY <2>1, WindowParts DEF Shown
  <1>3. CASE p \in Caller /\ q \in Caller
    <2>1. q \notin Worker
      BY <1>3, WorkerAssumption
    <2> QED
      BY <1>2, <1>3, <2>1
  <1>4. CASE p \in Caller /\ q \in Worker
    BY <1>1, <1>2, <1>4
  <1>5. CASE p \in Worker /\ q \in Caller
    <2>1. q \notin Worker
      BY <1>5, WorkerAssumption
    <2> QED
      BY <1>1, <1>2, <1>5, <2>1
  <1>6. CASE p \in Worker /\ q \in Worker
    BY <1>1, <1>6, OneWorker DEF Active
  <1> QED
    BY <1>3, <1>4, <1>5, <1>6 DEF Proc

\* What a step of a session worker does to the window and to the slot: nothing,
\* but that a failing worker publishes the phase it fails with.
LEMMA WorkerAndWindow ==
  ASSUME TypeOK, HeldInv, NEW v \in Worker, SessionWorker(v) \/ DeadlinePasses(v)
  PROVE  /\ UNCHANGED <<slot, call, isRunning>>
         /\ \A p \in Proc : p # v => pc'[p] = pc[p]
         /\ Live(v)' => Live(v)
         /\ Active(v)' => Active(v) /\ (phase' = phase \/ phase' \in Running)
         /\ phase' = phase \/ Live(v)
  <1> USE DEF Live, Active, Proc
  <1>t. pc \in [Proc -> CallerLabels \cup WorkerLabels] /\ v \in Proc
    BY DEF TypeOK
  <1>1. CASE Walks(v)
    BY <1>1, <1>t DEF Walks, Writing
  <1>2. CASE Prepare(v)
    BY <1>2, <1>t DEF Prepare, PrepareBegins, PrepareJoined, PrepareFails, PrepareOpens, PreparePublish,
       PrepareUndone, ReportsStatus, TakeSession
  <1>3. CASE Close(v) \/ Closed(v) \/ LoopbackEnds(v) \/ DeadlinePasses(v)
    BY <1>3, <1>t DEF Close, Closed, LoopbackEnds, DeadlinePasses, TakeSession
  <1> QED
    BY <1>1, <1>2, <1>3, WorkerWalks DEF SessionWorker

\* Every step of the window keeps its knowledge of the session worker.
LEMMA WindowStep ==
  ASSUME TypeOK, HeldInv, CallInv, WindowInv, ~TrayUsed,
         CallerStep("ui") \/ \E cmd \in Offered("ui") : Issue("ui", cmd),
         NEW w \in Worker
  PROVE  Known(w)' /\ Emptied' /\ Shown(w)'
  <1> USE CallerAssumption, WorkerAssumption DEF Proc
  <1>t. /\ pc \in [Proc -> CallerLabels \cup WorkerLabels] /\ "ui" \in Proc /\ "ui" # w
        /\ call \in [Caller -> Calls] /\ call["ui"] \in Calls
    BY DEF TypeOK
  <1>b. Known(w) /\ Emptied /\ Shown(w)
    BY WindowParts
  <1>a. Active(w) => Live(w)
    BY DEF Active
  <1>d. Done.cmd = "done" /\ "done" \notin WindowCommands
    BY DEF Done, WindowCommands
  <1>s. slot = NoWorker /\ pc["ui"] \notin {"stop_cancel", "stop_join"} => ~Live(w)
    BY <1>b DEF Known
  \* A step that leaves the slot, the workers and what is shown as they are.
  <1>1. ASSUME UNCHANGED <<slot, phase>>, pc' = [pc EXCEPT !["ui"] = pc'["ui"]],
               pc["ui"] \notin {"stop_cancel", "stop_join"},
               pc'["ui"] \notin {"stop_cancel", "stop_join", "stop_publish"},
               Active(w) => isRunning' /\ call'["ui"].cmd \notin WindowCommands
        PROVE  Known(w)' /\ Emptied' /\ Shown(w)'
    <2>1. pc'[w] = pc[w]
      BY <1>1, <1>t
    <2> QED
      BY <1>1, <1>b, <2>1 DEF Known, Emptied, Shown, Active, Live
  <1>r. ASSUME Returns("ui", phase), UNCHANGED <<slot, phase>>, pc["ui"] \notin {"stop_cancel", "stop_join"}
        PROVE  Known(w)' /\ Emptied' /\ Shown(w)'
    <2>1. /\ call'["ui"] = Done /\ isRunning' = (phase \in Running)
          /\ pc' = [pc EXCEPT !["ui"] = pc'["ui"]] /\ pc'["ui"] \in {"idle", "quit_disable"}
      BY <1>r, <1>t DEF Returns
    <2> QED
      BY <1>1, <1>r, <1>b, <1>d, <2>1 DEF Shown
  <1>n. ASSUME ~Live(w), pc'[w] = pc[w], Emptied' PROVE Known(w)' /\ Emptied' /\ Shown(w)'
    BY <1>n DEF Known, Shown, Active, Live
  <1>2. CASE StopTake("ui")
    <2>1. /\ slot' = NoWorker /\ pc["ui"] = "stop_take" /\ UNCHANGED <<phase, isRunning>>
          /\ pc' = [pc EXCEPT !["ui"] = IF slot = NoWorker THEN "stop_publish" ELSE "stop_cancel"]
      BY <1>2 DEF StopTake
    <2>2. call'["ui"].cmd = call["ui"].cmd /\ call'["ui"].target = slot
      BY <1>2, <1>t DEF StopTake, Calls
    <2>3. pc'[w] = pc[w]
      BY <2>1, <1>t
    <2> QED
      BY <1>b, <1>t, <2>1, <2>2, <2>3 DEF Known, Emptied, Shown, Active, Live
  <1>3. CASE StopCancel("ui")
    <2>1. /\ UNCHANGED <<slot, call, phase, isRunning>> /\ pc["ui"] = "stop_cancel"
          /\ pc' = [pc EXCEPT !["ui"] = "stop_join"]
      BY <1>3 DEF StopCancel
    <2> QED
      BY <1>b, <1>t, <2>1 DEF Known, Emptied, Shown, Active, Live
  <1>4. CASE StopJoin("ui")
    <2>1. /\ UNCHANGED <<slot, call, phase, isRunning>> /\ pc["ui"] = "stop_join"
          /\ pc' = [pc EXCEPT !["ui"] = "stop_publish"] /\ pc[call["ui"].target] = "finished"
      BY <1>4 DEF StopJoin
    <2>2. slot = NoWorker
      BY <2>1, <1>b DEF Emptied
    <2>3. ~Live(w)
      BY <2>1, <2>2, <1>b DEF Known, Live
    <2> QED
      BY <1>n, <1>t, <2>1, <2>2, <2>3 DEF Emptied
  <1>5. CASE StopPublish("ui")
    <2>1. pc["ui"] = "stop_publish" /\ slot = NoWorker /\ slot' = slot
      BY <1>5, <1>b DEF StopPublish, Emptied
    <2>2. pc'[w] = pc[w]
      BY <1>5, <1>t DEF StopPublish, AfterStop, Continues, Returns
    <2> QED
      BY <1>n, <1>s, <2>1, <2>2 DEF Emptied
  <1>6. CASE DisconnectReads("ui") \/ QuitDisables("ui") \/ ManagerTake("ui")
             \/ DropTether("ui", "disconnect_tether", "manager_take")
             \/ DropTether("ui", "pair_drop", "pair_connect")
    <2>1. /\ UNCHANGED <<slot, call, phase, isRunning>>
          /\ pc["ui"] \notin {"stop_cancel", "stop_join"}
          /\ pc' = [pc EXCEPT !["ui"] = pc'["ui"]]
          /\ pc'["ui"] \notin {"stop_cancel", "stop_join", "stop_publish"}
      BY <1>6, <1>t DEF DisconnectReads, QuitDisables, ManagerTake, DropTether, TakeSession
    <2> QED
      BY <1>1, <1>b, <2>1 DEF Shown
  <1>7. CASE ManagerDisconnected("ui") \/ PairBegins("ui")
    <2>1. UNCHANGED <<slot, phase>> /\ pc["ui"] \notin {"stop_cancel", "stop_join"}
      BY <1>7 DEF ManagerDisconnected, PairBegins
    <2>2. CASE Returns("ui", phase)
      BY <1>r, <2>1, <2>2
    <2>3. CASE ~Returns("ui", phase)
      <3>1. /\ UNCHANGED <<call, isRunning>> /\ pc' = [pc EXCEPT !["ui"] = pc'["ui"]]
            /\ pc'["ui"] \in {"pair_refused", "pair_drop", "manager_take"}
        BY <1>7, <2>3, <1>t DEF ManagerDisconnected, PairBegins, Continues
      <3> QED
        BY <1>1, <1>b, <2>1, <3>1 DEF Shown
    <2> QED
      BY <2>2, <2>3
  <1>8. CASE PairFails("ui") \/ StartReturns("ui") \/ PrepareReturns("ui")
    BY <1>8, <1>r DEF PairFails, StartReturns, PrepareReturns
  <1>9. ASSUME NEW l \in Link, PairConnects("ui", l) PROVE Known(w)' /\ Emptied' /\ Shown(w)'
    <2>1. ~Active(w)
      <3>1. call["ui"].cmd \in WindowCommands
        BY <1>9 DEF PairConnects, CallInv, PairLabels
      <3> QED
        BY <3>1, <1>b DEF Shown
    <2>2. /\ slot' = slot /\ pc["ui"] = "pair_connect"
          /\ pc' = [pc EXCEPT !["ui"] = pc'["ui"]] /\ pc'["ui"] \in {"idle", "quit_disable"}
      BY <1>9, <1>t DEF PairConnects, Returns
    <2>3. pc'[w] = pc[w]
      BY <2>2, <1>t
    <2> QED
      BY <2>1, <2>2, <2>3, <1>b DEF Known, Emptied, Shown, Active, Live
  <1>10. CASE StartBegins("ui")
    <2>1. CASE StartRefuses
      BY <1>10, <2>1, <1>r DEF StartBegins
    <2>2. CASE ~StartRefuses
      <3>1. /\ slot' = NoWorker /\ pc["ui"] = "start" /\ pc' = [pc EXCEPT !["ui"] = "start_commit"]
        BY <1>10, <2>2 DEF StartBegins, Continues
      <3>2. ~Live(w)
        BY <2>2, <3>1, <1>b DEF Known, StartRefuses
      <3> QED
        BY <1>n, <1>t, <3>1, <3>2 DEF Emptied
    <2> QED
      BY <2>1, <2>2
  <1>11. CASE StartNegotiates("ui") \/ StartFails("ui")
    <2>1. /\ pc["ui"] \in StartLabels /\ UNCHANGED slot
          /\ pc' = [pc EXCEPT !["ui"] = pc'["ui"]] /\ pc'["ui"] \in {"start_loopback", "start_failed"}
      BY <1>11, <1>t DEF StartNegotiates, StartFails, SpawnFails, PairingIsGone, LoopbackRefused, StartLabels
    <2>2. ~Live(w)
      BY <2>1, <1>s DEF CallInv, StartLabels
    <2> QED
      BY <1>n, <1>t, <2>1, <2>2 DEF Emptied
  <1>12. ASSUME NEW v \in Worker, StartSpawns("ui", v) PROVE Known(w)' /\ Emptied' /\ Shown(w)'
    <2>1. pc["ui"] \in {"start_commit", "start_loopback"}
      BY <1>12 DEF StartSpawns
    <2>2. ~Live(w)
      BY <2>1, <1>s DEF CallInv, StartLabels
    <2>3. /\ slot' = v /\ phase' \in Running /\ isRunning' /\ call'["ui"] = Done /\ pc'["ui"] = "idle"
          /\ w # v => pc'[w] = pc[w]
      BY <1>12, <1>t DEF StartSpawns, Running
    <2>4. CASE w = v
      BY <2>3, <2>4, <1>d DEF Known, Emptied, Shown
    <2>5. CASE w # v
      BY <1>n, <2>2, <2>3, <2>5 DEF Emptied
    <2> QED
      BY <2>4, <2>5
  <1>13. CASE Prepare("ui")
    <2>1. /\ UNCHANGED <<slot, call, phase, isRunning>>
          /\ pc["ui"] \in PrepareLabels /\ pc'["ui"] \in PrepareLabels
          /\ pc' = [pc EXCEPT !["ui"] = pc'["ui"]]
      BY <1>13, <1>t DEF Prepare, PrepareBegins, PrepareJoined, PrepareFails, PrepareOpens, PreparePublish,
         PrepareUndone, ReportsStatus, TakeSession, PrepareLabels
    <2> QED
      BY <1>1, <1>b, <2>1 DEF Shown, PrepareLabels
  <1>14. ASSUME NEW cmd \in Offered("ui"), Issue("ui", cmd) PROVE Known(w)' /\ Emptied' /\ Shown(w)'
    <2>1. /\ cmd \in {"disconnect", "stop", "start", "prepare", "pair", "disable"}
          /\ isRunning => cmd \notin WindowCommands
      BY DEF Offered, WindowCommands
    <2>2. /\ UNCHANGED <<slot, phase, isRunning>> /\ pc["ui"] = "idle"
          /\ pc' = [pc EXCEPT !["ui"] = FirstStep(cmd)] /\ call'["ui"].cmd = cmd
      BY <1>14, <1>t DEF Issue
    <2>3. FirstStep(cmd) \notin {"stop_cancel", "stop_join", "stop_publish"}
      BY <2>1 DEF FirstStep
    <2> QED
      BY <1>1, <1>b, <1>t, <2>1, <2>2, <2>3 DEF Shown
  <1> QED
    BY <1>2, <1>3, <1>4, <1>5, <1>6, <1>7, <1>8, <1>9, <1>10, <1>11, <1>12, <1>13, <1>14
       DEF CallerStep, Stop, Disconnect, Pair, Start

\* Before the tray is used, callers' steps are the window's.
LEMMA WindowActs ==
  ASSUME TypeOK, CallInv, Next, ~TrayUsed', NEW c \in Caller,
         CallerStep(c) \/ \E cmd \in Offered(c) : Issue(c, cmd)
  PROVE  c = "ui"
  <1>1. ~TrayUsed
    BY TrayStays
  <1>2. CallerStep(c) => pc[c] # "idle"
    BY DEF CallerStep, Stop, StopTake, StopCancel, StopJoin, StopPublish, Disconnect, DisconnectReads,
       DropTether, ManagerTake, ManagerDisconnected, Pair, PairBegins, PairFails, PairConnects, Start,
       StartBegins, StartNegotiates, StartFails, SpawnFails, PairingIsGone, LoopbackRefused,
       StartReturns, StartSpawns, Prepare, PrepareBegins, PrepareJoined, PrepareFails, PrepareOpens,
       PreparePublish, PrepareUndone, PrepareReturns, QuitDisables
  <1>3. ASSUME NEW cmd \in Offered(c), Issue(c, cmd), c = "tray" PROVE FALSE
    <2>1. cmd \in {"disconnect", "quit"} /\ call'["tray"].cmd = cmd
      BY <1>3 DEF Issue, Offered, TypeOK
    <2> QED
      BY <1>3, <2>1 DEF TrayUsed, NoCall
  <1> QED
    BY <1>1, <1>2, <1>3, TrayIsIdle, CallerAssumption

\* A link is put into the manager by PreparePublish only, and then no other
\* process is in the manager or on the link.
LEMMA ManagerChanges ==
  ASSUME TypeOK, HeldInv, CallInv, WindowInv, ~TrayUsed, Next
  PROVE  \/ usb' = usb \/ usb' = NoLink
         \/ \E p \in Proc :
              /\ pc[p] = "prepare_publish" /\ pc'[p] = "prepared"
              /\ job' = job
              /\ \A q \in Proc : q # p =>
                   pc'[q] = pc[q] /\ pc[q] \notin PrepareLabels /\ (q \in Worker => ~Active(q))
  <1>1. ASSUME NEW p \in Proc, PreparePublish(p), ~CancelRequested(p)
        PROVE  /\ pc[p] = "prepare_publish" /\ pc'[p] = "prepared" /\ job' = job
               /\ \A q \in Proc : q # p =>
                    pc'[q] = pc[q] /\ pc[q] \notin PrepareLabels /\ (q \in Worker => ~Active(q))
    <2>1. /\ pc[p] = "prepare_publish" /\ pc'[p] = "prepared" /\ job' = job
          /\ \A q \in Proc : q # p => pc'[q] = pc[q]
      BY <1>1 DEF PreparePublish, TypeOK
    <2>2. pc[p] \in PrepareLabels
      BY <2>1 DEF PrepareLabels
    <2> QED
      BY <2>1, <2>2, OneInManager
  <1>2. ASSUME NEW p \in Proc,
               Frees(p) \/ Takes(p) \/ PreparePublish(p) \/ \E l \in Link : PrepareOpens(p, l)
        PROVE  usb' = usb \/ usb' = NoLink \/ (PreparePublish(p) /\ ~CancelRequested(p))
    BY <1>2 DEF Frees, Takes, PreparePublish, PrepareOpens
  <1>3. ASSUME NEW c \in Caller,
               \/ Talks(c) \/ StopTake(c) \/ StopCancel(c)
               \/ DropTether(c, "disconnect_tether", "manager_take")
               \/ DropTether(c, "pair_drop", "pair_connect")
               \/ StartBegins(c) \/ StartFails(c)
               \/ \E l \in Link : PairConnects(c, l)
               \/ \E w \in Worker : StartSpawns(c, w)
        PROVE  usb' = usb
    BY <1>3 DEF Talks, StopTake, StopCancel, DropTether, StartBegins, StartFails, PairConnects, StartSpawns
  <1>4. ASSUME NEW w \in Worker,
               Walks(w) \/ ClosesSocket(w) \/ Closed(w) \/ LoopbackEnds(w) \/ DeadlinePasses(w)
        PROVE  usb' = usb
    BY <1>4 DEF Walks, ClosesSocket, Closed, LoopbackEnds, DeadlinePasses
  <1>5. ASSUME Poll \/ \E l \in Link : LinkDown(l) \/ \E released \in BOOLEAN : LinkEnds(l, released)
        PROVE  usb' = usb
    BY <1>5 DEF Poll, LinkDown, LinkEnds
  <1> QED
    BY NextShapes, <1>1, <1>2, <1>3, <1>4, <1>5

\* A process that is about to open or publish a link has emptied the manager.
LEMMA VacantStep ==
  ASSUME TypeOK, HeldInv, CallInv, WindowInv, ~TrayUsed, Next, NEW q \in Proc
  PROVE  Vacant(q)'
  <1> USE WorkerAssumption DEF Proc
  <1>t. pc \in [Proc -> CallerLabels \cup WorkerLabels]
    BY DEF TypeOK
  <1>b. Vacant(q)
    BY WindowParts
  <1>1. ASSUME pc'[q] \in {"prepare_joined", "prepare_open", "prepare_publish"}
        PROVE  \/ pc[q] \in {"prepare_joined", "prepare_open", "prepare_publish"}
               \/ usb' = NoLink
    <2>1. ASSUME NEW p \in Proc,
                 \/ PrepareJoined(p) \/ PrepareFails(p) \/ PrepareUndone(p) \/ PreparePublish(p)
                 \/ \E l \in Link : PrepareOpens(p, l)
          PROVE  \/ pc[q] \in {"prepare_joined", "prepare_open", "prepare_publish"}
                 \/ usb' = NoLink
      BY <1>1, <2>1, <1>t DEF PrepareJoined, PrepareFails, PrepareUndone, PreparePublish, PrepareOpens, ReportsStatus
    <2>2. ASSUME NEW p \in Proc, PrepareBegins(p)
          PROVE  \/ pc[q] \in {"prepare_joined", "prepare_open", "prepare_publish"}
                 \/ usb' = NoLink
      BY <1>1, <2>2, <1>t DEF PrepareBegins, ReportsStatus, TakeSession
    <2>p. ASSUME NEW p \in Proc, Prepare(p)
          PROVE  \/ pc[q] \in {"prepare_joined", "prepare_open", "prepare_publish"}
                 \/ usb' = NoLink
      BY <2>1, <2>2, <2>p DEF Prepare
    <2>3. ASSUME NEW v \in Worker, SessionWorker(v) \/ DeadlinePasses(v), ~Prepare(v)
          PROVE  pc[q] = pc'[q]
      <3>1. Walks(v) \/ Close(v) \/ Closed(v) \/ LoopbackEnds(v) \/ DeadlinePasses(v)
        BY <2>3, WorkerWalks DEF SessionWorker
      <3>2. CASE Walks(v)
        BY <1>1, <3>2, <1>t DEF Walks, Writing
      <3>3. CASE Close(v) \/ Closed(v) \/ LoopbackEnds(v) \/ DeadlinePasses(v)
        BY <1>1, <3>3, <1>t DEF Close, Closed, LoopbackEnds, DeadlinePasses, TakeSession
      <3> QED
        BY <3>1, <3>2, <3>3
    <2>4. ASSUME NEW c \in Caller, Stop(c) \/ Disconnect(c) PROVE pc[q] = pc'[q]
      BY <1>1, <2>4, <1>t DEF Stop, StopTake, StopCancel, StopJoin, StopPublish, AfterStop, Continues, Returns,
         Disconnect, DisconnectReads, DropTether, ManagerTake, TakeSession, ManagerDisconnected
    <2>5. ASSUME NEW c \in Caller, Pair(c) \/ PrepareReturns(c) \/ QuitDisables(c) PROVE pc[q] = pc'[q]
      BY <1>1, <2>5, <1>t DEF Pair, PairBegins, PairFails, PairConnects, DropTether, PrepareReturns, QuitDisables,
         Continues, Returns
    <2>6. ASSUME NEW c \in Caller, Start(c) PROVE pc[q] = pc'[q]
      BY <1>1, <2>6, <1>t DEF Start, StartBegins, StartNegotiates, StartFails, StartReturns, StartSpawns,
         Continues, Returns
    <2>7. ASSUME NEW c \in Caller, NEW cmd \in Offered(c), Issue(c, cmd) PROVE pc[q] = pc'[q]
      BY <1>1, <2>7, <1>t DEF Issue, Offered, FirstStep
    <2>8. ASSUME Poll \/ \E l \in Link : LinkDown(l) \/ \E released \in BOOLEAN : LinkEnds(l, released)
          PROVE  pc[q] = pc'[q]
      BY <2>8 DEF Poll, LinkDown, LinkEnds
    <2> QED
      BY <1>1, <2>p, <2>3, <2>4, <2>5, <2>6, <2>7, <2>8 DEF Next, CallerStep
  <1>2. ASSUME usb' # usb, usb' # NoLink
        PROVE  pc'[q] \notin {"prepare_joined", "prepare_open", "prepare_publish"}
    BY <1>2, ManagerChanges DEF PrepareLabels
  <1> QED
    BY <1>1, <1>2, <1>b DEF Vacant

\* A worker's record changes in a walk of its own, at its start and at its end.
LEMMA JobChanges ==
  ASSUME TypeOK, HeldInv, CallInv, Next, NEW w \in Worker
  PROVE  \/ Walks(w)
         \/ /\ job'[w].kind = job[w].kind /\ job'[w].own = job[w].own /\ job'[w].gen = job[w].gen
            /\ job'[w].crossed = job[w].crossed
            /\ pc'[w] \in Writing => pc[w] \in Writing
         \/ ~job'[w].crossed /\ pc'[w] \notin Writing
  <1> USE WorkerAssumption DEF Proc, Writing
  <1> DEFINE Same == /\ job'[w].kind = job[w].kind /\ job'[w].own = job[w].own /\ job'[w].gen = job[w].gen
                     /\ job'[w].crossed = job[w].crossed
                     /\ pc'[w] \in Writing => pc[w] \in Writing
             Blank == ~job'[w].crossed /\ pc'[w] \notin Writing
  <1>t. /\ pc \in [Proc -> CallerLabels \cup WorkerLabels] /\ w \in Proc
        /\ job \in [Worker -> Jobs] /\ job[w] \in Jobs
    BY DEF TypeOK
  <1>1. ASSUME job' = job, pc'[w] \in Writing => pc[w] \in Writing PROVE Same
    BY <1>1
  <1>2. ASSUME NEW p \in Proc,
               Frees(p) \/ Takes(p) \/ PreparePublish(p) \/ \E l \in Link : PrepareOpens(p, l)
        PROVE  Same
    <2>1. job' = job /\ (pc'[w] \in Writing => pc[w] \in Writing)
      BY <1>2, <1>t DEF Frees, Takes, PreparePublish, PrepareOpens
    <2> QED
      BY <1>1, <2>1
  <1>3. ASSUME NEW c \in Caller,
               \/ Talks(c) \/ StopTake(c)
               \/ DropTether(c, "disconnect_tether", "manager_take")
               \/ DropTether(c, "pair_drop", "pair_connect")
               \/ StartBegins(c) \/ StartFails(c)
               \/ \E l \in Link : PairConnects(c, l)
        PROVE  Same
    <2>1. c # w
      OBVIOUS
    <2>2. job' = job /\ pc'[w] = pc[w]
      BY <1>3, <1>t, <2>1 DEF Talks, StopTake, DropTether, StartBegins, StartFails, PairConnects, Returns, Continues
    <2> QED
      BY <1>1, <2>2
  <1>4. ASSUME NEW c \in Caller, StopCancel(c) PROVE Same
    <2>1. call[c].target \in Worker /\ pc'[w] = pc[w]
      BY <1>4, <1>t DEF StopCancel, CallInv
    <2> QED
      BY <1>4, <1>t, <2>1 DEF StopCancel, Jobs
  <1>5. ASSUME NEW c \in Caller, NEW v \in Worker, StartSpawns(c, v) PROVE Same \/ Blank
    <2>1. CASE v = w
      <3>1. job'[w].crossed = FALSE /\ pc'[w] \in {"loop", "hello"}
        BY <1>5, <2>1, <1>t DEF StartSpawns, NoJob
      <3> QED
        BY <3>1
    <2>2. CASE v # w
      <3>1. job'[w] = job[w] /\ pc'[w] = pc[w]
        BY <1>5, <2>2, <1>t DEF StartSpawns
      <3> QED
        BY <3>1
    <2> QED
      BY <2>1, <2>2
  <1>6. ASSUME NEW v \in Worker, Walks(v), v # w PROVE Same
    BY <1>6, <1>t DEF Walks
  <1>7. ASSUME NEW v \in Worker, ClosesSocket(v) PROVE Same
    <2>1. job' = job /\ (pc'[w] \in Writing => pc[w] \in Writing)
      BY <1>7, <1>t DEF ClosesSocket
    <2> QED
      BY <1>1, <2>1
  <1>8. ASSUME NEW v \in Worker, Closed(v) \/ LoopbackEnds(v) PROVE Same \/ Blank
    <2>1. CASE v = w
      <3>1. job'[w].crossed = FALSE /\ pc'[w] = "finished"
        BY <1>8, <2>1, <1>t DEF Closed, LoopbackEnds, NoJob
      <3> QED
        BY <3>1
    <2>2. CASE v # w
      <3>1. job'[w] = job[w] /\ pc'[w] = pc[w]
        BY <1>8, <2>2, <1>t DEF Closed, LoopbackEnds
      <3> QED
        BY <3>1
    <2> QED
      BY <2>1, <2>2
  <1>9. ASSUME NEW v \in Worker, DeadlinePasses(v) PROVE Same
    BY <1>9, <1>t DEF DeadlinePasses, Jobs
  <1>10. ASSUME Poll \/ \E l \in Link : LinkDown(l) \/ \E released \in BOOLEAN : LinkEnds(l, released)
         PROVE  Same
    BY <1>10 DEF Poll, LinkDown, LinkEnds
  <1> HIDE DEF Same, Blank
  <1>11. Walks(w) \/ Same \/ Blank
    BY NextShapes, <1>2, <1>3, <1>4, <1>5, <1>6, <1>7, <1>8, <1>9, <1>10
  <1> QED
    BY <1>11 DEF Same, Blank

\* The link a worker writes to is the one it sent its Hello on.
LEMMA TunedStep ==
  ASSUME TypeOK, HeldInv, CallInv, WindowInv, ~TrayUsed, Next, NEW w \in Worker
  PROVE  Tuned(w)'
  <1>b. Tuned(w)
    BY WindowParts
  <1>p. w \in Proc
    BY DEF Proc
  <1>1. CASE Walks(w)
    <2>1. LinkOf(w)' = LinkOf(w)
      BY <1>1 DEF Walks, LinkOf
    <2> QED
      BY <1>1, <1>b, <2>1 DEF Tuned, Walks
  <1>2. ASSUME job'[w].kind = job[w].kind, job'[w].own = job[w].own, job'[w].gen = job[w].gen,
               pc'[w] \in Writing => pc[w] \in Writing
        PROVE  Tuned(w)'
    <2>1. CASE usb' = usb \/ usb' = NoLink
      BY <1>2, <1>b, <2>1 DEF Tuned, LinkOf
    <2>2. ASSUME usb' # usb, usb' # NoLink PROVE pc'[w] \notin Writing
      <3>1. PICK p \in Proc :
              /\ pc[p] = "prepare_publish" /\ pc'[p] = "prepared"
              /\ \A q \in Proc : q # p => pc'[q] = pc[q] /\ (q \in Worker => ~Active(q))
        BY <2>2, ManagerChanges
      <3>2. pc[w] \in Writing => Active(w)
        BY DEF Writing, Active, Live
      <3> QED
        BY <1>2, <1>p, <3>1, <3>2 DEF Writing
    <2> QED
      BY <2>1, <2>2 DEF Tuned
  <1>3. CASE pc'[w] \notin Writing
    BY <1>3 DEF Tuned
  <1> QED
    BY <1>1, <1>2, <1>3, JobChanges

\* Every step keeps the window's knowledge, as long as the tray is not used.
LEMMA WindowInvStep ==
  ASSUME TypeOK, HeldInv, CallInv, WindowInv, Next
  PROVE  WindowInv'
  <1> SUFFICES ASSUME ~TrayUsed' PROVE WindowInv'
    BY DEF WindowInv
  <1>1. ~TrayUsed
    BY TrayStays
  <1>2. \A p \in Proc : Vacant(p)'
    BY <1>1, VacantStep
  <1>3. \A w \in Worker : Tuned(w)'
    BY <1>1, TunedStep
  <1>4. (\A w \in Worker : Known(w)' /\ Shown(w)') /\ Emptied'
    <2>b. Emptied /\ \A w \in Worker : Known(w) /\ Shown(w)
      BY <1>1, WindowParts
    <2>u. "ui" \in Proc /\ "ui" \notin Worker
      BY CallerAssumption, WorkerAssumption DEF Proc
    <2>1. ASSUME NEW c \in Caller, CallerStep(c) \/ \E cmd \in Offered(c) : Issue(c, cmd)
          PROVE  (\A w \in Worker : Known(w)' /\ Shown(w)') /\ (Worker # {} => Emptied')
      <3>1. c = "ui"
        BY <2>1, WindowActs
      <3> QED
        BY <1>1, <2>1, <3>1, WindowStep
    <2>2. ASSUME NEW v \in Worker, SessionWorker(v) \/ DeadlinePasses(v)
          PROVE  (\A w \in Worker : Known(w)' /\ Shown(w)') /\ Emptied'
      <3>1. /\ UNCHANGED <<slot, call, isRunning>>
            /\ \A p \in Proc : p # v => pc'[p] = pc[p]
            /\ Live(v)' => Live(v)
            /\ Active(v)' => Active(v) /\ (phase' = phase \/ phase' \in Running)
            /\ phase' = phase \/ Live(v)
        BY <2>2, WorkerAndWindow
      <3>2. Emptied'
        BY <2>b, <2>u, <3>1 DEF Emptied
      <3>3. ASSUME NEW w \in Worker PROVE Known(w)' /\ Shown(w)'
        <4>1. CASE w = v
          BY <2>b, <2>u, <3>1, <4>1 DEF Known, Shown
        <4>2. CASE w # v
          <5>1. pc'[w] = pc[w] /\ pc'["ui"] = pc["ui"]
            BY <2>u, <3>1, <4>2 DEF Proc
          <5>2. Active(w)' => phase' = phase
            <6>1. Active(w)' => Live(w)
              BY <5>1 DEF Active, Live
            <6> QED
              BY <1>1, <3>1, <4>2, <6>1, OneWorker
          <5> QED
            BY <2>b, <3>1, <5>1, <5>2 DEF Known, Shown, Active, Live
        <4> QED
          BY <4>1, <4>2
      <3> QED
        BY <3>2, <3>3
    <2>3. CASE Poll
      BY <2>3, <2>b DEF Poll, Known, Shown, Emptied, Active, Live
    <2>4. CASE \E l \in Link : LinkDown(l) \/ \E released \in BOOLEAN : LinkEnds(l, released)
      BY <2>4, <2>b DEF LinkDown, LinkEnds, Known, Shown, Emptied, Active, Live
    <2>5. Worker = {} => Emptied'
      <3>1. Worker = {} => slot' = NoWorker
        BY TypeStep DEF TypeOK
      <3> QED
        BY <3>1 DEF Emptied
    <2> QED
      BY <2>1, <2>2, <2>3, <2>4, <2>5 DEF Next
  <1> QED
    BY <1>2, <1>3, <1>4 DEF WindowInv, Known, Shown, Tuned, Emptied, Vacant, Writing

\* Every step keeps workers on the link they negotiated on.
LEMMA FreshStep ==
  ASSUME TypeOK, HeldInv, CallInv, WindowInv, FreshGeneration, Next
  PROVE  FreshGeneration'
  <1> SUFFICES ASSUME ~TrayUsed', NEW w \in Worker PROVE ~job'[w].crossed
    BY DEF FreshGeneration
  <1>1. ~TrayUsed
    BY TrayStays
  <1>2. ~job[w].crossed /\ Tuned(w)
    BY <1>1, WindowParts DEF FreshGeneration
  <1>3. Walks(w) => ~job'[w].crossed
    BY <1>2 DEF Walks, Tuned
  <1> QED
    BY <1>2, <1>3, JobChanges

(***************************************************************************)
(* The results.                                                            *)
(***************************************************************************)
\* The invariant holds initially.
LEMMA HostInit == Init => HostInv
  <1> SUFFICES ASSUME Init PROVE HostInv
    OBVIOUS
  <1> USE CallerAssumption, WorkerAssumption DEF Init, Proc
  <1>l. NoLink \notin Link
    BY LinksAssumption DEF Link, NoLink
  <1>w. \A w \in Worker : pc[w] = "unused" /\ w \notin Caller
    OBVIOUS
  <1>c. \A c \in Caller : pc[c] = "idle" /\ call[c] = NoCall
    OBVIOUS
  <1>p. \A p \in Proc : pc[p] \in {"idle", "unused"} /\ held[p] = NoLink
    OBVIOUS
  <1>j. NoJob \in Jobs /\ NoCall \in Calls /\ NoJob.own = NoLink /\ NoJob.crossed = FALSE
        /\ NoCall.cmd = "none"
    BY DEF NoJob, Jobs, Kinds, NoCall, Calls, TrayCommands
  <1>1. TypeOK
    BY <1>w, <1>c, <1>j DEF TypeOK, Links, CallerLabels, WorkerLabels
  <1>2. CallInv
    BY <1>c, <1>j DEF CallInv, StartLabels, PairLabels, PrepareLabels, TrayCommands
  <1>3. HeldInv
    BY <1>p DEF HeldInv, InUse, Ending
  <1>4. OwnInv
    BY <1>w, <1>j DEF OwnInv, InUse
  <1>5. WindowInv
    BY <1>w, <1>c, <1>p DEF WindowInv, Active, Live
  <1>6. NoOrphanWorker
    BY <1>w DEF NoOrphanWorker, Live
  <1>7. EveryLinkHasOwner
    BY <1>l DEF EveryLinkHasOwner, Connected
  <1>8. FreshGeneration
    BY <1>j DEF FreshGeneration
  <1> QED
    BY <1>1, <1>2, <1>3, <1>4, <1>5, <1>6, <1>7, <1>8 DEF HostInv

\* Every step keeps the invariant.
LEMMA HostNext == HostInv /\ [Next]_vars => HostInv'
  <1> SUFFICES ASSUME HostInv, [Next]_vars PROVE HostInv'
    OBVIOUS
  <1>1. CASE Next
    BY <1>1, TypeStep, CallStep, HeldStep, OwnStep, WindowInvStep, OrphanStep, OwnerStep, FreshStep DEF HostInv
  <1>2. CASE UNCHANGED vars
    <2>1. UNCHANGED <<phase, slot, tether, usb, link, job, isRunning, call, pc, held>>
      BY <1>2 DEF vars
    <2>2. TypeOK' /\ CallInv'
      BY <2>1 DEF HostInv, TypeOK, CallInv
    <2>3. HeldInv' /\ OwnInv'
      BY <2>1 DEF HostInv, HeldInv, OwnInv, InUse
    <2>4. WindowInv'
      BY <2>1 DEF HostInv, WindowInv, TrayUsed, Active, Live, LinkOf
    <2>5. NoOrphanWorker' /\ EveryLinkHasOwner' /\ FreshGeneration'
      BY <2>1 DEF HostInv, NoOrphanWorker, EveryLinkHasOwner, FreshGeneration, Live, Connected, TrayUsed
    <2> QED
      BY <2>2, <2>3, <2>4, <2>5 DEF HostInv
  <1> QED
    BY <1>1, <1>2

\* The inductive invariant of the host, its type correctness included: what
\* every caller, worker and link is at (runtime.rs, usb_accessory.rs).
THEOREM HostInvariant == Spec => []HostInv
  BY HostInit, HostNext, PTL DEF Spec

\* No interleaving of start, stop and disconnect of window and tray loses the
\* only handle of a running session worker (start, stop in runtime.rs).
THEOREM WorkersCanBeStopped == Spec => []NoOrphanWorker
  <1>1. HostInv => NoOrphanWorker
    BY DEF HostInv
  <1> QED
    BY <1>1, HostInvariant, PTL

\* No socket, and until the tray is used no claimed interface, is forgotten by
\* prepare_with_cancel, pairing, start, stop or the end of a worker.
THEOREM LinksAreOwned == Spec => []EveryLinkHasOwner
  <1>1. HostInv => EveryLinkHasOwner
    BY DEF HostInv
  <1> QED
    BY <1>1, HostInvariant, PTL

\* Until the tray is used, a session worker writes only to the link it sent its
\* Hello on (run_android_control_session_inner).
THEOREM GenerationsAreFresh == Spec => []FreshGeneration
  <1>1. HostInv => FreshGeneration
    BY DEF HostInv
  <1> QED
    BY <1>1, HostInvariant, PTL
=============================================================================
