-------------------------- MODULE VirtualDisplay --------------------------
(***************************************************************************)
(* The desktop host's client of the display service                        *)
(* (apps/desktop/src-tauri/src/platform/windows/virtual_display.rs) and    *)
(* the alignment of the virtual monitor's mode with a negotiated stream    *)
(* (prepare_capture_display_mode in platform/windows.rs), composed with    *)
(* the service and the controllers.                                        *)
(*                                                                         *)
(* Poller asks for the status, as the window's snapshots do: on a timer    *)
(* while a session runs, once after a command otherwise.  The other        *)
(* callers enable or disable, from a command of the window or from Quit.   *)
(* They share nothing but the status cache, whose lock is not held while a *)
(* controller runs.                                                        *)
(***************************************************************************)
EXTENDS DisplayService

CONSTANTS
    Poller,         \* the caller of status()
    MaxActions,     \* bound: enable, disable and prepare_capture_display_mode calls
    Sizes,          \* negotiated stream sizes
    Desktop,        \* the physical monitor's mode before any session
    Advertised      \* sizes the virtual monitor offers at 60 Hz

ASSUME HostAssumption ==
    /\ Poller \in Callers
    /\ MaxActions \in Nat
    /\ Advertised # {}
    /\ Desktop \in Sizes \cup {"other"}

NoCache == [st |-> "none", fresh |-> FALSE]
Idle == [op |-> "none", pc |-> "idle", st |-> "none", alone |-> FALSE]
Alignment(target, size, pc) == [target |-> target, size |-> size, pc |-> pc, name |-> "found"]
NoAlign == Alignment("none", "none", "idle")

VARIABLES
    bundled,    \* the controller executable is installed
    cache,      \* CachedStatus: the state, and whether it is younger than a second
    call,       \* call[c]: the operation of caller c, and the status it has so far;
                \* `alone` is history: no enable was under way since this disable began
    actions,    \* calls so far
    settled,    \* history: a disable passed alone and no enable has been called since
    mode,       \* mode[d]: current mode of a monitor, a size at 60 Hz or "other"
    align       \* prepare_capture_display_mode of the session worker.  `name` says who
                \* has the device name of the target by now: "found" is still the target,
                \* else names were given out anew and it is that monitor or nobody

hostVars == <<bundled, cache, call, actions, settled>>
modeVars == <<mode, align>>
vars == <<svcVars, hostVars, modeVars>>

Init ==
    /\ ServiceInit
    /\ bundled \in BOOLEAN
    /\ cache = NoCache
    /\ call = [c \in Callers |-> Idle]
    /\ actions = 0
    /\ settled = FALSE
    /\ mode = [physical |-> Desktop, virtual |-> "other"]
    /\ align = NoAlign

----------------------------------------------------------------------------
(***************************************************************************)
(* status_from_report: what the reported service and device state mean to  *)
(* the host.  Only "enabled" sets the enabled flag.                        *)
(***************************************************************************)
StatusFromReport(r) ==
    IF r.seen = "absent" THEN "NotInstalled"
    ELSE IF r.seen # "running" \/ r.state = "unavailable" THEN "ServiceStopped"
    ELSE r.state

Store(st) == cache' = [st |-> st, fresh |-> TRUE]
Return(c) == call' = [call EXCEPT ![c] = Idle]
ReturnWith(c, st) == Return(c) /\ Store(st)

\* find_controller: no candidate path holds the executable, and
\* client_missing_status is what every call answers.
FindController == bundled
ClientMissing == "ClientMissing"

\* Mutant: a cached status never expires.
CacheHitForever == cache # NoCache
CacheHit == cache.fresh

(***************************************************************************)
(* status(): the cached value while it is fresh, else a controller is run. *)
(***************************************************************************)
AskStatus ==
    /\ call[Poller] = Idle
    /\ ~CacheHit
    /\ IF FindController
         THEN /\ call' = [call EXCEPT ![Poller] = [Idle EXCEPT !.op = "Status", !.pc = "run"]]
              /\ child' = [child EXCEPT ![Poller] = Spawned("Status")]
              /\ UNCHANGED cache
         ELSE Store(ClientMissing) /\ UNCHANGED <<call, child>>
    /\ UNCHANGED <<serviceVars, monitor, faults, stops, bundled, actions, settled, modeVars>>

(***************************************************************************)
(* enable() and disable() up to the point where the controller runs.       *)
(***************************************************************************)
Started(c, op) ==
    [d \in Callers |->
        IF d = c THEN [op |-> op, pc |-> "run", st |-> "none",
                       alone |-> op = "Disable" /\ \A e \in Callers : call[e].op # "Enable"]
        ELSE [call[d] EXCEPT !.alone = @ /\ op # "Enable"]]

Begin(c, op) ==
    /\ c # Poller
    /\ call[c] = Idle
    /\ actions < MaxActions
    /\ actions' = actions + 1
    /\ settled' = (settled /\ op # "Enable")
    /\ IF FindController
         THEN /\ call' = Started(c, op)
              /\ child' = [child EXCEPT ![c] = Spawned(op)]
              /\ UNCHANGED cache
         ELSE Store(ClientMissing) /\ UNCHANGED <<call, child>>
    /\ UNCHANGED <<serviceVars, monitor, faults, stops, bundled, modeVars>>

\* Mutant: a controller that exits without a launch error counts as success.
CollectIgnoresResult(c) ==
    /\ call[c].pc = "run"
    /\ child[c].pc = "exited"
    /\ LET st == StatusFromReport(child[c].report)
       IN  IF call[c].op # "Status" /\ (call[c].op = "Enable" => st = "enabled")
             THEN /\ call' = [call EXCEPT ![c] = [@ EXCEPT !.pc = "watch", !.st = st]]
                  /\ UNCHANGED cache
             ELSE ReturnWith(c, st)
    /\ child' = [child EXCEPT ![c] = NoChild]
    /\ UNCHANGED <<serviceVars, monitor, faults, stops, bundled, actions, settled, modeVars>>

(***************************************************************************)
(* run_controller sees its child exit: the report is parsed, validated and *)
(* turned into a status.  A status call stores it; an enable or disable    *)
(* goes on to watch the monitors if the command succeeded.                 *)
(***************************************************************************)
Collect(c) ==
    /\ call[c].pc = "run"
    /\ child[c].pc = "exited"
    /\ LET r  == child[c].report
           st == StatusFromReport(r)
           succeeded == r.exit /\ r.ok /\ (call[c].op = "Enable" => st = "enabled")
       IN  IF call[c].op # "Status" /\ succeeded
             THEN /\ call' = [call EXCEPT ![c] = [@ EXCEPT !.pc = "watch", !.st = st]]
                  /\ UNCHANGED cache
             ELSE ReturnWith(c, st)
    /\ child' = [child EXCEPT ![c] = NoChild]
    /\ UNCHANGED <<serviceVars, monitor, faults, stops, bundled, actions, settled, modeVars>>

(***************************************************************************)
(* The deadline of run_controller finds the child running only if it hangs *)
(* or, for the 5 seconds of a status call, if it still waits for the pipe: *)
(* the other deadlines leave room for all waits of controller and service. *)
(***************************************************************************)
Overdue(c) ==
    \/ child[c].pc = "hung"
    \/ child[c].cmd = "Status" /\ child[c].pc = "connect" /\ ~PipeFree

\* run_controller returns Err: status stores failed_status, enable and disable
\* return the error and leave the cache alone.
RunFails(c) ==
    /\ child' = [child EXCEPT ![c] = NoChild]
    /\ IF call[c].op = "Status" THEN ReturnWith(c, "failed") ELSE Return(c) /\ UNCHANGED cache
    /\ UNCHANGED <<bundled, actions, settled, modeVars>>

(***************************************************************************)
(* run_controller gives up at the deadline.  The child is killed, its end  *)
(* of the pipe closes, and what it has written stays in the pipe.          *)
(***************************************************************************)
GiveUp(c) ==
    /\ call[c].pc = "run"
    /\ Overdue(c)
    /\ RunFails(c)
    /\ pipe' = IF pipe.client = c THEN [pipe EXCEPT !.client = NoOne] ELSE pipe
    /\ UNCHANGED <<scm, pid, srv, stopEvent, device, state, monitor, faults, stops>>

\* The controller could not be launched.
LaunchFails(c) ==
    /\ call[c].pc = "run" /\ child[c].pc = "query"
    /\ Fault
    /\ RunFails(c)
    /\ UNCHANGED <<serviceVars, monitor, stops>>

\* The controller ended without JSON, or validate_report refuses it.
ReportRefused(c) ==
    /\ call[c].pc = "run" /\ child[c].pc = "exited"
    /\ Fault
    /\ RunFails(c)
    /\ UNCHANGED <<serviceVars, monitor, stops>>

(***************************************************************************)
(* The monitor loops of enable and disable, each under its deadline.  A    *)
(* disable that passes settles the matter if no enable was under way.      *)
(***************************************************************************)
EnableSeen(c) ==
    /\ call[c].op = "Enable" /\ call[c].pc = "watch"
    /\ monitor
    /\ ReturnWith(c, call[c].st)
    /\ UNCHANGED <<svcVars, bundled, actions, settled, modeVars>>

DisableSeen(c) ==
    /\ call[c].op = "Disable" /\ call[c].pc = "watch"
    /\ ~monitor
    /\ ReturnWith(c, call[c].st)
    /\ settled' = (settled \/ call[c].alone)
    /\ UNCHANGED <<svcVars, bundled, actions, modeVars>>

\* Mutant: the deadline is only looked at when the enumeration fails.
WatchEndsOnError(c) ==
    /\ call[c].pc = "watch"
    /\ monitor # (call[c].op = "Enable")
    /\ Fault
    /\ ReturnWith(c, call[c].st)
    /\ UNCHANGED <<serviceVars, monitor, child, stops, bundled, actions, settled, modeVars>>

WatchEnds(c) ==
    /\ call[c].pc = "watch"
    /\ monitor # (call[c].op = "Enable")
    /\ ReturnWith(c, call[c].st)
    /\ UNCHANGED <<svcVars, bundled, actions, settled, modeVars>>

Host(c) == Collect(c) \/ GiveUp(c) \/ EnableSeen(c) \/ DisableSeen(c) \/ WatchEnds(c)

\* STATUS_CACHE_TTL passes.
Expire ==
    /\ cache.fresh
    /\ cache' = [cache EXCEPT !.fresh = FALSE]
    /\ UNCHANGED <<svcVars, bundled, call, actions, settled, modeVars>>

----------------------------------------------------------------------------
(***************************************************************************)
(* alignment_target: without an explicit choice, and for a monitor that is *)
(* not ours, there is nothing to align.                                    *)
(***************************************************************************)
Aligns(display) == display = "virtual"

\* enumerate_monitors, whose query_monitor_identity tells which is ours.
Monitors == {"physical"} \cup (IF monitor THEN {"virtual"} ELSE {})

\* select_monitor: without a choice the primary monitor is taken.
Present(display) == display \in Monitors \cup {"none"}

\* query_current_display_mode, enumerate_display_modes (a physical monitor may
\* offer any size) and select_exact_display_mode.
CurrentMode(display) == mode[display]
DisplayModes(display) == IF display = "virtual" THEN Advertised ELSE Sizes
ExactMode(display, size) == size \in DisplayModes(display)

(***************************************************************************)
(* prepare_capture_display_mode finds the monitor by its id; one that has  *)
(* gone is an error, one that is not ours is left alone.  From here to the *)
(* change the monitor is addressed by its device name.  `align` keeps an   *)
(* alignment that was reported; an error leaves nothing.                   *)
(***************************************************************************)
PrepareDisplay(display, size) ==
    /\ align.pc \in {"idle", "ok"}
    /\ actions < MaxActions
    /\ actions' = actions + 1
    /\ align' = IF Aligns(display) /\ Present(display) THEN Alignment(display, size, "query")
                ELSE NoAlign
    /\ UNCHANGED <<svcVars, bundled, cache, call, settled, mode>>

\* The monitor the Win32 calls reach under the device name, if any.
Holder == IF align.name = "found" THEN align.target ELSE align.name

Aligning == align.pc \in {"query", "select", "apply", "wait"}
AlignGoesOn(pc) == align' = [align EXCEPT !.pc = pc]
AlignPasses == align' = Alignment(align.target, align.size, "ok")

\* query_current_display_mode: the right mode needs no change.
QueryMode ==
    /\ align.pc = "query"
    /\ IF Holder = "none" THEN align' = NoAlign
       ELSE IF CurrentMode(Holder) = align.size THEN AlignPasses
       ELSE AlignGoesOn("select")
    /\ UNCHANGED <<svcVars, hostVars, mode>>

\* enumerate_display_modes: a size that is not offered at 60 Hz is an error.
SelectMode ==
    /\ align.pc = "select"
    /\ IF Holder # "none" /\ ExactMode(Holder, align.size) THEN AlignGoesOn("apply")
       ELSE align' = NoAlign
    /\ UNCHANGED <<svcVars, hostVars, mode>>

\* ensure_display_change_success: CDS_TEST refuses a name nobody has and a mode
\* its monitor does not offer.
ChangeSucceeds(display, size) == display # "none" /\ ExactMode(display, size)

(***************************************************************************)
(* apply_display_mode: the mode of whichever monitor has the name by now   *)
(* is tested and changed.  Windows may refuse either.                      *)
(***************************************************************************)
ApplyMode ==
    /\ align.pc = "apply"
    /\ \/ /\ ChangeSucceeds(Holder, align.size)
          /\ mode' = [mode EXCEPT ![Holder] = align.size]
          /\ AlignGoesOn("wait")
       \/ align' = NoAlign /\ UNCHANGED mode
    /\ UNCHANGED <<svcVars, hostVars>>

\* Mutant: the wait goes on with the device name instead of the monitor's id.
ReachedByName == Holder # "none" /\ CurrentMode(Holder) = align.size
Reached == Present(align.target) /\ CurrentMode(align.target) = align.size

(***************************************************************************)
(* wait_for_display_mode looks the monitor up again by its id until its    *)
(* geometry and mode are the requested ones or 5 seconds have passed.      *)
(***************************************************************************)
WaitForMode ==
    /\ align.pc = "wait"
    /\ IF Reached THEN AlignPasses ELSE align' = NoAlign
    /\ UNCHANGED <<svcVars, hostVars, mode>>

Align == QueryMode \/ SelectMode \/ ApplyMode \/ WaitForMode

(***************************************************************************)
(* Windows gives device names out anew when the set of monitors changes:   *)
(* the name an alignment holds on to may end up with any monitor.          *)
(***************************************************************************)
Renamed(monitors) ==
    \E holder \in monitors \cup {"none"} :
        align' = IF Aligning THEN [align EXCEPT !.name = holder] ELSE align

\* A monitor that comes up or goes down loses the session's mode.
Replug ==
    /\ Plug
    /\ mode' = [mode EXCEPT !["virtual"] = "other"]
    /\ Renamed({"physical"} \cup (IF device THEN {"virtual"} ELSE {}))
    /\ UNCHANGED hostVars

\* Some other monitor comes or goes.
OtherReplug ==
    /\ Aligning
    /\ Renamed(Monitors)
    /\ UNCHANGED <<svcVars, hostVars, mode>>

----------------------------------------------------------------------------
Displays == {"none", "physical", "virtual"}

Next ==
    \/ AskStatus \/ Expire
    \/ \E c \in Callers :
         \/ Host(c) \/ LaunchFails(c) \/ ReportRefused(c)
         \/ \E op \in {"Enable", "Disable"} : Begin(c, op)
         \/ (Controller(c) \/ ControllerFails(c) \/ ControllerHangs(c)) /\ UNCHANGED <<hostVars, modeVars>>
    \/ (Service \/ StopControl) /\ UNCHANGED <<hostVars, modeVars>>
    \/ Replug \/ OtherReplug
    \/ \E d \in Displays, s \in Sizes : PrepareDisplay(d, s)
    \/ Align

Spec == Init /\ [][Next]_vars

(***************************************************************************)
(* Host threads, controllers and the service are scheduled and time        *)
(* passes: each of their waits has a deadline.  Nothing is assumed of the  *)
(* user, of the window's timer, of SCM stops and of Windows plugging.      *)
(***************************************************************************)
LiveSpec ==
    /\ Spec
    /\ \A c \in Callers : WF_vars(Host(c))
    /\ \A c \in Callers : WF_vars(Controller(c) /\ UNCHANGED <<hostVars, modeVars>>)
    /\ WF_vars(Service /\ UNCHANGED <<hostVars, modeVars>>)
    /\ WF_vars(Expire)

----------------------------------------------------------------------------
(***************************************************************************)
(* A disable that passed, with no enable called while it ran, stays in     *)
(* force until somebody enables again.  The enable of a controller that    *)
(* was killed on its deadline may still be in the service by then; the     *)
(* single pipe instance puts the disable behind it.                        *)
(***************************************************************************)
DisabledStaysDisabled == settled => ~device

(***************************************************************************)
(* A physical monitor changes its mode only if device names were given out *)
(* anew between the look-up of prepare_capture_display_mode and its change *)
(* - the gap in which the code cannot keep its promise.  And whatever a    *)
(* change has hit, it is reported as an alignment only while the virtual   *)
(* monitor is there with the negotiated mode; only the early return, which *)
(* asks by name, may be wrong, and again only if names moved.              *)
(***************************************************************************)
AlignsOnlyItsOwn ==
    [][/\ mode'["physical"] # mode["physical"] => align.name # "found"
       /\ align'.pc = "ok" /\ align' # align =>
            \/ monitor /\ mode["virtual"] = align'.size
            \/ align.pc = "query" /\ align.name # "found"]_vars

(***************************************************************************)
(* enable() and disable() return, even if the controller hangs or the      *)
(* monitor never comes up or goes away.                                    *)
(***************************************************************************)
CallsReturn == \A c \in Callers \ {Poller} : call[c].pc # "idle" ~> call[c].pc = "idle"

(***************************************************************************)
(* What the window shows catches up with the service as long as its timer  *)
(* runs, which it does during a session: a measurement that was overtaken  *)
(* by an enable, a disable or a stop of the service may be stored after    *)
(* it, but not for good.  An idle window asks only after its own commands. *)
(***************************************************************************)
Truth ==
    IF ~bundled THEN "ClientMissing" ELSE IF scm = "absent" THEN "NotInstalled"
    ELSE IF scm # "running" THEN "ServiceStopped" ELSE state
WindowPolls == WF_vars(AskStatus)
StatusCatchesUp == WindowPolls => <>[](cache.st = Truth)
=============================================================================
