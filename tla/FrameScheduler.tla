--------------------------- MODULE FrameScheduler ---------------------------
(***************************************************************************)
(* LatestFrameScheduler and its FramePacer                                 *)
(* (crates/ladoflow-media/src/scheduler.rs) over the rational timeline of  *)
(* FrameRate (metadata.rs): a one-frame queue whose occupant is offered to *)
(* every pacing slot that falls due.                                       *)
(*                                                                         *)
(* Time is counted in the resolution of Duration, of which there are       *)
(* UnitsPerSecond in a second.  The scheduler never sleeps: the caller     *)
(* passes the readings of a monotonic clock.  Totals of durations are left *)
(* out of the metrics.                                                     *)
(***************************************************************************)
EXTENDS Integers

CONSTANTS
    UnitsPerSecond,     \* NANOS_PER_SECOND
    MaxTime,            \* stands for Duration::MAX
    MaxTick,            \* stands for u64::MAX, the last slot index
    FrameRate,          \* frame rates, as [num, den]
    Origin,             \* values of stream_origin
    MaxAge,             \* values of max_frame_age
    PresentationTime,   \* stream times of the frames submitted
    Sequence,           \* sequence numbers of the frames submitted
    MaxNow,             \* bound: the last clock reading
    MaxSubmissions      \* bound: frames submitted

ASSUME ClockAssumption ==
    /\ UnitsPerSecond \in Nat \ {0}
    /\ MaxTime \in Nat /\ MaxNow \in 0 .. MaxTime - 1
    /\ MaxTick \in Nat
    /\ MaxSubmissions \in Nat
    /\ FrameRate \subseteq [num : Nat \ {0}, den : Nat \ {0}]
    /\ Origin \subseteq Nat /\ MaxAge \subseteq Nat /\ PresentationTime \subseteq Nat
    /\ Sequence \subseteq Nat

NoTick == -1
NoFrame == [seq |-> -1, pts |-> 0]
Frame == [seq : Sequence, pts : PresentationTime]

VARIABLES
    rate, origin, max_age,  \* SchedulerConfig, fixed at construction
    now,        \* the caller's clock
    next_tick,  \* FramePacer::next_tick, NoTick for None
    pending,    \* the queued frame, or NoFrame
    metrics,    \* SchedulerMetrics
    taken,      \* history: the metrics windows taken so far, added up
    submitted,  \* history: frames submitted so far
    contenders, \* history: frames that were fit to queue since the queue was empty
    lastDue     \* history: the last due slot and the time of its poll

config == <<rate, origin, max_age>>
vars == <<config, now, next_tick, pending, metrics, taken, submitted, contenders, lastDue>>

Counter == {"submitted", "presented", "stale", "superseded", "oversized",
            "ticks", "skipped", "idle"}
NoMetrics == [k \in Counter |-> 0]
NoDue == [index |-> NoTick, at |-> 0]

Capped(t) == IF t < MaxTime THEN t ELSE MaxTime

(***************************************************************************)
(* FrameRate::timestamp: whole seconds, and the rest rounded down.         *)
(***************************************************************************)
ExactTimestamp(r, i) ==
    ((i * r.den) \div r.num) * UnitsPerSecond
      + (((i * r.den) % r.num) * UnitsPerSecond) \div r.num
Timestamp(r, i) == Capped(ExactTimestamp(r, i))

\* Mutant: the floor of timestamp is inverted without its exclusive bound.
FrameAtOrBeforeInclusive(r, elapsed) ==
    LET i == (elapsed * r.num) \div (r.den * UnitsPerSecond)
    IN  IF i < MaxTick THEN i ELSE MaxTick

(***************************************************************************)
(* FrameRate::frame_at_or_before.                                          *)
(***************************************************************************)
ExactFrameAt(r, elapsed) == ((elapsed + 1) * r.num - 1) \div (r.den * UnitsPerSecond)
FrameAtOrBefore(r, elapsed) ==
    LET i == ExactFrameAt(r, elapsed)
    IN  IF i < MaxTick THEN i ELSE MaxTick

Deadline(i) == Capped(origin + Timestamp(rate, i))
PresentationTarget(f) == Capped(origin + f.pts)
IsStale(f) == now > Capped(PresentationTarget(f) + max_age)

\* Mutant: frames are ordered by presentation time alone.
NewerByTime(f, g) == f.pts > g.pts

(***************************************************************************)
(* frame_order: presentation time, then sequence.                          *)
(***************************************************************************)
Newer(f, g) == f.pts > g.pts \/ (f.pts = g.pts /\ f.seq > g.seq)

Init ==
    /\ rate \in FrameRate /\ origin \in Origin /\ max_age \in MaxAge
    /\ now = 0
    /\ next_tick = 0
    /\ pending = NoFrame
    /\ metrics = NoMetrics /\ taken = NoMetrics
    /\ submitted = 0
    /\ contenders = {}
    /\ lastDue = NoDue

(***************************************************************************)
(* The caller's clock moves.                                               *)
(***************************************************************************)
Clock ==
    /\ now' \in now + 1 .. MaxNow
    /\ UNCHANGED <<config, next_tick, pending, metrics, taken, submitted, contenders, lastDue>>

----------------------------------------------------------------------------
(***************************************************************************)
(* submit.  Counts names the counters a call raises.                       *)
(***************************************************************************)
Counts(m, kinds) == [k \in Counter |-> IF k \in kinds THEN m[k] + 1 ELSE m[k]]

SubmitOversized ==
    /\ metrics' = Counts(metrics, {"submitted", "oversized"})
    /\ UNCHANGED <<pending, contenders>>

SubmitStale(f) ==
    /\ IsStale(f)
    /\ metrics' = Counts(metrics, {"submitted", "stale"})
    /\ UNCHANGED <<pending, contenders>>

SubmitOlder(f) ==
    /\ ~IsStale(f)
    /\ pending # NoFrame /\ ~Newer(f, pending)
    /\ metrics' = Counts(metrics, {"submitted", "superseded"})
    /\ contenders' = contenders \union {f}
    /\ UNCHANGED pending

SubmitNewest(f) ==
    /\ ~IsStale(f)
    /\ pending # NoFrame => Newer(f, pending)
    /\ pending' = f
    /\ metrics' = Counts(metrics, IF pending = NoFrame THEN {"submitted"}
                                  ELSE {"submitted", "superseded"})
    /\ contenders' = contenders \union {f}

Submit(f) ==
    /\ submitted < MaxSubmissions
    /\ submitted' = submitted + 1
    /\ SubmitOversized \/ SubmitStale(f) \/ SubmitOlder(f) \/ SubmitNewest(f)
    /\ UNCHANGED <<config, now, next_tick, taken, lastDue>>

----------------------------------------------------------------------------
(***************************************************************************)
(* FramePacer::poll, when a slot is due: the newest one, never an old one  *)
(* again.  WaitUntil and Exhausted change nothing.                         *)
(***************************************************************************)
DueTick ==
    LET i == FrameAtOrBefore(rate, now - origin)
    IN  IF i > next_tick THEN i ELSE next_tick

Consumes ==
    /\ next_tick # NoTick /\ now >= Deadline(next_tick)
    /\ next_tick' = IF DueTick = MaxTick THEN NoTick ELSE DueTick + 1
    /\ lastDue' = [index |-> DueTick, at |-> now]

\* What poll records of the slot, and of what happened to the queued frame.
Records(kinds) ==
    metrics' = [Counts(metrics, {"ticks"} \union kinds)
                  EXCEPT !["skipped"] = @ + (lastDue'.index - next_tick)]

PollEmpty ==
    /\ pending = NoFrame
    /\ Records({"idle"})
    /\ UNCHANGED <<pending, contenders>>

PollStale ==
    /\ pending # NoFrame /\ IsStale(pending)
    /\ Records({"idle", "stale"})
    /\ pending' = NoFrame /\ contenders' = {}

PollNotDue ==
    /\ pending # NoFrame /\ ~IsStale(pending)
    /\ now < PresentationTarget(pending)
    /\ Records({"idle"})
    /\ UNCHANGED <<pending, contenders>>

PollReady ==
    /\ pending # NoFrame /\ ~IsStale(pending)
    /\ now >= PresentationTarget(pending)
    /\ Records({"presented"})
    /\ pending' = NoFrame /\ contenders' = {}

Poll ==
    /\ Consumes
    /\ PollEmpty \/ PollStale \/ PollNotDue \/ PollReady
    /\ UNCHANGED <<config, now, taken, submitted>>

(***************************************************************************)
(* take_metrics.                                                           *)
(***************************************************************************)
TakeMetrics ==
    /\ metrics # NoMetrics
    /\ taken' = [k \in Counter |-> taken[k] + metrics[k]]
    /\ metrics' = NoMetrics
    /\ UNCHANGED <<config, now, next_tick, pending, submitted, contenders, lastDue>>

Next == Clock \/ Poll \/ TakeMetrics \/ \E f \in Frame : Submit(f)

Spec == Init /\ [][Next]_vars

----------------------------------------------------------------------------
TypeOK ==
    /\ rate \in FrameRate /\ origin \in Origin /\ max_age \in MaxAge
    /\ now \in 0 .. MaxNow
    /\ next_tick \in 0 .. MaxTick \union {NoTick}
    /\ pending \in Frame \union {NoFrame}
    /\ metrics \in [Counter -> Nat] /\ taken \in [Counter -> Nat]
    /\ submitted \in 0 .. MaxSubmissions
    /\ contenders \subseteq Frame
    /\ lastDue \in [index : 0 .. MaxTick \union {NoTick}, at : 0 .. MaxNow]

Total(k) == taken[k] + metrics[k]

(***************************************************************************)
(* Every frame passed to submit is counted exactly once as presented or    *)
(* dropped, or is still queued, over all metrics windows (submit, poll,    *)
(* take_metrics).                                                          *)
(***************************************************************************)
FramesAddUp ==
    Total("submitted") = Total("presented") + Total("stale") + Total("superseded")
                           + Total("oversized") + (IF pending = NoFrame THEN 0 ELSE 1)

(***************************************************************************)
(* Every slot of the timeline is consumed once or counted as skipped, up   *)
(* to the last representable one, and a consumed slot presents one frame   *)
(* or is idle.                                                             *)
(***************************************************************************)
SlotsAddUp ==
    /\ Total("ticks") + Total("skipped") = (IF next_tick = NoTick THEN MaxTick + 1 ELSE next_tick)
    /\ Total("ticks") = Total("presented") + Total("idle")

(***************************************************************************)
(* "A delayed poll selects only the newest due slot [...] preventing       *)
(* catch-up bursts" (FramePacer): the slot was due, and once it has been   *)
(* consumed no other slot is due at the same time.  The inverse of the     *)
(* rounded timeline neither lags behind it nor runs ahead of it.           *)
(***************************************************************************)
NewestDueSlot ==
    lastDue # NoDue =>
        /\ Deadline(lastDue.index) <= lastDue.at
        /\ next_tick # NoTick => lastDue.at < Deadline(next_tick)

(***************************************************************************)
(* The queue keeps the newest of all frames that were fit to queue since   *)
(* it was last empty, in whatever order they arrived.                      *)
(***************************************************************************)
LatestWins ==
    /\ contenders = {} <=> pending = NoFrame
    /\ pending # NoFrame => /\ pending \in contenders
                            /\ \A f \in contenders : f = pending \/ Newer(pending, f)
=============================================================================
