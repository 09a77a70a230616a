--------------------------- MODULE TrafficProofs ---------------------------
(***************************************************************************)
(* Proofs about what a running session carries: frames to the display      *)
(* (FrameScheduler, for every frame rate, clock resolution, origin and age *)
(* limit), and input back to the host (Input, for every set of buttons and *)
(* keys, number of contacts and negotiated families).                      *)
(***************************************************************************)
EXTENDS FrameScheduler, Input, FiniteSetTheorems, WellFoundedInduction, TLAPS

USE DEF NoTick

(***************************************************************************)
(* Quotient and remainder of naturals.                                     *)
(***************************************************************************)
LEMMA Division ==
  ASSUME NEW a \in Nat, NEW b \in Nat \ {0}
  PROVE  /\ a \div b \in Nat /\ a % b \in 0 .. b - 1
         /\ a = b * (a \div b) + (a % b)
  OBVIOUS

(***************************************************************************)
(* A positive factor may be cancelled, and kept.                           *)
(***************************************************************************)
LEMMA CancelFactor ==
  ASSUME NEW x \in Int, NEW y \in Int, NEW n \in Nat \ {0}
  PROVE  /\ x * n < y * n => x < y
         /\ x <= y => x * n <= y * n
  BY SMT

(***************************************************************************)
(* Seconds and rounded fraction together are the floor of k * u / n.       *)
(***************************************************************************)
LEMMA ScaledFloor ==
  ASSUME NEW k \in Nat, NEW n \in Nat \ {0}, NEW u \in Nat \ {0}
  PROVE  LET t == (k \div n) * u + ((k % n) * u) \div n
         IN  t \in Nat /\ t * n <= k * u /\ k * u < (t + 1) * n
  <1> DEFINE q == k \div n
             m == k % n
             s == (m * u) \div n
  <1>1. q \in Nat /\ m \in Nat /\ k = n * q + m
    BY Division
  <1>2. s \in Nat /\ s * n <= m * u /\ m * u < (s + 1) * n
    <2> DEFINE mu == m * u
    <2>1. mu \in Nat
      BY <1>1
    <2>2. mu \div n \in Nat /\ mu % n \in 0 .. n - 1 /\ mu = n * (mu \div n) + (mu % n)
      BY <2>1, Division
    <2> QED BY <2>2, SMT
  <1>3. k * u = (q * u) * n + m * u
    BY <1>1, SMT
  <1> HIDE DEF q, m, s
  <1>4. /\ q * u + s \in Nat
        /\ (q * u + s) * n = (q * u) * n + s * n
        /\ (q * u + s + 1) * n = (q * u) * n + (s + 1) * n
    BY <1>1, <1>2, SMT
  <1>5. /\ (q * u + s) * n <= k * u
        /\ k * u < (q * u + s + 1) * n
    <2> DEFINE A == (q * u) * n
               B == m * u
               C == s * n
               D == (s + 1) * n
    <2>1. A \in Int /\ B \in Int /\ C \in Int /\ D \in Int
      BY <1>1, <1>2
    <2> QED BY <1>2, <1>3, <1>4, <2>1
  <1> QED BY <1>4, <1>5 DEF q, m, s

(***************************************************************************)
(* frame_at_or_before inverts timestamp: slot j has begun when `elapsed`   *)
(* time has passed exactly if j is at most the slot it returns.            *)
(***************************************************************************)
LEMMA SlotHasBegun ==
  ASSUME NEW r \in FrameRate, NEW elapsed \in Nat, NEW j \in Nat
  PROVE  /\ ExactTimestamp(r, j) \in Nat
         /\ ExactFrameAt(r, elapsed) \in Nat
         /\ ExactTimestamp(r, j) <= elapsed <=> j <= ExactFrameAt(r, elapsed)
  <1> DEFINE n == r.num
             u == UnitsPerSecond
             k == j * r.den
             d == r.den * u
             t == ExactTimestamp(r, j)
             x == (elapsed + 1) * n - 1
             i == ExactFrameAt(r, elapsed)
  <1>1. n \in Nat \ {0} /\ r.den \in Nat \ {0} /\ u \in Nat \ {0}
    BY ClockAssumption
  <1>2. k \in Nat /\ d \in Nat \ {0} /\ x \in Nat /\ k * u = j * d
    BY <1>1, SMT
  <1>3. t \in Nat /\ t * n <= k * u /\ k * u < (t + 1) * n
    <2> HIDE DEF k, n, u
    <2>1. LET f == (k \div n) * u + ((k % n) * u) \div n
          IN  f \in Nat /\ f * n <= k * u /\ k * u < (f + 1) * n
      BY <1>1, <1>2, ScaledFloor
    <2>2. t = (k \div n) * u + ((k % n) * u) \div n
      BY DEF ExactTimestamp, k, n, u
    <2> QED BY <2>1, <2>2
  <1>4. i \in Nat /\ i * d <= x /\ x < (i + 1) * d
    <2> HIDE DEF x, d
    <2>1. i = x \div d
      BY DEF ExactFrameAt, x, d
    <2>2. x \div d \in Nat /\ x % d \in 0 .. d - 1 /\ x = d * (x \div d) + (x % d)
      BY <1>2, Division
    <2> QED BY <1>2, <2>1, <2>2, SMT
  <1>5. x + 1 = (elapsed + 1) * n
    BY <1>1
  <1> HIDE DEF n, u, k, d, t, x, i
  <1>6. ASSUME t <= elapsed PROVE j <= i
    <2>1. (t + 1) * n <= (elapsed + 1) * n
      BY <1>1, <1>3, <1>6, CancelFactor
    <2>2. j * d < (i + 1) * d
      <3> DEFINE A == j * d
                 B == (t + 1) * n
                 C == (i + 1) * d
      <3>1. A \in Int /\ B \in Int /\ C \in Int
        BY <1>1, <1>2, <1>3, <1>4
      <3> QED BY <1>2, <1>3, <1>4, <1>5, <2>1, <3>1
    <2>3. j < i + 1
      BY <1>2, <1>4, <2>2, CancelFactor
    <2> QED BY <1>4, <2>3
  <1>7. ASSUME j <= i PROVE t <= elapsed
    <2>1. j * d <= i * d
      BY <1>2, <1>4, <1>7, CancelFactor
    <2>2. t * n < (elapsed + 1) * n
      <3> DEFINE A == j * d
                 B == t * n
                 C == i * d
      <3>1. A \in Int /\ B \in Int /\ C \in Int
        BY <1>1, <1>2, <1>3, <1>4
      <3> QED BY <1>2, <1>3, <1>4, <1>5, <2>1, <3>1
    <2>3. t < elapsed + 1
      BY <1>1, <1>3, <2>2, CancelFactor
    <2> QED BY <1>3, <2>3
  <1> QED BY <1>3, <1>4, <1>6, <1>7 DEF t, i

----------------------------------------------------------------------------
(***************************************************************************)
(* The slot a poll consumes was due, is not older than the expected one,   *)
(* and the slot after it is not due.                                       *)
(***************************************************************************)
LEMMA ConsumedSlot ==
  ASSUME TypeOK, next_tick # NoTick, now >= Deadline(next_tick)
  PROVE  /\ DueTick \in next_tick .. MaxTick
         /\ Deadline(DueTick) <= now
         /\ DueTick # MaxTick => now < Deadline(DueTick + 1)
  <1> DEFINE e == now - origin
             i == ExactFrameAt(rate, e)
             T(j) == ExactTimestamp(rate, j)
  <1>1. /\ rate \in FrameRate /\ origin \in Nat /\ now \in Nat /\ now < MaxTime
        /\ next_tick \in 0 .. MaxTick /\ MaxTick \in Nat /\ MaxTime \in Nat
    BY ClockAssumption DEF TypeOK
  <1>2. ASSUME NEW j \in Nat, T(j) \in Nat
        PROVE  Deadline(j) <= now <=> T(j) <= e
    <2> HIDE DEF T
    <2>1. Deadline(j) = Capped(origin + Capped(T(j)))
      BY DEF Deadline, Timestamp, T
    <2> QED BY <1>1, <1>2, <2>1 DEF Capped
  <1>3. e \in Nat
    <2>1. Deadline(next_tick) <= now
      BY <1>1 DEF Deadline, Timestamp, Capped
    <2>2. T(next_tick) \in Nat
      BY <1>1, SlotHasBegun
    <2>3. T(next_tick) <= e
      BY <1>1, <1>2, <2>1, <2>2
    <2> HIDE DEF T
    <2> QED BY <1>1, <2>2, <2>3
  <1>4. ASSUME NEW j \in Nat
        PROVE  /\ i \in Nat
               /\ Deadline(j) <= now <=> j <= i
    <2> HIDE DEF e
    <2>1. T(j) \in Nat /\ i \in Nat /\ (T(j) <= e <=> j <= i)
      BY <1>1, <1>3, SlotHasBegun
    <2> HIDE DEF i, T
    <2> QED BY <1>2, <2>1
  <1>5. \A j \in Nat : Deadline(j) \in Nat
    <2> TAKE j \in Nat
    <2>1. T(j) \in Nat
      BY <1>1, <1>3, SlotHasBegun
    <2> HIDE DEF T
    <2>2. Deadline(j) = Capped(origin + Capped(T(j)))
      BY DEF Deadline, Timestamp, T
    <2> QED BY <1>1, <2>1, <2>2 DEF Capped
  <1>6. DueTick = IF i < MaxTick THEN (IF i > next_tick THEN i ELSE next_tick) ELSE MaxTick
    <2>1. FrameAtOrBefore(rate, e) = IF i < MaxTick THEN i ELSE MaxTick
      BY DEF FrameAtOrBefore
    <2>2. i \in Nat
      BY <1>4
    <2>3. DueTick = IF FrameAtOrBefore(rate, e) > next_tick
                      THEN FrameAtOrBefore(rate, e) ELSE next_tick
      BY DEF DueTick
    <2> HIDE DEF i, e
    <2> QED BY <1>1, <2>1, <2>2, <2>3
  <1>7. i \in Nat /\ next_tick <= i
    <2>1. Deadline(next_tick) <= now
      BY <1>1, <1>5
    <2> HIDE DEF i
    <2> QED BY <1>1, <1>4, <2>1
  <1> HIDE DEF i
  <1>8. DueTick \in next_tick .. MaxTick /\ DueTick \in Nat /\ DueTick <= i
        /\ (DueTick # MaxTick => i < DueTick + 1)
    BY <1>1, <1>6, <1>7
  <1>9. Deadline(DueTick) <= now
    BY <1>4, <1>8
  <1>10. ASSUME DueTick # MaxTick PROVE now < Deadline(DueTick + 1)
    <2>1. DueTick + 1 \in Nat /\ ~(DueTick + 1 <= i)
      BY <1>7, <1>8, <1>10
    <2>2. ~(Deadline(DueTick + 1) <= now)
      BY <1>4, <2>1
    <2> QED BY <1>1, <1>5, <2>1, <2>2
  <1> QED BY <1>8, <1>9, <1>10

----------------------------------------------------------------------------
(***************************************************************************)
(* The inductive invariant.                                                *)
(***************************************************************************)
IInv == TypeOK /\ FramesAddUp /\ SlotsAddUp /\ NewestDueSlot /\ LatestWins

(***************************************************************************)
(* Counting raises exactly the counters named.                             *)
(***************************************************************************)
LEMMA CountsRaises ==
  ASSUME NEW m \in [Counter -> Nat], NEW kinds \in SUBSET Counter
  PROVE  /\ Counts(m, kinds) \in [Counter -> Nat]
         /\ \A k \in kinds : Counts(m, kinds)[k] = m[k] + 1
         /\ \A k \in Counter \ kinds : Counts(m, kinds)[k] = m[k]
  BY DEF Counts

(***************************************************************************)
(* The queue is empty and nothing is counted at first.                     *)
(***************************************************************************)
LEMMA InitIInv == Init => IInv
  <1> SUFFICES ASSUME Init PROVE IInv
    OBVIOUS
  <1>1. TypeOK
    BY ClockAssumption DEF Init, TypeOK, NoMetrics, NoDue, NoFrame, Counter
  <1>2. FramesAddUp /\ SlotsAddUp
    BY ClockAssumption DEF Init, FramesAddUp, SlotsAddUp, Total, NoMetrics, Counter
  <1>3. NewestDueSlot /\ LatestWins
    BY DEF Init, NewestDueSlot, LatestWins
  <1> QED BY <1>1, <1>2, <1>3 DEF IInv

(***************************************************************************)
(* No frame is taken for the empty queue.                                  *)
(***************************************************************************)
LEMMA FrameFacts ==
  /\ NoFrame \notin Frame
  /\ \A f \in Frame : f.seq \in Nat /\ f.pts \in Nat
  /\ \A f \in Frame, g \in Frame : f.seq = g.seq /\ f.pts = g.pts => f = g
  <1>1. Sequence \subseteq Nat /\ PresentationTime \subseteq Nat
    BY ClockAssumption
  <1>2. \A f \in Frame : f.seq \in Nat /\ f.pts \in Nat
    BY <1>1 DEF Frame
  <1>3. NoFrame.seq \notin Nat
    BY DEF NoFrame
  <1>4. \A f \in Frame, g \in Frame : f.seq = g.seq /\ f.pts = g.pts => f = g
    BY DEF Frame
  <1> QED BY <1>2, <1>3, <1>4

(***************************************************************************)
(* submit keeps the invariant.                                             *)
(***************************************************************************)
LEMMA SubmitKeepsIInv ==
  ASSUME IInv, NEW f \in Frame, Submit(f)
  PROVE  IInv'
  <1> USE DEF Counter
  <1>1. /\ metrics \in [Counter -> Nat] /\ taken \in [Counter -> Nat]
        /\ taken' = taken /\ next_tick' = next_tick /\ lastDue' = lastDue
        /\ UNCHANGED config /\ now' = now
    BY DEF IInv, TypeOK, Submit
  <1>2. ASSUME NEW kinds \in SUBSET Counter, metrics' = Counts(metrics, kinds)
        PROVE  /\ metrics' \in [Counter -> Nat]
               /\ \A k \in Counter : Total(k) \in Nat
               /\ \A k \in kinds : Total(k)' = Total(k) + 1
               /\ \A k \in Counter \ kinds : Total(k)' = Total(k)
    <2>1. /\ metrics' \in [Counter -> Nat]
          /\ \A k \in kinds : metrics'[k] = metrics[k] + 1
          /\ \A k \in Counter \ kinds : metrics'[k] = metrics[k]
      BY <1>1, <1>2, CountsRaises
    <2> QED BY <1>1, <2>1 DEF Total
  <1>3. NewestDueSlot'
    BY <1>1 DEF IInv, NewestDueSlot, config, Deadline, Timestamp, ExactTimestamp, Capped
  <1>4. ASSUME metrics' \in [Counter -> Nat], pending' \in Frame \union {NoFrame},
               contenders' \subseteq Frame
        PROVE  TypeOK'
    <2>1. rate' = rate /\ origin' = origin /\ max_age' = max_age
      BY <1>1 DEF config
    <2>2. submitted' \in 0 .. MaxSubmissions
      BY ClockAssumption DEF IInv, TypeOK, Submit
    <2> QED BY <1>1, <1>4, <2>1, <2>2 DEF IInv, TypeOK
  <1>5. CASE SubmitOversized
    <2>1. metrics' \in [Counter -> Nat] /\ FramesAddUp' /\ SlotsAddUp'
      BY <1>1, <1>2, <1>5 DEF SubmitOversized, IInv, FramesAddUp, SlotsAddUp
    <2>2. TypeOK'
      BY <1>5, <1>4, <2>1 DEF SubmitOversized, IInv, TypeOK
    <2>3. LatestWins'
      BY <1>5 DEF SubmitOversized, IInv, LatestWins
    <2> QED BY <1>3, <2>1, <2>2, <2>3 DEF IInv
  <1>6. CASE SubmitStale(f)
    <2>1. metrics' \in [Counter -> Nat] /\ FramesAddUp' /\ SlotsAddUp'
      BY <1>1, <1>2, <1>6 DEF SubmitStale, IInv, FramesAddUp, SlotsAddUp
    <2>2. TypeOK'
      BY <1>6, <1>4, <2>1 DEF SubmitStale, IInv, TypeOK
    <2>3. LatestWins'
      BY <1>6 DEF SubmitStale, IInv, LatestWins
    <2> QED BY <1>3, <2>1, <2>2, <2>3 DEF IInv
  <1>7. CASE SubmitOlder(f)
    <2>1. metrics' \in [Counter -> Nat] /\ FramesAddUp' /\ SlotsAddUp'
      BY <1>1, <1>2, <1>7 DEF SubmitOlder, IInv, FramesAddUp, SlotsAddUp
    <2>2. TypeOK'
      BY <1>7, <1>4, <2>1 DEF SubmitOlder, IInv, TypeOK
    <2>3. f = pending \/ Newer(pending, f)
      BY <1>7, FrameFacts DEF SubmitOlder, IInv, TypeOK, Newer
    <2>4. LatestWins'
      BY <1>7, <2>3 DEF SubmitOlder, IInv, LatestWins
    <2> QED BY <1>3, <2>1, <2>2, <2>4 DEF IInv
  <1>8. CASE SubmitNewest(f)
    <2>1. metrics' \in [Counter -> Nat] /\ FramesAddUp' /\ SlotsAddUp'
      <3>1. CASE pending = NoFrame
        BY <1>1, <1>2, <1>8, <3>1, FrameFacts DEF SubmitNewest, IInv, FramesAddUp, SlotsAddUp
      <3>2. CASE pending # NoFrame
        BY <1>1, <1>2, <1>8, <3>2, FrameFacts DEF SubmitNewest, IInv, FramesAddUp, SlotsAddUp
      <3> QED BY <3>1, <3>2
    <2>2. TypeOK'
      BY <1>8, <1>4, <2>1 DEF SubmitNewest, IInv, TypeOK
    <2>3. ASSUME NEW g \in contenders PROVE Newer(f, g)
      <3>1. pending # NoFrame /\ pending \in Frame /\ g \in Frame /\ Newer(f, pending)
            /\ (g = pending \/ Newer(pending, g))
        BY <1>8 DEF SubmitNewest, IInv, TypeOK, LatestWins
      <3> QED BY <3>1, FrameFacts DEF Newer
    <2>4. LatestWins'
      BY <1>8, <2>3, FrameFacts DEF SubmitNewest, LatestWins
    <2> QED BY <1>3, <2>1, <2>2, <2>4 DEF IInv
  <1> QED BY <1>5, <1>6, <1>7, <1>8 DEF Submit

----------------------------------------------------------------------------
(***************************************************************************)
(* What every poll of a due slot records, whatever becomes of the frame.   *)
(***************************************************************************)
LEMMA RecordsSlot ==
  ASSUME TypeOK, Consumes, UNCHANGED taken,
         NEW kinds \in SUBSET (Counter \ {"ticks", "skipped"}), Records(kinds)
  PROVE  /\ metrics' \in [Counter -> Nat]
         /\ \A k \in Counter : Total(k) \in Nat
         /\ Total("ticks")' = Total("ticks") + 1
         /\ Total("skipped")' = Total("skipped") + (DueTick - next_tick)
         /\ \A k \in kinds : Total(k)' = Total(k) + 1
         /\ \A k \in Counter \ (kinds \union {"ticks", "skipped"}) : Total(k)' = Total(k)
  <1> DEFINE c == Counts(metrics, {"ticks"} \union kinds)
             s == DueTick - next_tick
  <1>1. metrics \in [Counter -> Nat] /\ taken \in [Counter -> Nat] /\ taken' = taken
    BY DEF TypeOK
  <1>2. lastDue'.index = DueTick
    BY DEF Consumes
  <1>3. DueTick \in next_tick .. MaxTick
    BY ConsumedSlot DEF Consumes
  <1>4. next_tick \in Nat /\ s \in Nat
    BY <1>3, ClockAssumption DEF TypeOK, Consumes
  <1>5. /\ {"ticks"} \union kinds \in SUBSET Counter
        /\ "skipped" \in Counter /\ "ticks" \in Counter
    BY DEF Counter
  <1>6. /\ c \in [Counter -> Nat]
        /\ \A k \in {"ticks"} \union kinds : c[k] = metrics[k] + 1
        /\ \A k \in Counter \ ({"ticks"} \union kinds) : c[k] = metrics[k]
    BY <1>1, <1>5, CountsRaises
  <1>7. metrics' = [c EXCEPT !["skipped"] = @ + s]
    BY <1>2 DEF Records
  <1> HIDE DEF c, s
  <1>8. /\ metrics' \in [Counter -> Nat]
        /\ metrics'["skipped"] = metrics["skipped"] + s
        /\ \A k \in Counter \ {"skipped"} : metrics'[k] = c[k]
    BY <1>4, <1>5, <1>6, <1>7
  <1>9. \A k \in Counter : metrics[k] \in Nat /\ taken[k] \in Nat /\ metrics'[k] \in Nat
    BY <1>1, <1>8
  <1>10. /\ metrics'["ticks"] = metrics["ticks"] + 1
         /\ \A k \in kinds : metrics'[k] = metrics[k] + 1
         /\ \A k \in Counter \ (kinds \union {"ticks", "skipped"}) : metrics'[k] = metrics[k]
    BY <1>5, <1>6, <1>8
  <1> QED BY <1>1, <1>4, <1>5, <1>8, <1>9, <1>10 DEF Total, s

(***************************************************************************)
(* A poll that finds a slot due keeps the invariant.                       *)
(***************************************************************************)
LEMMA PollKeepsIInv ==
  ASSUME IInv, Poll
  PROVE  IInv'
  <1>1. TypeOK /\ Consumes /\ taken' = taken /\ now' = now /\ submitted' = submitted
        /\ rate' = rate /\ origin' = origin /\ max_age' = max_age
    BY DEF IInv, Poll, config
  <1>2. /\ DueTick \in next_tick .. MaxTick /\ next_tick \in Nat
        /\ Deadline(DueTick) <= now
        /\ DueTick # MaxTick => now < Deadline(DueTick + 1)
    BY <1>1, ConsumedSlot, ClockAssumption DEF Consumes, TypeOK
  <1>3. /\ next_tick' = IF DueTick = MaxTick THEN NoTick ELSE DueTick + 1
        /\ lastDue' = [index |-> DueTick, at |-> now]
    BY <1>1 DEF Consumes
  <1>4. NewestDueSlot'
    <2>1. \A j : Deadline(j)' = Deadline(j)
      BY <1>1 DEF Deadline, Timestamp, ExactTimestamp, Capped
    <2>2. Deadline(lastDue'.index) <= lastDue'.at
      BY <1>2, <1>3
    <2>3. ASSUME next_tick' # NoTick PROVE lastDue'.at < Deadline(next_tick')
      BY <1>2, <1>3, <2>3
    <2>4. Deadline(lastDue.index)' = Deadline(lastDue'.index)
          /\ Deadline(next_tick)' = Deadline(next_tick')
      BY <1>1 DEF Deadline, Timestamp, ExactTimestamp, Capped
    <2> QED BY <2>2, <2>3, <2>4 DEF NewestDueSlot
  <1>5. ASSUME metrics' \in [Counter -> Nat],
               \/ UNCHANGED <<pending, contenders>>
               \/ pending' = NoFrame /\ contenders' = {}
        PROVE  TypeOK' /\ LatestWins'
    <2>1. next_tick' \in 0 .. MaxTick \union {NoTick}
      BY <1>2, <1>3, ClockAssumption
    <2>2. lastDue' \in [index : 0 .. MaxTick \union {NoTick}, at : 0 .. MaxNow]
      BY <1>1, <1>2, <1>3, ClockAssumption DEF TypeOK
    <2>3. pending' \in Frame \union {NoFrame} /\ contenders' \subseteq Frame
      BY <1>1, <1>5 DEF TypeOK
    <2>4. LatestWins'
      BY <1>5 DEF IInv, LatestWins, Newer
    <2> QED BY <1>1, <1>5, <2>1, <2>2, <2>3, <2>4 DEF TypeOK
  <1>6. ASSUME Total("ticks")' = Total("ticks") + 1,
               Total("skipped")' = Total("skipped") + (DueTick - next_tick),
               Total("presented")' + Total("idle")' = Total("presented") + Total("idle") + 1,
               \A k \in Counter : Total(k) \in Nat
        PROVE  SlotsAddUp'
    <2>1. Total("ticks") \in Nat /\ Total("skipped") \in Nat
          /\ Total("presented") \in Nat /\ Total("idle") \in Nat
      BY <1>6 DEF Counter
    <2>2. /\ Total("ticks") + Total("skipped") = next_tick
          /\ Total("ticks") = Total("presented") + Total("idle")
      BY <1>2 DEF IInv, SlotsAddUp
    <2>3. Total("ticks")' + Total("skipped")'
            = IF next_tick' = NoTick THEN MaxTick + 1 ELSE next_tick'
      BY <1>2, <1>3, <1>6, <2>1, <2>2, ClockAssumption
    <2>4. Total("ticks")' = Total("presented")' + Total("idle")'
      BY <1>6, <2>1, <2>2
    <2> QED BY <2>3, <2>4 DEF SlotsAddUp
  <1> USE DEF Counter
  <1>7. CASE PollEmpty
    <2>1. {"idle"} \in SUBSET (Counter \ {"ticks", "skipped"}) /\ Records({"idle"})
      BY <1>7 DEF PollEmpty
    <2>2. metrics' \in [Counter -> Nat] /\ SlotsAddUp'
      BY <1>1, <1>6, <2>1, RecordsSlot
    <2>3. FramesAddUp'
      BY <1>1, <1>7, <2>1, RecordsSlot DEF PollEmpty, IInv, FramesAddUp
    <2> QED BY <1>4, <1>5, <1>7, <2>2, <2>3 DEF PollEmpty, IInv
  <1>8. CASE PollStale
    <2>1. {"idle", "stale"} \in SUBSET (Counter \ {"ticks", "skipped"})
          /\ Records({"idle", "stale"})
      BY <1>8 DEF PollStale
    <2>2. metrics' \in [Counter -> Nat] /\ SlotsAddUp'
      BY <1>1, <1>6, <2>1, RecordsSlot
    <2>3. FramesAddUp'
      BY <1>1, <1>8, <2>1, RecordsSlot DEF PollStale, IInv, FramesAddUp
    <2> QED BY <1>4, <1>5, <1>8, <2>2, <2>3 DEF PollStale, IInv
  <1>9. CASE PollNotDue
    <2>1. {"idle"} \in SUBSET (Counter \ {"ticks", "skipped"}) /\ Records({"idle"})
      BY <1>9 DEF PollNotDue
    <2>2. metrics' \in [Counter -> Nat] /\ SlotsAddUp'
      BY <1>1, <1>6, <2>1, RecordsSlot
    <2>3. FramesAddUp'
      BY <1>1, <1>9, <2>1, RecordsSlot DEF PollNotDue, IInv, FramesAddUp
    <2> QED BY <1>4, <1>5, <1>9, <2>2, <2>3 DEF PollNotDue, IInv
  <1>10. CASE PollReady
    <2>1. {"presented"} \in SUBSET (Counter \ {"ticks", "skipped"}) /\ Records({"presented"})
      BY <1>10 DEF PollReady
    <2>2. metrics' \in [Counter -> Nat] /\ SlotsAddUp'
      BY <1>1, <1>6, <2>1, RecordsSlot
    <2>3. FramesAddUp'
      BY <1>1, <1>10, <2>1, RecordsSlot DEF PollReady, IInv, FramesAddUp
    <2> QED BY <1>4, <1>5, <1>10, <2>2, <2>3 DEF PollReady, IInv
  <1> QED BY <1>7, <1>8, <1>9, <1>10 DEF Poll

(***************************************************************************)
(* take_metrics moves counts from one window to the sum of the others.     *)
(***************************************************************************)
LEMMA TakeMetricsKeepsIInv ==
  ASSUME IInv, TakeMetrics
  PROVE  IInv'
  <1>1. /\ UNCHANGED <<now, next_tick, pending, submitted, contenders, lastDue>>
        /\ rate' = rate /\ origin' = origin /\ max_age' = max_age
    BY DEF TakeMetrics, config
  <1>2. metrics \in [Counter -> Nat] /\ taken \in [Counter -> Nat]
    BY DEF IInv, TypeOK
  <1>3. /\ metrics' \in [Counter -> Nat] /\ taken' \in [Counter -> Nat]
        /\ \A k \in Counter : Total(k)' = Total(k)
    BY <1>2 DEF TakeMetrics, Total, NoMetrics
  <1>4. TypeOK'
    BY <1>1, <1>3 DEF IInv, TypeOK
  <1>5. FramesAddUp' /\ SlotsAddUp'
    BY <1>1, <1>3 DEF IInv, FramesAddUp, SlotsAddUp, Counter
  <1>6. NewestDueSlot'
    BY <1>1 DEF IInv, NewestDueSlot, Deadline, Timestamp, ExactTimestamp, Capped
  <1>7. LatestWins'
    BY <1>1 DEF IInv, LatestWins
  <1> QED BY <1>4, <1>5, <1>6, <1>7 DEF IInv

(***************************************************************************)
(* Nor does the passing of time disturb it, or a step of the rest of the   *)
(* program.                                                                *)
(***************************************************************************)
LEMMA ClockKeepsIInv ==
  ASSUME IInv, Clock \/ UNCHANGED vars
  PROVE  IInv'
  <1>1. /\ UNCHANGED <<next_tick, pending, metrics, taken, submitted, contenders, lastDue>>
        /\ rate' = rate /\ origin' = origin /\ max_age' = max_age
    BY DEF Clock, vars, config
  <1>2. now' \in 0 .. MaxNow
    BY ClockAssumption DEF IInv, TypeOK, Clock, vars
  <1>3. TypeOK'
    BY <1>1, <1>2 DEF IInv, TypeOK
  <1>4. FramesAddUp' /\ SlotsAddUp'
    BY <1>1 DEF IInv, FramesAddUp, SlotsAddUp, Total
  <1>5. NewestDueSlot'
    BY <1>1 DEF IInv, NewestDueSlot, Deadline, Timestamp, ExactTimestamp, Capped
  <1>6. LatestWins'
    BY <1>1 DEF IInv, LatestWins
  <1> QED BY <1>3, <1>4, <1>5, <1>6 DEF IInv

----------------------------------------------------------------------------
(***************************************************************************)
(* The invariant holds in every reachable state.                           *)
(***************************************************************************)
THEOREM IInvHolds == Spec => []IInv
  <1>1. IInv /\ [Next]_vars => IInv'
    BY SubmitKeepsIInv, PollKeepsIInv, TakeMetricsKeepsIInv, ClockKeepsIInv DEF Next
  <1> QED BY <1>1, InitIInv, PTL DEF Spec

(***************************************************************************)
(* The scheduler's state keeps its types; in particular the pacer's slot   *)
(* index never passes the last one (FramePacer::poll).                     *)
(***************************************************************************)
THEOREM TypeCorrect == Spec => []TypeOK
  <1>1. IInv => TypeOK
    BY DEF IInv
  <1> QED BY <1>1, IInvHolds, PTL

(***************************************************************************)
(* No frame and no slot is lost or counted twice by submit, poll and       *)
(* take_metrics.                                                           *)
(***************************************************************************)
THEOREM NothingUncounted == Spec => [](FramesAddUp /\ SlotsAddUp)
  <1>1. IInv => FramesAddUp /\ SlotsAddUp
    BY DEF IInv
  <1> QED BY <1>1, IInvHolds, PTL

(***************************************************************************)
(* However late the poll and whatever the frame rate, FramePacer::poll     *)
(* consumes a slot that was due, and leaves none that is due at the same   *)
(* time.                                                                   *)
(***************************************************************************)
THEOREM NoCatchUpBurst == Spec => []NewestDueSlot
  <1>1. IInv => NewestDueSlot
    BY DEF IInv
  <1> QED BY <1>1, IInvHolds, PTL

(***************************************************************************)
(* submit leaves the newest frame in the queue, in whatever order frames   *)
(* arrive.                                                                 *)
(***************************************************************************)
THEOREM QueueHoldsTheLatest == Spec => []LatestWins
  <1>1. IInv => LatestWins
    BY DEF IInv
  <1> QED BY <1>1, IInvHolds, PTL

-----------------------------------------------------------------------------
(***************************************************************************)
(* Input: coordinates.                                                     *)
(***************************************************************************)
\* A share of d: the quotient of x * d by w, for x up to w.
LEMMA ShareBounds ==
  ASSUME NEW x \in Nat, NEW w \in Nat \ {0}, NEW d \in Nat, x <= w
  PROVE  (x * d) \div w \in 0 .. d
  <1> DEFINE a == x * d
             q == a \div w
  <1>1. a \in Nat /\ a <= w * d
    <2>1. w - x \in Nat /\ d \in Nat
      OBVIOUS
    <2>2. (w - x) * d \in Nat /\ w * d = x * d + (w - x) * d /\ x * d \in Nat
      BY <2>1, SMT
    <2> QED BY <2>2
  <1> HIDE DEF a
  <1>2. q \in Nat /\ a % w \in Nat /\ a = w * q + (a % w)
    BY <1>1, Division
  <1> HIDE DEF q
  <1>3. q * w <= d * w
    <2>1. q * w = w * q /\ d * w = w * d /\ q * w \in Nat /\ d * w \in Nat
      BY <1>2, SMT
    <2> QED BY <1>1, <1>2, <2>1
  <1>4. q <= d
    <2>1. d * w < q * w => d < q
      BY <1>2, CancelFactor
    <2>2. d < q => (d + 1) * w <= q * w
      BY <1>2, CancelFactor
    <2>3. (d + 1) * w = d * w + w /\ d * w \in Nat /\ q * w \in Nat
      BY <1>2, SMT
    <2> QED BY <1>2, <1>3, <2>2, <2>3
  <1> QED BY <1>2, <1>4 DEF q, a

\* The whole of it.
LEMMA ShareWhole ==
  ASSUME NEW w \in Nat \ {0}, NEW d \in Nat
  PROVE  (w * d) \div w = d /\ (0 * d) \div w = 0
  <1> DEFINE q == (w * d) \div w
  <1>1. w * d \in Nat /\ w <= w
    BY SMT
  <1>2. q \in 0 .. d
    BY <1>1, ShareBounds
  <1>3. q \in Nat /\ (w * d) % w \in 0 .. w - 1 /\ w * d = w * q + ((w * d) % w)
    BY <1>1, Division
  <1> HIDE DEF q
  <1>4. PICK r \in 0 .. w - 1 : w * d = w * q + r
    BY <1>3
  <1>5. ASSUME q < d PROVE FALSE
    <2>1. (q + 1) * w <= d * w
      BY <1>3, <1>5, CancelFactor
    <2>2. (q + 1) * w = w * q + w /\ d * w = w * d /\ w * q \in Nat /\ w * d \in Nat
      BY <1>3, SMT
    <2> QED BY <1>4, <2>1, <2>2
  <1>6. q = d
    BY <1>2, <1>5
  <1>7. 0 * d = 0 /\ 0 \div w = 0
    OBVIOUS
  <1> QED BY <1>6, <1>7 DEF q

\* More gives no less.
LEMMA ShareGrows ==
  ASSUME NEW a \in Nat, NEW b \in Nat, a <= b, NEW w \in Nat \ {0}
  PROVE  a \div w <= b \div w
  <1> DEFINE q == a \div w
             p == b \div w
  <1>1. q \in Nat /\ a % w \in 0 .. w - 1 /\ a = w * q + (a % w)
    BY Division
  <1>2. p \in Nat /\ b % w \in 0 .. w - 1 /\ b = w * p + (b % w)
    BY Division
  <1>3. PICK r \in 0 .. w - 1, s \in 0 .. w - 1 : a = w * q + r /\ b = w * p + s
    BY <1>1, <1>2
  <1> HIDE DEF q, p
  <1>4. ASSUME p < q PROVE FALSE
    <2>1. (p + 1) * w <= q * w
      BY <1>1, <1>2, <1>4, CancelFactor
    <2>2. (p + 1) * w = w * p + w /\ q * w = w * q /\ w * q \in Nat /\ w * p \in Nat
      BY <1>1, <1>2, SMT
    <2> QED BY <1>3, <2>1, <2>2
  <1> QED BY <1>1, <1>2, <1>4 DEF q, p

\* scale_coordinate stays inside the display, keeps order, and maps ends to ends.
LEMMA ScaleExact ==
  ASSUME NEW n \in Nat \ {0}, NEW start \in Int, NEW end \in Int, start < end,
         NEW v \in 0 .. n - 1
  PROVE  /\ Scale(v, n, start, end) \in start .. end - 1
         /\ Scale(0, n, start, end) = start
         /\ n > 1 => Scale(n - 1, n, start, end) = end - 1
         /\ v > 0 => Scale(v - 1, n, start, end) <= Scale(v, n, start, end)
  <1>1. CASE n = 1 \/ end - start = 1
    BY <1>1 DEF Scale
  <1>2. CASE n # 1 /\ end - start # 1
    <2>1. PICK w \in Nat \ {0} : w = n - 1
      BY <1>2
    <2>2. PICK d \in Nat : d = end - start - 1
      BY <1>2
    <2>3. ASSUME NEW x \in Int PROVE Scale(x, n, start, end) = start + (x * d) \div w
      BY <1>2, <2>1, <2>2 DEF Scale
    <2>4. v \in Nat /\ v <= w /\ n - 1 = w /\ end - 1 = start + d
      BY <2>1, <2>2
    <2>5. (v * d) \div w \in 0 .. d
      BY <2>4, ShareBounds
    <2>6. (w * d) \div w = d /\ (0 * d) \div w = 0
      BY ShareWhole
    <2>7. ASSUME v > 0 PROVE ((v - 1) * d) \div w <= (v * d) \div w
      <3>1. v - 1 \in Nat
        BY <2>4, <2>7
      <3>2. (v - 1) * d \in Nat /\ v * d \in Nat /\ v * d = (v - 1) * d + d
        BY <2>4, <3>1, SMT
      <3>3. (v - 1) * d <= v * d
        BY <3>2
      <3> QED BY <3>2, <3>3, ShareGrows
    <2>8. v > 0 => ((v - 1) * d) \div w \in Int
      <3> SUFFICES ASSUME v > 0 PROVE ((v - 1) * d) \div w \in Int
        OBVIOUS
      <3>1. v - 1 \in Nat /\ v - 1 <= w
        BY <2>4
      <3>2. ((v - 1) * d) \div w \in 0 .. d
        BY <3>1, ShareBounds
      <3> QED BY <3>2
    <2>9. /\ Scale(v, n, start, end) = start + (v * d) \div w
          /\ Scale(0, n, start, end) = start + (0 * d) \div w
          /\ Scale(n - 1, n, start, end) = start + (w * d) \div w
          /\ Scale(v - 1, n, start, end) = start + ((v - 1) * d) \div w
      <3>1. v \in Int /\ 0 \in Int /\ n - 1 \in Int /\ v - 1 \in Int
        OBVIOUS
      <3> QED BY <2>3, <2>4, <3>1
    <2>10. Scale(v, n, start, end) \in start .. end - 1
      BY <2>4, <2>5, <2>9
    <2>11. Scale(0, n, start, end) = start /\ Scale(n - 1, n, start, end) = end - 1
      BY <2>4, <2>6, <2>9
    <2>12. v > 0 => Scale(v - 1, n, start, end) <= Scale(v, n, start, end)
      BY <2>5, <2>7, <2>8, <2>9
    <2> QED BY <2>10, <2>11, <2>12
  <1> QED BY <1>1, <1>2

\* The ends, by themselves.
LEMMA ScaleEnds ==
  ASSUME NEW n \in Nat \ {0}, NEW start \in Int, NEW end \in Int, start < end, n > 1
  PROVE  Scale(n - 1, n, start, end) = end - 1
  <1>1. 0 \in 0 .. n - 1
    OBVIOUS
  <1>2. ASSUME NEW v \in 0 .. n - 1 PROVE Scale(n - 1, n, start, end) = end - 1
    BY ScaleExact
  <1> QED BY ONLY <1>1, <1>2, Zenon

\* normalize_virtual_coordinate stays inside 0..65535.
LEMMA NormalizeBounds ==
  ASSUME NEW start \in Int, NEW end \in Int, NEW v \in start .. end - 1
  PROVE  Normalize(v, start, end) \in 0 .. NormalizedMouseMax
  <1>1. CASE end - start = 1
    BY <1>1 DEF Normalize, NormalizedMouseMax
  <1>2. CASE end - start # 1
    <2>1. PICK w \in Nat \ {0} : w = end - start - 1
      BY <1>2
    <2>2. PICK x \in Nat : x = v - start
      OBVIOUS
    <2>3. x <= w /\ NormalizedMouseMax \in Nat
      BY <2>1, <2>2 DEF NormalizedMouseMax
    <2>4. Normalize(v, start, end) = (x * NormalizedMouseMax) \div w
      BY <1>2, <2>1, <2>2 DEF Normalize
    <2> QED BY <2>3, <2>4, ShareBounds
  <1> QED BY <1>1, <1>2

\* The larger and the smaller of two.
LEMMA OfTwo ==
  ASSUME NEW a \in Int, NEW b \in Int
  PROVE  /\ Max({a, b}) \in {a, b} /\ Max({a, b}) >= a /\ Max({a, b}) >= b
         /\ Min({a, b}) \in {a, b} /\ Min({a, b}) <= a /\ Min({a, b}) <= b
  <1>1. \E x \in {a, b} : \A y \in {a, b} : x >= y
    OBVIOUS
  <1>2. \E x \in {a, b} : \A y \in {a, b} : x <= y
    OBVIOUS
  <1>3. Max({a, b}) \in {a, b} /\ \A y \in {a, b} : Max({a, b}) >= y
    BY <1>1, Zenon DEF Max
  <1>4. Min({a, b}) \in {a, b} /\ \A y \in {a, b} : Min({a, b}) <= y
    BY <1>2, Zenon DEF Min
  <1> QED BY <1>3, <1>4

\* The contact rectangle, along one axis.
LEMMA ClipExact ==
  ASSUME NEW p \in Int, NEW low \in Int, NEW high \in Int, low <= p, p < high
  PROVE  /\ Max({p - 2, low}) >= low /\ Max({p - 2, low}) <= p
         /\ p < Min({p + 2, high}) /\ Min({p + 2, high}) <= high
  <1>1. p - 2 \in Int /\ p + 2 \in Int
    OBVIOUS
  <1>2. Max({p - 2, low}) \in {p - 2, low} /\ Max({p - 2, low}) >= low
    BY <1>1, OfTwo
  <1>3. Min({p + 2, high}) \in {p + 2, high} /\ Min({p + 2, high}) <= high
    BY <1>1, OfTwo
  <1> QED BY <1>2, <1>3

\* Rectangles on the virtual desktop, and one inside another.
Rects == [left : Int, top : Int, right : Int, bottom : Int]
Inside(r, s) ==
    /\ s.left <= r.left /\ r.right <= s.right
    /\ s.top <= r.top /\ r.bottom <= s.bottom

(***************************************************************************)
(* CoordinateMapper is exact for a stream of any size on a display of any  *)
(* size, anywhere on the virtual desktop: corners map to corners, no point *)
(* leaves the display, order is kept, normalized_mouse stays in 0..65535   *)
(* and touch_info's rectangle holds its point and stays on the desktop.    *)
(***************************************************************************)
THEOREM EveryMappingExact ==
  ASSUME NEW width \in Nat \ {0}, NEW height \in Nat \ {0},
         NEW target \in Rects, NEW desktop \in Rects,
         ValidRect(target), Inside(target, desktop)
  PROVE  MapsExactly(Mapper(width, height, target, desktop))
  <1> DEFINE m == Mapper(width, height, target, desktop)
  <1>1. m.width = width /\ m.height = height /\ m.target = target /\ m.desktop = desktop
    BY DEF Mapper
  <1>2. /\ target.left \in Int /\ target.right \in Int /\ target.top \in Int /\ target.bottom \in Int
        /\ desktop.left \in Int /\ desktop.right \in Int /\ desktop.top \in Int /\ desktop.bottom \in Int
        /\ target.left < target.right /\ target.top < target.bottom
        /\ desktop.left <= target.left /\ target.right <= desktop.right
        /\ desktop.top <= target.top /\ target.bottom <= desktop.bottom
    BY DEF Rects, ValidRect, Inside
  <1> HIDE DEF m
  <1>3. ASSUME NEW x, NEW y
        PROVE  ScreenPoint(m, x, y) = [x |-> Scale(x, width, target.left, target.right),
                                       y |-> Scale(y, height, target.top, target.bottom)]
    BY <1>1 DEF ScreenPoint
  <1>4. 0 \in 0 .. width - 1 /\ 0 \in 0 .. height - 1
    OBVIOUS
  <1>5. ScreenPoint(m, 0, 0) = [x |-> m.target.left, y |-> m.target.top]
    <2>1. Scale(0, width, target.left, target.right) = target.left
      BY <1>2, <1>4, ScaleExact
    <2>2. Scale(0, height, target.top, target.bottom) = target.top
      BY <1>2, <1>4, ScaleExact
    <2> QED BY <1>1, <1>3, <2>1, <2>2
  <1>6. ASSUME m.width > 1, m.height > 1
        PROVE  ScreenPoint(m, m.width - 1, m.height - 1)
                 = [x |-> m.target.right - 1, y |-> m.target.bottom - 1]
    <2>0. width > 1 /\ height > 1
      BY <1>1, <1>6
    <2>1. Scale(width - 1, width, target.left, target.right) = target.right - 1
      BY ONLY <1>2, <2>0, width \in Nat \ {0}, ScaleEnds
    <2>2. Scale(height - 1, height, target.top, target.bottom) = target.bottom - 1
      BY ONLY <1>2, <2>0, height \in Nat \ {0}, ScaleEnds
    <2> QED BY <1>1, <1>3, <2>1, <2>2
  <1>7. ASSUME NEW x \in 0 .. m.width - 1, NEW y \in 0 .. m.height - 1,
               NEW p, p = ScreenPoint(m, x, y)
        PROVE  /\ p.x \in m.target.left .. m.target.right - 1
               /\ p.y \in m.target.top .. m.target.bottom - 1
               /\ x > 0 => ScreenPoint(m, x - 1, y).x <= p.x
               /\ NormalizedMouse(m, p).x \in 0 .. NormalizedMouseMax
               /\ NormalizedMouse(m, p).y \in 0 .. NormalizedMouseMax
               /\ ContactRect(m, p).left >= m.desktop.left /\ ContactRect(m, p).left <= p.x
               /\ p.x < ContactRect(m, p).right
               /\ ContactRect(m, p).top >= m.desktop.top /\ ContactRect(m, p).top <= p.y
               /\ p.y < ContactRect(m, p).bottom
               /\ ContactRect(m, p).right <= m.desktop.right
               /\ ContactRect(m, p).bottom <= m.desktop.bottom
    <2>1. x \in 0 .. width - 1 /\ y \in 0 .. height - 1
      BY <1>1, <1>7
    <2>2. /\ p.x = Scale(x, width, target.left, target.right)
          /\ p.y = Scale(y, height, target.top, target.bottom)
          /\ ScreenPoint(m, x - 1, y).x = Scale(x - 1, width, target.left, target.right)
      BY <1>3, <1>7
    <2>3. /\ p.x \in target.left .. target.right - 1
          /\ x > 0 => ScreenPoint(m, x - 1, y).x <= p.x
      <3>1. /\ Scale(x, width, target.left, target.right) \in target.left .. target.right - 1
            /\ x > 0 => Scale(x - 1, width, target.left, target.right)
                          <= Scale(x, width, target.left, target.right)
        BY ONLY <1>2, <2>1, width \in Nat \ {0}, ScaleExact, Zenon
      <3> QED BY ONLY <2>2, <3>1, Zenon
    <2>4. p.y \in target.top .. target.bottom - 1
      <3>1. Scale(y, height, target.top, target.bottom) \in target.top .. target.bottom - 1
        BY ONLY <1>2, <2>1, height \in Nat \ {0}, ScaleExact, Zenon
      <3> QED BY ONLY <2>2, <3>1, Zenon
    <2>5. p.x \in desktop.left .. desktop.right - 1 /\ p.y \in desktop.top .. desktop.bottom - 1
      BY <1>2, <2>3, <2>4
    <2>6. /\ NormalizedMouse(m, p).x = Normalize(p.x, desktop.left, desktop.right)
          /\ NormalizedMouse(m, p).y = Normalize(p.y, desktop.top, desktop.bottom)
      BY <1>1 DEF NormalizedMouse
    <2>7. /\ NormalizedMouse(m, p).x \in 0 .. NormalizedMouseMax
          /\ NormalizedMouse(m, p).y \in 0 .. NormalizedMouseMax
      BY <1>2, <2>5, <2>6, NormalizeBounds
    <2>8. /\ ContactRect(m, p).left = Max({p.x - 2, desktop.left})
          /\ ContactRect(m, p).right = Min({p.x + 2, desktop.right})
          /\ ContactRect(m, p).top = Max({p.y - 2, desktop.top})
          /\ ContactRect(m, p).bottom = Min({p.y + 2, desktop.bottom})
      BY <1>1 DEF ContactRect
    <2>9. /\ Max({p.x - 2, desktop.left}) >= desktop.left /\ Max({p.x - 2, desktop.left}) <= p.x
          /\ p.x < Min({p.x + 2, desktop.right}) /\ Min({p.x + 2, desktop.right}) <= desktop.right
      <3>1. p.x \in Int /\ desktop.left <= p.x /\ p.x < desktop.right
        BY <1>2, <2>5
      <3> QED BY <1>2, <3>1, ClipExact
    <2>10. /\ Max({p.y - 2, desktop.top}) >= desktop.top /\ Max({p.y - 2, desktop.top}) <= p.y
           /\ p.y < Min({p.y + 2, desktop.bottom}) /\ Min({p.y + 2, desktop.bottom}) <= desktop.bottom
      <3>1. p.y \in Int /\ desktop.top <= p.y /\ p.y < desktop.bottom
        BY <1>2, <2>5
      <3> QED BY <1>2, <3>1, ClipExact
    <2> QED BY ONLY <1>1, <2>3, <2>4, <2>7, <2>8, <2>9, <2>10
  <1>8. MapsExactly(m)
    BY ONLY <1>5, <1>6, <1>7 DEF MapsExactly
  <1> QED BY <1>8 DEF m

\* The mappers of the small instance.
LEMMA SmallMappers ==
  ASSUME NEW m \in Mappers
  PROVE  MapsExactly(m)
  <1>0. PICK w \in 1 .. 5, t \in Targets : m = OnDesktop(w, t)
    BY DEF Mappers
  <1>1. PICK l \in {-3, 0, 2}, u \in {-1, 4}, e \in 1 .. 6, h \in {1, 3} : t = Rect(l, u, e, h)
    BY DEF Targets
  <1> DEFINE d == VirtualDesktop({t, Rect(0, 0, 3, 3)})
  <1>2. /\ t \in Rects /\ ValidRect(t)
        /\ t.left = l /\ t.top = u /\ t.right = l + e /\ t.bottom = u + h
    BY <1>1 DEF Rect, Rects, ValidRect
  <1>3. /\ {r.left : r \in {t, Rect(0, 0, 3, 3)}} = {l, 0} /\ {r.top : r \in {t, Rect(0, 0, 3, 3)}} = {u, 0}
        /\ {r.right : r \in {t, Rect(0, 0, 3, 3)}} = {l + e, 3}
        /\ {r.bottom : r \in {t, Rect(0, 0, 3, 3)}} = {u + h, 3}
    BY <1>2 DEF Rect
  <1>4. d = [left |-> Min({l, 0}), top |-> Min({u, 0}), right |-> Max({l + e, 3}), bottom |-> Max({u + h, 3})]
    BY <1>3 DEF VirtualDesktop
  <1>5. l \in Int /\ u \in Int /\ l + e \in Int /\ u + h \in Int /\ 0 \in Int /\ 3 \in Int
    OBVIOUS
  <1>6. /\ Min({l, 0}) \in Int /\ Min({l, 0}) <= l /\ Min({u, 0}) \in Int /\ Min({u, 0}) <= u
        /\ Max({l + e, 3}) \in Int /\ Max({l + e, 3}) >= l + e
        /\ Max({u + h, 3}) \in Int /\ Max({u + h, 3}) >= u + h
    BY <1>5, OfTwo
  <1>7. d \in Rects /\ Inside(t, d)
    BY <1>2, <1>4, <1>5, <1>6 DEF Rects, Inside
  <1>8. w \in Nat \ {0} /\ 2 \in Nat \ {0}
    OBVIOUS
  <1>9. m = Mapper(w, 2, t, d)
    BY <1>0 DEF OnDesktop
  <1> HIDE DEF d
  <1> QED BY ONLY <1>2, <1>7, <1>8, <1>9, EveryMappingExact, Zenon

(***************************************************************************)
(* MappingIsExact holds for every instance of Input: the small mappers are *)
(* cases of EveryMappingExact, and hid_usage_to_key knows every usage that *)
(* usageForKeyCode sends.                                                  *)
(***************************************************************************)
THEOREM MappingExact == InputSpec => []MappingIsExact
  <1>1. MappingIsExact
    <2>1. UsageForKeyCode \subseteq HidUsageToKey
      BY DEF UsageForKeyCode, HidUsageToKey
    <2>2. \A m \in Mappers : MapsExactly(m)
      BY SmallMappers
    <2> QED BY ONLY <2>1, <2>2, Zenon DEF MappingIsExact
  <1> QED BY <1>1, PTL

-----------------------------------------------------------------------------
(***************************************************************************)
(* NothingStuck: what is on its way to the host.                           *)
(***************************************************************************)
\* The events of the two lanes, and the frames on the wire.
CriticalEvents ==
    {Item(i, p) : i \in Items, p \in {"press", "release"}}
      \cup {Touch(c, p) : c \in Slots, p \in {"begin", "end", "cancel"}}
      \cup {Focus(p) : p \in {"gained", "lost"}}
MotionEvents == {PointerMove, Wheel} \cup {Touch(c, "move") : c \in Slots}
Frames == {Encode(e) : e \in CriticalEvents \cup MotionEvents}

\* What the negotiated families let the host hold down.
Live ==
    {i \in Items : Allowed(Item(i, "press"))}
      \cup AsContacts({c \in Slots : Allowed(Touch(c, "begin"))})

\* The frame presses or releases x, an item or a contact; it presses it.
On(f, x) == Len(f) = 3 /\ <<f[1], f[2]>> = x /\ ~(f[1] = 5 /\ f[3] = 2)
Down(f) == f[3] = 1

\* What is on its way: the wire first, then the critical lane.
Span(w, c) == 1 .. Len(w) + Len(c)
At(w, c, k) == IF k <= Len(w) THEN w[k] ELSE Encode(c[k - Len(w)])
LastOn(w, c, x, k) ==
    /\ k \in Span(w, c) /\ On(At(w, c, k), x)
    /\ \A j \in Span(w, c) : j > k => ~On(At(w, c, j), x)

\* Once everything on its way has arrived, x is down on the host only if the
\* user holds it: the last frame about it says so, or else the present state.
Tracked(w, c, x, H, D) ==
    /\ \A k \in Span(w, c) : LastOn(w, c, x, k) /\ Down(At(w, c, k)) => x \in H
    /\ x \in D /\ (\A k \in Span(w, c) : ~On(At(w, c, k), x)) => x \in H

\* What the user holds down, or let go of without the host being told, and what
\* the host holds.
Held == phys \cup AsContacts(contacts) \cup lost
Holds == pressed \cup AsContacts(touches)

InputShape ==
    /\ phys \subseteq Items /\ contacts \subseteq Slots /\ showing \in BOOLEAN
    /\ critical \in Seq(CriticalEvents) /\ coalescible \in Seq(MotionEvents) /\ wire \in Seq(Frames)
    /\ status \in {"active", "ending", "closed"}
    /\ pressed \subseteq Items /\ touches \subseteq Slots
    /\ Holds \subseteq Live
    /\ osPressed = pressed /\ osTouches = touches
    /\ status = "closed" => Holds \subseteq refused

OnItsWay ==
    status = "active" =>
        \A x \in Live : Tracked(wire, critical, x, Held, Holds)

-----------------------------------------------------------------------------
(***************************************************************************)
(* The path from the user to the host grows at its far end, is carried     *)
(* over from the lane to the wire, and is consumed at its near end.        *)
(***************************************************************************)
\* Moving the oldest critical event onto the wire (receiveNext) leaves the
\* path as it is.
LEMMA CarriedOver ==
  ASSUME NEW w \in Seq(Frames), NEW c \in Seq(CriticalEvents), c # <<>>, NEW w2, NEW c2, NEW g,
         g = Encode(Head(c)), w2 = Append(w, g), c2 = Tail(c),
         NEW x, NEW H, NEW D, Tracked(w, c, x, H, D)
  PROVE  Tracked(w2, c2, x, H, D)
  <1>1. /\ Len(w) \in Nat /\ Len(c) \in Nat \ {0} /\ Len(w2) = Len(w) + 1 /\ Len(c2) = Len(c) - 1
        /\ \A k \in 1 .. Len(w) : w2[k] = w[k]
        /\ w2[Len(w) + 1] = Encode(Head(c)) /\ Head(c) = c[1]
        /\ \A k \in 1 .. Len(c) - 1 : c2[k] = c[k + 1]
    <2>2. Len(w) \in Nat /\ Len(w2) = Len(w) + 1 /\ (\A k \in 1 .. Len(w) : w2[k] = w[k]) /\ w2[Len(w) + 1] = g
      OBVIOUS
    <2>3. Len(c) \in Nat \ {0} /\ Len(c2) = Len(c) - 1 /\ Head(c) = c[1] /\ (\A k \in 1 .. Len(c) - 1 : c2[k] = c[k + 1])
      OBVIOUS
    <2> QED BY <2>2, <2>3
  <1>2. Span(w2, c2) = Span(w, c)
    BY <1>1 DEF Span
  <1>3. ASSUME NEW k \in Span(w, c) PROVE At(w2, c2, k) = At(w, c, k)
    <2>0. k \in Int /\ 1 <= k /\ k <= Len(w) + Len(c)
      BY <1>1, <1>3 DEF Span
    <2>1. CASE k <= Len(w)
      BY <1>1, <2>0, <2>1 DEF At
    <2>2. CASE k = Len(w) + 1
      <3>1. k <= Len(w2) /\ ~(k <= Len(w)) /\ k - Len(w) = 1
        BY <1>1, <2>0, <2>2
      <3> QED BY <1>1, <2>2, <3>1 DEF At
    <2>3. CASE k > Len(w) + 1
      <3>1. ~(k <= Len(w2)) /\ ~(k <= Len(w)) /\ k - Len(w2) \in 1 .. Len(c) - 1
            /\ (k - Len(w2)) + 1 = k - Len(w)
        BY <1>1, <2>0, <2>3
      <3>2. c2[k - Len(w2)] = c[k - Len(w)]
        BY <1>1, <3>1
      <3> QED BY <3>1, <3>2 DEF At
    <2> QED BY <1>1, <2>0, <2>1, <2>2, <2>3
  <1>4. \A k \in Span(w, c) : LastOn(w2, c2, x, k) <=> LastOn(w, c, x, k)
    BY <1>2, <1>3 DEF LastOn
  <1> QED BY <1>2, <1>3, <1>4 DEF Tracked

\* A path that grew: the new frames press only what is held now, and what none
\* of them is about is held if it was held before.
LEMMA Extended ==
  ASSUME NEW w, NEW c, NEW w2, NEW c2, NEW n \in Nat, NEW n2 \in Nat,
         Span(w, c) = 1 .. n, Span(w2, c2) = 1 .. n2, n <= n2,
         \A k \in 1 .. n : At(w2, c2, k) = At(w, c, k),
         NEW x, NEW H, NEW H2, NEW D, Tracked(w, c, x, H, D),
         \A k \in 1 .. n2 : k > n /\ On(At(w2, c2, k), x) /\ Down(At(w2, c2, k)) => x \in H2,
         (\A k \in 1 .. n2 : k > n => ~On(At(w2, c2, k), x)) => (x \in H => x \in H2)
  PROVE  Tracked(w2, c2, x, H2, D)
  <1>1. ASSUME NEW k \in 1 .. n2, LastOn(w2, c2, x, k), Down(At(w2, c2, k)) PROVE x \in H2
    <2>0. On(At(w2, c2, k), x) /\ \A j \in 1 .. n2 : j > k => ~On(At(w2, c2, j), x)
      BY <1>1 DEF LastOn
    <2>1. CASE k > n
      BY <1>1, <2>0, <2>1
    <2>2. CASE k <= n
      <3>1. k \in 1 .. n
        BY <2>2
      <3>2. \A j \in 1 .. n : j \in 1 .. n2
        OBVIOUS
      <3>3. LastOn(w, c, x, k)
        BY <2>0, <3>1, <3>2 DEF LastOn
      <3>4. x \in H
        BY <1>1, <3>1, <3>3 DEF Tracked
      <3>5. \A j \in 1 .. n2 : j > n => ~On(At(w2, c2, j), x)
        BY <2>0, <2>2
      <3> QED BY <3>4, <3>5
    <2> QED BY <2>1, <2>2
  <1>2. ASSUME x \in D, \A k \in 1 .. n2 : ~On(At(w2, c2, k), x) PROVE x \in H2
    <2>1. \A k \in 1 .. n : ~On(At(w, c, k), x)
      <3> SUFFICES ASSUME NEW k \in 1 .. n PROVE ~On(At(w, c, k), x)
        OBVIOUS
      <3>1. k \in 1 .. n2
        OBVIOUS
      <3> QED BY <1>2, <3>1
    <2>2. x \in H
      BY <1>2, <2>1 DEF Tracked
    <2> QED BY <1>2, <2>2
  <1> QED BY <1>1, <1>2 DEF Tracked

\* The host took the oldest frame: what it holds of the frame's item or contact
\* the frame pressed, and the rest it held before.
LEMMA Consumed ==
  ASSUME NEW S, NEW T, NEW w \in Seq(S), NEW c \in Seq(T), w # <<>>, NEW w2, w2 = Tail(w),
         NEW x, NEW H, NEW D, NEW D2, Tracked(w, c, x, H, D),
         x \in D2 /\ On(Head(w), x) => Down(Head(w)),
         x \in D2 /\ ~On(Head(w), x) => x \in D
  PROVE  Tracked(w2, c, x, H, D2)
  <1>0. /\ Len(w) \in Nat \ {0} /\ Len(c) \in Nat /\ Len(w2) = Len(w) - 1 /\ Head(w) = w[1]
        /\ \A k \in 1 .. Len(w) - 1 : w2[k] = w[k + 1]
    OBVIOUS
  <1> DEFINE n == Len(w) + Len(c)
  <1>1. n \in Nat \ {0} /\ Span(w, c) = 1 .. n /\ Span(w2, c) = 1 .. n - 1
    BY <1>0 DEF Span
  <1>2. At(w, c, 1) = Head(w)
    BY <1>0 DEF At
  <1>3. ASSUME NEW k \in 1 .. n - 1 PROVE At(w2, c, k) = At(w, c, k + 1)
    <2>1. CASE k <= Len(w2)
      <3>1. k + 1 <= Len(w) /\ k \in 1 .. Len(w) - 1
        BY <1>0, <2>1
      <3> QED BY <1>0, <2>1, <3>1 DEF At
    <2>2. CASE ~(k <= Len(w2))
      <3>1. ~(k + 1 <= Len(w)) /\ (k + 1) - Len(w) = k - Len(w2)
        BY <1>0, <2>2
      <3> QED BY <2>2, <3>1 DEF At
    <2> QED BY <2>1, <2>2
  <1> HIDE DEF n
  <1>4. ASSUME NEW k \in 1 .. n - 1, LastOn(w2, c, x, k), Down(At(w2, c, k)) PROVE x \in H
    <2>1. k + 1 \in 1 .. n /\ At(w2, c, k) = At(w, c, k + 1)
      BY <1>1, <1>3
    <2>2. On(At(w, c, k + 1), x) /\ Down(At(w, c, k + 1))
      BY <1>4, <2>1 DEF LastOn
    <2>3. ASSUME NEW j \in 1 .. n, j > k + 1 PROVE ~On(At(w, c, j), x)
      <3>1. j - 1 \in 1 .. n - 1 /\ j - 1 > k /\ (j - 1) + 1 = j
        BY <1>1, <2>3
      <3>2. ~On(At(w2, c, j - 1), x)
        BY <1>1, <1>4, <3>1 DEF LastOn
      <3> QED BY <1>3, <3>1, <3>2
    <2>4. LastOn(w, c, x, k + 1)
      BY <1>1, <2>1, <2>2, <2>3 DEF LastOn
    <2> QED BY <1>1, <2>1, <2>2, <2>4 DEF Tracked
  <1>5. ASSUME x \in D2, \A k \in 1 .. n - 1 : ~On(At(w2, c, k), x) PROVE x \in H
    <2>1. ASSUME NEW j \in 1 .. n, j > 1 PROVE ~On(At(w, c, j), x)
      <3>1. j - 1 \in 1 .. n - 1 /\ (j - 1) + 1 = j
        BY <1>1, <2>1
      <3> QED BY <1>3, <1>5, <3>1
    <2>2. 1 \in 1 .. n
      BY <1>1
    <2>3. CASE On(Head(w), x)
      <3>1. LastOn(w, c, x, 1) /\ Down(At(w, c, 1))
        BY <1>1, <1>2, <1>5, <2>1, <2>2, <2>3 DEF LastOn
      <3> QED BY <1>1, <2>2, <3>1 DEF Tracked
    <2>4. CASE ~On(Head(w), x)
      <3>1. \A j \in 1 .. n : ~On(At(w, c, j), x)
        <4> SUFFICES ASSUME NEW j \in 1 .. n PROVE ~On(At(w, c, j), x)
          OBVIOUS
        <4>1. j = 1 \/ j > 1
          BY <1>1
        <4> QED BY <1>2, <2>1, <2>4, <4>1
      <3> QED BY <1>1, <1>5, <2>4, <3>1 DEF Tracked
    <2> QED BY <2>3, <2>4
  <1> QED BY <1>1, <1>4, <1>5 DEF Tracked

-----------------------------------------------------------------------------
(***************************************************************************)
(* What the frames say: InputEvent::encode and decode on each family.      *)
(***************************************************************************)
\* The codes of the states and phases.
LEMMA Codes ==
  /\ Code(ItemStates, "release") = 1 /\ Code(ItemStates, "press") = 2
  /\ Code(TouchPhases, "begin") = 1 /\ Code(TouchPhases, "move") = 2
  /\ Code(TouchPhases, "end") = 3 /\ Code(TouchPhases, "cancel") = 4
  <1>1. DOMAIN ItemStates = 1 .. 2 /\ ItemStates[1] = "release" /\ ItemStates[2] = "press"
    BY DEF ItemStates
  <1>2. /\ DOMAIN TouchPhases = 1 .. 4 /\ TouchPhases[1] = "begin" /\ TouchPhases[2] = "move"
        /\ TouchPhases[3] = "end" /\ TouchPhases[4] = "cancel"
    BY DEF TouchPhases
  <1> QED BY <1>1, <1>2 DEF Code

\* An item's frame is about that item only, presses it for "press", and is
\* decoded as what was encoded or refused.
LEMMA ItemFrame ==
  ASSUME NEW i \in Items, NEW p \in {"press", "release"}
  PROVE  LET f == Encode(Item(i, p))
         IN /\ \A x : On(f, x) <=> x = i
            /\ Down(f) <=> p = "press"
            /\ Decode(f) \in {Item(i, p), Invalid}
            /\ i[1] \in {2, 4}
  <1> DEFINE s == Code(ItemStates, p) - 1
             f == <<i[1], i[2], s>>
  <1>1. s = (IF p = "press" THEN 1 ELSE 0)
    BY Codes
  <1>2. i = <<i[1], i[2]>> /\ i[1] \in {2, 4}
    BY DEF Items
  <1>3. Encode(Item(i, p)) = f
    BY DEF Encode, Item
  <1> HIDE DEF s
  <1>4. s \in 0 .. 1 /\ ItemStates[s + 1] = p
    <2>1. CASE p = "press"
      BY <1>1, <2>1 DEF ItemStates
    <2>2. CASE p = "release"
      BY <1>1, <2>2 DEF ItemStates
    <2> QED BY <2>1, <2>2
  <1>5. Len(f) = 3 /\ f[1] = i[1] /\ f[2] = i[2] /\ f[3] = s
    OBVIOUS
  <1>6. f # <<1>> /\ f # <<3>>
    BY <1>5
  <1> HIDE DEF f
  <1>7. Validated(Item(i, p)) \in {Item(i, p), Invalid}
    BY DEF Validated
  <1>8. Decode(f) \in {Item(i, p), Invalid}
    <2>1. f[1] # 5 /\ f[1] # 6 /\ <<f[1], f[2]>> = i
      BY <1>2, <1>5
    <2>2. CASE f[1] = 2 => f[2] \in 1 .. 5
      <3>1. f[1] \in {2, 4} /\ f[3] \in 0 .. 1 /\ ItemStates[f[3] + 1] = p
        BY <1>2, <1>4, <1>5
      <3>2. Decode(f) = Validated(Item(<<f[1], f[2]>>, ItemStates[f[3] + 1]))
        BY ONLY <1>6, <2>1, <2>2, <3>1, Zenon DEF Decode
      <3>3. Decode(f) = Validated(Item(i, p))
        BY ONLY <2>1, <3>1, <3>2, Zenon
      <3> QED BY <1>7, <3>3
    <2>3. CASE ~(f[1] = 2 => f[2] \in 1 .. 5)
      <3>1. Decode(f) = Invalid
        BY ONLY <1>6, <2>1, <2>3, Zenon DEF Decode
      <3> QED BY <3>1
    <2> QED BY <2>2, <2>3
  <1>9. \A x : On(f, x) <=> x = i
    BY <1>2, <1>5 DEF On
  <1>10. Down(f) <=> p = "press"
    BY <1>1, <1>5 DEF Down
  <1> QED BY <1>2, <1>3, <1>8, <1>9, <1>10

\* A contact's frame is about that contact only, unless it moves it, puts it
\* down for "begin", and is decoded as what was encoded or refused.
LEMMA TouchFrameOn ==
  ASSUME NEW c \in Slots, NEW p \in {"begin", "move", "end", "cancel"}
  PROVE  LET f == Encode(Touch(c, p))
         IN /\ \A x : On(f, x) <=> x = <<5, c>> /\ p # "move"
            /\ Down(f) <=> p = "begin"
            /\ Decode(f) \in {Touch(c, p), Invalid}
  <1> DEFINE s == Code(TouchPhases, p)
             f == <<5, c, s>>
  <1>1. /\ s \in 1 .. 4 /\ (s = 1 <=> p = "begin") /\ (s = 2 <=> p = "move")
        /\ DOMAIN TouchPhases = 1 .. 4 /\ TouchPhases[s] = p
    BY Codes DEF TouchPhases
  <1>2. Encode(Touch(c, p)) = f
    BY DEF Encode, Touch
  <1> HIDE DEF s
  <1>3. Len(f) = 3 /\ f[1] = 5 /\ f[2] = c /\ f[3] = s
    OBVIOUS
  <1>4. f # <<1>> /\ f # <<3>>
    BY <1>3
  <1> HIDE DEF f
  <1>5. Decode(f) \in {Touch(c, p), Invalid}
    <2>1. ~(f[1] \in {2, 4}) /\ f[3] \in DOMAIN TouchPhases /\ f[1] # 6
      BY <1>1, <1>3
    <2>2. Decode(f) = Validated(Touch(f[2], TouchPhases[f[3]]))
      BY ONLY <1>3, <1>4, <2>1, Zenon DEF Decode
    <2>3. Decode(f) = Validated(Touch(c, p))
      BY ONLY <1>1, <1>3, <2>2, Zenon
    <2> QED BY <2>3 DEF Validated
  <1>6. \A x : On(f, x) <=> x = <<5, c>> /\ p # "move"
    BY <1>1, <1>3 DEF On
  <1>7. Down(f) <=> p = "begin"
    BY <1>1, <1>3 DEF Down
  <1> QED BY <1>2, <1>5, <1>6, <1>7

\* The other frames are about nothing that is held, and are decoded as they
\* were encoded.
LEMMA OtherFrames ==
  ASSUME NEW e \in {PointerMove, Wheel, Focus("gained"), Focus("lost")}
  PROVE  /\ \A x : ~On(Encode(e), x)
         /\ Decode(Encode(e)) = e
  <1>1. CASE e = PointerMove
    <2>1. Encode(e) = <<1>>
      BY <1>1 DEF Encode, PointerMove
    <2> QED BY <1>1, <2>1 DEF On, Decode
  <1>2. CASE e = Wheel
    <2>1. Encode(e) = <<3>>
      BY <1>2 DEF Encode, Wheel
    <2>2. <<3>> # <<1>>
      OBVIOUS
    <2> QED BY <1>2, <2>1, <2>2 DEF On, Decode
  <1>3. CASE e \in {Focus("gained"), Focus("lost")}
    <2> DEFINE s == IF e.phase = "gained" THEN 1 ELSE 0
               f == <<6, s>>
    <2>1. Encode(e) = f /\ s \in 0 .. 1 /\ e = Focus(IF s = 1 THEN "gained" ELSE "lost")
      BY <1>3 DEF Encode, Focus
    <2> HIDE DEF s
    <2>2. Len(f) = 2 /\ f[1] = 6 /\ f[2] = s /\ f # <<1>> /\ f # <<3>>
      OBVIOUS
    <2> HIDE DEF f
    <2>3. ~(f[1] \in {2, 4}) /\ f[1] # 5 /\ f[2] \in 0 .. 1
      BY <2>1, <2>2
    <2>4. Decode(f) = Focus(IF f[2] = 1 THEN "gained" ELSE "lost")
      BY ONLY <2>2, <2>3, Zenon DEF Decode
    <2>5. \A x : ~On(f, x)
      BY <2>2 DEF On
    <2> QED BY <2>1, <2>2, <2>4, <2>5
  <1> QED BY <1>1, <1>2, <1>3

-----------------------------------------------------------------------------
(***************************************************************************)
(* What the user does, and the lanes.                                      *)
(***************************************************************************)
\* The user's call emits one event: it is about what changed, or it is not sent,
\* and then what changed is nothing the host can hold or is counted as lost.
LEMMA OneEmitted ==
  ASSUME NEW w \in Seq(Frames), NEW c \in Seq(CriticalEvents), NEW c2, NEW e, NEW sent,
         c2 = (IF sent THEN Append(c, e) ELSE c),
         NEW x, NEW H, NEW H2, NEW D, Tracked(w, c, x, H, D),
         On(Encode(e), x) /\ Down(Encode(e)) => x \in H2,
         ~On(Encode(e), x) \/ ~sent => (x \in H => x \in H2)
  PROVE  Tracked(w, c2, x, H2, D)
  <1> DEFINE n == Len(w) + Len(c)
  <1>1. n \in Nat /\ Len(w) \in Nat /\ Len(c) \in Nat /\ Span(w, c) = 1 .. n
    BY DEF Span
  <1>2. CASE sent
    <2>1. /\ Len(c2) = Len(c) + 1 /\ c2[Len(c) + 1] = e
          /\ \A k \in 1 .. Len(c) : c2[k] = c[k]
      BY <1>2
    <2>2. n + 1 \in Nat /\ n <= n + 1 /\ Span(w, c2) = 1 .. n + 1
      BY <1>1, <2>1 DEF Span
    <2>3. ASSUME NEW k \in 1 .. n PROVE At(w, c2, k) = At(w, c, k)
      <3>1. CASE k <= Len(w)
        BY <3>1 DEF At
      <3>2. CASE ~(k <= Len(w))
        <4>1. k - Len(w) \in 1 .. Len(c)
          BY <1>1, <3>2
        <4> QED BY <2>1, <3>2, <4>1 DEF At
      <3> QED BY <3>1, <3>2
    <2>4. At(w, c2, n + 1) = Encode(e)
      <3>1. ~(n + 1 <= Len(w)) /\ (n + 1) - Len(w) = Len(c) + 1
        BY <1>1
      <3> QED BY <2>1, <3>1 DEF At
    <2> HIDE DEF n
    <2>5. \A k \in 1 .. n + 1 : k > n => k = n + 1
      BY <1>1
    <2>6. \A k \in 1 .. n + 1 : k > n /\ On(At(w, c2, k), x) /\ Down(At(w, c2, k)) => x \in H2
      BY <2>4, <2>5
    <2>7. (\A k \in 1 .. n + 1 : k > n => ~On(At(w, c2, k), x)) => (x \in H => x \in H2)
      <3>1. n + 1 \in 1 .. n + 1 /\ n + 1 > n
        BY <1>1
      <3> QED BY <2>4, <3>1
    <2>8. ASSUME NEW m, m = n + 1 PROVE Tracked(w, c2, x, H2, D)
      <3>1. m \in Nat /\ n <= m /\ Span(w, c2) = 1 .. m
        BY <2>2, <2>8
      <3>2. \A k \in 1 .. m : k > n /\ On(At(w, c2, k), x) /\ Down(At(w, c2, k)) => x \in H2
        BY <2>6, <2>8
      <3>3. (\A k \in 1 .. m : k > n => ~On(At(w, c2, k), x)) => (x \in H => x \in H2)
        BY <2>7, <2>8
      <3> QED BY ONLY <1>1, <2>3, <3>1, <3>2, <3>3, Tracked(w, c, x, H, D), Extended, Zenon
    <2> QED BY <2>8
  <1>3. CASE ~sent
    <2>1. c2 = c /\ (x \in H => x \in H2)
      BY <1>3
    <2> QED BY <2>1 DEF Tracked
  <1> QED BY <1>2, <1>3

\* ACTION_CANCEL: the contacts are cancelled, in some order, or touch is not
\* negotiated.
LEMMA AllCancelled ==
  ASSUME NEW w \in Seq(Frames), NEW c \in Seq(CriticalEvents), NEW c2,
         NEW K \in SUBSET Slots, NEW es \in Seq(CriticalEvents),
         \A k \in DOMAIN es : \E s \in K : es[k] = Touch(s, "cancel"),
         \A s \in K : \E k \in DOMAIN es : es[k] = Touch(s, "cancel"),
         c2 = c \o es, NEW x, NEW P, NEW D, Tracked(w, c, x, P \cup AsContacts(K), D)
  PROVE  Tracked(w, c2, x, P, D)
  <1> DEFINE n == Len(es)
  <1>0. n \in Nat /\ DOMAIN es = 1 .. n
    OBVIOUS
  <1>1. /\ Len(w) \in Nat /\ Len(c) \in Nat
        /\ Len(c2) = Len(c) + n
        /\ \A k \in 1 .. Len(c) : c2[k] = c[k]
        /\ \A k \in 1 .. n : c2[Len(c) + k] = es[k]
    BY <1>0
  <1> HIDE DEF n
  <1> DEFINE m == Len(w) + Len(c)
             m2 == Len(w) + Len(c) + n
  <1>2. /\ m \in Nat /\ m2 \in Nat /\ m <= m2 /\ Span(w, c) = 1 .. m /\ Span(w, c2) = 1 .. m2
    BY <1>0, <1>1 DEF Span
  <1>3. ASSUME NEW k \in 1 .. m PROVE At(w, c2, k) = At(w, c, k)
    <2>1. CASE k <= Len(w)
      BY <2>1 DEF At
    <2>2. CASE ~(k <= Len(w))
      <3>1. k - Len(w) \in 1 .. Len(c)
        BY <1>1, <2>2
      <3> QED BY <1>1, <2>2, <3>1 DEF At
    <2> QED BY <2>1, <2>2
  <1>4. ASSUME NEW k \in 1 .. n
        PROVE  m + k \in 1 .. m2 /\ m + k > m /\ At(w, c2, m + k) = Encode(es[k])
    <2>1. ~(m + k <= Len(w)) /\ (m + k) - Len(w) = Len(c) + k /\ m + k \in 1 .. m2 /\ m + k > m
      BY <1>0, <1>1
    <2> QED BY <1>0, <1>1, <2>1 DEF At
  <1>5. ASSUME NEW k \in 1 .. m2, k > m PROVE k - m \in 1 .. n /\ m + (k - m) = k
    BY <1>0, <1>1, <1>5
  <1> HIDE DEF m, m2
  <1>6. ASSUME NEW k \in 1 .. m2, k > m PROVE ~Down(At(w, c2, k))
    <2>1. PICK j \in 1 .. n : m + j = k
      BY <1>5, <1>6
    <2>2. PICK s \in K : es[j] = Touch(s, "cancel")
      BY <1>0
    <2> QED BY <1>4, <2>1, <2>2, TouchFrameOn
  <1>7. ASSUME \A k \in 1 .. m2 : k > m => ~On(At(w, c2, k), x), x \in P \cup AsContacts(K) PROVE x \in P
    <2> SUFFICES ASSUME x \in AsContacts(K) PROVE FALSE
      BY <1>7
    <2>1. PICK s \in K : x = <<5, s>>
      BY DEF AsContacts
    <2>2. PICK k \in 1 .. n : es[k] = Touch(s, "cancel")
      BY <1>0
    <2>3. s \in Slots /\ On(Encode(Touch(s, "cancel")), x)
      BY <2>1, TouchFrameOn
    <2> QED BY <1>4, <1>7, <2>2, <2>3
  <1>8. ASSUME NEW H, H = P \cup AsContacts(K) PROVE Tracked(w, c2, x, P, D)
    <2>1. Tracked(w, c, x, H, D)
      BY <1>8
    <2>2. \A k \in 1 .. m2 : k > m /\ On(At(w, c2, k), x) /\ Down(At(w, c2, k)) => x \in P
      BY <1>6
    <2>3. (\A k \in 1 .. m2 : k > m => ~On(At(w, c2, k), x)) => (x \in H => x \in P)
      BY <1>7, <1>8
    <2> QED BY ONLY <1>2, <1>3, <2>1, <2>2, <2>3, Extended, Zenon
  <1> QED BY <1>8

\* The host may hold an item when its family is negotiated.
LEMMA LiveItem ==
  ASSUME NEW i \in Items, NEW p
  PROVE  (Allowed(Item(i, p)) <=> i \in Live) /\ i \notin AsContacts(Slots)
  <1>1. i[1] \in {2, 4}
    BY DEF Items
  <1>2. i \notin AsContacts(Slots) /\ \A S : S \subseteq Slots => i \notin AsContacts(S)
    BY <1>1 DEF AsContacts
  <1>3. Allowed(Item(i, p)) <=> Allowed(Item(i, "press"))
    BY DEF Allowed, Item
  <1>4. {c \in Slots : Allowed(Touch(c, "begin"))} \subseteq Slots
    OBVIOUS
  <1> QED BY <1>2, <1>3, <1>4 DEF Live

\* The host may hold a contact when touch is negotiated; no item is a contact.
LEMMA LiveContact ==
  ASSUME NEW c \in Slots, NEW p
  PROVE  (Allowed(Touch(c, p)) <=> <<5, c>> \in Live) /\ <<5, c>> \notin Items
  <1>1. <<5, c>> \notin Items
    BY DEF Items
  <1>2. Allowed(Touch(c, p)) <=> Allowed(Touch(c, "begin"))
    BY DEF Allowed, Touch
  <1> QED BY <1>1, <1>2 DEF Live, AsContacts

\* A slot's contact is held when the slot is.
LEMMA ContactsAre ==
  ASSUME NEW S, NEW c
  PROVE  <<5, c>> \in AsContacts(S) <=> c \in S
  BY DEF AsContacts

\* Every nonempty set of natural numbers has a least element.
LEMMA LeastNumber ==
  ASSUME NEW T, T \subseteq Nat, T # {}
  PROVE  \E n \in T : \A m \in T : n <= m
  <1> DEFINE R == {ss \in Nat \X Nat : ss[1] < ss[2]}
  <1>1. IsWellFoundedOn(R, Nat)
    BY NatLessThanWellFounded DEF OpToRel
  <1>2. \E x \in T : \A y \in T : ~(<<y, x>> \in R)
    BY <1>1, WFMin
  <1>3. PICK x \in T : \A y \in T : ~(<<y, x>> \in R)
    BY <1>2
  <1>4. \A y \in T : y < x => <<y, x>> \in R
    OBVIOUS
  <1>5. \A y \in T : x <= y
    <2> SUFFICES ASSUME NEW y \in T PROVE x <= y
      OBVIOUS
    <2>1. x \in Nat /\ y \in Nat /\ ~(y < x)
      BY <1>3, <1>4
    <2> QED BY <2>1
  <1> QED BY <1>5

\* The lowest free slot is one (TouchContactTracker.begin).
LEMMA LowestFree ==
  ASSUME InputShape, contacts # Slots
  PROVE  Min(Slots \ contacts) \in Slots \ contacts
  <1> DEFINE S == Slots \ contacts
  <1>1. S \subseteq Nat /\ S # {}
    <2>1. Slots \subseteq Nat
      BY DEF Slots
    <2>2. contacts \subseteq Slots
      BY DEF InputShape
    <2> QED BY <2>1, <2>2
  <1> HIDE DEF S
  <1>2. \E x \in S : \A y \in S : x <= y
    BY <1>1, LeastNumber
  <1>3. Min(S) \in S
    BY <1>2, Zenon DEF Min
  <1> QED BY <1>3 DEF S

\* submitInput of one critical event, and of a coalescible one.
LEMMA EmittedOne ==
  ASSUME InputShape, NEW e \in CriticalEvents
  PROVE  /\ Emitted(<<e>>) = (IF showing /\ Allowed(e) THEN Append(critical, e) ELSE critical)
         /\ Emitted(<<e>>) \in Seq(CriticalEvents)
  <1>1. critical \in Seq(CriticalEvents)
    BY DEF InputShape
  <1>2. DOMAIN <<e>> = {1} /\ <<e>>[1] = e /\ critical \o <<e>> = Append(critical, e)
    BY <1>1
  <1>3. Emitted(<<e>>) = (IF showing /\ Allowed(e) THEN Append(critical, e) ELSE critical)
    <2>1. (\A k \in DOMAIN <<e>> : Allowed(<<e>>[k])) <=> Allowed(e)
      BY <1>2
    <2> QED BY ONLY <1>2, <2>1, Zenon DEF Emitted
  <1> QED BY <1>1, <1>3

\* What submitInput leaves in the coalescible lane.
LEMMA OfferedShape ==
  ASSUME InputShape, NEW e \in MotionEvents
  PROVE  Offered(e) \in Seq(MotionEvents)
  BY DEF InputShape, Offered

\* A user's step keeps the host's side as it is.
LEMMA UserStep ==
  ASSUME InputShape, OnItsWay, UserActs, phys' \subseteq Items, contacts' \subseteq Slots,
         critical' \in Seq(CriticalEvents), coalescible' \in Seq(MotionEvents),
         \A x \in Live : Tracked(wire, critical, x, Held, Holds) => Tracked(wire, critical', x, Held', Holds)
  PROVE  InputShape' /\ OnItsWay'
  <1>1. /\ wire' = wire /\ status' = status /\ pressed' = pressed /\ touches' = touches
        /\ osPressed' = osPressed /\ osTouches' = osTouches /\ refused' = refused /\ status = "active"
        /\ showing' = showing
    BY DEF UserActs, hostVars, osVars
  <1>2. Holds' = Holds
    BY <1>1 DEF Holds
  <1>3. InputShape'
    BY <1>1, <1>2 DEF InputShape
  <1>4. OnItsWay'
    BY <1>1, <1>2 DEF OnItsWay
  <1> QED BY <1>3, <1>4

\* onKeyEvent and a pointer button.
LEMMA ItemStep ==
  ASSUME InputShape, OnItsWay, NEW i \in Items, ItemChanges(i)
  PROVE  InputShape' /\ OnItsWay'
  <1> DEFINE p == IF i \in phys THEN "release" ELSE "press"
             e == Item(i, p)
  <1>1. p \in {"press", "release"} /\ e \in CriticalEvents
    BY DEF CriticalEvents
  <1>2. critical' = Emitted(<<e>>)
    BY DEF ItemChanges
  <1>3. phys' = (IF i \in phys THEN phys \ {i} ELSE phys \cup {i}) /\ contacts' = contacts /\ UserActs
        /\ lost' = (IF showing THEN lost \ {i} ELSE lost \cup {i})
    BY DEF ItemChanges, Missed
  <1>4. /\ \A x : On(Encode(e), x) <=> x = i
        /\ Down(Encode(e)) <=> p = "press"
    BY <1>1, ItemFrame
  <1>5. (Allowed(e) <=> i \in Live) /\ i \notin AsContacts(Slots)
    BY LiveItem
  <1>6. coalescible' \in Seq(MotionEvents)
    <2>1. PointerMove \in MotionEvents /\ coalescible \in Seq(MotionEvents)
      BY DEF MotionEvents, InputShape
    <2>2. Offered(PointerMove) \in Seq(MotionEvents)
      BY <2>1, OfferedShape
    <2> QED BY <2>1, <2>2 DEF ItemChanges
  <1>7. p = "press" <=> i \notin phys
    OBVIOUS
  <1> HIDE DEF e, p
  <1>8. /\ critical' = (IF showing /\ Allowed(e) THEN Append(critical, e) ELSE critical)
        /\ critical' \in Seq(CriticalEvents)
    BY <1>1, <1>2, EmittedOne
  <1>9. ASSUME NEW x \in Live, Tracked(wire, critical, x, Held, Holds)
        PROVE  Tracked(wire, critical', x, Held', Holds)
    <2>1. wire \in Seq(Frames) /\ critical \in Seq(CriticalEvents)
      BY DEF InputShape
    <2>2. On(Encode(e), x) /\ Down(Encode(e)) => x \in Held'
      BY <1>3, <1>4, <1>7 DEF Held
    <2>3. x # i => (x \in Held => x \in Held')
      BY <1>3 DEF Held
    <2>4. ~On(Encode(e), x) \/ ~(showing /\ Allowed(e)) => (x \in Held => x \in Held')
      <3>1. ~showing => i \in Held'
        BY <1>3 DEF Held
      <3> QED BY <1>4, <1>5, <2>3, <3>1
    <2> QED BY ONLY <1>8, <1>9, <2>1, <2>2, <2>4, OneEmitted, Zenon
  <1>10. phys' \subseteq Items /\ contacts' \subseteq Slots
    BY <1>3 DEF InputShape
  <1> QED BY <1>3, <1>6, <1>8, <1>9, <1>10, UserStep

\* ACTION_DOWN and ACTION_UP of one contact.
LEMMA ContactStep ==
  ASSUME InputShape, OnItsWay, NEW c \in Slots, NEW p \in {"begin", "end"},
         UserActs, phys' = phys, coalescible' = coalescible,
         contacts' = (IF p = "begin" THEN contacts \cup {c} ELSE contacts \ {c}),
         lost' = Missed(AsContacts({c})), critical' = Emitted(<<Touch(c, p)>>)
  PROVE  InputShape' /\ OnItsWay'
  <1> DEFINE e == Touch(c, p)
  <1>1. e \in CriticalEvents
    BY DEF CriticalEvents
  <1>2. critical' = Emitted(<<e>>)
    OBVIOUS
  <1>3. /\ \A x : On(Encode(e), x) <=> x = <<5, c>>
        /\ Down(Encode(e)) <=> p = "begin"
    BY TouchFrameOn
  <1>4. Allowed(e) <=> <<5, c>> \in Live
    BY LiveContact
  <1> HIDE DEF e
  <1>4a. lost' = (IF showing THEN lost \ {<<5, c>>} ELSE lost \cup {<<5, c>>})
    BY DEF Missed, AsContacts
  <1>5. /\ critical' = (IF showing /\ Allowed(e) THEN Append(critical, e) ELSE critical)
        /\ critical' \in Seq(CriticalEvents)
    BY <1>1, <1>2, EmittedOne
  <1>6. ASSUME NEW x \in Live, Tracked(wire, critical, x, Held, Holds)
        PROVE  Tracked(wire, critical', x, Held', Holds)
    <2>1. wire \in Seq(Frames) /\ critical \in Seq(CriticalEvents)
      BY DEF InputShape
    <2>2. On(Encode(e), x) /\ Down(Encode(e)) => x \in Held'
      BY <1>3, ContactsAre DEF Held
    <2>3. x # <<5, c>> => (x \in Held => x \in Held')
      <3>1. x # <<5, c>> => (x \in lost => x \in lost')
        BY <1>4a
      <3>2. x # <<5, c>> => (x \in AsContacts(contacts) => x \in AsContacts(contacts'))
        BY DEF AsContacts
      <3>3. Held = phys \cup AsContacts(contacts) \cup lost /\ Held' = phys \cup AsContacts(contacts') \cup lost'
        BY DEF Held
      <3> QED BY <3>1, <3>2, <3>3
    <2>4. ~On(Encode(e), x) \/ ~(showing /\ Allowed(e)) => (x \in Held => x \in Held')
      <3>1. ~showing => <<5, c>> \in Held'
        BY <1>4a DEF Held
      <3> QED BY <1>3, <1>4, <2>3, <3>1
    <2> QED BY ONLY <1>5, <1>6, <2>1, <2>2, <2>4, OneEmitted, Zenon
  <1>7. phys' \subseteq Items /\ contacts' \subseteq Slots /\ coalescible' \in Seq(MotionEvents)
    BY DEF InputShape
  <1> QED BY <1>5, <1>6, <1>7, UserStep

\* ACTION_CANCEL and updateViewport.
LEMMA CancelStep ==
  ASSUME InputShape, OnItsWay, TouchesCancelled
  PROVE  InputShape' /\ OnItsWay'
  <1> DEFINE n == Cardinality(contacts)
  <1>0. n \in Nat
    <2>1. IsFiniteSet(Slots)
      BY InputAssumption, FS_Interval DEF Slots
    <2>2. IsFiniteSet(contacts)
      BY <2>1, FS_Subset DEF InputShape
    <2> QED BY <2>2, FS_CardinalityType
  <1>1. /\ UserActs /\ contacts # {} /\ contacts' = {} /\ phys' = phys /\ coalescible' = coalescible
        /\ \E order \in [1 .. n -> contacts] :
              /\ \A c \in contacts : \E k \in DOMAIN order : order[k] = c
              /\ critical' = Emitted([k \in DOMAIN order |-> Touch(order[k], "cancel")])
        /\ lost' = (IF showing THEN lost \ AsContacts(contacts) ELSE lost \cup AsContacts(contacts))
    BY DEF TouchesCancelled, Missed
  <1> HIDE DEF n
  <1>2. PICK order \in [1 .. n -> contacts] :
              /\ \A c \in contacts : \E k \in 1 .. n : order[k] = c
              /\ critical' = Emitted([k \in 1 .. n |-> Touch(order[k], "cancel")])
    BY <1>1
  <1>2a. order \in [1 .. n -> contacts]
    OBVIOUS
  <1> DEFINE es == [k \in 1 .. n |-> Touch(order[k], "cancel")]
  <1>3. DOMAIN es = 1 .. n /\ \A k \in 1 .. n : es[k] = Touch(order[k], "cancel") /\ order[k] \in Slots
    BY DEF InputShape
  <1>4. critical' = (IF showing /\ \A k \in 1 .. n : Allowed(Touch(order[k], "cancel")) THEN critical \o es ELSE critical)
    <2>1. critical' = Emitted(es) /\ DOMAIN es = 1 .. n
      BY <1>2, <1>3
    <2>2. (\A k \in DOMAIN es : Allowed(es[k])) <=> (\A k \in 1 .. n : Allowed(Touch(order[k], "cancel")))
      BY <1>3, <2>1
    <2> HIDE DEF es
    <2> QED BY <2>1, <2>2 DEF Emitted
  <1>5. es = [k \in 1 .. n |-> Touch(order[k], "cancel")]
    OBVIOUS
  <1> HIDE DEF es
  <1>6. wire \in Seq(Frames) /\ critical \in Seq(CriticalEvents) /\ contacts \in SUBSET Slots
    BY DEF InputShape
  <1>7. Held = phys \cup AsContacts(contacts) \cup lost /\ Held' = phys \cup lost'
    BY <1>1 DEF Held, AsContacts
  <1>8. CASE showing /\ \A k \in 1 .. n : Allowed(Touch(order[k], "cancel"))
    <2>1. critical' = critical \o es
      BY <1>4, <1>8
    <2>2. es \in Seq(CriticalEvents)
      <3>1. \A k \in 1 .. n : es[k] \in CriticalEvents
        BY <1>3 DEF CriticalEvents
      <3> QED BY <1>0, <1>5, <3>1
    <2>3. ASSUME NEW x, Tracked(wire, critical, x, Held, Holds)
          PROVE  Tracked(wire, critical', x, Held', Holds)
      <3>0. Held = Held' \cup AsContacts(contacts)
        BY <1>1, <1>7, <1>8
      <3>1. Tracked(wire, critical, x, Held' \cup AsContacts(contacts), Holds)
        BY <2>3, <3>0
      <3>2. /\ \A k \in DOMAIN es : \E s \in contacts : es[k] = Touch(s, "cancel")
            /\ \A s \in contacts : \E k \in DOMAIN es : es[k] = Touch(s, "cancel")
        BY <1>2, <1>2a, <1>3
      <3> QED BY ONLY <1>6, <2>1, <2>2, <3>1, <3>2, AllCancelled, Zenon
    <2>4. phys' \subseteq Items /\ contacts' \subseteq Slots /\ coalescible' \in Seq(MotionEvents)
      BY <1>1 DEF InputShape
    <2>5. critical' \in Seq(CriticalEvents)
      BY <1>6, <2>1, <2>2
    <2> QED BY <1>1, <2>3, <2>4, <2>5, UserStep
  <1>9. CASE ~(showing /\ \A k \in 1 .. n : Allowed(Touch(order[k], "cancel")))
    <2>1. critical' = critical
      BY <1>4, <1>9
    <2>2. showing => \A s \in Slots : <<5, s>> \notin Live
      <3>1. ASSUME NEW k \in 1 .. n, ~Allowed(Touch(order[k], "cancel")) PROVE "touch" \notin Negotiated
        BY <3>1 DEF Allowed, Touch
      <3>2. "touch" \notin Negotiated => \A s \in Slots : <<5, s>> \notin Live
        BY LiveContact DEF Allowed, Touch
      <3> QED BY <1>9, <3>1, <3>2, Zenon
    <2>3. ASSUME NEW x \in Live, Tracked(wire, critical, x, Held, Holds)
          PROVE  Tracked(wire, critical', x, Held', Holds)
      <3>1. x \in Held => x \in Held'
        BY <1>1, <1>6, <1>7, <2>2 DEF AsContacts
      <3> QED BY <2>1, <2>3, <3>1 DEF Tracked
    <2>4. phys' \subseteq Items /\ contacts' \subseteq Slots /\ coalescible' \in Seq(MotionEvents)
          /\ critical' \in Seq(CriticalEvents)
      BY <1>1, <2>1 DEF InputShape
    <2> QED BY <1>1, <2>3, <2>4, UserStep
  <1> QED BY <1>8, <1>9

\* Every step of the user's.
LEMMA UserKeeps ==
  ASSUME InputShape, OnItsWay, User
  PROVE  InputShape' /\ OnItsWay'
  <1>1. ASSUME NEW i \in Items, ItemChanges(i) PROVE InputShape' /\ OnItsWay'
    BY <1>1, ItemStep
  <1>2. ASSUME UserActs, NEW e \in MotionEvents, coalescible' = Offered(e), UNCHANGED <<phys, contacts, critical, lost>>
        PROVE  InputShape' /\ OnItsWay'
    <2>1. coalescible' \in Seq(MotionEvents)
      BY <1>2, OfferedShape
    <2>2. Held' = Held /\ phys' \subseteq Items /\ contacts' \subseteq Slots /\ critical' \in Seq(CriticalEvents)
      BY <1>2 DEF Held, InputShape
    <2>3. critical' = critical
      BY <1>2
    <2> QED BY <1>2, <2>1, <2>2, <2>3, UserStep
  <1>3. CASE PointerMoves
    <2>1. PICK e \in {PointerMove, Wheel} : coalescible' = Offered(e)
      BY <1>3 DEF PointerMoves
    <2>2. UserActs /\ UNCHANGED <<phys, contacts, critical, lost>> /\ e \in MotionEvents
      BY <1>3 DEF PointerMoves, MotionEvents
    <2> QED BY <1>2, <2>1, <2>2
  <1>4. ASSUME NEW c \in Slots, TouchMoves(c) PROVE InputShape' /\ OnItsWay'
    <2>1. /\ UserActs /\ UNCHANGED <<phys, contacts, critical, lost>>
          /\ Touch(c, "move") \in MotionEvents /\ coalescible' = Offered(Touch(c, "move"))
      BY <1>4 DEF TouchMoves, MotionEvents
    <2> QED BY <1>2, <2>1
  <1>5. CASE TouchBegins
    <2> DEFINE c == Min(Slots \ contacts)
    <2>1. /\ UserActs /\ contacts # Slots /\ contacts' = contacts \cup {c}
          /\ critical' = Emitted(<<Touch(c, "begin")>>) /\ lost' = Missed(AsContacts({c}))
          /\ UNCHANGED <<phys, coalescible>>
      BY <1>5 DEF TouchBegins
    <2>2. c \in Slots
      BY <2>1, LowestFree
    <2> HIDE DEF c
    <2> QED BY <2>1, <2>2, ContactStep
  <1>6. ASSUME NEW c \in Slots, TouchEnds(c) PROVE InputShape' /\ OnItsWay'
    <2>1. /\ UserActs /\ contacts' = contacts \ {c}
          /\ critical' = Emitted(<<Touch(c, "end")>>) /\ lost' = Missed(AsContacts({c})) /\ phys' = phys /\ coalescible' = coalescible
      BY <1>6 DEF TouchEnds
    <2>2. contacts' = (IF "end" = "begin" THEN contacts \cup {c} ELSE contacts \ {c})
      BY <2>1
    <2> QED BY <2>1, <2>2, ContactStep
  <1>7. CASE TouchesCancelled
    BY <1>7, CancelStep
  <1>8. ASSUME NEW p \in {"gained", "lost"}, FocusChanges(p) PROVE InputShape' /\ OnItsWay'
    <2> DEFINE e == Focus(p)
    <2>1. UserActs /\ critical' = Emitted(<<e>>) /\ UNCHANGED <<phys, contacts, lost, coalescible>>
      BY <1>8 DEF FocusChanges
    <2>2. e \in CriticalEvents /\ e \in {PointerMove, Wheel, Focus("gained"), Focus("lost")}
      BY DEF CriticalEvents
    <2> HIDE DEF e
    <2>3. \A x : ~On(Encode(e), x)
      BY <2>2, OtherFrames
    <2>4. /\ critical' = (IF showing /\ Allowed(e) THEN Append(critical, e) ELSE critical)
          /\ critical' \in Seq(CriticalEvents)
      BY <2>1, <2>2, EmittedOne
    <2>5. Held' = Held /\ phys' \subseteq Items /\ contacts' \subseteq Slots /\ coalescible' \in Seq(MotionEvents)
      BY <2>1 DEF Held, InputShape
    <2>6. wire \in Seq(Frames) /\ critical \in Seq(CriticalEvents)
      BY DEF InputShape
    <2>7. ASSUME NEW x \in Live, Tracked(wire, critical, x, Held, Holds)
          PROVE  Tracked(wire, critical', x, Held', Holds)
      <3>1. On(Encode(e), x) /\ Down(Encode(e)) => x \in Held'
        BY <2>3
      <3>2. ~On(Encode(e), x) \/ ~(showing /\ Allowed(e)) => (x \in Held => x \in Held')
        BY <2>5
      <3> QED BY ONLY <2>4, <2>6, <2>7, <3>1, <3>2, OneEmitted, Zenon
    <2> QED BY <2>1, <2>4, <2>5, <2>7, UserStep
  <1> QED BY <1>1, <1>3, <1>4, <1>5, <1>6, <1>7, <1>8 DEF User

\* handleDecoderState lets go of nothing.
LEMMA DecoderKeeps ==
  ASSUME InputShape, OnItsWay, DecoderChanges
  PROVE  InputShape' /\ OnItsWay'
  BY DEF DecoderChanges, laneVars, hostVars, osVars, InputShape, OnItsWay, Held, Holds

\* SessionOutboundMux: a critical event is carried over, and a motion goes on
\* the wire only when no critical event waits.
LEMMA MuxKeeps ==
  ASSUME InputShape, OnItsWay, Mux
  PROVE  InputShape' /\ OnItsWay'
  <1>0. /\ status = "active" /\ status' = status /\ phys' = phys /\ contacts' = contacts
        /\ showing' = showing /\ lost' = lost /\ pressed' = pressed /\ touches' = touches
        /\ osPressed' = osPressed /\ osTouches' = osTouches /\ refused' = refused
    BY DEF Mux, androidVars, hostVars, osVars
  <1>1. Holds' = Holds /\ Held' = Held
    BY <1>0 DEF Holds, Held
  <1>2. wire \in Seq(Frames) /\ critical \in Seq(CriticalEvents) /\ coalescible \in Seq(MotionEvents)
    BY DEF InputShape
  <1>3. ASSUME wire' \in Seq(Frames), critical' \in Seq(CriticalEvents), coalescible' \in Seq(MotionEvents),
               \A x \in Live : Tracked(wire, critical, x, Held, Holds)
                                 => Tracked(wire', critical', x, Held, Holds)
        PROVE  InputShape' /\ OnItsWay'
    <2>1. InputShape'
      BY <1>0, <1>1, <1>3 DEF InputShape
    <2>2. OnItsWay'
      BY <1>0, <1>1, <1>3 DEF OnItsWay
    <2> QED BY <2>1, <2>2
  <1>4. CASE critical # <<>> /\ wire' = Append(wire, Encode(Head(critical))) /\ critical' = Tail(critical)
             /\ UNCHANGED coalescible
    <2>1. Head(critical) \in CriticalEvents /\ Tail(critical) \in Seq(CriticalEvents)
      BY <1>2, <1>4
    <2>2. Encode(Head(critical)) \in Frames
      BY <2>1 DEF Frames
    <2>3. wire' \in Seq(Frames)
      <3> DEFINE g == Encode(Head(critical))
      <3>1. g \in Frames /\ wire' = Append(wire, g)
        BY <1>4, <2>2
      <3> HIDE DEF g
      <3> QED BY <1>2, <3>1
    <2>4. ASSUME NEW x, Tracked(wire, critical, x, Held, Holds) PROVE Tracked(wire', critical', x, Held, Holds)
      <3>1. ASSUME NEW g, g = Encode(Head(critical)) PROVE Tracked(wire', critical', x, Held, Holds)
        <4>1. wire' = Append(wire, g) /\ critical' = Tail(critical) /\ critical # <<>>
          BY <1>4, <3>1
        <4> QED BY ONLY <1>2, <2>4, <3>1, <4>1, CarriedOver, Zenon
      <3> QED BY <3>1
    <2> QED BY <1>2, <1>3, <1>4, <2>1, <2>3, <2>4
  <1>5. CASE critical = <<>> /\ coalescible # <<>> /\ wire' = Append(wire, Encode(Head(coalescible)))
             /\ coalescible' = Tail(coalescible) /\ UNCHANGED critical
    <2> DEFINE e == Head(coalescible)
               g == Encode(e)
               n == Len(wire)
    <2>1. e \in MotionEvents /\ coalescible' \in Seq(MotionEvents)
      BY <1>2, <1>5
    <2>2. g \in Frames /\ wire' = Append(wire, g)
      BY <1>5, <2>1 DEF Frames
    <2> HIDE DEF e
    <2>3. \A x : ~On(g, x)
      <3>1. CASE e \in {PointerMove, Wheel}
        BY <3>1, OtherFrames
      <3>2. CASE e \in {Touch(c, "move") : c \in Slots}
        BY <3>2, TouchFrameOn
      <3> QED BY <2>1, <3>1, <3>2 DEF MotionEvents
    <2> HIDE DEF g
    <2>4. n \in Nat /\ wire' \in Seq(Frames) /\ Len(wire') = n + 1 /\ wire'[n + 1] = g
          /\ \A k \in 1 .. n : wire'[k] = wire[k]
      BY <1>2, <2>2
    <2>5. critical' = <<>> /\ Len(critical) = 0 /\ Len(critical') = 0
      BY <1>5
    <2>6. n + 1 \in Nat /\ n <= n + 1 /\ Span(wire, critical) = 1 .. n /\ Span(wire', critical') = 1 .. n + 1
      BY <2>4, <2>5 DEF Span
    <2>7. \A k \in 1 .. n : At(wire', critical', k) = At(wire, critical, k)
      BY <2>4 DEF At
    <2>8. At(wire', critical', n + 1) = g
      BY <2>4 DEF At
    <2> HIDE DEF n
    <2>9. \A k \in 1 .. n + 1 : k > n => At(wire', critical', k) = g
      BY <2>4, <2>8
    <2>10. ASSUME NEW x, Tracked(wire, critical, x, Held, Holds) PROVE Tracked(wire', critical', x, Held, Holds)
      <3>1. ASSUME NEW m, m = n + 1 PROVE Tracked(wire', critical', x, Held, Holds)
        <4>1. n \in Nat /\ m \in Nat /\ n <= m /\ Span(wire, critical) = 1 .. n /\ Span(wire', critical') = 1 .. m
          BY <2>4, <2>6, <3>1
        <4>2. \A k \in 1 .. m : k > n /\ On(At(wire', critical', k), x) /\ Down(At(wire', critical', k)) => x \in Held
          BY <2>3, <2>9, <3>1
        <4>3. (\A k \in 1 .. m : k > n => ~On(At(wire', critical', k), x)) => (x \in Held => x \in Held)
          OBVIOUS
        <4> QED BY ONLY <2>7, <2>10, <4>1, <4>2, <4>3, Extended, Zenon
      <3> QED BY <3>1
    <2>11. critical' \in Seq(CriticalEvents)
      BY <1>2, <1>5
    <2> QED BY <1>3, <2>1, <2>4, <2>10, <2>11
  <1> QED BY <1>4, <1>5 DEF Mux

-----------------------------------------------------------------------------
(***************************************************************************)
(* What the host does with the oldest frame, and how it lets go.           *)
(***************************************************************************)
\* A frame that takes nothing out of what the host holds, besides its own item
\* or contact, keeps the rest tracked.
LEMMA HostStep ==
  ASSUME InputShape, OnItsWay, status = "active", wire # <<>>, wire' = Tail(wire),
         UNCHANGED <<androidVars, laneVars>>,
         status' \in {"active", "ending"}, pressed' \subseteq Items, touches' \subseteq Slots,
         Holds' \subseteq Live, osPressed' = pressed', osTouches' = touches',
         \A x : x \in Holds' /\ On(Head(wire), x) => Down(Head(wire)),
         \A x : x \in Holds' /\ ~On(Head(wire), x) => x \in Holds
  PROVE  InputShape' /\ OnItsWay'
  <1>1. phys' = phys /\ contacts' = contacts /\ critical' = critical /\ coalescible' = coalescible
        /\ showing' = showing /\ lost' = lost
    BY DEF androidVars, laneVars
  <1>2. Held' = Held
    BY <1>1 DEF Held
  <1>3. wire \in Seq(Frames) /\ critical \in Seq(CriticalEvents) /\ wire' \in Seq(Frames)
    BY DEF InputShape
  <1>4. InputShape'
    BY <1>1, <1>3 DEF InputShape
  <1>5. ASSUME NEW x \in Live PROVE Tracked(wire', critical, x, Held, Holds')
    <2>1. Tracked(wire, critical, x, Held, Holds)
      BY DEF OnItsWay
    <2> QED BY <1>3, <2>1, Consumed
  <1>6. OnItsWay'
    BY <1>1, <1>2, <1>5 DEF OnItsWay
  <1> QED BY <1>4, <1>6

\* A session that fails leaves everything as it is.
LEMMA FailStep ==
  ASSUME InputShape, wire' \in Seq(Frames), UNCHANGED <<androidVars, laneVars>>, Fails
  PROVE  InputShape' /\ OnItsWay'
  <1>1. /\ status' = "ending" /\ phys' = phys /\ contacts' = contacts /\ critical' = critical
        /\ showing' = showing /\ coalescible' = coalescible /\ pressed' = pressed /\ touches' = touches
        /\ osPressed' = osPressed /\ osTouches' = osTouches
    BY DEF Fails, androidVars, laneVars, hostVars, osVars
  <1>2. Holds' = Holds
    BY <1>1 DEF Holds
  <1> QED BY <1>1, <1>2 DEF InputShape, OnItsWay

\* release_all only lets go, keeps Windows in step, and records what Windows
\* refused: all that is still held.
LEMMA Releases ==
  ASSUME InputShape, NEW stuck, NEW cancels, ReleaseAll(stuck, cancels)
  PROVE  /\ pressed' \subseteq pressed /\ touches' \subseteq touches
         /\ osPressed' = pressed' /\ osTouches' = touches'
         /\ Holds' \subseteq Holds /\ Holds' \subseteq refused'
  <1> DEFINE frame == TouchFrame(touches, <<>>)
             held == IF cancels /\ WindowsTakes(frame) THEN {} ELSE touches
  <1>1. /\ touches' = held /\ osTouches' = (IF held = {} THEN InContact(frame) ELSE osTouches)
        /\ pressed' = pressed \cap stuck /\ osPressed' = osPressed \ (pressed \ stuck)
        /\ refused' = refused \cup (stuck \cap pressed) \cup AsContacts(held)
    BY DEF ReleaseAll
  <1>2. InContact(frame) = {}
    BY DEF InContact, TouchFrame
  <1>3. held = {} \/ held = touches
    OBVIOUS
  <1> HIDE DEF frame, held
  <1>4. osPressed = pressed /\ osTouches = touches
    BY DEF InputShape
  <1>5. touches' \subseteq touches /\ pressed' \subseteq pressed /\ osPressed' = pressed' /\ osTouches' = touches'
    BY <1>1, <1>2, <1>3, <1>4
  <1>6. Holds' = (pressed \cap stuck) \cup AsContacts(held)
    BY <1>1 DEF Holds
  <1>7. AsContacts(held) \subseteq AsContacts(touches)
    BY <1>3 DEF AsContacts
  <1> QED BY <1>1, <1>5, <1>6, <1>7 DEF Holds

\* pointer_button and key.
LEMMA InjectItemKeeps ==
  ASSUME InputShape, OnItsWay, status = "active", wire # <<>>, wire' = Tail(wire),
         UNCHANGED <<androidVars, laneVars>>,
         NEW i \in Items, NEW p \in {"press", "release"}, Head(wire) = Encode(Item(i, p)),
         i \in Live, InjectItem(i, p = "press")
  PROVE  InputShape' /\ OnItsWay'
  <1> DEFINE press == (p = "press")
             f == Head(wire)
  <1>1. (\A x : On(f, x) <=> x = i) /\ (Down(f) <=> press)
    BY ItemFrame
  <1>2. i \notin AsContacts(touches) /\ wire' \in Seq(Frames)
    <2>1. i \notin AsContacts(Slots) /\ touches \subseteq Slots
      BY LiveItem DEF InputShape
    <2> QED BY <2>1 DEF AsContacts, InputShape
  <1>3. press \in BOOLEAN
    OBVIOUS
  <1> HIDE DEF press, f
  <1>4. CASE Fails
    BY <1>2, <1>4, FailStep
  <1>5. CASE (i \in pressed) = press /\ UNCHANGED <<status, hostVars, osVars>>
    <2>1. /\ status' = status /\ pressed' = pressed /\ touches' = touches
          /\ osPressed' = osPressed /\ osTouches' = osTouches
      BY <1>5 DEF hostVars, osVars
    <2>2. Holds' = Holds
      BY <2>1 DEF Holds
    <2>3. \A x : x \in Holds' /\ On(f, x) => Down(f)
      BY <1>1, <1>2, <1>5, <2>2 DEF Holds
    <2>4. /\ status' \in {"active", "ending"} /\ pressed' \subseteq Items /\ touches' \subseteq Slots
          /\ Holds' \subseteq Live /\ osPressed' = pressed' /\ osTouches' = touches'
      BY <2>1, <2>2 DEF InputShape
    <2>5. \A x : x \in Holds' /\ ~On(f, x) => x \in Holds
      BY <2>2
    <2> QED BY <2>3, <2>4, <2>5, HostStep DEF f
  <1>6. CASE /\ pressed' = IF press THEN pressed \cup {i} ELSE pressed \ {i}
             /\ osPressed' = IF press THEN osPressed \cup {i} ELSE osPressed \ {i}
             /\ UNCHANGED <<status, touches, osTouches, refused>>
    <2>1. Holds' = pressed' \cup AsContacts(touches)
      BY <1>6 DEF Holds
    <2>2. \A x : x \in Holds' /\ On(f, x) => Down(f)
      BY <1>1, <1>2, <1>6, <2>1
    <2>3. \A x : x \in Holds' /\ ~On(f, x) => x \in Holds
      BY <1>1, <1>6, <2>1 DEF Holds
    <2>4. /\ status' \in {"active", "ending"} /\ pressed' \subseteq Items /\ touches' \subseteq Slots
          /\ osPressed' = pressed' /\ osTouches' = touches'
      BY <1>6 DEF InputShape
    <2>5. Holds' \subseteq Live
      BY <1>6, <2>1 DEF InputShape, Holds
    <2> QED BY <2>2, <2>3, <2>4, <2>5, HostStep DEF f
  <1> QED BY <1>4, <1>5, <1>6 DEF InjectItem, press

\* touch: one contact changes as its frame says, and Windows' contacts are the
\* host's.
LEMMA InjectTouchKeeps ==
  ASSUME InputShape, OnItsWay, status = "active", wire # <<>>, wire' = Tail(wire),
         UNCHANGED <<androidVars, laneVars>>,
         NEW c \in Slots, NEW p \in {"begin", "move", "end", "cancel"}, Head(wire) = Encode(Touch(c, p)),
         <<5, c>> \in Live, InjectTouch(c, p)
  PROVE  InputShape' /\ OnItsWay'
  <1> DEFINE f == Head(wire)
             frame == TouchFrame(touches \cup {c}, <<c, p>>)
  <1>1. (\A x : On(f, x) <=> x = <<5, c>> /\ p # "move") /\ (Down(f) <=> p = "begin")
    BY TouchFrameOn
  <1>2. wire' \in Seq(Frames)
    BY DEF InputShape
  <1>3. CASE Fails
    BY <1>2, <1>3, FailStep
  <1>4. CASE /\ ~((p = "begin") = (c \in touches))
             /\ osTouches' = InContact(frame)
             /\ touches' = IF p \in {"end", "cancel"} THEN touches \ {c} ELSE touches \cup {c}
             /\ UNCHANGED <<status, pressed, osPressed, refused>>
    <2>1. InContact(frame) = (IF p \in {"end", "cancel"} THEN touches \ {c} ELSE touches \cup {c})
      <3>1. <<c, p>> # <<>> /\ <<c, p>>[1] = c /\ <<c, p>>[2] = p
        OBVIOUS
      <3>2. frame = [d \in touches \cup {c} |->
                       IF d # c THEN "update"
                       ELSE CASE p = "begin" -> "down" [] p = "move" -> "update" [] OTHER -> "up"]
        BY <3>1 DEF TouchFrame
      <3> HIDE DEF frame
      <3>3. DOMAIN frame = touches \cup {c}
        BY <3>2
      <3>4. \A d \in touches \cup {c} : d # c => frame[d] = "update"
        BY <3>2
      <3>5. frame[c] = (IF p \in {"end", "cancel"} THEN "up" ELSE IF p = "begin" THEN "down" ELSE "update")
        BY <3>2
      <3> QED BY <3>3, <3>4, <3>5 DEF InContact
    <2> HIDE DEF frame, f
    <2>2. osTouches' = touches' /\ status' = status /\ pressed' = pressed /\ osPressed' = osPressed
      BY <1>4, <2>1
    <2>3. Holds' = pressed \cup AsContacts(touches')
      BY <2>2 DEF Holds
    <2>4. /\ status' \in {"active", "ending"} /\ pressed' \subseteq Items /\ touches' \subseteq Slots
          /\ osPressed' = pressed'
      BY <1>4, <2>2 DEF InputShape
    <2>5. touches' \subseteq touches \cup {c}
      BY <1>4
    <2>6. \A x : x \in Holds' => x \in Holds \/ x = <<5, c>>
      BY <2>3, <2>5 DEF Holds, AsContacts
    <2>7. Holds' \subseteq Live
      BY <2>6 DEF InputShape
    <2>8. <<5, c>> \in Holds' <=> c \in touches'
      <3>1. <<5, c>> \notin pressed
        BY LiveContact DEF InputShape
      <3> QED BY <2>3, <3>1, ContactsAre
    <2>9. \A x : x \in Holds' /\ On(f, x) => Down(f)
      <3> SUFFICES ASSUME c \in touches', p # "move" PROVE Down(f)
        BY <1>1, <2>8
      <3> QED BY <1>1, <1>4
    <2>10. \A x : x \in Holds' /\ ~On(f, x) => x \in Holds
      <3> SUFFICES ASSUME c \in touches', p = "move" PROVE <<5, c>> \in Holds
        BY <1>1, <2>6, <2>8
      <3>1. c \in touches
        BY <1>4
      <3> QED BY <3>1, ContactsAre DEF Holds
    <2> QED BY <2>2, <2>4, <2>7, <2>9, <2>10, HostStep DEF f
  <1> QED BY <1>3, <1>4 DEF InjectTouch

\* handle_usb_control: the frame is what Android encoded, and what the host
\* does with it follows its event.
LEMMA HostKeeps ==
  ASSUME InputShape, OnItsWay, HostReceives
  PROVE  InputShape' /\ OnItsWay'
  <1> DEFINE f == Head(wire)
             d == Decode(f)
  <1>1. /\ status = "active" /\ wire # <<>> /\ wire' = Tail(wire) /\ UNCHANGED <<androidVars, laneVars>>
        /\ IF d.kind # "invalid" /\ Allowed(d) THEN Inject(d) ELSE Fails
    BY DEF HostReceives
  <1>2. wire' \in Seq(Frames) /\ f \in Frames
    BY <1>1 DEF InputShape
  <1>3. PICK e \in CriticalEvents \cup MotionEvents : f = Encode(e)
    BY <1>2 DEF Frames
  <1>4. CASE Fails
    BY <1>1, <1>2, <1>4, FailStep
  <1>5. CASE d.kind # "invalid" /\ Allowed(d) /\ Inject(d)
    <2>0. d # Invalid
      BY <1>5 DEF Invalid
    <2>1. ASSUME NEW i \in Items, NEW p \in {"press", "release"}, e = Item(i, p)
          PROVE  InputShape' /\ OnItsWay'
      <3>1. d = Item(i, p)
        BY <1>3, <2>0, <2>1, ItemFrame
      <3>2. d.kind = "item" /\ d.on = i /\ d.phase = p
        BY <3>1 DEF Item
      <3>3. InjectItem(i, p = "press")
        BY ONLY <1>5, <3>2, Zenon DEF Inject
      <3>4. i \in Live /\ f = Encode(Item(i, p))
        BY <1>3, <1>5, <2>1, <3>1, LiveItem
      <3> QED BY <1>1, <3>3, <3>4, InjectItemKeeps
    <2>2. ASSUME NEW c \in Slots, NEW p \in {"begin", "move", "end", "cancel"}, e = Touch(c, p)
          PROVE  InputShape' /\ OnItsWay'
      <3>1. d = Touch(c, p)
        BY <1>3, <2>0, <2>2, TouchFrameOn
      <3>2. d.kind = "touch" /\ d.on = c /\ d.phase = p
        BY <3>1 DEF Touch
      <3>3. d.kind # "item"
        BY <3>2
      <3>4. InjectTouch(c, p)
        BY ONLY <1>5, <3>2, <3>3, Zenon DEF Inject
      <3>5. <<5, c>> \in Live /\ f = Encode(Touch(c, p))
        BY <1>3, <1>5, <2>2, <3>1, LiveContact
      <3> QED BY <1>1, <3>4, <3>5, InjectTouchKeeps
    <2>3. ASSUME e \in {PointerMove, Wheel, Focus("gained"), Focus("lost")}
          PROVE  InputShape' /\ OnItsWay'
      <3>1. d = e /\ \A x : ~On(f, x)
        BY <1>3, <2>3, OtherFrames
      <3>2. ASSUME pressed' \subseteq pressed, touches' \subseteq touches, Holds' \subseteq Holds,
                   osPressed' = pressed', osTouches' = touches', status' \in {"active", "ending"}
            PROVE  InputShape' /\ OnItsWay'
        <4>1. pressed' \subseteq Items /\ touches' \subseteq Slots /\ Holds' \subseteq Live
          BY <3>2 DEF InputShape
        <4>2. (\A x : x \in Holds' /\ On(f, x) => Down(f)) /\ (\A x : x \in Holds' /\ ~On(f, x) => x \in Holds)
          BY <3>1, <3>2
        <4> QED BY <1>1, <3>2, <4>1, <4>2, HostStep
      <3>3. CASE e \in {PointerMove, Wheel}
        <4>1. d.kind = "pointer"
          BY <3>1, <3>3 DEF PointerMove, Wheel
        <4>2. d.kind # "item" /\ d.kind # "touch"
          BY <4>1
        <4>3. UNCHANGED <<hostVars, osVars>> /\ status' \in {"active", "ending"}
          BY ONLY <1>5, <4>1, <4>2, Zenon DEF Inject
        <4>4. pressed' = pressed /\ touches' = touches /\ osPressed' = osPressed /\ osTouches' = osTouches
          BY <4>3 DEF hostVars, osVars
        <4>5. Holds' = Holds
          BY <4>4 DEF Holds
        <4> QED BY <3>2, <4>3, <4>4, <4>5 DEF InputShape
      <3>4. CASE e \in {Focus("gained"), Focus("lost")}
        <4>1. d.kind = "focus"
          BY <3>1, <3>4 DEF Focus
        <4>2. d.kind # "item" /\ d.kind # "touch" /\ d.kind # "pointer"
          BY <4>1
        <4>3. IF d.phase = "gained" THEN UNCHANGED <<status, hostVars, osVars>>
              ELSE \E stuck \in SUBSET Items, cancels \in BOOLEAN :
                     /\ ReleaseAll(stuck, cancels)
                     /\ status' = IF refused' = {} THEN "active" ELSE "ending"
          BY ONLY <1>5, <4>1, <4>2, Zenon DEF Inject
        <4>4. CASE UNCHANGED <<status, hostVars, osVars>>
          <5>1. status' = status /\ pressed' = pressed /\ touches' = touches /\ osPressed' = osPressed /\ osTouches' = osTouches
            BY <4>4 DEF hostVars, osVars
          <5>2. Holds' = Holds
            BY <5>1 DEF Holds
          <5> QED BY <1>1, <3>2, <5>1, <5>2 DEF InputShape
        <4>5. ASSUME NEW stuck, NEW cancels, ReleaseAll(stuck, cancels),
                     status' = IF refused' = {} THEN "active" ELSE "ending"
              PROVE  InputShape' /\ OnItsWay'
          <5>1. status' \in {"active", "ending"}
            BY <4>5
          <5>2. /\ pressed' \subseteq pressed /\ touches' \subseteq touches /\ Holds' \subseteq Holds
                /\ osPressed' = pressed' /\ osTouches' = touches'
            BY <4>5, Releases
          <5> QED BY <3>2, <5>1, <5>2
        <4> QED BY <4>3, <4>4, <4>5
      <3> QED BY <2>3, <3>3, <3>4
    <2> QED BY <2>1, <2>2, <2>3 DEF CriticalEvents, MotionEvents
  <1> QED BY <1>1, <1>4, <1>5

\* The session loop returns, and the controller is dropped.
LEMMA EndKeeps ==
  ASSUME InputShape, OnItsWay, SessionEnds \/ DropController
  PROVE  InputShape' /\ OnItsWay'
  <1>1. CASE SessionEnds
    <2>1. Fails /\ UNCHANGED <<androidVars, laneVars>> /\ wire' = wire
      BY <1>1 DEF SessionEnds, Fails
    <2>2. wire' \in Seq(Frames)
      BY <2>1 DEF InputShape
    <2> QED BY <2>1, <2>2, FailStep
  <1>2. CASE DropController
    <2>1. PICK stuck \in SUBSET Items, cancels \in BOOLEAN : ReleaseAll(stuck, cancels)
      BY <1>2 DEF DropController
    <2>2. /\ pressed' \subseteq pressed /\ touches' \subseteq touches /\ Holds' \subseteq Holds
          /\ osPressed' = pressed' /\ osTouches' = touches' /\ Holds' \subseteq refused'
      BY <2>1, Releases
    <2>3. /\ status' = "closed" /\ phys' = phys /\ contacts' = contacts /\ critical' = critical
          /\ showing' = showing /\ coalescible' = coalescible /\ wire' = wire
      BY <1>2 DEF DropController, androidVars, laneVars
    <2>4. InputShape'
      BY <2>2, <2>3 DEF InputShape
    <2> QED BY <2>3, <2>4 DEF OnItsWay
  <1> QED BY <1>1, <1>2

(***************************************************************************)
(* Whatever is dropped, refused or released on one side: while the session *)
(* is active, what the host holds down and the user does not has its       *)
(* release on the way, or the release was discarded by submitInput because *)
(* the decoder was not ready (Input's inductive invariant).                *)
(***************************************************************************)
THEOREM InputAccounted == InputSpec => [](InputShape /\ OnItsWay)
  <1>1. InputInit => InputShape /\ OnItsWay
    <2> SUFFICES ASSUME InputInit PROVE InputShape /\ OnItsWay
      OBVIOUS
    <2>1. Held = {} /\ Holds = {} /\ status = "active"
      BY DEF InputInit, Held, Holds, AsContacts
    <2>2. InputShape
      <3>1. showing \in BOOLEAN
        BY DEF InputInit
      <3> QED BY <2>1, <3>1 DEF InputInit, InputShape
    <2>3. wire = <<>> /\ critical = <<>> /\ Span(wire, critical) = {}
      BY DEF InputInit, Span
    <2>4. OnItsWay
      BY <2>1, <2>3 DEF OnItsWay, Tracked
    <2> QED BY <2>2, <2>4
  <1>2. InputShape /\ OnItsWay /\ [InputNext]_inputVars => (InputShape /\ OnItsWay)'
    <2> SUFFICES ASSUME InputShape, OnItsWay, [InputNext]_inputVars PROVE InputShape' /\ OnItsWay'
      OBVIOUS
    <2>1. CASE InputNext
      BY <2>1, UserKeeps, DecoderKeeps, MuxKeeps, HostKeeps, EndKeeps DEF InputNext
    <2>2. CASE UNCHANGED inputVars
      BY <2>2 DEF inputVars, androidVars, laneVars, hostVars, osVars, InputShape, OnItsWay, Held, Holds
    <2> QED BY <2>1, <2>2
  <1> QED BY <1>1, <1>2, PTL DEF InputSpec

(***************************************************************************)
(* No stuck input: with nothing on its way, the host holds down only what  *)
(* the user holds or what submitInput discarded the release of, and a      *)
(* session that is over leaves nothing down but what Windows refused to    *)
(* release (NativeInputController.release_all).                            *)
(***************************************************************************)
THEOREM NeverStuck == InputSpec => []NothingStuck
  <1>1. InputShape /\ OnItsWay => NothingStuck
    <2> SUFFICES ASSUME InputShape, OnItsWay PROVE NothingStuck
      OBVIOUS
    <2>1. ASSUME status = "active", critical = <<>>, wire = <<>>
          PROVE  Holds \subseteq Held
      <3>1. Span(wire, critical) = {}
        BY <2>1 DEF Span
      <3>2. \A x \in Live : x \in Holds => x \in Held
        BY <2>1, <3>1 DEF OnItsWay, Tracked
      <3> QED BY <3>2 DEF InputShape
    <2>2. status = "closed" => osPressed \cup AsContacts(osTouches) \subseteq refused
      BY DEF InputShape, Holds
    <2> QED BY <2>1, <2>2 DEF NothingStuck, Held, Holds
  <1> QED BY <1>1, InputAccounted, PTL
=============================================================================
