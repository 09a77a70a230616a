--------------------------- MODULE SessionProofs ---------------------------
(***************************************************************************)
(* Proofs, for every instance of the constants, of the properties that     *)
(* MCSession checks on a small one.                                        *)
(***************************************************************************)
EXTENDS Session, FiniteSetTheorems, TLAPS

(***************************************************************************)
(* What the stated invariants need in order to be inductive: an active     *)
(* session has an agreement; a scheduled retry has not been dialled yet;   *)
(* and the recorded decision is the one the code computes for the current  *)
(* attempt, under a policy some caller passed.                             *)
(***************************************************************************)
ActiveHasAgreement == phase = "Active" => agreement \in Agreement
DialsFollowSchedule ==
    /\ dials <= attempts
    /\ phase = "ReconnectScheduled" => dials < attempts
    /\ attempts > 0 => \E p \in Policy : attempts <= p.max_attempts
StreamIsFinite ==
    /\ IsFiniteSet(accepted)
    /\ accepted = {} => skipped = 0
DecisionIsPolicy ==
    attempts > 0 =>
        /\ decision.policy \in Policy
        /\ decision.delay = DelayForAttempt(decision.policy, attempts)

IInv ==
    /\ TypeOK
    /\ ActiveHasAgreement
    /\ StreamHasOneAgreement
    /\ CursorIsGreatestAccepted
    /\ StreamIsFinite
    /\ SkippedIsExact
    /\ ResumePointHolds
    /\ DialsFollowSchedule
    /\ DecisionIsPolicy

----------------------------------------------------------------------------
(***************************************************************************)
(* The multiplier is a positive number and grows with the shift, on both   *)
(* sides of the width at which checked_shl fails.                          *)
(***************************************************************************)
LEMMA MultiplierGrows ==
    \A j \in Nat : /\ Multiplier(j) \in Nat
                   /\ Multiplier(j) <= Multiplier(j + 1)
<1> SUFFICES ASSUME NEW j \in Nat
             PROVE  Multiplier(j) \in Nat /\ Multiplier(j) <= Multiplier(j + 1)
    OBVIOUS
<1>1. CASE j + 1 < ShiftWidth
  <2>1. j \in 0 .. ShiftWidth /\ j + 1 \in 0 .. ShiftWidth
        BY <1>1, BoundsAssumption
  <2>2. 2^j \in Nat /\ 2^(j + 1) \in Nat /\ 2^j < 2^(j + 1)
        BY <2>1, PowerAssumption
  <2> QED BY <1>1, <2>2, BoundsAssumption DEF Multiplier
<1>2. CASE j + 1 = ShiftWidth
  <2>1. j \in 0 .. ShiftWidth /\ ShiftWidth \in 0 .. ShiftWidth /\ j < ShiftWidth
        BY <1>2, BoundsAssumption
  <2>2. 2^j \in Nat /\ 2^ShiftWidth \in Nat /\ 2^j < 2^ShiftWidth
        BY <2>1, PowerAssumption
  <2>3. Multiplier(j) = 2^j /\ Multiplier(j + 1) = 2^ShiftWidth - 1
        BY <1>2, BoundsAssumption DEF Multiplier
  <2> QED BY <2>2, <2>3
<1>3. CASE j >= ShiftWidth
  <2>1. ShiftWidth \in 0 .. ShiftWidth
        BY BoundsAssumption
  <2>2. 2^ShiftWidth \in Nat \ {0}
        BY <2>1, PowerAssumption
  <2>3. Multiplier(j) = 2^ShiftWidth - 1 /\ Multiplier(j + 1) = 2^ShiftWidth - 1
        BY <1>3, BoundsAssumption DEF Multiplier
  <2> QED BY <2>2, <2>3
<1> QED BY <1>1, <1>2, <1>3, BoundsAssumption

(***************************************************************************)
(* Delays are durations within the policy's cap, and the delay of the next *)
(* attempt is at least the delay of this one.                              *)
(***************************************************************************)
LEMMA DelayGrows ==
    ASSUME NEW p \in Policy, NEW n \in Nat, n > 0
    PROVE  /\ DelayForAttempt(p, n) \in Nat
           /\ DelayForAttempt(p, n) <= DelayForAttempt(p, n + 1)
<1>1. p.initial_delay \in Nat /\ p.max_delay \in Nat
      BY PolicyAssumption DEF ReconnectPolicy
<1> DEFINE i == p.initial_delay
           m == Multiplier(n - 1)
           mm == Multiplier(n)
<1>2. m \in Nat /\ mm \in Nat /\ m <= mm
  <2>1. n - 1 \in Nat /\ (n - 1) + 1 = n
        OBVIOUS
  <2> QED BY <2>1, MultiplierGrows
<1>3. i * m \in Nat /\ i * mm \in Nat /\ i * m <= i * mm
  <2> HIDE DEF i, m, mm
  <2>1. i \in Nat
        BY <1>1 DEF i
  <2> QED BY <1>2, <2>1
<1>4. (n + 1) - 1 = n
      OBVIOUS
<1> QED BY <1>1, <1>3, <1>4 DEF DelayForAttempt

----------------------------------------------------------------------------
\* A new session satisfies the inductive invariant.
LEMMA InitEstablishesIInv == Init => IInv
<1> SUFFICES ASSUME Init PROVE IInv
    OBVIOUS
<1>1. TypeOK
      BY BoundsAssumption
      DEF Init, TypeOK, Phases, NoDecision, NoSequence, Sequence
<1>2. IsFiniteSet(accepted)
      BY FS_EmptySet DEF Init
<1> QED BY <1>1, <1>2
        DEF Init, IInv, ActiveHasAgreement, StreamHasOneAgreement,
            CursorIsGreatestAccepted, StreamIsFinite, SkippedIsExact,
            ResumePointHolds, DialsFollowSchedule, DecisionIsPolicy

(***************************************************************************)
(* The gap count stays exact when a frame above the cursor is accepted.    *)
(***************************************************************************)
LEMMA ObserveKeepsStream ==
    ASSUME IInv, NEW seq \in Sequence, ObserveSequence(seq)
    PROVE  /\ CursorIsGreatestAccepted'
           /\ StreamIsFinite'
           /\ SkippedIsExact'
<1> DEFINE new == [seq |-> seq, under |-> agreement]
<1>1. /\ \A f \in accepted : f.seq \in Sequence /\ f.seq <= highest
      /\ accepted = {} <=> highest = NoSequence
      /\ highest \in Sequence \union {NoSequence}
      /\ skipped \in Nat
      /\ accepted = {} => skipped = 0
      BY DEF IInv, TypeOK, CursorIsGreatestAccepted, StreamIsFinite
<1>2. /\ accepted' = accepted \union {new}
      /\ highest' = seq
      /\ skipped' = skipped + Gap(seq)
      /\ highest = NoSequence \/ seq > highest
      BY DEF ObserveSequence, Advances
<1>3. \A f \in accepted : f.seq < seq
      BY <1>1, <1>2, BoundsAssumption DEF Sequence, NoSequence
<1>4. new \notin accepted /\ new.seq = seq
      BY <1>3, BoundsAssumption DEF Sequence
<1>5. CursorIsGreatestAccepted'
  <2>1. accepted' # {} /\ highest' # NoSequence
    <3>1. new \in accepted'
          BY <1>2
    <3>2. highest' # NoSequence
          BY <1>2, BoundsAssumption DEF Sequence, NoSequence
    <3> QED BY <3>1, <3>2
  <2>2. \A f \in accepted' : f.seq <= highest'
        BY <1>1, <1>2, <1>3, <1>4, BoundsAssumption DEF Sequence
  <2>3. \E f \in accepted' : f.seq = highest'
        BY <1>2, <1>4
  <2> QED BY <2>1, <2>2, <2>3 DEF CursorIsGreatestAccepted
<1>6. /\ IsFiniteSet(accepted)
      /\ Cardinality(accepted) \in Nat
      /\ Cardinality(accepted') = Cardinality(accepted) + 1
      /\ IsFiniteSet(accepted')
  <2>1. IsFiniteSet(accepted)
        BY DEF IInv, StreamIsFinite
  <2> QED BY <1>2, <1>4, <2>1, FS_AddElement, FS_CardinalityType
<1>7. StreamIsFinite'
      BY <1>2, <1>6 DEF StreamIsFinite
<1>8. SkippedIsExact'
  <2> SUFFICES ASSUME NEW first \in accepted',
                      \A f \in accepted' : first.seq <= f.seq
               PROVE  skipped' + Cardinality(accepted') = highest' - first.seq + 1
      BY DEF SkippedIsExact
  <2>1. CASE accepted = {}
    <3>1. first = new /\ Cardinality(accepted) = 0
          BY <2>1, <1>2, FS_EmptySet
    <3>2. skipped' = 0
          BY <2>1, <1>1, <1>2 DEF Gap
    <3> QED BY <3>1, <3>2, <1>2, <1>4, <1>6, BoundsAssumption DEF Sequence
  <2>2. CASE accepted # {}
    <3>1. first \in accepted
          BY <2>2, <1>2, <1>3, <1>4, <1>1, BoundsAssumption DEF Sequence
    <3>2. skipped + Cardinality(accepted) = highest - first.seq + 1
          BY <3>1, <1>2 DEF IInv, SkippedIsExact
    <3>3. skipped' = skipped + (seq - highest - 1)
          BY <2>2, <1>1, <1>2 DEF Gap
    <3>4. highest \in Int /\ seq \in Int /\ first.seq \in Int
          BY <3>1, <1>1, BoundsAssumption DEF Sequence, NoSequence
    <3> QED BY <3>2, <3>3, <3>4, <1>1, <1>2, <1>6
  <2> QED BY <2>1, <2>2
<1> QED BY <1>5, <1>7, <1>8

\* Every method of the session preserves it.
LEMMA NextPreservesIInv == IInv /\ [Next]_vars => IInv'
<1> SUFFICES ASSUME IInv, [Next]_vars PROVE IInv'
    OBVIOUS
<1> USE DEF IInv
<1>1. CASE UNCHANGED vars
      BY <1>1 DEF vars, TypeOK, ActiveHasAgreement, StreamHasOneAgreement,
         CursorIsGreatestAccepted, StreamIsFinite, SkippedIsExact,
         ResumePointHolds, DialsFollowSchedule, DecisionIsPolicy
<1>2. CASE Start \/ TransportLost \/ Close \/ \E p \in Policy : GiveUp(p)
  <2>1. phase' \in Phases \ {"Active", "ReconnectScheduled"}
        BY <1>2 DEF Start, TransportLost, Close, GiveUp, Phases
  <2>2. UNCHANGED <<agreement, generation, attempts, highest,
                    decision, accepted, skipped, dials>>
        BY <1>2 DEF Start, TransportLost, Close, GiveUp
  <2> QED BY <2>1, <2>2
          DEF TypeOK, ActiveHasAgreement, StreamHasOneAgreement,
              CursorIsGreatestAccepted, StreamIsFinite, SkippedIsExact,
              ResumePointHolds, DialsFollowSchedule, DecisionIsPolicy
<1>3. ASSUME NEW a \in Agreement, NEW c \in Continuity, Establish(a, c)
      PROVE  IInv'
  <2>1. /\ agreement' = a /\ phase' = "Active" /\ attempts' = 0 /\ dials' = 0
        /\ decision' = NoDecision /\ generation' = generation + 1
        /\ generation < MaxGeneration
        BY <1>3 DEF Establish, EstablishAllowed
  <2>2. \/ /\ c = "Restart" /\ highest' = NoSequence /\ accepted' = {} /\ skipped' = 0
        \/ /\ c = "Resume" /\ agreement = a
           /\ UNCHANGED <<agreement, highest, accepted, skipped>>
        BY <1>3 DEF Establish, EstablishAllowed, CursorAfter, Continuity
  <2>3. TypeOK'
        BY <2>1, <2>2, BoundsAssumption
        DEF TypeOK, Phases, NoDecision, NoSequence, Sequence
  <2>4. /\ StreamHasOneAgreement' /\ CursorIsGreatestAccepted'
        /\ StreamIsFinite' /\ SkippedIsExact'
    <3>1. CASE accepted' = {} /\ highest' = NoSequence /\ skipped' = 0
          BY <3>1, FS_EmptySet
          DEF StreamHasOneAgreement, CursorIsGreatestAccepted, StreamIsFinite,
              SkippedIsExact
    <3>2. CASE UNCHANGED <<agreement, highest, accepted, skipped>>
          BY <3>2
          DEF StreamHasOneAgreement, CursorIsGreatestAccepted, StreamIsFinite,
              SkippedIsExact
    <3> QED BY <2>2, <3>1, <3>2
  <2> QED BY <2>1, <2>3, <2>4
          DEF ActiveHasAgreement, ResumePointHolds, DialsFollowSchedule,
              DecisionIsPolicy
<1>4. ASSUME NEW seq \in Sequence, ObserveSequence(seq)
      PROVE  IInv'
  <2>1. CursorIsGreatestAccepted' /\ StreamIsFinite' /\ SkippedIsExact'
        BY <1>4, ObserveKeepsStream
  <2>2. /\ phase = "Active" /\ agreement \in Agreement
        /\ highest = NoSequence \/ seq > highest
        /\ highest' = seq /\ skipped' = skipped + Gap(seq)
        /\ accepted' = accepted \union {[seq |-> seq, under |-> agreement]}
        /\ UNCHANGED <<phase, agreement, generation, attempts, decision, dials>>
        BY <1>4 DEF ObserveSequence, Advances, ActiveHasAgreement
  <2>3. skipped' \in Nat
        BY <2>2, BoundsAssumption DEF Gap, TypeOK, Sequence, NoSequence
  <2>4. TypeOK'
        BY <2>2, <2>3 DEF TypeOK
  <2>5. StreamHasOneAgreement'
        BY <2>2 DEF StreamHasOneAgreement
  <2>6. attempts = 0
        BY <2>2 DEF ResumePointHolds, TypeOK
  <2> QED BY <2>1, <2>2, <2>4, <2>5, <2>6
          DEF ActiveHasAgreement, ResumePointHolds, DialsFollowSchedule,
              DecisionIsPolicy
<1>5. ASSUME NEW p \in Policy, RetryAfter(p)
      PROVE  IInv'
  <2>1. /\ attempts < MaxAttempt /\ attempts + 1 <= p.max_attempts
        /\ attempts' = attempts + 1 /\ phase' = "ReconnectScheduled"
        /\ decision' = [attempt |-> attempts + 1,
                        delay |-> DelayForAttempt(p, attempts + 1),
                        resume_after |-> highest, policy |-> p]
        /\ UNCHANGED <<agreement, generation, highest, accepted, skipped, dials>>
        BY <1>5 DEF RetryAfter
  <2>2. DelayForAttempt(p, attempts + 1) \in Nat
        BY DelayGrows DEF TypeOK
  <2>3. TypeOK'
        BY <2>1, <2>2, BoundsAssumption DEF TypeOK, Phases
  <2>4. DialsFollowSchedule'
        BY <2>1 DEF DialsFollowSchedule, TypeOK
  <2>5. ResumePointHolds' /\ DecisionIsPolicy'
        BY <2>1 DEF ResumePointHolds, DecisionIsPolicy
  <2> QED BY <2>1, <2>3, <2>4, <2>5
          DEF ActiveHasAgreement, StreamHasOneAgreement,
              CursorIsGreatestAccepted, StreamIsFinite, SkippedIsExact
<1>6. CASE BeginReconnect
  <2>1. /\ phase = "ReconnectScheduled" /\ phase' = "Negotiating"
        /\ dials' = dials + 1
        /\ UNCHANGED <<agreement, generation, attempts, highest,
                       decision, accepted, skipped>>
        BY <1>6 DEF BeginReconnect
  <2>2. TypeOK' /\ DialsFollowSchedule'
        BY <2>1, BoundsAssumption DEF TypeOK, Phases, DialsFollowSchedule
  <2> QED BY <2>1, <2>2
          DEF ActiveHasAgreement, StreamHasOneAgreement, ResumePointHolds,
              CursorIsGreatestAccepted, StreamIsFinite, SkippedIsExact,
              DecisionIsPolicy
<1> QED BY <1>1, <1>2, <1>3, <1>4, <1>5, <1>6 DEF Next

(***************************************************************************)
(* The inductive invariant of the session.                                 *)
(***************************************************************************)
THEOREM IInvHolds == Spec => []IInv
BY InitEstablishesIInv, NextPreservesIInv, PTL DEF Spec

----------------------------------------------------------------------------
(***************************************************************************)
(* Type correctness: in particular no counter of the session overflows its *)
(* width (checked_add in establish and schedule_reconnect), and a session  *)
(* that is Active has an agreement in force (establish, the only way in).  *)
(***************************************************************************)
THEOREM TypeCorrect == Spec => [](TypeOK /\ ActiveHasAgreement)
BY IInvHolds, PTL DEF IInv

(***************************************************************************)
(* A receive stream never mixes frames of two agreements.                  *)
(***************************************************************************)
THEOREM OneAgreementPerStream == Spec => []StreamHasOneAgreement
BY IInvHolds, PTL DEF IInv

(***************************************************************************)
(* The cursor is the greatest accepted sequence and the reported gaps add  *)
(* up to exactly what was never accepted below it.                         *)
(***************************************************************************)
THEOREM GapsAreExact == Spec => [](CursorIsGreatestAccepted /\ SkippedIsExact)
BY IInvHolds, PTL DEF IInv

(***************************************************************************)
(* A handed-out resume point stays the cursor for the whole outage.        *)
(***************************************************************************)
THEOREM ResumePointIsStable == Spec => []ResumePointHolds
BY IInvHolds, PTL DEF IInv

(***************************************************************************)
(* No outage is dialled more often than some policy passed in allows.      *)
(***************************************************************************)
THEOREM BudgetIsKept == Spec => []RetryBudget
<1>1. IInv => RetryBudget
  <2> SUFFICES ASSUME IInv, dials > 0
               PROVE  \E p \in Policy : dials <= p.max_attempts
      BY DEF IInv, RetryBudget, DialsFollowSchedule
  <2>1. dials \in Nat /\ attempts \in Nat /\ dials <= attempts
        BY BoundsAssumption DEF IInv, TypeOK, DialsFollowSchedule
  <2>2. PICK p \in Policy : attempts <= p.max_attempts
        BY <2>1 DEF IInv, DialsFollowSchedule
  <2>3. p.max_attempts \in Nat
        BY PolicyAssumption, BoundsAssumption DEF ReconnectPolicy
  <2> QED BY <2>1, <2>2, <2>3
<1> QED BY <1>1, IInvHolds, PTL

(***************************************************************************)
(* Within an outage and under one policy the backoff delay never shrinks.  *)
(***************************************************************************)
THEOREM BackoffIsMonotone == Spec => BackoffNeverShrinks
<1> DEFINE Step == (decision' # decision /\ decision'.attempt > 1
                     /\ decision'.policy = decision.policy)
                   => decision'.delay >= decision.delay
<1>1. IInv /\ [Next]_vars => [Step]_vars
  <2> SUFFICES ASSUME IInv, Next, decision' # decision, decision'.attempt > 1,
                      decision'.policy = decision.policy
               PROVE  decision'.delay >= decision.delay
      OBVIOUS
  <2>1. \A a \in Agreement, c \in Continuity : ~Establish(a, c)
        BY DEF Establish, NoDecision
  <2>2. PICK p \in Policy : RetryAfter(p)
        BY <2>1 DEF Next, Start, ObserveSequence, TransportLost, GiveUp,
                    BeginReconnect, Close
  <2>3. /\ attempts \in Nat /\ attempts > 0 /\ decision.policy = p
        /\ decision'.delay = DelayForAttempt(p, attempts + 1)
        BY <2>2, BoundsAssumption DEF RetryAfter, IInv, TypeOK
  <2>4. decision.delay = DelayForAttempt(p, attempts)
        BY <2>3 DEF IInv, DecisionIsPolicy
  <2>5. attempts + 1 \in Nat /\ attempts + 1 > 0
        BY <2>3
  <2>6. /\ DelayForAttempt(p, attempts) \in Nat
        /\ DelayForAttempt(p, attempts) <= DelayForAttempt(p, attempts + 1)
        BY <2>3, DelayGrows
  <2>7. DelayForAttempt(p, attempts + 1) \in Nat
        BY <2>5, DelayGrows
  <2> QED BY <2>3, <2>4, <2>6, <2>7
<1> QED BY <1>1, IInvHolds, PTL DEF Spec, BackoffNeverShrinks

(***************************************************************************)
(* Every accepted sequence is above everything accepted before it in the   *)
(* stream, over however many transports it was resumed.                    *)
(***************************************************************************)
THEOREM NothingAcceptedTwice == Spec => AcceptedOnce
<1> DEFINE Step == \A f \in accepted' \ accepted : \A g \in accepted : g.seq < f.seq
<1>1. IInv /\ [Next]_vars => [Step]_vars
  <2> SUFFICES ASSUME IInv, Next, NEW f \in accepted' \ accepted, NEW g \in accepted
               PROVE  g.seq < f.seq
      OBVIOUS
  <2>1. \A a \in Agreement, c \in Continuity : ~Establish(a, c)
        BY DEF Establish
  <2>2. PICK seq \in Sequence : ObserveSequence(seq)
        BY <2>1 DEF Next, Start, RetryAfter, TransportLost, GiveUp,
                    BeginReconnect, Close
  <2>3. f.seq = seq /\ (highest = NoSequence \/ seq > highest)
        BY <2>2 DEF ObserveSequence, Advances
  <2>4. g.seq \in Sequence /\ g.seq <= highest /\ highest # NoSequence
        /\ highest \in Sequence
        BY DEF IInv, TypeOK, CursorIsGreatestAccepted
  <2> QED BY <2>2, <2>3, <2>4, BoundsAssumption DEF Sequence
<1> QED BY <1>1, IInvHolds, PTL DEF Spec, AcceptedOnce
=============================================================================
