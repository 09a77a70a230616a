------------------------------ MODULE Session ------------------------------
(***************************************************************************)
(* The logical host/display session of crates/ladoflow-core/src/session.rs:*)
(* lifecycle phase, negotiated agreement, connection generation, reconnect *)
(* budget and the receive cursor of the inbound sequence space.            *)
(*                                                                         *)
(* Every method is an action.  A call the phase forbids returns            *)
(* InvalidTransition and changes nothing: it is a stuttering step.         *)
(* The history variables at the end are not in the code; they record what  *)
(* the caller was told, so that properties can relate a call to the calls  *)
(* before it.                                                              *)
(***************************************************************************)
EXTENDS Integers, FiniteSets

CONSTANTS
    Agreement,      \* the values of NegotiatedSession
    NoAgreement,    \* Option::None
    MaxSequence,    \* largest u64 sequence value an instance observes
    MaxGeneration,  \* stands for u64::MAX, the last connection_generation
    MaxAttempt,     \* stands for u32::MAX, the last reconnect_attempts
    ShiftWidth,     \* width in bits of the u32 backoff multiplier
    Policy          \* the ReconnectPolicy values callers pass

(***************************************************************************)
(* ReconnectPolicy::new rejects initial_delay > max_delay, so no value of  *)
(* the type has it.                                                        *)
(***************************************************************************)
ReconnectPolicy ==
    {p \in [max_attempts : 0 .. MaxAttempt, initial_delay : Nat, max_delay : Nat] :
        p.initial_delay <= p.max_delay}

ASSUME NoAgreementAssumption == NoAgreement \notin Agreement
ASSUME BoundsAssumption ==
    /\ MaxSequence \in Nat
    /\ MaxGeneration \in Nat \ {0}
    /\ MaxAttempt \in Nat \ {0}
    /\ ShiftWidth \in Nat \ {0}
(***************************************************************************)
(* The two facts about powers of two that the backoff argument uses; the   *)
(* provers have no theory of exponentiation.                               *)
(***************************************************************************)
ASSUME PowerAssumption ==
    /\ \A k \in 0 .. ShiftWidth : 2^k \in Nat \ {0}
    /\ \A j, k \in 0 .. ShiftWidth : j < k => 2^j < 2^k
ASSUME PolicyAssumption == Policy \subseteq ReconnectPolicy

VARIABLES
    phase, agreement, generation, attempts, highest,
    decision,   \* the last RetryAfter, with the policy it was asked under
    accepted,   \* history: [seq, under] of every frame accepted in this stream
    skipped,    \* history: sum of the `skipped` counts reported in this stream
    dials       \* history: begin_reconnect calls since the last establishment

vars == <<phase, agreement, generation, attempts, highest,
          decision, accepted, skipped, dials>>

Phases == {"Idle", "Negotiating", "Active", "WaitingToReconnect",
           "ReconnectScheduled", "Closed"}
Continuity == {"Restart", "Resume"}

NoSequence == -1
Sequence == 0 .. MaxSequence
NoDecision == [attempt |-> 0, delay |-> 0, resume_after |-> NoSequence,
               policy |-> [max_attempts |-> 0, initial_delay |-> 0, max_delay |-> 0]]

----------------------------------------------------------------------------
(***************************************************************************)
(* 1_u32.checked_shl(shift).unwrap_or(u32::MAX)                            *)
(***************************************************************************)
Multiplier(shift) == IF shift < ShiftWidth THEN 2^shift ELSE 2^ShiftWidth - 1

(***************************************************************************)
(* delay_for_attempt, for an attempt in 1 .. max_attempts.  The            *)
(* intermediate saturation at Duration::MAX disappears in the min: no      *)
(* max_delay is above it.                                                  *)
(***************************************************************************)
DelayForAttempt(policy, attempt) ==
    LET scaled == policy.initial_delay * Multiplier(attempt - 1)
    IN  IF scaled < policy.max_delay THEN scaled ELSE policy.max_delay

----------------------------------------------------------------------------
Init ==
    /\ phase = "Idle"
    /\ agreement = NoAgreement
    /\ generation = 0
    /\ attempts = 0
    /\ highest = NoSequence
    /\ decision = NoDecision
    /\ accepted = {}
    /\ skipped = 0
    /\ dials = 0

Start ==
    /\ phase = "Idle"
    /\ phase' = "Negotiating"
    /\ UNCHANGED <<agreement, generation, attempts, highest,
                   decision, accepted, skipped, dials>>

\* Mutant: a resumed stream may carry a new agreement.
EstablishAllowedAnyAgreement(a, continuity) ==
    generation < MaxGeneration /\ (continuity = "Resume" => generation # 0)

(***************************************************************************)
(* The error returns of establish: generation exhausted, resuming a first  *)
(* connection, resuming under another agreement.                           *)
(***************************************************************************)
EstablishAllowed(a, continuity) ==
    /\ generation < MaxGeneration
    /\ continuity = "Resume" => generation # 0 /\ agreement = a

CursorAfter(continuity) == IF continuity = "Restart" THEN NoSequence ELSE highest

Establish(a, continuity) ==
    /\ phase = "Negotiating"
    /\ EstablishAllowed(a, continuity)
    /\ highest' = CursorAfter(continuity)
    /\ generation' = generation + 1
    /\ agreement' = a
    /\ attempts' = 0
    /\ phase' = "Active"
    /\ decision' = NoDecision
    /\ IF continuity = "Restart" THEN accepted' = {} /\ skipped' = 0
                                 ELSE UNCHANGED <<accepted, skipped>>
    /\ dials' = 0

Advances(seq) == highest = NoSequence \/ seq > highest

\* Mutant: the gap counts the frame that closes it.
GapOffByOne(seq) == IF highest = NoSequence THEN 0 ELSE seq - highest

Gap(seq) == IF highest = NoSequence THEN 0 ELSE seq - highest - 1

(***************************************************************************)
(* Duplicate (seq = highest) and Stale (seq < highest) leave the session   *)
(* unchanged and are stuttering steps; an advancing sequence is accepted.  *)
(***************************************************************************)
ObserveSequence(seq) ==
    /\ phase = "Active"
    /\ Advances(seq)
    /\ highest' = seq
    /\ accepted' = accepted \union {[seq |-> seq, under |-> agreement]}
    /\ skipped' = skipped + Gap(seq)
    /\ UNCHANGED <<phase, agreement, generation, attempts, decision, dials>>

TransportLost ==
    /\ phase \in {"Active", "Negotiating"}
    /\ phase' = "WaitingToReconnect"
    /\ UNCHANGED <<agreement, generation, attempts, highest,
                   decision, accepted, skipped, dials>>

(***************************************************************************)
(* schedule_reconnect: a counter that cannot be incremented and a policy   *)
(* that allows no such attempt both give up and close.                     *)
(***************************************************************************)
GiveUp(policy) ==
    /\ phase = "WaitingToReconnect"
    /\ attempts = MaxAttempt \/ attempts + 1 > policy.max_attempts
    /\ phase' = "Closed"
    /\ UNCHANGED <<agreement, generation, attempts, highest,
                   decision, accepted, skipped, dials>>

RetryAfter(policy) ==
    /\ phase = "WaitingToReconnect"
    /\ attempts < MaxAttempt
    /\ attempts + 1 <= policy.max_attempts
    /\ attempts' = attempts + 1
    /\ phase' = "ReconnectScheduled"
    /\ decision' = [attempt |-> attempts + 1,
                    delay |-> DelayForAttempt(policy, attempts + 1),
                    resume_after |-> highest,
                    policy |-> policy]
    /\ UNCHANGED <<agreement, generation, highest, accepted, skipped, dials>>

\* Mutant: the caller's next stream restarts before it is established.
BeginReconnectClearsCursor ==
    /\ phase = "ReconnectScheduled"
    /\ phase' = "Negotiating"
    /\ highest' = NoSequence
    /\ accepted' = {}
    /\ skipped' = 0
    /\ dials' = dials + 1
    /\ UNCHANGED <<agreement, generation, attempts, decision>>

BeginReconnect ==
    /\ phase = "ReconnectScheduled"
    /\ phase' = "Negotiating"
    /\ dials' = dials + 1
    /\ UNCHANGED <<agreement, generation, attempts, highest,
                   decision, accepted, skipped>>

(***************************************************************************)
(* close is legal in every phase and idempotent.                           *)
(***************************************************************************)
Close ==
    /\ phase' = "Closed"
    /\ UNCHANGED <<agreement, generation, attempts, highest,
                   decision, accepted, skipped, dials>>

Next ==
    \/ Start
    \/ \E a \in Agreement, c \in Continuity : Establish(a, c)
    \/ \E seq \in Sequence : ObserveSequence(seq)
    \/ TransportLost
    \/ \E p \in Policy : GiveUp(p) \/ RetryAfter(p)
    \/ BeginReconnect
    \/ Close

Spec == Init /\ [][Next]_vars

----------------------------------------------------------------------------
TypeOK ==
    /\ phase \in Phases
    /\ agreement \in Agreement \union {NoAgreement}
    /\ generation \in 0 .. MaxGeneration
    /\ attempts \in 0 .. MaxAttempt
    /\ highest \in Sequence \union {NoSequence}
    /\ decision.attempt \in 0 .. MaxAttempt
    /\ decision.delay \in Nat
    /\ decision.resume_after \in Sequence \union {NoSequence}
    /\ accepted \subseteq [seq : Sequence, under : Agreement]
    /\ skipped \in Nat
    /\ dials \in 0 .. MaxAttempt

(***************************************************************************)
(* Every frame of the stream the cursor describes was accepted under the   *)
(* agreement now in force: frames of two agreements never share one        *)
(* sequence space, whatever resumes, losses and failed negotiations lie    *)
(* between them (establish, AgreementChangedDuringResume).                 *)
(***************************************************************************)
StreamHasOneAgreement == \A f \in accepted : f.under = agreement

(***************************************************************************)
(* The cursor is the greatest sequence accepted in the stream, across      *)
(* transport losses and resumes (observe_sequence, establish).             *)
(***************************************************************************)
CursorIsGreatestAccepted ==
    /\ accepted = {} <=> highest = NoSequence
    /\ \A f \in accepted : f.seq <= highest
    /\ accepted # {} => \E f \in accepted : f.seq = highest

(***************************************************************************)
(* The `skipped` counts reported since the stream began add up to exactly  *)
(* the values between the first accepted frame and the cursor that never   *)
(* arrived: a resume neither repeats nor loses a gap.                      *)
(***************************************************************************)
SkippedIsExact ==
    \A first \in accepted :
        (\A f \in accepted : first.seq <= f.seq) =>
            skipped + Cardinality(accepted) = highest - first.seq + 1

(***************************************************************************)
(* Until a reconnect is established or given up, the resume point that     *)
(* schedule_reconnect handed out is still the session's cursor: a peer     *)
(* that replays from resume_after + 1 leaves no hole and repeats nothing.  *)
(***************************************************************************)
ResumePointHolds ==
    attempts > 0 => /\ phase # "Active"
                    /\ decision.attempt = attempts
                    /\ decision.resume_after = highest

(***************************************************************************)
(* Failed negotiations consume the same budget as lost transports: the     *)
(* session never dials more often between two establishments than the most *)
(* generous policy it was given allows.                                    *)
(***************************************************************************)
RetryBudget ==
    /\ dials <= attempts
    /\ dials > 0 => \E p \in Policy : dials <= p.max_attempts

(***************************************************************************)
(* Backoff never shrinks while an outage lasts: under one policy a later   *)
(* attempt waits at least as long as the one before it, also once the      *)
(* 32-bit multiplier is exhausted (delay_for_attempt).                     *)
(***************************************************************************)
BackoffNeverShrinks ==
    [][(decision' # decision /\ decision'.attempt > 1
          /\ decision'.policy = decision.policy)
        => decision'.delay >= decision.delay]_vars

(***************************************************************************)
(* No sequence value is accepted twice in one stream: an accepting step    *)
(* takes a value above everything accepted before, on any transport the    *)
(* stream was resumed over.                                                *)
(***************************************************************************)
AcceptedOnce ==
    [][\A f \in accepted' \ accepted : \A g \in accepted : g.seq < f.seq]_vars

=============================================================================
