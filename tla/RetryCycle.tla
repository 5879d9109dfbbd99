----------------------------- MODULE RetryCycle -----------------------------
(***************************************************************************)
(* One subscription pulled again and again by one worker, through          *)
(* RetryPolicy's gate: how the row of table retry evolves over a cycle.    *)
(* The loops of retry_policy_check are written out here a second time, the *)
(* way the code runs them, as the reference RetryDecision is compared to.  *)
(***************************************************************************)
EXTENDS RetryPolicy, Sequences

CONSTANTS
  Backoffs,   \* the <<minimumBackoff, maximumBackoff>> a subscription may have
  Deadlines,  \* the ackDeadlineSeconds it may have
  MaxTime     \* bound on the clock

ASSUME CycleAssumption ==
  /\ Backoffs \subseteq Nat \X Nat
  /\ Deadlines \subseteq Nat
  /\ MaxTime \in Nat

VARIABLES
  min, max, d,  \* the subscription's retry policy and deadline
  clock,
  first, hit,   \* the row: first_pull_time and hit_backoff
  used,         \* the slots used in this cycle, in the order they were
  answer        \* the kind of the last answer

vars == <<min, max, d, clock, first, hit, used, answer>>

Init ==
  /\ \E b \in Backoffs : min = b[1] /\ max = b[2]
  /\ d \in Deadlines
  /\ clock = 0 /\ first = 0 /\ hit = 0
  /\ used = <<>>
  /\ answer = "open"

\* A pull at the present time, by a worker that runs the whole check alone.
Pull ==
  LET v == RetryDecision(clock - first, hit, min, max, d) IN
  /\ answer # "hang"
  /\ answer' = v.kind
  /\ first' = IF v.kind = "reset" THEN clock ELSE first
  /\ hit'   = IF v.kind \in {"reset", "slot"} THEN v.slot ELSE hit
  /\ used'  = IF v.kind = "reset" THEN <<>>
              ELSE IF v.kind = "slot" THEN Append(used, v.slot) ELSE used
  /\ UNCHANGED <<min, max, d, clock>>

Tick ==
  /\ clock < MaxTime
  /\ clock' = clock + 1
  /\ UNCHANGED <<min, max, d, first, hit, used, answer>>

Next == Pull \/ Tick

Spec == Init /\ [][Next]_vars

-----------------------------------------------------------------------------
(* The loops as they run.                                                  *)

\* while min <= max_backoff: min = min * 2, appended if it is still <= max.
Box ==
  LET from[m \in 1..(2 * max + 1)] ==
        IF 2 * m <= max THEN <<2 * m + d>> \o from[2 * m] ELSE <<>>
  IN from[min]

\* for i in range(len(box)): the first turn that returns decides.
ScanBox(sec, h) ==
  LET turn[i \in 1..(Len(Box) + 1)] ==
        CASE i > Len(Box)                     -> Decide("empty", h)
          [] i <= Len(Box) /\ sec < Box[i] /\ h < i -> Decide("slot", i)
          [] i <= Len(Box) /\ sec < Box[i] /\ h = i -> Decide("empty", h)
          [] OTHER                            -> turn[i + 1]
  IN turn[1]

LoopDecision(sec, h) ==
  IF sec <= d + min THEN Decide("open", h)
  ELSE IF sec > d + max THEN Decide("reset", 0)
  ELSE IF min = 0 THEN Decide("hang", h)
  ELSE IF Box = <<>> THEN Decide("error", h)
  ELSE IF sec > Box[Len(Box)]
       THEN IF h <= Len(Box) THEN Decide("slot", Len(Box) + 1) ELSE Decide("empty", h)
  ELSE ScanBox(sec, h)

-----------------------------------------------------------------------------
(* Properties.                                                             *)

\* Every variable has its type.
TypeOK ==
  /\ <<min, max>> \in Nat \X Nat /\ d \in Nat
  /\ clock \in Nat /\ first \in Nat /\ hit \in Nat
  /\ used \in Seq(Nat)
  /\ answer \in {"open", "reset", "slot", "empty", "error", "hang"}

\* retry_policy_check: the closed form of the gate and the loops give the same
\* answer at every moment, whatever slot was used last.
AgreesWithLoops ==
  \A h \in 0..(max + 1) :
    RetryDecision(clock - first, h, min, max, d) = LoopDecision(clock - first, h)

\* retry_policy_check, "making Pull request > 1 time in backoff slot": within a
\* cycle a slot lets one pull through, at a time that lies in the slot, and slots
\* are used in increasing order.
OncePerSlot ==
  [][ answer' = "slot" /\ used' # used =>
        LET sec == clock - first IN
        /\ \A i \in 1..Len(used) : used[i] < hit'
        /\ sec > d + min
        /\ \A k \in 1..(hit' - 1) : k \in Slots(min, max) => sec >= SlotEnd(k, min, d)
        /\ hit' \in Slots(min, max) => sec < SlotEnd(hit', min, d) ]_vars

\* retry_policy_check: the check answers whenever the maximum backoff is no more
\* than the minimum, or at least twice a minimum that is not zero; there is no
\* other exception, and no time, at which it fails.
SoundPolicyAnswers ==
  max <= min \/ (min > 0 /\ 2 * min <= max) => answer \notin {"hang", "error"}

\* subscription_schema.py accepts each backoff between 0 and 600 seconds: the
\* check answers for each of them.
EveryPolicyAnswers == answer \notin {"hang", "error"}
=============================================================================
