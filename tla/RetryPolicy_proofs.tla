------------------------- MODULE RetryPolicy_proofs -------------------------
(* Facts about RetryPolicy's operators, for every policy and every time. *)
EXTENDS RetryPolicy, FiniteSetTheorems, TLAPS

\* The slots that satisfy a condition can be counted.
LEMMA SlotsCountable ==
  ASSUME NEW min \in Nat, NEW max \in Nat, NEW S \in SUBSET Slots(min, max)
  PROVE  Cardinality(S) \in Nat
<1>1. IsFiniteSet(1..max)
  BY FS_Interval
<1>2. S \subseteq 1..max
  BY DEF Slots
<1>3. IsFiniteSet(S)
  BY <1>1, <1>2, FS_Subset
<1> QED
  BY <1>3, FS_CardinalityType

\* retry_policy_check: the answer is one of the six, with a slot number.
LEMMA RetryDecisionType ==
  ASSUME NEW sec \in Int, NEW hit \in Nat,
         NEW min \in Nat, NEW max \in Nat, NEW d \in Nat
  PROVE  RetryDecision(sec, hit, min, max, d) \in Decision
<1>1. ASSUME NEW kind \in {"open", "reset", "slot", "empty", "error", "hang"},
             NEW slot \in Nat
      PROVE  Decide(kind, slot) \in Decision
  BY DEF Decide, Decision
<1>2. BackoffDecision(sec, hit, min, max, d) \in Decision
  <2> DEFINE passed == {k \in Slots(min, max) : sec >= SlotEnd(k, min, d)}
  <2>1. Cardinality(passed) \in Nat
    BY SlotsCountable
  <2>2. /\ Decide("empty", hit) \in Decision
        /\ Decide("slot", Cardinality(passed) + 1) \in Decision
    BY <1>1, <2>1
  <2> QED
    BY <2>2, Zenon DEF BackoffDecision
<1>3. /\ Decide("open", hit) \in Decision
      /\ Decide("reset", 0) \in Decision
      /\ Decide("hang", hit) \in Decision
      /\ Decide("error", hit) \in Decision
  BY <1>1
<1> QED
  BY <1>2, <1>3, Zenon DEF RetryDecision

\* retry_policy_check, "making Pull request > 1 time in backoff slot": the slot a
\* pull is granted comes after the one that was used last.
LEMMA SlotIsFresh ==
  ASSUME NEW sec \in Int, NEW hit \in Nat,
         NEW min \in Nat, NEW max \in Nat, NEW d \in Nat,
         RetryDecision(sec, hit, min, max, d).kind = "slot"
  PROVE  RetryDecision(sec, hit, min, max, d).slot > hit
<1> DEFINE passed == {k \in Slots(min, max) : sec >= SlotEnd(k, min, d)}
           slot == Cardinality(passed) + 1
<1>1. slot \in Nat
  BY SlotsCountable
<1> HIDE DEF slot
<1>2. RetryDecision(sec, hit, min, max, d) = BackoffDecision(sec, hit, min, max, d)
  BY DEF RetryDecision, Decide
<1>3. CASE hit >= slot \/ sec = SlotEnd(Cardinality(Slots(min, max)), min, d)
  BY <1>2, <1>3 DEF BackoffDecision, Decide, slot
<1>4. CASE ~(hit >= slot) /\ sec # SlotEnd(Cardinality(Slots(min, max)), min, d)
  <2>1. RetryDecision(sec, hit, min, max, d) = Decide("slot", slot)
    BY <1>2, <1>4 DEF BackoffDecision, slot
  <2> QED
    BY <1>1, <1>4, <2>1 DEF Decide
<1> QED
  BY <1>3, <1>4
=============================================================================
