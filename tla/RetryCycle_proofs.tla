-------------------------- MODULE RetryCycle_proofs --------------------------
(***************************************************************************)
(* Proofs about the retry gate over a cycle, for every policy, every       *)
(* deadline and every time: its closed form is what the loops of           *)
(* retry_policy_check compute, a slot lets one pull through, and a sound   *)
(* policy always gets an answer.                                           *)
(***************************************************************************)
EXTENDS RetryCycle, RetryPolicy_proofs, SequenceTheorems, WellFoundedInduction

(***************************************************************************)
(* Powers of two.  The provers know nothing of 2^k: all that is used of it *)
(* comes from the number of subsets of 1..k.                               *)
(***************************************************************************)

LEMMA Subsets ==
  ASSUME NEW k \in Nat
  PROVE  /\ 2^k \in Nat
         /\ IsFiniteSet(1..k) /\ Cardinality(1..k) = k
         /\ IsFiniteSet(SUBSET (1..k)) /\ Cardinality(SUBSET (1..k)) = 2^k
<1>1. IsFiniteSet(1..k) /\ Cardinality(1..k) = k
  BY FS_Interval
<1>2. IsFiniteSet(SUBSET (1..k)) /\ Cardinality(SUBSET (1..k)) = 2^k
  <2>1. Cardinality(SUBSET (1..k)) = 2^Cardinality(1..k)
    BY <1>1, FS_SUBSET
  <2>2. IsFiniteSet(SUBSET (1..k))
    BY <1>1, FS_SUBSET
  <2> QED
    BY <1>1, <2>1, <2>2, Zenon
<1>3. 2^k \in Nat
  BY <1>2, FS_CardinalityType, Zenon
<1> QED
  BY <1>1, <1>2, <1>3

LEMMA PowersGrow ==
  ASSUME NEW a \in Nat, NEW b \in Nat, a <= b
  PROVE  2^a <= 2^b
<1>1. SUBSET (1..a) \in SUBSET (SUBSET (1..b))
  OBVIOUS
<1>2. Cardinality(SUBSET (1..a)) <= Cardinality(SUBSET (1..b))
  BY <1>1, Subsets, FS_Subset, Zenon
<1> QED
  BY <1>2, Subsets, Zenon

LEMMA PowersExceed ==
  ASSUME NEW k \in Nat
  PROVE  k <= 2^k
<1> DEFINE f == [i \in 1..k |-> {i}]
<1>1. f \in Injection(1..k, SUBSET (1..k))
  <2>1. f \in [1..k -> SUBSET (1..k)]
    OBVIOUS
  <2>2. ASSUME NEW i \in 1..k, NEW j \in 1..k, f[i] = f[j] PROVE i = j
    BY <2>2
  <2> QED
    BY <2>1, <2>2, Zenon DEF Injection, IsInjective
<1>2. Cardinality(1..k) <= Cardinality(SUBSET (1..k))
  BY <1>1, Subsets, FS_Injection, Zenon
<1> QED
  BY <1>2, Subsets

LEMMA PowersDouble ==
  ASSUME NEW k \in Nat
  PROVE  2^(k + 1) = 2 * 2^k
<1> DEFINE without == SUBSET (1..k)
           with == {A \cup {k + 1} : A \in without}
           f == [A \in without |-> A \cup {k + 1}]
<1>1. SUBSET (1..(k + 1)) = without \cup with
  <2>1. ASSUME NEW A \in SUBSET (1..(k + 1)) PROVE A \in without \cup with
    <3>1. CASE k + 1 \in A
      <4>1. A = (A \ {k + 1}) \cup {k + 1} /\ A \ {k + 1} \in without
        BY <3>1
      <4> QED
        BY <4>1, Zenon
    <3>2. CASE k + 1 \notin A
      BY <3>2
    <3> QED
      BY <3>1, <3>2
  <2>2. ASSUME NEW A \in without \cup with PROVE A \in SUBSET (1..(k + 1))
    OBVIOUS
  <2> QED
    BY <2>1, <2>2, Zenon
<1>2. without \cap with = {}
  OBVIOUS
<1>3. f \in Bijection(without, with)
  <2>1. ASSUME NEW A \in without, NEW B \in without, f[A] = f[B] PROVE A = B
    <3>1. A \cup {k + 1} = B \cup {k + 1} /\ k + 1 \notin A /\ k + 1 \notin B
      BY <2>1
    <3> QED
      BY <3>1
  <2>2. f \in [without -> with] /\ \A B \in with : \E A \in without : f[A] = B
    BY Zenon
  <2> QED
    BY <2>1, <2>2, Zenon DEF Bijection, Injection, IsInjective, Surjection
<1> HIDE DEF with, f
<1>4. IsFiniteSet(with) /\ Cardinality(with) = Cardinality(without)
  BY <1>3, Subsets, FS_Bijection, Zenon DEF ExistsBijection
<1>5. Cardinality(without \cup with)
        = Cardinality(without) + Cardinality(with) - Cardinality(without \cap with)
  BY <1>4, Subsets, FS_Union, Zenon
<1>6. Cardinality(without \cap with) = 0
  BY <1>2, FS_EmptySet, Zenon
<1>7. 2^(k + 1) = 2^k + 2^k - 0
  <2>1. k + 1 \in Nat
    OBVIOUS
  <2>2. Cardinality(SUBSET (1..(k + 1))) = 2^(k + 1) /\ Cardinality(without) = 2^k
    BY <2>1, Subsets, Zenon
  <2> QED
    BY <1>1, <1>4, <1>5, <1>6, <2>2, Zenon
<1>8. \A p \in Nat : p + p - 0 = 2 * p
  OBVIOUS
<1> QED
  BY <1>7, <1>8, Subsets, Zenon

(***************************************************************************)
(* Slots: those that satisfy a bound on their end are the first ones.      *)
(***************************************************************************)

LEMMA Prefix ==
  ASSUME NEW n \in Nat, NEW S \in SUBSET (1..n), \A i \in S : \A j \in 1..i : j \in S
  PROVE  Cardinality(S) \in Nat /\ S = 1..Cardinality(S)
<1>1. IsFiniteSet(S) /\ Cardinality(S) \in Nat
  BY FS_Subset, Subsets, FS_CardinalityType, Zenon
<1>2. S \subseteq 1..Cardinality(S)
  <2> SUFFICES ASSUME NEW i \in S PROVE i <= Cardinality(S)
    BY <1>1
  <2>1. i \in Nat /\ 1..i \in SUBSET S
    OBVIOUS
  <2>2. Cardinality(1..i) <= Cardinality(S)
    BY <1>1, <2>1, FS_Subset, Zenon
  <2> QED
    BY <2>1, <2>2, Subsets
<1>3. Cardinality(1..Cardinality(S)) = Cardinality(S)
  BY <1>1, Subsets, Zenon
<1>4. S = 1..Cardinality(S)
  BY <1>1, <1>2, <1>3, Subsets, FS_Subset, Zenon
<1> QED
  BY <1>1, <1>4

\* The term by which a slot ends: a natural number that grows with the slot.
LEMMA EndsGrow ==
  ASSUME NEW m \in Nat, NEW a \in Nat, NEW b \in Nat, a <= b
  PROVE  m * 2^a \in Nat /\ m * 2^b \in Nat /\ m * 2^a <= m * 2^b
<1>1. 2^a \in Nat /\ 2^b \in Nat /\ 2^a <= 2^b
  BY Subsets, PowersGrow, Zenon
<1>2. \A p, q \in Nat : p <= q => m * p \in Nat /\ m * q \in Nat /\ m * p <= m * q
  OBVIOUS
<1> QED
  BY <1>1, <1>2, Zenon

\* The slots that end by some time are the first few.
Ended(sec, m, x, D) == {k \in Slots(m, x) : sec >= SlotEnd(k, m, D)}

LEMMA EndedPrefix ==
  ASSUME NEW m \in Nat, NEW x \in Nat, NEW D \in Nat, NEW sec \in Int
  PROVE  /\ Cardinality(Ended(sec, m, x, D)) \in Nat
         /\ Ended(sec, m, x, D) = 1..Cardinality(Ended(sec, m, x, D))
<1> DEFINE P == Ended(sec, m, x, D)
<1>1. P \in SUBSET (1..x)
  BY DEF Slots, Ended
<1>2. ASSUME NEW i \in P, NEW j \in 1..i PROVE j \in P
  <2>1. i \in Nat /\ j \in Nat /\ j <= i /\ j \in 1..x
    BY <1>1
  <2>2. m * 2^j \in Nat /\ m * 2^i \in Nat /\ m * 2^j <= m * 2^i
    BY <2>1, EndsGrow, Zenon
  <2>3. m * 2^i <= x /\ sec >= m * 2^i + D
    BY DEF Slots, SlotEnd, Ended
  <2>4. m * 2^j <= x /\ sec >= m * 2^j + D
    BY <2>2, <2>3
  <2> QED
    BY <2>1, <2>4 DEF Slots, SlotEnd, Ended
<1> QED
  BY <1>1, <1>2, Prefix, Zenon

LEMMA SlotsPrefix ==
  ASSUME NEW m \in Nat, NEW x \in Nat
  PROVE  /\ Cardinality(Slots(m, x)) \in Nat
         /\ Slots(m, x) = 1..Cardinality(Slots(m, x))
<1>1. Slots(m, x) \in SUBSET (1..x)
  BY DEF Slots
<1>2. ASSUME NEW i \in Slots(m, x), NEW j \in 1..i PROVE j \in Slots(m, x)
  <2>1. i \in Nat /\ j \in Nat /\ j <= i /\ j \in 1..x
    BY <1>1
  <2>2. m * 2^j \in Nat /\ m * 2^i \in Nat /\ m * 2^j <= m * 2^i
    BY <2>1, EndsGrow, Zenon
  <2>3. m * 2^i <= x
    BY DEF Slots
  <2>4. m * 2^j <= x
    BY <2>2, <2>3
  <2> QED
    BY <2>1, <2>4 DEF Slots
<1> QED
  BY <1>1, <1>2, Prefix, Zenon

(***************************************************************************)
(* What the answers of the gate say.                                       *)
(***************************************************************************)

LEMMA BackoffKinds ==
  ASSUME NEW sec, NEW h, NEW m, NEW x, NEW D
  PROVE  BackoffDecision(sec, h, m, x, D).kind \in {"slot", "empty"}
BY DEF BackoffDecision, Decide

LEMMA SlotEndType ==
  ASSUME NEW m \in Nat, NEW k \in Nat, NEW D \in Nat
  PROVE  SlotEnd(k, m, D) \in Nat
<1>1. m * 2^k \in Nat
  BY EndsGrow
<1> QED
  BY <1>1 DEF SlotEnd

\* A granted slot is the one that the time lies in: the slots before it have ended, it
\* and those after it have not.
LEMMA GrantedSlot ==
  ASSUME NEW sec \in Int, NEW h \in Nat, NEW m \in Nat, NEW x \in Nat, NEW D \in Nat,
         RetryDecision(sec, h, m, x, D).kind = "slot"
  PROVE  LET n == RetryDecision(sec, h, m, x, D).slot
         IN  /\ n \in Nat /\ n > h /\ sec > D + m
             /\ \A k \in Slots(m, x) : k < n <=> sec >= SlotEnd(k, m, D)
<1> DEFINE P == Ended(sec, m, x, D)
           n == RetryDecision(sec, h, m, x, D).slot
<1>1. /\ sec > D + m
      /\ RetryDecision(sec, h, m, x, D) = BackoffDecision(sec, h, m, x, D)
  BY DEF RetryDecision, Decide
<1>2. n = Cardinality(P) + 1
  <2>1. \/ BackoffDecision(sec, h, m, x, D) = Decide("empty", h)
        \/ BackoffDecision(sec, h, m, x, D) = Decide("slot", Cardinality(P) + 1)
    BY Zenon DEF BackoffDecision, Ended
  <2> HIDE DEF P
  <2> QED
    BY <1>1, <2>1 DEF Decide
<1>3. Cardinality(P) \in Nat /\ P = 1..Cardinality(P)
  BY EndedPrefix
<1>4. ASSUME NEW k \in Slots(m, x) PROVE k < n <=> sec >= SlotEnd(k, m, D)
  <2>1. k \in 1..x
    BY DEF Slots
  <2>2. sec >= SlotEnd(k, m, D) <=> k \in P
    BY DEF Ended
  <2> HIDE DEF P
  <2> QED
    BY <1>2, <1>3, <2>1, <2>2
<1>5. n > h
  BY SlotIsFresh
<1> HIDE DEF P
<1>6. n \in Nat
  BY <1>2, <1>3
<1> QED
  BY <1>1, <1>4, <1>5, <1>6

\* The check fails or hangs only for policies that are not sound.
LEMMA SoundAnswer ==
  ASSUME NEW sec \in Int, NEW h \in Nat, NEW m \in Nat, NEW x \in Nat, NEW D \in Nat,
         x <= m \/ (m > 0 /\ 2 * m <= x)
  PROVE  RetryDecision(sec, h, m, x, D).kind \notin {"hang", "error"}
<1> SUFFICES ASSUME sec > D + m, sec <= D + x,
                    RetryDecision(sec, h, m, x, D).kind \in {"hang", "error"}
             PROVE  FALSE
  BY BackoffKinds DEF RetryDecision, Decide
<1>1. m > 0 /\ 2 * m <= x
  OBVIOUS
<1>2. 1 \in Slots(m, x)
  <2>1. 2^1 = 2
    OBVIOUS
  <2>2. m * 2 <= x /\ 1 \in 1..x
    BY <1>1
  <2> QED
    BY <2>1, <2>2, Zenon DEF Slots
<1>3. RetryDecision(sec, h, m, x, D) = BackoffDecision(sec, h, m, x, D)
  BY <1>1, <1>2 DEF RetryDecision
<1> QED
  BY <1>3, BackoffKinds

(***************************************************************************)
(* The cycle.                                                              *)
(***************************************************************************)

\* The row remembers the highest slot of the cycle.
HitIsLast == \A i \in 1..Len(used) : used[i] <= hit

CycleInv == TypeOK /\ HitIsLast /\ SoundPolicyAnswers

LEMMA CycleInit == Init => CycleInv
BY CycleAssumption DEF Init, CycleInv, TypeOK, HitIsLast, SoundPolicyAnswers

\* A pull that is granted a slot.
LEMMA SlotUsed ==
  ASSUME TypeOK, HitIsLast, Pull, answer' = "slot"
  PROVE  /\ HitIsLast'
         /\ hit' = RetryDecision(clock - first, hit, min, max, d).slot
         /\ RetryDecision(clock - first, hit, min, max, d).kind = "slot"
         /\ hit' > hit
<1> DEFINE v == RetryDecision(clock - first, hit, min, max, d)
<1>1. v.kind = "slot" /\ hit' = v.slot /\ used' = Append(used, v.slot)
  BY DEF Pull
<1>2. clock - first \in Int /\ hit \in Nat /\ min \in Nat /\ max \in Nat /\ d \in Nat
  BY DEF TypeOK
<1>3. v.slot \in Nat /\ v.slot > hit
  BY <1>1, <1>2, GrantedSlot
<1> HIDE DEF v
<1>4. used \in Seq(Nat)
  BY DEF TypeOK
<1>5. ASSUME NEW i \in 1..Len(used') PROVE used'[i] <= hit'
  <2>1. Len(used') = Len(used) + 1 /\ Len(used) \in Nat
    BY <1>1, <1>3, <1>4
  <2>2. CASE i = Len(used) + 1
    BY <1>1, <1>3, <1>4, <2>2
  <2>3. CASE i \in 1..Len(used)
    <3>1. used'[i] = used[i] /\ used[i] \in Nat
      BY <1>1, <1>3, <1>4, <2>3
    <3> QED
      BY <1>1, <1>2, <1>3, <2>3, <3>1 DEF HitIsLast
  <2> QED
    BY <2>1, <2>2, <2>3
<1> QED
  BY <1>1, <1>3, <1>5 DEF v, HitIsLast

LEMMA CycleStep == CycleInv /\ [Next]_vars => CycleInv'
<1> SUFFICES ASSUME CycleInv, [Next]_vars PROVE CycleInv'
  OBVIOUS
<1> DEFINE v == RetryDecision(clock - first, hit, min, max, d)
<1>1. clock - first \in Int /\ hit \in Nat /\ min \in Nat /\ max \in Nat /\ d \in Nat
  BY DEF CycleInv, TypeOK
<1>2. CASE Pull
  <2>1. v \in Decision
    BY <1>1, RetryDecisionType
  <2>2. TypeOK'
    BY <1>2, <2>1 DEF Pull, CycleInv, TypeOK, Decision
  <2>3. HitIsLast'
    <3>1. CASE v.kind = "slot"
      BY <1>2, <3>1, SlotUsed DEF CycleInv, Pull
    <3>2. CASE v.kind = "reset"
      BY <1>2, <3>2 DEF Pull, HitIsLast
    <3>3. CASE v.kind \notin {"slot", "reset"}
      BY <1>2, <3>3 DEF Pull, CycleInv, HitIsLast
    <3> QED
      BY <3>1, <3>2, <3>3
  <2>4. SoundPolicyAnswers'
    BY <1>1, <1>2, SoundAnswer DEF Pull, SoundPolicyAnswers
  <2> QED
    BY <2>2, <2>3, <2>4 DEF CycleInv
<1>3. CASE Tick
  BY <1>3, CycleAssumption DEF Tick, CycleInv, TypeOK, HitIsLast, SoundPolicyAnswers
<1>4. CASE UNCHANGED vars
  BY <1>4 DEF vars, CycleInv, TypeOK, HitIsLast, SoundPolicyAnswers
<1> QED
  BY <1>2, <1>3, <1>4 DEF Next

LEMMA CycleKept == Spec => []CycleInv
BY CycleInit, CycleStep, PTL DEF Spec

\* Every variable keeps its type.
THEOREM CycleTyped == Spec => []TypeOK
<1>1. CycleInv => TypeOK
  BY DEF CycleInv
<1> QED
  BY <1>1, CycleKept, PTL

\* retry_policy_check answers each pull when the maximum backoff is no more than the
\* minimum, or at least twice a minimum that is not zero.
THEOREM SoundPoliciesAnswer == Spec => []SoundPolicyAnswers
<1>1. CycleInv => SoundPolicyAnswers
  BY DEF CycleInv
<1> QED
  BY <1>1, CycleKept, PTL

\* retry_policy_check, "making Pull request > 1 time in backoff slot": in a cycle of any
\* length a slot lets one pull through, while it lasts, and slots are used in order.
THEOREM OnePullPerSlot == Spec => OncePerSlot
<1>1. ASSUME CycleInv, [Next]_vars, answer' = "slot", used' # used
      PROVE  LET sec == clock - first IN
             /\ \A i \in 1..Len(used) : used[i] < hit'
             /\ sec > d + min
             /\ \A k \in 1..(hit' - 1) : k \in Slots(min, max) => sec >= SlotEnd(k, min, d)
             /\ hit' \in Slots(min, max) => sec < SlotEnd(hit', min, d)
  <2> DEFINE sec == clock - first
  <2>1. Pull
    BY <1>1 DEF Next, Tick, vars
  <2>2. /\ hit' = RetryDecision(sec, hit, min, max, d).slot /\ hit' > hit
        /\ RetryDecision(sec, hit, min, max, d).kind = "slot"
    BY <1>1, <2>1, SlotUsed DEF CycleInv
  <2>3. sec \in Int /\ hit \in Nat /\ min \in Nat /\ max \in Nat /\ d \in Nat
        /\ used \in Seq(Nat)
    BY <1>1 DEF CycleInv, TypeOK
  <2> HIDE DEF sec
  <2>4. PICK n : n = hit'
    OBVIOUS
  <2>5. /\ n \in Nat /\ n > hit /\ sec > d + min
        /\ \A k \in Slots(min, max) : k < n <=> sec >= SlotEnd(k, min, d)
    BY <2>2, <2>3, <2>4, GrantedSlot
  <2>6. ASSUME NEW i \in 1..Len(used) PROVE used[i] < n
    <3>1. used[i] \in Nat /\ used[i] <= hit
      BY <1>1, <2>3 DEF CycleInv, HitIsLast
    <3> QED
      BY <2>3, <2>5, <3>1
  <2>7. ASSUME NEW k \in 1..(n - 1), k \in Slots(min, max)
        PROVE  sec >= SlotEnd(k, min, d)
    <3>1. k < n
      BY <2>5
    <3> QED
      BY <2>5, <2>7, <3>1, Zenon
  <2>8. ASSUME n \in Slots(min, max) PROVE sec < SlotEnd(n, min, d)
    <3>1. ~(sec >= SlotEnd(n, min, d))
      <4>1. ~(n < n)
        BY <2>5
      <4> QED
        BY <2>5, <2>8, <4>1, Zenon
    <3>2. SlotEnd(n, min, d) \in Nat
      BY <2>3, <2>5, SlotEndType
    <3> QED
      BY <2>3, <3>1, <3>2
  <2> QED
    BY <2>4, <2>5, <2>6, <2>7, <2>8, Zenon DEF sec
<1>2. CycleInv /\ [Next]_vars =>
        [answer' = "slot" /\ used' # used =>
          LET sec == clock - first IN
          /\ \A i \in 1..Len(used) : used[i] < hit'
          /\ sec > d + min
          /\ \A k \in 1..(hit' - 1) : k \in Slots(min, max) => sec >= SlotEnd(k, min, d)
          /\ hit' \in Slots(min, max) => sec < SlotEnd(hit', min, d)]_vars
  BY <1>1
<1> QED
  BY <1>2, CycleKept, PTL DEF Spec, OncePerSlot

(***************************************************************************)
(* The loops.  What a recursive function is follows from a function that   *)
(* satisfies the recursion, its closed form, being the only one: two of    *)
(* them that differ would differ at a least place.                         *)
(***************************************************************************)

LEMMA LeastNumber ==
  ASSUME NEW T \in SUBSET Nat, T # {}
  PROVE  \E n \in T : \A k \in T : n <= k
<1>1. IsWellFoundedOn({ss \in Nat \X Nat : ss[1] < ss[2]}, Nat)
  BY NatLessThanWellFounded DEF OpToRel
<1>2. PICK n \in T : \A k \in T : <<k, n>> \notin {ss \in Nat \X Nat : ss[1] < ss[2]}
  BY <1>1, WFMin, Zenon
<1>3. ASSUME NEW k \in T PROVE n <= k
  <2>1. k \in Nat /\ n \in Nat
    OBVIOUS
  <2>2. ~(k < n)
    BY <1>2, <2>1
  <2> QED
    BY <2>1, <2>2
<1> QED
  BY <1>3

\* The list box from minimum backoff m on: the ends of the slots.
BoxForm(m, x, D) == [i \in 1..Cardinality(Slots(m, x)) |-> SlotEnd(i, m, D)]

LEMMA SlotDoubles ==
  ASSUME NEW m \in Nat, NEW k \in Nat
  PROVE  m * 2^(k + 1) = (2 * m) * 2^k
<1>1. \A p \in Nat : m * (2 * p) = (2 * m) * p
  OBVIOUS
<1> QED
  BY <1>1, PowersDouble, Subsets, Zenon

\* One turn of the loop takes one slot off.
LEMMA SlotsDouble ==
  ASSUME NEW m \in Nat, m > 0, NEW x \in Nat
  PROVE  IF 2 * m <= x
         THEN Cardinality(Slots(m, x)) = Cardinality(Slots(2 * m, x)) + 1
         ELSE Slots(m, x) = {}
<1> DEFINE L == Cardinality(Slots(2 * m, x))
<1>1. L \in Nat /\ Slots(2 * m, x) = 1..L
  BY SlotsPrefix
<1> HIDE DEF L
<1>2. \A k \in Nat : k > 0 => 2 * m <= m * 2^k /\ m * 2^k \in Nat /\ k <= m * 2^k
  <2> SUFFICES ASSUME NEW k \in Nat, k > 0
               PROVE  2 * m <= m * 2^k /\ m * 2^k \in Nat /\ k <= m * 2^k
    OBVIOUS
  <2>1. 2^1 = 2 /\ 1 \in Nat /\ 1 <= k
    OBVIOUS
  <2>2. m * 2^1 <= m * 2^k /\ m * 2^k \in Nat
    BY <2>1, EndsGrow, Zenon
  <2>3. m * 2 <= m * 2^k
    BY <2>1, <2>2, Zenon
  <2>4. \A p \in Nat : k <= p => k <= m * p
    OBVIOUS
  <2>5. k <= m * 2^k
    BY <2>4, Subsets, PowersExceed, Zenon
  <2>6. m * 2 = 2 * m
    OBVIOUS
  <2> QED
    BY <2>2, <2>3, <2>5, <2>6, Zenon
<1>3. CASE 2 * m <= x
  <2>1. ASSUME NEW k \in Slots(m, x) PROVE k \in 1..(L + 1)
    <3>1. k \in 1..x /\ m * 2^k <= x
      BY DEF Slots
    <3>2. CASE k = 1
      BY <1>1, <3>2
    <3>3. CASE k # 1
      <4>1. k - 1 \in Nat /\ (k - 1) + 1 = k /\ k - 1 \in 1..x
        BY <3>1, <3>3
      <4>2. (2 * m) * 2^(k - 1) <= x
        BY <3>1, <4>1, SlotDoubles, Zenon
      <4>3. k - 1 \in 1..L
        BY <1>1, <4>1, <4>2, Zenon DEF Slots
      <4> QED
        BY <1>1, <3>1, <4>3
    <3> QED
      BY <3>2, <3>3
  <2>2. ASSUME NEW k \in 1..(L + 1) PROVE k \in Slots(m, x)
    <3>1. k \in Nat /\ k > 0
      BY <1>1
    <3>2. m * 2^k <= x
      <4>1. CASE k = 1
        <5>1. 2^1 = 2 /\ m * 2 = 2 * m
          OBVIOUS
        <5> QED
          BY <1>3, <4>1, <5>1, Zenon
      <4>2. CASE k # 1
        <5>1. k - 1 \in Nat /\ (k - 1) + 1 = k /\ k - 1 \in 1..L
          BY <1>1, <3>1, <4>2
        <5>2. (2 * m) * 2^(k - 1) <= x
          BY <1>1, <5>1, Zenon DEF Slots
        <5> QED
          BY <5>1, <5>2, SlotDoubles, Zenon
      <4> QED
        BY <4>1, <4>2
    <3>3. k \in 1..x
      <4>1. PICK p \in Nat : p = m * 2^k
        BY <1>2, <3>1, Zenon
      <4>2. k <= p /\ p <= x
        BY <1>2, <3>1, <3>2, <4>1, Zenon
      <4> QED
        BY <3>1, <4>2
    <3> QED
      BY <3>2, <3>3, Zenon DEF Slots
  <2>3. Slots(m, x) = 1..(L + 1)
    BY <2>1, <2>2
  <2>4. L + 1 \in Nat
    BY <1>1
  <2>5. Cardinality(1..(L + 1)) = L + 1
    BY <2>4, Subsets, Zenon
  <2> QED
    BY <1>3, <2>3, <2>5, Zenon DEF L
<1>4. CASE ~(2 * m <= x)
  <2>1. ASSUME NEW k \in Slots(m, x) PROVE FALSE
    <3>1. k \in Nat /\ k > 0 /\ m * 2^k <= x
      BY DEF Slots
    <3>2. PICK p \in Nat : p = m * 2^k
      BY <1>2, <3>1, Zenon
    <3>3. 2 * m <= p /\ p <= x
      BY <1>2, <3>1, <3>2, Zenon
    <3> QED
      BY <1>4, <3>3
  <2> QED
    BY <1>4, <2>1
<1> QED
  BY <1>3, <1>4

LEMMA SameFunction ==
  ASSUME NEW A, NEW B, NEW f \in [A -> B], NEW g \in [A -> B], \A a \in A : f[a] = g[a]
  PROVE  f = g
OBVIOUS

LEMMA BoxRecursion ==
  ASSUME NEW m \in Nat, m > 0, NEW x \in Nat, NEW D \in Nat
  PROVE  BoxForm(m, x, D) =
           IF 2 * m <= x THEN <<2 * m + D>> \o BoxForm(2 * m, x, D) ELSE <<>>
<1> DEFINE K == Cardinality(Slots(m, x))
           L == Cardinality(Slots(2 * m, x))
<1>0. 2 * m \in Nat
  OBVIOUS
<1>1. K \in Nat /\ L \in Nat
  BY <1>0, SlotsPrefix, Zenon
<1>2. CASE 2 * m <= x
  <2>1. K = L + 1
    BY <1>2, SlotsDouble
  <2>2. ASSUME NEW i \in Nat PROVE SlotEnd(i + 1, m, D) = SlotEnd(i, 2 * m, D)
    BY SlotDoubles, Zenon DEF SlotEnd
  <2>3. SlotEnd(1, m, D) = 2 * m + D
    <3>1. 2^1 = 2 /\ m * 2 = 2 * m
      OBVIOUS
    <3> QED
      BY <3>1, Zenon DEF SlotEnd
  <2>4. \A i \in Nat : SlotEnd(i, m, D) \in Nat /\ SlotEnd(i, 2 * m, D) \in Nat
    BY <1>0, SlotEndType, Zenon
  <2>5. BoxForm(2 * m, x, D) \in Seq(Nat) /\ Len(BoxForm(2 * m, x, D)) = L
    <3>1. BoxForm(2 * m, x, D) \in [1..L -> Nat]
      BY <2>4 DEF BoxForm
    <3> QED
      BY <1>1, <3>1
  <2>6. 2 * m + D \in Nat
    OBVIOUS
  <2> DEFINE s == <<2 * m + D>> \o BoxForm(2 * m, x, D)
  <2>7. /\ s \in Seq(Nat) /\ Len(s) = L + 1 /\ s[1] = 2 * m + D
        /\ \A i \in 1..L : s[i + 1] = BoxForm(2 * m, x, D)[i]
    <3> HIDE DEF L
    <3>1. <<2 * m + D>> \in Seq(Nat) /\ Len(<<2 * m + D>>) = 1 /\ <<2 * m + D>>[1] = 2 * m + D
      BY <2>6
    <3> DEFINE a == <<2 * m + D>>
               b == BoxForm(2 * m, x, D)
    <3>2. /\ a \o b \in Seq(Nat) /\ Len(a \o b) = Len(a) + Len(b)
          /\ \A i \in 1 .. Len(a) + Len(b) :
               (a \o b)[i] = IF i <= Len(a) THEN a[i] ELSE b[i - Len(a)]
      BY <2>5, <3>1, ConcatProperties, Zenon
    <3> HIDE DEF a, b
    <3>3. /\ s \in Seq(Nat) /\ Len(s) = L + 1
          /\ \A i \in 1 .. L + 1 : s[i] = IF i <= 1 THEN a[i] ELSE b[i - 1]
      BY <1>1, <2>5, <3>1, <3>2 DEF a, b
    <3> HIDE DEF s
    <3>4. s[1] = 2 * m + D
      BY <1>1, <3>1, <3>3 DEF a
    <3>5. ASSUME NEW i \in 1..L PROVE s[i + 1] = b[i]
      <4>1. i + 1 \in 1 .. L + 1 /\ ~(i + 1 <= 1) /\ (i + 1) - 1 = i
        BY <1>1
      <4> QED
        BY <3>3, <4>1, Zenon
    <3> QED
      BY <3>3, <3>4, <3>5 DEF b
  <2>8. ASSUME NEW i \in 1..K PROVE s[i] = BoxForm(m, x, D)[i]
    <3>1. BoxForm(m, x, D)[i] = SlotEnd(i, m, D)
      BY DEF BoxForm
    <3>2. CASE i = 1
      BY <2>3, <2>7, <3>1, <3>2, Zenon
    <3>3. CASE i # 1
      <4>1. i - 1 \in 1..L /\ (i - 1) + 1 = i /\ i - 1 \in Nat
        BY <1>1, <2>1, <3>3
      <4>2. BoxForm(2 * m, x, D)[i - 1] = SlotEnd(i - 1, 2 * m, D)
        BY <4>1, Zenon DEF BoxForm
      <4> QED
        BY <2>2, <2>7, <3>1, <4>1, <4>2, Zenon
    <3> QED
      BY <3>2, <3>3
  <2>9. BoxForm(m, x, D) \in [1..K -> Nat]
    BY <2>4 DEF BoxForm
  <2>10. s \in [1..K -> Nat]
    <3>1. s \in [1..Len(s) -> Nat] /\ Len(s) = K
      BY <2>1, <2>7, LenProperties, Zenon
    <3> HIDE DEF s, K
    <3> QED
      BY <3>1, Zenon
  <2>11. s = BoxForm(m, x, D)
    <3> DEFINE t == BoxForm(m, x, D)
               I == 1..K
    <3>1. s \in [I -> Nat] /\ t \in [I -> Nat] /\ \A i \in I : s[i] = t[i]
      BY <2>8, <2>9, <2>10
    <3> HIDE DEF s, t, I
    <3>2. s = t
      BY <3>1, SameFunction
    <3> QED
      BY <3>2 DEF t
  <2> QED
    BY <1>2, <2>11
<1>3. CASE ~(2 * m <= x)
  <2>1. K = 0
    BY <1>3, SlotsDouble, FS_EmptySet
  <2>2. BoxForm(m, x, D) = <<>>
    BY <2>1 DEF BoxForm
  <2> QED
    BY <1>3, <2>2
<1> QED
  BY <1>2, <1>3

\* The recursive function of Box is its closed form.
LEMMA BoxIs ==
  ASSUME TypeOK, min > 0, min <= max
  PROVE  Box = BoxForm(min, max, d)
<1> DEFINE S == 1..(2 * max + 1)
           R(f) == [m \in S |-> IF 2 * m <= max THEN <<2 * m + d>> \o f[2 * m] ELSE <<>>]
           g == [m \in S |-> BoxForm(m, max, d)]
           F == CHOOSE f : f = R(f)
<1>1. min \in Nat /\ max \in Nat /\ d \in Nat
  BY DEF TypeOK
<1>2. \A m \in S : m \in Nat /\ m > 0 /\ (2 * m <= max => 2 * m \in S)
  BY <1>1
<1>3. g = R(g)
  <2>1. ASSUME NEW m \in S
        PROVE  BoxForm(m, max, d) = IF 2 * m <= max THEN <<2 * m + d>> \o g[2 * m] ELSE <<>>
    <3>1. 2 * m <= max => g[2 * m] = BoxForm(2 * m, max, d)
      BY <1>2
    <3>2. BoxForm(m, max, d) =
            IF 2 * m <= max THEN <<2 * m + d>> \o BoxForm(2 * m, max, d) ELSE <<>>
      BY <1>1, <1>2, BoxRecursion, Zenon
    <3> QED
      BY <3>1, <3>2, Zenon
  <2> QED
    BY <2>1, Zenon
<1>4. ASSUME NEW f, f = R(f) PROVE f = g
  <2>1. ASSUME NEW m \in S, f[m] # g[m] PROVE FALSE
    <3> DEFINE T == {2 * max + 1 - k : k \in {q \in S : f[q] # g[q]}}
    <3>1. T \in SUBSET Nat /\ T # {}
      <4> HIDE DEF g, R
      <4> QED
        BY <1>1, <2>1
    <3>2. PICK n \in T : \A k \in T : n <= k
      BY <3>1, LeastNumber
    <3>3. PICK q \in S : f[q] # g[q] /\ n = 2 * max + 1 - q
      BY <3>2, Zenon
    <3>4. CASE 2 * q <= max
      <4>1. 2 * q \in S
        BY <1>2, <3>4
      <4>2. f[2 * q] = g[2 * q]
        <5>1. SUFFICES ASSUME f[2 * q] # g[2 * q] PROVE FALSE
          OBVIOUS
        <5>2. 2 * max + 1 - 2 * q \in T
          BY <4>1, <5>1, Zenon
        <5> HIDE DEF T, g, R
        <5> QED
          BY <1>1, <1>2, <3>2, <3>3, <5>2
      <4>3. f[q] = <<2 * q + d>> \o f[2 * q] /\ g[q] = <<2 * q + d>> \o g[2 * q]
        <5>1. R(f)[q] = <<2 * q + d>> \o f[2 * q] /\ R(g)[q] = <<2 * q + d>> \o g[2 * q]
          BY <3>4, Zenon
        <5> HIDE DEF R, g
        <5> QED
          BY <1>3, <1>4, <5>1, Zenon
      <4> QED
        BY <3>3, <4>2, <4>3, Zenon
    <3>5. CASE ~(2 * q <= max)
      <4>1. R(f)[q] = <<>> /\ R(g)[q] = <<>>
        BY <3>5, Zenon
      <4> HIDE DEF R, g
      <4> QED
        BY <1>3, <1>4, <3>3, <4>1, Zenon
    <3> QED
      BY <3>4, <3>5
  <2>2. f = [m \in S |-> f[m]] /\ g = [m \in S |-> g[m]]
    BY <1>4, Zenon
  <2> QED
    BY <2>1, <2>2, Zenon
<1>5. F = g
  <2> HIDE DEF R, g
  <2> QED
    BY <1>3, <1>4, Zenon
<1>6. Box = F[min]
  BY Zenon DEF Box
<1>7. min \in S
  BY <1>1
<1> QED
  BY <1>5, <1>6, <1>7, Zenon

\* The loop over the list: the first turn that returns is that of the first slot that has
\* not ended, or the one of the slot that was used last.  n slots have ended.
LEMMA ScanIs ==
  ASSUME NEW sec, NEW h \in Nat, Len(Box) \in Nat, NEW n \in 0..Len(Box),
         \A i \in 1..Len(Box) : sec < Box[i] <=> i > n
  PROVE  ScanBox(sec, h) =
           IF n < Len(Box) /\ h < n + 1 THEN Decide("slot", n + 1) ELSE Decide("empty", h)
<1> DEFINE K == Len(Box)
           S == 1..(Len(Box) + 1)
           C(f, i) == CASE i > Len(Box)                     -> Decide("empty", h)
                        [] i <= Len(Box) /\ sec < Box[i] /\ h < i -> Decide("slot", i)
                        [] i <= Len(Box) /\ sec < Box[i] /\ h = i -> Decide("empty", h)
                        [] OTHER                            -> f[i + 1]
           R(f) == [i \in S |-> C(f, i)]
           top(i) == IF i > n THEN i ELSE n + 1
           G(i) == IF i <= K /\ n < K /\ h < top(i) THEN Decide("slot", top(i))
                                                    ELSE Decide("empty", h)
           g == [i \in S |-> G(i)]
           F == CHOOSE f : f = R(f)
           Stop(i) == i > K \/ (i > n /\ h <= i)
<1>1. ASSUME NEW f, NEW i \in S, Stop(i) PROVE C(f, i) = G(i)
  <2>1. CASE i > K
    <3>1. ~(i <= K)
      BY <2>1
    <3> QED
      BY <2>1, <3>1
  <2>2. CASE i <= K /\ h < i
    <3>1. /\ ~(i > K) /\ i > n /\ sec < Box[i] /\ n < K
      BY <1>1, <2>2
    <3>2. C(f, i) = Decide("slot", i)
      BY <2>2, <3>1
    <3> QED
      BY <2>2, <3>1, <3>2, Zenon
  <2>3. CASE i <= K /\ h = i
    <3>1. /\ ~(i > K) /\ i > n /\ sec < Box[i] /\ ~(h < i)
      BY <1>1, <2>3
    <3>2. C(f, i) = Decide("empty", h)
      BY <2>3, <3>1
    <3> QED
      BY <2>3, <3>1, <3>2, Zenon
  <2> QED
    BY <1>1, <2>1, <2>2, <2>3
<1>2. ASSUME NEW f, NEW i \in S, ~Stop(i) PROVE i + 1 \in S /\ C(f, i) = f[i + 1]
  <2>1. i <= K /\ ~(i > K) /\ (~(sec < Box[i]) \/ (~(h < i) /\ h # i)) /\ i + 1 \in S
    BY <1>2
  <2>2. C(f, i) = f[i + 1]
    BY <2>1
  <2> QED
    BY <2>1, <2>2
<1>3. ASSUME NEW i \in S, ~Stop(i) PROVE G(i + 1) = G(i)
  <2>1. i <= K /\ (i <= n \/ h > i)
    BY <1>3
  <2>2. CASE i <= n
    <3>1. top(i) = n + 1 /\ top(i + 1) = n + 1
      BY <2>2
    <3>2. (i + 1 <= K /\ n < K) <=> (i <= K /\ n < K)
      BY <2>1, <2>2
    <3> QED
      BY <3>1, <3>2, Zenon
  <2>3. CASE i > n /\ h > i
    <3>1. top(i) = i /\ top(i + 1) = i + 1
      BY <2>3
    <3>2. ~(h < i) /\ ~(h < i + 1)
      BY <2>3
    <3> QED
      BY <3>1, <3>2, Zenon
  <2> QED
    BY <2>1, <2>2, <2>3
<1> HIDE DEF C, G, Stop
<1>4. g = R(g)
  <2>1. ASSUME NEW i \in S PROVE G(i) = C(g, i)
    <3>1. CASE Stop(i)
      BY <1>1, <3>1, Zenon
    <3>2. CASE ~Stop(i)
      <4>1. C(g, i) = g[i + 1] /\ i + 1 \in S
        BY <1>2, <3>2, Zenon
      <4>2. g[i + 1] = G(i + 1)
        BY <4>1, Zenon
      <4> QED
        BY <1>3, <3>2, <4>1, <4>2, Zenon
    <3> QED
      BY <3>1, <3>2
  <2> QED
    BY <2>1, Zenon
<1>5. ASSUME NEW f, f = R(f) PROVE f = g
  <2>1. ASSUME NEW m \in S, f[m] # g[m] PROVE FALSE
    <3> DEFINE T == {K + 1 - k : k \in {q \in S : f[q] # g[q]}}
    <3>1. T \in SUBSET Nat /\ T # {}
      <4> HIDE DEF g, R
      <4> QED
        BY <2>1
    <3>2. PICK t \in T : \A k \in T : t <= k
      BY <3>1, LeastNumber
    <3>3. PICK q \in S : f[q] # g[q] /\ t = K + 1 - q
      BY <3>2, Zenon
    <3>4. f[q] = C(f, q) /\ g[q] = G(q)
      BY <1>5, Zenon
    <3>5. CASE Stop(q)
      BY <1>1, <3>3, <3>4, <3>5, Zenon
    <3>6. CASE ~Stop(q)
      <4>1. q + 1 \in S /\ f[q] = f[q + 1] /\ g[q] = g[q + 1]
        BY <1>2, <1>3, <3>4, <3>6, Zenon
      <4>2. f[q + 1] # g[q + 1]
        BY <3>3, <4>1, Zenon
      <4>3. K + 1 - (q + 1) \in T
        BY <4>1, <4>2, Zenon
      <4> HIDE DEF T, g, R
      <4> QED
        BY <3>2, <3>3, <4>1, <4>3
    <3> QED
      BY <3>5, <3>6
  <2>2. f = [i \in S |-> f[i]] /\ g = [i \in S |-> g[i]]
    BY <1>5, Zenon
  <2> QED
    BY <2>1, <2>2, Zenon
<1>6. F = g
  <2> HIDE DEF R, g
  <2> QED
    BY <1>4, <1>5, Zenon
<1>7. ScanBox(sec, h) = F[1]
  BY Zenon DEF ScanBox, C
<1>8. 1 \in S
  OBVIOUS
<1>9. ScanBox(sec, h) = G(1)
  BY <1>6, <1>7, <1>8, Zenon
<1>10. CASE n = 0
  <2>1. top(1) = n + 1 /\ (1 <= K /\ n < K <=> n < K)
    BY <1>10
  <2> QED
    BY <1>9, <2>1, Zenon DEF G
<1>11. CASE n > 0
  <2>1. top(1) = n + 1 /\ (1 <= K /\ n < K <=> n < K)
    BY <1>11
  <2> QED
    BY <1>9, <2>1, Zenon DEF G
<1> QED
  BY <1>10, <1>11

\* The closed form of the gate gives the answer of the loops, at any time and whatever
\* slot was used last.
LEMMA LoopsAgree ==
  ASSUME TypeOK, NEW sec \in Int, NEW h \in Nat
  PROVE  RetryDecision(sec, h, min, max, d) = LoopDecision(sec, h)
<1>1. min \in Nat /\ max \in Nat /\ d \in Nat
  BY DEF TypeOK
<1>2. CASE sec <= d + min \/ sec > d + max \/ min = 0
  BY <1>2, Zenon DEF RetryDecision, LoopDecision
<1>3. CASE ~(sec <= d + min) /\ ~(sec > d + max) /\ min # 0
  <2> DEFINE K == Cardinality(Slots(min, max))
             n == Cardinality(Ended(sec, min, max, d))
  <2>1. K \in Nat /\ Slots(min, max) = 1..K
    BY <1>1, SlotsPrefix
  <2>2. n \in Nat /\ Ended(sec, min, max, d) = 1..n
    BY <1>1, EndedPrefix
  <2>3. Box = BoxForm(min, max, d)
    BY <1>1, <1>3, BoxIs
  <2> HIDE DEF K, n
  <2>4. Box \in [1..K -> Nat] /\ \A i \in 1..K : Box[i] = SlotEnd(i, min, d)
    <3>1. ASSUME NEW i \in 1..K PROVE SlotEnd(i, min, d) \in Nat
      <4>1. i \in Nat
        BY <2>1
      <4> QED
        BY <1>1, <4>1, SlotEndType, Zenon
    <3>2. Box = [i \in 1..K |-> SlotEnd(i, min, d)]
      BY <2>3 DEF BoxForm, K
    <3> HIDE DEF K
    <3> QED
      BY <3>1, <3>2
  <2>5. Box \in Seq(Nat) /\ Len(Box) = K
    BY <2>1, <2>4
  <2>6. ASSUME NEW i \in 1..K PROVE sec < Box[i] <=> i > n
    <3>1. i \in 1..n <=> sec >= Box[i]
      BY <2>1, <2>2, <2>4, Zenon DEF Ended
    <3>2. Box[i] \in Nat /\ i \in Nat /\ i > 0
      BY <2>1, <2>4
    <3> QED
      BY <2>2, <3>1, <3>2
  <2>7. n <= K
    <3>1. 1..n \subseteq 1..K
      BY <2>1, <2>2, Zenon DEF Ended
    <3> QED
      BY <2>1, <2>2, <3>1
  <2>8. RetryDecision(sec, h, min, max, d) =
          IF K = 0 THEN Decide("error", h)
          ELSE IF h >= n + 1 \/ sec = SlotEnd(K, min, d) THEN Decide("empty", h)
          ELSE Decide("slot", n + 1)
    <3>1. Slots(min, max) = {} <=> K = 0
      BY <2>1
    <3>2. BackoffDecision(sec, h, min, max, d) =
            IF h >= n + 1 \/ sec = SlotEnd(K, min, d) THEN Decide("empty", h)
            ELSE Decide("slot", n + 1)
      BY Zenon DEF BackoffDecision, Ended, K, n
    <3> QED
      BY <1>3, <3>1, <3>2, Zenon DEF RetryDecision
  <2>9. CASE K = 0
    <3>1. Box = <<>>
      BY <2>5, <2>9
    <3> QED
      BY <1>3, <2>8, <2>9, <3>1, Zenon DEF LoopDecision
  <2>10. CASE K > 0 /\ sec > Box[K]
    <3>1. n = K /\ K # 0 /\ Box # <<>> /\ Box[K] \in Nat /\ Box[K] = SlotEnd(K, min, d)
      BY <2>1, <2>2, <2>4, <2>5, <2>6, <2>7, <2>10
    <3>2. sec # SlotEnd(K, min, d) /\ (h >= n + 1 <=> ~(h <= K))
      BY <2>1, <2>10, <3>1
    <3>3. LoopDecision(sec, h) = IF h <= K THEN Decide("slot", K + 1) ELSE Decide("empty", h)
      BY <1>3, <2>5, <2>10, <3>1, Zenon DEF LoopDecision
    <3>4. CASE h <= K
      <4>1. RetryDecision(sec, h, min, max, d) = Decide("slot", n + 1)
        BY <2>8, <3>1, <3>2, <3>4, Zenon
      <4> QED
        BY <3>1, <3>3, <3>4, <4>1, Zenon
    <3>5. CASE ~(h <= K)
      BY <2>8, <3>1, <3>2, <3>3, <3>5, Zenon
    <3> QED
      BY <3>4, <3>5
  <2>11. CASE K > 0 /\ ~(sec > Box[K])
    <3>1. K # 0 /\ Box # <<>> /\ Box[K] \in Nat /\ Box[K] = SlotEnd(K, min, d)
      BY <2>1, <2>4, <2>5, <2>11
    <3>2. LoopDecision(sec, h) = ScanBox(sec, h)
      BY <1>3, <2>5, <2>11, <3>1, Zenon DEF LoopDecision
    <3>3. ScanBox(sec, h) =
            IF n < K /\ h < n + 1 THEN Decide("slot", n + 1) ELSE Decide("empty", h)
      <4>1. Len(Box) \in Nat /\ n \in 0..Len(Box)
        BY <2>1, <2>2, <2>5, <2>7
      <4>2. \A i \in 1..Len(Box) : sec < Box[i] <=> i > n
        BY <2>5, <2>6
      <4> QED
        BY <2>5, <4>1, <4>2, ScanIs
    <3>4. n < K <=> sec # SlotEnd(K, min, d)
      <4>1. sec < Box[K] <=> K > n
        BY <2>1, <2>6, <2>11
      <4> QED
        BY <2>1, <2>2, <2>11, <3>1, <4>1
    <3>5. h < n + 1 <=> ~(h >= n + 1)
      BY <2>2
    <3> QED
      BY <2>8, <3>1, <3>2, <3>3, <3>4, <3>5, Zenon
  <2> QED
    BY <2>1, <2>9, <2>10, <2>11
<1> QED
  BY <1>2, <1>3

\* retry_policy_check: the loops of the code and the closed form of the gate decide alike
\* at every moment, for every policy and deadline.
THEOREM LoopsDecide == Spec => []AgreesWithLoops
<1>1. CycleInv => AgreesWithLoops
  <2> SUFFICES ASSUME CycleInv, NEW h \in 0..(max + 1)
               PROVE  RetryDecision(clock - first, h, min, max, d)
                        = LoopDecision(clock - first, h)
    BY DEF AgreesWithLoops
  <2>1. TypeOK /\ clock - first \in Int /\ h \in Nat
    BY DEF CycleInv, TypeOK
  <2> QED
    BY <2>1, LoopsAgree
<1> QED
  BY <1>1, CycleKept, PTL
=============================================================================
