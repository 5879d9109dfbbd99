---------------------------- MODULE RetryPolicy ----------------------------
(***************************************************************************)
(* The retry gate of a pull request: retry_policy_check in                 *)
(* pull_subscription_service.py, without its table.  Times are integers in *)
(* ticks.  For a subscription with minimum backoff min, maximum backoff    *)
(* max and acknowledgement deadline d, sec ticks after the first pull of   *)
(* the current cycle, of which slot hit was the last one to be used, the   *)
(* gate answers with a kind:                                               *)
(*   "open"  the pull goes ahead, the row is left alone                    *)
(*   "reset" the pull goes ahead and starts a new cycle                    *)
(*   "slot"  the pull goes ahead and uses up the slot                      *)
(*   "empty" the pull is answered with no message                          *)
(*   "error" the check raises IndexError (HTTP 500)                        *)
(*   "hang"  the check never returns                                       *)
(***************************************************************************)
EXTENDS Integers, FiniteSets

\* Mutant: a slot may end before the maximum backoff only.
MutantSlots(min, max) == {k \in 1..max : min * 2^k < max}

\* The slots of the list "box": slot k ends min * 2^k + d ticks after the first
\* pull.  The list the loop fills starts at 2 * min, so it is empty when
\* 2 * min > max.
Slots(min, max) == {k \in 1..max : min * 2^k <= max}

\* Mutant: the deadline is left out.
MutantSlotEnd(k, min, d) == min * 2^k

SlotEnd(k, min, d) == min * 2^k + d

Decision == [kind : {"open", "reset", "slot", "empty", "error", "hang"},
             slot : Nat]

Decide(kind, slot) == [kind |-> kind, slot |-> slot]

\* Mutant: hit_backoff is not looked at.
MutantReusedSlot(sec, hit, min, max, d) ==
  Decide("slot", Cardinality({k \in Slots(min, max) : sec >= SlotEnd(k, min, d)}) + 1)

\* Mutant: slots are numbered like the list's indices, and one more is taken off.
MutantSlotNumber(sec, hit, min, max, d) ==
  Decide("slot", Cardinality({k \in Slots(min, max) : sec >= SlotEnd(k, min, d)}) - 1)

\* Past the first window and before the end of the cycle.  The slots that have
\* ended are passed and the next one is open, the one after the last included;
\* it lets one pull through.  A pull on the very end of the last slot is in none.
BackoffDecision(sec, hit, min, max, d) ==
  LET slots  == Slots(min, max)
      passed == {k \in slots : sec >= SlotEnd(k, min, d)}
      slot   == Cardinality(passed) + 1
  IN IF hit >= slot \/ sec = SlotEnd(Cardinality(slots), min, d)
     THEN Decide("empty", hit)
     ELSE Decide("slot", slot)

RetryDecision(sec, hit, min, max, d) ==
  IF sec <= d + min            THEN Decide("open", hit)
  ELSE IF sec > d + max        THEN Decide("reset", 0)
  ELSE IF min = 0              THEN Decide("hang", hit)
  ELSE IF Slots(min, max) = {} THEN Decide("error", hit)
  ELSE BackoffDecision(sec, hit, min, max, d)
=============================================================================
