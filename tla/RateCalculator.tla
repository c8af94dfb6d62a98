--------------------------- MODULE RateCalculator ---------------------------
(***************************************************************************)
(* A RateCalculator, the counters it is given (of the kernel: they grow,   *)
(* and start again at 0 when an interface or a device is re-created) and   *)
(* the wall clock it reads (time.time(), which can be set back).           *)
(***************************************************************************)
EXTENDS RateOps

CONSTANTS
  Keys,      \* the counters' keys
  MaxClock,  \* bound: the clock stays between 0 and this
  MaxMoved   \* bound: what a counter counts in all

ASSUME KeysAssumption  == Keys # {}
ASSUME BoundAssumption == MaxClock \in Nat /\ MaxMoved \in Nat

VARIABLES
  prev,      \* _prev_values: key -> last sample, for the keys it has
  now,       \* time.time()
  count,     \* count[k]: the counter of key k
  moved,     \* moved[k]: what was counted since k's first sample (history)
  reported,  \* reported[k]: the bytes of all rates returned for k since then (history)
  restarted  \* the keys whose counter was reset since then (history)

vars == <<prev, now, count, moved, reported, restarted>>

Zero == [k \in Keys |-> 0]

TypeOK ==
  /\ DOMAIN prev \subseteq Keys
  /\ \A k \in DOMAIN prev : prev[k] \in [time : Nat, value : Nat]
  /\ now \in Nat
  /\ count \in [Keys -> Nat]
  /\ moved \in [Keys -> Nat]
  /\ reported \in [Keys -> Nat]
  /\ restarted \subseteq Keys

Init ==
  /\ prev = [k \in {} |-> Sample(0, 0)]
  /\ now = 0
  /\ count = Zero /\ moved = Zero /\ reported = Zero
  /\ restarted = {}

-----------------------------------------------------------------------------
\* calculate_rate; calculate_rates is one such call after the other.
CalculateRate(k) ==
  /\ prev' = Remember(prev, k, now, count[k])
  /\ reported' = [reported EXCEPT ![k] = @ + RateOf(prev, k, now, count[k]).bytes]
  /\ UNCHANGED <<now, count, moved, restarted>>

\* remove_key, and clear with or without a prefix.
Remove(keys) ==
  /\ prev' = Forget(prev, keys)
  /\ moved' = [k \in Keys |-> IF k \in keys THEN 0 ELSE moved[k]]
  /\ reported' = [k \in Keys |-> IF k \in keys THEN 0 ELSE reported[k]]
  /\ restarted' = restarted \ keys
  /\ UNCHANGED <<now, count>>

\* The kernel.
Count(k) ==
  /\ count[k] < MaxMoved /\ moved[k] < MaxMoved
  /\ count' = [count EXCEPT ![k] = @ + 1]
  /\ moved' = IF k \in DOMAIN prev THEN [moved EXCEPT ![k] = @ + 1] ELSE moved
  /\ UNCHANGED <<prev, now, reported, restarted>>

Reset(k) ==
  /\ count' = [count EXCEPT ![k] = 0]
  /\ restarted' = restarted \cup ({k} \cap DOMAIN prev)
  /\ UNCHANGED <<prev, now, moved, reported>>

\* The clock goes on, or is set.
SetClock ==
  /\ now' \in 0 .. MaxClock
  /\ UNCHANGED <<prev, count, moved, reported, restarted>>

Next ==
  \/ \E k \in Keys : CalculateRate(k) \/ Count(k) \/ Reset(k)
  \/ \E keys \in SUBSET Keys \ {{}} : Remove(keys)
  \/ SetClock

Spec == Init /\ [][Next]_vars

-----------------------------------------------------------------------------
\* What the next rate of k will report of what was counted and not reported yet.
Outstanding(k) == IF k \in DOMAIN prev THEN Delta(prev[k], count[k]) ELSE 0

\* No byte is reported twice or made up: whatever the clock and the counter do, the
\* rates of a key add up to no more than was counted since its first sample.
NeverOverReports == \A k \in Keys : reported[k] + Outstanding(k) <= moved[k]

\* No byte is lost: as long as the counter is not reset, what the rates have not
\* reported is still to be reported, also when the clock was set back and
\* calculate_rate returned 0 instead.
LosesNothing == \A k \in Keys : k \notin restarted => reported[k] + Outstanding(k) = moved[k]
=============================================================================
