------------------------------ MODULE RateOps ------------------------------
(***************************************************************************)
(* What RateCalculator computes (utils/rate_calculator.py), as operators   *)
(* on its dictionary _prev_values.  A rate is kept as the pair of numbers  *)
(* that the code divides.                                                  *)
(***************************************************************************)
EXTENDS Integers

NoRate       == [bytes |-> 0, per |-> 1]
Sample(t, v) == [time |-> t, value |-> v]

\* Variant: no allowance for a counter that was reset.
PlainDelta(p, v) == v - p.value

\* A counter below its last value is taken for one that started again at 0.
Delta(p, v) == IF v < p.value THEN v ELSE v - p.value

\* There is a sample of key, and time has passed since.
CanRate(prev, key, t) == key \in DOMAIN prev /\ t > prev[key].time

RateOf(prev, key, t, v) ==
  IF CanRate(prev, key, t)
  THEN [bytes |-> Delta(prev[key], v), per |-> t - prev[key].time]
  ELSE NoRate

\* Variant: a rate does not start a new interval.
RememberFirst(prev, key, t, v) ==
  [k \in DOMAIN prev \cup {key} |-> IF k \in DOMAIN prev THEN prev[k] ELSE Sample(t, v)]

\* Variant: the sample is stored, rate or not.
RememberAlways(prev, key, t, v) ==
  [k \in DOMAIN prev \cup {key} |-> IF k = key THEN Sample(t, v) ELSE prev[k]]

\* The sample is stored when it is the first one, or gave a rate.
Remember(prev, key, t, v) ==
  IF key \in DOMAIN prev /\ ~CanRate(prev, key, t)
  THEN prev
  ELSE [k \in DOMAIN prev \cup {key} |-> IF k = key THEN Sample(t, v) ELSE prev[k]]

Forget(prev, keys) == [k \in DOMAIN prev \ keys |-> prev[k]]
=============================================================================
