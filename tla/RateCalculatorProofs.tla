------------------------ MODULE RateCalculatorProofs ------------------------
(***************************************************************************)
(* Theorems about RateCalculator, for any set of keys and any bounds.      *)
(***************************************************************************)
EXTENDS RateCalculator, TLAPS

\* A delta of two samples is never negative, and never more than the counter.
LEMMA DeltaBounds ==
  ASSUME NEW p \in [time : Nat, value : Nat], NEW v \in Nat
  PROVE  Delta(p, v) \in Nat /\ Delta(p, v) <= v
BY DEF Delta

\* What calculate_rate does to the key it is called for, and to no other.
LEMMA RememberSample ==
  ASSUME TypeOK, NEW k \in Keys
  PROVE  LET new == Remember(prev, k, now, count[k])
         IN  /\ DOMAIN new = DOMAIN prev \cup {k}
             /\ \A j \in DOMAIN prev : j # k => new[j] = prev[j]
             /\ \/ k \in DOMAIN prev /\ ~CanRate(prev, k, now) /\ new[k] = prev[k]
                \/ new[k] = Sample(now, count[k])
                     /\ (k \in DOMAIN prev => CanRate(prev, k, now))
             /\ \A j \in DOMAIN new : new[j] \in [time : Nat, value : Nat]
<1> DEFINE new == Remember(prev, k, now, count[k])
<1>1. now \in Nat /\ count[k] \in Nat
  BY DEF TypeOK
<1>2. Sample(now, count[k]) \in [time : Nat, value : Nat]
  BY <1>1 DEF Sample
<1>3. CASE k \in DOMAIN prev /\ ~CanRate(prev, k, now)
  <2>1. new = prev
    BY <1>3 DEF Remember
  <2>2. QED
    BY <1>3, <2>1 DEF TypeOK
<1>4. CASE ~(k \in DOMAIN prev /\ ~CanRate(prev, k, now))
  <2>1. new = [j \in DOMAIN prev \cup {k} |->
                 IF j = k THEN Sample(now, count[k]) ELSE prev[j]]
    BY <1>4 DEF Remember
  <2>2. QED
    BY <1>2, <1>4, <2>1 DEF TypeOK
<1>5. QED
  BY <1>3, <1>4

\* Whether a rate can be given, and what of the counter it then reports.
LEMMA RateBytes ==
  ASSUME TypeOK, NEW k \in Keys
  PROVE  LET bytes == RateOf(prev, k, now, count[k]).bytes
         IN  /\ bytes \in Nat
             /\ CanRate(prev, k, now) => bytes = Outstanding(k)
             /\ ~CanRate(prev, k, now) => bytes = 0
<1>1. k \in DOMAIN prev => Delta(prev[k], count[k]) \in Nat
  BY DeltaBounds DEF TypeOK
<1>2. CASE CanRate(prev, k, now)
  BY <1>1, <1>2 DEF RateOf, CanRate, Outstanding
<1>3. CASE ~CanRate(prev, k, now)
  BY <1>3 DEF RateOf, NoRate
<1>4. QED
  BY <1>2, <1>3

\* A key without a sample has a history of nothing; NeverOverReports and LosesNothing
\* need it when the first sample of a key is taken.
NoSampleNoHistory ==
  \A k \in Keys : k \notin DOMAIN prev =>
    moved[k] = 0 /\ reported[k] = 0 /\ k \notin restarted

\* Only a reset makes a counter smaller than its last sample.
OnlyResetsGoBack ==
  \A k \in DOMAIN prev : k \notin restarted => prev[k].value <= count[k]

RateInv == /\ TypeOK /\ NoSampleNoHistory /\ OnlyResetsGoBack
           /\ NeverOverReports /\ LosesNothing

LEMMA OutstandingType == ASSUME TypeOK, NEW k \in Keys PROVE Outstanding(k) \in Nat
BY DeltaBounds DEF TypeOK, Outstanding

LEMMA RatePreservesRateInv ==
  ASSUME RateInv, NEW k \in Keys, CalculateRate(k)
  PROVE  RateInv'
<1> DEFINE bytes == RateOf(prev, k, now, count[k]).bytes
<1>1. TypeOK
  BY DEF RateInv
<1>2. /\ bytes \in Nat
      /\ CanRate(prev, k, now) => bytes = Outstanding(k)
      /\ ~CanRate(prev, k, now) => bytes = 0
  BY <1>1, RateBytes
<1>3. /\ DOMAIN prev' = DOMAIN prev \cup {k}
      /\ \A j \in DOMAIN prev : j # k => prev'[j] = prev[j]
      /\ \/ k \in DOMAIN prev /\ ~CanRate(prev, k, now) /\ prev'[k] = prev[k]
         \/ prev'[k] = Sample(now, count[k])
              /\ (k \in DOMAIN prev => CanRate(prev, k, now))
      /\ \A j \in DOMAIN prev' : prev'[j] \in [time : Nat, value : Nat]
  BY <1>1, RememberSample DEF CalculateRate
<1>4. /\ reported' = [reported EXCEPT ![k] = @ + bytes]
      /\ UNCHANGED <<now, count, moved, restarted>>
  BY DEF CalculateRate
<1>5. TypeOK'
  BY <1>1, <1>2, <1>3, <1>4 DEF TypeOK
<1>6. reported'[k] = reported[k] + bytes /\ \A j \in Keys : j # k => reported'[j] = reported[j]
  BY <1>1, <1>4 DEF TypeOK
<1>7. \A j \in Keys : j # k => Outstanding(j)' = Outstanding(j)
  BY <1>3, <1>4 DEF Outstanding
<1>8. reported'[k] + Outstanding(k)' = reported[k] + Outstanding(k)
  <2>1. CASE k \in DOMAIN prev /\ ~CanRate(prev, k, now) /\ prev'[k] = prev[k]
    <3>1. Outstanding(k)' = Outstanding(k)
      BY <1>3, <1>4, <2>1 DEF Outstanding
    <3>2. QED
      BY <1>1, <1>2, <1>6, <2>1, <3>1 DEF TypeOK
  <2>2. CASE /\ prev'[k] = Sample(now, count[k])
             /\ (k \in DOMAIN prev => CanRate(prev, k, now))
    <3>1. Outstanding(k)' = 0
      BY <1>1, <1>3, <1>4, <2>2 DEF Outstanding, Delta, Sample, TypeOK
    <3>2. bytes = Outstanding(k)
      BY <1>2, <2>2 DEF CanRate, Outstanding
    <3>3. QED
      BY <1>1, <1>2, <1>6, <3>1, <3>2 DEF TypeOK
  <2>3. QED
    BY <1>3, <2>1, <2>2
<1>9. \A j \in Keys : reported'[j] + Outstanding(j)' = reported[j] + Outstanding(j)
  BY <1>6, <1>7, <1>8
<1>10. OnlyResetsGoBack'
  BY <1>1, <1>3, <1>4 DEF RateInv, OnlyResetsGoBack, Sample, TypeOK
<1>11. QED
  BY <1>3, <1>4, <1>5, <1>6, <1>9, <1>10
     DEF RateInv, NoSampleNoHistory, NeverOverReports, LosesNothing

LEMMA RemovePreservesRateInv ==
  ASSUME RateInv, NEW keys \in SUBSET Keys, Remove(keys)
  PROVE  RateInv'
<1>1. TypeOK
  BY DEF RateInv
<1>2. /\ DOMAIN prev' = DOMAIN prev \ keys
      /\ \A k \in DOMAIN prev' : prev'[k] = prev[k]
      /\ count' = count /\ now' = now
  BY DEF Remove, Forget
<1>3. \A k \in Keys : /\ moved'[k] = IF k \in keys THEN 0 ELSE moved[k]
                      /\ reported'[k] = IF k \in keys THEN 0 ELSE reported[k]
  BY DEF Remove
<1>4. restarted' = restarted \ keys
  BY DEF Remove
<1>5. TypeOK'
  <2>1. restarted' \subseteq Keys
    BY <1>1, <1>4 DEF TypeOK
  <2>2. moved' \in [Keys -> Nat] /\ reported' \in [Keys -> Nat]
    BY <1>1 DEF Remove, TypeOK
  <2>3. QED
    BY <1>1, <1>2, <2>1, <2>2 DEF TypeOK
<1>6. \A k \in Keys : Outstanding(k)' = IF k \in keys THEN 0 ELSE Outstanding(k)
  BY <1>2 DEF Outstanding
<1>7. NoSampleNoHistory'
  BY <1>2, <1>3, <1>4 DEF RateInv, NoSampleNoHistory
<1>8. NeverOverReports' /\ LosesNothing'
  BY <1>3, <1>4, <1>6 DEF RateInv, NeverOverReports, LosesNothing
<1>9. OnlyResetsGoBack'
  BY <1>1, <1>2, <1>4 DEF RateInv, OnlyResetsGoBack, TypeOK
<1>10. QED
  BY <1>5, <1>7, <1>8, <1>9 DEF RateInv

LEMMA CountPreservesRateInv ==
  ASSUME RateInv, NEW k \in Keys, Count(k)
  PROVE  RateInv'
<1>1. TypeOK
  BY DEF RateInv
<1>2. UNCHANGED <<prev, now, reported, restarted>>
  BY DEF Count
<1>3. /\ count'[k] = count[k] + 1
      /\ \A j \in Keys : j # k => count'[j] = count[j]
  BY <1>1 DEF Count, TypeOK
<1>4. /\ moved'[k] = IF k \in DOMAIN prev THEN moved[k] + 1 ELSE moved[k]
      /\ \A j \in Keys : j # k => moved'[j] = moved[j]
  BY <1>1 DEF Count, TypeOK
<1>5. TypeOK'
  BY <1>1, <1>2 DEF Count, TypeOK
<1>6. \A j \in Keys : j # k => Outstanding(j)' = Outstanding(j)
  BY <1>2, <1>3 DEF Outstanding
<1>7. OnlyResetsGoBack'
  BY <1>1, <1>2, <1>3 DEF RateInv, OnlyResetsGoBack, TypeOK
<1>8. CASE k \in DOMAIN prev
  <2>1. prev[k].value \in Nat /\ count[k] \in Nat /\ reported[k] \in Nat /\ moved[k] \in Nat
    BY <1>1, <1>8 DEF TypeOK
  <2>2. /\ Outstanding(k)' \in Nat
        /\ Outstanding(k) \in Nat
        /\ Outstanding(k)' <= Outstanding(k) + 1
    BY <1>2, <1>3, <1>8, <2>1 DEF Outstanding, Delta
  <2>3. k \notin restarted => Outstanding(k)' = Outstanding(k) + 1
    BY <1>2, <1>3, <1>8, <2>1 DEF RateInv, OnlyResetsGoBack, Outstanding, Delta
  <2>4. QED
    BY <1>2, <1>4, <1>5, <1>6, <1>8, <1>7, <2>1, <2>2, <2>3
       DEF RateInv, NoSampleNoHistory, NeverOverReports, LosesNothing
<1>9. CASE k \notin DOMAIN prev
  BY <1>2, <1>4, <1>5, <1>6, <1>9, <1>7 DEF RateInv, NoSampleNoHistory, NeverOverReports,
     LosesNothing, Outstanding
<1>10. QED
  BY <1>8, <1>9

LEMMA ResetPreservesRateInv ==
  ASSUME RateInv, NEW k \in Keys, Reset(k)
  PROVE  RateInv'
<1>1. TypeOK
  BY DEF RateInv
<1>2. UNCHANGED <<prev, now, moved, reported>>
  BY DEF Reset
<1>3. /\ count'[k] = 0
      /\ \A j \in Keys : j # k => count'[j] = count[j]
      /\ count' \in [Keys -> Nat]
  BY <1>1 DEF Reset, TypeOK
<1>4. restarted' = restarted \cup ({k} \cap DOMAIN prev)
  BY DEF Reset
<1>5. restarted' \subseteq Keys
  BY <1>1, <1>4 DEF TypeOK
<1>6. TypeOK'
  BY <1>1, <1>2, <1>3, <1>5 DEF TypeOK
<1>7. \A j \in Keys : j # k => Outstanding(j)' = Outstanding(j)
  BY <1>2, <1>3 DEF Outstanding
<1>8. Outstanding(k)' = 0 /\ Outstanding(k) \in Nat
  <2>1. CASE k \in DOMAIN prev
    BY <1>1, <1>2, <1>3, <2>1, OutstandingType DEF Outstanding, Delta, TypeOK
  <2>2. CASE k \notin DOMAIN prev
    BY <1>2, <2>2 DEF Outstanding
  <2>3. QED
    BY <2>1, <2>2
<1>9. OnlyResetsGoBack'
  BY <1>1, <1>2, <1>3, <1>4 DEF RateInv, OnlyResetsGoBack, TypeOK
<1>10. reported[k] \in Nat /\ moved[k] \in Nat
  BY <1>1 DEF TypeOK
<1>11. NoSampleNoHistory'
  BY <1>2, <1>4 DEF RateInv, NoSampleNoHistory
<1>12. NeverOverReports'
  BY <1>2, <1>7, <1>8, <1>10 DEF RateInv, NeverOverReports
<1>13. LosesNothing'
  BY <1>2, <1>4, <1>7, <1>8, <1>10 DEF RateInv, LosesNothing, NoSampleNoHistory
<1>14. QED
  BY <1>6, <1>9, <1>11, <1>12, <1>13 DEF RateInv

LEMMA SpecRateInv == Spec => []RateInv
<1>1. Init => RateInv
  <2> SUFFICES ASSUME Init PROVE RateInv
    OBVIOUS
  <2>1. DOMAIN prev = {} /\ now = 0 /\ count = Zero /\ moved = Zero /\ reported = Zero
    BY DEF Init
  <2>2. restarted = {}
    BY DEF Init
  <2>3. QED
    BY <2>1, <2>2 DEF RateInv, TypeOK, NoSampleNoHistory, OnlyResetsGoBack,
       NeverOverReports, LosesNothing, Outstanding, Zero
<1>2. RateInv /\ [Next]_vars => RateInv'
  <2> SUFFICES ASSUME RateInv, [Next]_vars PROVE RateInv'
    OBVIOUS
  <2>1. CASE \E k \in Keys : CalculateRate(k) \/ Count(k) \/ Reset(k)
    BY <2>1, RatePreservesRateInv, CountPreservesRateInv, ResetPreservesRateInv
  <2>2. CASE \E keys \in SUBSET Keys \ {{}} : Remove(keys)
    BY <2>2, RemovePreservesRateInv
  <2>3. CASE SetClock
    <3>1. now' \in Nat /\ UNCHANGED <<prev, count, moved, reported, restarted>>
      BY <2>3, BoundAssumption DEF SetClock
    <3>2. QED
      BY <3>1 DEF RateInv, TypeOK, NoSampleNoHistory, OnlyResetsGoBack,
         NeverOverReports, LosesNothing, Outstanding
  <2>4. CASE UNCHANGED vars
    BY <2>4 DEF vars, RateInv, TypeOK, NoSampleNoHistory, OnlyResetsGoBack,
       NeverOverReports, LosesNothing, Outstanding
  <2>5. QED
    BY <2>1, <2>2, <2>3, <2>4 DEF Next
<1>3. QED
  BY <1>1, <1>2, PTL DEF Spec

\* The calculator's samples, rates and histories are what their types say: no rate is
\* negative, whatever the counters and the clock do.
THEOREM RatesWellTyped == Spec => []TypeOK
<1>1. RateInv => TypeOK
  BY DEF RateInv
<1>2. QED
  BY <1>1, SpecRateInv, PTL

\* The rates of a counter add up to no more than it counted since its first sample,
\* for any counters and any clock.
THEOREM RatesNeverOverReport == Spec => []NeverOverReports
<1>1. RateInv => NeverOverReports
  BY DEF RateInv
<1>2. QED
  BY <1>1, SpecRateInv, PTL

\* While a counter is not reset, every byte it counts is reported or still to be
\* reported, for any clock.
THEOREM RatesLoseNothing == Spec => []LosesNothing
<1>1. RateInv => LosesNothing
  BY DEF RateInv
<1>2. QED
  BY <1>1, SpecRateInv, PTL
=============================================================================
