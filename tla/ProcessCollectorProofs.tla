----------------------- MODULE ProcessCollectorProofs -----------------------
(***************************************************************************)
(* The caches and the loop of get_processes, for any number of processes,  *)
(* any interval between full discoveries and any order of events on the    *)
(* host.                                                                   *)
(***************************************************************************)
EXTENDS ProcessCollector, FiniteSetTheorems, WellFoundedInduction, TLAPS

\* The PIDs the loop goes by are numbers.
PidInv ==
  /\ DOMAIN world \subseteq Pids /\ todo \subseteq Pids
  /\ DOMAIN rosCache \subseteq Pids /\ DOMAIN newRos \subseteq Pids

\* The invariant of the caches: nothing is left over when a cycle begins.
CacheInv ==
  /\ CachesAreBounded
  /\ pc = "idle" => current = {}

\* The invariant of the loop: what it has reported is behind it, and what is below that is
\* in seen_pids.
LoopInv ==
  /\ CountedTwiceOnlyIfSmaller
  /\ \A r \in report : r.pid \in Nat /\ r.children \subseteq seen /\ \A p \in todo : r.pid < p

Inv == PidInv /\ CacheInv /\ LoopInv

-----------------------------------------------------------------------------
\* Facts about the operators.

LEMMA NatMin ==
  ASSUME NEW T, T \subseteq Nat, T # {}
  PROVE  \E m \in T : \A n \in T : m <= n
<1> DEFINE less == {pair \in Nat \X Nat : pair[1] < pair[2]}
<1>1. IsWellFoundedOn(less, Nat)
  BY NatLessThanWellFounded DEF OpToRel
<1>2. \A n, m \in Nat : n < m => <<n, m>> \in less
  OBVIOUS
<1> HIDE DEF less
<1>3. PICK m \in T : \A n \in T : ~(<<n, m>> \in less)
  BY <1>1, WFMin
<1>4. ASSUME NEW n \in T PROVE m <= n
  <2>1. n \in Nat /\ m \in Nat
    OBVIOUS
  <2>2. ~(n < m)
    BY <1>2, <1>3, <2>1
  <2> QED BY <2>1, <2>2
<1> QED BY <1>4

\* A step can be repeated from a first value: the least number of times it cannot be has a
\* predecessor, for which it can.
LEMMA Iterates ==
  ASSUME NEW U, NEW init \in U, NEW step \in [U -> U]
  PROVE  \E h \in [Nat -> U] : h[0] = init /\ \A n \in Nat : h[n + 1] = step[h[n]]
<1> DEFINE prefix(f, n) == f[0] = init /\ \A m \in Nat : m < n => f[m + 1] = step[f[m]]
           bad    == {n \in Nat : ~\E f \in [Nat -> U] : prefix(f, n)}
           differ == {n \in Nat : \E f, g \in [Nat -> U] :
                                    prefix(f, n) /\ prefix(g, n) /\ f[n] # g[n]}
<1>1. bad = {}
  <2> SUFFICES ASSUME bad # {} PROVE FALSE
    OBVIOUS
  <2>1. PICK n \in bad : \A m \in bad : n <= m
    <3>1. bad \subseteq Nat
      OBVIOUS
    <3> HIDE DEF bad
    <3> QED BY <3>1, NatMin
  <2>2. n # 0
    <3>1. prefix([m \in Nat |-> init], 0)
      OBVIOUS
    <3> QED BY <3>1
  <2>3. n - 1 \in Nat /\ ~(n <= n - 1) /\ n \in Nat
    BY <2>2
  <2>4. n - 1 \notin bad
    <3> HIDE DEF bad
    <3> QED BY <2>1, <2>3
  <2>5. PICK f \in [Nat -> U] : prefix(f, n - 1)
    BY <2>3, <2>4
  <2> DEFINE g == [f EXCEPT ![n] = step[f[n - 1]]]
  <2>6. g \in [Nat -> U] /\ g[n] = step[f[n - 1]] /\ \A m \in Nat : m # n => g[m] = f[m]
    BY <2>3
  <2> HIDE DEF g
  <2>7. ASSUME NEW m \in Nat, m < n PROVE g[m + 1] = step[g[m]]
    <3>1. g[m] = f[m]
      BY <2>6, <2>7
    <3>2. CASE m = n - 1
      BY <2>3, <2>6, <3>1, <3>2
    <3>3. CASE m # n - 1
      <4>1. m < n - 1 /\ m + 1 # n /\ m + 1 \in Nat
        BY <2>3, <2>7, <3>3
      <4> QED BY <2>5, <2>6, <3>1, <4>1
    <3> QED BY <3>2, <3>3
  <2>8. g[0] = init
    BY <2>2, <2>5, <2>6
  <2> QED BY <2>6, <2>7, <2>8
<1>2. differ = {}
  <2> SUFFICES ASSUME differ # {} PROVE FALSE
    OBVIOUS
  <2>1. PICK n \in differ : \A m \in differ : n <= m
    <3>1. differ \subseteq Nat
      OBVIOUS
    <3> HIDE DEF differ
    <3> QED BY <3>1, NatMin
  <2>2. n \in Nat
    OBVIOUS
  <2>3. PICK f \in [Nat -> U], g \in [Nat -> U] : prefix(f, n) /\ prefix(g, n) /\ f[n] # g[n]
    OBVIOUS
  <2>4. n # 0
    BY <2>3
  <2>5. n - 1 \in Nat /\ ~(n <= n - 1) /\ n - 1 < n /\ n - 1 + 1 = n
    BY <2>2, <2>4
  <2>6. n - 1 \notin differ
    <3> HIDE DEF differ
    <3> QED BY <2>1, <2>5
  <2>7. prefix(f, n - 1) /\ prefix(g, n - 1)
    BY <2>2, <2>3
  <2>8. f[n - 1] = g[n - 1]
    <3> HIDE DEF prefix
    <3> QED BY <2>5, <2>6, <2>7
  <2>9. f[n] = step[f[n - 1]] /\ g[n] = step[g[n - 1]]
    <3>1. \A m \in Nat : m < n => f[m + 1] = step[f[m]] /\ g[m + 1] = step[g[m]]
      BY <2>3
    <3> QED BY <2>5, <3>1
  <2> QED BY <2>3, <2>8, <2>9
<1>3. \A n \in Nat : \E f \in [Nat -> U] : prefix(f, n)
  BY <1>1
<1>4. \A n \in Nat, f, g \in [Nat -> U] : prefix(f, n) /\ prefix(g, n) => f[n] = g[n]
  BY <1>2
<1> DEFINE upto(n) == CHOOSE f \in [Nat -> U] : prefix(f, n)
           h == [n \in Nat |-> upto(n)[n]]
<1>5. \A n \in Nat : upto(n) \in [Nat -> U] /\ prefix(upto(n), n)
  <2> HIDE DEF prefix
  <2> QED BY <1>3
<1>6. \A n \in Nat : \A f : prefix(f, n + 1) => prefix(f, n) /\ f[n + 1] = step[f[n]]
  OBVIOUS
<1>7. \A f, n : prefix(f, n) => f[0] = init
  OBVIOUS
<1> HIDE DEF prefix, upto
<1>8. h \in [Nat -> U] /\ h[0] = init
  BY <1>5, <1>7
<1>9. ASSUME NEW n \in Nat PROVE h[n + 1] = step[h[n]]
  <2>1. n + 1 \in Nat
    OBVIOUS
  <2>2. prefix(upto(n + 1), n) /\ upto(n + 1)[n + 1] = step[upto(n + 1)[n]]
    BY <1>5, <1>6, <2>1
  <2>3. upto(n + 1)[n] = upto(n)[n]
    BY <1>4, <1>5, <2>1, <2>2
  <2> QED BY <2>1, <2>2, <2>3
<1> QED BY <1>8, <1>9

\* The loop takes the smallest pid.
LEMMA NextIsSmallest ==
  ASSUME PidInv, todo # {}
  PROVE  Next1 \in todo /\ Next1 \in Nat /\ \A p \in todo : p \in Nat /\ Next1 <= p
<1>1. todo \subseteq Nat
  BY PidsAssumption DEF PidInv
<1>2. \E m \in todo : \A p \in todo : m <= p
  BY <1>1, NatMin
<1> QED BY <1>1, <1>2 DEF Next1, Min

LEMMA CacheObjectsKeeps ==
  ASSUME NEW touched, NEW measured, measured \subseteq touched, CacheObjects(touched, measured)
  PROVE  /\ DOMAIN procCache' = DOMAIN procCache \cup touched
         /\ \A p \in measured : procCache'[p] = [Object(p) EXCEPT !.read = world[p].birth]
         /\ \A p \in touched \ measured : procCache'[p] = Object(p)
         /\ \A p \in DOMAIN procCache \ touched : procCache'[p] = procCache[p]
BY DEF CacheObjects

LEMMA CacheNothing ==
  ASSUME NEW p, CacheObjects({p}, {}), CacheCpu({p}, {})
  PROVE  DOMAIN procCache' = DOMAIN procCache \cup {p} /\ DOMAIN cpu' \subseteq DOMAIN cpu
<1>1. DOMAIN procCache' = DOMAIN procCache \cup {p}
  BY DEF CacheObjects
<1>2. DOMAIN cpu' = (DOMAIN cpu \ Replaced({p})) \cup {}
  BY DEF CacheCpu
<1> QED BY <1>1, <1>2

LEMMA CacheCpuKeeps ==
  ASSUME NEW touched, NEW measured, CacheCpu(touched, measured)
  PROVE  /\ DOMAIN cpu' = (DOMAIN cpu \ Replaced(touched)) \cup measured
         /\ \A p \in measured : cpu'[p] = Object(p).read
         /\ \A p \in DOMAIN cpu' \ measured : cpu'[p] = cpu[p]
BY DEF CacheCpu

LEMMA CacheNamesKeeps ==
  ASSUME NEW new, CacheNames(new) PROVE DOMAIN names' = DOMAIN names \cup new
BY DEF CacheNames

\* What the collection of a process does to the caches, however far it gets.
Touches(touched) ==
  /\ current' = current \cup touched
  /\ DOMAIN procCache' \subseteq DOMAIN procCache \cup touched
  /\ DOMAIN names' \subseteq DOMAIN names \cup touched
  /\ DOMAIN cpu' \subseteq DOMAIN cpu \cup touched
  /\ DOMAIN samples' \subseteq DOMAIN samples \cup touched
  /\ containerKeys' \subseteq containerKeys \cup touched
  /\ namespaceKeys' \subseteq namespaceKeys \cup touched

\* What it does to the report.
Reports(p) ==
  \/ report' = report /\ seen' = seen
  \/ \E r : /\ r.pid = p /\ p \notin r.children
            /\ report' = report \cup {r} /\ seen' = seen \cup r.children

LEMMA CollectGoneDoes == ASSUME NEW p, CollectGone(p) PROVE Touches({p}) /\ Reports(p) /\ world' = world
<1>1. DOMAIN procCache' = DOMAIN procCache \cup {p} /\ DOMAIN cpu' \subseteq DOMAIN cpu
  BY CacheNothing DEF CollectGone
<1> QED BY <1>1 DEF CollectGone, Touches, Reports, hostVars, keyCaches

LEMMA CollectDiesDoes ==
  ASSUME NEW p, CollectDies(p)
  PROVE  Touches({p}) /\ Reports(p) /\ DOMAIN world' \subseteq DOMAIN world
<1>1. DOMAIN names' = DOMAIN names \cup {p}
  BY CacheNamesKeeps DEF CollectDies
<1>2. DOMAIN procCache' = DOMAIN procCache \cup {p} /\ DOMAIN cpu' \subseteq DOMAIN cpu
  BY CacheNothing DEF CollectDies
<1>3. DOMAIN world' \subseteq DOMAIN world
  BY DEF CollectDies, Dies
<1> QED BY <1>1, <1>2, <1>3 DEF CollectDies, Touches, Reports

LEMMA CollectDoes ==
  ASSUME NEW p, Collect(p)
  PROVE  (\E touched : Touches(touched)) /\ Reports(p) /\ DOMAIN world' \subseteq DOMAIN world
<1>1. PICK cpuRead \in BOOLEAN, ioRead \in BOOLEAN : CollectUpTo(p, cpuRead, ioRead)
  BY DEF Collect
<1> DEFINE children == Descendants(p)
           touched  == {p} \cup children
           measured == {q \in touched \cap DOMAIN world : q = p => cpuRead}
           named    == {p} \cup NamedChildren(p, children)
           record   == [pid |-> p, name |-> names'[p], image |-> world[p].image,
                        children |-> children, cpu |-> [q \in touched |-> Sample(cpu', q)],
                        disk |-> IF ioRead THEN Sample(samples, p) ELSE 0]
<1>2. /\ CacheObjects(touched, measured) /\ CacheCpu(touched, measured) /\ CacheNames(named)
      /\ DOMAIN samples' \subseteq DOMAIN samples \cup {p}
      /\ containerKeys' = containerKeys \cup {p} /\ namespaceKeys' = namespaceKeys \cup named
      /\ report' = report \cup {record}
      /\ seen' = seen \cup children /\ current' = current \cup touched
  BY <1>1 DEF CollectUpTo
<1>3. DOMAIN world' \subseteq DOMAIN world
  BY <1>1 DEF CollectUpTo, Dies, hostVars
<1>4. named \subseteq touched /\ measured \subseteq touched /\ p \in touched
  BY DEF NamedChildren
<1>5. p \notin children
  BY DEF Descendants
<1>6. record.pid = p /\ record.children = children
  OBVIOUS
<1> HIDE DEF children, touched, measured, named, record
<1>7. DOMAIN names' = DOMAIN names \cup named /\ DOMAIN procCache' = DOMAIN procCache \cup touched
      /\ DOMAIN cpu' \subseteq DOMAIN cpu \cup measured
  <2>1. DOMAIN names' = DOMAIN names \cup named
    BY <1>2, CacheNamesKeeps
  <2>2. DOMAIN procCache' = DOMAIN procCache \cup touched
    BY <1>2, <1>4, CacheObjectsKeeps
  <2>3. DOMAIN cpu' = (DOMAIN cpu \ Replaced(touched)) \cup measured
    BY <1>2, CacheCpuKeeps
  <2> QED BY <2>1, <2>2, <2>3
<1>8. Touches(touched)
  BY <1>2, <1>4, <1>7 DEF Touches
<1>9. Reports(p)
  BY <1>2, <1>5, <1>6 DEF Reports
<1> QED BY <1>3, <1>8, <1>9

LEMMA CollectAnyDoes ==
  ASSUME NEW p, CollectAny(p)
  PROVE  (\E touched : Touches(touched)) /\ Reports(p) /\ DOMAIN world' \subseteq DOMAIN world
BY CollectGoneDoes, CollectDiesDoes, CollectDoes DEF CollectAny

-----------------------------------------------------------------------------
\* A turn of the loop.

LEMMA TouchesKeeps ==
  ASSUME CacheInv, pc = "visit", NEW touched, Touches(touched), pc' = pc, lastSeen' = lastSeen
  PROVE  CacheInv'
BY DEF Touches, CacheInv, CachesAreBounded

LEMMA ReportsKeeps ==
  ASSUME PidInv, LoopInv, todo # {}, todo' = todo \ {Next1}, ~Passed(Next1), Reports(Next1)
  PROVE  LoopInv'
<1>1. Next1 \in Nat /\ Next1 \in todo /\ \A q \in todo : q \in Nat /\ Next1 <= q
  BY NextIsSmallest
<1>2. \A q \in todo' : Next1 < q
  BY <1>1
<1>3. CASE report' = report /\ seen' = seen
  BY <1>3 DEF LoopInv, CountedTwiceOnlyIfSmaller
<1>4. CASE \E r : /\ r.pid = Next1 /\ Next1 \notin r.children
                  /\ report' = report \cup {r} /\ seen' = seen \cup r.children
  <2>1. PICK new : /\ new.pid = Next1 /\ Next1 \notin new.children
                   /\ report' = report \cup {new} /\ seen' = seen \cup new.children
    BY <1>4
  <2>2. \A r \in report : Next1 \notin r.children /\ r.pid < Next1
    BY <1>1 DEF LoopInv, Passed
  <2>3. CountedTwiceOnlyIfSmaller'
    BY <2>1, <2>2 DEF LoopInv, CountedTwiceOnlyIfSmaller
  <2>4. \A r \in report' : r.pid \in Nat /\ r.children \subseteq seen' /\ \A q \in todo' : r.pid < q
    BY <1>1, <1>2, <2>1 DEF LoopInv
  <2> QED BY <2>3, <2>4 DEF LoopInv
<1> QED BY <1>3, <1>4 DEF Reports

LEMMA SkipKeeps ==
  ASSUME CacheInv, LoopInv, Skip, pc' = pc, lastSeen' = lastSeen, todo' \subseteq todo
  PROVE  CacheInv' /\ LoopInv' /\ world' = world
BY DEF Skip, hostVars, figures, keyCaches, CacheInv, LoopInv, CachesAreBounded,
       CountedTwiceOnlyIfSmaller

LEMMA VisitKeeps == ASSUME Inv, VisitFull \/ VisitFast PROVE Inv'
<1>1. /\ pc = "visit" /\ todo # {} /\ todo' = todo \ {Next1}
      /\ pc' = pc /\ scan' = scan /\ lastSeen' = lastSeen /\ rosCache' = rosCache
  BY DEF VisitFull, VisitFast
<1>2. Next1 \in Pids
  BY <1>1, NextIsSmallest DEF Inv, PidInv
<1>3. DOMAIN newRos' \subseteq Pids
  <2>1. newRos' = newRos \/ DOMAIN newRos' = DOMAIN newRos \cup {Next1}
    BY DEF VisitFull, VisitFast
  <2> QED BY <1>2, <2>1 DEF Inv, PidInv
<1>4. Skip \/ (~Passed(Next1) /\ CollectAny(Next1))
  BY DEF VisitFull, VisitFast
<1>5. CASE Skip
  BY <1>1, <1>3, <1>5, SkipKeeps DEF Inv, PidInv
<1>6. CASE ~Passed(Next1) /\ CollectAny(Next1)
  <2>1. (\E touched : Touches(touched)) /\ Reports(Next1) /\ DOMAIN world' \subseteq DOMAIN world
    BY <1>6, CollectAnyDoes
  <2>2. CacheInv'
    BY <1>1, <2>1, TouchesKeeps DEF Inv
  <2>3. LoopInv'
    BY <1>1, <1>6, <2>1, ReportsKeeps DEF Inv
  <2> QED BY <1>1, <1>3, <2>1, <2>2, <2>3 DEF Inv, PidInv
<1> QED BY <1>4, <1>5, <1>6

-----------------------------------------------------------------------------
\* The other steps.

LEMMA InitInv == Init => Inv
BY DEF Init, None, Inv, PidInv, CacheInv, LoopInv, CachesAreBounded,
       CountedTwiceOnlyIfSmaller

LEMMA HostKeeps == ASSUME Inv, HostNext PROVE Inv'
<1>1. UNCHANGED <<cycleVars, cacheVars>>
  BY DEF HostNext, Start, Exec, ExitProcess
<1>2. DOMAIN world' \subseteq Pids
  BY DEF HostNext, Start, Exec, ExitProcess, Dies, Inv, PidInv
<1> QED
  BY <1>1, <1>2
  DEF Inv, PidInv, CacheInv, LoopInv, CachesAreBounded,
      CountedTwiceOnlyIfSmaller, cycleVars, cacheVars, figures, keyCaches

LEMMA StartKeeps == ASSUME Inv, StartCycle PROVE Inv'
<1>1. todo' \subseteq Pids
  BY DEF StartCycle, Inv, PidInv
<1> QED
  BY <1>1
  DEF StartCycle, Inv, PidInv, CacheInv, LoopInv, CachesAreBounded,
      CountedTwiceOnlyIfSmaller, cacheVars, figures, keyCaches, hostVars, None

LEMMA FinishKeeps == ASSUME Inv, FinishCycle PROVE Inv'
<1>1. PidInv'
  BY DEF FinishCycle, Inv, PidInv, hostVars, None
<1>2. CachesAreBounded'
  BY DEF FinishCycle, Stale, Inv, CacheInv, CachesAreBounded
<1> QED
  BY <1>1, <1>2
  DEF FinishCycle, Inv, CacheInv, LoopInv, CountedTwiceOnlyIfSmaller

LEMMA InvNext == Inv /\ [Next]_vars => Inv'
<1> SUFFICES ASSUME Inv, [Next]_vars PROVE Inv'
  OBVIOUS
<1>1. CASE UNCHANGED vars
  BY <1>1
  DEF vars, hostVars, cycleVars, cacheVars, figures, keyCaches, Inv, PidInv, CacheInv, LoopInv,
      CachesAreBounded, CountedTwiceOnlyIfSmaller
<1> QED
  BY <1>1, HostKeeps, StartKeeps, VisitKeeps, FinishKeeps DEF Next, CollectorNext

-----------------------------------------------------------------------------
\* No cache of the process collector keeps a pid that was missing from a cycle
\* (get_processes, process_collector.py:247).
THEOREM CachesBounded == Spec => []CachesAreBounded
<1>1. Inv => CachesAreBounded
  BY DEF Inv, CacheInv
<1> QED BY InitInv, InvNext, <1>1, PTL DEF Spec

\* A process is reported by itself and below another one only if its pid is the smaller one
\* (the loop and seen_pids, process_collector.py:133).
THEOREM CountedOnceOrSmaller == Spec => []CountedTwiceOnlyIfSmaller
<1>1. Inv => CountedTwiceOnlyIfSmaller
  BY DEF Inv, LoopInv
<1> QED BY InitInv, InvNext, <1>1, PTL DEF Spec

-----------------------------------------------------------------------------
\* Types.

\* What is below a process was scanned.
LEMMA DescendantsScanned == ASSUME NEW p PROVE Descendants(p) \subseteq DOMAIN scan
<1> DEFINE Rec(b) == b = [n \in Nat |-> IF n = 0 THEN {p}
                            ELSE b[n - 1] \cup {q \in DOMAIN scan : scan[q].ppid \in b[n - 1]}]
           below == CHOOSE b : Rec(b)
           U == SUBSET ({p} \cup DOMAIN scan)
           step == [S \in U |-> S \cup {q \in DOMAIN scan : scan[q].ppid \in S}]
           wrong == {n \in Nat : below[n] \notin U}
<1>1. \E b : Rec(b)
  <2>1. step \in [U -> U] /\ {p} \in U
    OBVIOUS
  <2> HIDE DEF U, step
  <2>2. PICK b \in [Nat -> U] : b[0] = {p} /\ \A n \in Nat : b[n + 1] = step[b[n]]
    BY <2>1, Iterates
  <2>3. ASSUME NEW n \in Nat
        PROVE  b[n] = IF n = 0 THEN {p}
                      ELSE b[n - 1] \cup {q \in DOMAIN scan : scan[q].ppid \in b[n - 1]}
    <3>1. CASE n = 0
      BY <2>2, <3>1
    <3>2. CASE n # 0
      <4>1. n - 1 \in Nat /\ n - 1 + 1 = n
        BY <3>2
      <4>2. b[n] = step[b[n - 1]] /\ b[n - 1] \in U
        BY <2>2, <4>1
      <4> QED BY <3>2, <4>2 DEF step
    <3> QED BY <3>1, <3>2
  <2>4. Rec(b)
    BY <2>2, <2>3
  <2> QED BY <2>4
<1>2. Rec(below)
  <2> HIDE DEF Rec
  <2> QED BY <1>1
<1>3. wrong = {}
  <2> SUFFICES ASSUME wrong # {} PROVE FALSE
    OBVIOUS
  <2>1. PICK n \in wrong : \A m \in wrong : n <= m
    <3>1. wrong \subseteq Nat
      OBVIOUS
    <3> HIDE DEF wrong
    <3> QED BY <3>1, NatMin
  <2> HIDE DEF below
  <2>2. n \in Nat /\ below[n] \notin U
    OBVIOUS
  <2>3. n # 0
    BY <1>2, <2>2
  <2>4. n - 1 \in Nat /\ ~(n <= n - 1)
    BY <2>2, <2>3
  <2>5. n - 1 \notin wrong
    <3> HIDE DEF wrong
    <3> QED BY <2>1, <2>4
  <2>6. below[n - 1] \in U
    BY <2>4, <2>5
  <2>7. below[n] = below[n - 1] \cup {q \in DOMAIN scan : scan[q].ppid \in below[n - 1]}
    BY <1>2, <2>2, <2>3
  <2> QED BY <2>2, <2>6, <2>7
<1>4. below[Cardinality(Pids)] \in U
  <2>1. Cardinality(Pids) \in Nat
    BY PidsAssumption, FS_CardinalityType
  <2> HIDE DEF below
  <2> QED BY <1>3, <2>1
<1>5. Descendants(p) = below[Cardinality(Pids)] \ {p}
  BY DEF Descendants
<1> HIDE DEF below
<1> QED BY <1>4, <1>5

\* A full discovery looks at what was scanned, whose records tell what it runs.
TypeInv == TypeOK /\ (pc = "visit" /\ full => todo \subseteq DOMAIN scan)

LEMMA ObjectTyped ==
  ASSUME TypeOK, NEW p \in DOMAIN scan
  PROVE  Object(p) \in Objects /\ Object(p).read \in 0 .. MaxEvents
<1>1. scan[p].birth \in 1 .. MaxEvents
  BY DEF TypeOK, Processes
<1>2. 0 \in 0 .. MaxEvents
  BY IntervalAssumption
<1>3. [birth |-> scan[p].birth, read |-> 0] \in Objects
  BY <1>1, <1>2 DEF Objects
<1>4. p \in DOMAIN procCache => procCache[p] \in Objects
  BY DEF TypeOK
<1>5. Object(p) \in Objects
  BY <1>3, <1>4 DEF Object
<1> QED BY <1>5 DEF Objects

LEMMA CacheObjectsTyped ==
  ASSUME TypeOK, NEW touched \in SUBSET DOMAIN scan, NEW measured \in SUBSET touched,
         measured \subseteq DOMAIN world, CacheObjects(touched, measured)
  PROVE  DOMAIN procCache' \subseteq Pids
         /\ \A p \in DOMAIN procCache' : procCache'[p] \in Objects
<1>1. \A p \in touched : p \in Pids /\ Object(p) \in Objects
  BY ObjectTyped DEF TypeOK
<1>2. \A p \in DOMAIN procCache : p \in Pids /\ procCache[p] \in Objects
  BY DEF TypeOK
<1>3. ASSUME NEW p \in measured PROVE [Object(p) EXCEPT !.read = world[p].birth] \in Objects
  <2>1. world[p].birth \in 0 .. MaxEvents
    BY DEF TypeOK, Processes
  <2> QED BY <1>1, <2>1 DEF Objects
<1>4. /\ DOMAIN procCache' = DOMAIN procCache \cup touched
      /\ \A p \in measured : procCache'[p] = [Object(p) EXCEPT !.read = world[p].birth]
      /\ \A p \in touched \ measured : procCache'[p] = Object(p)
      /\ \A p \in DOMAIN procCache \ touched : procCache'[p] = procCache[p]
  <2>1. measured \subseteq touched
    OBVIOUS
  <2> QED BY <2>1, CacheObjectsKeeps
<1> QED BY <1>1, <1>2, <1>3, <1>4

LEMMA CacheCpuTyped ==
  ASSUME TypeOK, NEW measured \in SUBSET DOMAIN scan, NEW touched, CacheCpu(touched, measured)
  PROVE  DOMAIN cpu' \subseteq Pids /\ \A p \in DOMAIN cpu' : cpu'[p] \in 0 .. MaxEvents
<1>1. \A p \in measured : p \in Pids /\ Object(p).read \in 0 .. MaxEvents
  BY ObjectTyped DEF TypeOK
<1>2. \A p \in DOMAIN cpu : p \in Pids /\ cpu[p] \in 0 .. MaxEvents
  BY DEF TypeOK
<1>3. /\ DOMAIN cpu' = (DOMAIN cpu \ Replaced(touched)) \cup measured
      /\ \A p \in measured : cpu'[p] = Object(p).read
      /\ \A p \in DOMAIN cpu' \ measured : cpu'[p] = cpu[p]
  BY CacheCpuKeeps
<1> QED BY <1>1, <1>2, <1>3

LEMMA CacheNamesTyped ==
  ASSUME TypeOK, NEW new \in SUBSET DOMAIN world, CacheNames(new)
  PROVE  DOMAIN names' \subseteq Pids /\ \A p \in DOMAIN names' : names'[p] \in Names
<1>1. \A p \in DOMAIN world : Name(world[p]) \in Names
  BY DEF TypeOK, Processes, Name, Names
<1> QED BY <1>1 DEF CacheNames, TypeOK

\* What a collection leaves of the right type, besides the control of the loop.
CollectTyped ==
  /\ DOMAIN world' \subseteq Pids /\ \A q \in DOMAIN world' : world'[q] \in Processes
  /\ events' \in 0 .. MaxEvents
  /\ seen' \subseteq Pids /\ current' \subseteq Pids
  /\ \A r \in report' : r.pid \in Pids /\ r.children \subseteq Pids /\ r.image \in Images
  /\ DOMAIN procCache' \subseteq Pids /\ \A q \in DOMAIN procCache' : procCache'[q] \in Objects
  /\ DOMAIN cpu' \subseteq Pids /\ \A q \in DOMAIN cpu' : cpu'[q] \in 0 .. MaxEvents
  /\ DOMAIN samples' \subseteq Pids /\ \A q \in DOMAIN samples' : samples'[q] \in 0 .. MaxEvents
  /\ DOMAIN names' \subseteq Pids /\ \A q \in DOMAIN names' : names'[q] \in Names
  /\ containerKeys' \subseteq Pids /\ namespaceKeys' \subseteq Pids

LEMMA DiesTyped ==
  ASSUME TypeOK, NEW p, Dies(p)
  PROVE  /\ DOMAIN world' \subseteq Pids /\ \A q \in DOMAIN world' : world'[q] \in Processes
         /\ events' \in 0 .. MaxEvents
<1>1. \A q \in DOMAIN world : world[q] \in Processes /\ [world[q] EXCEPT !.ppid = 0] \in Processes
  BY DEF TypeOK, Processes
<1>2. events' \in 0 .. MaxEvents
  BY IntervalAssumption DEF TypeOK, Dies, Event
<1> QED BY <1>1, <1>2 DEF Dies, TypeOK

LEMMA SkipTyped == ASSUME TypeOK, Skip PROVE CollectTyped
BY DEF TypeOK, Skip, CollectTyped, hostVars, figures, keyCaches

LEMMA CollectAnyTyped ==
  ASSUME TypeOK, NEW p \in DOMAIN scan, CollectAny(p)
  PROVE  CollectTyped
<1>0. p \in Pids /\ DOMAIN scan \subseteq Pids
  BY DEF TypeOK
<1>1. CASE CollectGone(p)
  <2>1. UNCHANGED <<world, events, seen, report, names, samples, containerKeys, namespaceKeys>>
        /\ CacheObjects({p}, {}) /\ CacheCpu({p}, {}) /\ current' = current \cup {p}
    BY <1>1 DEF CollectGone, hostVars, keyCaches
  <2>2. DOMAIN procCache' \subseteq Pids /\ \A q \in DOMAIN procCache' : procCache'[q] \in Objects
    BY <2>1, CacheObjectsTyped
  <2>3. DOMAIN cpu' \subseteq Pids /\ \A q \in DOMAIN cpu' : cpu'[q] \in 0 .. MaxEvents
    BY <2>1, CacheCpuTyped
  <2> QED BY <1>0, <2>1, <2>2, <2>3 DEF TypeOK, CollectTyped
<1>2. CASE CollectDies(p)
  <2>1. /\ p \in DOMAIN world /\ CacheObjects({p}, {}) /\ CacheCpu({p}, {}) /\ CacheNames({p})
        /\ Dies(p) /\ UNCHANGED <<seen, report, samples>>
        /\ containerKeys' = containerKeys \cup {p} /\ namespaceKeys' = namespaceKeys \cup {p}
        /\ current' = current \cup {p}
    BY <1>2 DEF CollectDies
  <2>2. DOMAIN procCache' \subseteq Pids /\ \A q \in DOMAIN procCache' : procCache'[q] \in Objects
    BY <2>1, CacheObjectsTyped
  <2>3. DOMAIN cpu' \subseteq Pids /\ \A q \in DOMAIN cpu' : cpu'[q] \in 0 .. MaxEvents
    BY <2>1, CacheCpuTyped
  <2>4. DOMAIN names' \subseteq Pids /\ \A q \in DOMAIN names' : names'[q] \in Names
    BY <2>1, CacheNamesTyped
  <2>5. /\ DOMAIN world' \subseteq Pids /\ \A q \in DOMAIN world' : world'[q] \in Processes
        /\ events' \in 0 .. MaxEvents
    BY <2>1, DiesTyped
  <2> QED BY <1>0, <2>1, <2>2, <2>3, <2>4, <2>5 DEF TypeOK, CollectTyped
<1>3. CASE Collect(p)
  <2>0. PICK cpuRead \in BOOLEAN, ioRead \in BOOLEAN : CollectUpTo(p, cpuRead, ioRead)
    BY <1>3 DEF Collect
  <2> DEFINE children == Descendants(p)
             touched == {p} \cup children
             measured == {q \in touched \cap DOMAIN world : q = p => cpuRead}
             named == {p} \cup NamedChildren(p, children)
             record == [pid |-> p, name |-> names'[p], image |-> world[p].image,
                        children |-> children, cpu |-> [q \in touched |-> Sample(cpu', q)],
                        disk |-> IF ioRead THEN Sample(samples, p) ELSE 0]
  <2>1. /\ p \in DOMAIN world
        /\ CacheObjects(touched, measured) /\ CacheCpu(touched, measured) /\ CacheNames(named)
        /\ containerKeys' = containerKeys \cup {p}
        /\ namespaceKeys' = namespaceKeys \cup named
        /\ report' = report \cup {record}
        /\ seen' = seen \cup children /\ current' = current \cup touched
    BY <2>0 DEF CollectUpTo
  <2>2. UNCHANGED <<world, events>> \/ Dies(p)
    BY <2>0 DEF CollectUpTo, hostVars
  <2>3. samples' = samples
        \/ samples' = [q \in DOMAIN samples \cup {p} |-> IF q = p THEN world[p].birth ELSE samples[q]]
    BY <2>0 DEF CollectUpTo
  <2>4. /\ children \subseteq DOMAIN scan /\ touched \subseteq DOMAIN scan
        /\ measured \subseteq touched /\ measured \subseteq DOMAIN world
        /\ named \subseteq DOMAIN world
    BY <2>1, DescendantsScanned DEF NamedChildren
  <2>5. record.pid = p /\ record.children = children /\ record.image = world[p].image
    OBVIOUS
  <2> HIDE DEF children, touched, measured, named, record
  <2>6. DOMAIN procCache' \subseteq Pids /\ \A q \in DOMAIN procCache' : procCache'[q] \in Objects
    BY <2>1, <2>4, CacheObjectsTyped
  <2>7. DOMAIN cpu' \subseteq Pids /\ \A q \in DOMAIN cpu' : cpu'[q] \in 0 .. MaxEvents
    <3>1. measured \in SUBSET DOMAIN scan
      BY <2>4
    <3> QED BY <2>1, <3>1, CacheCpuTyped
  <2>8. DOMAIN names' \subseteq Pids /\ \A q \in DOMAIN names' : names'[q] \in Names
    BY <2>1, <2>4, CacheNamesTyped
  <2>9. world[p].image \in Images /\ named \subseteq Pids /\ children \subseteq Pids
        /\ touched \subseteq Pids /\ world[p].birth \in 0 .. MaxEvents
    BY <1>0, <2>1, <2>4 DEF TypeOK, Processes
  <2>10. DOMAIN samples' \subseteq Pids /\ \A q \in DOMAIN samples' : samples'[q] \in 0 .. MaxEvents
    BY <1>0, <2>3, <2>9 DEF TypeOK
  <2>11. \A r \in report' : r.pid \in Pids /\ r.children \subseteq Pids /\ r.image \in Images
    BY <1>0, <2>1, <2>5, <2>9 DEF TypeOK
  <2>12. /\ DOMAIN world' \subseteq Pids /\ \A q \in DOMAIN world' : world'[q] \in Processes
         /\ events' \in 0 .. MaxEvents
    BY <2>2, DiesTyped DEF TypeOK
  <2>13. seen' \subseteq Pids /\ current' \subseteq Pids
         /\ containerKeys' \subseteq Pids /\ namespaceKeys' \subseteq Pids
    BY <1>0, <2>1, <2>9 DEF TypeOK
  <2> QED BY <2>6, <2>7, <2>8, <2>10, <2>11, <2>12, <2>13 DEF CollectTyped
<1> QED BY <1>1, <1>2, <1>3 DEF CollectAny

LEMMA VisitTyped == ASSUME TypeInv, VisitFull \/ VisitFast PROVE TypeInv'
<1>1. /\ pc = "visit" /\ todo # {} /\ todo' = todo \ {Next1}
      /\ UNCHANGED <<pmap, pc, cycle, full, scan, rosCache, lastSeen>>
  BY DEF VisitFull, VisitFast
<1>2. TypeOK /\ Next1 \in Pids
  <2>1. PidInv
    BY DEF TypeInv, TypeOK, PidInv
  <2> QED BY <1>1, <2>1, NextIsSmallest DEF PidInv, TypeInv
<1>3. Skip \/ (Next1 \in DOMAIN scan /\ CollectAny(Next1))
  <2>1. PidInv
    BY <1>2 DEF TypeOK, PidInv
  <2>2. Next1 \in todo
    BY <1>1, <2>1, NextIsSmallest
  <2> QED BY <2>2 DEF VisitFull, VisitFast, TypeInv
<1>4. CollectTyped
  BY <1>2, <1>3, SkipTyped, CollectAnyTyped
<1>5. DOMAIN newRos' \subseteq Pids /\ \A q \in DOMAIN newRos' : newRos'[q] \in BOOLEAN
  <2>1. newRos' = newRos
        \/ \E ros \in BOOLEAN : newRos' = [x \in DOMAIN newRos \cup {Next1} |->
                                             IF x = Next1 THEN ros ELSE newRos[x]]
    BY DEF VisitFull, VisitFast
  <2>2. DOMAIN newRos \subseteq Pids /\ \A q \in DOMAIN newRos : newRos[q] \in BOOLEAN
    BY <1>2 DEF TypeOK
  <2> QED BY <1>2, <2>1, <2>2
<1>6. TypeOK'
  BY <1>1, <1>2, <1>4, <1>5 DEF TypeOK, CollectTyped
<1> QED BY <1>1, <1>6 DEF TypeInv

LEMMA HostTyped == ASSUME TypeInv, HostNext PROVE TypeInv'
<1>1. UNCHANGED <<cycleVars, cacheVars>>
  BY DEF HostNext, Start, Exec, ExitProcess
<1>2. /\ DOMAIN world' \subseteq Pids /\ \A q \in DOMAIN world' : world'[q] \in Processes
      /\ events' \in 0 .. MaxEvents
  <2>0. TypeOK
    BY DEF TypeInv
  <2>1. ASSUME Event PROVE events' \in 0 .. MaxEvents /\ events + 1 \in 1 .. MaxEvents
    BY <2>0, <2>1, IntervalAssumption DEF Event, TypeOK
  <2>2. ASSUME NEW p \in Pids, Start(p)
        PROVE  DOMAIN world' \subseteq Pids /\ \A q \in DOMAIN world' : world'[q] \in Processes
    <3>1. PICK q \in DOMAIN world \cup {0}, i \in Images :
            world' = [x \in DOMAIN world \cup {p} |->
                        IF x = p THEN [birth |-> events + 1, ppid |-> q, image |-> i] ELSE world[x]]
      BY <2>2 DEF Start
    <3>2. [birth |-> events + 1, ppid |-> q, image |-> i] \in Processes
      BY <2>0, <2>1, <2>2 DEF Start, Processes, TypeOK
    <3> QED BY <2>0, <3>1, <3>2 DEF TypeOK
  <2>3. ASSUME NEW p \in Pids, Exec(p)
        PROVE  DOMAIN world' \subseteq Pids /\ \A q \in DOMAIN world' : world'[q] \in Processes
    <3>1. PICK i \in Images : world' = [world EXCEPT ![p].image = i]
      BY <2>3 DEF Exec
    <3>2. world[p] \in Processes /\ [world[p] EXCEPT !.image = i] \in Processes
      BY <2>0, <2>3 DEF Exec, Processes, TypeOK
    <3> QED BY <2>0, <3>1, <3>2 DEF TypeOK
  <2> QED BY <2>0, <2>1, <2>2, <2>3, DiesTyped DEF HostNext, Start, Exec, ExitProcess, Dies
<1>3. TypeOK'
  BY <1>1, <1>2 DEF TypeInv, TypeOK, cycleVars, cacheVars, figures, keyCaches
<1> QED BY <1>1, <1>3 DEF TypeInv, cycleVars

LEMMA StartTyped == ASSUME TypeInv, StartCycle PROVE TypeInv'
<1>0. TypeOK
  BY DEF TypeInv
<1>1. PICK left \in {{}, Reused} :
        /\ scan' = [p \in DOMAIN world \ left |-> world[p]]
        /\ pmap' = [p \in DOMAIN world \ left |-> world[p].birth]
  BY DEF StartCycle
<1>2. /\ pc' = "visit" /\ cycle' = (cycle + 1) % Interval
      /\ full' = (DiscoveryDue(cycle') \/ rosCache = None)
      /\ todo' = (IF full' THEN DOMAIN scan' ELSE {p \in DOMAIN rosCache : rosCache[p]})
      /\ seen' = {} /\ current' = {} /\ newRos' = None /\ report' = {}
      /\ UNCHANGED <<hostVars, cacheVars>>
  BY DEF StartCycle
<1>3. cycle' \in 0 .. Interval - 1
  BY <1>0, <1>2, IntervalAssumption DEF TypeOK
<1>4. full' \in BOOLEAN /\ (full' => todo' = DOMAIN scan') /\ todo' \subseteq Pids
  <2>1. DOMAIN scan' \subseteq Pids /\ DOMAIN rosCache \subseteq Pids
    BY <1>0, <1>1 DEF TypeOK
  <2>2. full' \in BOOLEAN
    BY <1>2
  <2> QED BY <1>2, <2>1, <2>2
<1>5. DOMAIN scan' \subseteq Pids /\ (\A p \in DOMAIN scan' : scan'[p] \in Processes)
      /\ DOMAIN pmap' \subseteq Pids /\ DOMAIN newRos' = {}
  BY <1>0, <1>1, <1>2 DEF TypeOK, None
<1>6. TypeOK'
  BY <1>0, <1>2, <1>3, <1>4, <1>5 DEF TypeOK, hostVars, cacheVars, figures, keyCaches
<1> QED BY <1>4, <1>6 DEF TypeInv

LEMMA FinishTyped == ASSUME TypeInv, FinishCycle PROVE TypeInv'
<1>0. TypeOK
  BY DEF TypeInv
<1>1. /\ pc' = "idle" /\ full' = FALSE /\ DOMAIN scan' = {} /\ seen' = {} /\ current' = {}
      /\ DOMAIN newRos' = {} /\ report' = {} /\ lastSeen' = current
      /\ rosCache' \in {newRos, rosCache}
      /\ UNCHANGED <<world, events, pmap, cycle, todo>>
  BY DEF FinishCycle, hostVars, None
<1>2. /\ DOMAIN procCache' \subseteq DOMAIN procCache
      /\ \A p \in DOMAIN procCache' : procCache'[p] = procCache[p]
      /\ DOMAIN names' \subseteq DOMAIN names /\ \A p \in DOMAIN names' : names'[p] = names[p]
      /\ DOMAIN cpu' \subseteq DOMAIN cpu /\ \A p \in DOMAIN cpu' : cpu'[p] = cpu[p]
      /\ DOMAIN samples' \subseteq DOMAIN samples /\ \A p \in DOMAIN samples' : samples'[p] = samples[p]
      /\ containerKeys' \subseteq containerKeys /\ namespaceKeys' \subseteq namespaceKeys
  BY DEF FinishCycle
<1>3. TypeOK'
  BY <1>0, <1>1, <1>2 DEF TypeOK
<1> QED BY <1>1, <1>3 DEF TypeInv

LEMMA InitTyped == Init => TypeInv
<1> SUFFICES ASSUME Init PROVE TypeInv
  OBVIOUS
<1>1. DOMAIN None = {}
  BY DEF None
<1>2. 0 \in 0 .. MaxEvents /\ 0 \in 0 .. Interval - 1
  BY IntervalAssumption
<1>3. TypeOK
  BY <1>1, <1>2 DEF Init, TypeOK
<1> QED BY <1>3 DEF Init, TypeInv

LEMMA TypedNext == TypeInv /\ [Next]_vars => TypeInv'
<1> SUFFICES ASSUME TypeInv, [Next]_vars PROVE TypeInv'
  OBVIOUS
<1>1. CASE UNCHANGED vars
  BY <1>1 DEF vars, hostVars, cycleVars, cacheVars, figures, keyCaches, TypeInv, TypeOK
<1> QED BY <1>1, HostTyped, StartTyped, VisitTyped, FinishTyped DEF Next, CollectorNext

\* Type correctness of the scan, the loop and the caches, for any processes, trees and
\* interval: the records of processes, names and Process objects are of processes that were
\* scanned or ran at the time.
THEOREM ProcessTypes == Spec => []TypeOK
<1>1. TypeInv => TypeOK
  BY DEF TypeInv
<1> QED BY InitTyped, TypedNext, <1>1, PTL DEF Spec

-----------------------------------------------------------------------------
\* What the figures are measured from.

\* Processes are born in the order of their numbers, and a pid that is taken over is taken
\* over by a younger process.
Ages ==
  /\ \A p \in DOMAIN world : world[p].birth <= events
  /\ \A p \in DOMAIN scan :
       scan[p].birth <= events /\ (p \in DOMAIN world => scan[p].birth <= world[p].birth)

\* The Process object has not read, and the cpu value was not measured from, a process
\* older than the object; what is sampled in a cycle is not older than its scan.
Measures ==
  /\ \A p \in DOMAIN procCache : procCache[p].read = 0 \/ procCache[p].birth <= procCache[p].read
  /\ \A p \in DOMAIN cpu : p \in DOMAIN procCache /\ (cpu[p] = 0 \/ procCache[p].birth <= cpu[p])
  /\ pc = "visit" => \A p \in DOMAIN samples : p \in lastSeen \/ scan[p].birth <= samples[p]
  /\ OldFiguresNeedTakeover

FigureInv == Ages /\ Measures

LEMMA ObjectMeasures ==
  ASSUME Measures, NEW p \in DOMAIN scan
  PROVE  Object(p).birth = scan[p].birth
         /\ (Object(p).read = 0 \/ scan[p].birth <= Object(p).read)
BY DEF Object, Measures

\* The caches after a visit, and what the report takes from them.
LEMMA CachesMeasure ==
  ASSUME TypeOK, Ages, Measures, NEW touched \in SUBSET DOMAIN scan, NEW measured \in SUBSET touched,
         measured \subseteq DOMAIN world, CacheObjects(touched, measured),
         CacheCpu(touched, measured)
  PROVE  /\ \A p \in DOMAIN procCache' : procCache'[p].read = 0 \/ procCache'[p].birth <= procCache'[p].read
         /\ \A p \in DOMAIN cpu' : p \in DOMAIN procCache' /\ (cpu'[p] = 0 \/ procCache'[p].birth <= cpu'[p])
         /\ \A p \in touched : Sample(cpu', p) = 0 \/ scan[p].birth <= Sample(cpu', p)
<1>1. /\ DOMAIN procCache' = DOMAIN procCache \cup touched
      /\ \A p \in measured : procCache'[p] = [Object(p) EXCEPT !.read = world[p].birth]
      /\ \A p \in touched \ measured : procCache'[p] = Object(p)
      /\ \A p \in DOMAIN procCache \ touched : procCache'[p] = procCache[p]
  BY CacheObjectsKeeps
<1>2. /\ DOMAIN cpu' = (DOMAIN cpu \ Replaced(touched)) \cup measured
      /\ \A p \in measured : cpu'[p] = Object(p).read
      /\ \A p \in DOMAIN cpu' \ measured : cpu'[p] = cpu[p]
  BY CacheCpuKeeps
<1>3. \A p \in touched : Object(p) \in Objects /\ Object(p).birth = scan[p].birth
                         /\ (Object(p).read = 0 \/ scan[p].birth <= Object(p).read)
  BY ObjectMeasures, ObjectTyped
<1>4. \A p \in measured : procCache'[p].birth = scan[p].birth /\ procCache'[p].read = world[p].birth
  BY <1>1, <1>3 DEF Objects
<1>5. \A p \in measured : scan[p].birth <= world[p].birth
  BY DEF Ages
<1>6. \A p \in touched : procCache'[p].birth = scan[p].birth
  BY <1>1, <1>3, <1>4
<1>7. ASSUME NEW p \in DOMAIN cpu' \ measured
      PROVE  /\ p \in DOMAIN procCache /\ cpu'[p] = cpu[p] /\ procCache'[p].birth = procCache[p].birth
             /\ cpu[p] = 0 \/ procCache[p].birth <= cpu[p]
  <2>1. p \in DOMAIN cpu /\ p \notin Replaced(touched) /\ cpu'[p] = cpu[p]
    BY <1>2
  <2>2. p \in DOMAIN procCache /\ (cpu[p] = 0 \/ procCache[p].birth <= cpu[p])
    BY <2>1 DEF Measures
  <2>3. p \in touched => procCache[p].birth = scan[p].birth
    BY <2>1, <2>2 DEF Replaced
  <2> QED BY <1>1, <1>6, <2>1, <2>2, <2>3
<1>8. \A p \in DOMAIN procCache' : procCache'[p].read = 0 \/ procCache'[p].birth <= procCache'[p].read
  <2> SUFFICES ASSUME NEW p \in DOMAIN procCache'
               PROVE  procCache'[p].read = 0 \/ procCache'[p].birth <= procCache'[p].read
    OBVIOUS
  <2>1. CASE p \in measured
    BY <1>4, <1>5, <2>1
  <2>2. CASE p \in touched \ measured
    BY <1>1, <1>3, <2>2
  <2>3. CASE p \notin touched
    BY <1>1, <2>3 DEF Measures
  <2> QED BY <2>1, <2>2, <2>3
<1>9. \A p \in DOMAIN cpu' : p \in DOMAIN procCache' /\ (cpu'[p] = 0 \/ procCache'[p].birth <= cpu'[p])
  BY <1>1, <1>2, <1>3, <1>6, <1>7
<1>10. \A p \in touched : Sample(cpu', p) = 0 \/ scan[p].birth <= Sample(cpu', p)
  BY <1>6, <1>9 DEF Sample
<1> QED BY <1>8, <1>9, <1>10

LEMMA DiesAges == ASSUME TypeOK, Ages, NEW p, Dies(p), scan' = scan PROVE Ages'
<1>1. DOMAIN world' \subseteq DOMAIN world /\ \A q \in DOMAIN world' : world'[q].birth = world[q].birth
  <2>1. \A q \in DOMAIN world : [world[q] EXCEPT !.ppid = 0].birth = world[q].birth
    BY DEF TypeOK, Processes
  <2> QED BY <2>1 DEF Dies
<1>2. events' = events + 1 /\ events \in Int
  BY DEF Dies, Event, TypeOK
<1>3. \A q \in DOMAIN world : world[q].birth \in Int
  BY DEF TypeOK, Processes
<1>4. \A q \in DOMAIN scan : scan[q].birth \in Int
  BY DEF TypeOK, Processes
<1> QED BY <1>1, <1>2, <1>3, <1>4 DEF Ages

LEMMA HostFigures == ASSUME TypeOK, FigureInv, HostNext PROVE FigureInv'
<1>1. UNCHANGED <<cycleVars, cacheVars>>
  BY DEF HostNext, Start, Exec, ExitProcess
<1>2. Measures'
  BY <1>1 DEF FigureInv, Measures, OldFiguresNeedTakeover, cycleVars, cacheVars, figures
<1>3. scan' = scan
  BY <1>1 DEF cycleVars
<1>4. /\ \A q \in DOMAIN world : world[q].birth \in Int
      /\ \A q \in DOMAIN scan : scan[q].birth \in Int
      /\ events \in Int
  BY DEF TypeOK, Processes
<1>5. ASSUME NEW p \in Pids, Start(p) PROVE Ages'
  <2>1. /\ events' = events + 1 /\ DOMAIN world' = DOMAIN world \cup {p} /\ p \notin DOMAIN world
        /\ world'[p].birth = events + 1
        /\ \A q \in DOMAIN world : world'[q] = world[q]
    BY <1>5 DEF Start, Event
  <2>2. \A q \in DOMAIN world' : world'[q].birth <= events'
    BY <1>4, <2>1 DEF FigureInv, Ages
  <2>3. \A q \in DOMAIN scan : scan[q].birth <= events' /\ (q \in DOMAIN world' => scan[q].birth <= world'[q].birth)
    BY <1>4, <2>1 DEF FigureInv, Ages
  <2> QED BY <1>3, <2>2, <2>3 DEF Ages
<1>6. ASSUME NEW p \in Pids, Exec(p) PROVE Ages'
  <2>1. DOMAIN world' = DOMAIN world /\ \A q \in DOMAIN world' : world'[q].birth = world[q].birth
    <3>1. PICK i \in Images : world' = [world EXCEPT ![p].image = i]
      BY <1>6 DEF Exec
    <3>2. \A q \in DOMAIN world : [world[q] EXCEPT !.image = i].birth = world[q].birth
      BY DEF TypeOK, Processes
    <3> QED BY <3>1, <3>2
  <2>2. events' = events + 1
    BY <1>6 DEF Exec, Event
  <2> QED BY <1>3, <1>4, <2>1, <2>2 DEF FigureInv, Ages
<1>7. ASSUME NEW p \in Pids, ExitProcess(p) PROVE Ages'
  BY <1>3, <1>7, DiesAges DEF ExitProcess, FigureInv
<1> QED BY <1>2, <1>5, <1>6, <1>7 DEF HostNext, FigureInv

LEMMA StartFigures == ASSUME TypeOK, Inv, FigureInv, StartCycle PROVE FigureInv'
<1>1. /\ UNCHANGED <<hostVars, cacheVars>> /\ pc = "idle" /\ report' = {}
      /\ DOMAIN scan' \subseteq DOMAIN world /\ \A p \in DOMAIN scan' : scan'[p] = world[p]
  BY DEF StartCycle
<1>2. DOMAIN samples \subseteq lastSeen
  BY <1>1 DEF Inv, CacheInv, CachesAreBounded
<1>3. Measures'
  BY <1>1, <1>2 DEF FigureInv, Measures, OldFiguresNeedTakeover, cacheVars, figures
<1>4. \A p \in DOMAIN world : world[p].birth \in Int
  BY DEF TypeOK, Processes
<1>5. Ages'
  BY <1>1, <1>4 DEF FigureInv, Ages, hostVars
<1> QED BY <1>3, <1>5 DEF FigureInv

LEMMA FinishFigures == ASSUME FigureInv, FinishCycle PROVE FigureInv'
<1>1. Ages'
  BY DEF FinishCycle, FigureInv, Ages, hostVars, None
<1>2. /\ DOMAIN procCache' = DOMAIN procCache \ Stale
      /\ \A p \in DOMAIN procCache' : procCache'[p] = procCache[p]
      /\ DOMAIN cpu' = DOMAIN cpu \ Stale /\ \A p \in DOMAIN cpu' : cpu'[p] = cpu[p]
      /\ pc' = "idle" /\ report' = {}
  BY DEF FinishCycle
<1>3. Measures'
  BY <1>2 DEF FigureInv, Measures, OldFiguresNeedTakeover
<1> QED BY <1>1, <1>3 DEF FigureInv

\* A process that gave no figures: it was gone, or went before they were read.
LEMMA NoFigures ==
  ASSUME TypeOK, FigureInv, NEW p \in DOMAIN scan, pc' = pc, scan' = scan, lastSeen' = lastSeen,
         CacheObjects({p}, {}), CacheCpu({p}, {}), samples' = samples, report' = report
  PROVE  Measures'
<1>1. /\ \A q \in DOMAIN procCache' : procCache'[q].read = 0 \/ procCache'[q].birth <= procCache'[q].read
      /\ \A q \in DOMAIN cpu' : q \in DOMAIN procCache' /\ (cpu'[q] = 0 \/ procCache'[q].birth <= cpu'[q])
  BY CachesMeasure DEF FigureInv
<1> QED BY <1>1 DEF FigureInv, Measures, OldFiguresNeedTakeover

LEMMA CollectFigures ==
  ASSUME TypeOK, FigureInv, pc = "visit", NEW p \in DOMAIN scan, Collect(p),
         pc' = pc, scan' = scan, lastSeen' = lastSeen
  PROVE  FigureInv'
<1>1. PICK cpuRead \in BOOLEAN, ioRead \in BOOLEAN : CollectUpTo(p, cpuRead, ioRead)
  BY DEF Collect
<1> DEFINE children == Descendants(p)
           touched  == {p} \cup children
           measured == {q \in touched \cap DOMAIN world : q = p => cpuRead}
           record   == [pid |-> p, name |-> names'[p], image |-> world[p].image,
                        children |-> children, cpu |-> [q \in touched |-> Sample(cpu', q)],
                        disk |-> IF ioRead THEN Sample(samples, p) ELSE 0]
<1>2. /\ CacheObjects(touched, measured) /\ CacheCpu(touched, measured)
      /\ p \in DOMAIN world /\ report' = report \cup {record}
  BY <1>1 DEF CollectUpTo
<1>3. UNCHANGED <<world, events>> \/ Dies(p)
  BY <1>1 DEF CollectUpTo, hostVars
<1>4. samples' = samples
      \/ samples' = [q \in DOMAIN samples \cup {p} |-> IF q = p THEN world[p].birth ELSE samples[q]]
  BY <1>1 DEF CollectUpTo
<1>5. touched \subseteq DOMAIN scan /\ measured \subseteq touched /\ measured \subseteq DOMAIN world
      /\ touched = {p} \cup children
  BY DescendantsScanned
<1>6. /\ record.pid = p /\ record.children = children
      /\ \A q \in touched : record.cpu[q] = Sample(cpu', q)
      /\ record.disk = 0 \/ (p \in DOMAIN samples /\ record.disk = samples[p])
  BY DEF Sample
<1> HIDE DEF children, touched, measured, record
<1>7. /\ \A q \in DOMAIN procCache' : procCache'[q].read = 0 \/ procCache'[q].birth <= procCache'[q].read
      /\ \A q \in DOMAIN cpu' : q \in DOMAIN procCache' /\ (cpu'[q] = 0 \/ procCache'[q].birth <= cpu'[q])
      /\ \A q \in touched : Sample(cpu', q) = 0 \/ scan[q].birth <= Sample(cpu', q)
  BY <1>2, <1>5, CachesMeasure DEF FigureInv
<1>8. \A q \in DOMAIN samples' : q \in lastSeen \/ scan[q].birth <= samples'[q]
  <2>1. scan[p].birth <= world[p].birth
    BY <1>2 DEF FigureInv, Ages
  <2> QED BY <1>4, <2>1 DEF FigureInv, Measures
<1>9. scan[p].birth \in Int /\ \A q \in DOMAIN samples : samples[q] \in Int
  BY DEF TypeOK, Processes
<1>10. record.disk = 0 \/ record.disk >= scan[p].birth \/ p \in lastSeen
  BY <1>6, <1>9 DEF FigureInv, Measures
<1>11. \A q \in touched : record.cpu[q] = 0 \/ record.cpu[q] >= scan[q].birth
  BY <1>6, <1>7
<1>12. OldFiguresNeedTakeover'
  <2> SUFFICES ASSUME NEW r \in report'
               PROVE  /\ \A q \in {r.pid} \cup r.children : r.cpu[q] = 0 \/ r.cpu[q] >= scan[q].birth
                      /\ r.disk = 0 \/ r.disk >= scan[r.pid].birth \/ r.pid \in lastSeen
    BY DEF OldFiguresNeedTakeover
  <2>1. CASE r \in report
    BY <2>1 DEF FigureInv, Measures, OldFiguresNeedTakeover
  <2>2. CASE r = record
    BY <1>5, <1>6, <1>10, <1>11, <2>2
  <2> QED BY <1>2, <2>1, <2>2
<1>13. Measures'
  BY <1>7, <1>8, <1>12 DEF Measures
<1>14. Ages'
  BY <1>3, DiesAges DEF FigureInv, Ages
<1> QED BY <1>13, <1>14 DEF FigureInv

LEMMA VisitFigures == ASSUME TypeInv, FigureInv, VisitFull \/ VisitFast PROVE FigureInv'
<1>1. /\ pc = "visit" /\ todo # {} /\ UNCHANGED <<pc, scan, lastSeen>>
  BY DEF VisitFull, VisitFast
<1>2. TypeOK
  BY DEF TypeInv
<1>3. Skip \/ (Next1 \in DOMAIN scan /\ CollectAny(Next1))
  <2>1. PidInv
    BY <1>2 DEF TypeOK, PidInv
  <2>2. Next1 \in todo
    BY <1>1, <2>1, NextIsSmallest
  <2> QED BY <2>2 DEF VisitFull, VisitFast, TypeInv
<1>4. CASE Skip
  BY <1>1, <1>4 DEF Skip, hostVars, figures, FigureInv, Ages, Measures, OldFiguresNeedTakeover
<1>5. CASE Next1 \in DOMAIN scan /\ CollectGone(Next1)
  <2>1. Measures'
    BY <1>1, <1>2, <1>5, NoFigures DEF CollectGone
  <2> QED BY <1>1, <1>5, <2>1 DEF CollectGone, hostVars, FigureInv, Ages
<1>6. CASE Next1 \in DOMAIN scan /\ CollectDies(Next1)
  <2>1. Measures'
    BY <1>1, <1>2, <1>6, NoFigures DEF CollectDies
  <2>2. Ages'
    BY <1>1, <1>2, <1>6, DiesAges DEF CollectDies, FigureInv
  <2> QED BY <2>1, <2>2 DEF FigureInv
<1>7. CASE Next1 \in DOMAIN scan /\ Collect(Next1)
  BY <1>1, <1>2, <1>7, CollectFigures
<1> QED BY <1>3, <1>4, <1>5, <1>6, <1>7 DEF CollectAny

\* No cpu figure of a report is measured from, or is the cached value of, a process that had
\* the pid before the scan, and a disk rate is only where the pid was taken over between two
\* cycles that both came across it (the caches of process_collector.py:158 to :165, :428 to
\* :464 and :530 to :549): for any number of processes, exits in the middle of a visit and
\* takeovers.
THEOREM FiguresOfTheScan == Spec => []OldFiguresNeedTakeover
<1> DEFINE All == TypeInv /\ Inv /\ FigureInv
<1>1. Init => FigureInv
  <2> SUFFICES ASSUME Init PROVE FigureInv
    OBVIOUS
  <2>1. DOMAIN None = {}
    BY DEF None
  <2> QED BY <2>1 DEF Init, FigureInv, Ages, Measures, OldFiguresNeedTakeover
<1>2. TypeInv /\ Inv /\ FigureInv /\ [Next]_vars => FigureInv'
  <2> SUFFICES ASSUME TypeInv, Inv, FigureInv, [Next]_vars PROVE FigureInv'
    OBVIOUS
  <2>0. TypeOK
    BY DEF TypeInv
  <2>1. CASE UNCHANGED vars
    BY <2>1
    DEF vars, hostVars, cycleVars, cacheVars, figures, FigureInv, Ages, Measures,
        OldFiguresNeedTakeover
  <2> QED
    BY <2>0, <2>1, HostFigures, StartFigures, VisitFigures, FinishFigures DEF Next, CollectorNext
<1>3. Init => All
  BY <1>1, InitTyped, InitInv
<1>4. All /\ [Next]_vars => All'
  BY <1>2, TypedNext, InvNext
<1>5. All => OldFiguresNeedTakeover
  BY DEF FigureInv, Measures
<1> QED BY <1>3, <1>4, <1>5, PTL DEF Spec
=============================================================================
