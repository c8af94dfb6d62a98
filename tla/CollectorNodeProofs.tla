------------------------ MODULE CollectorNodeProofs ------------------------
(***************************************************************************)
(* The collector node for any number of calls and sensors, any clock and   *)
(* any lifetime of the cache: its service implements KillService, and the  *)
(* addresses it remembers are as old as they may be.                       *)
(***************************************************************************)
EXTENDS CollectorNode, TLAPS

-----------------------------------------------------------------------------
\* Types.

CallsTyped ==
  /\ pc \in {"down", "spin", "processes", "publish", "signal", "return"}
  /\ waiting \cup lost \subseteq issued /\ issued \subseteq Requests
  /\ serving \in issued \cup {NoReq}
  /\ serving # NoReq <=> pc \in {"signal", "return"}

LEMMA MinOfTwo == ASSUME NEW a \in Nat, NEW b \in Nat PROVE Min({a, b}) \in Nat /\ Min({a, b}) <= a /\ Min({a, b}) <= b
<1>1. \E x \in {a, b} : \A y \in {a, b} : x <= y
  OBVIOUS
<1> QED BY <1>1 DEF Min

LEMMA CallsTypedNext == CallsTyped /\ [Next]_vars => CallsTyped'
<1> SUFFICES ASSUME CallsTyped, [Next]_vars PROVE CallsTyped'
  OBVIOUS
<1> USE DEF CallsTyped
<1>1. CASE Host BY <1>1 DEF Host, callVars
<1>2. CASE StartNode \/ CollectSystem \/ CollectProcesses \/ PublishStatus
  BY <1>2 DEF StartNode, CollectSystem, CollectProcesses, PublishStatus, callVars
<1>3. CASE EndNode BY <1>3 DEF EndNode
<1>4. CASE \E r \in Requests : Call(r)
  BY <1>4, RequestsAssumption DEF Call, Service!Call
<1>5. CASE \E r \in Requests : Serve(r)
  BY <1>5, RequestsAssumption DEF Serve, Take
<1>6. CASE \E r \in Requests : GiveUp(r)
  BY <1>6 DEF GiveUp
<1>7. CASE Signal BY <1>7 DEF Signal
<1>8. CASE Return BY <1>8 DEF Return
<1>9. CASE UNCHANGED vars BY <1>9 DEF vars, callVars
<1> QED BY <1>1, <1>2, <1>3, <1>4, <1>5, <1>6, <1>7, <1>8, <1>9 DEF Next

LEMMA CollectTyped == ASSUME SystemTypeOK, CollectAll PROVE SystemTypeOK'
<1>1. UNCHANGED <<now, hwmon>>
  BY DEF CollectAll, systemHost
<1>2. probed' \in BOOLEAN /\ path' \in Dirs \cup {Unavailable}
  BY DEF CollectAll, GetCpuTemperature, PathsOf, Sensors, SystemTypeOK
<1>3. cached' \in BOOLEAN /\ setBack' \in BOOLEAN
  BY DEF CollectAll, GetIpAddresses
<1>4. cachedAt' \in 0 .. MaxClock /\ age' \in 0 .. Ttl + 1
  BY ClockAssumption DEF CollectAll, GetIpAddresses, NoteTime, SystemTypeOK
<1> QED BY <1>1, <1>2, <1>3, <1>4 DEF SystemTypeOK

LEMMA HostTyped == ASSUME SystemTypeOK, Host PROVE SystemTypeOK'
<1>1. CASE Tick
  <2>1. now' \in 1 .. MaxClock /\ age' \in 0 .. Ttl + 1
    BY <1>1, MinOfTwo, ClockAssumption DEF Tick, SystemTypeOK
  <2>2. UNCHANGED <<hwmon, cached, cachedAt, setBack, probed, path>>
    BY <1>1 DEF Tick, temperatureVars
  <2> QED BY <2>1, <2>2 DEF SystemTypeOK
<1>2. ASSUME NEW t \in 1 .. MaxClock, SetClock(t) PROVE SystemTypeOK'
  <2>1. now' \in 1 .. MaxClock
    BY <1>2 DEF SetClock
  <2>2. setBack' \in BOOLEAN
    BY <1>2 DEF SetClock
  <2>3. UNCHANGED <<hwmon, cached, cachedAt, age, probed, path>>
    BY <1>2 DEF SetClock, temperatureVars
  <2> QED BY <2>1, <2>2, <2>3 DEF SystemTypeOK
<1>3. ASSUME NEW names \in [Dirs -> Names \cup {NoSensor}], LoadDrivers(names) PROVE SystemTypeOK'
  BY <1>3 DEF LoadDrivers, addressVars, temperatureVars, SystemTypeOK
<1> QED BY <1>1, <1>2, <1>3 DEF Host

LEMMA SystemTypedNext == SystemTypeOK /\ [Next]_vars => SystemTypeOK'
<1> SUFFICES ASSUME SystemTypeOK, [Next]_vars PROVE SystemTypeOK'
  OBVIOUS
<1>1. CASE Host BY <1>1, HostTyped
<1>2. CASE CollectSystem BY <1>2, CollectTyped DEF CollectSystem
<1>3. CASE EndNode
  <2>1. cachedAt' = 0 /\ age' = 0 /\ path' = Unavailable /\ now' = now /\ hwmon' = hwmon
    BY <1>3 DEF EndNode, SystemEnd
  <2>2. cached' \in BOOLEAN /\ setBack' \in BOOLEAN /\ probed' \in BOOLEAN
    BY <1>3 DEF EndNode, SystemEnd
  <2> QED BY <2>1, <2>2, ClockAssumption DEF SystemTypeOK
<1>4. CASE UNCHANGED systemVars
  BY <1>4 DEF systemVars, systemHost, addressVars, temperatureVars, SystemTypeOK
<1> QED
  BY <1>1, <1>2, <1>3, <1>4
  DEF Next, StartNode, CollectProcesses, PublishStatus, Call, Serve, GiveUp, Signal, Return, vars

\* Type correctness of the node, its caches and the calls of its service.
THEOREM NodeTypeCorrect == Spec => []TypeOK
<1>1. Init => CallsTyped /\ SystemTypeOK
  <2> SUFFICES ASSUME Init PROVE CallsTyped /\ SystemTypeOK
    OBVIOUS
  <2>1. CallsTyped
    BY DEF Init, Service!Init, CallsTyped
  <2>2. cached \in BOOLEAN /\ setBack \in BOOLEAN /\ probed \in BOOLEAN
    BY DEF Init, SystemInit
  <2>3. cachedAt \in 0 .. MaxClock /\ age \in 0 .. Ttl + 1
    BY ClockAssumption DEF Init, SystemInit
  <2> QED BY <2>1, <2>2, <2>3 DEF Init, SystemInit, SystemTypeOK
<1>2. CallsTyped /\ SystemTypeOK => TypeOK
  BY DEF CallsTyped, TypeOK
<1> QED BY <1>1, <1>2, CallsTypedNext, SystemTypedNext, PTL DEF Spec

-----------------------------------------------------------------------------
\* The kill service.

Replies == [by : {"none", "response", "aborted"}, of : Requests \cup {NoReq}, success : BOOLEAN]

\* The invariant the refinement rests on: what becomes of a call and of its signal.
CallInv ==
  /\ issued \subseteq Requests /\ waiting \subseteq issued /\ lost \subseteq issued
  /\ serving \in issued \cup {NoReq}
  /\ serving # NoReq <=> pc \in {"signal", "return"}
  /\ outcome \in [Requests -> {"none", "sent", "failed"}]
  /\ reply \in [Requests -> Replies]
  /\ \A r \in Requests \ issued : outcome[r] = "none" /\ reply[r].by = "none"
  /\ \A r \in waiting : outcome[r] = "none" /\ reply[r].by = "none" /\ r # serving /\ r \notin lost
  /\ \A r \in lost : reply[r].by = "none" /\ r # serving
  /\ serving # NoReq => reply[serving].by = "none"
  /\ pc = "signal" => outcome[serving] = "none"
  /\ pc = "return" => outcome[serving] # "none"
  /\ OwnAnswers

-----------------------------------------------------------------------------
\* The steps, as KillService sees them.

LEMMA CallInit == Init => CallInv /\ Service!Init
<1> SUFFICES ASSUME Init PROVE CallInv /\ Service!Init
  OBVIOUS
<1>1. reply = [r \in Requests |-> [by |-> "none", of |-> NoReq, success |-> FALSE]]
      /\ outcome = [r \in Requests |-> "none"] /\ issued = {} /\ Service!Init
  BY DEF Init, Service!Init, Service!Reply
<1>2. reply \in [Requests -> Replies]
  BY <1>1 DEF Replies
<1> QED BY <1>1, <1>2 DEF Init, CallInv, OwnAnswers

LEMMA CallStep ==
  ASSUME CallInv, NEW r \in Requests, Call(r) PROVE CallInv' /\ Service!Call(r)
<1>1. r \notin issued /\ issued' = issued \cup {r} /\ Service!Call(r)
      /\ outcome' = outcome /\ reply' = reply
  BY DEF Call, Service!Call
<1> QED BY <1>1, RequestsAssumption DEF Call, CallInv, OwnAnswers

LEMMA ServeStep == ASSUME CallInv, NEW r \in Requests, Serve(r) PROVE CallInv'
BY RequestsAssumption DEF Serve, Take, CallInv, OwnAnswers

LEMMA SignalStep == ASSUME CallInv, Signal PROVE CallInv' /\ Service!Signal(serving) /\ serving \in Requests
<1>1. serving \in issued /\ serving \in Requests /\ outcome[serving] = "none"
      /\ reply[serving].by = "none" /\ serving # NoReq
  BY RequestsAssumption DEF Signal, CallInv
<1>2. PICK o \in {"sent", "failed"} : outcome' = [outcome EXCEPT ![serving] = o]
  BY DEF Signal
<1>3. CallInv'
  BY <1>1, <1>2 DEF Signal, CallInv, OwnAnswers
<1>4. Service!Signal(serving)
  BY <1>1, <1>2 DEF Signal, Service!Signal, Service!Outcomes
<1> QED BY <1>1, <1>3, <1>4

LEMMA ReturnStep == ASSUME CallInv, Return PROVE CallInv' /\ Service!Report(serving) /\ serving \in Requests
<1>1. serving \in issued /\ serving \in Requests /\ outcome[serving] \in {"sent", "failed"}
      /\ reply[serving].by = "none" /\ serving # NoReq
  BY RequestsAssumption DEF Return, CallInv
<1> DEFINE answer == [by |-> "response", of |-> serving, success |-> outcome[serving] = "sent"]
<1>2. reply' = [reply EXCEPT ![serving] = answer]
  BY DEF Return, Succeeded, Service!Reply
<1>3. answer \in Replies /\ answer.by = "response" /\ answer.of = serving
  BY <1>1 DEF Replies
<1>4. reply' \in [Requests -> Replies] /\ reply'[serving] = answer
      /\ \A r \in Requests \ {serving} : reply'[r] = reply[r]
  <2> HIDE DEF answer
  <2> QED BY <1>1, <1>2, <1>3 DEF CallInv
<1>5. CallInv'
  <2> HIDE DEF answer
  <2> QED BY <1>1, <1>3, <1>4, RequestsAssumption DEF Return, CallInv, OwnAnswers
<1>6. \A p \in issued : reply[p].by = "response" => reply[p].of # serving
  BY <1>1 DEF CallInv, OwnAnswers
<1>7. Service!Answer(serving, Service!Reply("response", serving, outcome[serving] = "sent"))
  BY <1>1, <1>2 DEF Return, Service!Answer, Service!Unanswered, Service!Reply
<1>8. Service!Report(serving)
  BY <1>1, <1>6, <1>7 DEF Service!Report
<1> QED BY <1>1, <1>5, <1>8

LEMMA GiveUpStep ==
  ASSUME CallInv, NEW r \in Requests, GiveUp(r) PROVE CallInv' /\ Service!GiveUp(r)
<1>1. r \in issued /\ reply[r].by = "none" /\ r # serving /\ r \in lost
  BY DEF GiveUp, CallInv
<1> DEFINE answer == [by |-> "aborted", of |-> NoReq, success |-> FALSE]
<1>2. reply' = [reply EXCEPT ![r] = answer]
  BY DEF GiveUp, Service!Reply
<1>3. answer \in Replies /\ answer.by = "aborted"
  BY DEF Replies
<1>4. reply' \in [Requests -> Replies] /\ reply'[r] = answer
      /\ \A q \in Requests \ {r} : reply'[q] = reply[q]
  <2> HIDE DEF answer
  <2> QED BY <1>1, <1>2, <1>3 DEF CallInv
<1>5. CallInv'
  <2> HIDE DEF answer
  <2> QED BY <1>1, <1>3, <1>4 DEF GiveUp, CallInv, OwnAnswers
<1>6. Service!Answer(r, Service!Reply("aborted", NoReq, FALSE))
  BY <1>1, <1>2 DEF GiveUp, Service!Answer, Service!Unanswered, Service!Reply
<1>7. Service!GiveUp(r)
  BY <1>6 DEF Service!GiveUp
<1> QED BY <1>5, <1>7

\* The end of the node loses calls; the other steps do not touch them.
LEMMA EndStep == ASSUME CallInv, EndNode PROVE CallInv' /\ UNCHANGED Service!vars
BY RequestsAssumption DEF EndNode, CallInv, OwnAnswers, Service!vars

LEMMA OtherStep ==
  ASSUME CallInv,
         \/ Host \/ StartNode \/ CollectSystem \/ CollectProcesses \/ PublishStatus
         \/ UNCHANGED vars
  PROVE  CallInv' /\ UNCHANGED Service!vars
BY DEF Host, StartNode, CollectSystem, CollectProcesses, PublishStatus, vars, callVars,
       CallInv, OwnAnswers, Service!vars

LEMMA CallNext == CallInv /\ [Next]_vars => CallInv' /\ [Service!Next]_(Service!vars)
<1> SUFFICES ASSUME CallInv, [Next]_vars PROVE CallInv' /\ [Service!Next]_(Service!vars)
  OBVIOUS
<1>1. CASE Host \/ StartNode \/ CollectSystem \/ CollectProcesses \/ PublishStatus
           \/ UNCHANGED vars
  BY <1>1, OtherStep
<1>2. CASE EndNode BY <1>2, EndStep
<1>3. CASE \E r \in Requests : Call(r)
  BY <1>3, CallStep DEF Service!Next
<1>4. CASE \E r \in Requests : Serve(r)
  BY <1>4, ServeStep DEF Serve, Service!vars
<1>5. CASE \E r \in Requests : GiveUp(r)
  BY <1>5, GiveUpStep DEF Service!Next
<1>6. CASE Signal BY <1>6, SignalStep DEF Service!Next
<1>7. CASE Return BY <1>7, ReturnStep DEF Service!Next
<1> QED BY <1>1, <1>2, <1>3, <1>4, <1>5, <1>6, <1>7 DEF Next

\* The kill service of the node (_handle_kill_request, collector_node.py:284) is what
\* KillService promises, and answers each call with its own result, however many calls wait
\* and wherever the node ends.
THEOREM NodeImplementsKillService == Spec => KillServiceSpec
<1>1. CallInv => OwnAnswers
  BY DEF CallInv
<1> QED BY CallInit, CallNext, <1>1, PTL DEF Spec, KillServiceSpec, Service!Spec

-----------------------------------------------------------------------------
\* The cache of addresses.

\* The clock has run at least as far as the addresses have aged.
AgeInv ==
  /\ now \in Nat /\ cachedAt \in Nat /\ age \in Nat
  /\ cached \in BOOLEAN /\ setBack \in BOOLEAN
  /\ cached /\ ~setBack => age <= now - cachedAt

LEMMA CollectsRecent ==
  ASSUME AgeInv, CollectSystem PROVE AgeInv' /\ (~setBack' => age' <= Ttl)
BY ClockAssumption
   DEF AgeInv, CollectSystem, CollectAll, GetIpAddresses, NoteTime, systemHost

LEMMA AgeNext == AgeInv /\ [Next]_vars => AgeInv'
<1> SUFFICES ASSUME AgeInv, [Next]_vars PROVE AgeInv'
  OBVIOUS
<1>1. CASE CollectSystem BY <1>1, CollectsRecent
<1>2. CASE Tick
  <2>1. cached' = cached /\ cachedAt' = cachedAt /\ setBack' = setBack /\ now' = now + 1
    BY <1>2 DEF Tick
  <2>2. age' \in Nat /\ (cached => age' <= age + 1)
    BY <1>2, MinOfTwo, ClockAssumption DEF Tick, AgeInv
  <2> QED BY <2>1, <2>2 DEF AgeInv
<1>3. CASE \E t \in 1 .. MaxClock : SetClock(t)
  <2>1. PICK t \in 1 .. MaxClock : SetClock(t)
    BY <1>3
  <2>2. now' = t /\ t \in Nat /\ cached' = cached /\ cachedAt' = cachedAt /\ age' = age
    BY <2>1, ClockAssumption DEF SetClock
  <2>3. setBack' \in BOOLEAN /\ (cached /\ ~setBack' => ~setBack /\ ~(t < now))
    BY <2>1 DEF SetClock
  <2> QED BY <2>2, <2>3 DEF AgeInv
<1>4. CASE \E names \in [Dirs -> Names \cup {NoSensor}] : LoadDrivers(names)
  BY <1>4 DEF LoadDrivers, AgeInv, addressVars
<1>5. CASE EndNode
  BY <1>5 DEF EndNode, SystemEnd, AgeInv
<1>6. CASE UNCHANGED systemVars
  BY <1>6 DEF systemVars, systemHost, addressVars, AgeInv
<1> QED
  BY <1>1, <1>2, <1>3, <1>4, <1>5, <1>6
  DEF Next, Host, StartNode, CollectProcesses, PublishStatus, Call, Serve, GiveUp, Signal,
      Return, vars

\* A collection uses addresses that are no older than Ttl (get_ip_addresses,
\* system_collector.py:31), unless the clock was set back since they were read.
THEOREM AddressesRecent == Spec => AddressesAreRecent
<1>1. Init => AgeInv
  <2> SUFFICES ASSUME Init PROVE AgeInv
    OBVIOUS
  <2>1. now \in Nat /\ cachedAt \in Nat /\ age \in Nat /\ cached = FALSE
    BY ClockAssumption DEF Init, SystemInit
  <2>2. setBack \in BOOLEAN
    BY DEF Init, SystemInit
  <2> QED BY <2>1, <2>2 DEF AgeInv
<1>2. AgeInv /\ [Next]_vars => [CollectSystem /\ ~setBack' => age' <= Ttl]_vars
  <2> SUFFICES ASSUME AgeInv, CollectSystem, ~setBack' PROVE age' <= Ttl
    OBVIOUS
  <2> QED BY CollectsRecent
<1> QED BY <1>1, <1>2, AgeNext, PTL DEF Spec, AddressesAreRecent
=============================================================================
