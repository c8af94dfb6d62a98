-------------------------- MODULE SocketFileProofs --------------------------
(***************************************************************************)
(* A daemon that meets no other one can be reached once it listens, for    *)
(* any number of daemons, stops and crashes.                               *)
(***************************************************************************)
EXTENDS SocketFile, TLAPS

\* What UpIsReachable says of the end of run, for every step on the way to it: a daemon
\* that has met no other one is alone, and the file is as it has left it.
OnItsOwn(d) ==
  /\ Running = {d}
  /\ pc[d] = "bind" => file = NoFile
  /\ pc[d] = "chmod" => file = d
  /\ pc[d] \in {"listen", "up"} => file = d /\ public

FileInv == TypeOK /\ \A d \in Daemons \ met : pc[d] # "down" => OnItsOwn(d)

LEMMA FileInit == Init => FileInv
<1> SUFFICES ASSUME Init PROVE FileInv
  OBVIOUS
<1>1. TypeOK
  <2>1. crashes \in 0 .. MaxCrashes
    BY CrashAssumption DEF Init
  <2>2. public \in BOOLEAN
    BY DEF Init
  <2> QED BY <2>1, <2>2 DEF Init, TypeOK
<1>2. \A d \in Daemons : pc[d] = "down"
  BY DEF Init
<1> QED BY <1>1, <1>2 DEF FileInv

\* A daemon that starts is alone or meets all that run.
LEMMA StartKeeps == ASSUME FileInv, NEW e \in Daemons, Start(e) PROVE FileInv'
<1>1. TypeOK'
  BY DEF FileInv, TypeOK, Start, Goto, Running
<1>2. ASSUME NEW d \in Daemons, d \notin met', pc'[d] # "down"
      PROVE  OnItsOwn(d)'
  <2>1. Running = {} /\ d = e
    BY <1>2 DEF FileInv, TypeOK, Start, Goto, Running
  <2>2. Running' = {d}
    BY <2>1 DEF FileInv, TypeOK, Start, Goto, Running
  <2>3. pc'[d] = "start"
    BY <2>1 DEF FileInv, TypeOK, Start, Goto
  <2> QED BY <2>2, <2>3 DEF OnItsOwn
<1> QED BY <1>1, <1>2 DEF FileInv

\* Any other step is that of a daemon that runs: if another one is alone, there is none.
LEMMA StepKeeps ==
  ASSUME FileInv, NEW e \in Daemons, Crash(e) \/ Stop(e) \/ Run(e)
  PROVE  FileInv'
<1> USE DEF FileInv, TypeOK, Goto
<1>1. TypeOK' /\ met' = met /\ pc[e] # "down"
      /\ pc' = [pc EXCEPT ![e] = pc'[e]]
  <2>1. CASE Crash(e) BY <2>1, CrashAssumption DEF Crash, Running
  <2>2. CASE Stop(e) BY <2>2 DEF Stop
  <2>3. CASE Check(e) BY <2>3 DEF Check, CheckStale, CheckRemove
  <2>4. CASE UnlinkStale(e) BY <2>4 DEF UnlinkStale, WithFile
  <2>5. CASE Bind(e) BY <2>5 DEF Bind
  <2>6. CASE Chmod(e) BY <2>6 DEF Chmod, WithFile
  <2>7. CASE Listen(e) BY <2>7 DEF Listen
  <2>8. CASE Remove(e) BY <2>8 DEF Remove
  <2> QED BY <2>1, <2>2, <2>3, <2>4, <2>5, <2>6, <2>7, <2>8 DEF Run
<1>2. ASSUME NEW d \in Daemons, d \notin met', pc'[d] # "down"
      PROVE  OnItsOwn(d)'
  <2>1. d = e /\ Running = {e} /\ OnItsOwn(e)
    BY <1>1, <1>2 DEF Running, OnItsOwn
  <2>2. Running' = {d}
    BY <1>1, <1>2, <2>1 DEF Running
  <2>3. e \in Daemons /\ e # NoFile
    BY ServiceAssumption
  <2> USE DEF OnItsOwn
  <2>4. CASE Crash(e) BY <1>2, <2>1, <2>2, <2>4 DEF Crash
  <2>5. CASE Stop(e) BY <1>2, <2>1, <2>2, <2>5 DEF Stop
  <2>6. CASE Check(e) BY <1>2, <2>1, <2>2, <2>6 DEF Check, CheckStale, CheckRemove
  <2>7. CASE UnlinkStale(e) BY <1>2, <2>1, <2>2, <2>7 DEF UnlinkStale, WithFile
  <2>8. CASE Bind(e) BY <1>2, <2>1, <2>2, <2>8 DEF Bind
  <2>9. CASE Chmod(e) BY <1>2, <2>1, <2>2, <2>3, <2>9 DEF Chmod, WithFile
  <2>10. CASE Listen(e) BY <1>2, <2>1, <2>2, <2>10 DEF Listen
  <2>11. CASE Remove(e) BY <1>2, <2>1, <2>2, <2>11 DEF Remove
  <2> QED BY <2>4, <2>5, <2>6, <2>7, <2>8, <2>9, <2>10, <2>11 DEF Run
<1> QED BY <1>1, <1>2

LEMMA FileNext == FileInv /\ [Next]_vars => FileInv'
<1> SUFFICES ASSUME FileInv, [Next]_vars PROVE FileInv'
  OBVIOUS
<1>1. CASE Next
  BY <1>1, StartKeeps, StepKeeps DEF Next
<1>2. CASE UNCHANGED vars
  BY <1>2 DEF vars, FileInv, TypeOK, OnItsOwn, Running
<1> QED BY <1>1, <1>2

\* A daemon that listens (run, daemon.py:129) is reached by whoever connects to the path,
\* unless another one has run on the same path at the same time.
THEOREM DaemonReachable == Spec => []UpIsReachable
<1>1. FileInv => UpIsReachable
  BY DEF FileInv, OnItsOwn, UpIsReachable, Reachable
<1> QED BY FileInit, FileNext, <1>1, PTL DEF Spec
=============================================================================
