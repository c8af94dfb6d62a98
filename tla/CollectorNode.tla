--------------------------- MODULE CollectorNode ---------------------------
(***************************************************************************)
(* VitalsCollectorNode (collector_node.py), the variant without a daemon:  *)
(* one thread runs the timer, which collects and publishes, and the kill   *)
(* service, so that calls wait while a collection goes on.  The figures    *)
(* that are copied into the message are left out.                          *)
(***************************************************************************)
EXTENDS SystemCollector

CONSTANTS
  Requests,  \* the calls of the kill service
  NoReq

ASSUME RequestsAssumption == NoReq \notin Requests

VARIABLES
  pc,        \* where the thread is; "down": no node
  waiting,   \* the calls that have reached the node
  serving,   \* the call in _handle_kill_request
  lost,      \* the calls whose node ended before it answered
  issued, outcome, reply \* as in KillService (history)

callVars == <<waiting, serving, lost, issued, outcome, reply>>
vars     == <<systemVars, pc, callVars>>

Service == INSTANCE KillService WITH issued <- issued, outcome <- outcome, reply <- reply

TypeOK ==
  /\ SystemTypeOK
  /\ pc \in {"down", "spin", "processes", "publish", "signal", "return"}
  /\ waiting \cup lost \subseteq issued /\ issued \subseteq Requests
  /\ serving \in issued \cup {NoReq}
  /\ serving # NoReq <=> pc \in {"signal", "return"}

Init ==
  /\ SystemInit
  /\ pc = "down"
  /\ waiting = {} /\ serving = NoReq /\ lost = {}
  /\ Service!Init

-----------------------------------------------------------------------------
\* Around the node.

Host ==
  /\ \/ Tick
     \/ \E t \in 1 .. MaxClock : SetClock(t)
     \/ \E names \in [Dirs -> Names \cup {NoSensor}] : LoadDrivers(names)
  /\ UNCHANGED <<pc, callVars>>

\* The service exists as long as the node does.
Call(r) ==
  /\ pc # "down"
  /\ Service!Call(r)
  /\ waiting' = waiting \cup {r}
  /\ UNCHANGED <<systemVars, pc, serving, lost>>

-----------------------------------------------------------------------------
\* Start and end of the node.

StartNode ==
  /\ pc = "down" /\ pc' = "spin"
  /\ UNCHANGED <<systemVars, callVars>>

\* main after spin, and destroy_node: the node is stopped anywhere, also in the handler, by
\* a signal, an exception of a collector or SIGKILL.
EndNode ==
  /\ pc # "down" /\ pc' = "down"
  /\ lost' = lost \cup waiting \cup ({serving} \ {NoReq})
  /\ waiting' = {} /\ serving' = NoReq
  /\ SystemEnd
  /\ UNCHANGED <<issued, outcome, reply>>

\* The client of a lost call gives up.
GiveUp(r) ==
  /\ r \in lost
  /\ lost' = lost \ {r}
  /\ reply' = [reply EXCEPT ![r] = Service!Reply("aborted", NoReq, FALSE)]
  /\ UNCHANGED <<systemVars, pc, waiting, serving, issued, outcome>>

-----------------------------------------------------------------------------
\* _publish_status, when the timer is due.

CollectSystem ==
  /\ pc = "spin" /\ pc' = "processes"
  /\ CollectAll
  /\ UNCHANGED callVars

\* GPUs, interfaces, disks and processes: each can take seconds.
CollectProcesses ==
  /\ pc = "processes" /\ pc' = "publish"
  /\ UNCHANGED <<systemVars, callVars>>

PublishStatus ==
  /\ pc = "publish" /\ pc' = "spin"
  /\ UNCHANGED <<systemVars, callVars>>

-----------------------------------------------------------------------------
\* _handle_kill_request.

\* Variant: the call stays in the queue until it is answered.
Peek(r) == waiting

Take(r) == waiting \ {r}

Serve(r) ==
  /\ pc = "spin" /\ r \in waiting /\ pc' = "signal"
  /\ waiting' = Take(r) /\ serving' = r
  /\ UNCHANGED <<systemVars, lost, issued, outcome, reply>>

\* psutil finds the process and signals it, or raises.
Signal ==
  /\ pc = "signal" /\ pc' = "return"
  /\ \E o \in {"sent", "failed"} : outcome' = [outcome EXCEPT ![serving] = o]
  /\ UNCHANGED <<systemVars, waiting, serving, lost, issued, reply>>

\* Variant: an exception is logged and the response left as it was.
SucceededAlways == TRUE

Succeeded == outcome[serving] = "sent"

Return ==
  /\ pc = "return" /\ pc' = "spin"
  /\ reply' = [reply EXCEPT ![serving] = Service!Reply("response", serving, Succeeded)]
  /\ serving' = NoReq
  /\ UNCHANGED <<systemVars, waiting, lost, issued, outcome>>

Next ==
  \/ Host \/ StartNode \/ EndNode
  \/ CollectSystem \/ CollectProcesses \/ PublishStatus
  \/ \E r \in Requests : Call(r) \/ Serve(r) \/ GiveUp(r)
  \/ Signal \/ Return

Spec == Init /\ [][Next]_vars

-----------------------------------------------------------------------------
\* What get_ip_addresses says of its cache, "cached for 30 seconds", as far as it is true:
\* the addresses a collection uses were read at most Ttl before, unless the clock was set
\* back since they were read.
AddressesAreRecent == [][CollectSystem /\ ~setBack' => age' <= Ttl]_vars

\* Without queues and threads the service is what KillService says, over ends of the node in
\* the middle of a call, and every answer is to the call that gets it, which the daemon and
\* its bridges do not promise.
OwnAnswers == \A r \in Requests : reply[r].by = "response" => reply[r].of = r
KillServiceSpec == Service!Spec /\ []OwnAnswers
=============================================================================
