------------------------------- MODULE Daemon -------------------------------
(***************************************************************************)
(* vitals-daemon (daemon.py): the main thread, which in every cycle        *)
(* collects a snapshot, sends it to the one client and reads at most one   *)
(* kill request, and the accept thread, which replaces the client.  What   *)
(* the code does under _client_lock is one action.                         *)
(***************************************************************************)
EXTENDS Socket

CONSTANT AcceptMayFail   \* whether accept() may raise an OSError

ASSUME AcceptMayFailAssumption == AcceptMayFail \in BOOLEAN

VARIABLES
  dpc,       \* where the main thread is; "down": no daemon process
  running,   \* _running
  client,    \* _client
  accepted,  \* the accept thread's local client, before it has the lock
  acceptor,  \* "on", or "off" once the accept thread has ended
  start,     \* number of times a daemon was started
  cycle,     \* _cycle_count, saturating at MaxCycle
  pending,   \* the kill request the main thread is working on
  outcome    \* outcome[r]: what psutil did for request r (history)

threadVars == <<dpc, running, client, accepted, acceptor, start, cycle, pending>>
daemonVars == <<threadVars, outcome>>

\* What psutil did: sent the signal, or raised NoSuchProcess, AccessDenied or another
\* exception, which the answer tells apart by its text only.
Outcomes == {"none", "sent", "failed"}

DaemonTypeOK ==
  /\ dpc \in {"down", "collect", "send", "recv", "kill", "respond"}
  /\ running \in BOOLEAN
  /\ client \in Conns \cup {NoConn}
  /\ accepted \in Conns \cup {NoConn}
  /\ acceptor \in {"on", "off"}
  /\ start \in 0 .. MaxStarts
  /\ cycle \in 0 .. MaxCycle
  /\ pending \in Requests \cup {NoReq}
  /\ outcome \in [Requests -> Outcomes]

DaemonInit ==
  /\ dpc = "down"
  /\ running = FALSE
  /\ client = NoConn
  /\ accepted = NoConn
  /\ acceptor = "off"
  /\ start = 0
  /\ cycle = 0
  /\ pending = NoReq
  /\ outcome = [r \in Requests |-> "none"]

Listening == dpc # "down"
Snapshot  == [start |-> start, cycle |-> cycle]

-----------------------------------------------------------------------------
\* The process.

\* main and run up to the main loop: bind, listen, start the accept thread.
StartDaemon ==
  /\ dpc = "down" /\ start < MaxStarts
  /\ dpc' = "collect" /\ running' = TRUE /\ acceptor' = "on"
  /\ start' = start + 1 /\ cycle' = 0
  /\ UNCHANGED <<client, accepted, pending, outcome>>
  /\ UNCHANGED socketVars

\* The process ends: the kernel closes every daemon end, accepted or not.
Exit ==
  /\ dpc' = "down" /\ running' = FALSE /\ acceptor' = "off"
  /\ client' = NoConn /\ accepted' = NoConn /\ pending' = NoReq
  /\ backlog' = <<>>
  /\ CloseDaemonEnds(Conns)
  /\ UNCHANGED <<start, cycle, outcome, bEnd, toBridge, nonblock>>

\* SIGKILL, or an exception of a collector: run's finally, then the process ends.
Crash == dpc # "down" /\ start < MaxStarts /\ Exit

\* SIGTERM or SIGINT: stop() only asks the loops to end.
Stop ==
  /\ dpc # "down" /\ running /\ start < MaxStarts
  /\ running' = FALSE
  /\ UNCHANGED <<dpc, client, accepted, acceptor, start, cycle, pending, outcome>>
  /\ UNCHANGED socketVars

\* The main loop sees that it must end.
Shutdown == dpc = "collect" /\ ~running /\ Exit

-----------------------------------------------------------------------------
\* The main thread.

Collect ==
  /\ dpc = "collect" /\ running
  /\ dpc' = "send"
  /\ cycle' = IF cycle < MaxCycle THEN cycle + 1 ELSE cycle
  /\ UNCHANGED <<running, client, accepted, acceptor, start, pending, outcome>>
  /\ UNCHANGED socketVars

\* Variant: the client is forgotten and not closed.
ForgetClient ==
  /\ client' = NoConn
  /\ UNCHANGED <<dEnd, toDaemon>>

\* Variant: a status that could not be sent is no reason to drop the client.
KeepClient == UNCHANGED <<client, dEnd, toDaemon>>

\* The send of the status failed: the client is closed and forgotten.
DropClient ==
  /\ client' = NoConn
  /\ CloseDaemonEnds({client})

\* Under the lock: send the status, if there is a client.  A full buffer blocks
\* until settimeout(0.0) was called on this client; after that sendall raises
\* BlockingIOError, often with a part of the message already sent.
SendStatus ==
  /\ dpc = "send"
  /\ dpc' = "recv"
  /\ \/ /\ client = NoConn
        /\ UNCHANGED <<client, dEnd, toDaemon, toBridge>>
     \/ /\ client # NoConn /\ bEnd[client] /\ HasRoom(client)
        /\ PutToBridge(client, Status(Snapshot))
        /\ UNCHANGED <<client, dEnd, toDaemon>>
     \/ /\ client # NoConn /\ bEnd[client] /\ ~HasRoom(client) /\ nonblock[client]
        /\ \/ PutToBridge(client, Torn)
           \/ UNCHANGED toBridge
        /\ DropClient
     \/ /\ client # NoConn /\ ~bEnd[client]
        /\ DropClient
        /\ UNCHANGED toBridge
  /\ UNCHANGED <<running, accepted, acceptor, start, cycle, pending, outcome>>
  /\ UNCHANGED <<backlog, bEnd, nonblock>>

\* Variant: the request stays in the socket.
PeekRequest(c) ==
  /\ pending' = Head(toDaemon[c])
  /\ UNCHANGED toDaemon

ReadRequest(c) ==
  /\ pending' = Head(toDaemon[c])
  /\ toDaemon' = [toDaemon EXCEPT ![c] = Tail(@)]

\* Under the lock: read one message, if there is one.  An end of file reads like
\* no message: only a failing send drops the client.  The sleep is part of "collect".
HandleClientMessages ==
  /\ dpc = "recv"
  /\ \/ /\ client = NoConn
        /\ dpc' = "collect"
        /\ UNCHANGED <<pending, toDaemon, nonblock>>
     \/ /\ client # NoConn
        /\ nonblock' = [nonblock EXCEPT ![client] = TRUE]
        /\ \/ /\ toDaemon[client] = <<>>
              /\ dpc' = "collect"
              /\ UNCHANGED <<pending, toDaemon>>
           \/ /\ toDaemon[client] # <<>>
              /\ dpc' = "kill"
              /\ ReadRequest(client)
  /\ UNCHANGED <<running, client, accepted, acceptor, start, cycle, outcome>>
  /\ UNCHANGED <<backlog, dEnd, bEnd, toBridge>>

\* proc.kill() or proc.terminate(), without the lock.
Kill ==
  /\ dpc = "kill"
  /\ \E o \in Outcomes \ {"none"} : outcome' = [outcome EXCEPT ![pending] = o]
  /\ dpc' = "respond"
  /\ UNCHANGED <<running, client, accepted, acceptor, start, cycle, pending>>
  /\ UNCHANGED socketVars

\* Variant: success is what the response starts with.
SucceededAlways(o) == o # "none"

Succeeded(o) == o = "sent"

\* Under the lock again: answer whoever is the client now, and ignore whether the
\* answer could be sent.
Respond ==
  /\ dpc = "respond"
  /\ dpc' = "collect"
  /\ pending' = NoReq
  /\ \/ /\ client = NoConn
        /\ UNCHANGED toBridge
     \/ /\ client # NoConn /\ ~bEnd[client]
        /\ UNCHANGED toBridge
     \/ /\ client # NoConn /\ bEnd[client] /\ HasRoom(client)
        /\ PutToBridge(client, KillResponse(pending, Succeeded(outcome[pending])))
     \/ /\ client # NoConn /\ bEnd[client] /\ ~HasRoom(client) /\ nonblock[client]
        /\ \/ PutToBridge(client, Torn)
           \/ UNCHANGED toBridge
  /\ UNCHANGED <<running, client, accepted, acceptor, start, cycle, outcome>>
  /\ UNCHANGED <<backlog, dEnd, bEnd, toDaemon, nonblock>>

-----------------------------------------------------------------------------
\* The accept thread.

Accept ==
  /\ acceptor = "on" /\ accepted = NoConn /\ backlog # <<>>
  /\ accepted' = Head(backlog)
  /\ backlog' = Tail(backlog)
  /\ UNCHANGED <<dpc, running, client, acceptor, start, cycle, pending, outcome>>
  /\ UNCHANGED <<dEnd, bEnd, toBridge, toDaemon, nonblock>>

\* Under the lock: the previous client is closed, whatever it is doing.
Install ==
  /\ accepted # NoConn
  /\ client' = accepted
  /\ accepted' = NoConn
  /\ CloseDaemonEnds({client})
  /\ UNCHANGED <<dpc, running, acceptor, start, cycle, pending, outcome>>
  /\ UNCHANGED <<backlog, bEnd, toBridge, nonblock>>

\* The accept thread ends: the daemon is stopping, or accept() raised an OSError.
\* In the second case the main loop goes on.
AcceptEnds ==
  /\ acceptor = "on" /\ accepted = NoConn
  /\ ~running \/ AcceptMayFail
  /\ acceptor' = "off"
  /\ UNCHANGED <<dpc, running, client, accepted, start, cycle, pending, outcome>>
  /\ UNCHANGED socketVars

DaemonSteps == \/ Collect \/ SendStatus \/ HandleClientMessages \/ Kill \/ Respond
               \/ Accept \/ Install
DaemonNext  == \/ StartDaemon \/ Crash \/ Stop \/ Shutdown
               \/ DaemonSteps \/ AcceptEnds
=============================================================================
