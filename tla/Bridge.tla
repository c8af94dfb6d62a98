------------------------------- MODULE Bridge -------------------------------
(***************************************************************************)
(* The bridge nodes (bridge_node.py).  Each has a reader thread, which     *)
(* keeps a connection to the daemon and reads from it, and the thread of   *)
(* the single-threaded executor, which runs the publish timer and the      *)
(* kill service.  What the code does under _sock_lock is one action.       *)
(***************************************************************************)
EXTENDS Socket

CONSTANT Bridges

VARIABLES
  mode,      \* mode[b]: "down", "up", or "stopping" from destroy_node on
  rpc,       \* where the reader thread is; "ended": it died of an exception
  sock,      \* _sock
  fresh,     \* the socket _connect_to_daemon connected and did not install yet
  rsock,     \* the reader's local copy of _sock
  connected, \* _connected
  latest,    \* _latest_snapshot
  published, \* the snapshot of the last status published
  lastResp,  \* _last_kill_response
  kpc,       \* where the kill service is; "idle": the executor is free
  req,       \* the request the kill service handles
  issued,    \* requests made so far (history)
  reply      \* reply[r]: what the service's client was told (history)

readerVars == <<mode, rpc, sock, fresh, rsock, connected, latest>>
serviceVars == <<lastResp, kpc, req, issued, reply>>
bridgeVars == <<readerVars, serviceVars, published>>

NoSnapshot == [start |-> 0, cycle |-> 0]
NoResponse == [type |-> "none"]

\* by: what ended the call; of: the request whose response was returned.
Reply(by, of, success) == [by |-> by, of |-> of, success |-> success]
NoReply == Reply("none", NoReq, FALSE)
Replies == [by : {"none", "refused", "timeout", "response", "aborted"},
            of : Requests \cup {NoReq}, success : BOOLEAN]

BridgeTypeOK ==
  /\ mode \in [Bridges -> {"down", "up", "stopping"}]
  /\ rpc \in [Bridges -> {"check", "connecting", "pick", "read", "lost", "ended"}]
  /\ sock \in [Bridges -> Conns \cup {NoConn}]
  /\ fresh \in [Bridges -> Conns \cup {NoConn}]
  /\ rsock \in [Bridges -> Conns \cup {NoConn}]
  /\ connected \in [Bridges -> BOOLEAN]
  /\ latest \in [Bridges -> Snapshots \cup {NoSnapshot}]
  /\ published \in [Bridges -> Snapshots \cup {NoSnapshot}]
  /\ lastResp \in [Bridges -> KillResponses \cup {NoResponse}]
  /\ kpc \in [Bridges -> {"idle", "send", "wait"}]
  /\ req \in [Bridges -> Requests \cup {NoReq}]
  /\ issued \in SUBSET Requests
  /\ reply \in [Requests -> Replies]

BridgeInit ==
  /\ mode = [b \in Bridges |-> "down"]
  /\ rpc = [b \in Bridges |-> "check"]
  /\ sock = [b \in Bridges |-> NoConn]
  /\ fresh = [b \in Bridges |-> NoConn]
  /\ rsock = [b \in Bridges |-> NoConn]
  /\ connected = [b \in Bridges |-> FALSE]
  /\ latest = [b \in Bridges |-> NoSnapshot]
  /\ published = [b \in Bridges |-> NoSnapshot]
  /\ lastResp = [b \in Bridges |-> NoResponse]
  /\ kpc = [b \in Bridges |-> "idle"]
  /\ req = [b \in Bridges |-> NoReq]
  /\ issued = {}
  /\ reply = [r \in Requests |-> NoReply]

-----------------------------------------------------------------------------
\* The process.

\* __init__: the reader thread and the publish timer are started.
StartBridge(b) ==
  /\ mode[b] = "down"
  /\ mode' = [mode EXCEPT ![b] = "up"]
  /\ UNCHANGED <<rpc, sock, fresh, rsock, connected, latest, published>>
  /\ UNCHANGED serviceVars
  /\ UNCHANGED socketVars

\* destroy_node, after spin has returned; the reader thread still runs.
DestroyNode(b) ==
  /\ mode[b] = "up" /\ kpc[b] = "idle"
  /\ mode' = [mode EXCEPT ![b] = "stopping"]
  /\ CloseBridgeEnds({sock[b]})
  /\ sock' = [sock EXCEPT ![b] = NoConn]
  /\ UNCHANGED <<rpc, fresh, rsock, connected, latest, published>>
  /\ UNCHANGED serviceVars
  /\ UNCHANGED <<backlog, dEnd, toDaemon, nonblock>>

\* The process ends, by itself or killed, also in the middle of a kill call: its
\* sockets are closed and its state is gone.
BridgeExit(b) ==
  /\ mode[b] # "down"
  /\ mode' = [mode EXCEPT ![b] = "down"]
  /\ CloseBridgeEnds({sock[b], fresh[b]})
  /\ rpc' = [rpc EXCEPT ![b] = "check"]
  /\ sock' = [sock EXCEPT ![b] = NoConn]
  /\ fresh' = [fresh EXCEPT ![b] = NoConn]
  /\ rsock' = [rsock EXCEPT ![b] = NoConn]
  /\ connected' = [connected EXCEPT ![b] = FALSE]
  /\ latest' = [latest EXCEPT ![b] = NoSnapshot]
  /\ published' = [published EXCEPT ![b] = NoSnapshot]
  /\ lastResp' = [lastResp EXCEPT ![b] = NoResponse]
  /\ kpc' = [kpc EXCEPT ![b] = "idle"]
  /\ req' = [req EXCEPT ![b] = NoReq]
  /\ reply' = [r \in Requests |-> IF r = req[b] THEN Reply("aborted", NoReq, FALSE)
                                               ELSE reply[r]]
  /\ UNCHANGED <<issued, backlog, dEnd, toDaemon, nonblock>>

-----------------------------------------------------------------------------
\* The reader thread.

\* connect() fails: no socket file, or nobody listens.
ConnectFails(b, listening) ==
  /\ mode[b] = "up" /\ rpc[b] = "check" /\ ~connected[b]
  /\ ~listening
  /\ UNCHANGED bridgeVars
  /\ UNCHANGED socketVars

\* connect() succeeds; _sock_lock is not held.
Connect(b, listening) ==
  /\ mode[b] = "up" /\ rpc[b] = "check" /\ ~connected[b]
  /\ listening
  /\ \E c \in Conns : Open(c) /\ fresh' = [fresh EXCEPT ![b] = c]
  /\ rpc' = [rpc EXCEPT ![b] = "connecting"]
  /\ UNCHANGED <<mode, sock, rsock, connected, latest, published>>
  /\ UNCHANGED serviceVars

\* The rest of _connect_to_daemon, under the lock.
InstallSocket(b) ==
  /\ rpc[b] = "connecting"
  /\ CloseBridgeEnds({sock[b]})
  /\ sock' = [sock EXCEPT ![b] = fresh[b]]
  /\ fresh' = [fresh EXCEPT ![b] = NoConn]
  /\ connected' = [connected EXCEPT ![b] = TRUE]
  /\ rpc' = [rpc EXCEPT ![b] = "pick"]
  /\ UNCHANGED <<mode, rsock, latest, published>>
  /\ UNCHANGED serviceVars
  /\ UNCHANGED <<backlog, dEnd, toDaemon, nonblock>>

\* sock = self._sock, under the lock.
PickSocket(b) ==
  /\ \/ rpc[b] = "pick"
     \/ mode[b] = "up" /\ rpc[b] = "check" /\ connected[b]
  /\ IF sock[b] = NoConn
     THEN /\ connected' = [connected EXCEPT ![b] = FALSE]
          /\ rpc' = [rpc EXCEPT ![b] = "check"]
          /\ UNCHANGED rsock
     ELSE /\ rsock' = [rsock EXCEPT ![b] = sock[b]]
          /\ rpc' = [rpc EXCEPT ![b] = "read"]
          /\ UNCHANGED connected
  /\ UNCHANGED <<mode, sock, fresh, latest, published>>
  /\ UNCHANGED serviceVars
  /\ UNCHANGED socketVars

\* The socket the reader reads from is still open in this process.
ReadsOpen(b) == rpc[b] = "read" /\ rsock[b] = sock[b]

\* Variant: the whole message is kept.
DataOrMessage(m) == m

DataOf(m) == m.data

\* A whole message was read.
Receive(b) ==
  /\ ReadsOpen(b)
  /\ LET c == rsock[b]
         m == Head(toBridge[c])
     IN  /\ toBridge[c] # <<>> /\ m # Torn
         /\ toBridge' = [toBridge EXCEPT ![c] = Tail(@)]
         /\ \/ /\ m.type = "status"
               /\ latest' = [latest EXCEPT ![b] = DataOf(m)]
               /\ UNCHANGED lastResp
            \/ /\ m.type = "kill_response"
               /\ lastResp' = [lastResp EXCEPT ![b] = m]
               /\ UNCHANGED latest
  /\ rpc' = [rpc EXCEPT ![b] = "check"]
  /\ rsock' = [rsock EXCEPT ![b] = NoConn]
  /\ UNCHANGED <<mode, sock, fresh, connected, published, kpc, req, issued, reply>>
  /\ UNCHANGED <<backlog, dEnd, bEnd, toDaemon, nonblock>>

\* Five seconds without (the rest of) a message: the part read is dropped.
ReceiveTimesOut(b) ==
  /\ ReadsOpen(b)
  /\ dEnd[rsock[b]]
  /\ toBridge[rsock[b]] \in {<<>>, <<Torn>>}
  /\ toBridge' = [toBridge EXCEPT ![rsock[b]] = <<>>]
  /\ rpc' = [rpc EXCEPT ![b] = "check"]
  /\ rsock' = [rsock EXCEPT ![b] = NoConn]
  /\ UNCHANGED <<mode, sock, fresh, connected, latest, published>>
  /\ UNCHANGED serviceVars
  /\ UNCHANGED <<backlog, dEnd, bEnd, toDaemon, nonblock>>

\* Variant: an end of file is no reason to reconnect.
FailsIfDestroyed(b) ==
  /\ rpc[b] = "read" /\ rsock[b] # sock[b]
  /\ rpc' = [rpc EXCEPT ![b] = "lost"]
  /\ UNCHANGED <<mode, sock, fresh, rsock, connected, latest, published>>
  /\ UNCHANGED serviceVars
  /\ UNCHANGED socketVars

\* _recv_message returns None: end of file, or destroy_node closed the socket.
ReceiveFails(b) ==
  /\ rpc[b] = "read"
  /\ \/ /\ rsock[b] # sock[b]
        /\ UNCHANGED toBridge
     \/ /\ rsock[b] = sock[b] /\ ~dEnd[rsock[b]]
        /\ toBridge[rsock[b]] \in {<<>>, <<Torn>>}
        /\ toBridge' = [toBridge EXCEPT ![rsock[b]] = <<>>]
  /\ rpc' = [rpc EXCEPT ![b] = "lost"]
  /\ UNCHANGED <<mode, sock, fresh, rsock, connected, latest, published>>
  /\ UNCHANGED serviceVars
  /\ UNCHANGED <<backlog, dEnd, bEnd, toDaemon, nonblock>>

\* A message cut short is completed with the first bytes of the next one, its binary
\* length among them.  Depending on these bytes json.loads raises JSONDecodeError,
\* and _recv_message returns None, or UnicodeDecodeError, which no handler names:
\* the reader thread is gone, _connected and _sock stay.
ReceiveGarbled(b) ==
  /\ ReadsOpen(b)
  /\ Len(toBridge[rsock[b]]) > 1
  /\ Head(toBridge[rsock[b]]) = Torn
  /\ toBridge' = [toBridge EXCEPT ![rsock[b]] = Tail(Tail(@))]
  /\ \/ /\ rpc' = [rpc EXCEPT ![b] = "lost"]
        /\ UNCHANGED rsock
     \/ /\ rpc' = [rpc EXCEPT ![b] = "ended"]
        /\ rsock' = [rsock EXCEPT ![b] = NoConn]
  /\ UNCHANGED <<mode, sock, fresh, connected, latest, published>>
  /\ UNCHANGED serviceVars
  /\ UNCHANGED <<backlog, dEnd, bEnd, toDaemon, nonblock>>

\* Variants: _connected stays set; the socket is not closed.
DropSocketOnly(b) ==
  /\ CloseBridgeEnds({sock[b]})
  /\ sock' = [sock EXCEPT ![b] = NoConn]
  /\ UNCHANGED connected

ForgetSocket(b) ==
  /\ sock' = [sock EXCEPT ![b] = NoConn]
  /\ connected' = [connected EXCEPT ![b] = FALSE]
  /\ UNCHANGED <<bEnd, toBridge>>

DropSocket(b) ==
  /\ CloseBridgeEnds({sock[b]})
  /\ sock' = [sock EXCEPT ![b] = NoConn]
  /\ connected' = [connected EXCEPT ![b] = FALSE]

\* Lost connection, under the lock.
Disconnect(b) ==
  /\ rpc[b] = "lost"
  /\ IF sock[b] = rsock[b]
     THEN DropSocket(b)
     ELSE UNCHANGED <<bEnd, toBridge, sock, connected>>
  /\ rpc' = [rpc EXCEPT ![b] = "check"]
  /\ rsock' = [rsock EXCEPT ![b] = NoConn]
  /\ UNCHANGED <<mode, fresh, latest, published>>
  /\ UNCHANGED serviceVars
  /\ UNCHANGED <<backlog, dEnd, toDaemon, nonblock>>

-----------------------------------------------------------------------------
\* The executor: the publish timer and the kill service, one at a time.

\* _publish_status: the latest snapshot, however old and connected or not.
Publish(b) ==
  /\ mode[b] = "up" /\ kpc[b] = "idle"
  /\ latest[b] # NoSnapshot
  /\ published' = [published EXCEPT ![b] = latest[b]]
  /\ UNCHANGED readerVars
  /\ UNCHANGED serviceVars
  /\ UNCHANGED socketVars

\* Variant: the response to the last call is still there.
KeepResponse(b) == UNCHANGED lastResp

ForgetResponse(b) == lastResp' = [lastResp EXCEPT ![b] = NoResponse]

\* A client calls the service; _handle_kill_request forgets the last response.
KillCall(b) ==
  /\ mode[b] = "up" /\ kpc[b] = "idle"
  /\ \E r \in Requests \ issued :
       /\ \A q \in Requests : q < r => q \in issued
       /\ issued' = issued \cup {r}
       /\ req' = [req EXCEPT ![b] = r]
  /\ ForgetResponse(b)
  /\ kpc' = [kpc EXCEPT ![b] = "send"]
  /\ UNCHANGED <<readerVars, published, reply>>
  /\ UNCHANGED socketVars

\* The service returns to its client.
Answer(b, answer) ==
  /\ reply' = [reply EXCEPT ![req[b]] = answer]
  /\ kpc' = [kpc EXCEPT ![b] = "idle"]
  /\ req' = [req EXCEPT ![b] = NoReq]

CanSend(b) == sock[b] # NoConn /\ dEnd[sock[b]]

\* _send_message, under the lock.
KillSend(b) ==
  /\ kpc[b] = "send" /\ CanSend(b)
  /\ toDaemon' = [toDaemon EXCEPT ![sock[b]] = Append(@, req[b])]
  /\ kpc' = [kpc EXCEPT ![b] = "wait"]
  /\ UNCHANGED <<readerVars, published, lastResp, req, issued, reply>>
  /\ UNCHANGED <<backlog, dEnd, bEnd, toBridge, nonblock>>

\* Variant: a connection lost while waiting is reported like one that was never there.
RefusedIfLost(b) ==
  /\ kpc[b] # "idle" /\ ~CanSend(b)
  /\ Answer(b, Reply("refused", NoReq, FALSE))
  /\ UNCHANGED <<readerVars, published, lastResp, issued>>
  /\ UNCHANGED socketVars

\* It fails: "Not connected to vitals-daemon".
KillRefused(b) ==
  /\ kpc[b] = "send" /\ ~CanSend(b)
  /\ Answer(b, Reply("refused", NoReq, FALSE))
  /\ UNCHANGED <<readerVars, published, lastResp, issued>>
  /\ UNCHANGED socketVars

\* The poll finds a response, and takes it for the one to this request.
KillReturn(b) ==
  /\ kpc[b] = "wait" /\ lastResp[b] # NoResponse
  /\ Answer(b, Reply("response", lastResp[b].of, lastResp[b].success))
  /\ UNCHANGED <<readerVars, published, lastResp, issued>>
  /\ UNCHANGED socketVars

\* Variant: no deadline.
NoTimeout(b) == FALSE /\ UNCHANGED bridgeVars

\* Three seconds are over: "Timeout waiting for daemon response".
KillTimeout(b) ==
  /\ kpc[b] = "wait"
  /\ Answer(b, Reply("timeout", NoReq, FALSE))
  /\ UNCHANGED <<readerVars, published, lastResp, issued>>
  /\ UNCHANGED socketVars

ReaderSteps(b, listening) ==
  \/ ConnectFails(b, listening) \/ Connect(b, listening) \/ InstallSocket(b)
  \/ PickSocket(b) \/ Receive(b) \/ ReceiveTimesOut(b)
  \/ ReceiveFails(b) \/ ReceiveGarbled(b) \/ Disconnect(b)
ServiceSteps(b) == KillSend(b) \/ KillRefused(b) \/ KillReturn(b) \/ KillTimeout(b)

BridgeNext(b, listening) ==
  \/ StartBridge(b) \/ DestroyNode(b) \/ BridgeExit(b)
  \/ ReaderSteps(b, listening)
  \/ Publish(b) \/ KillCall(b) \/ ServiceSteps(b)
=============================================================================
