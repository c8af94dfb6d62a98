----------------------------- MODULE VitalsLink -----------------------------
(***************************************************************************)
(* vitals-daemon, the bridge nodes and the socket between them: the whole  *)
(* path of a snapshot from the daemon to /vitals/status and of a kill      *)
(* request from the service to the process table and back.                 *)
(***************************************************************************)
EXTENDS Daemon, Bridge, FiniteSets

ASSUME BridgesAssumption == IsFiniteSet(Bridges)

vars == <<socketVars, daemonVars, bridgeVars>>

Init == SocketInit /\ DaemonInit /\ BridgeInit

Next ==
  \/ DaemonNext /\ UNCHANGED bridgeVars
  \/ \E b \in Bridges : BridgeNext(b, Listening) /\ UNCHANGED daemonVars

Spec == Init /\ [][Next]_vars

-----------------------------------------------------------------------------
\* Fairness.  systemd starts the daemon again (Restart=always); threads run; loops
\* go on.  Nothing makes a process stop or a client call, and a timeout is only as
\* fair as the poll that would make it unnecessary.
DaemonFairness ==
  /\ WF_vars(StartDaemon /\ UNCHANGED bridgeVars)
  /\ WF_vars(Shutdown /\ UNCHANGED bridgeVars)
  /\ WF_vars((Collect \/ SendStatus \/ HandleClientMessages \/ Kill \/ Respond)
             /\ UNCHANGED bridgeVars)
  /\ WF_vars((Accept \/ Install) /\ UNCHANGED bridgeVars)

BridgeFairness(b) ==
  /\ WF_vars(ReaderSteps(b, Listening) /\ UNCHANGED daemonVars)
  /\ WF_vars(ServiceSteps(b) /\ UNCHANGED daemonVars)
  /\ WF_vars(Publish(b) /\ UNCHANGED daemonVars)

FairSpec == Spec /\ DaemonFairness /\ \A b \in Bridges : BridgeFairness(b)

-----------------------------------------------------------------------------
\* Properties.

TypeOK == SocketTypeOK /\ DaemonTypeOK /\ BridgeTypeOK

InBacklog(c) == \E i \in DOMAIN backlog : backlog[i] = c

\* No socket of the daemon is leaked or shared: an open daemon end is the client,
\* the connection the accept thread is about to install, or waits in the backlog,
\* exactly one of these (_accept_loop and the main loop close what they forget).
DaemonOwnsItsEnds ==
  /\ \A c \in Conns : dEnd[c] <=> (c = client \/ c = accepted \/ InBacklog(c))
  /\ client # NoConn => client # accepted /\ ~InBacklog(client)
  /\ accepted # NoConn => ~InBacklog(accepted)
  /\ \A i, j \in DOMAIN backlog : backlog[i] = backlog[j] => i = j

Holds(b, c) == sock[b] = c \/ fresh[b] = c

\* No socket of a bridge is leaked or shared: an open bridge end is _sock or the
\* socket being connected, of one bridge (reconnecting closes what it replaces).
BridgeOwnsItsEnds ==
  \A c \in Conns :
    /\ bEnd[c] <=> \E b \in Bridges : Holds(b, c)
    /\ \A a, b \in Bridges : Holds(a, c) /\ Holds(b, c) => a = b
    /\ \A b \in Bridges : ~(sock[b] = c /\ fresh[b] = c)

\* A running bridge never takes itself for connected without a socket, which would
\* make it wait for ever, nor for disconnected with one (_connected is written
\* outside the lock by _reader_loop and a failing _connect_to_daemon).
ConnectedIffSocket ==
  \A b \in Bridges : mode[b] = "up" => (connected[b] <=> sock[b] # NoConn)

\* A client told "Not connected to vitals-daemon" can rely on it: its request is
\* never carried out, then or later.
RefusedIsNeverSignalled ==
  \A r \in Requests : reply[r].by = "refused" => outcome[r] = "none"

\* A request reaches psutil at most once, and only if a client made it, however the
\* connections and both processes come and go.
SignalledOnce ==
  [][\A r \in Requests : outcome'[r] # outcome[r] =>
       outcome[r] = "none" /\ r \in issued]_vars

\* What _last_kill_response may do wrong, and what it may not: with one bridge the
\* response returned for a call is the one to this call, unless the response to an
\* earlier call came after that call had timed out or its bridge had gone.  (With two
\* the daemon may answer the bridge that took the place of the one that asked.)
WrongResponseNeedsLostCall ==
  Cardinality(Bridges) = 1 =>
    \A r \in Requests :
      (reply[r].by = "response" /\ reply[r].of # r)
        => \E q \in Requests : q < r /\ reply[q].by \in {"timeout", "aborted"}

Older(s, t) == s.start < t.start \/ (s.start = t.start /\ s.cycle < t.cycle)

\* Within the life of a bridge neither the snapshot it holds nor the one it
\* publishes is ever replaced by an older one, across reconnects and restarts.
SnapshotsNeverGoBack ==
  [][\A b \in Bridges : mode'[b] # "down" =>
       ~Older(latest'[b], latest[b]) /\ ~Older(published'[b], published[b])]_vars

\* Every call of the kill service returns, if only with a failure, or its bridge ends:
\* no lock and no socket can hold the executor for ever.
EveryCallReturns == \A r \in Requests : r \in issued ~> reply[r].by # "none"

\* A bridge that stays up, its reader thread too, recovers by itself: after the last
\* restart of the daemon it publishes snapshots of that daemon, however its connection
\* was lost (_reader_loop: "Lost connection to vitals-daemon, reconnecting...").
BridgeRecovers ==
  \A b \in Bridges :
    <>[](dpc # "down" /\ running /\ mode[b] = "up" /\ rpc[b] # "ended")
      => <>[](published[b].start = start)

\* psutil was called for r, and nothing the daemon sent about it can still reach the
\* service or was returned by it.
AnswerLost(r) ==
  /\ outcome[r] # "none" /\ pending # r
  /\ \A c \in Conns : \A i \in DOMAIN toBridge[c] :
       toBridge[c][i].type = "kill_response" => toBridge[c][i].of # r
  /\ \A b \in Bridges : lastResp[b] # NoResponse => lastResp[b].of # r
  /\ \A q \in Requests : reply[q].by = "response" => reply[q].of # r

\* The reader thread of a bridge dies, and its bridge with it, only of the answer to a
\* kill request that was cut short: of a status cut short never, as the daemon closes
\* that connection (_send_message's result is looked at for a status, and not for an
\* answer).
ReaderEndsByCutAnswer ==
  (\E b \in Bridges : rpc[b] = "ended") => \E r \in Requests : AnswerLost(r)

\* The kill service as a whole does what its specification says.
Kills == INSTANCE KillService WITH issued <- issued, outcome <- outcome, reply <- reply
KillServiceSpec == Kills!Spec

\* What KillProcess.srv says of its field success, "Whether the kill signal was sent
\* successfully": a success means that this request's signal was sent.
SuccessMeansSignalSent ==
  \A r \in Requests : reply[r].success => outcome[r] = "sent"
=============================================================================
