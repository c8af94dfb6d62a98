------------------------------- MODULE Socket -------------------------------
(***************************************************************************)
(* The AF_UNIX stream connections between vitals-daemon and the bridge     *)
(* nodes (collector.sock).  The kernel is outside the repository: it is    *)
(* modelled from how daemon.py and bridge_node.py use it.                  *)
(*                                                                         *)
(* A connection is a slot of Conns with two ends, each holding the queue   *)
(* of whole messages it has not read yet.  A slot whose two ends are       *)
(* closed is free and may be used for the next connection.  The framing    *)
(* (a 4-byte length, then JSON) is abstracted: a message is a record, and  *)
(* one of which only a prefix was written is the Torn record.              *)
(***************************************************************************)
EXTENDS Naturals, Sequences

CONSTANTS
  Conns,     \* slots for connections
  NoConn,    \* no connection (the None of the code)
  Requests,  \* kill requests; the code gives them no identity, the model does
  NoReq,
  BufCap,    \* messages a send buffer towards the bridge holds
  MaxStarts, \* bound: how often the daemon is started
  MaxCycle   \* snapshots after this one in a start carry the same number

ASSUME ConnsAssumption   == NoConn \notin Conns
ASSUME RequestsAssumption == Requests \subseteq Nat /\ NoReq \notin Requests
ASSUME BoundsAssumption  == /\ BufCap \in Nat \ {0}
                            /\ MaxStarts \in Nat
                            /\ MaxCycle \in Nat

VARIABLES
  backlog,   \* connections made and not yet accepted
  dEnd,      \* dEnd[c]: the daemon's end of c is open
  bEnd,      \* bEnd[c]: the bridge's end of c is open
  toBridge,  \* toBridge[c]: what the bridge has not read
  toDaemon,  \* toDaemon[c]: the kill requests the daemon has not read
  nonblock   \* nonblock[c]: the daemon did settimeout(0.0) on its end

socketVars == <<backlog, dEnd, bEnd, toBridge, toDaemon, nonblock>>

\* A snapshot is known by the daemon start and the collection cycle it is of.
Snapshots == [start : 1 .. MaxStarts, cycle : 0 .. MaxCycle]

Status(s)          == [type |-> "status", data |-> s]
KillResponse(r, o) == [type |-> "kill_response", of |-> r, success |-> o]
Torn               == [type |-> "torn"]

Statuses      == [type : {"status"}, data : Snapshots]
KillResponses == [type : {"kill_response"}, of : Requests, success : BOOLEAN]
Messages      == Statuses \cup KillResponses \cup {Torn}

SocketTypeOK ==
  /\ backlog \in Seq(Conns)
  /\ dEnd \in [Conns -> BOOLEAN]
  /\ bEnd \in [Conns -> BOOLEAN]
  /\ toBridge \in [Conns -> Seq(Messages)]
  /\ toDaemon \in [Conns -> Seq(Requests)]
  /\ nonblock \in [Conns -> BOOLEAN]

SocketInit ==
  /\ backlog = <<>>
  /\ dEnd = [c \in Conns |-> FALSE]
  /\ bEnd = [c \in Conns |-> FALSE]
  /\ toBridge = [c \in Conns |-> <<>>]
  /\ toDaemon = [c \in Conns |-> <<>>]
  /\ nonblock = [c \in Conns |-> FALSE]

-----------------------------------------------------------------------------
Free(c) == ~dEnd[c] /\ ~bEnd[c]

\* listen(1): the kernel lets one more connection wait than that.
BacklogHasRoom == Len(backlog) <= 1

\* connect() on a listening socket: both ends exist, nobody accepted yet.
Open(c) ==
  /\ Free(c)
  /\ BacklogHasRoom
  /\ backlog' = Append(backlog, c)
  /\ dEnd' = [dEnd EXCEPT ![c] = TRUE]
  /\ bEnd' = [bEnd EXCEPT ![c] = TRUE]
  /\ nonblock' = [nonblock EXCEPT ![c] = FALSE]
  /\ UNCHANGED <<toBridge, toDaemon>>

\* close(): what the closing side has not read is gone, what it has sent is not.
CloseDaemonEnds(S) ==
  /\ dEnd' = [c \in Conns |-> dEnd[c] /\ c \notin S]
  /\ toDaemon' = [c \in Conns |-> IF c \in S THEN <<>> ELSE toDaemon[c]]

CloseBridgeEnds(S) ==
  /\ bEnd' = [c \in Conns |-> bEnd[c] /\ c \notin S]
  /\ toBridge' = [c \in Conns |-> IF c \in S THEN <<>> ELSE toBridge[c]]

HasRoom(c) == Len(toBridge[c]) < BufCap

\* Variant for the checks: messages that overtake each other.
PutFirstToBridge(c, m) == toBridge' = [toBridge EXCEPT ![c] = <<m>> \o @]

PutToBridge(c, m) == toBridge' = [toBridge EXCEPT ![c] = Append(@, m)]
=============================================================================
