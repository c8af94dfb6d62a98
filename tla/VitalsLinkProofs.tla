-------------------------- MODULE VitalsLinkProofs --------------------------
(***************************************************************************)
(* Theorems about VitalsLink, for any number of bridges, connections and   *)
(* requests, any buffer size and any number of restarts: the types, who    *)
(* owns which end of a connection, and that what a bridge has read from    *)
(* its sockets never goes back; of the kill requests, that none reaches    *)
(* psutil twice, and none of which the client was told that it was         *)
(* refused; that the link implements KillService: with its sockets,        *)
(* threads and restarts left out, every step is one of KillService or      *)
(* none; and whose response a call gets.                                   *)
(***************************************************************************)
EXTENDS VitalsLink, SequenceTheorems, FiniteSetTheorems, TLAPS
USE ConnsAssumption, RequestsAssumption, BoundsAssumption, AcceptMayFailAssumption

-----------------------------------------------------------------------------
\* What each thread knows at its place in the code; TypeOK is not inductive without
\* it: a daemon that runs was started, a thread that works on a request or reads
\* from a connection has one.
ThreadsOK ==
  /\ dpc # "down" => start >= 1
  /\ dpc \in {"kill", "respond"} => pending # NoReq
  /\ \A b \in Bridges : kpc[b] # "idle" => req[b] # NoReq
  /\ \A b \in Bridges : rpc[b] \in {"read", "lost"} => rsock[b] # NoConn

TypeInv == TypeOK /\ ThreadsOK

\* The queues keep their types.
LEMMA QueueTypes ==
  ASSUME NEW T
  PROVE  /\ <<>> \in Seq(T)
         /\ \A s \in Seq(T), x \in T : Append(s, x) \in Seq(T)
         /\ \A s \in Seq(T) : s # <<>> => Head(s) \in T /\ Tail(s) \in Seq(T)
  BY EmptySeq, AppendProperties, HeadTailProperties

LEMMA TwiceTail ==
  ASSUME NEW T, NEW s \in Seq(T), Len(s) > 1
  PROVE  Tail(Tail(s)) \in Seq(T)
<1>1. Len(<<>>) = 0
  BY EmptySeq
<1>2. s # <<>>
  BY <1>1
<1>3. Tail(s) \in Seq(T) /\ Len(Tail(s)) = Len(s) - 1
  BY <1>2, HeadTailProperties
<1>4. Len(Tail(s)) # 0
  BY <1>3, LenProperties
<1>5. QED
  BY <1>1, <1>3, <1>4, HeadTailProperties

\* What is in a queue, and that nothing is in it twice.
ElementOf(s, c) == \E i \in DOMAIN s : s[i] = c
NoneTwice(s)    == \A i, j \in DOMAIN s : s[i] = s[j] => i = j

LEMMA AppendElement ==
  ASSUME NEW T, NEW s \in Seq(T), NEW c \in T, ~ElementOf(s, c), NoneTwice(s)
  PROVE  /\ \A d \in T : ElementOf(Append(s, c), d) <=> ElementOf(s, d) \/ d = c
         /\ NoneTwice(Append(s, c))
<1>1. /\ Append(s, c) \in Seq(T)
      /\ Len(Append(s, c)) = Len(s) + 1
      /\ \A i \in 1 .. Len(s) : Append(s, c)[i] = s[i]
      /\ Append(s, c)[Len(s) + 1] = c
  BY AppendProperties
<1>2. Len(s) \in Nat /\ DOMAIN s = 1 .. Len(s) /\ DOMAIN Append(s, c) = 1 .. Len(s) + 1
  BY <1>1, LenProperties
<1>3. \A i \in 1 .. Len(s) + 1 : i \in 1 .. Len(s) \/ i = Len(s) + 1
  BY <1>2
<1>4. 1 .. Len(s) \subseteq 1 .. Len(s) + 1 /\ Len(s) + 1 \in 1 .. Len(s) + 1
  BY <1>2
<1>5. ASSUME NEW d \in T PROVE ElementOf(Append(s, c), d) <=> ElementOf(s, d) \/ d = c
  BY Zenon, <1>1, <1>2, <1>3, <1>4 DEF ElementOf
<1>6. NoneTwice(Append(s, c))
  BY Zenon, <1>1, <1>2, <1>3 DEF ElementOf, NoneTwice
<1>7. QED
  BY <1>5, <1>6

LEMMA TailElement ==
  ASSUME NEW T, NEW s \in Seq(T), s # <<>>, NoneTwice(s)
  PROVE  /\ \A d \in T : ElementOf(Tail(s), d) <=> ElementOf(s, d) /\ d # Head(s)
         /\ ElementOf(s, Head(s))
         /\ NoneTwice(Tail(s))
<1>1. /\ Tail(s) \in Seq(T)
      /\ Len(Tail(s)) = Len(s) - 1
      /\ \A i \in 1 .. Len(Tail(s)) : Tail(s)[i] = s[i + 1]
  BY HeadTailProperties
<1>2. /\ Len(s) \in Nat \ {0}
      /\ DOMAIN s = 1 .. Len(s) /\ DOMAIN Tail(s) = 1 .. Len(s) - 1
      /\ Head(s) = s[1]
  BY <1>1, LenProperties, EmptySeq
<1>3. \A i \in 1 .. Len(s) - 1 : Tail(s)[i] = s[i + 1] /\ i + 1 \in 1 .. Len(s) /\ i + 1 # 1
  BY <1>1, <1>2
<1>4. \A i \in 1 .. Len(s) : i = 1 \/ (i - 1 \in 1 .. Len(s) - 1 /\ Tail(s)[i - 1] = s[i])
  BY <1>1, <1>2
<1>5. 1 \in 1 .. Len(s)
  BY <1>2
<1>6. ASSUME NEW d \in T PROVE ElementOf(Tail(s), d) <=> ElementOf(s, d) /\ d # Head(s)
  <2>1. ElementOf(Tail(s), d) => ElementOf(s, d) /\ d # Head(s)
    BY Zenon, <1>2, <1>3, <1>5 DEF ElementOf, NoneTwice
  <2>2. ElementOf(s, d) /\ d # Head(s) => ElementOf(Tail(s), d)
    BY Zenon, <1>2, <1>4 DEF ElementOf
  <2>3. QED
    BY <2>1, <2>2
<1>7. NoneTwice(Tail(s))
  BY <1>1, <1>2, <1>3 DEF NoneTwice
<1>8. QED
  BY <1>2, <1>5, <1>6, <1>7 DEF ElementOf

LEMMA CloseDaemonEndsTypes ==
  ASSUME SocketTypeOK, NEW S, CloseDaemonEnds(S)
  PROVE  dEnd' \in [Conns -> BOOLEAN] /\ toDaemon' \in [Conns -> Seq(Requests)]
<1>1. dEnd' \in [Conns -> BOOLEAN]
  BY Zenon DEF CloseDaemonEnds
<1>2. toDaemon' \in [Conns -> Seq(Requests)]
  BY QueueTypes DEF CloseDaemonEnds, SocketTypeOK
<1>3. QED
  BY <1>1, <1>2

LEMMA CloseBridgeEndsTypes ==
  ASSUME SocketTypeOK, NEW S, CloseBridgeEnds(S)
  PROVE  bEnd' \in [Conns -> BOOLEAN] /\ toBridge' \in [Conns -> Seq(Messages)]
<1>1. bEnd' \in [Conns -> BOOLEAN]
  BY Zenon DEF CloseBridgeEnds
<1>2. toBridge' \in [Conns -> Seq(Messages)]
  BY QueueTypes DEF CloseBridgeEnds, SocketTypeOK
<1>3. QED
  BY <1>1, <1>2

LEMMA PutToBridgeTypes ==
  ASSUME SocketTypeOK, NEW c \in Conns, NEW m \in Messages, PutToBridge(c, m)
  PROVE  toBridge' \in [Conns -> Seq(Messages)]
<1>1. Append(toBridge[c], m) \in Seq(Messages)
  BY QueueTypes DEF SocketTypeOK
<1>2. QED
  BY <1>1 DEF PutToBridge, SocketTypeOK

LEMMA ReadRequestTypes ==
  ASSUME SocketTypeOK, NEW c \in Conns, toDaemon[c] # <<>>, ReadRequest(c)
  PROVE  pending' \in Requests /\ toDaemon' \in [Conns -> Seq(Requests)]
<1>1. Head(toDaemon[c]) \in Requests /\ Tail(toDaemon[c]) \in Seq(Requests)
  BY QueueTypes DEF SocketTypeOK
<1>2. QED
  BY <1>1 DEF ReadRequest, SocketTypeOK

LEMMA DaemonPreservesTypeInv ==
  ASSUME TypeInv, DaemonNext, UNCHANGED bridgeVars
  PROVE  TypeInv'
<1> USE DEF TypeInv, TypeOK, ThreadsOK, SocketTypeOK, DaemonTypeOK, BridgeTypeOK,
            bridgeVars, readerVars, serviceVars, socketVars
<1>1. CASE StartDaemon
  BY <1>1 DEF StartDaemon
<1>2. CASE Crash
  BY <1>2, CloseDaemonEndsTypes, QueueTypes DEF Crash, Exit
<1>3. CASE Stop
  BY <1>3 DEF Stop
<1>4. CASE Shutdown
  BY <1>4, CloseDaemonEndsTypes, QueueTypes DEF Shutdown, Exit
<1>5. CASE Collect
  BY <1>5 DEF Collect
<1>6. CASE SendStatus
  <2>1. Status(Snapshot) \in Messages /\ Torn \in Messages
    BY <1>6 DEF SendStatus, Status, Snapshot, Messages, Statuses, Snapshots
  <2>2. toBridge' \in [Conns -> Seq(Messages)]
    BY <1>6, <2>1, PutToBridgeTypes DEF SendStatus
  <2>3. client' \in Conns \cup {NoConn} /\ dEnd' \in [Conns -> BOOLEAN]
        /\ toDaemon' \in [Conns -> Seq(Requests)]
    BY <1>6, CloseDaemonEndsTypes DEF SendStatus, DropClient
  <2>4. QED
    BY <1>6, <2>2, <2>3 DEF SendStatus
<1>7. CASE HandleClientMessages
  <2>1. toDaemon' \in [Conns -> Seq(Requests)] /\ nonblock' \in [Conns -> BOOLEAN]
    BY <1>7, ReadRequestTypes DEF HandleClientMessages
  <2>2. /\ pending' \in Requests \cup {NoReq}
        /\ dpc' \in {"collect", "kill"}
        /\ dpc' = "kill" => pending' # NoReq
    BY <1>7, ReadRequestTypes DEF HandleClientMessages
  <2>3. QED
    BY <1>7, <2>1, <2>2 DEF HandleClientMessages
<1>8. CASE Kill
  <2>1. outcome' \in [Requests -> Outcomes]
    BY <1>8 DEF Kill
  <2>2. QED
    BY <1>8, <2>1 DEF Kill
<1>9. CASE Respond
  <2>1. KillResponse(pending, Succeeded(outcome[pending])) \in Messages /\ Torn \in Messages
    <3>1. pending \in Requests
      BY <1>9 DEF Respond
    <3>2. Succeeded(outcome[pending]) \in BOOLEAN
      BY Zenon DEF Succeeded
    <3>3. QED
      BY <3>1, <3>2 DEF KillResponse, Messages, KillResponses
  <2>2. toBridge' \in [Conns -> Seq(Messages)]
    BY <1>9, <2>1, PutToBridgeTypes DEF Respond
  <2>3. QED
    BY <1>9, <2>2 DEF Respond
<1>10. CASE Accept
  BY <1>10, QueueTypes DEF Accept
<1>11. CASE Install
  BY <1>11, CloseDaemonEndsTypes DEF Install
<1>12. CASE AcceptEnds
  BY <1>12 DEF AcceptEnds
<1>13. QED
  BY <1>1, <1>2, <1>3, <1>4, <1>5, <1>6, <1>7, <1>8, <1>9, <1>10, <1>11, <1>12
     DEF DaemonNext, DaemonSteps

LEMMA BridgePreservesTypeInv ==
  ASSUME TypeInv, NEW b \in Bridges, NEW listening \in BOOLEAN,
         BridgeNext(b, listening), UNCHANGED daemonVars
  PROVE  TypeInv'
<1> USE DEF TypeInv, TypeOK, ThreadsOK, SocketTypeOK, DaemonTypeOK, BridgeTypeOK,
            daemonVars, threadVars, readerVars, serviceVars, socketVars, bridgeVars
<1>0. /\ NoSnapshot \in Snapshots \cup {NoSnapshot}
      /\ NoResponse \in KillResponses \cup {NoResponse}
  OBVIOUS
<1>1. CASE StartBridge(b)
  BY <1>1 DEF StartBridge
<1>2. CASE DestroyNode(b)
  BY <1>2, CloseBridgeEndsTypes DEF DestroyNode
<1>3. CASE BridgeExit(b)
  <2>1. Reply("aborted", NoReq, FALSE) \in Replies
    BY DEF Reply, Replies
  <2>2. reply' \in [Requests -> Replies]
    BY <1>3, <2>1 DEF BridgeExit
  <2>3. QED
    BY <1>0, <1>3, <2>2, CloseBridgeEndsTypes DEF BridgeExit
<1>4. CASE ConnectFails(b, listening)
  BY <1>4 DEF ConnectFails
<1>5. CASE Connect(b, listening)
  <2>1. PICK c \in Conns : Open(c) /\ fresh' = [fresh EXCEPT ![b] = c]
    BY <1>5 DEF Connect
  <2>2. backlog' \in Seq(Conns)
    BY <2>1, QueueTypes DEF Open
  <2>3. QED
    BY <1>5, <2>1, <2>2 DEF Connect, Open
<1>6. CASE InstallSocket(b)
  BY <1>6, CloseBridgeEndsTypes DEF InstallSocket
<1>7. CASE PickSocket(b)
  <2>1. CASE sock[b] = NoConn
    <3>1. /\ connected' = [connected EXCEPT ![b] = FALSE]
          /\ rpc' = [rpc EXCEPT ![b] = "check"]
          /\ UNCHANGED <<rsock, mode, sock, fresh, latest, published,
                         serviceVars, socketVars>>
      BY <1>7, <2>1 DEF PickSocket
    <3>2. /\ connected' \in [Bridges -> BOOLEAN]
          /\ rpc' \in [Bridges -> {"check", "connecting", "pick", "read", "lost", "ended"}]
      BY <3>1
    <3>3. QED
      BY <3>1, <3>2
  <2>2. CASE sock[b] # NoConn
    <3>1. /\ rsock' = [rsock EXCEPT ![b] = sock[b]]
          /\ rpc' = [rpc EXCEPT ![b] = "read"]
          /\ UNCHANGED <<connected, mode, sock, fresh, latest, published,
                         serviceVars, socketVars>>
      BY <1>7, <2>2 DEF PickSocket
    <3>2. /\ rsock' \in [Bridges -> Conns \cup {NoConn}]
          /\ rpc' \in [Bridges -> {"check", "connecting", "pick", "read", "lost", "ended"}]
      BY <3>1
    <3>3. \A a \in Bridges : rpc'[a] \in {"read", "lost"} => rsock'[a] # NoConn
      BY <3>1, <2>2
    <3>4. QED
      BY <3>1, <3>2, <3>3
  <2>3. QED
    BY <2>1, <2>2
<1>8. CASE Receive(b)
  <2> DEFINE c == rsock[b]
             m == Head(toBridge[c])
  <2>1. c \in Conns /\ toBridge[c] # <<>>
    BY <1>8 DEF Receive, ReadsOpen
  <2>2. m \in Messages /\ Tail(toBridge[c]) \in Seq(Messages)
    BY <2>1, QueueTypes
  <2>3. /\ m.type = "status" => m \in Statuses \cup {Torn}
        /\ m.type = "kill_response" => m \in KillResponses
    BY <2>2 DEF Messages, Statuses, KillResponses, Torn
  <2>4. toBridge' \in [Conns -> Seq(Messages)]
    BY <1>8, <2>1, <2>2 DEF Receive
  <2>5. latest' \in [Bridges -> Snapshots \cup {NoSnapshot}]
    BY <1>8, <2>3 DEF Receive, Statuses, DataOf
  <2>6. lastResp' \in [Bridges -> KillResponses \cup {NoResponse}]
    BY <1>8, <2>3 DEF Receive
  <2>7. QED
    BY <1>8, <2>4, <2>5, <2>6 DEF Receive, ReadsOpen
<1>9. CASE ReceiveTimesOut(b)
  <2>1. toBridge' \in [Conns -> Seq(Messages)]
    BY <1>9, QueueTypes DEF ReceiveTimesOut, ReadsOpen
  <2>2. QED
    BY <1>9, <2>1 DEF ReceiveTimesOut, ReadsOpen
<1>10. CASE ReceiveFails(b) \/ ReceiveGarbled(b)
  <2>1. toBridge' \in [Conns -> Seq(Messages)]
    <3>1. rsock[b] \in Conns
      BY <1>10 DEF ReceiveFails, ReceiveGarbled, ReadsOpen
    <3>2. toBridge[rsock[b]] \in Seq(Messages)
      BY <3>1
    <3>3. \/ toBridge' = toBridge
          \/ toBridge' = [toBridge EXCEPT ![rsock[b]] = <<>>]
          \/ /\ Len(toBridge[rsock[b]]) > 1
             /\ toBridge' = [toBridge EXCEPT ![rsock[b]] = Tail(Tail(@))]
      BY <1>10 DEF ReceiveFails, ReceiveGarbled, ReadsOpen
    <3>4. CASE toBridge' = [toBridge EXCEPT ![rsock[b]] = <<>>]
      BY <3>4, QueueTypes
    <3>5. CASE /\ Len(toBridge[rsock[b]]) > 1
               /\ toBridge' = [toBridge EXCEPT ![rsock[b]] = Tail(Tail(@))]
      <4>1. Tail(Tail(toBridge[rsock[b]])) \in Seq(Messages)
        BY <3>2, <3>5, TwiceTail
      <4>2. QED
        BY <3>5, <4>1
    <3>6. QED
      BY <3>3, <3>4, <3>5
  <2>2. CASE ReceiveFails(b)
    BY <2>1, <2>2 DEF ReceiveFails
  <2>3. CASE ReceiveGarbled(b)
    BY <2>1, <2>3 DEF ReceiveGarbled, ReadsOpen
  <2>4. QED
    BY <1>10, <2>2, <2>3
<1>11. CASE Disconnect(b)
  BY <1>11, CloseBridgeEndsTypes DEF Disconnect, DropSocket
<1>12. CASE Publish(b)
  BY <1>12 DEF Publish
<1>13. CASE KillCall(b)
  BY <1>13 DEF KillCall, ForgetResponse
<1>14. CASE KillSend(b)
  <2>1. Append(toDaemon[sock[b]], req[b]) \in Seq(Requests)
    BY <1>14, QueueTypes DEF KillSend, CanSend
  <2>2. QED
    BY <1>14, <2>1 DEF KillSend, CanSend
<1>15. CASE KillRefused(b)
  <2>1. Reply("refused", NoReq, FALSE) \in Replies
    BY DEF Reply, Replies
  <2>2. QED
    BY <1>15, <2>1 DEF KillRefused, Answer
<1>16. CASE KillReturn(b)
  <2>1. lastResp[b] \in KillResponses
    BY <1>16 DEF KillReturn
  <2>2. Reply("response", lastResp[b].of, lastResp[b].success) \in Replies
    BY <2>1 DEF Reply, Replies, KillResponses
  <2>3. QED
    BY <1>16, <2>2 DEF KillReturn, Answer
<1>17. CASE KillTimeout(b)
  <2>1. Reply("timeout", NoReq, FALSE) \in Replies
    BY DEF Reply, Replies
  <2>2. QED
    BY <1>17, <2>1 DEF KillTimeout, Answer
<1>18. QED
  BY <1>1, <1>2, <1>3, <1>4, <1>5, <1>6, <1>7, <1>8, <1>9, <1>10, <1>11, <1>12,
     <1>13, <1>14, <1>15, <1>16, <1>17
     DEF BridgeNext, ReaderSteps, ServiceSteps

LEMMA InitTypeInv == Init => TypeInv
<1> SUFFICES ASSUME Init PROVE TypeInv
  OBVIOUS
<1>1. SocketTypeOK
  BY QueueTypes DEF Init, SocketInit, SocketTypeOK
<1>2. DaemonTypeOK
  <2>1. start \in 0 .. MaxStarts /\ cycle \in 0 .. MaxCycle
    BY SMT DEF Init, DaemonInit
  <2>2. running \in BOOLEAN /\ outcome \in [Requests -> Outcomes]
    BY DEF Init, DaemonInit, Outcomes
  <2>3. QED
    BY <2>1, <2>2 DEF Init, DaemonInit, DaemonTypeOK
<1>3. NoReply \in Replies
  BY DEF NoReply, Reply, Replies
<1>4. BridgeTypeOK
  BY <1>3 DEF Init, BridgeInit, BridgeTypeOK
<1>5. ThreadsOK
  BY DEF Init, DaemonInit, BridgeInit, ThreadsOK
<1>6. QED
  BY <1>1, <1>2, <1>4, <1>5 DEF TypeInv, TypeOK

LEMMA StutterTypeInv == TypeInv /\ UNCHANGED vars => TypeInv'
BY DEF TypeInv, TypeOK, ThreadsOK, SocketTypeOK, DaemonTypeOK, BridgeTypeOK,
       vars, daemonVars, threadVars, readerVars, serviceVars, socketVars, bridgeVars

LEMMA SpecTypeInv == Spec => []TypeInv
<1>1. TypeInv /\ [Next]_vars => TypeInv'
  <2> SUFFICES ASSUME TypeInv, [Next]_vars PROVE TypeInv'
    OBVIOUS
  <2>1. CASE DaemonNext /\ UNCHANGED bridgeVars
    BY <2>1, DaemonPreservesTypeInv
  <2>2. CASE \E b \in Bridges : BridgeNext(b, Listening) /\ UNCHANGED daemonVars
    <3>1. Listening \in BOOLEAN
      BY Zenon DEF Listening
    <3>2. QED
      BY <2>2, <3>1, BridgePreservesTypeInv
  <2>3. CASE UNCHANGED vars
    BY <2>3, StutterTypeInv
  <2>4. QED
    BY <2>1, <2>2, <2>3 DEF Next
<1>2. QED
  BY <1>1, InitTypeInv, PTL DEF Spec

\* Every variable keeps its type, in every instance: in particular only whole
\* snapshots and kill responses of this protocol ever reach the reader's state.
THEOREM TypeCorrect == Spec => []TypeOK
<1>1. TypeInv => TypeOK
  BY DEF TypeInv
<1>2. QED
  BY <1>1, SpecTypeInv, PTL

-----------------------------------------------------------------------------
\* The bridges.

\* Which connections a bridge holds at each place of its threads.  It is what the
\* reader relies on between two regions of _sock_lock: as long as nobody destroys the
\* node, nobody else touches _sock.
BridgeThreads ==
  \A b \in Bridges :
    /\ mode[b] = "down" => rpc[b] = "check" /\ sock[b] = NoConn /\ ~connected[b]
    /\ fresh[b] # NoConn <=> rpc[b] = "connecting"
    /\ mode[b] = "up" /\ rpc[b] = "connecting" => sock[b] = NoConn
    /\ mode[b] = "up" /\ rpc[b] \in {"read", "lost"} => rsock[b] = sock[b]

BridgeInv == BridgeOwnsItsEnds /\ ConnectedIffSocket /\ BridgeThreads

ends == <<bEnd, mode, rpc, sock, fresh, rsock, connected>>

LEMMA BridgeInvFrame == BridgeInv /\ UNCHANGED ends => BridgeInv'
BY DEF BridgeInv, BridgeOwnsItsEnds, Holds, ConnectedIffSocket, BridgeThreads, ends

LEMMA DaemonKeepsBridgeEnds == DaemonNext => UNCHANGED bEnd
<1> SUFFICES ASSUME DaemonNext PROVE UNCHANGED bEnd
  OBVIOUS
<1>1. CASE StartDaemon \/ Stop \/ Collect \/ Kill \/ AcceptEnds
  BY <1>1 DEF StartDaemon, Stop, Collect, Kill, AcceptEnds, socketVars
<1>2. CASE Crash \/ Shutdown
  BY <1>2 DEF Crash, Shutdown, Exit
<1>3. CASE SendStatus \/ HandleClientMessages \/ Respond
  BY <1>3 DEF SendStatus, HandleClientMessages, Respond
<1>4. CASE Accept \/ Install
  BY <1>4 DEF Accept, Install
<1>5. QED
  BY <1>1, <1>2, <1>3, <1>4 DEF DaemonNext, DaemonSteps

\* A step of one bridge that closes exactly the ends it lets go of.
LEMMA ReleaseKeepsOwnership ==
  ASSUME BridgeOwnsItsEnds, NEW b \in Bridges,
         \A a \in Bridges \ {b} : sock'[a] = sock[a] /\ fresh'[a] = fresh[a],
         \A c \in Conns : Holds(b, c)' => Holds(b, c),
         \A c \in Conns : bEnd'[c] <=> bEnd[c] /\ (Holds(b, c) => Holds(b, c)'),
         \A c \in Conns : ~(sock'[b] = c /\ fresh'[b] = c)
  PROVE  BridgeOwnsItsEnds'
<1>1. \A c \in Conns : \A a \in Bridges : Holds(a, c)' => Holds(a, c)
  BY DEF Holds
<1> SUFFICES ASSUME NEW c \in Conns
             PROVE  /\ bEnd'[c] <=> \E a \in Bridges : Holds(a, c)'
                    /\ \A a, d \in Bridges : Holds(a, c)' /\ Holds(d, c)' => a = d
                    /\ \A a \in Bridges : ~(sock'[a] = c /\ fresh'[a] = c)
  BY Zenon DEF BridgeOwnsItsEnds
<1>2. \A a, d \in Bridges : Holds(a, c)' /\ Holds(d, c)' => a = d
  BY <1>1 DEF BridgeOwnsItsEnds
<1>3. \A a \in Bridges : ~(sock'[a] = c /\ fresh'[a] = c)
  BY DEF BridgeOwnsItsEnds
<1>4. \A a \in Bridges \ {b} : Holds(a, c)' <=> Holds(a, c)
  BY DEF Holds
<1>5. ASSUME bEnd'[c] PROVE \E a \in Bridges : Holds(a, c)'
  <2>1. PICK a \in Bridges : Holds(a, c)
    BY <1>5 DEF BridgeOwnsItsEnds
  <2>2. Holds(a, c)'
    BY <2>1, <1>4, <1>5
  <2>3. QED
    BY <2>2
<1>6. ASSUME NEW a \in Bridges, Holds(a, c)' PROVE bEnd'[c]
  <2>1. bEnd[c]
    BY <1>1, <1>6 DEF BridgeOwnsItsEnds
  <2>2. Holds(b, c) => a = b
    BY <1>1, <1>6 DEF BridgeOwnsItsEnds
  <2>3. QED
    BY <1>6, <2>1, <2>2
<1>7. QED
  BY <1>2, <1>3, <1>5, <1>6

LEMMA BridgeStepKeepsBridgeInv ==
  ASSUME TypeInv, BridgeInv, NEW b \in Bridges, NEW listening \in BOOLEAN,
         BridgeNext(b, listening)
  PROVE  BridgeInv'
<1>0. /\ mode \in [Bridges -> {"down", "up", "stopping"}]
      /\ rpc \in [Bridges -> {"check", "connecting", "pick", "read", "lost", "ended"}]
      /\ sock \in [Bridges -> Conns \cup {NoConn}]
      /\ fresh \in [Bridges -> Conns \cup {NoConn}]
      /\ rsock \in [Bridges -> Conns \cup {NoConn}]
      /\ connected \in [Bridges -> BOOLEAN]
      /\ bEnd \in [Conns -> BOOLEAN]
  BY DEF TypeInv, TypeOK, SocketTypeOK, BridgeTypeOK
<1>own. ASSUME UNCHANGED <<sock, fresh, bEnd>> PROVE BridgeOwnsItsEnds'
  BY <1>own DEF BridgeInv, BridgeOwnsItsEnds, Holds
<1>rel. ASSUME \A a \in Bridges \ {b} : sock'[a] = sock[a] /\ fresh'[a] = fresh[a],
               \A c \in Conns : Holds(b, c)' => Holds(b, c),
               \A c \in Conns : bEnd'[c] <=> bEnd[c] /\ (Holds(b, c) => Holds(b, c)'),
               \A c \in Conns : ~(sock'[b] = c /\ fresh'[b] = c)
        PROVE  BridgeOwnsItsEnds'
  BY <1>rel, ReleaseKeepsOwnership DEF BridgeInv
<1>one. \A c \in Conns : ~(sock[b] = c /\ fresh[b] = c)
  BY DEF BridgeInv, BridgeOwnsItsEnds
<1>frame. ASSUME UNCHANGED ends PROVE BridgeInv'
  BY <1>frame, BridgeInvFrame
<1>1. CASE StartBridge(b)
  <2>1. /\ UNCHANGED <<sock, fresh, bEnd, rpc, rsock, connected>>
        /\ mode' = [mode EXCEPT ![b] = "up"] /\ mode[b] = "down"
    BY <1>1 DEF StartBridge, serviceVars, socketVars
  <2>2. BridgeThreads' /\ ConnectedIffSocket'
    BY <2>1, <1>0 DEF BridgeInv, BridgeThreads, ConnectedIffSocket
  <2>3. QED
    BY <2>1, <2>2, <1>own DEF BridgeInv
<1>2. CASE DestroyNode(b)
  <2>1. /\ mode' = [mode EXCEPT ![b] = "stopping"]
        /\ bEnd' = [c \in Conns |-> bEnd[c] /\ c \notin {sock[b]}]
        /\ sock' = [sock EXCEPT ![b] = NoConn]
        /\ UNCHANGED <<rpc, fresh, rsock, connected>>
        /\ mode[b] = "up"
    BY <1>2 DEF DestroyNode, CloseBridgeEnds
  <2>2. BridgeOwnsItsEnds'
    BY <2>1, <1>0, <1>one, <1>rel DEF Holds
  <2>3. BridgeThreads' /\ ConnectedIffSocket'
    BY <2>1, <1>0 DEF BridgeInv, BridgeThreads, ConnectedIffSocket
  <2>4. QED
    BY <2>2, <2>3 DEF BridgeInv
<1>3. CASE BridgeExit(b)
  <2>1. /\ mode' = [mode EXCEPT ![b] = "down"]
        /\ bEnd' = [c \in Conns |-> bEnd[c] /\ c \notin {sock[b], fresh[b]}]
        /\ rpc' = [rpc EXCEPT ![b] = "check"]
        /\ sock' = [sock EXCEPT ![b] = NoConn]
        /\ fresh' = [fresh EXCEPT ![b] = NoConn]
        /\ rsock' = [rsock EXCEPT ![b] = NoConn]
        /\ connected' = [connected EXCEPT ![b] = FALSE]
    BY <1>3 DEF BridgeExit, CloseBridgeEnds
  <2>2. BridgeOwnsItsEnds'
    BY <2>1, <1>0, <1>one, <1>rel DEF Holds
  <2>3. BridgeThreads' /\ ConnectedIffSocket'
    BY <2>1, <1>0 DEF BridgeInv, BridgeThreads, ConnectedIffSocket
  <2>4. QED
    BY <2>2, <2>3 DEF BridgeInv
<1>4. CASE Connect(b, listening)
  <2>1. PICK c \in Conns : Open(c) /\ fresh' = [fresh EXCEPT ![b] = c]
    BY <1>4 DEF Connect
  <2>2. /\ ~bEnd[c] /\ bEnd' = [bEnd EXCEPT ![c] = TRUE]
        /\ rpc' = [rpc EXCEPT ![b] = "connecting"]
        /\ mode[b] = "up" /\ rpc[b] = "check" /\ ~connected[b]
        /\ UNCHANGED <<mode, sock, rsock, connected>>
    BY <1>4, <2>1 DEF Connect, Open, Free
  <2>3. BridgeOwnsItsEnds'
    BY <2>1, <2>2, <1>0 DEF BridgeInv, BridgeOwnsItsEnds, Holds, BridgeThreads
  <2>4. BridgeThreads' /\ ConnectedIffSocket'
    BY <2>1, <2>2, <1>0 DEF BridgeInv, BridgeThreads, ConnectedIffSocket
  <2>5. QED
    BY <2>3, <2>4 DEF BridgeInv
<1>5. CASE InstallSocket(b)
  <2>1. /\ rpc[b] = "connecting" /\ rpc' = [rpc EXCEPT ![b] = "pick"]
        /\ bEnd' = [c \in Conns |-> bEnd[c] /\ c \notin {sock[b]}]
        /\ sock' = [sock EXCEPT ![b] = fresh[b]]
        /\ fresh' = [fresh EXCEPT ![b] = NoConn]
        /\ connected' = [connected EXCEPT ![b] = TRUE]
        /\ UNCHANGED <<mode, rsock>>
    BY <1>5 DEF InstallSocket, CloseBridgeEnds
  <2>2. BridgeOwnsItsEnds'
    BY <2>1, <1>0, <1>one, <1>rel DEF Holds
  <2>3. BridgeThreads' /\ ConnectedIffSocket'
    BY <2>1, <1>0 DEF BridgeInv, BridgeThreads, ConnectedIffSocket
  <2>4. QED
    BY <2>2, <2>3 DEF BridgeInv
<1>6. CASE PickSocket(b)
  <2>1. /\ rpc[b] \in {"pick", "check"}
        /\ rpc[b] = "check" => mode[b] = "up" /\ connected[b]
        /\ UNCHANGED <<mode, sock, fresh, bEnd>>
    BY <1>6 DEF PickSocket, socketVars
  <2>2. \/ /\ sock[b] = NoConn
           /\ connected' = [connected EXCEPT ![b] = FALSE]
           /\ rpc' = [rpc EXCEPT ![b] = "check"] /\ rsock' = rsock
        \/ /\ rsock' = [rsock EXCEPT ![b] = sock[b]]
           /\ rpc' = [rpc EXCEPT ![b] = "read"] /\ connected' = connected
           /\ sock[b] # NoConn
    BY <1>6 DEF PickSocket
  <2>3. BridgeThreads' /\ ConnectedIffSocket'
    BY <2>1, <2>2, <1>0 DEF BridgeInv, BridgeThreads, ConnectedIffSocket
  <2>4. QED
    BY <2>1, <2>3, <1>own DEF BridgeInv
<1>7. CASE Receive(b) \/ ReceiveTimesOut(b)
  <2>1. /\ rpc[b] = "read" /\ rpc' = [rpc EXCEPT ![b] = "check"]
        /\ rsock' = [rsock EXCEPT ![b] = NoConn]
        /\ UNCHANGED <<mode, sock, fresh, connected, bEnd>>
    BY <1>7 DEF Receive, ReceiveTimesOut, ReadsOpen
  <2>2. BridgeThreads' /\ ConnectedIffSocket'
    BY <2>1, <1>0 DEF BridgeInv, BridgeThreads, ConnectedIffSocket
  <2>3. QED
    BY <2>1, <2>2, <1>own DEF BridgeInv
<1>8. CASE ReceiveFails(b) \/ ReceiveGarbled(b)
  <2>1. /\ rpc[b] = "read"
        /\ \/ rpc' = [rpc EXCEPT ![b] = "lost"] /\ rsock' = rsock
           \/ rpc' = [rpc EXCEPT ![b] = "ended"] /\ rsock' = [rsock EXCEPT ![b] = NoConn]
        /\ UNCHANGED <<mode, sock, fresh, connected, bEnd>>
    BY <1>8 DEF ReceiveFails, ReceiveGarbled, ReadsOpen
  <2>2. BridgeThreads' /\ ConnectedIffSocket'
    BY <2>1, <1>0 DEF BridgeInv, BridgeThreads, ConnectedIffSocket
  <2>3. QED
    BY <2>1, <2>2, <1>own DEF BridgeInv
<1>9. CASE Disconnect(b)
  <2>1. /\ rpc[b] = "lost" /\ rpc' = [rpc EXCEPT ![b] = "check"]
        /\ rsock' = [rsock EXCEPT ![b] = NoConn]
        /\ UNCHANGED <<mode, fresh>>
    BY <1>9 DEF Disconnect
  <2>2. CASE sock[b] = rsock[b]
    <3>1. /\ bEnd' = [c \in Conns |-> bEnd[c] /\ c \notin {sock[b]}]
          /\ sock' = [sock EXCEPT ![b] = NoConn]
          /\ connected' = [connected EXCEPT ![b] = FALSE]
      BY <1>9, <2>2 DEF Disconnect, DropSocket, CloseBridgeEnds
    <3>2. BridgeOwnsItsEnds'
      BY <2>1, <3>1, <1>0, <1>one, <1>rel DEF Holds
    <3>3. BridgeThreads' /\ ConnectedIffSocket'
      BY <2>1, <3>1, <1>0 DEF BridgeInv, BridgeThreads, ConnectedIffSocket
    <3>4. QED
      BY <3>2, <3>3 DEF BridgeInv
  <2>3. CASE sock[b] # rsock[b]
    <3>1. UNCHANGED <<bEnd, sock, connected>>
      BY <1>9, <2>3 DEF Disconnect
    <3>2. BridgeThreads' /\ ConnectedIffSocket'
      BY <2>1, <2>3, <3>1, <1>0 DEF BridgeInv, BridgeThreads, ConnectedIffSocket
    <3>3. QED
      BY <2>1, <3>1, <3>2, <1>own DEF BridgeInv
  <2>4. QED
    BY <2>2, <2>3
<1>10. CASE ConnectFails(b, listening) \/ Publish(b) \/ KillCall(b)
  BY <1>10, <1>frame DEF ConnectFails, Publish, KillCall, bridgeVars, readerVars, socketVars, ends
<1>11. CASE ServiceSteps(b)
  BY <1>11, <1>frame DEF ServiceSteps, KillSend, KillRefused, KillReturn, KillTimeout,
                         readerVars, socketVars, ends
<1>12. QED
  BY <1>1, <1>2, <1>3, <1>4, <1>5, <1>6, <1>7, <1>8, <1>9, <1>10, <1>11
     DEF BridgeNext, ReaderSteps

LEMMA InitBridgeInv == Init => BridgeInv
BY DEF Init, SocketInit, BridgeInit, BridgeInv, BridgeOwnsItsEnds, Holds, ConnectedIffSocket,
       BridgeThreads

LEMMA SpecBridgeInv == Spec => []BridgeInv
<1>1. TypeInv /\ BridgeInv /\ [Next]_vars => BridgeInv'
  <2> SUFFICES ASSUME TypeInv, BridgeInv, [Next]_vars PROVE BridgeInv'
    OBVIOUS
  <2>1. CASE DaemonNext /\ UNCHANGED bridgeVars
    <3>1. UNCHANGED ends
      BY <2>1, DaemonKeepsBridgeEnds DEF bridgeVars, readerVars, ends
    <3>2. QED
      BY <3>1, BridgeInvFrame
  <2>2. CASE \E b \in Bridges : BridgeNext(b, Listening) /\ UNCHANGED daemonVars
    <3>1. Listening \in BOOLEAN
      BY Zenon DEF Listening
    <3>2. QED
      BY <2>2, <3>1, BridgeStepKeepsBridgeInv
  <2>3. CASE UNCHANGED vars
    <3>1. UNCHANGED ends
      BY <2>3 DEF vars, socketVars, bridgeVars, readerVars, ends
    <3>2. QED
      BY <3>1, BridgeInvFrame
  <2>4. QED
    BY <2>1, <2>2, <2>3 DEF Next
<1>2. QED
  BY <1>1, InitBridgeInv, SpecTypeInv, PTL DEF Spec

\* No bridge leaks a socket or closes another's: every open bridge end is _sock or the
\* socket being connected of exactly one bridge.
THEOREM BridgeEndsOwned == Spec => []BridgeOwnsItsEnds
<1>1. BridgeInv => BridgeOwnsItsEnds
  BY DEF BridgeInv
<1>2. QED
  BY <1>1, SpecBridgeInv, PTL

\* A running bridge takes itself for connected exactly when it has a socket, though
\* _connected is written outside the lock.
THEOREM ConnectedHasSocket == Spec => []ConnectedIffSocket
<1>1. BridgeInv => ConnectedIffSocket
  BY DEF BridgeInv
<1>2. QED
  BY <1>1, SpecBridgeInv, PTL

-----------------------------------------------------------------------------
\* The daemon.

LEMMA InitDaemonOwnsItsEnds == Init => DaemonOwnsItsEnds
BY DEF Init, SocketInit, DaemonInit, DaemonOwnsItsEnds, InBacklog

LEMMA DaemonEndsFrame ==
  DaemonOwnsItsEnds /\ UNCHANGED <<dEnd, client, accepted, backlog>> => DaemonOwnsItsEnds'
BY DEF DaemonOwnsItsEnds, InBacklog

LEMMA DaemonStepKeepsItsEnds ==
  ASSUME TypeInv, DaemonOwnsItsEnds, DaemonNext
  PROVE  DaemonOwnsItsEnds'
<1>0. /\ backlog \in Seq(Conns) /\ dEnd \in [Conns -> BOOLEAN]
      /\ client \in Conns \cup {NoConn} /\ accepted \in Conns \cup {NoConn}
  BY DEF TypeInv, TypeOK, SocketTypeOK, DaemonTypeOK
<1>drop. ASSUME client' = NoConn, CloseDaemonEnds({client}), UNCHANGED <<accepted, backlog>>
         PROVE  DaemonOwnsItsEnds'
  <2>1. \A c \in Conns : dEnd'[c] <=> dEnd[c] /\ c # client
    BY <1>drop DEF CloseDaemonEnds
  <2>2. \A c \in Conns : InBacklog(c)' <=> InBacklog(c)
    BY <1>drop DEF InBacklog
  <2>3. \A c \in Conns : dEnd'[c] <=> (c = client' \/ c = accepted' \/ InBacklog(c)')
    BY <1>drop, <1>0, <2>1, <2>2 DEF DaemonOwnsItsEnds
  <2>4. QED
    BY <1>drop, <1>0, <2>2, <2>3 DEF DaemonOwnsItsEnds
<1>1. CASE StartDaemon \/ Stop \/ Collect \/ Kill \/ AcceptEnds
  BY <1>1, DaemonEndsFrame DEF StartDaemon, Stop, Collect, Kill, AcceptEnds, socketVars
<1>2. CASE Crash \/ Shutdown
  <2>1. /\ client' = NoConn /\ accepted' = NoConn /\ backlog' = <<>>
        /\ \A c \in Conns : ~dEnd'[c]
    BY <1>2 DEF Crash, Shutdown, Exit, CloseDaemonEnds
  <2>2. QED
    BY <2>1 DEF DaemonOwnsItsEnds, InBacklog
<1>3. CASE HandleClientMessages \/ Respond
  BY <1>3, DaemonEndsFrame DEF HandleClientMessages, Respond
<1>4. CASE SendStatus
  <2>1. UNCHANGED <<accepted, backlog>>
    BY <1>4 DEF SendStatus
  <2>2. DropClient \/ UNCHANGED <<client, dEnd>>
    BY <1>4 DEF SendStatus
  <2>3. QED
    BY <2>1, <2>2, <1>drop, DaemonEndsFrame DEF DropClient
<1>5. CASE Accept
  <2>1. /\ accepted = NoConn /\ backlog # <<>>
        /\ accepted' = Head(backlog) /\ backlog' = Tail(backlog)
        /\ UNCHANGED <<client, dEnd>>
    BY <1>5 DEF Accept
  <2>2. Head(backlog) \in Conns
    BY <2>1, <1>0, HeadTailProperties
  <2>3. NoneTwice(backlog)
    BY DEF DaemonOwnsItsEnds, NoneTwice
  <2>4. /\ \A d \in Conns : ElementOf(backlog', d)
                             <=> ElementOf(backlog, d) /\ d # accepted'
        /\ ElementOf(backlog, accepted')
        /\ NoneTwice(backlog')
    BY <2>1, <2>3, <1>0, TailElement
  <2>5. QED
    BY <2>1, <2>2, <2>4, <1>0 DEF DaemonOwnsItsEnds, InBacklog, ElementOf, NoneTwice
<1>6. CASE Install
  <2>1. /\ client' = accepted /\ accepted' = NoConn /\ accepted # NoConn
        /\ dEnd' = [c \in Conns |-> dEnd[c] /\ c \notin {client}]
        /\ UNCHANGED backlog
    BY <1>6 DEF Install, CloseDaemonEnds
  <2>2. \A c \in Conns : InBacklog(c)' <=> InBacklog(c)
    BY <2>1 DEF InBacklog
  <2>3. \A c \in Conns : dEnd'[c] <=> dEnd[c] /\ c # client
    BY <2>1
  <2>4. \A c \in Conns : dEnd'[c] <=> (c = client' \/ c = accepted' \/ InBacklog(c)')
    BY <2>1, <1>0, <2>2, <2>3 DEF DaemonOwnsItsEnds
  <2>5. QED
    BY <2>1, <1>0, <2>2, <2>4 DEF DaemonOwnsItsEnds
<1>7. QED
  BY <1>1, <1>2, <1>3, <1>4, <1>5, <1>6 DEF DaemonNext, DaemonSteps

LEMMA BridgeStepKeepsDaemonEnds ==
  ASSUME TypeInv, DaemonOwnsItsEnds, NEW b \in Bridges, NEW listening \in BOOLEAN,
         BridgeNext(b, listening), UNCHANGED daemonVars
  PROVE  DaemonOwnsItsEnds'
<1>0. /\ backlog \in Seq(Conns) /\ dEnd \in [Conns -> BOOLEAN]
      /\ client \in Conns \cup {NoConn} /\ accepted \in Conns \cup {NoConn}
  BY DEF TypeInv, TypeOK, SocketTypeOK, DaemonTypeOK
<1>1. UNCHANGED <<client, accepted>>
  BY DEF daemonVars, threadVars
<1>2. CASE Connect(b, listening)
  <2>1. PICK c \in Conns : Open(c)
    BY <1>2 DEF Connect
  <2>2. /\ backlog' = Append(backlog, c)
        /\ dEnd' = [dEnd EXCEPT ![c] = TRUE] /\ ~dEnd[c]
    BY <2>1 DEF Open, Free
  <2>3. /\ ~ElementOf(backlog, c) /\ NoneTwice(backlog)
        /\ c # client /\ c # accepted
    BY <2>2 DEF DaemonOwnsItsEnds, InBacklog, ElementOf, NoneTwice
  <2>4. /\ \A d \in Conns : ElementOf(backlog', d) <=> ElementOf(backlog, d) \/ d = c
        /\ NoneTwice(backlog')
    BY <2>2, <2>3, <1>0, AppendElement
  <2>5. QED
    BY <2>2, <2>3, <2>4, <1>0, <1>1 DEF DaemonOwnsItsEnds, InBacklog, ElementOf, NoneTwice
<1>3. CASE ~Connect(b, listening)
  <2>1. UNCHANGED <<dEnd, backlog>>
    <3>1. CASE StartBridge(b) \/ DestroyNode(b) \/ BridgeExit(b) \/ Publish(b) \/ KillCall(b)
      BY <3>1 DEF StartBridge, DestroyNode, BridgeExit, Publish, KillCall, socketVars
    <3>2. CASE ServiceSteps(b)
      BY <3>2 DEF ServiceSteps, KillSend, KillRefused, KillReturn, KillTimeout, socketVars
    <3>3. CASE ReaderSteps(b, listening)
      BY <3>3, <1>3 DEF ReaderSteps, ConnectFails, InstallSocket, PickSocket, Receive,
                        ReceiveTimesOut, ReceiveFails, ReceiveGarbled, Disconnect, socketVars
    <3>4. QED
      BY <3>1, <3>2, <3>3 DEF BridgeNext
  <2>2. QED
    BY <2>1, <1>1, DaemonEndsFrame
<1>4. QED
  BY <1>2, <1>3

\* The daemon leaks no socket and closes none twice: every open daemon end is the
\* client, the connection about to be installed or in the backlog, and only one.
THEOREM DaemonEndsOwned == Spec => []DaemonOwnsItsEnds
<1>1. TypeInv /\ DaemonOwnsItsEnds /\ [Next]_vars => DaemonOwnsItsEnds'
  <2> SUFFICES ASSUME TypeInv, DaemonOwnsItsEnds, [Next]_vars PROVE DaemonOwnsItsEnds'
    OBVIOUS
  <2>1. CASE DaemonNext /\ UNCHANGED bridgeVars
    BY <2>1, DaemonStepKeepsItsEnds
  <2>2. CASE \E b \in Bridges : BridgeNext(b, Listening) /\ UNCHANGED daemonVars
    <3>1. Listening \in BOOLEAN
      BY Zenon DEF Listening
    <3>2. QED
      BY <2>2, <3>1, BridgeStepKeepsDaemonEnds
  <2>3. CASE UNCHANGED vars
    BY <2>3, DaemonEndsFrame DEF vars, socketVars, daemonVars, threadVars
  <2>4. QED
    BY <2>1, <2>2, <2>3 DEF Next
<1>2. QED
  BY <1>1, InitDaemonOwnsItsEnds, SpecTypeInv, PTL DEF Spec

-----------------------------------------------------------------------------
\* The snapshots.

Stamps == [start : Nat, cycle : Nat]

\* The statuses of a queue: none is followed by an older one, none is newer than s,
\* none is older than s.
IsStatus(q, i) == i \in DOMAIN q /\ q[i].type = "status"
Rising(q) == \A i, j \in DOMAIN q : i < j /\ IsStatus(q, i) /\ IsStatus(q, j)
                                      => ~Older(q[j].data, q[i].data)
UpTo(q, s) == \A i \in DOMAIN q : IsStatus(q, i) => ~Older(s, q[i].data)
From(q, s) == \A i \in DOMAIN q : IsStatus(q, i) => ~Older(q[i].data, s)

\* p is what is left of q when something was taken from its front.
IsRest(p, q) == \E k \in Nat : \A i \in DOMAIN p : i + k \in DOMAIN q /\ p[i] = q[i + k]

\* What orders the snapshots: those on their way to a bridge lie, in the order in which
\* they were sent, between the one it holds and the one the daemon has, and a
\* connection that is not open at the bridge's end has none.
QueueOrder ==
  /\ \A c \in Conns : Rising(toBridge[c]) /\ UpTo(toBridge[c], Snapshot)
  /\ \A c \in Conns : ~bEnd[c] => toBridge[c] = <<>>
  /\ \A b \in Bridges, c \in Conns : Holds(b, c) => From(toBridge[c], latest[b])
HeldOrder ==
  \A b \in Bridges : ~Older(Snapshot, latest[b]) /\ ~Older(latest[b], published[b])
OrderInv == QueueOrder /\ HeldOrder

LEMMA OlderIsOrder ==
  ASSUME NEW r \in Stamps, NEW s \in Stamps, NEW t \in Stamps
  PROVE  /\ ~Older(s, s)
         /\ ~Older(s, r) /\ ~Older(t, s) => ~Older(t, r)
  BY DEF Older, Stamps

LEMMA StampTypes ==
  ASSUME TypeInv
  PROVE  /\ Snapshot \in Stamps
         /\ NoSnapshot \in Stamps
         /\ \A b \in Bridges : latest[b] \in Stamps /\ published[b] \in Stamps
         /\ \A c \in Conns : toBridge[c] \in Seq(Messages)
<1>1. NoSnapshot \in Stamps
  BY DEF NoSnapshot, Stamps
<1>2. Snapshots \subseteq Stamps
  BY SMT DEF Snapshots, Stamps
<1>3. start \in Nat /\ cycle \in Nat
  BY SMT DEF TypeInv, TypeOK, DaemonTypeOK
<1>4. QED
  BY <1>1, <1>2, <1>3 DEF TypeInv, TypeOK, SocketTypeOK, BridgeTypeOK, Snapshot, Stamps

LEMMA StatusData ==
  ASSUME NEW q \in Seq(Messages), NEW i, IsStatus(q, i)
  PROVE  i \in Nat /\ q[i] \in Statuses /\ q[i].data \in Stamps
<1>1. DOMAIN q = 1 .. Len(q) /\ Len(q) \in Nat
  BY LenProperties
<1>2. i \in 1 .. Len(q)
  BY <1>1 DEF IsStatus
<1>3. q[i] \in Messages
  BY <1>2, ElementOfSeq
<1>4. q[i] \in Statuses
  BY <1>3 DEF Messages, KillResponses, Torn, IsStatus
<1>5. q[i].data \in Stamps
  BY <1>4 DEF Statuses, Snapshots, Stamps
<1>6. QED
  BY <1>2, <1>1, <1>4, <1>5

LEMMA RestKeepsOrder ==
  ASSUME NEW p \in Seq(Messages), NEW q \in Seq(Messages), IsRest(p, q)
  PROVE  /\ Rising(q) => Rising(p)
         /\ \A s : UpTo(q, s) => UpTo(p, s)
         /\ \A s : From(q, s) => From(p, s)
<1>1. PICK k \in Nat : \A i \in DOMAIN p : i + k \in DOMAIN q /\ p[i] = q[i + k]
  BY DEF IsRest
<1>2. \A i \in DOMAIN p : i \in Int
  BY LenProperties
<1>3. \A i, j \in DOMAIN p : i < j => i + k < j + k
  BY <1>2
<1>4. \A i \in DOMAIN p : IsStatus(p, i) => IsStatus(q, i + k)
  BY <1>1 DEF IsStatus
<1>5. QED
  BY <1>1, <1>3, <1>4 DEF Rising, UpTo, From

LEMMA Rests ==
  ASSUME NEW q \in Seq(Messages)
  PROVE  /\ IsRest(q, q) /\ IsRest(<<>>, q)
         /\ q # <<>> => IsRest(Tail(q), q)
         /\ Len(q) > 1 => IsRest(Tail(Tail(q)), q)
<1>0. DOMAIN q = 1 .. Len(q) /\ Len(q) \in Nat /\ DOMAIN <<>> = {}
  BY LenProperties
<1>1. IsRest(q, q)
  <2>1. \A i \in DOMAIN q : i + 0 = i
    BY <1>0
  <2>2. QED
    BY <2>1 DEF IsRest
<1>2. IsRest(<<>>, q)
  BY <1>0 DEF IsRest
<1>3. ASSUME NEW s \in Seq(Messages), s # <<>>
      PROVE  /\ Tail(s) \in Seq(Messages) /\ Len(Tail(s)) = Len(s) - 1
             /\ \A i \in DOMAIN Tail(s) : i + 1 \in DOMAIN s /\ Tail(s)[i] = s[i + 1]
  <2>1. /\ Tail(s) \in Seq(Messages) /\ Len(Tail(s)) = Len(s) - 1
        /\ \A i \in 1 .. Len(Tail(s)) : Tail(s)[i] = s[i + 1]
    BY <1>3, HeadTailProperties
  <2>2. DOMAIN Tail(s) = 1 .. Len(Tail(s)) /\ DOMAIN s = 1 .. Len(s) /\ Len(s) \in Nat
    BY <2>1, LenProperties
  <2>3. QED
    BY <2>1, <2>2
<1>4. q # <<>> => IsRest(Tail(q), q)
  BY <1>3 DEF IsRest
<1>5. ASSUME Len(q) > 1 PROVE IsRest(Tail(Tail(q)), q)
  <2>1. q # <<>> /\ Tail(q) # <<>>
    <3>1. q # <<>>
      BY <1>5, EmptySeq
    <3>2. Len(Tail(q)) = Len(q) - 1
      BY <3>1, HeadTailProperties
    <3>3. Len(Tail(q)) # 0
      BY <3>2, <1>0, <1>5
    <3>4. QED
      BY <3>1, <3>3, EmptySeq
  <2>2. \A i \in DOMAIN Tail(Tail(q)) : /\ i + 1 \in DOMAIN Tail(q)
                                        /\ Tail(Tail(q))[i] = Tail(q)[i + 1]
    BY <2>1, <1>3
  <2>3. \A i \in DOMAIN Tail(q) : i + 1 \in DOMAIN q /\ Tail(q)[i] = q[i + 1]
    BY <2>1, <1>3
  <2>4. \A i \in DOMAIN Tail(Tail(q)) : i + 1 + 1 = i + 2
    <3>1. Tail(Tail(q)) \in Seq(Messages)
      BY <2>1, <1>3
    <3>2. DOMAIN Tail(Tail(q)) \subseteq Nat
      BY <3>1, LenProperties
    <3>3. QED
      BY <3>2
  <2>5. \A i \in DOMAIN Tail(Tail(q)) : /\ i + 2 \in DOMAIN q
                                        /\ Tail(Tail(q))[i] = q[i + 2]
    BY <2>2, <2>3, <2>4
  <2>6. QED
    BY <2>5 DEF IsRest
<1>6. QED
  BY <1>1, <1>2, <1>4, <1>5

LEMMA AppendKeepsOrder ==
  ASSUME NEW q \in Seq(Messages), NEW m \in Messages, NEW s \in Stamps,
         Rising(q), UpTo(q, s), m.type = "status" => m.data = s
  PROVE  /\ Rising(Append(q, m)) /\ UpTo(Append(q, m), s)
         /\ \A t : From(q, t) /\ ~Older(s, t) => From(Append(q, m), t)
<1> DEFINE p == Append(q, m)
<1>1. /\ p \in Seq(Messages) /\ Len(p) = Len(q) + 1
      /\ \A i \in 1 .. Len(q) : p[i] = q[i]
      /\ p[Len(q) + 1] = m
  BY AppendProperties
<1>2. Len(q) \in Nat /\ DOMAIN q = 1 .. Len(q) /\ DOMAIN p = 1 .. Len(q) + 1
  BY <1>1, LenProperties
<1> HIDE DEF p
<1>3. \A i \in DOMAIN p : \/ i \in DOMAIN q /\ p[i] = q[i] /\ i < Len(q) + 1
                          \/ i = Len(q) + 1 /\ p[i] = m
  BY <1>1, <1>2
<1>4. \A i \in DOMAIN p : IsStatus(p, i) =>
         \/ i \in DOMAIN q /\ IsStatus(q, i) /\ p[i] = q[i] /\ i < Len(q) + 1
         \/ i = Len(q) + 1 /\ p[i].data = s
  BY <1>3 DEF IsStatus
<1>5. ~Older(s, s)
  BY OlderIsOrder
<1>6. UpTo(p, s)
  BY <1>4, <1>5 DEF UpTo
<1>7. \A t : From(q, t) /\ ~Older(s, t) => From(p, t)
  BY <1>4 DEF From
<1>8. ASSUME NEW i \in DOMAIN p, NEW j \in DOMAIN p, i < j, IsStatus(p, i), IsStatus(p, j)
      PROVE  ~Older(p[j].data, p[i].data)
  <2>1. i \in Nat /\ j \in Nat
    BY <1>2
  <2>2. CASE j = Len(q) + 1
    <3>1. p[j].data = s
      BY <1>4, <1>8, <2>2, <2>1, <1>2
    <3>2. QED
      BY <3>1, <1>6, <1>8 DEF UpTo
  <2>3. CASE j # Len(q) + 1
    <3>1. j \in DOMAIN q /\ IsStatus(q, j) /\ p[j] = q[j]
      BY <1>4, <1>8, <2>3
    <3>2. i \in DOMAIN q /\ IsStatus(q, i) /\ p[i] = q[i]
      BY <1>4, <1>8, <3>1, <2>1, <1>2
    <3>3. QED
      BY <3>1, <3>2, <1>8 DEF Rising
  <2>4. QED
    BY <2>2, <2>3
<1>9. QED
  BY <1>6, <1>7, <1>8 DEF Rising, p

\* A step that only takes messages from the front of queues, lets go of connections or
\* opens an empty one, and leaves what the bridges that hold connections have.
LEMMA RestKeepsQueueOrder ==
  ASSUME TypeInv, TypeInv', QueueOrder,
         ~Older(Snapshot', Snapshot),
         \A c \in Conns : IsRest(toBridge'[c], toBridge[c]),
         \A c \in Conns : ~bEnd'[c] => toBridge'[c] = <<>>,
         \A b \in Bridges, c \in Conns :
           Holds(b, c)' => \/ Holds(b, c) /\ latest'[b] = latest[b]
                          \/ From(toBridge'[c], latest'[b])
  PROVE  QueueOrder'
<1>1. ASSUME NEW c \in Conns
      PROVE  Rising(toBridge'[c]) /\ UpTo(toBridge'[c], Snapshot')
  <2>1. toBridge[c] \in Seq(Messages) /\ toBridge'[c] \in Seq(Messages)
    BY StampTypes DEF TypeInv, TypeOK, SocketTypeOK
  <2>2. Rising(toBridge'[c]) /\ UpTo(toBridge'[c], Snapshot)
    BY <2>1, RestKeepsOrder DEF QueueOrder
  <2>3. Snapshot \in Stamps /\ Snapshot' \in Stamps
    <3>1. Snapshot \in Stamps
      BY StampTypes
    <3>2. start' \in Nat /\ cycle' \in Nat
      BY SMT DEF TypeInv, TypeOK, DaemonTypeOK
    <3>3. QED
      BY <3>1, <3>2 DEF Snapshot, Stamps
  <2>4. \A i \in DOMAIN toBridge'[c] : IsStatus(toBridge'[c], i)
                                        => toBridge'[c][i].data \in Stamps
    BY <2>1, StatusData
  <2>5. UpTo(toBridge'[c], Snapshot')
    BY <2>2, <2>3, <2>4, OlderIsOrder DEF UpTo
  <2>6. QED
    BY <2>2, <2>5
<1>2. ASSUME NEW b \in Bridges, NEW c \in Conns, Holds(b, c)'
      PROVE  From(toBridge'[c], latest'[b])
  <2>1. toBridge[c] \in Seq(Messages) /\ toBridge'[c] \in Seq(Messages)
    BY StampTypes DEF TypeInv, TypeOK, SocketTypeOK
  <2>2. Holds(b, c) => From(toBridge'[c], latest[b])
    BY <2>1, RestKeepsOrder DEF QueueOrder
  <2>3. QED
    BY <1>2, <2>2
<1>3. QED
  BY <1>1, <1>2 DEF QueueOrder

LEMMA FromEmpty == \A s : From(<<>>, s)
<1>1. DOMAIN <<>> = {}
  OBVIOUS
<1>2. QED
  BY <1>1 DEF From

LEMMA DaemonKeepsOrder ==
  ASSUME TypeInv, TypeInv', OrderInv, DaemonNext, UNCHANGED bridgeVars
  PROVE  OrderInv'
<1>0. /\ start \in Nat /\ cycle \in Nat /\ start' \in Nat /\ cycle' \in Nat
      /\ toBridge \in [Conns -> Seq(Messages)]
      /\ client \in Conns \cup {NoConn}
  BY SMT DEF TypeInv, TypeOK, DaemonTypeOK, SocketTypeOK
<1>1. /\ UNCHANGED <<latest, published, sock, fresh>>
      /\ \A b \in Bridges, c \in Conns : Holds(b, c)' <=> Holds(b, c)
  BY DEF bridgeVars, readerVars, Holds
<1>2. UNCHANGED bEnd
  BY DaemonKeepsBridgeEnds
<1>3. ~Older(Snapshot', Snapshot)
  <2>1. \/ UNCHANGED <<start, cycle>>
        \/ start' = start + 1
        \/ start' = start /\ (cycle' = cycle + 1 \/ cycle' = cycle)
    BY DEF DaemonNext, DaemonSteps, StartDaemon, Crash, Shutdown, Exit, Stop, Collect, Kill,
           AcceptEnds, SendStatus, HandleClientMessages, Respond, Accept, Install
  <2>2. QED
    BY <2>1, <1>0 DEF Older, Snapshot
<1>4. HeldOrder'
  <2>1. Snapshot \in Stamps /\ Snapshot' \in Stamps
    BY <1>0 DEF Snapshot, Stamps
  <2>2. QED
    BY <2>1, <1>1, <1>3, OlderIsOrder, StampTypes DEF OrderInv, HeldOrder
<1>same. ASSUME UNCHANGED toBridge PROVE QueueOrder'
  <2>1. \A c \in Conns : IsRest(toBridge'[c], toBridge[c])
    BY <1>same, <1>0, Rests
  <2>2. QED
    BY <2>1, <1>same, <1>1, <1>2, <1>3, RestKeepsQueueOrder DEF OrderInv, QueueOrder
<1>put. ASSUME NEW m \in Messages, PutToBridge(client, m), client # NoConn, bEnd[client],
               m.type = "status" => m.data = Snapshot, UNCHANGED <<start, cycle>>
        PROVE  QueueOrder'
  <2>1. client \in Conns /\ toBridge[client] \in Seq(Messages) /\ Snapshot \in Stamps
    BY <1>put, <1>0 DEF Snapshot, Stamps
  <2>2. /\ toBridge'[client] = Append(toBridge[client], m)
        /\ \A c \in Conns \ {client} : toBridge'[c] = toBridge[c]
    BY <1>put, <2>1, <1>0 DEF PutToBridge
  <2>3. /\ Rising(toBridge'[client]) /\ UpTo(toBridge'[client], Snapshot)
        /\ \A t : From(toBridge[client], t) /\ ~Older(Snapshot, t)
                   => From(toBridge'[client], t)
    BY <2>1, <2>2, <1>put, AppendKeepsOrder DEF OrderInv, QueueOrder
  <2>4. Snapshot' = Snapshot
    BY <1>put DEF Snapshot
  <2>5. \A c \in Conns : Rising(toBridge'[c]) /\ UpTo(toBridge'[c], Snapshot')
    BY <2>2, <2>3, <2>4 DEF OrderInv, QueueOrder
  <2>6. \A c \in Conns : ~bEnd'[c] => toBridge'[c] = <<>>
    BY <2>2, <1>2, <1>put DEF OrderInv, QueueOrder
  <2>7. \A b \in Bridges, c \in Conns : Holds(b, c)' => From(toBridge'[c], latest'[b])
    BY <2>2, <2>3, <1>1 DEF OrderInv, QueueOrder, HeldOrder
  <2>8. QED
    BY <2>5, <2>6, <2>7 DEF QueueOrder
<1>torn. Torn \in Messages /\ Torn.type # "status"
  BY DEF Messages, Torn
<1>5. CASE SendStatus
  <2>1. UNCHANGED <<start, cycle>>
    BY <1>5 DEF SendStatus
  <2>2. Status(Snapshot) \in Messages
    <3>1. start >= 1
      BY <1>5 DEF TypeInv, ThreadsOK, SendStatus
    <3>2. Snapshot \in Snapshots
      BY SMT, <3>1 DEF TypeInv, TypeOK, DaemonTypeOK, Snapshot, Snapshots
    <3>3. QED
      BY <3>2 DEF Status, Statuses, Messages
  <2>3. Status(Snapshot).data = Snapshot
    BY DEF Status
  <2>4. \/ UNCHANGED toBridge
        \/ /\ client # NoConn /\ bEnd[client]
           /\ PutToBridge(client, Status(Snapshot)) \/ PutToBridge(client, Torn)
    BY <1>5 DEF SendStatus
  <2>5. QueueOrder'
    BY <2>1, <2>2, <2>3, <2>4, <1>same, <1>put, <1>torn
  <2>6. QED
    BY <2>5, <1>4 DEF OrderInv
<1>6. CASE Respond
  <2>1. UNCHANGED <<start, cycle>>
    BY <1>6 DEF Respond
  <2>2. \/ UNCHANGED toBridge
        \/ /\ client # NoConn /\ bEnd[client]
           /\ \/ PutToBridge(client, KillResponse(pending, Succeeded(outcome[pending])))
              \/ PutToBridge(client, Torn)
    BY <1>6 DEF Respond
  <2>3. /\ KillResponse(pending, Succeeded(outcome[pending])) \in Messages
        /\ KillResponse(pending, Succeeded(outcome[pending])).type # "status"
    <3>1. pending \in Requests
      BY <1>6 DEF TypeInv, TypeOK, DaemonTypeOK, ThreadsOK, Respond
    <3>2. QED
      BY <3>1 DEF KillResponse, KillResponses, Messages, Succeeded
  <2>4. QueueOrder'
    BY <2>1, <2>2, <2>3, <1>same, <1>put, <1>torn
  <2>5. QED
    BY <2>4, <1>4 DEF OrderInv
<1>7. CASE ~SendStatus /\ ~Respond
  <2>1. UNCHANGED toBridge
    BY <1>7 DEF DaemonNext, DaemonSteps, StartDaemon, Crash, Shutdown, Exit, Stop, Collect,
                Kill, AcceptEnds, HandleClientMessages, Accept, Install, socketVars
  <2>2. QED
    BY <2>1, <1>same, <1>4 DEF OrderInv
<1>8. QED
  BY <1>5, <1>6, <1>7

\* What a step does to what bridge b has, unless b ends.
NoStepBack(b) == mode'[b] # "down" => /\ ~Older(latest'[b], latest[b])
                                      /\ ~Older(published'[b], published[b])

LEMMA BridgeKeepsOrder ==
  ASSUME TypeInv, TypeInv', BridgeInv, OrderInv, NEW b \in Bridges, NEW listening \in BOOLEAN,
         BridgeNext(b, listening), UNCHANGED daemonVars
  PROVE  OrderInv' /\ \A a \in Bridges : NoStepBack(a)
<1>0. /\ mode \in [Bridges -> {"down", "up", "stopping"}]
      /\ sock \in [Bridges -> Conns \cup {NoConn}]
      /\ fresh \in [Bridges -> Conns \cup {NoConn}]
      /\ latest \in [Bridges -> Snapshots \cup {NoSnapshot}]
      /\ published \in [Bridges -> Snapshots \cup {NoSnapshot}]
      /\ bEnd \in [Conns -> BOOLEAN]
      /\ toBridge \in [Conns -> Seq(Messages)]
  BY DEF TypeInv, TypeOK, SocketTypeOK, BridgeTypeOK
<1>1. Snapshot' = Snapshot /\ Snapshot \in Stamps /\ ~Older(Snapshot', Snapshot)
  <2>1. Snapshot' = Snapshot
    BY DEF daemonVars, threadVars, Snapshot
  <2>2. QED
    BY <2>1, StampTypes, OlderIsOrder
<1>2. \A a \in Bridges : latest[a] \in Stamps /\ published[a] \in Stamps
  BY StampTypes
<1>rests. \A c \in Conns : /\ IsRest(toBridge[c], toBridge[c])
                           /\ IsRest(<<>>, toBridge[c])
                           /\ toBridge[c] # <<>> => IsRest(Tail(toBridge[c]), toBridge[c])
                           /\ Len(toBridge[c]) > 1
                                => IsRest(Tail(Tail(toBridge[c])), toBridge[c])
  BY <1>0, Rests
<1>held. ASSUME UNCHANGED <<latest, published>>
         PROVE  HeldOrder' /\ \A a \in Bridges : NoStepBack(a)
  BY <1>held, <1>1, <1>2, OlderIsOrder DEF OrderInv, HeldOrder, NoStepBack
\* Connections are closed, and what was on its way in them is gone.
<1>close. ASSUME NEW S, CloseBridgeEnds(S), UNCHANGED latest,
                 \A a \in Bridges, c \in Conns : Holds(a, c)' => Holds(a, c)
          PROVE  QueueOrder'
  <2>1. \A c \in Conns : /\ bEnd'[c] <=> bEnd[c] /\ c \notin S
                         /\ toBridge'[c] = IF c \in S THEN <<>> ELSE toBridge[c]
    BY <1>close DEF CloseBridgeEnds
  <2>2. \A c \in Conns : ~bEnd'[c] => toBridge'[c] = <<>>
    BY <2>1 DEF OrderInv, QueueOrder
  <2>3. \A c \in Conns : IsRest(toBridge'[c], toBridge[c])
    BY <2>1, <1>rests
  <2>4. QED
    BY <2>2, <2>3, <1>close, <1>1, RestKeepsQueueOrder DEF OrderInv
\* Messages are taken from the front of one open connection.
<1>take. ASSUME NEW d \in Conns, bEnd[d], UNCHANGED <<bEnd, sock, fresh, latest>>,
                NEW p, IsRest(p, toBridge[d]), toBridge' = [toBridge EXCEPT ![d] = p]
         PROVE  QueueOrder'
  <2>1. /\ toBridge'[d] = p
        /\ \A c \in Conns \ {d} : toBridge'[c] = toBridge[c]
    BY <1>take, <1>0
  <2>2. \A c \in Conns : IsRest(toBridge'[c], toBridge[c])
    BY <2>1, <1>take, <1>rests
  <2>3. \A c \in Conns : ~bEnd'[c] => toBridge'[c] = <<>>
    BY <2>1, <1>take DEF OrderInv, QueueOrder
  <2>4. \A a \in Bridges, c \in Conns : Holds(a, c)' => Holds(a, c)
    BY <1>take DEF Holds
  <2>5. QED
    BY <2>2, <2>3, <2>4, <1>take, <1>1, RestKeepsQueueOrder DEF OrderInv
<1>same. ASSUME UNCHANGED <<toBridge, bEnd, latest>>,
                \A a \in Bridges, c \in Conns : Holds(a, c)' => Holds(a, c)
         PROVE  QueueOrder'
  BY <1>same, <1>rests, <1>1, RestKeepsQueueOrder DEF OrderInv, QueueOrder
<1>open. ASSUME rpc[b] = "read", rsock[b] = sock[b]
         PROVE  rsock[b] \in Conns /\ bEnd[rsock[b]] /\ Holds(b, rsock[b]) /\ fresh[b] = NoConn
  <2>1. rsock[b] \in Conns
    BY <1>open, <1>0 DEF TypeInv, ThreadsOK
  <2>2. QED
    BY <2>1, <1>open DEF BridgeInv, BridgeOwnsItsEnds, BridgeThreads, Holds
<1>3. CASE StartBridge(b) \/ ConnectFails(b, listening) \/ PickSocket(b) \/ KillCall(b)
           \/ ServiceSteps(b)
  <2>1. UNCHANGED <<toBridge, bEnd, latest, published, sock, fresh>>
    BY <1>3 DEF StartBridge, ConnectFails, PickSocket, KillCall, ServiceSteps, KillSend,
                KillRefused, KillReturn, KillTimeout, socketVars, bridgeVars, readerVars
  <2>2. QED
    BY <2>1, <1>same, <1>held DEF OrderInv, Holds
<1>4. CASE Publish(b)
  <2>1. /\ UNCHANGED <<toBridge, bEnd, latest, sock, fresh>>
        /\ published' = [published EXCEPT ![b] = latest[b]]
    BY <1>4 DEF Publish, socketVars, readerVars
  <2>2. \A a \in Bridges : published'[a] = published[a] \/ published'[a] = latest[a]
    BY <2>1, <1>0
  <2>3. HeldOrder' /\ \A a \in Bridges : NoStepBack(a)
    BY <2>1, <2>2, <1>1, <1>2, OlderIsOrder DEF OrderInv, HeldOrder, NoStepBack
  <2>4. QED
    BY <2>1, <2>3, <1>same DEF OrderInv, Holds
<1>5. CASE DestroyNode(b)
  <2>1. /\ CloseBridgeEnds({sock[b]}) /\ sock' = [sock EXCEPT ![b] = NoConn]
        /\ UNCHANGED <<fresh, latest, published>>
    BY <1>5 DEF DestroyNode
  <2>2. \A a \in Bridges, c \in Conns : Holds(a, c)' => Holds(a, c)
    BY <2>1, <1>0 DEF Holds
  <2>3. QED
    BY <2>1, <2>2, <1>close, <1>held DEF OrderInv
<1>6. CASE Disconnect(b)
  <2>1. UNCHANGED <<fresh, latest, published>>
    BY <1>6 DEF Disconnect
  <2>2. CASE sock[b] = rsock[b]
    <3>1. CloseBridgeEnds({sock[b]}) /\ sock' = [sock EXCEPT ![b] = NoConn]
      BY <1>6, <2>2 DEF Disconnect, DropSocket
    <3>2. \A a \in Bridges, c \in Conns : Holds(a, c)' => Holds(a, c)
      BY <2>1, <3>1, <1>0 DEF Holds
    <3>3. QED
      BY <2>1, <3>1, <3>2, <1>close, <1>held DEF OrderInv
  <2>3. CASE sock[b] # rsock[b]
    <3>1. UNCHANGED <<bEnd, toBridge, sock>>
      BY <1>6, <2>3 DEF Disconnect
    <3>2. QED
      BY <2>1, <3>1, <1>same, <1>held DEF OrderInv, Holds
  <2>4. QED
    BY <2>2, <2>3
<1>7. CASE InstallSocket(b)
  <2>1. /\ CloseBridgeEnds({sock[b]})
        /\ sock' = [sock EXCEPT ![b] = fresh[b]] /\ fresh' = [fresh EXCEPT ![b] = NoConn]
        /\ UNCHANGED <<latest, published>>
    BY <1>7 DEF InstallSocket
  <2>2. \A a \in Bridges, c \in Conns : Holds(a, c)' => Holds(a, c)
    BY <2>1, <1>0 DEF Holds
  <2>3. QED
    BY <2>1, <2>2, <1>close, <1>held DEF OrderInv
<1>8. CASE Connect(b, listening)
  <2>1. PICK c \in Conns : Open(c) /\ fresh' = [fresh EXCEPT ![b] = c]
    BY <1>8 DEF Connect
  <2>2. /\ ~bEnd[c] /\ bEnd' = [bEnd EXCEPT ![c] = TRUE]
        /\ UNCHANGED <<toBridge, sock, latest, published>>
    BY <1>8, <2>1 DEF Connect, Open, Free
  <2>3. toBridge'[c] = <<>>
    BY <2>2 DEF OrderInv, QueueOrder
  <2>4. \A a \in Bridges, d \in Conns : Holds(a, d)' => Holds(a, d) \/ d = c
    BY <2>1, <2>2, <1>0 DEF Holds
  <2>5. \A a \in Bridges, d \in Conns :
          Holds(a, d)' => \/ Holds(a, d) /\ latest'[a] = latest[a]
                         \/ From(toBridge'[d], latest'[a])
    BY <2>2, <2>3, <2>4, FromEmpty
  <2>6. \A d \in Conns : ~bEnd'[d] => toBridge'[d] = <<>>
    BY <2>2, <1>0 DEF OrderInv, QueueOrder
  <2>7. QueueOrder'
    BY <2>2, <2>5, <2>6, <1>rests, <1>1, RestKeepsQueueOrder DEF OrderInv
  <2>8. QED
    BY <2>2, <2>7, <1>held DEF OrderInv
<1>9. CASE ReceiveTimesOut(b)
  <2>1. /\ rpc[b] = "read" /\ rsock[b] = sock[b]
        /\ toBridge' = [toBridge EXCEPT ![rsock[b]] = <<>>]
        /\ UNCHANGED <<bEnd, sock, fresh, latest, published>>
    BY <1>9 DEF ReceiveTimesOut, ReadsOpen
  <2>2. QED
    BY <2>1, <1>open, <1>take, <1>rests, <1>held DEF OrderInv
<1>10. CASE ReceiveFails(b) \/ ReceiveGarbled(b)
  <2>1. UNCHANGED <<bEnd, sock, fresh, latest, published>>
    BY <1>10 DEF ReceiveFails, ReceiveGarbled, ReadsOpen
  <2>2. \/ UNCHANGED toBridge
        \/ /\ rpc[b] = "read" /\ rsock[b] = sock[b]
           /\ \/ toBridge' = [toBridge EXCEPT ![rsock[b]] = <<>>]
              \/ /\ Len(toBridge[rsock[b]]) > 1
                 /\ toBridge' = [toBridge EXCEPT ![rsock[b]] = Tail(Tail(toBridge[rsock[b]]))]
    BY <1>10 DEF ReceiveFails, ReceiveGarbled, ReadsOpen
  <2>3. QueueOrder'
    BY <2>1, <2>2, <1>same, <1>open, <1>take, <1>rests DEF Holds
  <2>4. QED
    BY <2>1, <2>3, <1>held DEF OrderInv
<1>11. CASE Receive(b)
  <2> DEFINE d == rsock[b]
             q == toBridge[d]
  <2>1. /\ rpc[b] = "read" /\ d = sock[b] /\ q # <<>>
        /\ toBridge' = [toBridge EXCEPT ![d] = Tail(q)]
        /\ UNCHANGED <<bEnd, sock, fresh, published, mode>>
        /\ \/ UNCHANGED latest
           \/ /\ Head(q).type = "status"
              /\ latest' = [latest EXCEPT ![b] = Head(q).data]
    BY <1>11 DEF Receive, ReadsOpen, DataOf
  <2>2. d \in Conns /\ bEnd[d] /\ Holds(b, d) /\ fresh[b] = NoConn
    BY <2>1, <1>open
  <2> HIDE DEF d
  <2>3. IsRest(Tail(q), q)
    BY <2>1, <2>2, <1>rests
  <2>4. CASE UNCHANGED latest
    BY <2>1, <2>2, <2>3, <2>4, <1>take, <1>held DEF OrderInv
  <2>5. CASE /\ Head(q).type = "status"
             /\ latest' = [latest EXCEPT ![b] = Head(q).data]
    <3>1. q \in Seq(Messages)
      BY <2>2, <1>0
    <3> HIDE DEF q
    <3>2. 1 \in DOMAIN q /\ Head(q) = q[1] /\ IsStatus(q, 1)
      <4>1. Len(q) \in Nat \ {0} /\ DOMAIN q = 1 .. Len(q)
        BY <2>1, <3>1, LenProperties, EmptySeq
      <4>2. Head(q) = q[1]
        BY <2>1, <3>1, HeadTailProperties
      <4>3. QED
        BY <4>1, <4>2, <2>5 DEF IsStatus
    <3>3. Rising(q) /\ UpTo(q, Snapshot) /\ From(q, latest[b])
      BY <2>2 DEF OrderInv, QueueOrder, q
    <3>4. Head(q).data \in Stamps /\ ~Older(Snapshot, Head(q).data)
          /\ ~Older(Head(q).data, latest[b])
      BY <3>1, <3>2, <3>3, StatusData DEF UpTo, From
    <3>5. From(Tail(q), Head(q).data)
      <4>1. /\ Tail(q) \in Seq(Messages) /\ Len(Tail(q)) = Len(q) - 1
            /\ \A i \in 1 .. Len(Tail(q)) : Tail(q)[i] = q[i + 1]
        BY <2>1, <3>1, HeadTailProperties
      <4>2. /\ DOMAIN Tail(q) = 1 .. Len(Tail(q)) /\ DOMAIN q = 1 .. Len(q)
            /\ Len(q) \in Nat
        BY <4>1, <3>1, LenProperties
      <4>3. \A i \in DOMAIN Tail(q) : i + 1 \in DOMAIN q /\ 1 < i + 1 /\ Tail(q)[i] = q[i + 1]
        BY <4>1, <4>2
      <4>4. QED
        BY <4>3, <3>2, <3>3 DEF From, Rising, IsStatus
    <3>6. /\ latest'[b] = Head(q).data
          /\ \A a \in Bridges \ {b} : latest'[a] = latest[a]
          /\ toBridge'[d] = Tail(q)
          /\ \A c \in Conns \ {d} : toBridge'[c] = toBridge[c]
      BY <2>1, <2>2, <2>5, <1>0 DEF q
    <3>7. HeldOrder' /\ \A a \in Bridges : NoStepBack(a)
      <4>1. \A a \in Bridges : /\ latest'[a] \in Stamps
                               /\ ~Older(Snapshot, latest'[a])
                               /\ ~Older(latest'[a], latest[a])
        BY <3>4, <3>6, <1>2, OlderIsOrder DEF OrderInv, HeldOrder
      <4>2. QED
        BY <4>1, <2>1, <1>1, <1>2, OlderIsOrder DEF OrderInv, HeldOrder, NoStepBack
    <3>8. \A a \in Bridges, c \in Conns :
            Holds(a, c)' => \/ Holds(a, c) /\ latest'[a] = latest[a]
                           \/ From(toBridge'[c], latest'[a])
      <4>1. \A a \in Bridges, c \in Conns : Holds(a, c)' <=> Holds(a, c)
        BY <2>1 DEF Holds
      <4>2. \A c \in Conns : Holds(b, c) => c = d
        BY <2>1, <2>2 DEF Holds
      <4>3. QED
        BY <4>1, <4>2, <3>5, <3>6
    <3>9. QueueOrder'
      <4>1. \A c \in Conns : IsRest(toBridge'[c], toBridge[c])
        BY <3>6, <2>2, <2>3, <1>rests DEF q
      <4>2. \A c \in Conns : ~bEnd'[c] => toBridge'[c] = <<>>
        BY <3>6, <2>1, <2>2 DEF OrderInv, QueueOrder
      <4>3. QED
        BY <4>1, <4>2, <3>8, <1>1, RestKeepsQueueOrder DEF OrderInv
    <3>10. QED
      BY <3>7, <3>9 DEF OrderInv
  <2>6. QED
    BY <2>1, <2>4, <2>5
<1>12. CASE BridgeExit(b)
  <2>1. /\ CloseBridgeEnds({sock[b], fresh[b]})
        /\ sock' = [sock EXCEPT ![b] = NoConn] /\ fresh' = [fresh EXCEPT ![b] = NoConn]
        /\ latest' = [latest EXCEPT ![b] = NoSnapshot]
        /\ published' = [published EXCEPT ![b] = NoSnapshot]
        /\ mode' = [mode EXCEPT ![b] = "down"]
    BY <1>12 DEF BridgeExit
  <2>2. \A a \in Bridges, c \in Conns : Holds(a, c)' => Holds(a, c) /\ latest'[a] = latest[a]
    BY <2>1, <1>0 DEF Holds
  <2>3. \A c \in Conns : /\ bEnd'[c] => bEnd[c]
                         /\ ~bEnd'[c] => toBridge'[c] = <<>>
                         /\ toBridge'[c] = <<>> \/ toBridge'[c] = toBridge[c]
    BY <2>1 DEF CloseBridgeEnds, OrderInv, QueueOrder
  <2>4. QueueOrder'
    BY <2>2, <2>3, <1>rests, <1>1, RestKeepsQueueOrder DEF OrderInv
  <2>5. ~Older(Snapshot, NoSnapshot) /\ ~Older(NoSnapshot, NoSnapshot)
    BY <1>1 DEF Older, NoSnapshot, Stamps
  <2>6. \A a \in Bridges : \/ latest'[a] = latest[a] /\ published'[a] = published[a]
                           \/ /\ latest'[a] = NoSnapshot /\ published'[a] = NoSnapshot
                              /\ mode'[a] = "down"
    BY <2>1, <1>0
  <2>7. HeldOrder' /\ \A a \in Bridges : NoStepBack(a)
    BY <2>5, <2>6, <1>1, <1>2, OlderIsOrder DEF OrderInv, HeldOrder, NoStepBack
  <2>8. QED
    BY <2>4, <2>7 DEF OrderInv
<1>13. QED
  BY <1>3, <1>4, <1>5, <1>6, <1>7, <1>8, <1>9, <1>10, <1>11, <1>12
     DEF BridgeNext, ReaderSteps

LEMMA InitOrderInv == Init => OrderInv
<1> SUFFICES ASSUME Init PROVE OrderInv
  OBVIOUS
<1>1. DOMAIN <<>> = {}
  OBVIOUS
<1>2. \A c \in Conns : toBridge[c] = <<>>
  BY DEF Init, SocketInit
<1>3. QueueOrder
  BY <1>1, <1>2 DEF QueueOrder, Rising, UpTo, From
<1>4. HeldOrder
  BY DEF Init, DaemonInit, BridgeInit, HeldOrder, Older, Snapshot, NoSnapshot
<1>5. QED
  BY <1>3, <1>4 DEF OrderInv

LEMMA StepKeepsOrder ==
  ASSUME TypeInv, TypeInv', BridgeInv, OrderInv, [Next]_vars
  PROVE  OrderInv' /\ \A a \in Bridges : NoStepBack(a)
<1>1. ASSUME UNCHANGED bridgeVars PROVE \A a \in Bridges : NoStepBack(a)
  <2>1. UNCHANGED <<latest, published>>
    BY <1>1 DEF bridgeVars, readerVars
  <2>2. QED
    BY <2>1, StampTypes, OlderIsOrder DEF NoStepBack
<1>2. CASE DaemonNext /\ UNCHANGED bridgeVars
  BY <1>1, <1>2, DaemonKeepsOrder
<1>3. CASE \E b \in Bridges : BridgeNext(b, Listening) /\ UNCHANGED daemonVars
  <2>1. Listening \in BOOLEAN
    BY Zenon DEF Listening
  <2>2. QED
    BY <1>3, <2>1, BridgeKeepsOrder
<1>4. CASE UNCHANGED vars
  <2>1. UNCHANGED <<bridgeVars, toBridge, bEnd, start, cycle, latest, published, sock, fresh>>
    BY <1>4 DEF vars, socketVars, daemonVars, threadVars, bridgeVars, readerVars
  <2>2. OrderInv'
    BY <2>1 DEF OrderInv, QueueOrder, HeldOrder, Holds, Snapshot
  <2>3. QED
    BY <2>1, <2>2, <1>1
<1>5. QED
  BY <1>2, <1>3, <1>4 DEF Next

\* In every instance, across any number of restarts of the daemon and reconnects of any
\* number of bridges, no bridge that lives on replaces its snapshot, or the one it
\* published, by an older one.
THEOREM NeverBack == Spec => SnapshotsNeverGoBack
<1>1. TypeInv /\ TypeInv' /\ BridgeInv /\ OrderInv /\ [Next]_vars => OrderInv'
  BY StepKeepsOrder
<1>2. TypeInv /\ TypeInv' /\ BridgeInv /\ OrderInv /\ [Next]_vars
        => [\A b \in Bridges : mode'[b] # "down" =>
              ~Older(latest'[b], latest[b]) /\ ~Older(published'[b], published[b])]_vars
  BY StepKeepsOrder DEF NoStepBack
<1>3. QED
  BY <1>1, <1>2, InitOrderInv, SpecTypeInv, SpecBridgeInv, PTL DEF Spec, SnapshotsNeverGoBack

-----------------------------------------------------------------------------
\* Where a request can be that has yet to reach psutil: in a socket, in the hand of
\* the daemon's main thread, or with the kill service that is about to send it.
Queued(r)    == \E c \in Conns : ElementOf(toDaemon[c], r)
InHand(r)    == dpc = "kill" /\ pending = r
Asking(b, r) == kpc[b] = "send" /\ req[b] = r
Pending(r)   == Queued(r) \/ InHand(r) \/ \E b \in Bridges : Asking(b, r)

\* It is in one socket only, and there once.
QueuedOnce ==
  /\ \A c \in Conns : NoneTwice(toDaemon[c])
  /\ \A r \in Requests : \A c, d \in Conns :
       ElementOf(toDaemon[c], r) /\ ElementOf(toDaemon[d], r) => c = d

\* It is in one of the three places only.
OnePlace ==
  \A r \in Requests :
    /\ ~(Queued(r) /\ InHand(r))
    /\ \A b \in Bridges : Asking(b, r) => ~Queued(r) /\ ~InHand(r)

\* It is handled by one bridge only.
OneBridge == \A r \in Requests : \A a, b \in Bridges : req[a] = r /\ req[b] = r => a = b

\* psutil has not seen it, and nobody was told that it never will.
PendingIsOpen ==
  \A r \in Requests : Pending(r) => outcome[r] = "none" /\ reply[r].by # "refused"

\* Somebody called for whatever is under way or done.
OnlyIssued ==
  \A r \in Requests :
    (Pending(r) \/ outcome[r] # "none" \/ reply[r].by = "refused"
       \/ \E b \in Bridges : req[b] = r) => r \in issued

RequestInv == QueuedOnce /\ OnePlace /\ OneBridge /\ PendingIsOpen /\ OnlyIssued
                /\ RefusedIsNeverSignalled

requestVars == <<toDaemon, dpc, pending, kpc, req, outcome, reply, issued>>

-----------------------------------------------------------------------------
LEMMA EmptyHasNoElement == \A r : ~ElementOf(<<>>, r)
BY DEF ElementOf

\* A step in which no request gets anywhere: queues are kept or lost, calls end.
LEMMA NoneAdvances ==
  ASSUME RequestInv, issued' = issued, outcome' = outcome,
         \A c \in Conns : toDaemon'[c] \in {toDaemon[c], <<>>},
         \A r \in Requests : InHand(r)' => InHand(r),
         \A b \in Bridges, r \in Requests : Asking(b, r)' => Asking(b, r),
         \A b \in Bridges : req'[b] \in {req[b], NoReq},
         \A r \in Requests : reply'[r].by = "refused"
           => reply[r].by = "refused" \/ (Pending(r) /\ ~Pending(r)')
  PROVE  RequestInv'
<1>0. NoneTwice(<<>>) /\ \A r : ~ElementOf(<<>>, r)
  BY EmptyHasNoElement DEF NoneTwice
<1>1. \A c \in Conns, r \in Requests : ElementOf(toDaemon'[c], r) => ElementOf(toDaemon[c], r)
  BY <1>0
<1>2. \A r \in Requests : Queued(r)' => Queued(r)
  BY <1>1 DEF Queued
<1>3. \A r \in Requests : Pending(r)' => Pending(r)
  BY <1>2 DEF Pending
<1>4. QueuedOnce'
  BY <1>0, <1>1 DEF RequestInv, QueuedOnce
<1>5. OnePlace'
  BY <1>2 DEF RequestInv, OnePlace
<1>6. OneBridge'
  BY ConnsAssumption, RequestsAssumption DEF RequestInv, OneBridge
<1>7. PendingIsOpen'
  BY <1>3 DEF RequestInv, PendingIsOpen
<1>8. OnlyIssued'
  BY ConnsAssumption, RequestsAssumption, <1>3 DEF RequestInv, OnlyIssued
<1>9. RefusedIsNeverSignalled'
  BY DEF RequestInv, PendingIsOpen, RefusedIsNeverSignalled
<1>10. QED
  BY <1>4, <1>5, <1>6, <1>7, <1>8, <1>9 DEF RequestInv

\* A step that touches no request.
LEMMA RequestInvFrame == RequestInv /\ UNCHANGED requestVars => RequestInv'
<1> SUFFICES ASSUME RequestInv, UNCHANGED requestVars PROVE RequestInv'
  OBVIOUS
<1>1. \A r \in Requests : (InHand(r)' => InHand(r))
  BY DEF InHand, requestVars
<1>2. \A b \in Bridges, r \in Requests : Asking(b, r)' => Asking(b, r)
  BY DEF Asking, requestVars
<1>3. QED
  BY <1>1, <1>2, NoneAdvances DEF requestVars

-----------------------------------------------------------------------------
\* The daemon.

\* The main thread takes a request out of the socket of its client.
LEMMA ReadKeepsRequestInv ==
  ASSUME TypeInv, RequestInv, dpc = "recv", dpc' = "kill",
         client \in Conns, toDaemon[client] # <<>>, ReadRequest(client),
         UNCHANGED <<kpc, req, outcome, reply, issued>>
  PROVE  RequestInv'
<1>0. toDaemon \in [Conns -> Seq(Requests)]
  BY DEF TypeInv, TypeOK, SocketTypeOK
<1>1. PICK p \in Requests : p = Head(toDaemon[client])
  BY <1>0, HeadTailProperties
<1>2. /\ pending' = p
      /\ toDaemon'[client] = Tail(toDaemon[client])
      /\ \A c \in Conns \ {client} : toDaemon'[c] = toDaemon[c]
  BY <1>0, <1>1 DEF ReadRequest
<1>3. NoneTwice(toDaemon[client])
  BY DEF RequestInv, QueuedOnce
<1>4. /\ \A r \in Requests : ElementOf(toDaemon'[client], r)
                             <=> ElementOf(toDaemon[client], r) /\ r # p
      /\ ElementOf(toDaemon[client], p)
      /\ NoneTwice(toDaemon'[client])
  BY <1>0, <1>1, <1>2, <1>3, TailElement
<1>5. \A c \in Conns, r \in Requests : ElementOf(toDaemon'[c], r) => ElementOf(toDaemon[c], r)
  BY <1>2, <1>4
<1>6. QueuedOnce'
  BY <1>2, <1>4, <1>5 DEF RequestInv, QueuedOnce
<1>7. \A r \in Requests : (Queued(r)' => Queued(r)) /\ (InHand(r)' <=> r = p)
  BY <1>2, <1>5 DEF Queued, InHand
<1>8. Queued(p) /\ ~Queued(p)'
  BY <1>2, <1>4 DEF Queued, RequestInv, QueuedOnce
<1>9. \A b \in Bridges, r \in Requests : Asking(b, r)' <=> Asking(b, r)
  BY DEF Asking
<1>10. \A r \in Requests : Pending(r)' => Pending(r)
  BY <1>7, <1>8, <1>9 DEF Pending
<1>11. OnePlace'
  BY <1>7, <1>8, <1>9 DEF RequestInv, OnePlace
<1>12. OneBridge' /\ PendingIsOpen' /\ OnlyIssued' /\ RefusedIsNeverSignalled'
  BY <1>10 DEF RequestInv, OneBridge, PendingIsOpen, OnlyIssued, RefusedIsNeverSignalled
<1>13. QED
  BY <1>6, <1>11, <1>12 DEF RequestInv

\* psutil answers for the request in hand: only that one has a new outcome.
LEMMA KillKeepsRequestInv ==
  ASSUME TypeInv, RequestInv, Kill, UNCHANGED bridgeVars
  PROVE  RequestInv'
<1>0. /\ pending \in Requests /\ outcome \in [Requests -> Outcomes]
      /\ dpc = "kill" /\ dpc' = "respond"
  BY DEF Kill, TypeInv, TypeOK, ThreadsOK, DaemonTypeOK
<1>1. /\ UNCHANGED <<toDaemon, pending, kpc, req, reply, issued>>
      /\ \A r \in Requests \ {pending} : outcome'[r] = outcome[r]
  BY <1>0 DEF Kill, socketVars, bridgeVars, serviceVars
<1>2. \A r \in Requests : (Queued(r)' <=> Queued(r)) /\ ~InHand(r)'
  BY <1>0, <1>1 DEF Queued, InHand
<1>3. \A b \in Bridges, r \in Requests : Asking(b, r)' <=> Asking(b, r)
  BY <1>1 DEF Asking
<1>4. InHand(pending)
  BY <1>0 DEF InHand
<1>5. Pending(pending) /\ ~Pending(pending)'
  BY <1>0, <1>1, <1>2, <1>3, <1>4 DEF Pending, RequestInv, OnePlace
<1>6. \A r \in Requests : Pending(r)' => Pending(r) /\ r # pending
  BY <1>1, <1>2, <1>3, <1>5 DEF Pending
<1>7. QueuedOnce' /\ OneBridge'
  BY <1>1 DEF RequestInv, QueuedOnce, OneBridge
<1>8. OnePlace'
  BY <1>2, <1>3 DEF RequestInv, OnePlace
<1>9. PendingIsOpen'
  BY <1>1, <1>6 DEF RequestInv, PendingIsOpen
<1>10. OnlyIssued'
  BY <1>0, <1>1, <1>5, <1>6 DEF RequestInv, OnlyIssued
<1>11. RefusedIsNeverSignalled'
  BY <1>0, <1>1, <1>5 DEF RequestInv, PendingIsOpen, RefusedIsNeverSignalled
<1>12. QED
  BY <1>7, <1>8, <1>9, <1>10, <1>11 DEF RequestInv

LEMMA DaemonKeepsRequestInv ==
  ASSUME TypeInv, RequestInv, DaemonNext, UNCHANGED bridgeVars
  PROVE  RequestInv'
<1>0. UNCHANGED <<kpc, req, reply, issued>>
  BY DEF bridgeVars, serviceVars
<1>asking. \A b \in Bridges, r \in Requests : Asking(b, r)' => Asking(b, r)
  BY <1>0 DEF Asking
<1>lost. ASSUME outcome' = outcome,
                \A c \in Conns : toDaemon'[c] \in {toDaemon[c], <<>>},
                dpc' # "kill" \/ UNCHANGED <<dpc, pending>>
         PROVE  RequestInv'
  <2>1. \A r \in Requests : InHand(r)' => InHand(r)
    BY <1>lost DEF InHand
  <2>2. QED
    BY <1>0, <1>asking, <1>lost, <2>1, NoneAdvances
<1>1. CASE StartDaemon \/ Stop \/ Collect \/ AcceptEnds
  BY <1>1, <1>lost DEF StartDaemon, Stop, Collect, AcceptEnds, socketVars
<1>2. CASE Crash \/ Shutdown
  BY <1>2, <1>lost DEF Crash, Shutdown, Exit, CloseDaemonEnds
<1>3. CASE SendStatus
  <2>1. \A c \in Conns : toDaemon'[c] \in {toDaemon[c], <<>>}
    BY <1>3 DEF SendStatus, DropClient, CloseDaemonEnds
  <2>2. outcome' = outcome /\ dpc' # "kill"
    BY <1>3 DEF SendStatus
  <2>3. QED
    BY <2>1, <2>2, <1>lost
<1>4. CASE HandleClientMessages
  <2>1. outcome' = outcome /\ dpc = "recv"
    BY <1>4 DEF HandleClientMessages
  <2>2. CASE dpc' = "collect"
    BY <1>4, <2>1, <2>2, <1>lost DEF HandleClientMessages
  <2>3. CASE dpc' # "collect"
    <3>1. client \in Conns
      BY <1>4, <2>3 DEF HandleClientMessages, TypeInv, TypeOK, DaemonTypeOK
    <3>2. dpc' = "kill" /\ toDaemon[client] # <<>> /\ ReadRequest(client)
      BY <1>4, <2>3 DEF HandleClientMessages
    <3>3. QED
      BY <2>1, <3>1, <3>2, <1>0, ReadKeepsRequestInv
  <2>4. QED
    BY <2>2, <2>3
<1>5. CASE Kill
  BY <1>5, KillKeepsRequestInv
<1>6. CASE Respond
  BY <1>6, <1>lost DEF Respond
<1>7. CASE Accept
  BY <1>7, <1>lost DEF Accept
<1>8. CASE Install
  BY <1>8, <1>lost DEF Install, CloseDaemonEnds
<1>9. QED
  BY <1>1, <1>2, <1>3, <1>4, <1>5, <1>6, <1>7, <1>8 DEF DaemonNext, DaemonSteps

-----------------------------------------------------------------------------
\* The bridges.

\* A client calls: the request is a new one.
LEMMA CallKeepsRequestInv ==
  ASSUME TypeInv, RequestInv, NEW b \in Bridges, KillCall(b), UNCHANGED daemonVars
  PROVE  RequestInv'
<1>0. /\ req \in [Bridges -> Requests \cup {NoReq}]
      /\ kpc \in [Bridges -> {"idle", "send", "wait"}]
  BY DEF TypeInv, TypeOK, BridgeTypeOK
<1>1. PICK r \in Requests \ issued :
        issued' = issued \cup {r} /\ req' = [req EXCEPT ![b] = r]
  BY DEF KillCall
<1>2. /\ kpc[b] = "idle" /\ kpc' = [kpc EXCEPT ![b] = "send"]
      /\ UNCHANGED <<toDaemon, dpc, pending, outcome, reply>>
  BY DEF KillCall, socketVars, daemonVars, threadVars
<1>3. /\ ~Pending(r) /\ outcome[r] = "none" /\ reply[r].by # "refused"
      /\ \A a \in Bridges : req[a] # r
  BY <1>1 DEF RequestInv, OnlyIssued
<1>4. \A q \in Requests : (Queued(q)' <=> Queued(q)) /\ (InHand(q)' <=> InHand(q))
  BY <1>2 DEF Queued, InHand
<1>5. \A a \in Bridges, q \in Requests : Asking(a, q)' => Asking(a, q) \/ q = r
  BY <1>0, <1>1, <1>2 DEF Asking
<1>6. \A q \in Requests : Pending(q)' => Pending(q) \/ q = r
  BY <1>4, <1>5 DEF Pending
<1>7. QueuedOnce' /\ RefusedIsNeverSignalled'
  BY <1>2 DEF RequestInv, QueuedOnce, RefusedIsNeverSignalled
<1>8. OnePlace'
  BY <1>3, <1>4, <1>5 DEF RequestInv, OnePlace, Pending
<1>9. OneBridge'
  BY <1>0, <1>1, <1>3 DEF RequestInv, OneBridge
<1>10. PendingIsOpen'
  BY <1>2, <1>3, <1>6 DEF RequestInv, PendingIsOpen
<1>11. OnlyIssued'
  BY <1>0, <1>1, <1>2, <1>6 DEF RequestInv, OnlyIssued
<1>12. QED
  BY <1>7, <1>8, <1>9, <1>10, <1>11 DEF RequestInv

\* The service sends its request: from its hand into the socket.
LEMMA SendKeepsRequestInv ==
  ASSUME TypeInv, RequestInv, NEW b \in Bridges, KillSend(b), UNCHANGED daemonVars
  PROVE  RequestInv'
<1>0. /\ toDaemon \in [Conns -> Seq(Requests)]
      /\ kpc \in [Bridges -> {"idle", "send", "wait"}]
      /\ sock[b] \in Conns
  BY DEF KillSend, CanSend, TypeInv, TypeOK, SocketTypeOK, BridgeTypeOK
<1>1. PICK r \in Requests : r = req[b]
  BY DEF KillSend, TypeInv, TypeOK, ThreadsOK, BridgeTypeOK
<1>2. /\ kpc[b] = "send" /\ kpc' = [kpc EXCEPT ![b] = "wait"]
      /\ toDaemon'[sock[b]] = Append(toDaemon[sock[b]], r)
      /\ \A c \in Conns \ {sock[b]} : toDaemon'[c] = toDaemon[c]
      /\ UNCHANGED <<dpc, pending, outcome, reply, issued, req>>
  BY <1>0, <1>1 DEF KillSend, daemonVars, threadVars
<1>3. Asking(b, r)
  BY <1>1, <1>2 DEF Asking
<1>4. ~Queued(r) /\ ~InHand(r) /\ \A a \in Bridges : Asking(a, r) => a = b
  BY <1>1, <1>3 DEF RequestInv, OnePlace, OneBridge, Asking
<1>5. \A c \in Conns : ~ElementOf(toDaemon[c], r)
  BY <1>4 DEF Queued
<1>6. /\ \A q \in Requests : ElementOf(toDaemon'[sock[b]], q)
                             <=> ElementOf(toDaemon[sock[b]], q) \/ q = r
      /\ NoneTwice(toDaemon'[sock[b]])
  BY <1>0, <1>2, <1>5, AppendElement DEF RequestInv, QueuedOnce
<1>7. QueuedOnce'
  BY <1>0, <1>2, <1>5, <1>6 DEF RequestInv, QueuedOnce
<1>8. \A q \in Requests : (Queued(q)' => Queued(q) \/ q = r) /\ (InHand(q)' <=> InHand(q))
  BY <1>0, <1>2, <1>6 DEF Queued, InHand
<1>9. \A a \in Bridges, q \in Requests : Asking(a, q)' => Asking(a, q) /\ a # b
  BY <1>0, <1>2 DEF Asking
<1>10. \A q \in Requests : Pending(q)' => Pending(q)
  BY <1>3, <1>8, <1>9 DEF Pending
<1>11. OnePlace'
  BY <1>4, <1>8, <1>9 DEF RequestInv, OnePlace
<1>12. OneBridge' /\ PendingIsOpen' /\ OnlyIssued' /\ RefusedIsNeverSignalled'
  BY <1>2, <1>10 DEF RequestInv, OneBridge, PendingIsOpen, OnlyIssued, RefusedIsNeverSignalled
<1>13. QED
  BY <1>7, <1>11, <1>12 DEF RequestInv

\* A call ends.  Only one whose request was not sent is refused.
LEMMA AnswerKeepsRequestInv ==
  ASSUME TypeInv, RequestInv, NEW b \in Bridges, NEW answer, Answer(b, answer),
         kpc[b] \in {"send", "wait"}, answer.by = "refused" => kpc[b] = "send",
         UNCHANGED <<toDaemon, dpc, pending, outcome, issued>>
  PROVE  RequestInv'
<1>0. /\ req \in [Bridges -> Requests \cup {NoReq}]
      /\ kpc \in [Bridges -> {"idle", "send", "wait"}]
      /\ reply \in [Requests -> Replies]
  BY DEF TypeInv, TypeOK, BridgeTypeOK
<1>1. PICK r \in Requests : r = req[b]
  BY <1>0 DEF TypeInv, ThreadsOK
<1>2. /\ reply' = [reply EXCEPT ![r] = answer]
      /\ kpc' = [kpc EXCEPT ![b] = "idle"]
      /\ req' = [req EXCEPT ![b] = NoReq]
  BY <1>1 DEF Answer
<1>3. \A q \in Requests : (Queued(q)' <=> Queued(q)) /\ (InHand(q)' <=> InHand(q))
  BY DEF Queued, InHand
<1>4. \A a \in Bridges, q \in Requests : Asking(a, q)' => Asking(a, q) /\ a # b
  BY <1>0, <1>2 DEF Asking
<1>5. \A q \in Requests \ {r} : reply'[q] = reply[q]
  BY <1>0, <1>2
<1>6. ASSUME answer.by = "refused" PROVE Pending(r) /\ ~Pending(r)'
  <2>1. Asking(b, r)
    BY <1>1, <1>6 DEF Asking
  <2>2. \A a \in Bridges : Asking(a, r) => a = b
    BY <1>1 DEF RequestInv, OneBridge, Asking
  <2>3. ~Queued(r) /\ ~InHand(r)
    BY <2>1 DEF RequestInv, OnePlace
  <2>4. QED
    BY <2>1, <2>2, <2>3, <1>3, <1>4 DEF Pending
<1>7. reply'[r] = answer
  BY <1>0, <1>2
<1>8. \A q \in Requests : reply'[q].by = "refused"
        => reply[q].by = "refused" \/ (Pending(q) /\ ~Pending(q)')
  BY <1>5, <1>6, <1>7
<1>9. \A a \in Bridges : req'[a] \in {req[a], NoReq}
  BY <1>0, <1>2
<1>10. QED
  BY <1>3, <1>4, <1>8, <1>9, NoneAdvances

LEMMA ServiceKeepsRequestInv ==
  ASSUME TypeInv, RequestInv, NEW b \in Bridges, ServiceSteps(b), UNCHANGED daemonVars
  PROVE  RequestInv'
<1>0. UNCHANGED <<dpc, pending, outcome>>
  BY DEF daemonVars, threadVars
<1>1. CASE KillSend(b)
  BY <1>1, SendKeepsRequestInv
<1>2. CASE KillRefused(b)
  BY <1>0, <1>2, AnswerKeepsRequestInv DEF KillRefused, socketVars
<1>3. CASE KillReturn(b)
  <2>1. Reply("response", lastResp[b].of, lastResp[b].success).by # "refused"
    BY DEF Reply
  <2>2. QED
    BY <1>0, <1>3, <2>1, AnswerKeepsRequestInv DEF KillReturn, socketVars
<1>4. CASE KillTimeout(b)
  <2>1. Reply("timeout", NoReq, FALSE).by # "refused"
    BY DEF Reply
  <2>2. QED
    BY <1>0, <1>4, <2>1, AnswerKeepsRequestInv DEF KillTimeout, socketVars
<1>5. QED
  BY <1>1, <1>2, <1>3, <1>4 DEF ServiceSteps

LEMMA ExitKeepsRequestInv ==
  ASSUME TypeInv, RequestInv, NEW b \in Bridges, BridgeExit(b), UNCHANGED daemonVars
  PROVE  RequestInv'
<1>0. /\ req \in [Bridges -> Requests \cup {NoReq}]
      /\ kpc \in [Bridges -> {"idle", "send", "wait"}]
  BY DEF TypeInv, TypeOK, BridgeTypeOK
<1>1. /\ kpc' = [kpc EXCEPT ![b] = "idle"]
      /\ req' = [req EXCEPT ![b] = NoReq]
      /\ reply' = [r \in Requests |-> IF r = req[b] THEN Reply("aborted", NoReq, FALSE)
                                                    ELSE reply[r]]
      /\ UNCHANGED <<toDaemon, dpc, pending, outcome, issued>>
  BY DEF BridgeExit, daemonVars, threadVars
<1>2. \A r \in Requests : InHand(r)' => InHand(r)
  BY <1>1 DEF InHand
<1>3. \A a \in Bridges, r \in Requests : Asking(a, r)' => Asking(a, r)
  BY <1>0, <1>1 DEF Asking
<1>4. \A r \in Requests : reply'[r].by = "refused" => reply[r].by = "refused"
  BY <1>1 DEF Reply
<1>5. QED
  BY <1>0, <1>1, <1>2, <1>3, <1>4, NoneAdvances

LEMMA BridgeKeepsRequestInv ==
  ASSUME TypeInv, RequestInv, NEW b \in Bridges, NEW listening \in BOOLEAN,
         BridgeNext(b, listening), UNCHANGED daemonVars
  PROVE  RequestInv'
<1>0. UNCHANGED <<dpc, pending, outcome>>
  BY DEF daemonVars, threadVars
<1>1. CASE BridgeExit(b)
  BY <1>1, ExitKeepsRequestInv
<1>2. CASE KillCall(b)
  BY <1>2, CallKeepsRequestInv
<1>3. CASE ServiceSteps(b)
  BY <1>3, ServiceKeepsRequestInv
<1>4. CASE StartBridge(b) \/ DestroyNode(b) \/ Publish(b)
  BY <1>0, <1>4, RequestInvFrame
     DEF StartBridge, DestroyNode, Publish, serviceVars, socketVars, requestVars
<1>5. CASE ReaderSteps(b, listening)
  <2>1. UNCHANGED <<toDaemon, kpc, req, reply, issued>>
    BY <1>5 DEF ReaderSteps, ConnectFails, Connect, Open, InstallSocket, PickSocket, Receive,
                ReceiveTimesOut, ReceiveFails, ReceiveGarbled, Disconnect, bridgeVars,
                serviceVars, socketVars
  <2>2. QED
    BY <1>0, <2>1, RequestInvFrame DEF requestVars
<1>6. QED
  BY <1>1, <1>2, <1>3, <1>4, <1>5 DEF BridgeNext

-----------------------------------------------------------------------------
LEMMA InitRequestInv == Init => RequestInv
<1> SUFFICES ASSUME Init PROVE RequestInv
  OBVIOUS
<1>1. /\ toDaemon = [c \in Conns |-> <<>>] /\ dpc = "down"
      /\ kpc = [b \in Bridges |-> "idle"] /\ req = [b \in Bridges |-> NoReq]
      /\ outcome = [r \in Requests |-> "none"] /\ reply = [r \in Requests |-> NoReply]
  BY DEF Init, SocketInit, DaemonInit, BridgeInit
<1>2. \A r \in Requests : reply[r].by # "refused" /\ \A b \in Bridges : req[b] # r
  BY ConnsAssumption, RequestsAssumption, <1>1 DEF NoReply, Reply
<1>3. \A r \in Requests : ~Queued(r) /\ ~InHand(r) /\ ~Pending(r)
  BY <1>1, EmptyHasNoElement DEF Queued, InHand, Asking, Pending
<1>4. QueuedOnce
  BY <1>1, EmptyHasNoElement DEF QueuedOnce, NoneTwice
<1>5. QED
  BY <1>1, <1>2, <1>3, <1>4
     DEF RequestInv, OnePlace, OneBridge, PendingIsOpen, OnlyIssued, RefusedIsNeverSignalled,
         Asking

LEMMA NextKeepsRequestInv == TypeInv /\ RequestInv /\ [Next]_vars => RequestInv'
<1> SUFFICES ASSUME TypeInv, RequestInv, [Next]_vars PROVE RequestInv'
  OBVIOUS
<1>1. CASE DaemonNext /\ UNCHANGED bridgeVars
  BY <1>1, DaemonKeepsRequestInv
<1>2. CASE \E b \in Bridges : BridgeNext(b, Listening) /\ UNCHANGED daemonVars
  <2>1. Listening \in BOOLEAN
    BY Zenon DEF Listening
  <2>2. QED
    BY <1>2, <2>1, BridgeKeepsRequestInv
<1>3. CASE UNCHANGED vars
  BY <1>3, RequestInvFrame
     DEF vars, socketVars, daemonVars, threadVars, bridgeVars, serviceVars, requestVars
<1>4. QED
  BY <1>1, <1>2, <1>3 DEF Next

LEMMA SpecRequestInv == Spec => []RequestInv
BY InitRequestInv, NextKeepsRequestInv, SpecTypeInv, PTL DEF Spec

\* Whoever is told "Not connected to vitals-daemon" can rely on it that the request is
\* never carried out, through any number of reconnects and restarts.
THEOREM RefusedNeverSignalled == Spec => []RefusedIsNeverSignalled
<1>1. RequestInv => RefusedIsNeverSignalled
  BY DEF RequestInv
<1>2. QED
  BY <1>1, SpecRequestInv, PTL

\* Only Kill changes an outcome, and only that of the request in hand.
LEMMA OutcomeSteps ==
  ASSUME TypeInv, [Next]_vars, NEW r \in Requests, outcome'[r] # outcome[r]
  PROVE  InHand(r)
<1>1. CASE DaemonNext /\ UNCHANGED bridgeVars
  <2>1. CASE Kill
    BY <2>1 DEF Kill, InHand, TypeInv, TypeOK, DaemonTypeOK
  <2>2. CASE ~Kill
    BY <1>1, <2>2
       DEF DaemonNext, DaemonSteps, StartDaemon, Crash, Stop, Shutdown, Exit, Collect, SendStatus,
           HandleClientMessages, Respond, Accept, Install, AcceptEnds
  <2>3. QED
    BY <2>1, <2>2
<1>2. CASE \E b \in Bridges : BridgeNext(b, Listening) /\ UNCHANGED daemonVars
  BY <1>2 DEF daemonVars
<1>3. CASE UNCHANGED vars
  BY <1>3 DEF vars, daemonVars
<1>4. QED
  BY <1>1, <1>2, <1>3 DEF Next

\* psutil is called at most once for a request, and only for one that a client made.
THEOREM SignalledAtMostOnce == Spec => SignalledOnce
<1>1. TypeInv /\ RequestInv /\ [Next]_vars
        => [\A r \in Requests : outcome'[r] # outcome[r] =>
              outcome[r] = "none" /\ r \in issued]_vars
  <2> SUFFICES ASSUME TypeInv, RequestInv, [Next]_vars, NEW r \in Requests,
                      outcome'[r] # outcome[r]
               PROVE  outcome[r] = "none" /\ r \in issued
    OBVIOUS
  <2>1. Pending(r)
    BY OutcomeSteps DEF Pending
  <2>2. QED
    BY <2>1 DEF RequestInv, PendingIsOpen, OnlyIssued
<1>2. QED
  BY <1>1, SpecRequestInv, SpecTypeInv, PTL DEF Spec, SignalledOnce

-----------------------------------------------------------------------------
\* Where the response to a request is, on its way back.

IsResponse(m, q) == m.type = "kill_response" /\ m.of = q
Carries(s, q)    == \E i \in DOMAIN s : IsResponse(s[i], q)
CarriesOnce(s)   == \A q \in Requests : \A i, j \in DOMAIN s :
                      IsResponse(s[i], q) /\ IsResponse(s[j], q) => i = j

\* Where the response to q can be: about to be sent, in a socket, with a kill service
\* that waits for one, or returned to a client.
ToSend(q)     == dpc = "respond" /\ pending = q
OnItsWay(q)   == \E c \in Conns : Carries(toBridge[c], q)
Arrived(b, q) == kpc[b] # "idle" /\ IsResponse(lastResp[b], q)
Reported(q)   == \E r \in Requests : reply[r].by = "response" /\ reply[r].of = q

\* It is in one socket only, and there once.
CarriedOnce ==
  /\ \A c \in Conns : CarriesOnce(toBridge[c])
  /\ \A q \in Requests : \A c, d \in Conns :
       Carries(toBridge[c], q) /\ Carries(toBridge[d], q) => c = d

\* It is in one of the four places only.
ResponseInOnePlace ==
  \A q \in Requests :
    /\ ~(ToSend(q) /\ OnItsWay(q)) /\ ~(ToSend(q) /\ Reported(q))
    /\ ~(OnItsWay(q) /\ Reported(q))
    /\ \A b \in Bridges : Arrived(b, q) => ~ToSend(q) /\ ~OnItsWay(q) /\ ~Reported(q)
    /\ \A a, b \in Bridges : Arrived(a, q) /\ Arrived(b, q) => a = b

\* There is one only to a request that psutil has seen, also where nobody waits.
Responded(q) == ToSend(q) \/ OnItsWay(q) \/ Reported(q)
                  \/ \E b \in Bridges : IsResponse(lastResp[b], q)
ResponseNeedsOutcome == \A q \in Requests : Responded(q) => outcome[q] # "none"

\* It says what psutil did.
Faithful(m) == m.type = "kill_response" => (m.success <=> outcome[m.of] = "sent")
ResponsesFaithful ==
  /\ \A c \in Conns : \A i \in DOMAIN toBridge[c] : Faithful(toBridge[c][i])
  /\ \A b \in Bridges : Faithful(lastResp[b])

\* A call that goes on has no reply, nor has one that was not made.
CallsOpen ==
  \A r \in Requests :
    r \notin issued \/ (\E b \in Bridges : req[b] = r) => reply[r].by = "none"

ResponseInv == CarriedOnce /\ ResponseInOnePlace /\ ResponseNeedsOutcome /\ ResponsesFaithful

-----------------------------------------------------------------------------
\* Queues.

\* r is like s, with some messages gone.
LeftOf(r, s) ==
  /\ CarriesOnce(s) => CarriesOnce(r)
  /\ \A q \in Requests : Carries(r, q) => Carries(s, q)
  /\ \A i \in DOMAIN r : \E j \in DOMAIN s : r[i] = s[j]

LEMMA EmptyLeft == \A s : LeftOf(<<>>, s)
BY DEF LeftOf, CarriesOnce, Carries

LEMMA SameLeft == \A s : LeftOf(s, s)
BY DEF LeftOf

LEMMA LeftTransitive == \A r, s, t : LeftOf(r, s) /\ LeftOf(s, t) => LeftOf(r, t)
<1> SUFFICES ASSUME NEW r, NEW s, NEW t, LeftOf(r, s), LeftOf(s, t) PROVE LeftOf(r, t)
  OBVIOUS
<1>1. \A i \in DOMAIN r : \E j \in DOMAIN t : r[i] = t[j]
  BY Zenon DEF LeftOf
<1>2. QED
  BY <1>1 DEF LeftOf

LEMMA TailLeft ==
  ASSUME NEW s \in Seq(Messages), s # <<>>
  PROVE  /\ LeftOf(Tail(s), s)
         /\ \E i \in DOMAIN s : s[i] = Head(s)
         /\ CarriesOnce(s) =>
              \A q \in Requests : Carries(Tail(s), q) => ~IsResponse(Head(s), q)
<1>1. /\ Tail(s) \in Seq(Messages)
      /\ Len(Tail(s)) = Len(s) - 1
      /\ \A i \in 1 .. Len(Tail(s)) : Tail(s)[i] = s[i + 1]
  BY HeadTailProperties
<1>2. /\ Len(s) \in Nat \ {0}
      /\ DOMAIN s = 1 .. Len(s) /\ DOMAIN Tail(s) = 1 .. Len(s) - 1
      /\ Head(s) = s[1]
  BY <1>1, LenProperties, EmptySeq
<1>3. \A i \in DOMAIN Tail(s) : Tail(s)[i] = s[i + 1] /\ i + 1 \in DOMAIN s /\ i + 1 # 1
  BY <1>1, <1>2
<1>4. 1 \in DOMAIN s
  BY <1>2
<1>5. \A i, j \in DOMAIN Tail(s) : i + 1 = j + 1 => i = j
  BY <1>2
<1>6. CarriesOnce(s) => CarriesOnce(Tail(s))
  BY Zenon, <1>3, <1>5 DEF CarriesOnce
<1>7. \A q \in Requests : Carries(Tail(s), q) => Carries(s, q)
  BY Zenon, <1>3 DEF Carries
<1>8. CarriesOnce(s) => \A q \in Requests : Carries(Tail(s), q) => ~IsResponse(Head(s), q)
  BY Zenon, <1>2, <1>3, <1>4 DEF CarriesOnce, Carries
<1>9. LeftOf(Tail(s), s)
  BY Zenon, <1>3, <1>6, <1>7 DEF LeftOf
<1>10. QED
  BY <1>2, <1>4, <1>8, <1>9

LEMMA TwiceTailLeft ==
  ASSUME NEW s \in Seq(Messages), Len(s) > 1
  PROVE  LeftOf(Tail(Tail(s)), s)
<1>1. Len(<<>>) = 0
  BY EmptySeq
<1>2. s # <<>>
  BY <1>1
<1>3. Tail(s) \in Seq(Messages) /\ Len(Tail(s)) = Len(s) - 1 /\ Len(s) \in Nat
  BY <1>2, HeadTailProperties, LenProperties
<1>4. Tail(s) # <<>>
  <2>1. Len(Tail(s)) # 0
    BY <1>3
  <2>2. QED
    BY <1>1, <2>1
<1>5. QED
  BY Zenon, <1>2, <1>3, <1>4, TailLeft, LeftTransitive

LEMMA AppendCarries ==
  ASSUME NEW s \in Seq(Messages), NEW m \in Messages
  PROVE  /\ \A q \in Requests : Carries(Append(s, m), q) <=> Carries(s, q) \/ IsResponse(m, q)
         /\ CarriesOnce(s) /\ (\A q \in Requests : IsResponse(m, q) => ~Carries(s, q))
              => CarriesOnce(Append(s, m))
         /\ \A i \in DOMAIN Append(s, m) :
              Append(s, m)[i] = m \/ \E j \in DOMAIN s : Append(s, m)[i] = s[j]
<1> DEFINE t == Append(s, m)
<1>1. /\ Len(t) = Len(s) + 1
      /\ \A i \in 1 .. Len(s) : t[i] = s[i]
      /\ t[Len(s) + 1] = m
      /\ t \in Seq(Messages)
  BY AppendProperties
<1>2. Len(s) \in Nat /\ DOMAIN s = 1 .. Len(s) /\ DOMAIN t = 1 .. Len(s) + 1
  BY <1>1, LenProperties
<1> HIDE DEF t
<1>3. \A i \in DOMAIN t : (i \in DOMAIN s /\ t[i] = s[i]) \/ (i = Len(s) + 1 /\ t[i] = m)
  BY <1>1, <1>2
<1>4. DOMAIN s \subseteq DOMAIN t /\ Len(s) + 1 \in DOMAIN t
  BY <1>2
<1>5. \A i \in DOMAIN s : t[i] = s[i]
  BY <1>1, <1>2
<1>6. ASSUME NEW q \in Requests PROVE Carries(t, q) <=> Carries(s, q) \/ IsResponse(m, q)
  <2>1. Carries(t, q) => Carries(s, q) \/ IsResponse(m, q)
    BY Zenon, <1>3 DEF Carries
  <2>2. Carries(s, q) \/ IsResponse(m, q) => Carries(t, q)
    BY Zenon, <1>1, <1>4, <1>5 DEF Carries
  <2>3. QED
    BY <2>1, <2>2
<1>7. ASSUME CarriesOnce(s), \A q \in Requests : IsResponse(m, q) => ~Carries(s, q)
      PROVE  CarriesOnce(t)
  BY Zenon, <1>3, <1>7 DEF CarriesOnce, Carries
<1>8. \A i \in DOMAIN t : t[i] = m \/ \E j \in DOMAIN s : t[i] = s[j]
  BY Zenon, <1>3
<1>9. QED
  BY <1>6, <1>7, <1>8 DEF t

-----------------------------------------------------------------------------
\* Steps in which no response gets anywhere.

QueuesKept ==
  \A c \in Conns :
    /\ CarriesOnce(toBridge'[c])
    /\ \A q \in Requests : Carries(toBridge'[c], q) => Carries(toBridge[c], q)
    /\ \A i \in DOMAIN toBridge'[c] : Faithful(toBridge'[c][i])

LEMMA LeftQueuesKept ==
  ASSUME ResponseInv, \A c \in Conns : LeftOf(toBridge'[c], toBridge[c])
  PROVE  QueuesKept
<1> SUFFICES ASSUME NEW c \in Conns
             PROVE  /\ CarriesOnce(toBridge'[c])
                    /\ \A q \in Requests : Carries(toBridge'[c], q) => Carries(toBridge[c], q)
                    /\ \A i \in DOMAIN toBridge'[c] : Faithful(toBridge'[c][i])
  BY Zenon DEF QueuesKept
<1>1. /\ CarriesOnce(toBridge[c])
      /\ \A i \in DOMAIN toBridge[c] : Faithful(toBridge[c][i])
  BY DEF ResponseInv, CarriedOnce, ResponsesFaithful
<1>2. QED
  BY Zenon, <1>1 DEF LeftOf

LEMMA PutQueuesKept ==
  ASSUME TypeInv, ResponseInv, NEW c \in Conns, NEW m \in Messages,
         m.type # "kill_response", PutToBridge(c, m)
  PROVE  QueuesKept
<1>0. toBridge \in [Conns -> Seq(Messages)]
  BY DEF TypeInv, TypeOK, SocketTypeOK
<1>1. /\ toBridge'[c] = Append(toBridge[c], m) /\ toBridge[c] \in Seq(Messages)
      /\ \A d \in Conns \ {c} : toBridge'[d] = toBridge[d]
  BY <1>0 DEF PutToBridge
<1>2. /\ \A d \in Conns : CarriesOnce(toBridge[d])
      /\ \A d \in Conns : \A i \in DOMAIN toBridge[d] : Faithful(toBridge[d][i])
  BY DEF ResponseInv, CarriedOnce, ResponsesFaithful
<1>3. Faithful(m) /\ \A q \in Requests : ~IsResponse(m, q)
  BY DEF Faithful, IsResponse
<1>4. /\ CarriesOnce(toBridge'[c])
      /\ \A q \in Requests : Carries(toBridge'[c], q) => Carries(toBridge[c], q)
      /\ \A i \in DOMAIN toBridge'[c] :
            toBridge'[c][i] = m \/ \E j \in DOMAIN toBridge[c] : toBridge'[c][i] = toBridge[c][j]
  BY <1>1, <1>2, <1>3, AppendCarries
<1>5. \A i \in DOMAIN toBridge'[c] : Faithful(toBridge'[c][i])
  BY Zenon, <1>2, <1>3, <1>4
<1>6. \A d \in Conns \ {c} :
        /\ CarriesOnce(toBridge'[d])
        /\ \A q \in Requests : Carries(toBridge'[d], q) => Carries(toBridge[d], q)
        /\ \A i \in DOMAIN toBridge'[d] : Faithful(toBridge'[d][i])
  BY <1>1, <1>2
<1>7. QED
  BY <1>4, <1>5, <1>6 DEF QueuesKept

LEMMA NoResponseAdvances ==
  ASSUME ResponseInv, outcome' = outcome, QueuesKept,
         \A q \in Requests : ToSend(q)' => ToSend(q),
         \A b \in Bridges, q \in Requests : Arrived(b, q)' => Arrived(b, q),
         \A q \in Requests : Reported(q)' => Reported(q),
         \A b \in Bridges : lastResp'[b] \in {lastResp[b], NoResponse}
  PROVE  ResponseInv'
<1>1. CarriedOnce'
  BY DEF QueuesKept, ResponseInv, CarriedOnce
<1>2. \A q \in Requests : OnItsWay(q)' => OnItsWay(q)
  BY DEF QueuesKept, OnItsWay
<1>3. ResponseInOnePlace'
  BY <1>2 DEF ResponseInv, ResponseInOnePlace
<1>4. ResponseNeedsOutcome'
  <2>1. \A b \in Bridges : \A q \in Requests :
           IsResponse(lastResp'[b], q) => IsResponse(lastResp[b], q)
    BY DEF IsResponse, NoResponse
  <2>2. \A q \in Requests : Responded(q)' => Responded(q)
    BY <1>2, <2>1 DEF Responded
  <2>3. QED
    BY <2>2 DEF ResponseInv, ResponseNeedsOutcome
<1>5. ResponsesFaithful'
  <2>1. \A c \in Conns : \A i \in DOMAIN toBridge'[c] : Faithful(toBridge[c][i])'
    BY DEF QueuesKept, Faithful
  <2>2. \A b \in Bridges : Faithful(lastResp[b])'
    BY DEF ResponseInv, ResponsesFaithful, Faithful, NoResponse
  <2>3. QED
    BY <2>1, <2>2 DEF ResponsesFaithful
<1>6. QED
  BY <1>1, <1>3, <1>4, <1>5 DEF ResponseInv

-----------------------------------------------------------------------------
\* The daemon.

\* psutil answers: no response to this request exists yet.
LEMMA KillKeepsResponseInv ==
  ASSUME TypeInv, RequestInv, ResponseInv, Kill, UNCHANGED bridgeVars
  PROVE  ResponseInv'
<1>0. /\ pending \in Requests /\ outcome \in [Requests -> Outcomes]
      /\ dpc = "kill" /\ dpc' = "respond"
  BY DEF Kill, TypeInv, TypeOK, ThreadsOK, DaemonTypeOK
<1>1. /\ UNCHANGED <<toBridge, pending, kpc, lastResp, reply>>
      /\ \A q \in Requests \ {pending} : outcome'[q] = outcome[q]
      /\ outcome'[pending] # "none"
  BY <1>0 DEF Kill, Outcomes, socketVars, bridgeVars, serviceVars
<1>2. Pending(pending)
  BY <1>0 DEF Pending, InHand
<1>3. outcome[pending] = "none"
  BY <1>0, <1>2 DEF RequestInv, PendingIsOpen
<1>4. ~Responded(pending)
  BY <1>0, <1>3 DEF ResponseInv, ResponseNeedsOutcome
<1>5. \A q \in Requests : /\ ToSend(q)' <=> q = pending
                          /\ OnItsWay(q)' <=> OnItsWay(q)
                          /\ Reported(q)' <=> Reported(q)
                          /\ \A b \in Bridges : Arrived(b, q)' <=> Arrived(b, q)
  BY <1>0, <1>1 DEF ToSend, OnItsWay, Reported, Arrived
<1>6. \A q \in Requests : ~ToSend(q)
  BY <1>0 DEF ToSend
<1>7. CarriedOnce'
  BY <1>1 DEF ResponseInv, CarriedOnce
<1>8. ResponseInOnePlace'
  <2>1. /\ ~OnItsWay(pending) /\ ~Reported(pending)
        /\ \A b \in Bridges : ~Arrived(b, pending)
    BY <1>4 DEF Responded, Arrived
  <2>2. QED
    BY <1>5, <1>6, <2>1 DEF ResponseInv, ResponseInOnePlace
<1>9. ResponseNeedsOutcome'
  BY <1>1, <1>5 DEF ResponseInv, ResponseNeedsOutcome, Responded
<1>10. ResponsesFaithful'
  <2>1. /\ \A c \in Conns : toBridge[c] \in Seq(Messages)
        /\ \A b \in Bridges : lastResp[b] \in KillResponses \cup {NoResponse}
    BY DEF TypeInv, TypeOK, SocketTypeOK, BridgeTypeOK
  <2>2. ASSUME NEW m, Faithful(m), ~IsResponse(m, pending),
               m \in Messages \cup {NoResponse}
        PROVE  Faithful(m)'
    <3>1. m.type = "kill_response" => m.of \in Requests \ {pending}
      BY <2>2 DEF IsResponse, Messages, Statuses, KillResponses, Torn, NoResponse
    <3>2. QED
      BY <1>1, <2>2, <3>1 DEF Faithful
  <2>3. ASSUME NEW c \in Conns, NEW i \in DOMAIN toBridge[c] PROVE Faithful(toBridge[c][i])'
    <3>1. toBridge[c][i] \in Messages /\ Faithful(toBridge[c][i])
      BY <2>1, LenProperties, ElementOfSeq DEF ResponseInv, ResponsesFaithful
    <3>2. ~IsResponse(toBridge[c][i], pending)
      BY <1>0, <1>4 DEF Responded, OnItsWay, Carries
    <3>3. QED
      BY <1>1, <2>2, <3>1, <3>2 DEF Faithful
  <2>4. ASSUME NEW b \in Bridges PROVE Faithful(lastResp[b])'
    <3>1. lastResp[b] \in Messages \cup {NoResponse} /\ Faithful(lastResp[b])
      BY <2>1 DEF ResponseInv, ResponsesFaithful, Messages
    <3>2. ~IsResponse(lastResp[b], pending)
      BY <1>4 DEF Responded
    <3>3. QED
      BY <1>1, <2>2, <3>1, <3>2 DEF Faithful
  <2>5. QED
    BY <1>1, <2>3, <2>4 DEF ResponsesFaithful
<1>11. QED
  BY <1>7, <1>8, <1>9, <1>10 DEF ResponseInv

\* The response goes from the hand of the main thread into the socket of the client.
LEMMA RespondKeepsResponseInv ==
  ASSUME TypeInv, ResponseInv, dpc = "respond", dpc' = "collect", client \in Conns,
         PutToBridge(client, KillResponse(pending, Succeeded(outcome[pending]))),
         UNCHANGED <<kpc, lastResp, reply, outcome>>
  PROVE  ResponseInv'
<1>0. toBridge \in [Conns -> Seq(Messages)] /\ pending \in Requests
  BY DEF TypeInv, TypeOK, ThreadsOK, SocketTypeOK, DaemonTypeOK
<1> DEFINE m == KillResponse(pending, Succeeded(outcome[pending]))
<1>1. m \in Messages /\ Faithful(m) /\ \A q \in Requests : IsResponse(m, q) <=> q = pending
  <2>1. Succeeded(outcome[pending]) \in BOOLEAN
    BY Zenon DEF Succeeded
  <2>2. QED
    BY <1>0, <2>1 DEF KillResponse, Messages, KillResponses, Faithful, IsResponse, Succeeded
<1>2. /\ toBridge'[client] = Append(toBridge[client], m) /\ toBridge[client] \in Seq(Messages)
      /\ \A c \in Conns \ {client} : toBridge'[c] = toBridge[c]
  BY <1>0 DEF PutToBridge
<1> HIDE DEF m
<1>3. ToSend(pending) /\ \A q \in Requests : ~ToSend(q)'
  BY DEF ToSend
<1>4. \A c \in Conns : ~Carries(toBridge[c], pending)
  BY <1>0, <1>3 DEF ResponseInv, ResponseInOnePlace, OnItsWay
<1>5. /\ \A q \in Requests : Carries(toBridge'[client], q)
                              <=> Carries(toBridge[client], q) \/ q = pending
      /\ CarriesOnce(toBridge'[client])
      /\ \A i \in DOMAIN toBridge'[client] : \/ toBridge'[client][i] = m
            \/ \E j \in DOMAIN toBridge[client] : toBridge'[client][i] = toBridge[client][j]
  BY <1>1, <1>2, <1>4, AppendCarries DEF ResponseInv, CarriedOnce
<1>6. CarriedOnce'
  BY <1>0, <1>2, <1>4, <1>5 DEF ResponseInv, CarriedOnce
<1>7. \A q \in Requests : /\ OnItsWay(q)' => OnItsWay(q) \/ q = pending
                          /\ Reported(q)' <=> Reported(q)
                          /\ \A b \in Bridges : Arrived(b, q)' <=> Arrived(b, q)
  BY <1>2, <1>5 DEF OnItsWay, Reported, Arrived
<1>8. ResponseInOnePlace'
  BY <1>3, <1>7 DEF ResponseInv, ResponseInOnePlace
<1>9. ResponseNeedsOutcome'
  <2>1. \A q \in Requests : Responded(q)' => Responded(q)
    BY <1>3, <1>7 DEF Responded
  <2>2. QED
    BY <2>1 DEF ResponseInv, ResponseNeedsOutcome
<1>10. ResponsesFaithful'
  <2>1. ASSUME NEW c \in Conns, NEW i \in DOMAIN toBridge'[c]
        PROVE  Faithful(toBridge'[c][i])
    BY <1>1, <1>2, <1>5 DEF ResponseInv, ResponsesFaithful
  <2>2. QED
    BY <2>1 DEF ResponseInv, ResponsesFaithful, Faithful
<1>11. QED
  BY <1>6, <1>8, <1>9, <1>10 DEF ResponseInv

LEMMA DaemonKeepsResponseInv ==
  ASSUME TypeInv, RequestInv, ResponseInv, DaemonNext, UNCHANGED bridgeVars
  PROVE  ResponseInv'
<1>0. UNCHANGED <<kpc, lastResp, reply>>
  BY DEF bridgeVars, serviceVars
<1>kept. ASSUME outcome' = outcome, QueuesKept, dpc' # "respond" \/ UNCHANGED <<dpc, pending>>
         PROVE  ResponseInv'
  <2>1. \A q \in Requests : (ToSend(q)' => ToSend(q)) /\ (Reported(q)' => Reported(q))
    BY <1>0, <1>kept DEF ToSend, Reported
  <2>2. \A b \in Bridges, q \in Requests : Arrived(b, q)' => Arrived(b, q)
    BY <1>0 DEF Arrived
  <2>3. QED
    BY <1>0, <1>kept, <2>1, <2>2, NoResponseAdvances
<1>same. ASSUME UNCHANGED toBridge PROVE QueuesKept
  BY <1>same, SameLeft, LeftQueuesKept
<1>torn. Torn \in Messages /\ Torn.type # "kill_response"
  BY DEF Torn, Messages
<1>1. CASE StartDaemon \/ Stop \/ Collect \/ AcceptEnds
  BY <1>1, <1>kept, <1>same DEF StartDaemon, Stop, Collect, AcceptEnds, socketVars
<1>2. CASE Crash \/ Shutdown
  BY <1>2, <1>kept, <1>same DEF Crash, Shutdown, Exit
<1>3. CASE SendStatus
  <2>1. Status(Snapshot) \in Messages /\ Status(Snapshot).type # "kill_response"
    BY <1>3 DEF SendStatus, Status, Snapshot, Messages, Statuses, Snapshots,
                TypeInv, TypeOK, ThreadsOK, DaemonTypeOK
  <2>2. \/ UNCHANGED toBridge
        \/ client \in Conns /\ \E m \in {Status(Snapshot), Torn} : PutToBridge(client, m)
    BY <1>3 DEF SendStatus, TypeInv, TypeOK, DaemonTypeOK
  <2>3. QueuesKept
    BY <2>1, <2>2, <1>same, <1>torn, PutQueuesKept
  <2>4. outcome' = outcome /\ dpc' # "respond"
    BY <1>3 DEF SendStatus
  <2>5. QED
    BY <2>3, <2>4, <1>kept
<1>4. CASE HandleClientMessages
  <2>1. UNCHANGED <<toBridge, outcome>> /\ dpc' # "respond"
    BY <1>4 DEF HandleClientMessages
  <2>2. QED
    BY <2>1, <1>kept, <1>same
<1>5. CASE Kill
  BY <1>5, KillKeepsResponseInv
<1>6. CASE Respond
  <2>1. dpc = "respond" /\ dpc' = "collect" /\ outcome' = outcome
    BY <1>6 DEF Respond
  <2>2. \/ UNCHANGED toBridge
        \/ client \in Conns /\ PutToBridge(client, Torn)
        \/ client \in Conns
           /\ PutToBridge(client, KillResponse(pending, Succeeded(outcome[pending])))
    BY <1>6 DEF Respond, TypeInv, TypeOK, DaemonTypeOK
  <2>3. CASE UNCHANGED toBridge
    BY <2>1, <2>3, <1>kept, <1>same
  <2>4. CASE client \in Conns /\ PutToBridge(client, Torn)
    BY <2>1, <2>4, <1>kept, <1>torn, PutQueuesKept
  <2>5. CASE /\ client \in Conns
             /\ PutToBridge(client, KillResponse(pending, Succeeded(outcome[pending])))
    BY <2>1, <2>5, <1>0, RespondKeepsResponseInv
  <2>6. QED
    BY <2>2, <2>3, <2>4, <2>5
<1>7. CASE Accept
  BY <1>7, <1>kept, <1>same DEF Accept
<1>8. CASE Install
  BY <1>8, <1>kept, <1>same DEF Install
<1>9. QED
  BY <1>1, <1>2, <1>3, <1>4, <1>5, <1>6, <1>7, <1>8 DEF DaemonNext, DaemonSteps

-----------------------------------------------------------------------------
\* The bridges.

\* The reader takes a message out of its socket.
LEMMA ReceiveKeepsResponseInv ==
  ASSUME TypeInv, ResponseInv, NEW b \in Bridges, Receive(b), UNCHANGED daemonVars
  PROVE  ResponseInv'
<1>0. /\ toBridge \in [Conns -> Seq(Messages)] /\ rsock[b] \in Conns
      /\ lastResp \in [Bridges -> KillResponses \cup {NoResponse}]
  BY DEF Receive, ReadsOpen, TypeInv, TypeOK, ThreadsOK, SocketTypeOK, BridgeTypeOK
<1> DEFINE c == rsock[b]
           m == Head(toBridge[c])
<1>1. /\ toBridge[c] # <<>> /\ toBridge[c] \in Seq(Messages)
      /\ toBridge'[c] = Tail(toBridge[c])
      /\ \A d \in Conns \ {c} : toBridge'[d] = toBridge[d]
      /\ UNCHANGED <<dpc, pending, outcome, kpc, reply>>
      /\ c \in Conns
  BY <1>0 DEF Receive, daemonVars, threadVars
<1>2. \/ UNCHANGED lastResp
      \/ m.type = "kill_response" /\ lastResp' = [lastResp EXCEPT ![b] = m]
  BY DEF Receive
<1> HIDE DEF c, m
<1>3. /\ LeftOf(toBridge'[c], toBridge[c])
      /\ \E i \in DOMAIN toBridge[c] : toBridge[c][i] = m
      /\ \A q \in Requests : Carries(toBridge'[c], q) => ~IsResponse(m, q)
  BY <1>1, TailLeft DEF m, ResponseInv, CarriedOnce
<1>4. \A d \in Conns : LeftOf(toBridge'[d], toBridge[d])
  BY <1>1, <1>3, SameLeft
<1>5. QueuesKept
  BY <1>4, LeftQueuesKept
<1>6. \A q \in Requests : /\ ToSend(q)' <=> ToSend(q)
                          /\ Reported(q)' <=> Reported(q)
  BY <1>1 DEF ToSend, Reported
<1>7. CASE UNCHANGED lastResp
  <2>1. \A a \in Bridges, q \in Requests : Arrived(a, q)' => Arrived(a, q)
    BY <1>1, <1>7 DEF Arrived
  <2>2. QED
    BY <1>1, <1>5, <1>6, <1>7, <2>1, NoResponseAdvances
<1>8. CASE m.type = "kill_response" /\ lastResp' = [lastResp EXCEPT ![b] = m]
  <2>1. Faithful(m) /\ \A q \in Requests : IsResponse(m, q) => Carries(toBridge[c], q)
    BY <1>1, <1>3 DEF ResponseInv, ResponsesFaithful, Carries
  <2>2. \A q \in Requests : IsResponse(m, q) => OnItsWay(q) /\ ~OnItsWay(q)'
    <3>1. SUFFICES ASSUME NEW q \in Requests, IsResponse(m, q) PROVE OnItsWay(q) /\ ~OnItsWay(q)'
      OBVIOUS
    <3>2. Carries(toBridge[c], q) /\ ~Carries(toBridge'[c], q)
      BY <2>1, <1>3, <3>1
    <3>3. \A d \in Conns \ {c} : ~Carries(toBridge[d], q)
      BY <1>1, <3>2 DEF ResponseInv, CarriedOnce
    <3>4. QED
      BY <1>1, <3>2, <3>3 DEF OnItsWay
  <2>3. \A q \in Requests : OnItsWay(q)' => OnItsWay(q)
    BY <1>5 DEF QueuesKept, OnItsWay
  <2>4. \A a \in Bridges, q \in Requests :
          Arrived(a, q)' => Arrived(a, q) \/ (a = b /\ IsResponse(m, q))
    BY <1>0, <1>1, <1>8 DEF Arrived
  <2>5. CarriedOnce'
    BY <1>5 DEF QueuesKept, ResponseInv, CarriedOnce
  <2>6. ResponseInOnePlace'
    BY <1>6, <2>2, <2>3, <2>4 DEF ResponseInv, ResponseInOnePlace
  <2>7. ResponseNeedsOutcome'
    <3>1. \A q \in Requests : Responded(q)' => Responded(q)
      BY <1>0, <1>6, <1>8, <2>2, <2>3 DEF Responded
    <3>2. QED
      BY <1>1, <3>1 DEF ResponseInv, ResponseNeedsOutcome
  <2>8. ResponsesFaithful'
    <3>1. \A d \in Conns : \A i \in DOMAIN toBridge'[d] : Faithful(toBridge[d][i])'
      BY <1>1, <1>5 DEF QueuesKept, Faithful
    <3>2. \A a \in Bridges : Faithful(lastResp'[a])
      BY <1>0, <1>8, <2>1 DEF ResponseInv, ResponsesFaithful
    <3>3. QED
      BY <1>1, <3>1, <3>2 DEF ResponsesFaithful, Faithful
  <2>9. QED
    BY <2>5, <2>6, <2>7, <2>8 DEF ResponseInv
<1>9. QED
  BY <1>2, <1>7, <1>8

\* The service returns the response that has arrived.
LEMMA ReturnKeepsResponseInv ==
  ASSUME TypeInv, ResponseInv, NEW b \in Bridges, KillReturn(b), UNCHANGED daemonVars
  PROVE  ResponseInv'
<1>0. /\ reply \in [Requests -> Replies]
      /\ kpc \in [Bridges -> {"idle", "send", "wait"}]
      /\ lastResp[b] \in KillResponses
  BY DEF KillReturn, TypeInv, TypeOK, BridgeTypeOK
<1>1. PICK r \in Requests : r = req[b]
  BY DEF KillReturn, TypeInv, TypeOK, ThreadsOK, BridgeTypeOK
<1>2. /\ kpc[b] = "wait" /\ kpc' = [kpc EXCEPT ![b] = "idle"]
      /\ reply' = [reply EXCEPT ![r] = Reply("response", lastResp[b].of, lastResp[b].success)]
      /\ UNCHANGED <<dpc, pending, outcome, toBridge, lastResp>>
  BY <1>1 DEF KillReturn, Answer, socketVars, daemonVars, threadVars
<1>3. PICK p \in Requests : p = lastResp[b].of
  BY <1>0 DEF KillResponses
<1>4. Arrived(b, p) /\ \A q \in Requests : ~Arrived(b, q)'
  BY <1>0, <1>2, <1>3 DEF Arrived, IsResponse, KillResponses
<1>5. \A q \in Requests : Reported(q)' => Reported(q) \/ q = p
  BY <1>0, <1>2, <1>3 DEF Reported, Reply
<1>6. \A q \in Requests : (ToSend(q)' <=> ToSend(q)) /\ (OnItsWay(q)' <=> OnItsWay(q))
  BY <1>2 DEF ToSend, OnItsWay
<1>7. \A a \in Bridges, q \in Requests : Arrived(a, q)' => Arrived(a, q) /\ a # b
  BY <1>0, <1>2, <1>4 DEF Arrived
<1>8. CarriedOnce' /\ ResponsesFaithful'
  BY <1>2 DEF ResponseInv, CarriedOnce, ResponsesFaithful, Faithful
<1>9. ResponseInOnePlace'
  <2>1. ~ToSend(p) /\ ~OnItsWay(p) /\ \A a \in Bridges : Arrived(a, p) => a = b
    BY <1>4 DEF ResponseInv, ResponseInOnePlace
  <2>2. QED
    BY <2>1, <1>4, <1>5, <1>6, <1>7 DEF ResponseInv, ResponseInOnePlace
<1>10. ResponseNeedsOutcome'
  <2>1. \A q \in Requests : Responded(q)' => Responded(q)
    BY <1>2, <1>4, <1>5, <1>6 DEF Responded, Arrived
  <2>2. QED
    BY <1>2, <2>1 DEF ResponseInv, ResponseNeedsOutcome
<1>11. QED
  BY <1>8, <1>9, <1>10 DEF ResponseInv

LEMMA BridgeKeepsResponseInv ==
  ASSUME TypeInv, ResponseInv, NEW b \in Bridges, NEW listening \in BOOLEAN,
         BridgeNext(b, listening), UNCHANGED daemonVars
  PROVE  ResponseInv'
<1>0. /\ UNCHANGED <<dpc, pending, outcome>>
      /\ toBridge \in [Conns -> Seq(Messages)]
      /\ kpc \in [Bridges -> {"idle", "send", "wait"}]
      /\ lastResp \in [Bridges -> KillResponses \cup {NoResponse}]
      /\ reply \in [Requests -> Replies]
  BY DEF daemonVars, threadVars, TypeInv, TypeOK, SocketTypeOK, BridgeTypeOK
<1>kept. ASSUME QueuesKept,
                \A a \in Bridges : lastResp'[a] \in {lastResp[a], NoResponse},
                \A a \in Bridges : lastResp'[a] = lastResp[a] /\ kpc'[a] # "idle"
                  => kpc[a] # "idle",
                \A r \in Requests : reply'[r].by = "response" => reply'[r] = reply[r]
         PROVE  ResponseInv'
  <2>1. \A q \in Requests : (ToSend(q)' => ToSend(q)) /\ (Reported(q)' => Reported(q))
    BY <1>0, <1>kept DEF ToSend, Reported
  <2>2. \A a \in Bridges, q \in Requests : Arrived(a, q)' => Arrived(a, q)
    BY <1>kept DEF Arrived, IsResponse, NoResponse
  <2>3. QED
    BY <1>0, <1>kept, <2>1, <2>2, NoResponseAdvances
<1>left. ASSUME \A c \in Conns : toBridge'[c] \in {toBridge[c], <<>>} PROVE QueuesKept
  BY <1>left, SameLeft, EmptyLeft, LeftQueuesKept
<1>1. CASE StartBridge(b) \/ Publish(b) \/ ConnectFails(b, listening) \/ Connect(b, listening)
            \/ PickSocket(b)
  BY <1>1, <1>kept, <1>left
     DEF StartBridge, Publish, ConnectFails, Connect, Open, PickSocket, readerVars, serviceVars,
         socketVars, bridgeVars
<1>2. CASE DestroyNode(b) \/ InstallSocket(b) \/ Disconnect(b) \/ ReceiveTimesOut(b)
  <2>1. \A c \in Conns : toBridge'[c] \in {toBridge[c], <<>>}
    BY <1>0, <1>2
       DEF DestroyNode, InstallSocket, Disconnect, DropSocket, ReceiveTimesOut, CloseBridgeEnds
  <2>2. UNCHANGED <<lastResp, kpc, reply>>
    BY <1>2 DEF DestroyNode, InstallSocket, Disconnect, ReceiveTimesOut, serviceVars
  <2>3. QED
    BY <2>1, <2>2, <1>kept, <1>left
<1>3. CASE BridgeExit(b)
  <2>1. \A c \in Conns : toBridge'[c] \in {toBridge[c], <<>>}
    BY <1>3 DEF BridgeExit, CloseBridgeEnds
  <2>2. /\ lastResp' = [lastResp EXCEPT ![b] = NoResponse]
        /\ kpc' = [kpc EXCEPT ![b] = "idle"]
        /\ reply' = [r \in Requests |-> IF r = req[b] THEN Reply("aborted", NoReq, FALSE)
                                                      ELSE reply[r]]
    BY <1>3 DEF BridgeExit
  <2>3. \A r \in Requests : reply'[r].by = "response" => reply'[r] = reply[r]
    BY <2>2 DEF Reply
  <2>4. QED
    BY <2>1, <2>2, <2>3, <1>0, <1>kept, <1>left
<1>4. CASE Receive(b)
  BY <1>4, ReceiveKeepsResponseInv
<1>5. CASE ReceiveFails(b) \/ ReceiveGarbled(b)
  <2>1. UNCHANGED <<lastResp, kpc, reply>>
    BY <1>5 DEF ReceiveFails, ReceiveGarbled, serviceVars
  <2>2. CASE Len(toBridge[rsock[b]]) > 1
             /\ toBridge' = [toBridge EXCEPT ![rsock[b]] = Tail(Tail(@))]
    <3>1. rsock[b] \in Conns
      BY <1>5 DEF ReceiveFails, ReceiveGarbled, ReadsOpen, TypeInv, TypeOK, ThreadsOK, BridgeTypeOK
    <3>2. PICK s \in Seq(Messages) : s = toBridge[rsock[b]]
      BY <1>0, <3>1
    <3>3. LeftOf(Tail(Tail(s)), s)
      BY <2>2, <3>2, TwiceTailLeft
    <3>4. \A c \in Conns : LeftOf(toBridge'[c], toBridge[c])
      BY <1>0, <2>2, <3>1, <3>2, <3>3, SameLeft
    <3>5. QED
      BY <2>1, <3>4, <1>kept, LeftQueuesKept
  <2>3. CASE \A c \in Conns : toBridge'[c] \in {toBridge[c], <<>>}
    BY <2>1, <2>3, <1>kept, <1>left
  <2>4. QED
    BY <1>0, <1>5, <2>2, <2>3 DEF ReceiveFails, ReceiveGarbled
<1>6. CASE KillCall(b)
  <2>1. /\ UNCHANGED <<toBridge, reply>>
        /\ lastResp' = [lastResp EXCEPT ![b] = NoResponse]
        /\ kpc' = [kpc EXCEPT ![b] = "send"]
    BY <1>6 DEF KillCall, ForgetResponse, socketVars
  <2>2. QueuesKept
    BY <2>1, <1>left
  <2>3. ASSUME NEW q \in Requests
        PROVE  (ToSend(q)' => ToSend(q)) /\ (Reported(q)' => Reported(q))
    BY <1>0, <2>1 DEF ToSend, Reported
  <2>4. \A a \in Bridges, q \in Requests : Arrived(a, q)' => Arrived(a, q)
    BY <1>0, <2>1 DEF Arrived, IsResponse, NoResponse
  <2>5. \A a \in Bridges : lastResp'[a] \in {lastResp[a], NoResponse}
    BY <1>0, <2>1
  <2>6. QED
    BY <1>0, <2>2, <2>3, <2>4, <2>5, NoResponseAdvances
<1>7. CASE KillSend(b)
  <2>1. UNCHANGED <<toBridge, lastResp, reply>> /\ kpc[b] # "idle"
        /\ kpc' = [kpc EXCEPT ![b] = "wait"]
    BY <1>7 DEF KillSend
  <2>2. QED
    BY <1>0, <2>1, <1>kept, <1>left
<1>8. CASE KillRefused(b) \/ KillTimeout(b)
  <2>1. PICK by \in {"refused", "timeout"} : Answer(b, Reply(by, NoReq, FALSE))
    BY <1>8 DEF KillRefused, KillTimeout
  <2>2. UNCHANGED <<toBridge, lastResp>> /\ kpc[b] # "idle"
    BY <1>8 DEF KillRefused, KillTimeout, socketVars
  <2>3. \A r \in Requests : reply'[r].by = "response" => reply'[r] = reply[r]
    BY <1>0, <2>1 DEF Answer, Reply
  <2>4. kpc' = [kpc EXCEPT ![b] = "idle"]
    BY <2>1 DEF Answer
  <2>5. QED
    BY <1>0, <2>2, <2>3, <2>4, <1>kept, <1>left
<1>9. CASE KillReturn(b)
  BY <1>9, ReturnKeepsResponseInv
<1>10. QED
  BY <1>1, <1>2, <1>3, <1>4, <1>5, <1>6, <1>7, <1>8, <1>9
     DEF BridgeNext, ReaderSteps, ServiceSteps

-----------------------------------------------------------------------------
\* Every step of the link is a step of KillService or leaves it alone.

LinkInv == TypeInv /\ RequestInv /\ ResponseInv /\ CallsOpen

calls == <<issued, outcome, reply>>

\* A call is answered: it was made, and it was open.
LEMMA AnswerIsAbstract ==
  ASSUME LinkInv, NEW b \in Bridges, kpc[b] # "idle", NEW answer, Answer(b, answer),
         UNCHANGED <<issued, outcome>>
  PROVE  req[b] \in Requests /\ Kills!Answer(req[b], answer) /\ CallsOpen'
<1>0. /\ req \in [Bridges -> Requests \cup {NoReq}]
      /\ reply \in [Requests -> Replies]
  BY DEF LinkInv, TypeInv, TypeOK, BridgeTypeOK
<1>1. PICK r \in Requests : r = req[b]
  BY <1>0 DEF LinkInv, TypeInv, ThreadsOK
<1>2. r \in issued /\ reply[r].by = "none"
  BY <1>1 DEF LinkInv, RequestInv, OnlyIssued, CallsOpen
<1>3. reply' = [reply EXCEPT ![r] = answer] /\ req' = [req EXCEPT ![b] = NoReq]
  BY <1>1 DEF Answer
<1>4. Kills!Answer(r, answer)
  BY <1>2, <1>3 DEF Kills!Answer, Kills!Unanswered
<1>5. \A a \in Bridges : req'[a] # r
  BY RequestsAssumption, <1>0, <1>1, <1>3 DEF LinkInv, RequestInv, OneBridge
<1>6. CallsOpen'
  BY RequestsAssumption, <1>0, <1>2, <1>3, <1>5 DEF LinkInv, CallsOpen
<1>7. QED
  BY <1>1, <1>4, <1>6

LEMMA KillIsAbstract ==
  ASSUME LinkInv, Kill, UNCHANGED bridgeVars
  PROVE  Kills!Next /\ CallsOpen'
<1>1. pending \in Requests /\ InHand(pending)
  BY DEF LinkInv, TypeInv, TypeOK, ThreadsOK, DaemonTypeOK, Kill, InHand
<1>2. /\ pending \in issued /\ outcome[pending] = "none" /\ reply[pending].by # "refused"
  BY <1>1 DEF LinkInv, RequestInv, PendingIsOpen, OnlyIssued, Pending
<1>3. /\ \E o \in Outcomes \ {"none"} : outcome' = [outcome EXCEPT ![pending] = o]
      /\ UNCHANGED <<issued, reply, req>>
  BY DEF Kill, bridgeVars, serviceVars
<1>4. Kills!Signal(pending)
  BY <1>2, <1>3 DEF Kills!Signal, Kills!Outcomes, Outcomes
<1>5. CallsOpen'
  BY <1>3 DEF LinkInv, CallsOpen
<1>6. QED
  BY <1>1, <1>4, <1>5 DEF Kills!Next

LEMMA DaemonIsAbstract ==
  ASSUME LinkInv, DaemonNext, UNCHANGED bridgeVars
  PROVE  (Kills!Next \/ UNCHANGED calls) /\ CallsOpen'
<1>1. CASE Kill
  BY <1>1, KillIsAbstract
<1>2. CASE ~Kill
  <2>1. outcome' = outcome
    BY <1>2 DEF DaemonNext, DaemonSteps, StartDaemon, Crash, Stop, Shutdown, Exit, Collect,
                SendStatus, HandleClientMessages, Respond, Accept, Install, AcceptEnds
  <2>2. UNCHANGED <<issued, reply, req>>
    BY DEF bridgeVars, serviceVars
  <2>3. QED
    BY <2>1, <2>2 DEF calls, LinkInv, CallsOpen
<1>3. QED
  BY <1>1, <1>2

LEMMA ReturnIsAbstract ==
  ASSUME LinkInv, NEW b \in Bridges, KillReturn(b), UNCHANGED daemonVars
  PROVE  Kills!Next /\ CallsOpen'
<1>1. /\ kpc[b] # "idle" /\ lastResp[b] \in KillResponses
      /\ Answer(b, Reply("response", lastResp[b].of, lastResp[b].success))
      /\ UNCHANGED <<issued, outcome>>
  BY DEF KillReturn, daemonVars, LinkInv, TypeInv, TypeOK, BridgeTypeOK
<1>2. PICK q \in Requests : q = lastResp[b].of
  BY <1>1 DEF KillResponses
<1>3. /\ req[b] \in Requests /\ CallsOpen'
      /\ Kills!Answer(req[b], Reply("response", q, lastResp[b].success))
  BY <1>1, <1>2, AnswerIsAbstract
<1>4. Arrived(b, q)
  BY <1>1, <1>2 DEF Arrived, IsResponse, KillResponses
<1>5. q \in issued /\ outcome[q] # "none"
  BY <1>4 DEF LinkInv, ResponseInv, ResponseNeedsOutcome, Responded, Arrived, RequestInv,
              OnlyIssued
<1>6. \A p \in issued : reply[p].by = "response" => reply[p].of # q
  BY <1>4 DEF LinkInv, ResponseInv, ResponseInOnePlace, Reported, TypeInv, TypeOK, BridgeTypeOK
<1>7. lastResp[b].success = (outcome[q] = "sent")
  <2>1. lastResp[b].success \in BOOLEAN /\ (lastResp[b].success <=> outcome[q] = "sent")
    BY <1>1, <1>2 DEF LinkInv, ResponseInv, ResponsesFaithful, Faithful, KillResponses
  <2>2. QED
    BY <2>1
<1>8. Kills!Answer(req[b], Kills!Reply("response", q, outcome[q] = "sent"))
  BY <1>3, <1>7 DEF Reply, Kills!Reply
<1>9. Kills!Report(req[b])
  BY <1>5, <1>6, <1>8 DEF Kills!Report
<1>10. QED
  BY <1>3, <1>9 DEF Kills!Next

LEMMA BridgeIsAbstract ==
  ASSUME LinkInv, NEW b \in Bridges, NEW listening \in BOOLEAN,
         BridgeNext(b, listening), UNCHANGED daemonVars
  PROVE  (Kills!Next \/ UNCHANGED calls) /\ CallsOpen'
<1>0. /\ outcome' = outcome
      /\ req \in [Bridges -> Requests \cup {NoReq}]
      /\ reply \in [Requests -> Replies]
  BY DEF daemonVars, LinkInv, TypeInv, TypeOK, BridgeTypeOK
<1>same. ASSUME UNCHANGED <<issued, reply, req>>
         PROVE  (Kills!Next \/ UNCHANGED calls) /\ CallsOpen'
  BY <1>0, <1>same DEF calls, LinkInv, CallsOpen
<1>1. CASE BridgeExit(b)
  <2>1. /\ reply' = [r \in Requests |-> IF r = req[b] THEN Reply("aborted", NoReq, FALSE)
                                                     ELSE reply[r]]
        /\ req' = [req EXCEPT ![b] = NoReq] /\ issued' = issued
    BY <1>1 DEF BridgeExit
  <2>2. CASE req[b] \in Requests
    <3>1. PICK r \in Requests : r = req[b]
      BY <2>2
    <3>2. r \in issued /\ reply[r].by = "none"
      BY <3>1 DEF LinkInv, RequestInv, OnlyIssued, CallsOpen
    <3>3. reply' = [reply EXCEPT ![r] = Reply("aborted", NoReq, FALSE)]
      BY <1>0, <2>1, <3>1
    <3>4. Kills!GiveUp(r)
      BY <1>0, <2>1, <3>2, <3>3
         DEF Kills!GiveUp, Kills!Answer, Kills!Unanswered, Kills!Reply, Reply
    <3>5. \A a \in Bridges : req'[a] # r
      BY RequestsAssumption, <1>0, <2>1, <3>1 DEF LinkInv, RequestInv, OneBridge
    <3>6. CallsOpen'
      BY RequestsAssumption, <1>0, <2>1, <3>2, <3>3, <3>5 DEF LinkInv, CallsOpen
    <3>7. QED
      BY <3>4, <3>6 DEF Kills!Next
  <2>3. CASE req[b] \notin Requests
    <3>1. reply' = reply /\ req' = req
      BY <1>0, <2>1, <2>3
    <3>2. QED
      BY <2>1, <3>1, <1>same
  <2>4. QED
    BY <2>2, <2>3
<1>2. CASE KillCall(b)
  <2>1. PICK r \in Requests \ issued :
          issued' = issued \cup {r} /\ req' = [req EXCEPT ![b] = r]
    BY <1>2 DEF KillCall
  <2>2. reply' = reply
    BY <1>2 DEF KillCall
  <2>3. Kills!Call(r)
    BY <1>0, <2>1, <2>2 DEF Kills!Call
  <2>4. CallsOpen'
    BY <1>0, <2>1, <2>2 DEF LinkInv, CallsOpen
  <2>5. QED
    BY <2>1, <2>3, <2>4 DEF Kills!Next
<1>3. CASE KillSend(b)
  BY <1>3, <1>same DEF KillSend
<1>4. CASE KillRefused(b)
  <2>1. /\ Answer(b, Reply("refused", NoReq, FALSE)) /\ kpc[b] = "send" /\ issued' = issued
    BY <1>4 DEF KillRefused
  <2>2. /\ req[b] \in Requests /\ CallsOpen'
        /\ Kills!Answer(req[b], Reply("refused", NoReq, FALSE))
    BY <1>0, <2>1, AnswerIsAbstract
  <2>3. outcome[req[b]] = "none"
    BY <2>1, <2>2 DEF LinkInv, RequestInv, PendingIsOpen, Pending, Asking
  <2>4. Kills!Refuse(req[b])
    BY <2>2, <2>3 DEF Kills!Refuse, Kills!Reply, Reply
  <2>5. QED
    BY <2>2, <2>4 DEF Kills!Next
<1>5. CASE KillReturn(b)
  BY <1>5, ReturnIsAbstract
<1>6. CASE KillTimeout(b)
  <2>1. /\ Answer(b, Reply("timeout", NoReq, FALSE)) /\ kpc[b] = "wait" /\ issued' = issued
    BY <1>6 DEF KillTimeout
  <2>2. /\ req[b] \in Requests /\ CallsOpen'
        /\ Kills!Answer(req[b], Reply("timeout", NoReq, FALSE))
    BY <1>0, <2>1, AnswerIsAbstract
  <2>3. Kills!GiveUp(req[b])
    BY <2>2 DEF Kills!GiveUp, Kills!Reply, Reply
  <2>4. QED
    BY <2>2, <2>3 DEF Kills!Next
<1>7. CASE StartBridge(b) \/ DestroyNode(b) \/ Publish(b)
  BY <1>7, <1>same DEF StartBridge, DestroyNode, Publish, serviceVars
<1>8. CASE ReaderSteps(b, listening)
  BY <1>8, <1>same
     DEF ReaderSteps, ConnectFails, Connect, InstallSocket, PickSocket, Receive,
         ReceiveTimesOut, ReceiveFails, ReceiveGarbled, Disconnect, bridgeVars, serviceVars
<1>9. QED
  BY <1>1, <1>2, <1>3, <1>4, <1>5, <1>6, <1>7, <1>8 DEF BridgeNext, ServiceSteps

LEMMA LinkStep ==
  ASSUME LinkInv, [Next]_vars
  PROVE  /\ ResponseInv' /\ CallsOpen'
         /\ Kills!Next \/ UNCHANGED calls
<1>0. TypeInv /\ RequestInv /\ ResponseInv
  BY DEF LinkInv
<1>1. CASE DaemonNext /\ UNCHANGED bridgeVars
  BY <1>0, <1>1, DaemonKeepsResponseInv, DaemonIsAbstract
<1>2. CASE \E b \in Bridges : BridgeNext(b, Listening) /\ UNCHANGED daemonVars
  <2>1. Listening \in BOOLEAN
    BY Zenon DEF Listening
  <2>2. QED
    BY <1>0, <1>2, <2>1, BridgeKeepsResponseInv, BridgeIsAbstract
<1>3. CASE UNCHANGED vars
  <2>1. UNCHANGED <<toBridge, dpc, pending, kpc, lastResp, reply, outcome, req, issued>>
    BY <1>3 DEF vars, socketVars, daemonVars, threadVars, bridgeVars, serviceVars
  <2>2. QueuesKept
    BY <1>0, <2>1, SameLeft, LeftQueuesKept
  <2>3. ASSUME NEW q \in Requests
        PROVE  /\ ToSend(q)' => ToSend(q)
               /\ Reported(q)' => Reported(q)
               /\ \A b \in Bridges : Arrived(b, q)' => Arrived(b, q)
    BY <2>1 DEF ToSend, Reported, Arrived
  <2>4. ResponseInv'
    BY <1>0, <2>1, <2>2, <2>3, NoResponseAdvances
  <2>5. QED
    BY <2>1, <2>4 DEF calls, LinkInv, CallsOpen
<1>4. QED
  BY <1>1, <1>2, <1>3 DEF Next

LEMMA LinkInit == Init => ResponseInv /\ CallsOpen /\ Kills!Init
<1> SUFFICES ASSUME Init PROVE ResponseInv /\ CallsOpen /\ Kills!Init
  OBVIOUS
<1>1. /\ toBridge = [c \in Conns |-> <<>>] /\ dpc = "down"
      /\ lastResp = [b \in Bridges |-> NoResponse] /\ issued = {}
      /\ outcome = [r \in Requests |-> "none"] /\ reply = [r \in Requests |-> NoReply]
  BY DEF Init, SocketInit, DaemonInit, BridgeInit
<1>2. \A q \in Requests : ~Carries(<<>>, q)
  BY DEF Carries
<1>3. \A q \in Requests : /\ ~ToSend(q) /\ ~OnItsWay(q) /\ ~Reported(q)
                          /\ \A b \in Bridges : ~IsResponse(lastResp[b], q)
  BY <1>1, <1>2 DEF ToSend, OnItsWay, Reported, IsResponse, NoResponse, NoReply, Reply
<1>4. CarriedOnce
  BY <1>1, <1>2 DEF CarriedOnce, CarriesOnce
<1>5. ResponseInOnePlace /\ ResponseNeedsOutcome
  BY <1>3 DEF ResponseInOnePlace, ResponseNeedsOutcome, Responded, Arrived
<1>6. ResponsesFaithful
  BY <1>1 DEF ResponsesFaithful, Faithful, NoResponse
<1>7. CallsOpen
  BY <1>1 DEF CallsOpen, NoReply, Reply
<1>8. Kills!Init
  BY <1>1 DEF Kills!Init, NoReply, Reply, Kills!Reply
<1>9. QED
  BY <1>4, <1>5, <1>6, <1>7, <1>8 DEF ResponseInv

\* The kill service as a whole, from the call of the service to psutil and back, does
\* what KillService says, for any number of bridges, connections, calls and restarts.
THEOREM LinkImplementsKillService == Spec => KillServiceSpec
<1>1. Init => ResponseInv /\ CallsOpen /\ Kills!Init
  BY LinkInit
<1>2. TypeInv /\ RequestInv /\ ResponseInv /\ CallsOpen /\ [Next]_vars
        => ResponseInv' /\ CallsOpen' /\ [Kills!Next]_Kills!vars
  BY LinkStep DEF LinkInv, calls, Kills!vars
<1>3. QED
  BY <1>1, <1>2, SpecTypeInv, SpecRequestInv, PTL DEF Spec, KillServiceSpec, Kills!Spec

-----------------------------------------------------------------------------
\* Whose response a call gets.  Responses carry no request id, so what may arrive during a
\* call is the response to any request that is still under way.

OneBridgeOnly == \A a, b \in Bridges : a = b

Underway(q)  == Pending(q) \/ ToSend(q) \/ OnItsWay(q) \/ \E b \in Bridges : Arrived(b, q)
Serves(b, q) == req[b] = q
Lost(q)      == reply[q].by \in {"timeout", "aborted"}
LostUpTo(q)  == \E p \in Requests : p <= q /\ Lost(p)

\* Requests are made in their order, and the one that is served is the last.
InTurn ==
  /\ \A q \in issued, p \in Requests : p < q => p \in issued
  /\ \A b \in Bridges, q \in Requests : Serves(b, q) => \A p \in issued : p <= q
  /\ \A b \in Bridges : kpc[b] = "idle" => req[b] = NoReq

\* A request that is under way is the one that is served, or follows a lost call: its own,
\* or one whose response its own call took for the one to it.
ServedOrLate ==
  \A q \in Requests : Underway(q) => LostUpTo(q) \/ \E b \in Bridges : Serves(b, q)

WrongNeedsLost ==
  \A r \in Requests :
    (reply[r].by = "response" /\ reply[r].of # r) => \E p \in Requests : p < r /\ Lost(p)

TurnInv == InTurn /\ ServedOrLate /\ WrongNeedsLost

LEMMA LostStays ==
  ASSUME LinkInv, [Next]_vars, NEW q \in Requests, Lost(q)
  PROVE  Lost(q)'
<1>0. reply \in [Requests -> Replies]
  BY DEF LinkInv, TypeInv, TypeOK, BridgeTypeOK
<1>1. CASE UNCHANGED calls
  BY <1>1 DEF calls, Lost
<1>2. CASE Kills!Next
  <2>1. reply' = reply \/ \E r \in Requests : \E answer : Kills!Answer(r, answer)
    BY <1>2 DEF Kills!Next, Kills!Call, Kills!Signal, Kills!Refuse, Kills!GiveUp, Kills!Report
  <2>2. ASSUME NEW r \in Requests, NEW answer, Kills!Answer(r, answer) PROVE Lost(q)'
    <3>1. reply[r].by = "none" /\ reply' = [reply EXCEPT ![r] = answer]
      BY <2>2 DEF Kills!Answer, Kills!Unanswered
    <3>2. r # q
      BY <3>1 DEF Lost
    <3>3. QED
      BY <1>0, <3>1, <3>2 DEF Lost
  <2>3. QED
    BY <2>1, <2>2 DEF Lost
<1>3. QED
  BY <1>1, <1>2, LinkStep

\* A request that is reported or was refused is not under way any more.
LEMMA DoneIsOver ==
  ASSUME RequestInv', ResponseInv', NEW q \in Requests,
         Reported(q)' \/ reply'[q].by = "refused"
  PROVE  ~Underway(q)'
<1>1. CASE Reported(q)'
  <2>1. ~ToSend(q)' /\ ~OnItsWay(q)' /\ \A b \in Bridges : ~Arrived(b, q)'
    BY <1>1 DEF ResponseInv, ResponseInOnePlace
  <2>2. outcome'[q] # "none"
    BY <1>1 DEF ResponseInv, ResponseNeedsOutcome, Responded
  <2>3. ~Pending(q)'
    BY <2>2 DEF RequestInv, PendingIsOpen
  <2>4. QED
    BY <2>1, <2>3 DEF Underway
<1>2. CASE reply'[q].by = "refused"
  <2>1. outcome'[q] = "none" /\ ~Pending(q)'
    BY <1>2 DEF RequestInv, PendingIsOpen, RefusedIsNeverSignalled
  <2>2. ~Responded(q)'
    BY <2>1 DEF ResponseInv, ResponseNeedsOutcome
  <2>3. QED
    BY <2>1, <2>2 DEF Underway, Responded, Arrived
<1>3. QED
  BY <1>1, <1>2

\* Each place is reached from another one only.
LEMMA DaemonUnderway ==
  ASSUME LinkInv, DaemonNext, UNCHANGED bridgeVars, NEW q \in Requests, Underway(q)'
  PROVE  Underway(q)
<1>0. /\ UNCHANGED <<kpc, req, lastResp>>
      /\ toDaemon \in [Conns -> Seq(Requests)] /\ toBridge \in [Conns -> Seq(Messages)]
  BY DEF bridgeVars, serviceVars, LinkInv, TypeInv, TypeOK, SocketTypeOK
<1>1. /\ \A b \in Bridges : Asking(b, q)' <=> Asking(b, q)
      /\ \A b \in Bridges : Arrived(b, q)' <=> Arrived(b, q)
  BY <1>0 DEF Asking, Arrived
<1>2. Queued(q)' => Queued(q)
  <2>1. ASSUME NEW c \in Conns, ElementOf(toDaemon'[c], q) PROVE ElementOf(toDaemon[c], q)
    <3>1. CASE toDaemon'[c] \in {toDaemon[c], <<>>}
      BY <2>1, <3>1, EmptyHasNoElement
    <3>2. CASE HandleClientMessages /\ toDaemon[c] # <<>> /\ toDaemon'[c] = Tail(toDaemon[c])
      <4>1. NoneTwice(toDaemon[c])
        BY DEF LinkInv, RequestInv, QueuedOnce
      <4>2. QED
        BY <1>0, <2>1, <3>2, <4>1, TailElement
    <3>3. QED
      BY <1>0, <3>1, <3>2
         DEF DaemonNext, DaemonSteps, StartDaemon, Crash, Stop, Shutdown, Exit, Collect, SendStatus,
             DropClient, CloseDaemonEnds, HandleClientMessages, ReadRequest, Kill, Respond, Accept,
             Install, AcceptEnds, socketVars
  <2>2. QED
    BY <2>1 DEF Queued
<1>3. InHand(q)' => InHand(q) \/ Queued(q)
  <2>1. CASE HandleClientMessages
    <3>1. SUFFICES ASSUME InHand(q)' PROVE Queued(q)
      OBVIOUS
    <3>2. client \in Conns /\ toDaemon[client] # <<>> /\ q = Head(toDaemon[client])
      BY <2>1, <3>1 DEF HandleClientMessages, ReadRequest, InHand, LinkInv, TypeInv, TypeOK,
                        DaemonTypeOK
    <3>3. NoneTwice(toDaemon[client])
      BY <3>2 DEF LinkInv, RequestInv, QueuedOnce
    <3>4. ElementOf(toDaemon[client], q)
      BY <1>0, <3>2, <3>3, TailElement
    <3>5. QED
      BY <3>2, <3>4 DEF Queued
  <2>2. CASE ~HandleClientMessages
    <3>1. dpc' # "kill" \/ UNCHANGED <<dpc, pending>>
      BY <2>2 DEF DaemonNext, DaemonSteps, StartDaemon, Crash, Stop, Shutdown, Exit, Collect,
                  SendStatus, Kill, Respond, Accept, Install, AcceptEnds
    <3>2. QED
      BY <3>1 DEF InHand
  <2>3. QED
    BY <2>1, <2>2
<1>4. ToSend(q)' => ToSend(q) \/ InHand(q)
  BY DEF ToSend, InHand, DaemonNext, DaemonSteps, StartDaemon, Crash, Stop, Shutdown, Exit, Collect,
         SendStatus, HandleClientMessages, Kill, Respond, Accept, Install, AcceptEnds
<1>5. OnItsWay(q)' => OnItsWay(q) \/ ToSend(q)
  <2>1. CASE UNCHANGED toBridge
    BY <2>1 DEF OnItsWay
  <2>2. ASSUME NEW m \in Messages, client \in Conns, PutToBridge(client, m),
               IsResponse(m, q) => ToSend(q)
        PROVE  OnItsWay(q)' => OnItsWay(q) \/ ToSend(q)
    <3>1. /\ toBridge'[client] = Append(toBridge[client], m) /\ toBridge[client] \in Seq(Messages)
          /\ \A c \in Conns \ {client} : toBridge'[c] = toBridge[c]
      BY <1>0, <2>2 DEF PutToBridge
    <3>2. Carries(toBridge'[client], q) <=> Carries(toBridge[client], q) \/ IsResponse(m, q)
      BY <3>1, AppendCarries
    <3>3. QED
      BY <2>2, <3>1, <3>2 DEF OnItsWay
  <2>3. Torn \in Messages /\ ~IsResponse(Torn, q)
    BY DEF Torn, Messages, IsResponse
  <2>4. CASE SendStatus
    <3>1. Status(Snapshot) \in Messages /\ ~IsResponse(Status(Snapshot), q)
      BY <2>4 DEF SendStatus, Status, Snapshot, Messages, Statuses, Snapshots, IsResponse,
                  LinkInv, TypeInv, TypeOK, ThreadsOK, DaemonTypeOK
    <3>2. \/ UNCHANGED toBridge
          \/ client \in Conns /\ \E m \in {Status(Snapshot), Torn} : PutToBridge(client, m)
      BY <2>4 DEF SendStatus, LinkInv, TypeInv, TypeOK, DaemonTypeOK
    <3>3. QED
      BY <2>1, <2>2, <2>3, <3>1, <3>2
  <2>5. CASE Respond
    <3>1. /\ dpc = "respond" /\ pending \in Requests /\ outcome \in [Requests -> Outcomes]
      BY <2>5 DEF Respond, LinkInv, TypeInv, TypeOK, ThreadsOK, DaemonTypeOK
    <3> DEFINE m == KillResponse(pending, Succeeded(outcome[pending]))
    <3>2. Succeeded(outcome[pending]) \in BOOLEAN
      BY Zenon DEF Succeeded
    <3>3. m \in Messages /\ (IsResponse(m, q) => ToSend(q))
      BY <3>1, <3>2 DEF KillResponse, Messages, KillResponses, IsResponse, ToSend
    <3> HIDE DEF m
    <3>4. \/ UNCHANGED toBridge
          \/ client \in Conns /\ (PutToBridge(client, Torn) \/ PutToBridge(client, m))
      BY <2>5 DEF Respond, m, LinkInv, TypeInv, TypeOK, DaemonTypeOK
    <3>5. QED
      BY <2>1, <2>2, <2>3, <3>3, <3>4
  <2>6. CASE ~SendStatus /\ ~Respond
    <3>1. UNCHANGED toBridge
      BY <2>6 DEF DaemonNext, DaemonSteps, StartDaemon, Crash, Stop, Shutdown, Exit, Collect,
                  HandleClientMessages, Kill, Accept, Install, AcceptEnds, socketVars
    <3>2. QED
      BY <2>1, <3>1
  <2>7. QED
    BY <2>4, <2>5, <2>6
<1>6. QED
  BY <1>1, <1>2, <1>3, <1>4, <1>5 DEF Underway, Pending

\* A call is the only thing that sets a request under way.
LEMMA BridgeUnderway ==
  ASSUME LinkInv, NEW b \in Bridges, NEW listening \in BOOLEAN,
         BridgeNext(b, listening), UNCHANGED daemonVars, NEW q \in Requests, Underway(q)'
  PROVE  Underway(q) \/ (KillCall(b) /\ Serves(b, q)')
<1>0. /\ UNCHANGED <<dpc, pending>>
      /\ toDaemon \in [Conns -> Seq(Requests)] /\ toBridge \in [Conns -> Seq(Messages)]
      /\ kpc \in [Bridges -> {"idle", "send", "wait"}]
      /\ req \in [Bridges -> Requests \cup {NoReq}]
      /\ lastResp \in [Bridges -> KillResponses \cup {NoResponse}]
  BY DEF daemonVars, threadVars, LinkInv, TypeInv, TypeOK, SocketTypeOK, BridgeTypeOK
<1>1. (ToSend(q)' <=> ToSend(q)) /\ (InHand(q)' <=> InHand(q))
  BY <1>0 DEF ToSend, InHand
<1>over. ASSUME \A c \in Conns : ElementOf(toDaemon'[c], q) => ElementOf(toDaemon[c], q) \/ Asking(b, q),
                \A c \in Conns : Carries(toBridge'[c], q) => Carries(toBridge[c], q),
                \A a \in Bridges : Asking(a, q)' => Asking(a, q) \/ (KillCall(b) /\ Serves(b, q)'),
                \A a \in Bridges : Arrived(a, q)' => Arrived(a, q) \/ OnItsWay(q)
         PROVE  Underway(q) \/ (KillCall(b) /\ Serves(b, q)')
  <2>1. (Queued(q)' => Queued(q) \/ Asking(b, q)) /\ (OnItsWay(q)' => OnItsWay(q))
    BY <1>over DEF Queued, OnItsWay
  <2>2. QED
    BY <1>1, <1>over, <2>1 DEF Underway, Pending
<1>2. CASE KillCall(b)
  <2>1. /\ UNCHANGED <<toDaemon, toBridge>>
        /\ lastResp' = [lastResp EXCEPT ![b] = NoResponse] /\ kpc' = [kpc EXCEPT ![b] = "send"]
        /\ \E r \in Requests : req' = [req EXCEPT ![b] = r]
    BY <1>2 DEF KillCall, ForgetResponse, socketVars
  <2>2. \A a \in Bridges : Arrived(a, q)' => Arrived(a, q)
    BY <1>0, <2>1 DEF Arrived, IsResponse, NoResponse
  <2>3. \A a \in Bridges : Asking(a, q)' => Asking(a, q) \/ Serves(b, q)'
    BY <1>0, <2>1 DEF Asking, Serves
  <2>4. QED
    BY <1>2, <1>over, <2>1, <2>2, <2>3
<1>3. CASE KillSend(b)
  <2>1. /\ UNCHANGED <<toBridge, lastResp, req>> /\ kpc[b] = "send"
        /\ kpc' = [kpc EXCEPT ![b] = "wait"]
        /\ sock[b] \in Conns
        /\ toDaemon' = [toDaemon EXCEPT ![sock[b]] = Append(@, req[b])]
    BY <1>3 DEF KillSend, CanSend, LinkInv, TypeInv, TypeOK, BridgeTypeOK
  <2>2. PICK r \in Requests : r = req[b]
    BY <1>0, <2>1 DEF LinkInv, TypeInv, ThreadsOK
  <2>3. Asking(b, r)
    BY <2>1, <2>2 DEF Asking
  <2>4. ~ElementOf(toDaemon[sock[b]], r) /\ NoneTwice(toDaemon[sock[b]])
    BY <2>1, <2>3 DEF LinkInv, RequestInv, OnePlace, Queued, QueuedOnce
  <2>5. ElementOf(toDaemon'[sock[b]], q) <=> ElementOf(toDaemon[sock[b]], q) \/ q = r
    BY <1>0, <2>1, <2>2, <2>4, AppendElement
  <2>6. \A c \in Conns : ElementOf(toDaemon'[c], q) => ElementOf(toDaemon[c], q) \/ Asking(b, q)
    BY <1>0, <2>1, <2>3, <2>5
  <2>7. \A a \in Bridges : (Asking(a, q)' => Asking(a, q)) /\ (Arrived(a, q)' => Arrived(a, q))
    BY <1>0, <2>1 DEF Asking, Arrived
  <2>8. QED
    BY <1>over, <2>1, <2>6, <2>7
<1>4. CASE KillRefused(b) \/ KillReturn(b) \/ KillTimeout(b)
  <2>1. /\ UNCHANGED <<toDaemon, toBridge, lastResp>>
        /\ kpc' = [kpc EXCEPT ![b] = "idle"] /\ req' = [req EXCEPT ![b] = NoReq]
    BY <1>4 DEF KillRefused, KillReturn, KillTimeout, Answer, socketVars
  <2>2. \A a \in Bridges : (Asking(a, q)' => Asking(a, q)) /\ (Arrived(a, q)' => Arrived(a, q))
    BY <1>0, <2>1 DEF Asking, Arrived
  <2>3. QED
    BY <1>over, <2>1, <2>2
<1>5. CASE BridgeExit(b)
  <2>1. /\ UNCHANGED toDaemon /\ \A c \in Conns : toBridge'[c] \in {toBridge[c], <<>>}
        /\ lastResp' = [lastResp EXCEPT ![b] = NoResponse]
        /\ kpc' = [kpc EXCEPT ![b] = "idle"] /\ req' = [req EXCEPT ![b] = NoReq]
    BY <1>5 DEF BridgeExit, CloseBridgeEnds
  <2>2. \A a \in Bridges : (Asking(a, q)' => Asking(a, q)) /\ (Arrived(a, q)' => Arrived(a, q))
    BY <1>0, <2>1 DEF Asking, Arrived
  <2>3. \A c \in Conns : Carries(toBridge'[c], q) => Carries(toBridge[c], q)
    BY <2>1, EmptyLeft DEF LeftOf
  <2>4. QED
    BY <1>over, <2>1, <2>2, <2>3
<1>6. CASE StartBridge(b) \/ DestroyNode(b) \/ Publish(b) \/ ReaderSteps(b, listening)
  <2>1. UNCHANGED <<toDaemon, kpc, req>>
    BY <1>6 DEF StartBridge, DestroyNode, Publish, ReaderSteps, ConnectFails, Connect, Open,
                InstallSocket, PickSocket, Receive, ReceiveTimesOut, ReceiveFails, ReceiveGarbled,
                Disconnect, bridgeVars, serviceVars, socketVars
  <2>2. \A a \in Bridges : Asking(a, q)' => Asking(a, q)
    BY <2>1 DEF Asking
  <2>3. CASE Receive(b)
    <3>1. rsock[b] \in Conns
      BY <2>3 DEF Receive, ReadsOpen, LinkInv, TypeInv, TypeOK, ThreadsOK, BridgeTypeOK
    <3> DEFINE c == rsock[b]
               m == Head(toBridge[c])
    <3>2. /\ toBridge[c] # <<>> /\ toBridge[c] \in Seq(Messages) /\ toBridge'[c] = Tail(toBridge[c])
          /\ \A d \in Conns \ {c} : toBridge'[d] = toBridge[d]
      BY <1>0, <2>3, <3>1 DEF Receive
    <3>3. UNCHANGED lastResp \/ lastResp' = [lastResp EXCEPT ![b] = m]
      BY <2>3 DEF Receive
    <3>4. c \in Conns
      BY <3>1
    <3> HIDE DEF c, m
    <3>5. LeftOf(toBridge'[c], toBridge[c]) /\ \E i \in DOMAIN toBridge[c] : toBridge[c][i] = m
      BY <3>2, TailLeft DEF m
    <3>6. \A d \in Conns : Carries(toBridge'[d], q) => Carries(toBridge[d], q)
      BY <3>2, <3>5 DEF LeftOf
    <3>7. IsResponse(m, q) => OnItsWay(q)
      BY <3>4, <3>5 DEF OnItsWay, Carries
    <3>8. \A a \in Bridges : Arrived(a, q)' => Arrived(a, q) \/ OnItsWay(q)
      BY <1>0, <2>1, <3>3, <3>7 DEF Arrived
    <3>9. QED
      BY <1>over, <2>1, <2>2, <3>6, <3>8
  <2>4. CASE ~Receive(b)
    <3>1. lastResp' = lastResp
      BY <1>6, <2>4 DEF StartBridge, DestroyNode, Publish, ReaderSteps, ConnectFails, Connect,
                InstallSocket, PickSocket, ReceiveTimesOut, ReceiveFails, ReceiveGarbled,
                Disconnect, bridgeVars, serviceVars
    <3>2. \A c \in Conns : \/ toBridge'[c] \in {toBridge[c], <<>>}
                           \/ Len(toBridge[c]) > 1 /\ toBridge'[c] = Tail(Tail(toBridge[c]))
      BY <1>0, <1>6, <2>4
         DEF StartBridge, DestroyNode, Publish, ReaderSteps, ConnectFails, Connect, Open,
             InstallSocket, PickSocket, ReceiveTimesOut, ReceiveFails, ReceiveGarbled,
             Disconnect, DropSocket, CloseBridgeEnds, bridgeVars, socketVars
    <3>3. \A c \in Conns : Carries(toBridge'[c], q) => Carries(toBridge[c], q)
      <4>1. SUFFICES ASSUME NEW c \in Conns PROVE LeftOf(toBridge'[c], toBridge[c])
        BY DEF LeftOf
      <4>2. CASE toBridge'[c] \in {toBridge[c], <<>>}
        BY <4>2, SameLeft, EmptyLeft
      <4>3. CASE Len(toBridge[c]) > 1 /\ toBridge'[c] = Tail(Tail(toBridge[c]))
        BY <1>0, <4>3, TwiceTailLeft
      <4>4. QED
        BY <3>2, <4>2, <4>3
    <3>4. \A a \in Bridges : Arrived(a, q)' => Arrived(a, q)
      BY <2>1, <3>1 DEF Arrived
    <3>5. QED
      BY <1>over, <2>1, <2>2, <3>3, <3>4
  <2>5. QED
    BY <2>3, <2>4
<1>7. QED
  BY <1>2, <1>3, <1>4, <1>5, <1>6 DEF BridgeNext, ServiceSteps

\* A step that answers no call and makes none keeps all of it.
LEMMA TurnKept ==
  ASSUME LinkInv, [Next]_vars, TurnInv, UNCHANGED <<issued, reply>>,
         \A q \in Requests : Underway(q)' => Underway(q),
         req' = req, \A b \in Bridges : kpc'[b] = "idle" => kpc[b] = "idle"
  PROVE  TurnInv'
<1>1. \A q \in Requests : (Lost(q)' <=> Lost(q)) /\ (LostUpTo(q)' <=> LostUpTo(q))
  BY DEF Lost, LostUpTo
<1>2. InTurn'
  BY DEF TurnInv, InTurn, Serves
<1>3. ServedOrLate'
  BY <1>1 DEF TurnInv, ServedOrLate, Serves
<1>4. WrongNeedsLost'
  BY <1>1 DEF TurnInv, WrongNeedsLost
<1>5. QED
  BY <1>2, <1>3, <1>4 DEF TurnInv

LEMMA CallKeepsTurn ==
  ASSUME OneBridgeOnly, LinkInv, [Next]_vars, TurnInv, NEW b \in Bridges, KillCall(b),
         UNCHANGED daemonVars,
         \A q \in Requests : Underway(q)' => Underway(q) \/ Serves(b, q)'
  PROVE  TurnInv'
<1>0. /\ kpc \in [Bridges -> {"idle", "send", "wait"}] /\ issued \subseteq Requests
      /\ req \in [Bridges -> Requests \cup {NoReq}]
  BY DEF LinkInv, TypeInv, TypeOK, BridgeTypeOK
<1>1. PICK r \in Requests \ issued :
        /\ \A q \in Requests : q < r => q \in issued
        /\ issued' = issued \cup {r} /\ req' = [req EXCEPT ![b] = r]
  BY DEF KillCall
<1>2. reply' = reply /\ kpc[b] = "idle" /\ kpc' = [kpc EXCEPT ![b] = "send"]
  BY DEF KillCall
<1>3. \A q \in Requests : (Lost(q)' <=> Lost(q)) /\ (LostUpTo(q)' <=> LostUpTo(q))
  BY <1>2 DEF Lost, LostUpTo
<1>4. \A p \in issued : p <= r
  <2>1. SUFFICES ASSUME NEW p \in issued, r < p PROVE FALSE
    BY <1>0, <1>1, RequestsAssumption
  <2>2. r \in issued
    BY <1>1, <2>1 DEF TurnInv, InTurn
  <2>3. QED
    BY <1>1, <2>2
<1>5. InTurn'
  <2>1. \A q \in issued', p \in Requests : p < q => p \in issued'
    BY <1>1 DEF TurnInv, InTurn
  <2>2. \A a \in Bridges, q \in Requests : Serves(a, q)' => q = r
    BY <1>0, <1>1 DEF OneBridgeOnly, Serves
  <2>3. \A p \in issued' : p <= r
    BY <1>1, <1>4, RequestsAssumption
  <2>4. \A a \in Bridges : kpc'[a] # "idle"
    BY <1>0, <1>2 DEF OneBridgeOnly
  <2>5. QED
    BY <2>1, <2>2, <2>3, <2>4 DEF InTurn
<1>6. ServedOrLate'
  <2>1. \A a \in Bridges, q \in Requests : ~Serves(a, q)
    BY <1>2, RequestsAssumption DEF OneBridgeOnly, Serves, TurnInv, InTurn
  <2>2. QED
    BY <1>3, <2>1 DEF TurnInv, ServedOrLate
<1>7. WrongNeedsLost'
  BY <1>2, <1>3 DEF TurnInv, WrongNeedsLost
<1>8. QED
  BY <1>5, <1>6, <1>7 DEF TurnInv

\* A call ends: with its own response or a refusal, so that nothing of it is under way;
\* lost; or with the response to an earlier request, which followed a lost call.
LEMMA AnswerKeepsTurn ==
  ASSUME OneBridgeOnly, LinkInv, LinkInv', [Next]_vars, TurnInv,
         NEW b \in Bridges, NEW r \in Requests, NEW answer, Serves(b, r),
         reply' = [reply EXCEPT ![r] = answer], req' = [req EXCEPT ![b] = NoReq],
         issued' = issued,
         \A q \in Requests : Underway(q)' => Underway(q),
         \/ answer.by \in {"refused", "timeout", "aborted"}
         \/ answer.by = "response" /\ answer.of \in Requests /\ Underway(answer.of)
  PROVE  TurnInv'
<1>0. /\ reply \in [Requests -> Replies] /\ req \in [Bridges -> Requests \cup {NoReq}]
      /\ \A q \in Requests : Lost(q) => Lost(q)'
  BY LostStays DEF LinkInv, TypeInv, TypeOK, BridgeTypeOK
<1>1. /\ reply'[r] = answer /\ \A q \in Requests \ {r} : reply'[q] = reply[q]
      /\ \A a \in Bridges, q \in Requests : ~Serves(a, q)' /\ (Serves(a, q) => q = r)
  BY <1>0, RequestsAssumption DEF OneBridgeOnly, Serves
<1>2. \A q \in Requests : LostUpTo(q) => LostUpTo(q)'
  BY <1>0 DEF LostUpTo
<1>3. InTurn'
  <2>1. \A a \in Bridges : req'[a] = NoReq
    BY <1>0 DEF OneBridgeOnly
  <2>2. QED
    BY <1>1, <2>1 DEF TurnInv, InTurn
<1>4. \A q \in Requests : Underway(q) => LostUpTo(q) \/ q = r
  BY <1>1 DEF TurnInv, ServedOrLate
<1>5. ASSUME answer.by = "response", answer.of # r
      PROVE  \E p \in Requests : p < r /\ Lost(p)
  <2>1. PICK q \in Requests : q = answer.of /\ Underway(q) /\ q # r
    BY <1>5
  <2>2. PICK p \in Requests : p <= q /\ Lost(p)
    BY <1>4, <2>1 DEF LostUpTo
  <2>3. q \in issued
    BY <2>1 DEF Underway, Arrived, LinkInv, RequestInv, OnlyIssued, ResponseInv,
                ResponseNeedsOutcome, Responded
  <2>4. q <= r
    BY <2>3 DEF TurnInv, InTurn
  <2>5. p \in Nat /\ q \in Nat /\ r \in Nat
    BY RequestsAssumption
  <2>6. p < r
    BY <2>1, <2>2, <2>4, <2>5
  <2>7. QED
    BY <2>2, <2>6
<1>6. Underway(r)' => LostUpTo(r)'
  <2>1. CASE answer.by \in {"timeout", "aborted"}
    BY <1>1, <2>1, RequestsAssumption DEF Lost, LostUpTo
  <2>2. CASE answer.by = "refused"
    BY <1>1, <2>2, DoneIsOver DEF LinkInv
  <2>3. CASE answer.by = "response" /\ answer.of = r
    <3>1. Reported(r)'
      BY <1>1, <2>3 DEF Reported
    <3>2. QED
      BY <3>1, DoneIsOver DEF LinkInv
  <2>4. CASE answer.by = "response" /\ answer.of # r
    <3>1. PICK p \in Requests : p < r /\ Lost(p)
      BY <1>5, <2>4
    <3>2. p <= r
      BY <3>1, RequestsAssumption
    <3>3. QED
      BY <1>0, <3>1, <3>2 DEF LostUpTo
  <2>5. QED
    BY <2>1, <2>2, <2>3, <2>4
<1>7. ServedOrLate'
  BY <1>2, <1>4, <1>6 DEF ServedOrLate
<1>8. WrongNeedsLost'
  <2>1. ASSUME NEW s \in Requests, reply'[s].by = "response", reply'[s].of # s
        PROVE  \E p \in Requests : p < s /\ Lost(p)
    BY <1>1, <1>5, <2>1 DEF TurnInv, WrongNeedsLost
  <2>2. QED
    BY <1>0, <2>1 DEF WrongNeedsLost
<1>9. QED
  BY <1>3, <1>7, <1>8 DEF TurnInv

LEMMA BridgeKeepsTurn ==
  ASSUME OneBridgeOnly, LinkInv, LinkInv', [Next]_vars, TurnInv, NEW b \in Bridges,
         NEW listening \in BOOLEAN, BridgeNext(b, listening), UNCHANGED daemonVars
  PROVE  TurnInv'
<1>0. /\ kpc \in [Bridges -> {"idle", "send", "wait"}]
      /\ req \in [Bridges -> Requests \cup {NoReq}]
      /\ reply \in [Requests -> Replies]
  BY DEF LinkInv, TypeInv, TypeOK, BridgeTypeOK
<1>1. \A q \in Requests : Underway(q)' => Underway(q) \/ (KillCall(b) /\ Serves(b, q)')
  BY BridgeUnderway
<1>2. CASE KillCall(b)
  BY <1>1, <1>2, CallKeepsTurn
<1>3. CASE ~KillCall(b)
  <2>0. \A q \in Requests : Underway(q)' => Underway(q)
    BY <1>1, <1>3
  <2>1. kpc[b] # "idle" => req[b] \in Requests
    BY <1>0 DEF LinkInv, TypeInv, ThreadsOK
  <2>2. CASE KillRefused(b) \/ KillTimeout(b)
    <3>1. PICK by \in {"refused", "timeout"} : Answer(b, Reply(by, NoReq, FALSE))
      BY <2>2 DEF KillRefused, KillTimeout
    <3>2. issued' = issued /\ kpc[b] # "idle"
      BY <2>2 DEF KillRefused, KillTimeout
    <3>3. PICK r \in Requests : Serves(b, r) /\ r = req[b]
      BY <2>1, <3>2 DEF Serves
    <3>4. Reply(by, NoReq, FALSE).by \in {"refused", "timeout", "aborted"}
      BY DEF Reply
    <3>5. QED
      BY <2>0, <3>1, <3>2, <3>3, <3>4, AnswerKeepsTurn DEF Answer
  <2>3. CASE KillReturn(b)
    <3> DEFINE answer == Reply("response", lastResp[b].of, lastResp[b].success)
    <3>1. /\ Answer(b, answer) /\ issued' = issued /\ kpc[b] # "idle"
          /\ lastResp[b] \in KillResponses
      BY <2>3 DEF KillReturn, LinkInv, TypeInv, TypeOK, BridgeTypeOK
    <3>2. PICK r \in Requests : Serves(b, r) /\ r = req[b]
      BY <2>1, <3>1 DEF Serves
    <3>3. lastResp[b].of \in Requests /\ Arrived(b, lastResp[b].of)
      BY <3>1 DEF KillResponses, Arrived, IsResponse
    <3>4. answer.by = "response" /\ answer.of \in Requests /\ Underway(answer.of)
      BY <3>3 DEF Reply, Underway
    <3>5. /\ reply' = [reply EXCEPT ![r] = answer] /\ req' = [req EXCEPT ![b] = NoReq]
      BY <3>1, <3>2 DEF Answer
    <3> HIDE DEF answer
    <3>6. QED
      BY <2>0, <3>1, <3>2, <3>4, <3>5, AnswerKeepsTurn
  <2>4. CASE BridgeExit(b)
    <3>1. /\ reply' = [r \in Requests |-> IF r = req[b] THEN Reply("aborted", NoReq, FALSE)
                                                        ELSE reply[r]]
          /\ kpc' = [kpc EXCEPT ![b] = "idle"] /\ req' = [req EXCEPT ![b] = NoReq]
          /\ issued' = issued
      BY <2>4 DEF BridgeExit
    <3>2. CASE req[b] \in Requests
      <4>1. PICK r \in Requests : Serves(b, r) /\ r = req[b]
        BY <3>2 DEF Serves
      <4>2. reply' = [reply EXCEPT ![r] = Reply("aborted", NoReq, FALSE)]
        BY <1>0, <3>1, <4>1
      <4>3. Reply("aborted", NoReq, FALSE).by = "aborted"
        BY DEF Reply
      <4>4. QED
        BY <2>0, <3>1, <4>1, <4>2, <4>3, AnswerKeepsTurn
    <3>3. CASE req[b] = NoReq
      <4>1. reply' = reply /\ req' = req
        BY <1>0, <3>1, <3>3, RequestsAssumption
      <4>2. \A a \in Bridges : req'[a] = NoReq
        BY <1>0, <3>1 DEF OneBridgeOnly
      <4>3. \A q \in Requests : (Lost(q)' <=> Lost(q)) /\ (LostUpTo(q)' <=> LostUpTo(q))
        BY <4>1 DEF Lost, LostUpTo
      <4>4. InTurn'
        BY <3>1, <4>1, <4>2 DEF TurnInv, InTurn, Serves
      <4>5. ServedOrLate'
        BY <2>0, <4>1, <4>3 DEF TurnInv, ServedOrLate, Serves
      <4>6. WrongNeedsLost'
        BY <4>1, <4>3 DEF TurnInv, WrongNeedsLost
      <4>7. QED
        BY <4>4, <4>5, <4>6 DEF TurnInv
    <3>4. QED
      BY <1>0, <3>2, <3>3
  <2>5. CASE ~KillRefused(b) /\ ~KillTimeout(b) /\ ~KillReturn(b) /\ ~BridgeExit(b)
    <3>1. /\ UNCHANGED <<issued, reply, req>>
          /\ \/ kpc' = kpc
             \/ kpc[b] = "send" /\ kpc' = [kpc EXCEPT ![b] = "wait"]
      BY <1>3, <2>5
         DEF BridgeNext, StartBridge, DestroyNode, Publish, ReaderSteps, ConnectFails, Connect,
             InstallSocket, PickSocket, Receive, ReceiveTimesOut, ReceiveFails, ReceiveGarbled,
             Disconnect, ServiceSteps, KillSend, bridgeVars, serviceVars
    <3>2. \A a \in Bridges : kpc'[a] = "idle" => kpc[a] = "idle"
      BY <1>0, <3>1
    <3>3. QED
      BY <2>0, <3>1, <3>2, TurnKept
  <2>6. QED
    BY <2>2, <2>3, <2>4, <2>5
<1>4. QED
  BY <1>2, <1>3

LEMMA TurnInit == Init => TurnInv
<1> SUFFICES ASSUME Init PROVE TurnInv
  OBVIOUS
<1>1. /\ toDaemon = [c \in Conns |-> <<>>] /\ toBridge = [c \in Conns |-> <<>>]
      /\ dpc = "down" /\ issued = {} /\ reply = [r \in Requests |-> NoReply]
      /\ kpc = [b \in Bridges |-> "idle"] /\ req = [b \in Bridges |-> NoReq]
  BY DEF Init, SocketInit, DaemonInit, BridgeInit
<1>2. \A q \in Requests : ~Pending(q)
  BY <1>1, EmptyHasNoElement DEF Pending, Queued, InHand, Asking
<1>3. \A q \in Requests : ~ToSend(q) /\ ~OnItsWay(q) /\ \A b \in Bridges : ~Arrived(b, q)
  BY <1>1 DEF ToSend, OnItsWay, Carries, Arrived
<1>4. InTurn /\ WrongNeedsLost
  BY <1>1 DEF InTurn, Serves, WrongNeedsLost, NoReply, Reply
<1>5. ServedOrLate
  BY <1>2, <1>3 DEF ServedOrLate, Underway
<1>6. QED
  BY <1>4, <1>5 DEF TurnInv

LEMMA TurnNext ==
  OneBridgeOnly /\ LinkInv /\ LinkInv' /\ TurnInv /\ [Next]_vars => TurnInv'
<1> SUFFICES ASSUME OneBridgeOnly, LinkInv, LinkInv', TurnInv, [Next]_vars PROVE TurnInv'
  OBVIOUS
<1>1. CASE DaemonNext /\ UNCHANGED bridgeVars
  <2>1. \A q \in Requests : Underway(q)' => Underway(q)
    BY <1>1, DaemonUnderway
  <2>2. UNCHANGED <<issued, reply, req, kpc>>
    BY <1>1 DEF bridgeVars, serviceVars
  <2>3. QED
    BY <2>1, <2>2, TurnKept
<1>2. CASE \E b \in Bridges : BridgeNext(b, Listening) /\ UNCHANGED daemonVars
  <2>1. Listening \in BOOLEAN
    BY Zenon DEF Listening
  <2>2. QED
    BY <1>2, <2>1, BridgeKeepsTurn
<1>3. CASE UNCHANGED vars
  <2>1. UNCHANGED <<toDaemon, toBridge, dpc, pending, kpc, lastResp, reply, req, issued>>
    BY <1>3 DEF vars, socketVars, daemonVars, threadVars, bridgeVars, serviceVars
  <2>2. \A q \in Requests : Underway(q)' => Underway(q)
    BY <2>1 DEF Underway, Pending, Queued, InHand, Asking, ToSend, OnItsWay, Arrived
  <2>3. QED
    BY <2>1, <2>2, TurnKept
<1>4. QED
  BY <1>1, <1>2, <1>3 DEF Next

LEMMA SpecLinkInv == Spec => []LinkInv
<1>1. Init => ResponseInv /\ CallsOpen
  BY LinkInit
<1>2. TypeInv /\ RequestInv /\ ResponseInv /\ CallsOpen /\ [Next]_vars => ResponseInv' /\ CallsOpen'
  BY LinkStep DEF LinkInv
<1>3. TypeInv /\ RequestInv /\ ResponseInv /\ CallsOpen => LinkInv
  BY DEF LinkInv
<1>4. QED
  BY <1>1, <1>2, <1>3, SpecTypeInv, SpecRequestInv, PTL DEF Spec

\* With one bridge a call returns the response to another one only after a call was lost,
\* however connections and both processes come and go: _last_kill_response is forgotten when
\* a call begins, and what arrives later was under way by then.
THEOREM WrongOnlyAfterLost == Spec => []WrongResponseNeedsLostCall
<1>1. CASE OneBridgeOnly
  <2>1. LinkInv /\ LinkInv' /\ TurnInv /\ [Next]_vars => TurnInv'
    BY <1>1, TurnNext
  <2>2. TurnInv => WrongResponseNeedsLostCall
    BY DEF TurnInv, WrongNeedsLost, Lost, WrongResponseNeedsLostCall
  <2>3. QED
    BY <2>1, <2>2, TurnInit, SpecLinkInv, PTL DEF Spec
<1>2. CASE ~OneBridgeOnly
  <2>1. Cardinality(Bridges) # 1
    <3>1. PICK a \in Bridges, b \in Bridges : a # b
      BY <1>2 DEF OneBridgeOnly
    <3>2. ~\E x : Bridges = {x}
      BY <3>1
    <3>3. QED
      BY <3>2, BridgesAssumption, FS_Singleton
  <2>2. WrongResponseNeedsLostCall
    BY <2>1 DEF WrongResponseNeedsLostCall
  <2>3. QED
    BY <2>2, PTL
<1>3. QED
  BY <1>1, <1>2
=============================================================================
