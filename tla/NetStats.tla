------------------------------ MODULE NetStats ------------------------------
(***************************************************************************)
(* The ss backend of NetStatsCollector (net_stats_collector.py), as the    *)
(* daemon's ProcessCollector drives it: per process, the bytes its open    *)
(* TCP sockets have sent are added up and given to a RateCalculator.  The  *)
(* receiving direction is the same code with the other counter.            *)
(***************************************************************************)
EXTENDS RateOps, FiniteSetsExt

CONSTANTS
  Pids,
  NoPid,     \* the owner of a socket that is not open
  Socks,     \* the TCP sockets of the host
  MaxClock,  \* bound on the clock
  MaxBytes   \* bound on what a socket sends

VARIABLES
  owner,     \* owner[s]: the process that holds socket s
  acked,     \* acked[s]: its bytes_acked
  received,  \* received[s]: it has received something, so ss prints bytes_received
  now,       \* time.time()
  prev,      \* _prev_values of the rate calculator, by process
  lastSeen,  \* _last_seen_pids
  lastStats, \* _last_stats, which ProcessCollector's _net_stats_cache is too
  sent,      \* sent[p]: what process p has sent (history)
  reported,  \* reported[p]: the bytes of all rates returned for p (history)
  closed     \* the processes that closed a socket (history)

hostVars == <<owner, acked, received, now, sent, closed>>
collectorVars == <<prev, lastSeen, lastStats, reported>>
vars == <<hostVars, collectorVars>>

TypeOK ==
  /\ owner \in [Socks -> Pids \cup {NoPid}]
  /\ acked \in [Socks -> 0 .. MaxBytes]
  /\ received \in SUBSET Socks
  /\ now \in 0 .. MaxClock
  /\ DOMAIN prev \subseteq Pids
  /\ lastSeen \subseteq Pids
  /\ DOMAIN lastStats \subseteq Pids
  /\ \A p \in DOMAIN lastStats : lastStats[p].bytes \in Nat /\ lastStats[p].per > 0
  /\ closed \subseteq Pids

Nothing == [p \in {} |-> NoRate]

Init ==
  /\ owner = [s \in Socks |-> NoPid]
  /\ acked = [s \in Socks |-> 0]
  /\ received = {}
  /\ now = 0
  /\ prev = Nothing /\ lastSeen = {} /\ lastStats = Nothing
  /\ sent = [p \in Pids |-> 0]
  /\ reported = [p \in Pids |-> 0]
  /\ closed = {}

-----------------------------------------------------------------------------
\* The host.

OpenSocket(s, p) ==
  /\ owner[s] = NoPid
  /\ owner' = [owner EXCEPT ![s] = p]
  /\ UNCHANGED <<acked, received, now, sent, closed, collectorVars>>

Send(s) ==
  /\ owner[s] # NoPid /\ acked[s] < MaxBytes /\ sent[owner[s]] < 2 * MaxBytes
  /\ acked' = [acked EXCEPT ![s] = @ + 1]
  /\ sent' = [sent EXCEPT ![owner[s]] = @ + 1]
  /\ UNCHANGED <<owner, received, now, closed, collectorVars>>

ReceiveFirst(s) ==
  /\ owner[s] # NoPid
  /\ received' = received \cup {s}
  /\ UNCHANGED <<owner, acked, now, sent, closed, collectorVars>>

CloseSocket(s) ==
  /\ owner[s] # NoPid
  /\ owner' = [owner EXCEPT ![s] = NoPid]
  /\ acked' = [acked EXCEPT ![s] = 0]
  /\ received' = received \ {s}
  /\ closed' = closed \cup {owner[s]}
  /\ UNCHANGED <<now, sent, collectorVars>>

Tick ==
  /\ now < MaxClock
  /\ now' = now + 1
  /\ UNCHANGED <<owner, acked, received, sent, closed, collectorVars>>

-----------------------------------------------------------------------------
\* The collector.

\* _parse_ss_output: the sockets with an owner and with both counters printed.
Parsed(p) == {s \in received : owner[s] = p /\ acked[s] > 0}
Total(p)  == MapThenSumSet(LAMBDA s : acked[s], Parsed(p))

\* calculate_rate, once for each process in pids.
Calculated(pids) ==
  [p \in DOMAIN prev \cup pids |->
     IF p \in pids THEN Remember(prev, p, now, Total(p))[p] ELSE prev[p]]

\* Variant: the samples of processes that are gone are kept.
KeepAll(samples, pids) == samples

ForgetAll(samples, pids) == Forget(samples, pids)

\* refresh, after _refresh_net_stats_cache has cleared the dictionary.
Refresh ==
  LET current == {p \in Pids : Parsed(p) # {}}
      rates   == [p \in current |-> RateOf(prev, p, now, Total(p))]
  IN  /\ prev' = ForgetAll(Calculated(current), lastSeen \ current)
      /\ lastSeen' = current
      /\ lastStats' = rates
      /\ reported' = [p \in Pids |-> IF p \in current THEN reported[p] + rates[p].bytes
                                                      ELSE reported[p]]
      /\ UNCHANGED hostVars

\* ss is missing, fails or takes five seconds: an early return, and what was cleared
\* stays cleared.
RefreshFails ==
  /\ lastStats' = Nothing
  /\ UNCHANGED <<prev, lastSeen, reported, hostVars>>

Next ==
  \/ \E s \in Socks : \/ \E p \in Pids : OpenSocket(s, p)
                      \/ Send(s) \/ ReceiveFirst(s) \/ CloseSocket(s)
  \/ Tick
  \/ Refresh \/ RefreshFails

Spec == Init /\ [][Next]_vars

-----------------------------------------------------------------------------
\* The rate calculator's entries are those of the processes of the last successful
\* refresh: none is kept for a process that has gone, over failed refreshes and
\* processes that come back.
SamplesOfLastSeen == DOMAIN prev = lastSeen

\* The bytes reported for a process are bytes it has sent, unless one of its sockets was
\* closed: no socket is counted for another process, or twice, because ss shows it only
\* after it has received something.
ReportsOnlyTraffic == \A p \in Pids \ closed : reported[p] <= sent[p]

\* What ProcessStatus.msg says of net_tx_bytes_per_sec, "Outgoing TCP traffic rate", for
\* every process: what is reported as outgoing was sent.
OutgoingTraffic == \A p \in Pids : reported[p] <= sent[p]
=============================================================================
