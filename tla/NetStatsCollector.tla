------------------------- MODULE NetStatsCollector -------------------------
(***************************************************************************)
(* NetStatsCollector (net_stats_collector.py): the choice of a backend at  *)
(* the start, once and for all, and refresh(), which goes to the backend   *)
(* that was chosen.  The state of the backend that was not chosen never    *)
(* changes.                                                                *)
(***************************************************************************)
EXTENDS Integers, FiniteSets

CONSTANTS
  Pids, NoPid, Socks,    \* the host as ss shows it
  EbpfPids, Protocols,   \* the processes and protocols the probes see
  Directions, MapSize,   \* what they tell apart; how many entries their map holds
  MaxClock, MaxBytes,    \* bounds on the clock and on what a socket sends
  MaxTraffic             \* bound on the bytes the probes see

ASSUME NoPidAssumption == NoPid \notin Pids
ASSUME FiniteAssumption ==
  /\ IsFiniteSet(Socks)
  /\ IsFiniteSet(EbpfPids) /\ IsFiniteSet(Protocols) /\ IsFiniteSet(Directions)
ASSUME BoundsAssumption == MaxBytes \in Nat /\ MaxTraffic \in Nat /\ MapSize \in Nat /\ MaxClock \in Nat \ {0}

VARIABLES
  backend,               \* _backend
  owner, acked, received, ssNow, prev, lastSeen, ssStats, sent, ssReported, closed,
  map, pc, todo, result, now, last, lastStats, counted, reported, dropped, late,
  clockSet

ssVars == <<owner, acked, received, ssNow, prev, lastSeen, ssStats, sent, ssReported, closed>>
ebpfVars == <<map, pc, todo, result, now, last, lastStats, counted, reported, dropped, late,
              clockSet>>
vars == <<backend, ssVars, ebpfVars>>

Ss == INSTANCE NetStats
        WITH now <- ssNow, lastStats <- ssStats, reported <- ssReported
Ebpf == INSTANCE EbpfNet WITH Pids <- EbpfPids

\* __init__: the probes if they can be attached, else ss if it can be run.
Backend(ebpfAvailable, ssAvailable) ==
  IF ebpfAvailable THEN "ebpf" ELSE IF ssAvailable THEN "ss" ELSE "none"

Init ==
  /\ \E ebpfAvailable, ssAvailable \in BOOLEAN :
       backend = Backend(ebpfAvailable, ssAvailable)
  /\ Ss!Init /\ Ebpf!Init

\* refresh, and what the host does meanwhile.
WithSs   == backend = "ss" /\ Ss!Next /\ UNCHANGED <<backend, ebpfVars>>
WithEbpf == backend = "ebpf" /\ Ebpf!Next /\ UNCHANGED <<backend, ssVars>>

\* Without a backend _refresh_net_stats_cache returns early, with an empty cache.
WithNone == backend = "none" /\ UNCHANGED vars

Next == WithSs \/ WithEbpf \/ WithNone

Spec == Init /\ [][Next]_vars

-----------------------------------------------------------------------------
TypeOK == backend \in {"ebpf", "ss", "none"} /\ Ss!TypeOK /\ Ebpf!TypeOK

\* ss: no sample of a process that has gone is kept (_refresh_ss and its early returns).
SamplesOfLastSeen == Ss!SamplesOfLastSeen

\* Neither backend reports what was not sent: ss for processes that close no socket
\* (_parse_ss_output), the probes for all of them (collect_stats reads entries that stay in
\* the map until it is cleared).
ReportsOnlyTraffic == Ss!ReportsOnlyTraffic /\ Ebpf!ReportedOnce

\* eBPF: every byte is reported or waits in the map, but for those that found the map full
\* (update_stats) and those that fell between the reading of their own entry and its
\* clearing (collect_stats).
EveryByteAccountedFor == Ebpf!EveryByteAccountedFor

\* eBPF: the division by the time since the last refresh does not end the daemon as long
\* as the wall clock goes forward between refreshes (_refresh_ebpf).
ClockRaises == Ebpf!ClockRaises
=============================================================================
