------------------------------ MODULE EbpfNet ------------------------------
(***************************************************************************)
(* The eBPF backend: the kernel probes that count bytes into a map         *)
(* (ebpf_net_collector.py) while the collector reads the map entry by      *)
(* entry, clears it and turns the counts into rates                        *)
(* (net_stats_collector.py).                                               *)
(***************************************************************************)
EXTENDS Integers, FiniteSets, FiniteSetsExt

CONSTANTS
  Pids,
  Protocols,  \* TCP and UDP
  Directions, \* TX and RX
  MapSize,    \* entries the map has room for: what BPF_HASH sets, 10240
  MaxClock,   \* bound on the clock
  MaxTraffic  \* bound on the bytes the probes see

Keys == Pids \X Protocols \X Directions

VARIABLES
  map,       \* traffic_stats: key -> bytes, for the keys it has
  pc,        \* where the collector is; "raised": an exception ends the daemon
  todo,      \* the keys items() or clear() has still to visit
  result,    \* what collect_stats has read: key -> bytes
  now,       \* time.time()
  last,      \* _last_collect_time; 0 before the first refresh
  lastStats, \* _last_stats: pid -> [bytes by direction, per]
  counted,   \* counted[k]: the bytes the probes saw (history)
  reported,  \* reported[k]: the bytes turned into rates (history)
  dropped,   \* dropped[k]: the bytes for which the map had no room (history)
  late,      \* late[k]: the bytes that fell between the reading of the entry of k and
             \* its clearing (history)
  clockSet   \* whether the clock was ever set back, or stood still (history)

vars == <<map, pc, todo, result, now, last, lastStats, counted, reported, dropped, late, clockSet>>

At(f, k) == IF k \in DOMAIN f THEN f[k] ELSE 0
Empty == [k \in {} |-> 0]

TypeOK ==
  /\ DOMAIN map \subseteq Keys /\ \A k \in DOMAIN map : map[k] \in Nat \ {0}
  /\ pc \in {"idle", "items", "clear", "rates", "raised"}
  /\ todo \subseteq Keys
  /\ DOMAIN result \subseteq Keys /\ \A k \in DOMAIN result : result[k] \in Nat \ {0}
  /\ now \in 1 .. MaxClock /\ last \in 0 .. MaxClock
  /\ DOMAIN lastStats \subseteq Pids
  /\ \A p \in DOMAIN lastStats : lastStats[p] \in [bytes : [Directions -> Nat], per : Int]
  /\ counted \in [Keys -> Nat] /\ reported \in [Keys -> Nat]
  /\ dropped \in [Keys -> Nat] /\ late \in [Keys -> Nat]
  /\ clockSet \in BOOLEAN

Init ==
  /\ map = Empty /\ result = Empty
  /\ pc = "idle" /\ todo = {}
  /\ now = 1 /\ last = 0
  /\ lastStats = Empty
  /\ counted = [k \in Keys |-> 0] /\ reported = [k \in Keys |-> 0]
  /\ dropped = [k \in Keys |-> 0] /\ late = [k \in Keys |-> 0]
  /\ clockSet = FALSE

-----------------------------------------------------------------------------
\* The entry of k was read, or is not going to be, and is still to be cleared.
InWindow(k) == (pc = "items" /\ k \notin todo) \/ (pc = "clear" /\ k \in todo)

HasRoom(k) == k \in DOMAIN map \/ Cardinality(DOMAIN map) < MapSize

\* update_stats, in the kernel, at any time: the entry is looked up or made, which
\* fails when the map is full, and then the bytes are not counted anywhere.
Traffic(k) ==
  /\ MapThenSumSet(LAMBDA j : counted[j], Keys) < MaxTraffic
  /\ counted' = [counted EXCEPT ![k] = @ + 1]
  /\ \/ /\ HasRoom(k)
        /\ map' = [j \in DOMAIN map \cup {k} |-> IF j = k THEN At(map, k) + 1 ELSE map[j]]
        /\ UNCHANGED dropped
     \/ /\ ~HasRoom(k)
        /\ dropped' = [dropped EXCEPT ![k] = @ + 1]
        /\ UNCHANGED map
  /\ late' = [late EXCEPT ![k] = IF InWindow(k) /\ HasRoom(k) THEN @ + 1 ELSE @]
  /\ UNCHANGED <<pc, todo, result, now, last, lastStats, reported, clockSet>>

Clock(t) ==
  /\ now' = t
  /\ UNCHANGED <<map, pc, todo, result, last, lastStats, counted, reported, dropped, late, clockSet>>

-----------------------------------------------------------------------------
\* The collector.

\* ProcessCollector has just cleared the dictionary, which it shares.
StartItems ==
  /\ pc = "idle"
  /\ pc' = "items" /\ todo' = DOMAIN map /\ result' = Empty /\ lastStats' = Empty
  /\ UNCHANGED <<map, now, last, counted, reported, dropped, late, clockSet>>

\* Variant: the entry of the process is made anew for each key.
ReadOverwrites(k) ==
  /\ pc = "items" /\ k \in todo
  /\ todo' = todo \ {k}
  /\ result' = [j \in {i \in DOMAIN result : i[1] # k[1]} \cup {k} |->
                  IF j = k THEN map[k] ELSE result[j]]
  /\ UNCHANGED <<map, pc, now, last, lastStats, counted, reported, dropped, late, clockSet>>

\* One step of stats_map.items().
ReadEntry(k) ==
  /\ pc = "items" /\ k \in todo
  /\ todo' = todo \ {k}
  /\ result' = [j \in DOMAIN result \cup {k} |-> IF j = k THEN map[k] ELSE result[j]]
  /\ UNCHANGED <<map, pc, now, last, lastStats, counted, reported, dropped, late, clockSet>>

\* Variant: the map is not cleared.
ClearNothing == {}

\* clear() visits the keys the map has now, not those that were read.
ToClear == DOMAIN map

StartClear ==
  /\ pc = "items" /\ todo = {}
  /\ pc' = "clear" /\ todo' = ToClear
  /\ UNCHANGED <<map, result, now, last, lastStats, counted, reported, dropped, late, clockSet>>

\* One step of stats_map.clear(): whatever the entry holds by now is dropped.
ClearEntry(k) ==
  /\ pc = "clear" /\ k \in todo
  /\ todo' = todo \ {k}
  /\ map' = [j \in DOMAIN map \ {k} |-> map[j]]
  /\ UNCHANGED <<pc, result, now, last, lastStats, counted, reported, dropped, late, clockSet>>

EndCollect ==
  /\ pc = "clear" /\ todo = {}
  /\ pc' = "rates"
  /\ UNCHANGED <<map, todo, result, now, last, lastStats, counted, reported, dropped, late, clockSet>>

\* Variant: _last_collect_time is set before the time since it is taken.
ElapsedSinceNow == IF last > 0 THEN now - now ELSE 1

\* The time since the last refresh; one second for the first.
Elapsed == IF last > 0 THEN now - last ELSE 1

\* What p sent or received, over both protocols.
TotalOf(p, d) ==
  MapThenSumSet(LAMBDA k : result[k], {k \in DOMAIN result : k[1] = p /\ k[3] = d})

\* The rest of _refresh_ebpf.  Dividing by a time of 0 raises ZeroDivisionError, which
\* nothing catches up to the daemon's main loop; _last_collect_time is set before.
Rates ==
  /\ pc = "rates"
  /\ last' = now
  /\ clockSet' = (clockSet \/ now <= last)
  /\ IF Elapsed = 0 /\ result # Empty
     THEN /\ pc' = "raised"
          /\ UNCHANGED <<lastStats, reported>>
     ELSE /\ pc' = "idle"
          /\ lastStats' = [p \in {k[1] : k \in DOMAIN result} |->
                             [bytes |-> [d \in Directions |-> TotalOf(p, d)], per |-> Elapsed]]
          /\ reported' = [k \in Keys |-> reported[k] + At(result, k)]
  /\ UNCHANGED <<map, todo, result, now, counted, dropped, late>>

Next ==
  \/ \E k \in Keys : Traffic(k) \/ ReadEntry(k) \/ ClearEntry(k)
  \/ \E t \in 1 .. MaxClock : Clock(t)
  \/ StartItems \/ StartClear \/ EndCollect \/ Rates

Spec == Init /\ [][Next]_vars

-----------------------------------------------------------------------------
\* No byte is reported twice, though it stays in the map after it was read.
ReportedOnce == \A k \in Keys : reported[k] <= counted[k]

\* Between two refreshes every byte the probes saw was reported, waits in the map, found
\* no room in it, or is one of those that fell between the reading of its own entry and
\* the clearing of it.
EveryByteAccountedFor ==
  pc = "idle" => \A k \in Keys :
    counted[k] - reported[k] - At(map, k) - dropped[k] \in 0 .. late[k]

\* As long as the wall clock only goes forward between refreshes the division cannot
\* raise, which would end the daemon, and no rate is negative.
ClockRaises ==
  ~clockSet => pc # "raised" /\ \A p \in DOMAIN lastStats : lastStats[p].per > 0
=============================================================================
