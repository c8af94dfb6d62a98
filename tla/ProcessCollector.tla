-------------------------- MODULE ProcessCollector --------------------------
(***************************************************************************)
(* ProcessCollector.get_processes (process_collector.py): the discovery of *)
(* the ROS processes, the tree below each of them and the caches by PID    *)
(* that outlive a cycle, while processes start, exec, exit and take over   *)
(* PIDs.  The host is outside the repository; it changes between the steps *)
(* of a cycle, which are the scan, the visit of each process and the       *)
(* clean-up.                                                               *)
(***************************************************************************)
EXTENDS Naturals, FiniteSetsExt

CONSTANTS
  Pids,      \* a set of numbers: the scan is in their order
  Interval,  \* _discovery_interval; 5 in the code
  MaxEvents  \* bound on what happens on the host

ASSUME PidsAssumption     == Pids \subseteq Nat \ {0} /\ IsFiniteSet(Pids)
ASSUME IntervalAssumption == Interval \in Nat \ {0, 1} /\ MaxEvents \in Nat

\* What a process runs: a node, ros2 launch, or something that is not of ROS, such as
\* the shell that is about to exec a node.
Images == {"node", "launch", "other"}

VARIABLES
  world,     \* the live processes: pid -> [birth, ppid, image]
  events,    \* events on the host so far; a process is born with its number
  pmap,      \* psutil's own cache of process_iter: pid -> birth
  pc,        \* where get_processes is
  cycle,     \* _discovery_cycle, modulo the interval
  full,      \* full_discovery
  scan,      \* all_procs: pid -> [birth, ppid, image]
  todo,      \* the pids the loop has still to look at
  seen,      \* seen_pids
  current,   \* current_pids
  newRos,    \* new_ros_cache: pid -> BOOLEAN
  report,    \* ros_processes: the records [pid, name, image, children, cpu, disk]; cpu and disk
             \* tell which process the figure is measured from, by its birth, 0 for none
  rosCache,  \* _ros_pid_cache: pid -> BOOLEAN
  procCache, \* _process_cache: pid -> [birth, read], the create_time of the Process object
             \* and the process it has last read the CPU time of (0: none yet)
  names,     \* _node_name_cache: pid -> name
  cpu,       \* _cpu_cache: pid -> the process that value is measured from
  samples,   \* the keys proc.{pid}.read and .write of the rate calculator: pid -> the
             \* process the sample was taken of
  containerKeys, namespaceKeys, \* the pids in the other caches
  lastSeen   \* _last_seen_pids

hostVars  == <<world, events>>
cycleVars == <<pmap, pc, cycle, full, scan, todo, seen, current, newRos, report>>
figures   == <<procCache, cpu, samples>>
keyCaches == <<names, containerKeys, namespaceKeys>>
cacheVars == <<rosCache, figures, keyCaches, lastSeen>>
vars == <<hostVars, cycleVars, cacheVars>>

None == [p \in {} |-> 0]

Processes == [birth : 1 .. MaxEvents, ppid : Pids \cup {0}, image : Images]

\* Variant: the name is taken from the parent.
NameOfParent(p) == [birth |-> p.ppid, image |-> p.image]

\* A name is known by the process, and by the command line, it was taken from.
Name(p) == [birth |-> p.birth, image |-> p.image]

Names == [birth : 1 .. MaxEvents, image : Images]

Objects == [birth : 1 .. MaxEvents, read : 0 .. MaxEvents]

IsRos(p) == p.image \in {"node", "launch"}

TypeOK ==
  /\ DOMAIN world \subseteq Pids /\ \A p \in DOMAIN world : world[p] \in Processes
  /\ events \in 0 .. MaxEvents
  /\ DOMAIN pmap \subseteq Pids
  /\ pc \in {"idle", "visit"}
  /\ cycle \in 0 .. Interval - 1
  /\ full \in BOOLEAN
  /\ DOMAIN scan \subseteq Pids /\ \A p \in DOMAIN scan : scan[p] \in Processes
  /\ todo \subseteq Pids /\ seen \subseteq Pids /\ current \subseteq Pids
  /\ \A f \in {newRos, rosCache} : DOMAIN f \subseteq Pids /\ \A p \in DOMAIN f : f[p] \in BOOLEAN
  /\ \A r \in report : r.pid \in Pids /\ r.children \subseteq Pids /\ r.image \in Images
  /\ DOMAIN procCache \subseteq Pids /\ \A p \in DOMAIN procCache : procCache[p] \in Objects
  /\ \A f \in {cpu, samples} : DOMAIN f \subseteq Pids /\ \A p \in DOMAIN f : f[p] \in 0 .. MaxEvents
  /\ DOMAIN names \subseteq Pids /\ \A p \in DOMAIN names : names[p] \in Names
  /\ \A S \in {containerKeys, namespaceKeys, lastSeen} : S \subseteq Pids

Init ==
  /\ world = None /\ events = 0
  /\ pmap = None
  /\ pc = "idle" /\ cycle = 0 /\ full = FALSE
  /\ scan = None /\ todo = {} /\ seen = {} /\ current = {} /\ newRos = None /\ report = {}
  /\ rosCache = None /\ procCache = None /\ names = None /\ lastSeen = {}
  /\ cpu = None /\ samples = None /\ containerKeys = {} /\ namespaceKeys = {}

-----------------------------------------------------------------------------
\* The host.

Event == events < MaxEvents /\ events' = events + 1

Start(p) ==
  /\ p \notin DOMAIN world /\ Event
  /\ \E q \in DOMAIN world \cup {0}, i \in Images :
       world' = [x \in DOMAIN world \cup {p} |->
                   IF x = p THEN [birth |-> events + 1, ppid |-> q, image |-> i] ELSE world[x]]
  /\ UNCHANGED <<cycleVars, cacheVars>>

\* The same process, with another program: "other" becomes a node or a launch.
Exec(p) ==
  /\ p \in DOMAIN world /\ world[p].image = "other" /\ Event
  /\ \E i \in Images \ {"other"} : world' = [world EXCEPT ![p].image = i]
  /\ UNCHANGED <<cycleVars, cacheVars>>

\* The children of a process that exits go to init.
Dies(p) ==
  /\ p \in DOMAIN world /\ Event
  /\ world' = [x \in DOMAIN world \ {p} |->
                 IF world[x].ppid = p THEN [world[x] EXCEPT !.ppid = 0] ELSE world[x]]

ExitProcess(p) == Dies(p) /\ UNCHANGED <<cycleVars, cacheVars>>

-----------------------------------------------------------------------------
\* psutil.process_iter: a pid whose process is another one than in its cache comes
\* with the new process (psutil 5) or is left out this time (psutil 6).
Reused == {p \in DOMAIN world \cap DOMAIN pmap : pmap[p] # world[p].birth}

\* Variant: a full scan only when nothing is known.
DiscoverOnce(n) == FALSE

DiscoveryDue(n) == n = 1

\* get_processes up to the loop: what to scan, and the scan.
StartCycle ==
  /\ pc = "idle"
  /\ pc' = "visit"
  /\ cycle' = (cycle + 1) % Interval
  /\ full' = (DiscoveryDue(cycle') \/ rosCache = None)
  /\ \E left \in {{}, Reused} :
       /\ scan' = [p \in DOMAIN world \ left |-> world[p]]
       /\ pmap' = [p \in DOMAIN world \ left |-> world[p].birth]
  /\ todo' = IF full' THEN DOMAIN scan' ELSE {p \in DOMAIN rosCache : rosCache[p]}
  /\ seen' = {} /\ current' = {} /\ newRos' = None /\ report' = {}
  /\ UNCHANGED <<hostVars, cacheVars>>

\* _get_descendants, on the parents of the scan.
Descendants(p) ==
  LET below[n \in Nat] ==
        IF n = 0 THEN {p}
        ELSE below[n - 1] \cup {q \in DOMAIN scan : scan[q].ppid \in below[n - 1]}
  IN  below[Cardinality(Pids)] \ {p}

\* Variant: the create_time is not compared.
AnyObject(p) == IF p \in DOMAIN procCache THEN procCache[p] ELSE [birth |-> scan[p].birth, read |-> 0]

\* The Process object of a scanned pid: the cached one when its create_time is that of the
\* scan, else that of the scan, whose cpu_percent() has nothing to measure from yet.
Object(p) ==
  IF p \in DOMAIN procCache /\ procCache[p].birth = scan[p].birth
  THEN procCache[p]
  ELSE [birth |-> scan[p].birth, read |-> 0]

Replaced(touched) == {p \in touched \cap DOMAIN procCache : procCache[p].birth # scan[p].birth}

\* The Process objects of what a visit touches, of which "measured" still answer to
\* cpu_percent().  It reads whatever process has the pid by now.
CacheObjects(touched, measured) ==
  procCache' = [p \in DOMAIN procCache \cup touched |->
                  IF p \in measured THEN [Object(p) EXCEPT !.read = world[p].birth]
                  ELSE IF p \in touched THEN Object(p) ELSE procCache[p]]

\* The cpu value of a replaced object goes, that of one that answers is new.
CacheCpu(touched, measured) ==
  cpu' = [p \in (DOMAIN cpu \ Replaced(touched)) \cup measured |->
            IF p \in measured THEN Object(p).read ELSE cpu[p]]

\* Names are taken from the processes as they are now, once for each pid.
CacheNames(new) ==
  names' = [p \in DOMAIN names \cup new |->
              IF p \in DOMAIN names THEN names[p] ELSE Name(world[p])]

\* The children whose name a launch process asks for.
NamedChildren(p, children) ==
  IF world[p].image = "launch"
  THEN {q \in children \cap DOMAIN world : world[q].image # "launch"}
  ELSE {}

\* A sample that was taken, 0 when there is none.
Sample(f, p) == IF p \in DOMAIN f THEN f[p] ELSE 0

\* _collect_process_stats of a process that is gone: cmdline() raises, and its Process
\* object, its replaced cpu value and current_pids are all that is kept.
CollectGone(p) ==
  /\ p \notin DOMAIN world
  /\ CacheObjects({p}, {}) /\ CacheCpu({p}, {})
  /\ current' = current \cup {p}
  /\ UNCHANGED <<hostVars, seen, report, samples, keyCaches>>

\* The process exits after cmdline() and status() raises: its name is cached as well.
CollectDies(p) ==
  /\ p \in DOMAIN world
  /\ CacheObjects({p}, {}) /\ CacheCpu({p}, {})
  /\ CacheNames({p})
  /\ containerKeys' = containerKeys \cup {p}
  /\ namespaceKeys' = namespaceKeys \cup {p}
  /\ current' = current \cup {p}
  /\ Dies(p)
  /\ UNCHANGED <<seen, report, samples>>

\* _collect_process_stats with _aggregate_children: the process and all below it.  When it
\* exits on the way, after create_time(), it is reported all the same: with the cpu value
\* cached before unless that was read, and without a disk rate.  The samples of that rate
\* go by the pid alone.
CollectUpTo(p, cpuRead, ioRead) ==
  LET children == Descendants(p)
      touched  == {p} \cup children
      measured == {q \in touched \cap DOMAIN world : q = p => cpuRead}
      named    == {p} \cup NamedChildren(p, children)
  IN  /\ p \in DOMAIN world
      /\ ioRead => cpuRead
      /\ CacheObjects(touched, measured) /\ CacheCpu(touched, measured)
      /\ CacheNames(named)
      /\ samples' = IF ioRead
                    THEN [q \in DOMAIN samples \cup {p} |->
                            IF q = p THEN world[p].birth ELSE samples[q]]
                    ELSE samples
      /\ containerKeys' = containerKeys \cup {p}
      /\ namespaceKeys' = namespaceKeys \cup named
      /\ report' = report \cup
           {[pid |-> p, name |-> names'[p], image |-> world[p].image, children |-> children,
             cpu |-> [q \in touched |-> Sample(cpu', q)],
             disk |-> IF ioRead THEN Sample(samples, p) ELSE 0]}
      /\ seen' = seen \cup children
      /\ current' = current \cup touched
      /\ IF ioRead THEN UNCHANGED hostVars ELSE Dies(p)

Collect(p) == \E cpuRead, ioRead \in BOOLEAN : CollectUpTo(p, cpuRead, ioRead)

CollectAny(p) == Collect(p) \/ CollectGone(p) \/ CollectDies(p)

\* The loop looks at the smallest pid it has not looked at.
Next1 == Min(todo)

Skip ==
  UNCHANGED <<hostVars, seen, current, report, figures, keyCaches>>

\* Variant: what was counted below another process is looked at again.
NotPassed(p) == FALSE

Passed(p) == p \in seen

\* One turn of the loop of a full discovery.
VisitFull ==
  /\ pc = "visit" /\ todo # {} /\ full
  /\ todo' = todo \ {Next1}
  /\ LET p == Next1
         known(ros) == newRos' = [x \in DOMAIN newRos \cup {p} |->
                                    IF x = p THEN ros ELSE newRos[x]]
     IN  \/ Passed(p) /\ Skip /\ UNCHANGED newRos
         \/ ~Passed(p) /\ ~IsRos(scan[p]) /\ known(FALSE) /\ Skip
         \/ ~Passed(p) /\ IsRos(scan[p]) /\ known(TRUE) /\ CollectAny(p)
  /\ UNCHANGED <<pmap, pc, cycle, full, scan, rosCache, lastSeen>>

\* One turn of the loop of a fast cycle: what the pid runs now is not looked at.
VisitFast ==
  /\ pc = "visit" /\ todo # {} /\ ~full
  /\ todo' = todo \ {Next1}
  /\ LET p == Next1
     IN  \/ (Passed(p) \/ p \notin DOMAIN scan) /\ Skip
         \/ ~Passed(p) /\ p \in DOMAIN scan /\ CollectAny(p)
  /\ UNCHANGED <<pmap, pc, cycle, full, scan, newRos, rosCache, lastSeen>>

\* Variant: what was seen two cycles ago is not looked at again.
NothingStale == {}

Stale == lastSeen \ current

\* The rest of get_processes: the caches forget the pids that were not seen again, and what
\* the report is made of goes with the call.
FinishCycle ==
  /\ pc = "visit" /\ todo = {}
  /\ pc' = "idle"
  /\ rosCache' = IF full THEN newRos ELSE rosCache
  /\ procCache' = [p \in DOMAIN procCache \ Stale |-> procCache[p]]
  /\ names' = [p \in DOMAIN names \ Stale |-> names[p]]
  /\ cpu' = [p \in DOMAIN cpu \ Stale |-> cpu[p]]
  /\ samples' = [p \in DOMAIN samples \ Stale |-> samples[p]]
  /\ containerKeys' = containerKeys \ Stale
  /\ namespaceKeys' = namespaceKeys \ Stale
  /\ lastSeen' = current
  /\ full' = FALSE /\ scan' = None /\ seen' = {} /\ current' = {} /\ newRos' = None
  /\ report' = {}
  /\ UNCHANGED <<hostVars, pmap, cycle, todo>>

HostNext == \E p \in Pids : Start(p) \/ Exec(p) \/ ExitProcess(p)
CollectorNext == StartCycle \/ VisitFull \/ VisitFast \/ FinishCycle
Next == HostNext \/ CollectorNext

Spec == Init /\ [][Next]_vars

\* The daemon's main loop collects for ever; nothing makes the host do anything.
FairSpec == Spec /\ WF_vars(CollectorNext)

-----------------------------------------------------------------------------
\* Nothing is cached for ever: between two cycles every cache holds only pids of the last
\* cycle, and during one only those and the ones it has come across.
CachesAreBounded ==
  DOMAIN procCache \cup DOMAIN names
    \cup DOMAIN cpu \cup DOMAIN samples \cup containerKeys \cup namespaceKeys
      \subseteq lastSeen \cup current

\* Whose CPU time the figures of a report are measured from: that of the process the scan
\* found under the pid or, when it was taken over since, of the one that runs now; never of
\* one that had the pid before the scan, also where a cached value stands in.  The disk rate
\* has no such guard: it is measured from a sample of an earlier process when the last cycle
\* came across the pid too, and only then.
OldFiguresNeedTakeover ==
  \A r \in report :
    /\ \A p \in {r.pid} \cup r.children : r.cpu[p] = 0 \/ r.cpu[p] >= scan[p].birth
    /\ r.disk = 0 \/ r.disk >= scan[r.pid].birth \/ r.pid \in lastSeen

\* No process is counted twice, as a process of its own and below another one, but for a
\* child whose pid is smaller than its ancestor's, which the loop has passed already.
CountedTwiceOnlyIfSmaller ==
  \A r, s \in report : r.pid \in s.children => r.pid < s.pid

\* A ROS process that stays is in the report again and again, by itself or below another
\* process: a full scan comes round, whoever had the pid before, and also when its parent
\* has left it.
EveryRosProcessReported ==
  \A p \in Pids, b \in 1 .. MaxEvents :
    <>[](p \in DOMAIN world /\ world[p].birth = b /\ IsRos(world[p]))
      => []<>(\E r \in report : p \in {r.pid} \cup r.children)

\* What ProcessStatus.msg says of node_name, and the comment on its cache, "never change for
\* a running process": the name reported is not that of an earlier process with the pid.
NameIsOfProcess ==
  pc = "visit" => \A r \in report : r.name.birth >= scan[r.pid].birth
=============================================================================
