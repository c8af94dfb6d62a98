--------------------------- MODULE ProcessReport ---------------------------
(***************************************************************************)
(* What one full discovery of ProcessCollector.get_processes reports       *)
(* (process_collector.py): processes are scanned one by one, the tree is   *)
(* made of the parents that were read, and names and figures are taken     *)
(* from the processes as they are later.  A figure is the set of what is   *)
(* added up; an entry of a list is known by the calls that led to it,      *)
(* since a process could be in it twice.  The caches are empty at the      *)
(* start of the cycle; ProcessCollector has what they do over many.        *)
(***************************************************************************)
EXTENDS NodeName, FiniteSets

CONSTANTS
  Pids,      \* a set of numbers: the scan is in their order
  Worlds,    \* what may run at first: pid -> [birth, ppid, cmd, env, space]
  Quiet,     \* the same, when nothing starts or exits later
  Programs,  \* the command lines of processes that are started later
  MaxEvents  \* bound on what happens on the host

ASSUME PidsAssumption == Pids \subseteq Nat \ {0} /\ IsFiniteSet(Pids) /\ MaxEvents \in Nat

Processes == [birth : Nat, ppid : Pids \cup {0}, cmd : CommandLines,
              env : Seq(Words), space : Seq(Words)]

ASSUME ProgramsAssumption == Programs \subseteq CommandLines

\* What runs at first is a forest: its processes can be numbered from the roots downwards.
ASSUME WorldsAssumption ==
  \A w \in Worlds \cup Quiet :
    /\ DOMAIN w \subseteq Pids
    /\ \A p \in DOMAIN w :
         w[p] \in Processes /\ w[p].birth = 0 /\ w[p].ppid \in DOMAIN w \cup {0}
    /\ \E rank \in [Pids -> 0 .. Cardinality(Pids)] :
         \A p \in DOMAIN w : w[p].ppid # 0 => rank[w[p].ppid] < rank[p]

VARIABLES
  world,     \* the live processes: pid -> [birth, ppid, cmd, env, space]; env and space are
             \* ROS_NODE_NAME and ROS_NAMESPACE in the environment
  events,    \* events on the host so far; a process is born with its number
  pc,        \* where get_processes is; "raised": RecursionError ends the daemon
  todo,      \* the pids process_iter, or the loop, has still to look at
  scan,      \* all_procs: pid -> what was read of it
  seen,      \* seen_pids
  names,     \* _node_name_cache
  spaces,    \* _namespace_cache
  report,    \* ros_processes
  since      \* events when the cycle started (history)

collectorVars == <<pc, todo, scan, seen, names, spaces, report, since>>
vars == <<world, events, collectorVars>>

Nothing == [p \in {} |-> NoName]

Put(f, p, v) == [x \in DOMAIN f \cup {p} |-> IF x = p THEN v ELSE f[x]]

TypeOK ==
  /\ \A f \in {world, scan, names, spaces} : DOMAIN f \subseteq Pids
  /\ events \in 0 .. MaxEvents /\ since \in 0 .. events
  /\ pc \in {"scan", "visit", "raised"}
  /\ todo \cup seen \subseteq Pids
  /\ \A p \in DOMAIN world : world[p] \in Processes /\ world[p].birth <= events
  /\ \A r \in report :
       /\ r.pid \in DOMAIN names \cap DOMAIN spaces /\ r.name = names[r.pid]
       /\ r.children \subseteq Pids
       /\ r.ram \cup r.net \cup r.disk \subseteq Seq(Pids)
       /\ r.nodes \subseteq DOMAIN names \cap DOMAIN spaces

Init ==
  /\ \/ world \in Worlds /\ events = 0
     \/ world \in Quiet /\ events = MaxEvents
  /\ pc = "scan" /\ todo = DOMAIN world /\ scan = Nothing
  /\ seen = {} /\ names = Nothing /\ spaces = Nothing /\ report = {} /\ since = 0

-----------------------------------------------------------------------------
\* The host.

Start(p) ==
  /\ p \notin DOMAIN world /\ events < MaxEvents
  /\ events' = events + 1
  /\ \E q \in DOMAIN world \cup {0}, cmd \in Programs :
       world' = Put(world, p, [birth |-> events + 1, ppid |-> q, cmd |-> cmd,
                               env |-> <<>>, space |-> <<>>])
  /\ UNCHANGED collectorVars

\* Processes exit, and their children go to init.  A zombie counts as gone: it has no command
\* line, and no figures can be read of it.
Exit(S) ==
  /\ S \subseteq DOMAIN world /\ events + Cardinality(S) <= MaxEvents
  /\ events' = events + Cardinality(S)
  /\ world' = [x \in DOMAIN world \ S |->
                 IF world[x].ppid \in S THEN [world[x] EXCEPT !.ppid = 0] ELSE world[x]]

ExitProcess(p) == Exit({p}) /\ UNCHANGED collectorVars

-----------------------------------------------------------------------------
\* The scan.  A process that has gone meanwhile is left out.

Next1 == First(todo)

ScanProcess ==
  /\ pc = "scan" /\ todo # {}
  /\ todo' = todo \ {Next1}
  /\ scan' = IF Next1 \in DOMAIN world THEN Put(scan, Next1, world[Next1]) ELSE scan
  /\ UNCHANGED <<world, events, pc, seen, names, spaces, report, since>>

EndScan ==
  /\ pc = "scan" /\ todo = {}
  /\ pc' = "visit" /\ todo' = DOMAIN scan
  /\ UNCHANGED <<world, events, scan, seen, names, spaces, report, since>>

-----------------------------------------------------------------------------
\* The tree.

\* Variant: a process is taken for a child of its grandparent as well.
ChildrenAndTheirs(p) ==
  {q \in DOMAIN scan : scan[q].ppid = p
                       \/ (scan[q].ppid \in DOMAIN scan /\ scan[scan[q].ppid].ppid = p)}

\* Variant: a process without a parent is entered below itself.
OwnParent(p) == {q \in DOMAIN scan : scan[q].ppid = p \/ (scan[q].ppid = 0 /\ q = p)}

\* children_by_ppid
ChildrenOf(p) == {q \in DOMAIN scan : scan[q].ppid = p}

\* The calls of _get_descendants for p that are n deep, each as the processes it comes by:
\* one call for every child of the process the call before was made for.
Calls(p, n) ==
  {call \in [1 .. n + 1 -> Pids] :
     call[1] = p /\ \A i \in 1 .. n : call[i + 1] \in ChildrenOf(call[i])}

\* What is added up for p: itself and one entry for each of the calls below.
Family(p) == UNION {Calls(p, n) : n \in 0 .. Cardinality(DOMAIN scan)}

Descendants(p) == {Last(call) : call \in Family(p) \ Calls(p, 0)}

\* The recursion does not end: there are more levels than processes.
Endless(p) == Calls(p, Cardinality(DOMAIN scan)) # {}

-----------------------------------------------------------------------------
\* _collect_process_stats with _aggregate_children.

\* How far the reading of a child gets before it raises, because the child is gone by then:
\* to its memory, its command line, its status, or all the way.
Reaches == 0 .. 3

\* Nothing is read of a child that is gone already, not everything of one that exits, and all
\* of the others: the program may read what it wants.
Reached(children, exiting) ==
  {reach \in [children -> Reaches] : \A q \in children :
     /\ q \notin DOMAIN world => reach[q] = 0
     /\ reach[q] = 3 <=> q \in DOMAIN world \ exiting}

\* The children of a launch process that are asked for their name: those whose command line
\* is read and that are no launch process themselves.
Asked(p, children, reach) ==
  {q \in children : IsLaunch(world[p].cmd) /\ reach[q] >= 2 /\ ~IsLaunch(world[q].cmd)}

\* A name is looked for once for each pid, in the environment only for the process itself.
NamesWith(p, asked, env) ==
  [q \in DOMAIN names \cup {p} \cup asked |->
     IF q \in DOMAIN names THEN names[q]
     ELSE NodeName(world[q].cmd, IF q = p THEN env ELSE <<>>)]

\* Variant: a namespace is looked for only if there is a name.
SpacesOfNamed(p, named, space) ==
  [q \in DOMAIN spaces \cup (IF IsEmpty(names'[p]) THEN {} ELSE {p}) \cup named |->
     IF q \in DOMAIN spaces THEN spaces[q]
     ELSE Namespace(world[q].cmd, IF q = p THEN space ELSE <<>>)]

\* A namespace as well, in a child if it has a name.
SpacesWith(p, named, space) ==
  [q \in DOMAIN spaces \cup {p} \cup named |->
     IF q \in DOMAIN spaces THEN spaces[q]
     ELSE Namespace(world[q].cmd, IF q = p THEN space ELSE <<>>)]

Counted(p, reach) == {call \in Family(p) : call \notin Calls(p, 0) => reach[Last(call)] >= 1}

\* The memory of the children and their traffic are added to those of the process, its disk
\* figures stay its own.  Any of the children may exit on the way.
Collect(p) ==
  LET children == Descendants(p)
  IN  \E exiting \in SUBSET (children \cap DOMAIN world) : \E reach \in Reached(children, exiting) :
        LET asked == Asked(p, children, reach)
            named == {q \in asked : ~IsEmpty(names'[q])}
        IN  /\ names' = NamesWith(p, asked, world[p].env)
            /\ spaces' = SpacesWith(p, named, world[p].space)
            /\ report' = report \cup
                 {[pid |-> p, cmd |-> world[p].cmd, name |-> names'[p], launch |-> IsLaunch(world[p].cmd),
                   children |-> children, ram |-> Counted(p, reach), net |-> Family(p),
                   disk |-> Calls(p, 0), nodes |-> {q \in named : reach[q] = 3}]}
            /\ seen' = seen \cup children
            /\ Exit(exiting)
            /\ UNCHANGED pc

Skip == UNCHANGED <<pc, seen, names, spaces, report>>

\* Variant: what is below a process is passed whether or not the process can be read.
PassBelow(p) == seen' = seen \cup Descendants(p) /\ UNCHANGED <<pc, names, spaces, report>>

\* cmdline() of a process that has gone raises: it is not reported, and what is below it is
\* left for the loop to find.
CollectGone(p) == Skip

\* It exits after its command line was read, before or after its environment is: what was
\* looked up stays in the caches.
CollectDies(p) ==
  /\ Exit({p})
  /\ \E env \in {world[p].env, <<>>} : names' = NamesWith(p, {}, env)
  /\ \E space \in {world[p].space, <<>>} : spaces' = SpacesWith(p, {}, space)
  /\ UNCHANGED <<pc, seen, report>>

\* RecursionError, which nothing catches.
CollectRaises == pc' = "raised" /\ UNCHANGED <<seen, names, spaces, report>>

-----------------------------------------------------------------------------
\* The loop.

Passed(p) == p \in seen

Skips(p) ==
  Passed(p) \/ scan[p].cmd = <<>> \/ IsShellWrapper(scan[p].cmd) \/ ~IsRosProcess(scan[p].cmd)

Visit ==
  /\ pc = "visit" /\ todo # {}
  /\ todo' = todo \ {Next1}
  /\ UNCHANGED <<scan, since>>
  /\ \/ Skips(Next1) /\ Skip /\ UNCHANGED <<world, events>>
     \/ ~Skips(Next1) /\ CollectDies(Next1)
     \/ /\ ~Skips(Next1) /\ Next1 \notin DOMAIN world
        /\ CollectGone(Next1) /\ UNCHANGED <<world, events>>
     \/ /\ ~Skips(Next1) /\ Next1 \in DOMAIN world
        /\ IF Endless(Next1) THEN CollectRaises /\ UNCHANGED <<world, events>>
                             ELSE Collect(Next1)

\* The report is passed on; the next cycle, or the next daemon, starts from empty caches.
StartCycle ==
  /\ pc = "raised" \/ (pc = "visit" /\ todo = {})
  /\ pc' = "scan" /\ todo' = DOMAIN world /\ scan' = Nothing
  /\ seen' = {} /\ names' = Nothing /\ spaces' = Nothing /\ report' = {}
  /\ since' = events
  /\ UNCHANGED <<world, events>>

Next ==
  \/ \E p \in Pids : Start(p) \/ ExitProcess(p)
  \/ ScanProcess \/ EndScan \/ Visit \/ StartCycle

Spec == Init /\ [][Next]_vars

-----------------------------------------------------------------------------
\* The processes below p in the scan: the least set that holds its children and theirs.
Below(p) ==
  {q \in Pids : \A S \in SUBSET Pids :
     (\A x \in DOMAIN scan : scan[x].ppid \in S \cup {p} => x \in S) => q \in S}

\* A process of the scan that still runs.
Stays(q) == q \in DOMAIN scan \cap DOMAIN world /\ scan[q].birth = world[q].birth

\* What a report adds up: child_pids are all processes below it in the scan, at whatever depth
\* (_get_descendants; ProcessStatus.msg:7 calls them direct children), and memory and traffic
\* are added once for each of them and itself; memory can miss only processes that have gone
\* (_aggregate_children).  The disk figures are those of the process alone, where
\* ProcessStatus.msg:25 has those of the children added.
TotalsAreOfTheTree ==
  \A r \in report :
    /\ r.children = Below(r.pid)
    /\ {Last(entry) : entry \in r.net} = {r.pid} \cup r.children
    /\ \A a, b \in r.net : Last(a) = Last(b) => a = b
    /\ r.ram \subseteq r.net /\ \A entry \in r.net \ r.ram : ~Stays(Last(entry))
    /\ r.disk \subseteq r.ram /\ {Last(entry) : entry \in r.disk} = {r.pid}

Shows(r, q) ==
  \/ q = r.pid
  \/ q \in r.children /\ ~r.launch
  \/ q \in r.nodes
  \/ q \in r.children /\ q \in DOMAIN names /\ IsEmpty(names[q])

\* No node goes missing between the loop and the trees: at the end of a cycle each ROS process
\* that was scanned and still runs is in the report by itself, or in child_pids of a process
\* that is no launch process, or among the nodes of one, unless its command line gives no
\* name.  A launch process below another one is none of this: seen_pids keeps the loop
\* from it and the aggregation skips it, and it is only counted in the other's child_pids.
EveryNodeIsShown ==
  (pc = "visit" /\ todo = {}) =>
    \A q \in DOMAIN scan :
      (Stays(q) /\ IsRosProcess(world[q].cmd) /\ ~IsShellWrapper(world[q].cmd))
        => \E r \in report : IF IsLaunch(world[q].cmd) THEN q \in {r.pid} \cup r.children
                                                       ELSE Shows(r, q)

IsInterpreter(words) ==
  Len(words) = 1 /\ (IsPython(words[1]) \/ IsOneOf({"bash", "sh"}, words[1]))

\* The rules that take a name from the path of a program or from what stands in its place.
Guessed == {"shell", "installed", "argument", "executable"}

\* "fallback never returns interpreter" (test_process_naming.py): no rule that guesses comes
\* up with python or with the shell the command line begins with, but for dash, which the
\* lists of names to skip leave out, and a script or package that goes by that name.
NameIsNoInterpreter ==
  \A p \in DOMAIN names :
    (names[p] # NoName /\ names[p][1].rule \in Guessed) =>
      ~IsInterpreter(names[p][1].words)

\* An option, an interpreter or nothing at all says nothing about the process.
IsNothing(words) ==
  \/ IsFlag(words[1])
  \/ /\ Len(words) = 1
     /\ words[1] = Plain("") \/ IsPython(words[1]) \/ IsOneOf(SkipNames, words[1])

SaysNothing(arg) == arg = <<>> \/ IsNothing(BasenameOf(arg)) \/ IsNothing(StemOf(BasenameOf(arg)))

\* A ROS process has a name unless it is given an empty one, or its command line is made of
\* interpreters, options and files named after one alone, or became empty before it was
\* read: the last rules cover what the others leave.
RosProcessIsNamed ==
  \A r \in report :
    IsEmpty(r.name) =>
      \/ r.name # NoName \/ r.cmd = <<>>
      \/ IsInterpreter(BasenameOf(r.cmd[1])) /\ \A i \in DOMAIN r.cmd : SaysNothing(r.cmd[i])

\* The parents, read one after the other, form no cycle, in which the recursion would end the
\* daemon, unless a pid was taken over during the scan.
CycleNeedsReuse ==
  pc = "raised" => \E p \in DOMAIN scan : scan[p].birth > since
=============================================================================
