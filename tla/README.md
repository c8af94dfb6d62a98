# TLA+ models of ros2_vitals

This directory holds a TLA+ development of ros2_vitals: models of its stateful parts, the
TLC runs that check them on small instances, and proofs that TLAPS checks for all instances.
Paths below are relative to `src/ros2_vitals/ros2_vitals/` unless they name something else.

## 1. The system

ros2_vitals monitors the machines of a ROS 2 system. On each host a privileged daemon
collects figures; a bridge node reads them over a Unix socket and publishes them; a terminal UI
and an rqml plugin display the status of all hosts and can ask for a process to be killed.

| Component | State it keeps | Operations | Talks to |
|---|---|---|---|
| vitals-daemon (`daemon.py`) | `_running`, `_client`, the listening socket, its collectors | main loop: collect, send, read one kill request, sleep; accept thread; `stop` | collectors by calls, bridge by socket, systemd restarts it |
| bridge node (`bridge_node.py`) | `_sock`, `_connected`, `_latest_snapshot`, `_last_kill_response` | reader thread: connect, read, disconnect; executor: publish timer, kill service; `destroy_node` | daemon by socket, ROS by topic and service |
| daemon socket (`/run/vitals/collector.sock`) | two byte streams for each connection, the backlog | length-prefixed JSON: `status`, `kill`, `kill_response` | - |
| rate calculator (`utils/rate_calculator.py`) | `_prev_values` | `calculate_rate(s)`, `clear`, `remove_key` | used by the disk, network, process and net-stats collectors |
| net-stats collector (`collectors/net_stats_collector.py`, `ebpf_net_collector.py`) | `_last_stats`, `_last_seen_pids`, `_last_collect_time`; in the kernel the BPF map | `refresh` with the eBPF or the ss backend, `get_process_stats`, `clear`, `shutdown` | the process collector keeps a reference to its dictionary |
| process collector (`collectors/process_collector.py`) | nine caches by PID, `_discovery_cycle`, `_last_seen_pids` | `get_processes`: full or fast cycle | psutil, GPU and net-stats collectors |
| system collector (`collectors/system_collector.py`) | `_ip_addresses`, `_ip_cache_time`, `_temp_probed`, `_temp_sysfs_path` | `collect_all` and a getter for each figure | psutil, sysfs |
| disk, network, GPU collectors | none but the rate calculator's | one `collect` each | psutil, NVML |
| collector node (`collector_node.py`) | where its one thread is | the variant without daemon: timer, kill service | collectors, ROS |
| terminal UI (`terminal_ui/app.py`) | `_hosts`, `_selected_host`, `_selected_process`, `_scroll_offset`, `_display_procs`, `_paused` | keys, drawing, status callback in a thread of its own | ROS topic |
| rqml plugin (`src/rqml_vitals/qml`) | hosts, histories, selected host, expanded launches | message callback, `clear`, kill call | ROS topic and service |

The hard parts are
- the link: two programs of two threads each, with locks that cover less than one would wish,
  connections that are replaced while in use, restarts, timeouts on one side only, a kill
  response without a request id;
- the collectors: caches by PID while PIDs are taken over, a scan that is not a snapshot, a map
  in the kernel that is filled while it is read, sums of counters that fall, a wall clock that
  is set;
- the displays: a selection by index or by name into data that changes under it.

What makes each correct is what the properties below say: sockets are not leaked, calls return
and are not mixed up, the status does not go back and comes back after a restart; no byte is
reported twice; caches do not grow and do not outlive their process; every ROS process is seen,
has a name and is counted once; the selection stays on the list that is shown.

## 2. Modules

| Module | What it is |
|---|---|
| `Socket` | the connections, modelled from their use |
| `Daemon` | the daemon: main loop, accept thread, start, stop, crash |
| `Bridge` | the bridges: reader thread and executor of each |
| `VitalsLink` | the composition of the three, fairness, and the properties of the link |
| `KillService` | what the kill service promises as a whole; `VitalsLink` and `CollectorNode` implement it |
| `SocketFile` | the life of the socket's file: start and end of daemons that share a path |
| `RateOps` | what the rate calculator computes, as operators on its dictionary |
| `RateCalculator` | the rate calculator with counters and a clock |
| `NetStats` | the ss backend with the host's TCP sockets; uses `RateOps` |
| `EbpfNet` | the eBPF backend with the probes that run in the kernel |
| `NetStatsCollector` | the choice between the two backends, and either at work |
| `ProcessCollector` | `get_processes` over many cycles, with a host whose processes come and go |
| `ProcessReport` | what one full discovery reports: scan, tree, totals, the nodes of launch processes |
| `NodeName` | the names of processes, as functions of the command line; used by `ProcessReport` |
| `SystemCollector` | the two caches of the system collector, with the host they are about |
| `CollectorNode` | the collector node: `SystemCollector` with the node's thread and its kill service |
| `TerminalUI` | the terminal UI: spin thread, keys, drawing |
| `VitalsLinkProofs` | types, sockets, snapshots, requests and the refinement of the link, proved |
| `RateCalculatorProofs` | the properties of the rate calculator, proved |
| `SocketFileProofs` | that a daemon on its own can be reached, proved |
| `CollectorNodeProofs` | type correctness, refinement and caches of the collector node, proved |
| `NetStatsProofs` | what both net-stats backends report and lose, proved |
| `ProcessCollectorProofs` | types, caches and loop of the process collector, proved |
| `ProcessReportProofs` | the tree, the report and the names, proved |
| `TerminalUIProofs` | that selection, list and screen fit one another, proved |
| `MC*` | instances for TLC |

Operators introduced by "Variant" in a comment are mutated forms of the definition they precede.
No specification uses them; each breaks the property it was written for.

### The link

One action is what the code does under a lock or between two points where the other thread can
matter. In the daemon (`Daemon`): `Collect` is `_collect_snapshot`; `SendStatus` and
`HandleClientMessages` are the two regions under `_client_lock`; `Kill` is the psutil call, which
holds no lock, and `Respond` takes the lock again and answers whoever is the client by then. The
accept thread is `Accept` (no lock) and `Install` (lock). Closing a socket drops what the closing
side has not read, while what it has sent can still be read: that is how the requests of an evicted
bridge get lost and how its last status still arrives.

The accepted socket blocks until `_recv_message` sets its timeout to 0 for the first time; the send
buffer holds `BufCap` messages. A blocking send to a full buffer waits, and waits with the lock
held: `Install` may come before it and, in the code, not during it. The model lets `Install` happen
at any time, which is the first of these cases, and lets the send wait; since the reader at the
other end goes on reading or closes, the wait ends by itself. A non-blocking send fails and may
leave a prefix (`Torn`). A prefix alone is dropped by the reader's timeout, which keeps the stream
aligned. One followed by another message is completed with the first bytes of that, its binary
length among them, and read as garbage (`ReceiveGarbled`): depending on those bytes json.loads raises
JSONDecodeError, after which the bridge reconnects, or UnicodeDecodeError, which no handler names
(`bridge_node.py:182`), and the reader thread is gone (`"ended"`) while the bridge goes on
publishing what it has. `ReaderEndsByCutAnswer` says which prefix it takes: that of a kill response,
whose sending the daemon does not check, and not that of a status, after which it closes the
connection.

In the bridge, `Connect` is outside `_sock_lock` and `InstallSocket` inside; `PickSocket` copies
`_sock`; reading uses the copy (`rsock`), and `Disconnect` compares it with `_sock` under the lock.
`Publish`, `KillCall` and the steps up to `Answer` exclude each other because the node is spun
single-threaded: `kpc` is where the executor is. `KillReturn` takes whatever is in
`_last_kill_response`, since responses carry no id; the model adds the id (`of`) as history to say
what that may cause.

Abstracted: the content of snapshots (known by daemon start and cycle), JSON, log messages, the
reconnect interval of two seconds (a bridge may try again at any time), the polling interval.

### The socket file

The link takes the path for granted; `SocketFile` is about how it comes and goes. `run` tests for
a stale file, removes it, binds, sets the mode and listens, one action each (`CheckStale`,
`UnlinkStale`, `Bind`, `Chmod`, `Listen`), and closes and removes the file at its end
(`CheckRemove`, `Remove`). It crashes between any two of them (`Crash`), leaving the file, and a
second daemon, started by hand, may take the same steps at the same time. A step that needs the
file raises when the other one has removed it (`WithFile`), outside of the try statement. `met` is
history: the daemons that have run beside another one. They take each other's file away, which the
code does nothing against; the properties are about daemons that have not met.

### The rate calculator and its users

`RateOps` keeps a rate as the two numbers the code divides, so that sums of bytes can be stated
exactly. `RateCalculator` lets the clock take any value at any step, and counters restart at 0.
The history variables `moved` and `reported` start with the first sample of a key, as the code
cannot know what was before.

`NetStats` has what ss does on top of that: a socket is shown with both counters only after it has
both sent and received something (the parser needs both), sums go by owner, and samples of
processes that are gone are removed. `RefreshFails` is the early return; `_last_stats` and the
process collector's `_net_stats_cache` are one dictionary, cleared before the refresh.

`EbpfNet` takes reading (`ReadEntry`) and clearing (`ClearEntry`) entry by entry, with `Traffic` at
any time between, in both directions. The map has room for `MapSize` entries; `Traffic` that finds
none is counted nowhere. The history variables are by key: what was seen (`counted`), found the map
full (`dropped`), and fell between the reading of its entry and the clearing of it (`late`), so that
a race on one entry excuses no loss on another (`EveryByteAccountedFor`).

`NetStatsCollector` makes the choice of `__init__` once and takes the steps of the chosen backend,
with an instance of each of the two modules.

### The process collector

The host's steps (`Start`, `Exec`, `ExitProcess`) happen between the scan, the visit of each process
and the clean-up. A process is known by its birth, which stands for its create_time; a name by the
birth and image it was taken from. Figures that are differences are known by the process the earlier
value was taken of: the Process object and its cached value for CPU (`procCache`, `cpu`), the sample
in the rate calculator for the disk (`samples`, by PID alone). A visit is atomic but for the ways a
process may exit in it: before its command line is read (`CollectGone`); after that, but before its
status is (`CollectDies`); or later, when it is reported all the same, perhaps with the CPU value of
the last cycle and without a disk rate (`Collect`). Each leaves other caches filled. The daemon runs
as root, so AccessDenied is left out. The scan is atomic here; `ProcessReport` has it process by
process. psutil's process_iter has its own cache; a PID that was taken over comes with the new
process, or is left out of one scan (`Reused`), depending on the version of psutil. What the call
computes locally is forgotten at its end.

### One report

`ProcessCollector` knows of a command line only whether it is one of ROS; `ProcessReport` looks into
one full discovery instead. Every cycle begins with empty caches. Processes are scanned one by one,
with their parents and command lines as they are at that moment, so that the tree may be one that
was never there; the loop then visits them in the order of their PIDs and reads the processes as
they are by then. A figure is the set of what is added up for it. What would be entered twice must
show, so an entry is not a PID but the call of `_get_descendants` that made it: `Calls(p, n)` are
the ways of n steps down from p, each the processes it comes by, `Family` all of them, and two with
the same end are one process counted twice. A recursion without end is one with a call that is
deeper than there are processes (`Endless`). `Collect` is `_collect_process_stats` with
`_aggregate_children`; how far the reading of each child gets before it raises is chosen for each
child (`Reached`): not at all, to its memory, to its command line, or to its status; a child that
goes on running is read completely (`exiting` are those that do not). A zombie counts as gone. The
disk figures are those of the process alone. `CollectGone`, `CollectDies` and `CollectRaises` are
the ways the collection of a process fails: before or after its command line is read, or in a
recursion without end, which nothing catches, so that the daemon ends. What runs when a cycle starts
is a forest (`WorldsAssumption`), as it is on any host; what the scan makes of it need not be one.

### Names

`NodeName` has the thirteen rules that find a name, in their order, the patterns of ROS processes,
the kinds of processes, and namespaces. A command line is a sequence of arguments, an argument a
sequence of words (several if it is code for `-c`), and a word has a key (the dash of a flag,
`__node:=`), a directory, a base and an extension, which is what the patterns tell apart. Left out
are the separators in a name, the shortening of targets of more than 25 characters, modules with
dots other than those named, and an argument whose words end in `.sdf` more than once.

`NameIsNoInterpreter` is about the rules that guess (`Guessed`): a path, an argument, an
executable. A name that stands in the command line as such (a remapping, a package of `ros2 run`, a
module of `-m` or `-c`) may well be "bash". `RosProcessIsNamed` leaves out what has no name to
find: a process that gives itself an empty name, one whose command line is empty when it is read
again, and one whose arguments are all options, interpreters or files named after one, such as
`python3 sh.py`, which the last rules skip on purpose.

### The collector node

`CollectorNode` has one thread, `pc`: it collects and publishes, or serves a call. A call waits
(`waiting`) until the thread is back in `spin`; when the node ends the calls it has not answered
are lost and their clients give up. `SystemCollector` is what its collection remembers, and the
host around it: the wall clock goes on (`Tick`) or is set (`SetClock`), drivers are loaded and
number the directories of `/sys/class/hwmon` anew (`LoadDrivers`). The history variables `age` and
`setBack` say how old the addresses really are. The file for the temperature is any of the sensor's
name, since glob and psutil go through the directories in orders of their own; no property is
stated about it, as nothing in the code says which of them it should be.

### The terminal UI

The spin thread writes `hosts` (`StatusCallback`) at any time. The UI thread takes one key, or the
timeout of 100 ms, and then draws, for ever. Each key is an action; `Move` and `SelectHost` are what
they have in common. `Draw` computes the rows from the hosts and GPUs (`ListRow`), the keys from
the height alone (`Page`), as the code does; the list is rebuilt and the selection clamped only by
a drawing that gets as far as the list. Page Down on an empty list takes the selection to -1, where
it stays until a key other than Up moves it; `SelectionWithinList` says that nothing else does, and
that no entry is highlighted meanwhile. Of a group of processes
only the number of its entries counts (`Members`). Colours,
columns and figures are left out.

## 3. Runs

| Run | Instance | Shows |
|---|---|---|
| `LinkSafety` | 1 bridge, 2 connections, 2 requests, buffer of 2, 1 start, 3 cycles, accept may fail | `ConnectedIffSocket`; `RefusedIsNeverSignalled`; `WrongResponseNeedsLostCall`; `SnapshotsNeverGoBack`; `SignalledOnce`; `ReaderEndsByCutAnswer`; `KillServiceSpec` (refinement); `TypeOK` |
| `LinkLiveness` | 1 bridge, 2 connections, 1 request, buffer of 1, 2 starts, crashes and stops, no symmetry | each open end has exactly one owner (`DaemonOwnsItsEnds`, `BridgeOwnsItsEnds`); `EveryCallReturns`; `BridgeRecovers` |
| `SocketFile` | 2 daemons, 2 crashes | `UpIsReachable`, `ServiceComesBack` |
| `RateCalculator` | 2 keys, clock 0..2, counters up to 3 | `NeverOverReports`, `LosesNothing`, `TypeOK` |
| `NetStatsCollector` | ss: 2 processes, 2 sockets, 2 bytes each; eBPF: 1 process, 2 protocols, 2 directions, a map of 2 entries, 3 bytes; clock up to 3 | `SamplesOfLastSeen`, `ReportsOnlyTraffic`, `EveryByteAccountedFor`, `ClockRaises`, `TypeOK` |
| `ProcessCollector` | 3 PIDs, every second cycle is full, 3 events | `CachesAreBounded`, `OldFiguresNeedTakeover`, `CountedTwiceOnlyIfSmaller`, `EveryRosProcessReported`, `TypeOK` |
| `ProcessReport` | all trees of 3 launch processes, nodes and shells, with 2 events; 1 process with any ROS command line of up to 4 of 15 arguments, with and without ROS_NODE_NAME | `TotalsAreOfTheTree`, `EveryNodeIsShown`, `NameIsNoInterpreter`, `RosProcessIsNamed`, `CycleNeedsReuse`, `TypeOK` |
| `CollectorNode` | 2 requests, 2 sensor directories, 2 names, clock 1..3, addresses kept for 1 | `AddressesAreRecent`, `KillServiceSpec` (refinement), `TypeOK` |
| `TerminalUI` | 2 hosts, 3 statuses (empty, 3 entries, 6 entries below 9 GPUs), heights 13, 16, 25 | `SelectionWithinList`, `SelectionStaysOnScreen`, `ScreenCatchesUp`, `TypeOK` |

Three runs show where the code does not do what its interface or comments say:

| Run | Property that fails | Why |
|---|---|---|
| `LinkWrongSuccess` | `SuccessMeansSignalSent` | a late response to a call that timed out is returned by the next call |
| `NetStatsClosed` | `OutgoingTraffic` | a sum over sockets falls when one is closed; taken for a reset, the others are counted again |
| `ProcessStaleName` | `NameIsOfProcess` | names are cached by PID and survive the process if the PID is taken over between cycles |

The weaker statements that do hold are checked beside them: `WrongResponseNeedsLostCall`,
`RefusedIsNeverSignalled`, `ReportsOnlyTraffic` and `OldFiguresNeedTakeover` say how far each of
these goes.

With two workers the passing runs take from a few seconds to a minute and a half each. Distinct
states: `LinkSafety` 1.4 million, `NetStatsCollector` 840000, `ProcessReport` 480000, `LinkLiveness`
380000, `CollectorNode` 200000, `ProcessCollector` 130000, `TerminalUI` 120000.

Bounds, and why they are enough.

- The link: two connections are the one in use and the one that replaces it; a third would have to
  wait in the backlog behind a second unread one, which one bridge cannot make before it has lost the
  first. Two requests are what a mix-up takes, and `LinkSafety` has them with a daemon that stays:
  connections are lost by eviction, by a bridge that ends, by torn messages and by an accept that
  fails. `LinkLiveness` has the restarts: `MaxStarts` also bounds crashes, so that there is a last
  daemon, which stays, for `BridgeRecovers`. Restarts with two requests, and snapshots across
  restarts, are left to the theorems of section 5, which are for any number of them. `MaxCycle`
  saturates the cycle number; three different snapshots are enough to see one overtake another. With
  a buffer of one message it is full whenever anything is unread; with two it may fill while a
  response waits behind a status.
- One bridge is checked, since two make 9 million states with one request; the theorems are for any
  number. What holds with one bridge only is `WrongResponseNeedsLostCall`: with two, the daemon may
  answer the bridge that has taken the place of the one that asked, whose call then returns the
  response to a call that is still waiting.
- Net stats: a map of two entries is full while a process with two protocols and two directions has
  two more keys, and three bytes are one in each entry and one that is late or finds no room.
- Processes: three PIDs give a chain of descent, and three events a start, an exit and a successor,
  or a parent, a child and the exit of the parent. In `ProcessReport` two events take a PID over
  during a scan, which is what a cycle in the tree needs. Four arguments are what the longest rule
  reads (`ros2 run <package> <executable>`), and each of the fifteen is there because a rule treats
  it differently.
- The terminal: at height 13 there is no room for entries, and below two hosts not even for the
  list, which is then not rebuilt; at 16 there is room for one or two entries of three; at 25 for
  all three, but only for one or two of the six below nine GPUs, where the keys assume four rows.
- The collector node: a clock of three values is one step before, at and behind the expiry. Two
  directories and two names give two sensors of the same name, a better and a worse one, and one
  that takes the place of another.
- The socket file: two crashes are one in each daemon, or two in a row in one.

## 4. Fairness

`FairSpec` of `VitalsLink` assumes that systemd starts the daemon again (Restart=always in
`src/ros2_vitals/config/vitals-daemon.service`), that the threads of running processes run, and that
a loop whose next step is possible takes it. It assumes nothing of clients, of processes ending, or
of one step among several that a thread may take: a thread that may time out or read may do either.
accept() does not fail in `LinkLiveness` (`AcceptMayFail`): when it does the accept thread ends for
good while the daemon goes on, and a bridge that connects then waits for ever, which the code does
not recover from. Nor does it recover from the end of the reader thread, so `BridgeRecovers` is
about bridges whose reader thread lives; `LinkLiveness` has the others too.

`FairSpec` of `SocketFile` says that a daemon that runs goes on, and that systemd starts its own
again; that of `ProcessCollector` that the main loop goes on; that of `TerminalUI` that getch
returns after 100 ms without a key (`NoKey`) and that the loop draws. Nothing is assumed of hosts,
keys, crashes or messages.

## 5. Proofs

`VitalsLinkProofs` proves `TypeCorrect`, Spec => []TypeOK, for any sets of bridges, connections and
requests and any bounds. `TypeOK` is not inductive: that a status sent is one of `Snapshots` needs
that a daemon that runs has been started, that a response is one of `KillResponses` needs that a
daemon in "kill" or "respond" has a request, and that a reply goes to a request needs the same of
the service. These are the conjuncts of `ThreadsOK`; `TypeInv` is the conjunction and is inductive.
There is a lemma for each operation on the sockets, and one for each side of the link with a step
for each action.

The same module proves `BridgeEndsOwned`, `ConnectedHasSocket` and `DaemonEndsOwned`. What is
said of the bridges needs `BridgeThreads`, which connection a bridge holds at each place of its
reader: for instance that while it connects it has no socket yet, so that installing the new one
closes none that is in use, and that what it reads from is its socket unless the node is being
destroyed. What is said of the daemon is inductive as it stands; that nothing is twice in the
backlog, part of it, needs two facts about queues (`AppendElement`, `TailElement`).

It also proves `NeverBack`, that no bridge replaces its snapshot by an older one, over any number of
restarts, reconnects and evictions, of which the run has no restart. `SnapshotsNeverGoBack` is not
inductive: it needs that what is still in a socket is no older than what the bridge at its end
holds, that it lies there in order, that none of it is newer than the daemon's own,
and that a connection whose bridge has closed it holds nothing, so that a later bridge does not find
what was meant for an earlier one (`QueueOrder`); and that no bridge has a snapshot newer than the
daemon's, nor has published one newer than it has (`HeldOrder`). That
snapshots are ordered by start first and cycle second (`OlderIsOrder`) is what carries this over a
restart. Queues change in two ways, each with a lemma: something is appended
(`AppendKeepsOrder`), or what is left is the rest of what was there (`RestKeepsOrder`).

Of requests it proves `RefusedNeverSignalled` and `SignalledAtMostOnce`. Neither is inductive.
What makes them so is where a request can be that has not reached psutil: with the service about to
send it, in one socket, or in the hand of the main thread (`Pending`), in only one of these, at one
bridge, once in the socket (`RequestInv`). Every step either takes no request further
(`NoneAdvances`: most of them, also crashes, evictions and restarts, which only lose requests) or
takes one from one place to the next, and those steps have a lemma each.

It proves `LinkImplementsKillService` by the same argument for the way back:
the response to a request is about to be sent, in one socket, with one waiting service, or
reported, and only one of these (`ResponseInv`); it exists only when psutil has answered and says
what psutil did. With that every step of the link is a step of `KillService` or leaves the calls,
outcomes and replies alone. As it is for any number of bridges it covers what the runs do not: a
response that goes to another bridge than the one that asked.

It also proves `WrongOnlyAfterLost`, that with one bridge a call returns the response to another one
only after a call was lost. The property speaks of replies; the invariant (`TurnInv`) of what has
not become one yet: requests are made in their order, one at a time, and a request of which anything
is under way is the one that is served or follows a lost call. A call that ends with its own
response or a refusal leaves nothing under way (`DoneIsOver`), one that ends otherwise is lost or
follows a lost one (`AnswerKeepsTurn`), and nothing comes under way but by a call
(`DaemonUnderway`, `BridgeUnderway`). That a call forgets the last response is what the proof needs
of `KillCall`: else the response a service still holds would be under way when the next call starts.

`RateCalculatorProofs` proves all three properties of `RateCalculator` for any set of counters and
for all values of clock and counters, where the runs have a few: `RatesWellTyped`,
`RatesNeverOverReport` and `RatesLoseNothing`. The last two are inductive together with type
correctness, because `Outstanding`, what the next rate will report, is part of them: it grows by
one with the counter, is 0 after a rate, falls at a reset, and does not change when the clock is
set back and no sample is stored.

`SocketFileProofs` proves `DaemonReachable` for any number of daemons. `UpIsReachable` speaks of the
end of `run` only; `FileInv` says of every step on the way there what the next one needs
(`OnItsOwn`): that nobody else runs, and that the file is absent before `bind`, the daemon's own
before `chmod`, and public from then on.

`CollectorNodeProofs` proves `NodeTypeCorrect`, `NodeImplementsKillService` and `AddressesRecent`.
The calls that wait, the one that is served, the lost ones and those that were answered are
distinct, and none has an outcome before it is signalled (`CallInv`); with that each step is one of
`KillService` or leaves it alone. `AgeInv` says that the clock has moved at least as far as the
addresses have aged, unless it was set back.

`ProcessCollectorProofs` proves `CachesBounded` and `CountedOnceOrSmaller` for any number of
processes, any interval between full discoveries and any events on the host. For the caches it must
be known that between cycles nothing is current (`CacheInv`). For the other the loop must be known
to go upwards (`LoopInv`: what is reported is behind it and what is below that is in `seen`), which
rests on `NextIsSmallest`: a set of PIDs has a smallest one, since the order of the numbers is
well-founded. The ways the collection of a process may end are reduced to two facts, `Touches` for
the caches and `Reports` for the report; neither depends on what the tree looks like.

It also proves `ProcessTypes`. What `Descendants` finds is computed by a
recursive function, whose type is shown without induction over data: a step can be repeated from a
first value any number of times (`Iterates`), since the least number of times it cannot be has a
predecessor; the function the module chooses is then one of these. `TypeInv` adds that a full
discovery goes by what was scanned.

With the types it proves `FiguresOfTheScan`. Whatever is measured from a process that had the pid
before comes out of a cache, so the proof follows the caches (`FigureInv`): a Process object has
read, and its CPU value is measured from, no process older than the object itself, whose create_time
is compared with the scan; a sample in a cycle is no older than the scan or the last cycle came
across the pid; and a pid is only ever taken over by a younger process (`Ages`).

`NetStatsProofs` proves the invariants of `NetStatsCollector` for any processes and sockets, any
traffic and any clock: `NetStatsTyped`, `NoSampleLeft`, `NothingMadeUp`, `BytesAccountedFor` and
`ClockAloneRaises`. Of the probes: each byte is in the map, or read and not yet turned into a rate,
or in a rate, or found no room, or is late. While the map is read and cleared an entry is in two
places at once, and what is `InFlight` says which of the two counts (`BytesInv`). Of ss: what a
process that closed no socket has sent is the sum of the counters of the sockets it holds; what was
reported for it is at most what was parsed last, and this can only grow (`SsTraffic`), since a
socket once shown stays shown until it is closed. The sums are the folds of the community modules.
That such a fold is what it should be, does not depend on the order of its elements, and grows with
its set (`SummedExists`, `SumRemove`, `SumMonotonic`) is proved over the subsets of a finite set,
where one that fails is least (`SubsetsByOne`). A backend that was not chosen stands still, and its
invariant with it.

`TerminalUIProofs` proves `UITypeCorrect`, `SelectionInList` and `SelectionOnScreen`. The last two
are what a step may do. For the first of them it is an invariant that the selection is not behind
the list and that nothing is highlighted while it is -1 (`Within`). The last one needs what holds
between the drawings: while an entry is highlighted on a screen with room for at least the rows the
keys assume, the selection lies in the list drawn last and in the rows the next drawing will show
(`Follows`). Every key keeps that, because it moves the offset along where the selection would leave
the rows; a new status does not change it, because only a drawing looks at it. That an index within
the number of hosts is the rank of one of them (`RankExists`) is what makes the selected host one
that is there.

`ProcessReportProofs` is about all trees and all command lines, of which the runs have those of
three processes and four arguments.

- `TotalsOfTheTree`. What `_get_descendants` reaches is what is below: the set of all ends of calls
  is closed, so it has the least closed set in it, and a shortest call that ends outside a closed
  set would have one before it (`DescendantsAreBelow`). Nothing is entered twice: a process has
  one parent, so two calls with the same end are the same from there back, the longer one
  comes by its own start again (`SameWayBack`), and could then be put before any call, so that
  none is the deepest (`NoCallComesBack`) and the recursion has no end.
- `CyclesNeedReuse`. The parents on the host form a forest at any time (`ForestInv`): there is a
  numbering that falls from child to parent, which a start extends and an adoption by init leaves
  as it is. Everything read of processes that were there when the cycle started agrees with one such
  numbering; along a call the numbers rise, and a call of more steps than there are processes would
  come by one twice (`EndlessNeedsReuse`).
- `NodesAreShown`. The loop passes over a process in `seen`, and one that has a name already is not
  looked up again, so the proof needs that both are below something reported (`LoopInv`), that what
  it has come by is reported or seen (`ShownInv`), and that a process that still runs is
  the one that was scanned, with the same command line (`HostInv`, `StaysFromBefore`): a successor
  is born later than what the scan has.
- `NoInterpreterNamed` and `ReportedIsNamed`. `NameInv` says that a name is that of a command line;
  the rest is about single command lines, rule by rule (`GuessIsNoInterpreter`,
  `NamelessSaysNothing`): the first rule that says anything gives the name, and the last two
  leave nothing but interpreters and options.
- `ReportTypes`, with what is reported being named and typed in the caches (`ReportTyped`).

The assumptions are the named ASSUMEs of the modules. Most say that sets are finite, that bounds are
numbers and that what stands for "none" is not one of the others. Three say more:
`IntervalAssumption`, that not every cycle is full, as `_discovery_interval` has it;
`WorldsAssumption` and `ProgramsAssumption`, that the processes on the host form a forest and that
command lines are made of words.

Only model-checked are the liveness properties (`EveryCallReturns`, `BridgeRecovers`,
`ServiceComesBack`, `EveryRosProcessReported`, `ScreenCatchesUp`), which are out of the prover's
reach, and `ReaderEndsByCutAnswer`. Every other property of a passing run is stated by a theorem.
Induction over data is out of reach too; where a proof needed it (sums, repeated steps, calls by
depth) a least counterexample takes its place, which the well-founded order of the numbers provides.

## 6. Plan

Done: the link with the kill service and the socket file; the rate calculator and both net-stats
backends behind their collector; the process collector with its report and the names; the system
collector and the collector node; the terminal UI; a theorem for every invariant and action
property that a run checks but one, and for both refinements.

Left:

1. The proof of `ReaderEndsByCutAnswer`: that a status cut short is the last message of its
   connection.
2. Memory of GPU processes and names of containers in the process collector.
3. The plugin: hosts, histories, `clear` and the selected host.

## 7. Not modelled

- The rqml plugin. Its handlers run one at a time on one thread; what could go wrong is the order in
  which QML evaluates bindings, which its source does not tell.
- Disk, network and GPU collectors and the figures of the system collector read psutil or NVML and
  keep no state but the rate calculator's, whose properties they inherit.
- In the process collector: GPU memory, the detection of containers, and the reading of other figures
  than memory and network, which are added up in the same way.
- Conversions to ROS messages, layout of the displays, launch files, the mocks of the QML tests.

Where the code does something else than one would expect, and no run shows it:

- A kill call that timed out is reported as a failure, and the signal may still be sent afterwards
  (`KillService` allows it).
- Bytes that arrive between the reading and the clearing of the BPF map are lost
  (`ebpf_net_collector.py:134`), and so are those that find the map full (`:36`);
  `EveryByteAccountedFor` says that no others are.
- A message cut short may end the bridge's reader thread for good (`bridge_node.py:182`), after which it
  publishes its last snapshot for ever.
- The first disk rate of a process that has taken over a PID between two cycles is measured from a
  sample of its predecessor (`process_collector.py:454`).
- `ProcessStatus.msg:7` calls `child_pids` the direct children; they are all descendants.
  `ProcessStatus.msg:25` says of disk I/O that it includes children; those of children are not read,
  as "Parent disk I/O already gives aggregate view" (`process_collector.py:563`), which the counters
  of the kernel do not bear out for children that run. `TotalsAreOfTheTree` states what the code does.
- A launch process below another launch process is reported nowhere; it is only counted in the other's
  `child_pids` (`process_collector.py:588`). Its nodes are shown with the other's
  (`EveryNodeIsShown`).
- Two sensors of one name: the temperature may be that of the other one (`system_collector.py:147`).
- Names: `ros2 run` with `--prefix` is named after the option; `ros2 launch` with a path alone has no
  launch name; a relative `.sdf` gives a Gazebo server a name made of several words; `python -c`
  without "from" is named after its code; `dash` may be a name, unlike `sh` and `bash`. The branches
  at `process_collector.py:665` and `:731` are never taken.
- Page Down on an empty list selects process -1, and the drawing leaves it there when the list has
  entries again, where `app.py:470` says "Clamp selection to valid range" (`SelectionWithinList`).
- On a terminal with more hosts or GPUs than the keys reckon with, fewer rows are drawn than Page Up and
  Page Down assume, and the highlighted entry can leave the screen (`app.py:187`); there
  `SelectionStaysOnScreen` says nothing.
