----------------------------- MODULE SocketFile -----------------------------
(***************************************************************************)
(* The file of the daemon's socket: how VitalsDaemon.run (daemon.py) makes *)
(* and removes it, with a daemon that systemd starts again and a second    *)
(* one started by hand on the same path.                                   *)
(***************************************************************************)
EXTENDS FiniteSets, Naturals

CONSTANTS
  Daemons,
  Service,   \* the daemon of vitals-daemon.service
  NoFile,
  MaxCrashes \* bound on crashes

ASSUME ServiceAssumption == Service \in Daemons /\ NoFile \notin Daemons
ASSUME CrashAssumption   == MaxCrashes \in Nat

VARIABLES
  pc,        \* where run of each daemon is
  file,      \* whose socket the path leads to; stays when a daemon crashes
  public,    \* its mode lets everybody connect
  crashes,
  met        \* the daemons that have run at the same time as another one (history)

vars == <<pc, file, public, crashes, met>>

Running == {d \in Daemons : pc[d] # "down"}

TypeOK ==
  /\ pc \in [Daemons -> {"down", "start", "unlink", "bind", "chmod", "listen", "up",
                         "close", "remove"}]
  /\ file \in Daemons \cup {NoFile}
  /\ public \in BOOLEAN
  /\ crashes \in 0 .. MaxCrashes
  /\ met \subseteq Daemons

Init ==
  /\ pc = [d \in Daemons |-> "down"]
  /\ file = NoFile /\ public = FALSE
  /\ crashes = 0
  /\ met = {}

-----------------------------------------------------------------------------
Goto(d, from, to) == pc[d] = from /\ pc' = [pc EXCEPT ![d] = to]

Start(d) ==
  /\ Goto(d, "down", "start")
  /\ met' = IF Running = {} THEN met \ {d} ELSE met \cup Running \cup {d}
  /\ UNCHANGED <<file, public, crashes>>

\* SIGKILL, or an exception: nothing is cleaned up.
Crash(d) ==
  /\ d \in Running /\ crashes < MaxCrashes
  /\ pc' = [pc EXCEPT ![d] = "down"]
  /\ crashes' = crashes + 1
  /\ UNCHANGED <<file, public, met>>

\* Variant: a file that is there is left there.
LeaveStale(d) == Goto(d, "start", "bind")

\* os.path.exists before os.unlink.
CheckStale(d) ==
  \/ file # NoFile /\ Goto(d, "start", "unlink")
  \/ file = NoFile /\ Goto(d, "start", "bind")

\* A step that needs the file raises without it: run ends before its try statement.
WithFile(d, from, to) ==
  IF file # NoFile THEN Goto(d, from, to) ELSE Goto(d, from, "down")

UnlinkStale(d) ==
  /\ WithFile(d, "unlink", "bind")
  /\ file' = NoFile
  /\ UNCHANGED <<public, crashes, met>>

\* bind fails when there is a file.
Bind(d) ==
  /\ \/ file = NoFile /\ Goto(d, "bind", "chmod") /\ file' = d /\ public' = FALSE
     \/ file # NoFile /\ Goto(d, "bind", "down") /\ UNCHANGED <<file, public>>
  /\ UNCHANGED <<crashes, met>>

\* Variant: the mode is set before there is a file.
ChmodTooEarly(d) ==
  /\ WithFile(d, "chmod", "listen")
  /\ UNCHANGED <<file, public, crashes, met>>

Chmod(d) ==
  /\ WithFile(d, "chmod", "listen")
  /\ public' = (file # NoFile)
  /\ UNCHANGED <<file, crashes, met>>

Listen(d) == Goto(d, "listen", "up") /\ UNCHANGED <<file, public, crashes, met>>

\* SIGTERM, or an exception of the main loop; server.close().
Stop(d) == Goto(d, "up", "close") /\ UNCHANGED <<file, public, crashes, met>>

CheckRemove(d) ==
  \/ file # NoFile /\ Goto(d, "close", "remove")
  \/ file = NoFile /\ Goto(d, "close", "down")

\* Whoever the file is of by now.
Remove(d) ==
  /\ Goto(d, "remove", "down")
  /\ file' = NoFile
  /\ UNCHANGED <<public, crashes, met>>

Check(d) == (CheckStale(d) \/ CheckRemove(d)) /\ UNCHANGED <<file, public, crashes, met>>

Run(d) == Check(d) \/ UnlinkStale(d) \/ Bind(d) \/ Chmod(d) \/ Listen(d) \/ Remove(d)

Next == \E d \in Daemons : Start(d) \/ Crash(d) \/ Stop(d) \/ Run(d)

Spec == Init /\ [][Next]_vars

\* A daemon goes on, and systemd starts its own again (Restart=always).
FairSpec == Spec /\ WF_vars(Start(Service)) /\ \A d \in Daemons : WF_vars(Run(d))

-----------------------------------------------------------------------------
Reachable(d) == pc[d] = "up" /\ file = d /\ public

\* A daemon that listens can be reached, whatever its predecessors left behind and however
\* they ended, unless it has met another daemon: these take each other's file away.
UpIsReachable == \A d \in Daemons \ met : pc[d] = "up" => Reachable(d)

\* Once the service meets no other daemon any more it is there again and again, after stops
\* and crashes in any place: a stale file cannot keep it from starting.
ServiceComesBack == <>[](Service \notin met) => []<>Reachable(Service)
=============================================================================
