-------------------------- MODULE MCProcessReport --------------------------
(* Small instances of ProcessReport: trees of up to three processes, and one *)
(* process with any command line of a few arguments.                         *)
EXTENDS ProcessReport

ThreePids == 1 .. 3

Python3 == In(<<"", "usr", "bin">>, With(".12", Plain("python3")))
Ros2    == In(<<"", "opt", "ros", "bin">>, Plain("ros2"))
Exe     == In(<<"", "ws", "lib", "demo">>, Plain("talker"))
Robot   == With(".launch.py", Plain("robot"))
Bash    == In(<<"", "bin">>, Plain("bash"))

Line(words) == [i \in DOMAIN words |-> <<words[i]>>]

\* ros2 launch, a node, and a shell that runs one.
Launch == Line(<<Python3, Ros2, Plain("launch"), Plain("demo"), Robot>>)
Node   == Line(<<Exe, Flag("-ros-args")>>)
Shell  == <<<<Bash>>, <<Flag("c")>>, <<Ros2, Plain("run"), Plain("demo"), Plain("talker")>>>>

Process(ppid, cmd) == [birth |-> 0, ppid |-> ppid, cmd |-> cmd, env |-> <<>>, space |-> <<>>]

IsTree(w) ==
  \A p \in DOMAIN w : w[p].ppid \in DOMAIN w \cup {0} /\ w[p].ppid # p
     /\ (w[p].ppid # 0 => w[w[p].ppid].ppid # p)
     /\ (w[p].ppid # 0 /\ w[w[p].ppid].ppid # 0
           => w[w[w[p].ppid].ppid].ppid # p)

Trees == {w \in [ThreePids -> {Process(q, cmd) : q \in 0 .. 3, cmd \in {Launch, Node, Shell}}] : IsTree(w)}

Arguments ==
  {<<w>> : w \in {Python3, Ros2, Plain("run"), Plain("launch"), Plain("topic"), Plain("demo"),
                  Exe, Robot, Flag("-ros-args"), Flag("m"), Remap("__node:=", Plain("")),
                  Bash, Plain("node")}}
  \cup {<<Plain("from"), Plain("ros2cli.daemon"), Plain("import")>>, <<Flag("c")>>}

\* Every command line that the loop looks at, with and without ROS_NODE_NAME and ROS_NAMESPACE.
Alone ==
  {[p \in {1} |-> [Process(0, cmd) EXCEPT !.env = env, !.space = env]] :
     cmd \in {c \in BoundedSeq(Arguments, 4) : IsRosProcess(c) /\ ~IsShellWrapper(c)},
     env \in {<<>>, <<Plain("back")>>}}

Started == {Node}
=============================================================================
