------------------------------ MODULE NodeName ------------------------------
(***************************************************************************)
(* The display names of processes (process_collector.py), pure functions   *)
(* of a command line.  A command line is a sequence of arguments, an       *)
(* argument a sequence of words: more than one when it is code for -c.  A  *)
(* name is the rule that found it and the words it is made of; separators  *)
(* and the shortening of long targets are left out.                        *)
(***************************************************************************)
EXTENDS Naturals, SequencesExt

\* A word: key is what stands before it ("-" for a flag, "__node:=" for a remapping), dir its
\* directory, split at the slashes, base and ext what os.path.splitext makes of the rest.
Word(key, dir, base, ext) == [key |-> key, dir |-> dir, base |-> base, ext |-> ext]
Words == [key : STRING, dir : Seq(STRING), base : STRING, ext : STRING]
CommandLines == Seq(Seq(Words))

Plain(base)     == Word("", <<>>, base, "")
Flag(letter)    == Word("-", <<>>, letter, "")
In(dir, w)      == [w EXCEPT !.dir = dir]
With(ext, w)    == [w EXCEPT !.ext = ext]
Remap(key, w)   == [w EXCEPT !.key = key]

\* A name; <<>> if there is none.
Called(rule, words) == <<[rule |-> rule, words |-> words]>>
NoName == <<>>

IsFlag(w) == w.key = "-"
HasDir(w) == w.dir # <<>>
Basename(w) == IF HasDir(w) THEN [w EXCEPT !.dir = <<>>, !.key = ""] ELSE w
Stem(w) == [w EXCEPT !.ext = IF w.ext = ".launch.py" THEN ".launch" ELSE ""]

\* " ".join(cmdline)
Flat(cmd) == FlattenSeq(cmd)

\* The last word of an argument with a slash; 0 if there is none.
LastSlash(arg) == SelectLastInSeq(arg, HasDir)

\* os.path.basename of an argument: from its last slash on.
BasenameOf(arg) ==
  LET i == LastSlash(arg)
  IN  IF i = 0 THEN arg ELSE <<Basename(arg[i])>> \o SubSeq(arg, i + 1, Len(arg))

\* os.path.splitext of an argument without slashes: up to its last dot.
StemOf(arg) ==
  LET i == SelectLastInSeq(arg, LAMBDA w : w.ext # "")
  IN  IF i = 0 THEN arg ELSE SubSeq(arg, 1, i - 1) \o <<Stem(arg[i])>>

First(S) == CHOOSE i \in S : \A j \in S : i <= j

IsPython(w) == w.key = "" /\ w.dir = <<>> /\ w.base \in {"python", "python3"} /\ w.ext \in {"", ".12"}
IsOneOf(bases, w) == w.key = "" /\ w.dir = <<>> /\ w.base \in bases /\ w.ext = ""
IsShell(arg) == Len(arg) = 1 /\ IsOneOf({"sh", "bash", "dash"}, Basename(arg[1]))

\* What the patterns look for inside of a word.
IsRos2(w)       == w.key = "" /\ w.base = "ros2" /\ w.ext = ""
MentionsRos2(w) == w.base \in {"ros2", "ros2cli.daemon", "ros2_vitals.daemon"}
InOptRos(w)     == Len(w.dir) > 2 /\ SubSeq(w.dir, 1, 3) = <<"", "opt", "ros">>
MentionsPython3(w) == w.base = "python3"

\* Where "ros2 <verb>" stands, followed by at least n words.
VerbAt(words, verb, n) ==
  {i \in 1 .. Len(words) - 1 - n : IsRos2(words[i]) /\ words[i + 1] = Plain(verb)}

-----------------------------------------------------------------------------
\* ROS_CMDLINE_PATTERNS, and the kinds of processes.

IsRosProcess(cmd) ==
  LET t == Flat(cmd)
  IN  \/ VerbAt(t, "run", 0) # {} \/ VerbAt(t, "launch", 0) # {}
      \/ \E i \in DOMAIN t : \/ t[i].base = "component_container"
                             \/ InOptRos(t[i])
                             \/ t[i] = Flag("-ros-args")
      \/ \E i, j \in DOMAIN t : i < j /\ MentionsPython3(t[i]) /\ MentionsRos2(t[j])

IsShellWrapper(cmd) == Len(cmd) >= 2 /\ IsShell(cmd[1]) /\ Contains(cmd, <<Flag("c")>>)

IsLaunch(cmd) == VerbAt(Flat(cmd), "launch", 0) # {}

\* Package and launch file: the first two words after the verb and the namespace; without
\* words enough, the option counts as the package.
Launched(words) ==
  LET at == VerbAt(words, "launch", 2)
      i  == First(at) + 2
      s  == IF words[i] = Flag("-namespace") /\ i + 3 <= Len(words) THEN i + 2 ELSE i
      file == words[s + 1]
  IN  IF at = {} THEN <<>>
      ELSE <<words[s], IF file.ext = ".launch.py" THEN [file EXCEPT !.ext = ""] ELSE file>>

LaunchName(cmd) == Launched(Flat(cmd))

-----------------------------------------------------------------------------
\* The rules, in the order they are tried.

\* The argument, from behind its "=".
RemapArgument(cmd) ==
  LET at == {i \in DOMAIN cmd : cmd[i] # <<>> /\ cmd[i][1].key = "__node:="}
      arg == cmd[First(at)]
  IN  IF at = {} THEN NoName ELSE Called("remap", [arg EXCEPT ![1].key = ""])

\* A remapping inside of an argument, if there is something behind its "=".
RemapWord(words) ==
  LET at == {i \in DOMAIN words : words[i].key = "__node:=" /\ words[i].base # ""}
  IN  IF at = {} THEN NoName ELSE Called("remap", <<[words[First(at)] EXCEPT !.key = ""]>>)

\* ROS_NODE_NAME, of a process whose environment was read.
FromEnviron(env) == IF env = <<>> THEN NoName ELSE Called("environ", env)

Ros2Run(words) ==
  LET at == VerbAt(words, "run", 2)
      i  == First(at)
  IN  IF at = {} THEN NoName ELSE Called("run", <<words[i + 2], words[i + 3]>>)

Ros2Launch(words) ==
  IF Launched(words) = <<>> THEN NoName ELSE Called("launch", Launched(words))

CliVerbs == {"topic", "service", "action", "node", "param", "bag", "doctor", "daemon",
             "interface", "component", "lifecycle", "security", "wtf", "multicast", "pkg",
             "extension_points"}
WithTarget == {"topic", "service", "action", "node", "param"}

\* An argument that is none, or a flag, ends the name.
Ros2Cli(cmd) ==
  LET at == {i \in DOMAIN cmd : cmd[i] # <<>> /\ IsRos2(Last(cmd[i]))
                                  /\ (Len(cmd[i]) > 1 => HasDir(Last(cmd[i])))}
      i  == First(at)
      shown(j) == j \in DOMAIN cmd /\ (cmd[j] # <<>> => ~IsFlag(cmd[j][1]))
      verb == cmd[i + 1][1]
  IN  IF at = {} THEN NoName
      ELSE IF i + 1 > Len(cmd) THEN NoName
      ELSE IF Len(cmd[i + 1]) # 1 THEN NoName
      ELSE IF ~IsOneOf(CliVerbs, verb) THEN NoName
      ELSE Called("cli", <<Plain("ros2"), verb>>
             \o (IF shown(i + 2) THEN cmd[i + 2] ELSE <<>>)
             \o (IF shown(i + 2) /\ verb.base \in WithTarget /\ shown(i + 3)
                 THEN cmd[i + 3] ELSE <<>>))

\* The code behind the first -c; <<>> if there is none.
CodeOf(cmd) ==
  LET at == {i \in DOMAIN cmd : cmd[i] = <<Flag("c")>>}
  IN  IF at = {} THEN <<>> ELSE IF First(at) = Len(cmd) THEN <<>> ELSE cmd[First(at) + 1]

\* "from <module> import": the module stands for the first two parts of its path.
PythonInline(cmd) ==
  LET code == CodeOf(cmd)
      at   == {i \in 1 .. Len(code) - 2 : code[i] = Plain("from") /\ code[i + 2] = Plain("import")}
  IN  IF Len(cmd) < 3 \/ at = {} THEN NoName
      ELSE IF ~(Len(cmd[1]) = 1 /\ IsPython(Basename(cmd[1][1]))) THEN NoName
      ELSE Called("inline", <<code[First(at) + 1]>>)

\* What the code finds inside of strings, which are atoms here: names with gz-sim in them,
\* and what behind a dash begins with an s or a g.
HasGzSim    == {"gz-sim", "gz-sim-main"}
BeginsWithS == {"s", "server"}
BeginsWithG == {"g", "gui-config"}

\* The path of a word, or of a flag behind its dash, as one sequence.
Path(w) == Append(w.dir, w.base)

IsGazebo(words) ==
  \/ \E i \in DOMAIN words : \E j \in DOMAIN Path(words[i]) : Path(words[i])[j] \in HasGzSim
  \/ \E i \in 1 .. Len(words) - 1 :
       /\ words[i].base = "gz" /\ words[i].ext = ""
       /\ words[i + 1].key = "" /\ Path(words[i + 1])[1] = "sim"

\* The world is what stands between the last slash before the first .sdf and that, whatever
\* there is of other words in between.
Gazebo(words) ==
  LET option(begins) == \E i \in 2 .. Len(words) : IsFlag(words[i]) /\ Path(words[i])[1] \in begins
      sdf   == SelectInSeq(words, LAMBDA w : w.ext = ".sdf")
      slash == SelectLastInSubSeq(words, 1, sdf, HasDir)
  IN  IF ~IsGazebo(words) THEN NoName
      ELSE IF option(BeginsWithS)
      THEN IF sdf = 0 \/ slash = 0 THEN Called("gz-sim-server", <<>>)
           ELSE Called("gz-sim-server", StemOf(BasenameOf(SubSeq(words, slash, sdf))))
      ELSE Called(IF option(BeginsWithG) THEN "gz-sim-gui" ELSE "gz-sim", <<>>)

\* Variant: interpreters are not skipped.
SkippedNothing(names, w) == IsFlag(w)

Skipped(names, w) == IsOneOf(names, w) \/ IsPython(w) \/ IsFlag(w)

\* The first part of the command that is no interpreter and no flag; when that ends with a
\* slash, the name is empty and the next rule is tried.
ShellCommand(cmd) ==
  LET code == CodeOf(cmd)
      at   == {i \in DOMAIN code : ~Skipped({"ruby", "sh", "bash"}, Basename(code[i]))}
  IN  IF Len(cmd) < 3 \/ ~IsShell(cmd[1]) THEN NoName
      ELSE IF Gazebo(code) # NoName THEN Gazebo(code)
      ELSE IF at = {} THEN NoName
      ELSE IF Basename(code[First(at)]) = Plain("") THEN NoName
      ELSE Called("shell", <<Basename(code[First(at)])>>)

PythonModule(cmd) ==
  LET at == {i \in 1 .. Len(cmd) - 1 : cmd[i] = <<Flag("m")>>}
  IN  IF at = {} THEN NoName ELSE Called("module", cmd[First(at) + 1])

\* .../lib/<package>/<executable>, which .../install/<package>/lib/<package>/<executable> is
\* as well.
Installed(cmd) ==
  LET dir(arg) == IF LastSlash(arg) = 0 THEN <<>> ELSE arg[LastSlash(arg)].dir
      at == {i \in DOMAIN cmd : /\ Len(dir(cmd[i])) > 2
                                /\ dir(cmd[i])[Len(dir(cmd[i])) - 1] = "lib"}
      arg == cmd[First(at)]
  IN  IF at = {} THEN NoName ELSE Called("installed", <<Plain(Last(dir(arg)))>> \o BasenameOf(arg))

SkipNames == {"bash", "sh", "ruby", "node"}

\* The first argument whose basename is no interpreter and no flag; a path, or a script,
\* goes by its stem.
LastResort(cmd) ==
  LET isPath(arg) == (\E i \in DOMAIN arg : HasDir(arg[i])) \/ Last(arg).ext \in {".py", ".launch.py"}
      name(arg) == IF isPath(arg) THEN StemOf(BasenameOf(arg)) ELSE BasenameOf(arg)
      skipped(words) == IF Len(words) = 1 THEN Skipped(SkipNames, words[1]) \/ words[1] = Plain("")
                                          ELSE IsFlag(words[1])
      at == {i \in DOMAIN cmd : /\ cmd[i] # <<>>
                                /\ ~skipped(BasenameOf(cmd[i])) /\ ~skipped(name(cmd[i]))}
  IN  IF at = {} THEN NoName ELSE Called("argument", name(cmd[First(at)]))

\* Variant: the names to skip are skipped here as well.
ExecutableUnlessSkipped(cmd) ==
  LET w == BasenameOf(cmd[1])
  IN  IF cmd = <<>> THEN NoName
      ELSE IF Len(w) = 1 /\ (IsOneOf(SkipNames, w[1]) \/ IsPython(w[1])) THEN NoName
      ELSE Called("executable", w)

Executable(cmd) ==
  LET w == BasenameOf(cmd[1])
  IN  IF cmd = <<>> THEN NoName
      ELSE IF Len(w) = 1 /\ (IsOneOf({"bash", "sh"}, w[1]) \/ IsPython(w[1])) THEN NoName
      ELSE Called("executable", w)

Rules(cmd, env) ==
  <<RemapArgument(cmd), RemapWord(Flat(cmd)), FromEnviron(env), Ros2Run(Flat(cmd)),
    Ros2Launch(Flat(cmd)), Ros2Cli(cmd), PythonInline(cmd), Gazebo(Flat(cmd)),
    ShellCommand(cmd), PythonModule(cmd), Installed(cmd), LastResort(cmd), Executable(cmd)>>

\* _extract_node_name_from_cmdline: what the first rule says that says anything.
NodeName(cmd, env) ==
  LET rules == Rules(cmd, env)
      at == {i \in DOMAIN rules : rules[i] # NoName}
  IN  IF at = {} THEN NoName ELSE rules[First(at)]

\* The empty string, found or not.
IsEmpty(name) == name = NoName \/ name[1].words \in {<<Plain("")>>}

-----------------------------------------------------------------------------
\* _extract_namespace_from_cmdline: the word of a remapping, or behind the option, or
\* ROS_NAMESPACE; <<>> if there is none.
Namespace(cmd, env) ==
  LET t == Flat(cmd)
      remaps  == {i \in DOMAIN t : t[i].key = "__ns:=" /\ (t[i].base # "" \/ HasDir(t[i]))}
      options == {i \in 1 .. Len(t) - 1 : t[i] = Flag("-namespace")}
  IN  IF remaps # {} THEN <<[t[First(remaps)] EXCEPT !.key = ""]>>
      ELSE IF options # {} THEN <<t[First(options) + 1]>>
      ELSE env
=============================================================================
