------------------------ MODULE ProcessReportProofs ------------------------
(***************************************************************************)
(* What a full discovery of get_processes reports, for any processes, any  *)
(* command lines, any tree and any order of events on the host.            *)
(***************************************************************************)
EXTENDS ProcessReport, FiniteSetTheorems, SequenceTheorems, WellFoundedInduction, TLAPS

-----------------------------------------------------------------------------
\* Numbers.

\* Of some numbers one is the smallest: their order is well-founded.
LEMMA NatMin ==
  ASSUME NEW T, T \subseteq Nat, T # {}
  PROVE  \E m \in T : \A n \in T : m <= n
<1> DEFINE less == {pair \in Nat \X Nat : pair[1] < pair[2]}
<1>1. IsWellFoundedOn(less, Nat)
  BY NatLessThanWellFounded DEF OpToRel
<1>2. \A n, m \in Nat : n < m => <<n, m>> \in less
  OBVIOUS
<1> HIDE DEF less
<1>3. PICK m \in T : \A n \in T : ~(<<n, m>> \in less)
  BY <1>1, WFMin
<1>4. ASSUME NEW n \in T PROVE m <= n
  <2>1. n \in Nat /\ m \in Nat
    OBVIOUS
  <2>2. ~(n < m)
    BY <1>2, <1>3, <2>1
  <2> QED BY <2>1, <2>2
<1> QED BY <1>4

\* Of some numbers up to a bound one is the largest.
LEMMA NatMax ==
  ASSUME NEW bound \in Nat, NEW T, T \subseteq 0 .. bound, T # {}
  PROVE  \E m \in T : \A n \in T : n <= m
<1> DEFINE U == {k \in Nat : bound - k \in T}
<1>1. U \subseteq Nat /\ U # {}
  <2>1. PICK n \in T : TRUE
    OBVIOUS
  <2>2. bound - n \in Nat /\ bound - (bound - n) = n
    OBVIOUS
  <2> QED BY <2>1, <2>2
<1>2. PICK k \in U : \A n \in U : k <= n
  <2> HIDE DEF U
  <2> QED BY <1>1, NatMin
<1>3. ASSUME NEW n \in T PROVE n <= bound - k
  <2>1. bound - n \in Nat /\ bound - (bound - n) = n
    OBVIOUS
  <2>2. bound - n \in U
    BY <2>1
  <2>3. k \in Nat /\ k <= bound - n /\ n \in Nat
    BY <1>2, <2>2
  <2> QED BY <2>3
<1> QED BY <1>2, <1>3

LEMMA FirstIsLeast ==
  ASSUME NEW T, T \subseteq Nat, T # {}
  PROVE  First(T) \in T /\ \A n \in T : First(T) <= n
BY NatMin DEF First

-----------------------------------------------------------------------------
\* Names.

\* A name is what one of the rules says, and there is none only if no rule says anything.
LEMMA NameOfRule ==
  ASSUME NEW cmd, NEW env
  PROVE  \/ NodeName(cmd, env) = NoName /\ \A i \in 1 .. 13 : Rules(cmd, env)[i] = NoName
         \/ \E i \in 1 .. 13 : NodeName(cmd, env) = Rules(cmd, env)[i] /\ Rules(cmd, env)[i] # NoName
<1> DEFINE R  == Rules(cmd, env)
           at == {i \in DOMAIN R : R[i] # NoName}
<1>1. DOMAIN R = 1 .. 13
  BY DEF Rules
<1> HIDE DEF R
<1>2. at \subseteq Nat /\ at \subseteq 1 .. 13
  BY <1>1
<1>3. NodeName(cmd, env) = IF at = {} THEN NoName ELSE R[First(at)]
  BY DEF NodeName, R
<1>4. CASE at = {}
  BY <1>1, <1>3, <1>4 DEF R
<1>5. CASE at # {}
  <2>1. First(at) \in at
    <3> HIDE DEF at
    <3> QED BY <1>2, <1>5, FirstIsLeast
  <2>2. First(at) \in 1 .. 13 /\ R[First(at)] # NoName
    BY <1>1, <2>1
  <2>3. NodeName(cmd, env) = R[First(at)]
    BY <1>3, <1>5
  <2> QED BY <2>2, <2>3 DEF R
<1> QED BY <1>4, <1>5

\* What the rules say, from the first to the last.
LEMMA RuleList ==
  ASSUME NEW cmd, NEW env
  PROVE  /\ Rules(cmd, env)[1] = RemapArgument(cmd) /\ Rules(cmd, env)[2] = RemapWord(Flat(cmd))
         /\ Rules(cmd, env)[3] = FromEnviron(env) /\ Rules(cmd, env)[4] = Ros2Run(Flat(cmd))
         /\ Rules(cmd, env)[5] = Ros2Launch(Flat(cmd)) /\ Rules(cmd, env)[6] = Ros2Cli(cmd)
         /\ Rules(cmd, env)[7] = PythonInline(cmd) /\ Rules(cmd, env)[8] = Gazebo(Flat(cmd))
         /\ Rules(cmd, env)[9] = ShellCommand(cmd) /\ Rules(cmd, env)[10] = PythonModule(cmd)
         /\ Rules(cmd, env)[11] = Installed(cmd) /\ Rules(cmd, env)[12] = LastResort(cmd)
         /\ Rules(cmd, env)[13] = Executable(cmd)
BY DEF Rules

\* A command line that no rule has a name for says nothing.
LEMMA NamelessSaysNothing ==
  ASSUME NEW cmd, NEW env, NodeName(cmd, env) = NoName, cmd # <<>>
  PROVE  IsInterpreter(BasenameOf(cmd[1])) /\ \A i \in DOMAIN cmd : SaysNothing(cmd[i])
<1>1. LastResort(cmd) = NoName /\ Executable(cmd) = NoName
  <2>1. \A i \in 1 .. 13 : Rules(cmd, env)[i] = NoName
    BY NameOfRule
  <2> QED BY <2>1, RuleList
<1>2. \A rule, words : Called(rule, words) # NoName
  BY DEF Called, NoName
<1>3. IsInterpreter(BasenameOf(cmd[1]))
  BY <1>1, <1>2 DEF Executable, IsInterpreter
<1>4. ASSUME NEW i \in DOMAIN cmd PROVE SaysNothing(cmd[i])
  BY <1>1, <1>2 DEF LastResort, SaysNothing, IsNothing, Skipped
<1> QED BY <1>3, <1>4

\* What stands behind -c is made of words, like any argument.
LEMMA CodeIsArgument ==
  ASSUME NEW cmd \in CommandLines
  PROVE  CodeOf(cmd) \in Seq(Words)
<1> DEFINE at == {i \in DOMAIN cmd : cmd[i] = <<Flag("c")>>}
<1>1. CodeOf(cmd) = IF at = {} THEN <<>> ELSE IF First(at) = Len(cmd) THEN <<>> ELSE cmd[First(at) + 1]
  BY DEF CodeOf
<1>2. CASE at # {}
  <2>1. at \subseteq 1 .. Len(cmd) /\ Len(cmd) \in Nat
    BY DEF CommandLines
  <2>2. First(at) \in at
    <3> HIDE DEF at
    <3>1. at \subseteq Nat
      BY <2>1
    <3> QED BY <1>2, <3>1, FirstIsLeast
  <2>3. First(at) \in 1 .. Len(cmd)
    BY <2>1, <2>2
  <2> HIDE DEF at
  <2>4. CASE First(at) # Len(cmd)
    <3>1. First(at) + 1 \in 1 .. Len(cmd)
      BY <2>1, <2>3, <2>4
    <3>2. cmd[First(at) + 1] \in Seq(Words)
      BY <3>1 DEF CommandLines
    <3> QED BY <1>1, <1>2, <2>4, <3>2
  <2> QED BY <1>1, <1>2, <2>4
<1> QED BY <1>1, <1>2

\* A name that is guessed is no interpreter: each of these rules passes over them.
LEMMA ShellIsNoInterpreter ==
  ASSUME NEW cmd \in CommandLines, ShellCommand(cmd) # NoName, ShellCommand(cmd)[1].rule \in Guessed
  PROVE  ~IsInterpreter(ShellCommand(cmd)[1].words)
<1> DEFINE code == CodeOf(cmd)
           at   == {i \in DOMAIN code : ~Skipped({"ruby", "sh", "bash"}, Basename(code[i]))}
<1>1. Gazebo(code) = NoName \/ Gazebo(code)[1].rule \notin Guessed
  BY DEF Gazebo, Called, Guessed
<1>2. at # {} /\ ShellCommand(cmd) = Called("shell", <<Basename(code[First(at)])>>)
  BY <1>1 DEF ShellCommand
<1>3. at \subseteq Nat
  BY CodeIsArgument
<1>4. First(at) \in at
  <2> HIDE DEF at
  <2> QED BY <1>2, <1>3, FirstIsLeast
<1> DEFINE w == Basename(code[First(at)])
<1>5. ~Skipped({"ruby", "sh", "bash"}, w)
  BY <1>4
<1>6. ~IsPython(w) /\ ~IsOneOf({"bash", "sh"}, w)
  BY <1>5 DEF Skipped, IsOneOf
<1>7. ShellCommand(cmd)[1].words = <<w>>
  BY <1>2 DEF Called
<1> HIDE DEF w
<1> QED BY <1>6, <1>7 DEF IsInterpreter

LEMMA ArgumentIsNoInterpreter ==
  ASSUME NEW cmd \in CommandLines, LastResort(cmd) # NoName
  PROVE  ~IsInterpreter(LastResort(cmd)[1].words)
<1> DEFINE isPath(arg) == (\E i \in DOMAIN arg : HasDir(arg[i])) \/ Last(arg).ext \in {".py", ".launch.py"}
           name(arg) == IF isPath(arg) THEN StemOf(BasenameOf(arg)) ELSE BasenameOf(arg)
           skipped(words) == IF Len(words) = 1 THEN Skipped(SkipNames, words[1]) \/ words[1] = Plain("")
                                               ELSE IsFlag(words[1])
           at == {i \in DOMAIN cmd : /\ cmd[i] # <<>>
                                     /\ ~skipped(BasenameOf(cmd[i])) /\ ~skipped(name(cmd[i]))}
<1>1. at # {} /\ LastResort(cmd) = Called("argument", name(cmd[First(at)]))
  BY DEF LastResort
<1>2. at \subseteq Nat
  <2>1. DOMAIN cmd \subseteq Nat
    BY DEF CommandLines
  <2> HIDE DEF skipped, name
  <2> QED BY <2>1
<1>3. First(at) \in at
  <2> HIDE DEF at
  <2> QED BY <1>1, <1>2, FirstIsLeast
<1> DEFINE words == name(cmd[First(at)])
<1>4. ~skipped(words)
  BY <1>3
<1>5. LastResort(cmd)[1].words = words
  <2>1. LastResort(cmd) = Called("argument", words)
    BY <1>1
  <2> HIDE DEF words
  <2> QED BY <2>1 DEF Called
<1> HIDE DEF words
<1>6. ~IsInterpreter(words)
  BY <1>4 DEF IsInterpreter, Skipped, SkipNames, IsOneOf
<1> QED BY <1>5, <1>6

LEMMA ExecutableIsNoInterpreter ==
  ASSUME NEW cmd, Executable(cmd) # NoName
  PROVE  ~IsInterpreter(Executable(cmd)[1].words)
BY DEF Executable, IsInterpreter, Called

\* Of the words of an argument the last with a slash, if there is one.
LEMMA LastWithSlash ==
  ASSUME NEW arg \in Seq(Words)
  PROVE  LastSlash(arg) \in 0 .. Len(arg)
<1> DEFINE I == {i \in 1 .. Len(arg) : HasDir(arg[i])}
<1>1. LastSlash(arg) = IF I # {} THEN Max(I) ELSE 0
  BY DEF LastSlash, SelectLastInSeq
<1>2. Len(arg) \in Nat
  OBVIOUS
<1>3. I # {} => Max(I) \in I
  <2> SUFFICES ASSUME I # {} PROVE Max(I) \in I
    OBVIOUS
  <2>1. I \subseteq 0 .. Len(arg)
    BY <1>2
  <2> HIDE DEF I
  <2>2. \E m \in I : \A n \in I : n <= m
    BY <1>2, <2>1, NatMax
  <2>3. \E m \in I : \A n \in I : m >= n
    <3>1. \A m, n \in I : m \in Nat /\ n \in Nat
      BY <1>2, <2>1
    <3> QED BY <2>2, <3>1
  <2> QED BY <2>3 DEF Max
<1> QED BY <1>1, <1>2, <1>3

LEMMA InstalledIsNoInterpreter ==
  ASSUME NEW cmd \in CommandLines, Installed(cmd) # NoName
  PROVE  ~IsInterpreter(Installed(cmd)[1].words)
<1> DEFINE dir(arg) == IF LastSlash(arg) = 0 THEN <<>> ELSE arg[LastSlash(arg)].dir
           at == {i \in DOMAIN cmd : /\ Len(dir(cmd[i])) > 2
                                     /\ dir(cmd[i])[Len(dir(cmd[i])) - 1] = "lib"}
           arg == cmd[First(at)]
<1>1. at # {} /\ Installed(cmd) = Called("installed", <<Plain(Last(dir(arg)))>> \o BasenameOf(arg))
  BY DEF Installed
<1>2. at \subseteq Nat
  <2>1. DOMAIN cmd \subseteq Nat
    BY DEF CommandLines
  <2> HIDE DEF dir
  <2> QED BY <2>1
<1>3. First(at) \in at
  <2> HIDE DEF at
  <2> QED BY <1>1, <1>2, FirstIsLeast
<1>4. Len(dir(arg)) > 2
  <2>1. \A i \in at : Len(dir(cmd[i])) > 2
    <3> HIDE DEF dir
    <3> QED OBVIOUS
  <2> HIDE DEF at, dir
  <2> QED BY <1>3, <2>1
<1>5. arg \in Seq(Words)
  <2>1. at \subseteq DOMAIN cmd
    <3> HIDE DEF dir
    <3> QED OBVIOUS
  <2> HIDE DEF at
  <2> QED BY <1>3, <2>1 DEF CommandLines
<1> HIDE DEF at, arg
<1>6. LastSlash(arg) \in 1 .. Len(arg)
  <2>1. LastSlash(arg) # 0
    BY <1>4
  <2> QED BY <1>5, <2>1, LastWithSlash
<1> DEFINE w    == Plain(Last(dir(arg)))
           base == Basename(arg[LastSlash(arg)])
           rest == SubSeq(arg, LastSlash(arg) + 1, Len(arg))
<1>7. BasenameOf(arg) = <<base>> \o rest
  BY <1>6 DEF BasenameOf
<1>8. rest \in Seq(Words)
  BY <1>5, <1>6
<1> HIDE DEF w, base, rest, dir
<1>9. Len(<<w>> \o (<<base>> \o rest)) # 1
  BY <1>8
<1>10. Installed(cmd)[1].words = <<w>> \o (<<base>> \o rest)
  BY <1>1, <1>7 DEF Called, w
<1> QED BY <1>9, <1>10 DEF IsInterpreter
\* No rule that guesses comes up with an interpreter, whatever the command line.
LEMMA GuessIsNoInterpreter ==
  ASSUME NEW cmd \in CommandLines, NEW env,
         NodeName(cmd, env) # NoName, NodeName(cmd, env)[1].rule \in Guessed
  PROVE  ~IsInterpreter(NodeName(cmd, env)[1].words)
<1> DEFINE name == NodeName(cmd, env)
<1>1. PICK i \in 1 .. 13 : name = Rules(cmd, env)[i] /\ name # NoName
  BY NameOfRule
<1>2. i = 1 => name = RemapArgument(cmd)
  BY <1>1, RuleList
<1>3. i = 2 => name = RemapWord(Flat(cmd))
  BY <1>1, RuleList
<1>4. i = 3 => name = FromEnviron(env)
  BY <1>1, RuleList
<1>5. i = 4 => name = Ros2Run(Flat(cmd))
  BY <1>1, RuleList
<1>6. i = 5 => name = Ros2Launch(Flat(cmd))
  BY <1>1, RuleList
<1>7. i = 6 => name = Ros2Cli(cmd)
  BY <1>1, RuleList
<1>8. i = 7 => name = PythonInline(cmd)
  BY <1>1, RuleList
<1>9. i = 8 => name = Gazebo(Flat(cmd))
  BY <1>1, RuleList
<1>10. i = 9 => name = ShellCommand(cmd)
  BY <1>1, RuleList
<1>11. i = 10 => name = PythonModule(cmd)
  BY <1>1, RuleList
<1>12. i = 11 => name = Installed(cmd)
  BY <1>1, RuleList
<1>13. i = 12 => name = LastResort(cmd)
  BY <1>1, RuleList
<1>14. i = 13 => name = Executable(cmd)
  BY <1>1, RuleList
<1> HIDE DEF name
<1>15. name # NoName /\ name[1].rule \in Guessed
  BY DEF name
<1>16. i \in {9, 11, 12, 13}
  <2>1. ASSUME NEW rule, NEW words, name = Called(rule, words) PROVE rule \in Guessed
    BY <1>15, <2>1 DEF Called
  <2>2. i # 1
    <3>1. RemapArgument(cmd) = NoName \/ \E words : RemapArgument(cmd) = Called("remap", words)
      BY DEF RemapArgument
    <3>2. "remap" \notin Guessed
      BY DEF Guessed
    <3> QED BY <1>2, <1>15, <2>1, <3>1, <3>2
  <2>3. i # 2
    <3>1. \/ RemapWord(Flat(cmd)) = NoName
          \/ \E words : RemapWord(Flat(cmd)) = Called("remap", words)
      BY DEF RemapWord
    <3>2. "remap" \notin Guessed
      BY DEF Guessed
    <3> QED BY <1>3, <1>15, <2>1, <3>1, <3>2
  <2>4. i # 3
    BY <1>4, <1>15, <2>1 DEF FromEnviron, Guessed
  <2>5. i # 4
    BY <1>5, <1>15, <2>1 DEF Ros2Run, Guessed
  <2>6. i # 5
    BY <1>6, <1>15, <2>1 DEF Ros2Launch, Guessed
  <2>7. i # 6
    BY <1>7, <1>15, <2>1 DEF Ros2Cli, Guessed
  <2>8. i # 7
    BY <1>8, <1>15, <2>1 DEF PythonInline, Guessed
  <2>9. i # 8
    <3>1. \/ Gazebo(Flat(cmd)) = NoName
          \/ \E rule \in {"gz-sim-server", "gz-sim-gui", "gz-sim"} : \E words :
               Gazebo(Flat(cmd)) = Called(rule, words)
      BY DEF Gazebo
    <3>2. {"gz-sim-server", "gz-sim-gui", "gz-sim"} \cap Guessed = {}
      BY DEF Guessed
    <3> QED BY <1>9, <1>15, <2>1, <3>1, <3>2
  <2>10. i # 10
    BY <1>11, <1>15, <2>1 DEF PythonModule, Guessed
  <2> QED BY <2>2, <2>3, <2>4, <2>5, <2>6, <2>7, <2>8, <2>9, <2>10
<1>17. ~IsInterpreter(name[1].words)
  BY <1>10, <1>12, <1>13, <1>14, <1>15, <1>16, ShellIsNoInterpreter, InstalledIsNoInterpreter,
     ArgumentIsNoInterpreter, ExecutableIsNoInterpreter
<1> QED BY <1>17 DEF name

-----------------------------------------------------------------------------
\* The tree.

\* A call, as a sequence that goes from parent to child.
LEMMA CallGoesDown ==
  ASSUME NEW p \in Pids, NEW n \in Nat, NEW call \in Calls(p, n)
  PROVE  /\ call \in [1 .. n + 1 -> Pids] /\ call[1] = p
         /\ call \in Seq(Pids) /\ Len(call) = n + 1 /\ Last(call) = call[n + 1]
         /\ \A i \in 1 .. n : call[i + 1] \in DOMAIN scan /\ scan[call[i + 1]].ppid = call[i]
<1>1. call \in [1 .. n + 1 -> Pids] /\ call[1] = p
  BY DEF Calls
<1>2. n + 1 \in Nat
  OBVIOUS
<1>3. call \in Seq(Pids)
  BY <1>1, <1>2, SeqDef
<1>4. Len(call) \in Nat /\ 1 .. Len(call) = 1 .. n + 1
  BY <1>1, <1>3, LenProperties
<1>5. Len(call) = n + 1
  BY <1>4
<1>6. \A i \in 1 .. n : call[i + 1] \in ChildrenOf(call[i])
  BY DEF Calls
<1> QED BY <1>1, <1>3, <1>5, <1>6 DEF Last, ChildrenOf

\* What is needed to be a call.
LEMMA IsCall ==
  ASSUME NEW p, NEW n \in Nat, NEW call \in [1 .. n + 1 -> Pids], call[1] = p,
         \A i \in 1 .. n : call[i + 1] \in DOMAIN scan /\ scan[call[i + 1]].ppid = call[i]
  PROVE  call \in Calls(p, n)
BY DEF Calls, ChildrenOf

\* A process has one parent: two calls that end with the same process have come the same
\* way as far as the shorter one goes.
LEMMA SameWayBack ==
  ASSUME NEW p \in Pids, NEW n \in Nat, NEW m \in Nat, n <= m,
         NEW a \in Calls(p, n), NEW b \in Calls(p, m), a[n + 1] = b[m + 1]
  PROVE  \A j \in 0 .. n : a[n + 1 - j] = b[m + 1 - j]
<1> DEFINE apart == {j \in 0 .. n : a[n + 1 - j] # b[m + 1 - j]}
<1> SUFFICES ASSUME apart # {} PROVE FALSE
  OBVIOUS
<1>1. PICK j \in apart : \A k \in apart : j <= k
  <2>1. apart \subseteq Nat
    OBVIOUS
  <2> HIDE DEF apart
  <2> QED BY <2>1, NatMin
<1>2. j # 0
  <2>1. n + 1 - 0 = n + 1 /\ m + 1 - 0 = m + 1
    OBVIOUS
  <2> QED BY <2>1
<1>3. j \in 1 .. n /\ j - 1 \in 0 .. n /\ ~(j <= j - 1)
  BY <1>2
<1>4. a[n + 1 - (j - 1)] = b[m + 1 - (j - 1)]
  BY <1>1, <1>3
<1> DEFINE k == n + 1 - j
           l == m + 1 - j
<1>5. k \in 1 .. n /\ l \in 1 .. m /\ n + 1 - (j - 1) = k + 1 /\ m + 1 - (j - 1) = l + 1
  BY <1>3
<1>6. a[k + 1] = b[l + 1] /\ a[k] # b[l]
  <2>1. a[k] # b[l]
    OBVIOUS
  <2> HIDE DEF k, l
  <2> QED BY <1>4, <1>5, <2>1
<1>7. \A i \in 1 .. n : scan[a[i + 1]].ppid = a[i]
  BY CallGoesDown
<1>8. \A i \in 1 .. m : scan[b[i + 1]].ppid = b[i]
  BY CallGoesDown
<1> HIDE DEF apart, k, l
<1> QED BY <1>5, <1>6, <1>7, <1>8

LEMMA SameEndSameCall ==
  ASSUME NEW p \in Pids, NEW n \in Nat, NEW a \in Calls(p, n), NEW b \in Calls(p, n),
         a[n + 1] = b[n + 1]
  PROVE  a = b
<1>1. \A j \in 0 .. n : a[n + 1 - j] = b[n + 1 - j]
  <2>1. n <= n
    OBVIOUS
  <2> QED BY <2>1, SameWayBack
<1>2. ASSUME NEW i \in 1 .. n + 1 PROVE a[i] = b[i]
  <2>1. n + 1 - i \in 0 .. n /\ n + 1 - (n + 1 - i) = i
    OBVIOUS
  <2> QED BY <1>1, <2>1
<1>3. a \in [1 .. n + 1 -> Pids] /\ b \in [1 .. n + 1 -> Pids]
  BY CallGoesDown
<1> QED BY <1>2, <1>3

\* The first part of a call is one.
LEMMA CallBefore ==
  ASSUME NEW p \in Pids, NEW m \in Nat, NEW n \in 0 .. m, NEW call \in Calls(p, m)
  PROVE  [i \in 1 .. n + 1 |-> call[i]] \in Calls(p, n)
<1> DEFINE part == [i \in 1 .. n + 1 |-> call[i]]
<1>1. /\ call \in [1 .. m + 1 -> Pids] /\ call[1] = p
      /\ \A i \in 1 .. m : call[i + 1] \in DOMAIN scan /\ scan[call[i + 1]].ppid = call[i]
  BY CallGoesDown
<1>2. part \in [1 .. n + 1 -> Pids] /\ part[1] = p
  BY <1>1
<1>3. ASSUME NEW i \in 1 .. n PROVE part[i + 1] \in DOMAIN scan /\ scan[part[i + 1]].ppid = part[i]
  <2>1. i \in 1 .. m /\ i \in 1 .. n + 1 /\ i + 1 \in 1 .. n + 1
    OBVIOUS
  <2> QED BY <1>1, <2>1
<1> HIDE DEF part
<1>4. n \in Nat
  OBVIOUS
<1> QED BY <1>2, <1>3, <1>4, IsCall DEF part

\* A call that comes by its own process again can be put before any other: then there is no
\* longest one.
LEMMA NoCallComesBack ==
  ASSUME NEW p \in Pids, IsFiniteSet(DOMAIN scan), ~Endless(p), NEW d \in Nat \ {0},
         NEW loop \in Calls(p, d), loop[d + 1] = p
  PROVE  FALSE
<1> DEFINE N == Cardinality(DOMAIN scan)
           depths == {n \in Nat : Calls(p, n) # {}}
<1>1. N \in Nat /\ Calls(p, N) = {}
  BY FS_CardinalityType DEF Endless
<1> HIDE DEF N
<1>2. depths \subseteq 0 .. N
  <2> SUFFICES ASSUME NEW n \in Nat, Calls(p, n) # {}, n > N PROVE FALSE
    BY <1>1
  <2>1. PICK call \in Calls(p, n) : TRUE
    OBVIOUS
  <2>2. N \in 0 .. n
    BY <1>1
  <2> QED BY <1>1, <2>1, <2>2, CallBefore
<1>3. d \in depths
  OBVIOUS
<1>4. PICK k \in depths : \A n \in depths : n <= k
  <2> HIDE DEF depths
  <2> QED BY <1>1, <1>2, <1>3, NatMax
<1>5. PICK c \in Calls(p, k) : k \in Nat
  OBVIOUS
<1> DEFINE e == [i \in 1 .. (d + k) + 1 |-> IF i <= d THEN loop[i] ELSE c[i - d]]
<1>6. /\ loop \in [1 .. d + 1 -> Pids] /\ loop[1] = p
      /\ \A i \in 1 .. d : loop[i + 1] \in DOMAIN scan /\ scan[loop[i + 1]].ppid = loop[i]
  BY CallGoesDown
<1>7. /\ c \in [1 .. k + 1 -> Pids] /\ c[1] = p
      /\ \A i \in 1 .. k : c[i + 1] \in DOMAIN scan /\ scan[c[i + 1]].ppid = c[i]
  BY <1>5, CallGoesDown
<1>8. e \in [1 .. (d + k) + 1 -> Pids] /\ e[1] = p
  <2>1. ASSUME NEW i \in 1 .. (d + k) + 1 PROVE (IF i <= d THEN loop[i] ELSE c[i - d]) \in Pids
    <3>1. CASE i <= d
      <4>1. i \in 1 .. d + 1
        BY <3>1
      <4> QED BY <1>6, <3>1, <4>1
    <3>2. CASE ~(i <= d)
      <4>1. i - d \in 1 .. k + 1
        BY <1>5, <3>2
      <4> QED BY <1>7, <3>2, <4>1
    <3> QED BY <3>1, <3>2
  <2>2. 1 \in 1 .. (d + k) + 1 /\ 1 <= d
    BY <1>5
  <2> QED BY <1>6, <2>1, <2>2
<1>9. ASSUME NEW i \in 1 .. d + k PROVE e[i + 1] \in DOMAIN scan /\ scan[e[i + 1]].ppid = e[i]
  <2>0. i \in 1 .. (d + k) + 1 /\ i + 1 \in 1 .. (d + k) + 1 /\ i \in Nat
    BY <1>5
  <2>1. CASE i < d
    <3>1. i <= d /\ i + 1 <= d /\ i \in 1 .. d
      BY <2>0, <2>1
    <3>2. e[i] = loop[i] /\ e[i + 1] = loop[i + 1]
      BY <2>0, <3>1
    <3> HIDE DEF e
    <3> QED BY <1>6, <3>1, <3>2
  <2>2. CASE i = d
    <3>1. i <= d /\ ~(i + 1 <= d) /\ (i + 1) - d = 1 /\ i \in 1 .. d
      BY <2>0, <2>2
    <3>2. e[i] = loop[i] /\ e[i + 1] = c[1]
      BY <2>0, <3>1
    <3>3. c[1] = loop[i + 1]
      BY <1>7, <2>2
    <3> HIDE DEF e
    <3> QED BY <1>6, <3>1, <3>2, <3>3
  <2>3. CASE i > d
    <3>1. ~(i <= d) /\ ~(i + 1 <= d) /\ (i + 1) - d = (i - d) + 1 /\ i - d \in 1 .. k
      BY <1>5, <2>0, <2>3
    <3>2. e[i] = c[i - d] /\ e[i + 1] = c[(i - d) + 1]
      BY <2>0, <3>1
    <3> HIDE DEF e
    <3> QED BY <1>7, <3>1, <3>2
  <2> QED BY <2>0, <2>1, <2>2, <2>3
<1>10. d + k \in Nat
  BY <1>5
<1>11. e \in Calls(p, d + k)
  <2> HIDE DEF e
  <2> QED BY <1>8, <1>9, <1>10, IsCall
<1>12. d + k \in depths /\ ~(d + k <= k)
  BY <1>5, <1>10, <1>11
<1> QED BY <1>4, <1>12

LEMMA NoLongerWay ==
  ASSUME NEW p \in Pids, IsFiniteSet(DOMAIN scan), ~Endless(p), NEW n \in Nat, NEW m \in Nat, n < m,
         NEW a \in Calls(p, n), NEW b \in Calls(p, m), a[n + 1] = b[m + 1]
  PROVE  FALSE
<1> DEFINE d    == m - n
           loop == [i \in 1 .. d + 1 |-> b[i]]
<1>1. d \in Nat \ {0} /\ d \in 0 .. m /\ n + 1 - n = 1 /\ m + 1 - n = d + 1 /\ n <= m /\ n \in 0 .. n
  OBVIOUS
<1>2. \A j \in 0 .. n : a[n + 1 - j] = b[m + 1 - j]
  BY <1>1, SameWayBack
<1>3. a[n + 1 - n] = b[m + 1 - n]
  BY <1>1, <1>2
<1> HIDE DEF d
<1>4. a[1] = b[d + 1] /\ a[1] = p
  BY <1>1, <1>3, CallGoesDown
<1>5. loop \in Calls(p, d) /\ loop[d + 1] = b[d + 1]
  BY <1>1, CallBefore
<1> QED BY <1>1, <1>4, <1>5, NoCallComesBack

\* Unless the recursion is without end, no process is added up twice.
LEMMA OneEntryEach ==
  ASSUME NEW p \in Pids, IsFiniteSet(DOMAIN scan), ~Endless(p),
         NEW a \in Family(p), NEW b \in Family(p), Last(a) = Last(b)
  PROVE  a = b
<1>1. Cardinality(DOMAIN scan) \in Nat
  BY FS_CardinalityType
<1>2. PICK n \in Nat : a \in Calls(p, n)
  BY <1>1 DEF Family
<1>3. PICK m \in Nat : b \in Calls(p, m)
  BY <1>1 DEF Family
<1>4. a[n + 1] = b[m + 1]
  BY <1>2, <1>3, CallGoesDown
<1>5. n = m
  <2>1. ~(n < m)
    BY <1>2, <1>3, <1>4, NoLongerWay
  <2>2. ~(m < n)
    BY <1>2, <1>3, <1>4, NoLongerWay
  <2> QED BY <2>1, <2>2
<1> QED BY <1>2, <1>3, <1>4, <1>5, SameEndSameCall

\* The entries of p: itself, and the calls that are one or more deep.
LEMMA FamilyMembers ==
  ASSUME NEW p \in Pids, IsFiniteSet(DOMAIN scan)
  PROVE  /\ Family(p) \subseteq Seq(Pids)
         /\ Descendants(p) = {q \in Pids : \E n \in 1 .. Cardinality(DOMAIN scan) :
                                           \E call \in Calls(p, n) : call[n + 1] = q}
         /\ Calls(p, 0) = {[i \in 1 .. 1 |-> p]} /\ Last([i \in 1 .. 1 |-> p]) = p
         /\ Calls(p, 0) \subseteq Family(p)
<1> DEFINE N == Cardinality(DOMAIN scan)
           deep == {q \in Pids : \E n \in 1 .. N : \E call \in Calls(p, n) : call[n + 1] = q}
<1>1. N \in Nat
  BY FS_CardinalityType
<1>2. Calls(p, 0) = {[i \in 1 .. 1 |-> p]}
  <2>1. 0 + 1 = 1 /\ 1 .. 0 = {} /\ 1 .. 1 = {1}
    OBVIOUS
  <2> QED BY <2>1 DEF Calls
<1> DEFINE self == [i \in 1 .. 1 |-> p]
<1>3. self \in Calls(p, 0) /\ Last(self) = p
  <2>1. self \in Calls(p, 0) /\ self[1] = p
    BY <1>2
  <2> HIDE DEF self
  <2>2. Last(self) = self[0 + 1]
    BY <2>1, CallGoesDown
  <2> QED BY <2>1, <2>2
<1> HIDE DEF N
<1>4. Calls(p, 0) \subseteq Family(p)
  BY <1>1 DEF Family, N
<1>5. ASSUME NEW call \in Family(p)
      PROVE  /\ call \in Seq(Pids)
             /\ call \notin Calls(p, 0) => Last(call) \in deep
  <2>1. PICK n \in 0 .. N : call \in Calls(p, n)
    BY <1>1, <1>5 DEF Family, N
  <2>2. n \in Nat /\ (n # 0 => n \in 1 .. N) /\ n + 1 \in 1 .. n + 1
    BY <1>1
  <2>3. call \in Seq(Pids) /\ Last(call) = call[n + 1] /\ call[n + 1] \in Pids
    BY <2>1, <2>2, CallGoesDown
  <2> QED BY <2>1, <2>2, <2>3
<1>6. ASSUME NEW n \in 1 .. N, NEW call \in Calls(p, n)
      PROVE  call \in Family(p) /\ call \notin Calls(p, 0) /\ Last(call) = call[n + 1]
  <2>1. n \in Nat /\ n \in 0 .. N /\ n # 0
    BY <1>1
  <2>2. call \in Family(p)
    BY <2>1 DEF Family, N
  <2>3. Len(call) = n + 1 /\ Last(call) = call[n + 1]
    BY <2>1, CallGoesDown
  <2>4. call \notin Calls(p, 0)
    <3> SUFFICES ASSUME call \in Calls(p, 0) PROVE FALSE
      OBVIOUS
    <3>1. Len(call) = 0 + 1
      BY CallGoesDown
    <3>2. n + 1 # 0 + 1
      BY <2>1
    <3> HIDE DEF deep
    <3> QED BY <2>3, <3>1, <3>2
  <2> QED BY <2>2, <2>3, <2>4
<1>7. Descendants(p) = deep
  BY <1>5, <1>6 DEF Descendants
<1> QED BY <1>2, <1>3, <1>4, <1>5, <1>7 DEF N

\* What is below a process is what the calls for it end with.
LEMMA DescendantsAreBelow ==
  ASSUME NEW p \in Pids, DOMAIN scan \subseteq Pids, ~Endless(p)
  PROVE  Descendants(p) = Below(p)
<1> DEFINE N == Cardinality(DOMAIN scan)
           deep == {q \in Pids : \E n \in 1 .. N : \E call \in Calls(p, n) : call[n + 1] = q}
           Closed(S) == \A x \in DOMAIN scan : scan[x].ppid \in S \cup {p} => x \in S
<1>1. IsFiniteSet(DOMAIN scan) /\ N \in Nat
  BY PidsAssumption, FS_Subset, FS_CardinalityType
<1>2. Descendants(p) = deep
  BY <1>1, FamilyMembers
<1> HIDE DEF N
<1>3. ASSUME NEW q \in deep, NEW S \in SUBSET Pids, Closed(S) PROVE q \in S
  <2>0. PICK n \in 1 .. N : \E call \in Calls(p, n) : call[n + 1] = q
    OBVIOUS
  <2>1. PICK call \in Calls(p, n) : call[n + 1] = q
    BY <2>0
  <2>2. n \in Nat
    BY <1>1
  <2>3. call[1] = p /\ \A i \in 1 .. n : call[i + 1] \in DOMAIN scan /\ scan[call[i + 1]].ppid = call[i]
    BY <2>2, CallGoesDown
  <2> DEFINE out == {i \in 1 .. n : call[i + 1] \notin S}
  <2> SUFFICES ASSUME out # {} PROVE FALSE
    <3>1. n \in 1 .. n
      BY <2>2
    <3> QED BY <2>1, <3>1
  <2>4. PICK i \in out : \A j \in out : i <= j
    <3>1. out \subseteq Nat
      BY <2>2
    <3> HIDE DEF out
    <3> QED BY <3>1, NatMin
  <2>5. i \in 1 .. n /\ call[i + 1] \notin S
    OBVIOUS
  <2>6. call[i] \in S \cup {p}
    <3>1. CASE i = 1
      BY <2>3, <3>1
    <3>2. CASE i # 1
      <4>1. i - 1 \in 1 .. n /\ ~(i <= i - 1) /\ (i - 1) + 1 = i
        BY <2>2, <2>5, <3>2
      <4>2. i - 1 \notin out
        BY <2>4, <4>1
      <4> QED BY <4>1, <4>2
    <3> QED BY <3>1, <3>2
  <2> QED BY <1>3, <2>3, <2>5, <2>6
<1>4. Closed(deep)
  <2> SUFFICES ASSUME NEW x \in DOMAIN scan, scan[x].ppid \in deep \cup {p} PROVE x \in deep
    OBVIOUS
  <2>1. \E n \in 0 .. N : \E call \in Calls(p, n) : call[n + 1] = scan[x].ppid
    <3>1. CASE scan[x].ppid = p
      <4> DEFINE self == [i \in 1 .. 1 |-> p]
      <4>1. self \in Calls(p, 0) /\ self[0 + 1] = p
        BY <1>1, FamilyMembers
      <4> HIDE DEF self
      <4>2. 0 \in 0 .. N
        BY <1>1
      <4> QED BY <3>1, <4>1, <4>2
    <3>2. CASE scan[x].ppid \in deep
      BY <1>1, <3>2
    <3> QED BY <3>1, <3>2
  <2>9. PICK n \in 0 .. N : \E call \in Calls(p, n) : call[n + 1] = scan[x].ppid
    BY <2>1
  <2>2. PICK call \in Calls(p, n) : call[n + 1] = scan[x].ppid
    BY <2>9
  <2>3. n \in Nat /\ n + 1 \in Nat
    BY <1>1
  <2>4. /\ call \in [1 .. n + 1 -> Pids] /\ call[1] = p
        /\ \A i \in 1 .. n : call[i + 1] \in DOMAIN scan /\ scan[call[i + 1]].ppid = call[i]
    BY <2>3, CallGoesDown
  <2> DEFINE next == [i \in 1 .. (n + 1) + 1 |-> IF i <= n + 1 THEN call[i] ELSE x]
  <2>5. next \in [1 .. (n + 1) + 1 -> Pids] /\ next[1] = p /\ next[(n + 1) + 1] = x
    <3>1. 1 \in 1 .. (n + 1) + 1 /\ 1 <= n + 1
      BY <2>3
    <3>2. \A i \in 1 .. (n + 1) + 1 : i <= n + 1 => i \in 1 .. n + 1
      BY <2>3
    <3>3. (n + 1) + 1 \in 1 .. (n + 1) + 1 /\ ~((n + 1) + 1 <= n + 1)
      BY <2>3
    <3> QED BY <2>4, <3>1, <3>2, <3>3
  <2>6. ASSUME NEW i \in 1 .. n + 1 PROVE next[i + 1] \in DOMAIN scan /\ scan[next[i + 1]].ppid = next[i]
    <3>1. i \in 1 .. (n + 1) + 1 /\ i + 1 \in 1 .. (n + 1) + 1 /\ i <= n + 1
      BY <2>3
    <3>2. CASE i = n + 1
      <4>1. ~(i + 1 <= n + 1)
        BY <2>3, <3>2
      <4> QED BY <2>2, <3>1, <3>2, <4>1
    <3>3. CASE i # n + 1
      <4>1. i + 1 <= n + 1 /\ i \in 1 .. n
        BY <2>3, <3>3
      <4> QED BY <2>4, <3>1, <4>1
    <3> QED BY <3>2, <3>3
  <2> HIDE DEF next
  <2>7. next \in Calls(p, n + 1)
    BY <2>3, <2>5, <2>6, IsCall
  <2>8. n + 1 \in 1 .. N
    <3>1. CASE n = N
      <4>1. N \in 0 .. n + 1
        BY <1>1, <2>3, <3>1
      <4>2. Calls(p, N) # {}
        BY <2>3, <2>7, <4>1, CallBefore
      <4> QED BY <4>2 DEF Endless, N
    <3>2. CASE n # N
      BY <1>1, <3>2
    <3> QED BY <3>1, <3>2
  <2> QED BY <2>5, <2>7, <2>8
<1>5. deep \in SUBSET Pids
  OBVIOUS
<1> HIDE DEF deep
<1>6. Below(p) = {q \in Pids : \A S \in SUBSET Pids : Closed(S) => q \in S}
  BY DEF Below
<1> QED BY <1>2, <1>3, <1>4, <1>5, <1>6

-----------------------------------------------------------------------------
\* The host and the scan.

\* A process of the scan is as it was read: if it still runs, its command line is the same.
HostInv ==
  /\ DOMAIN world \subseteq Pids /\ DOMAIN scan \subseteq Pids /\ todo \subseteq Pids
  /\ events \in 0 .. MaxEvents /\ since \in 0 .. events
  /\ \A p \in DOMAIN world : /\ world[p] \in Processes /\ world[p].birth <= events
                             /\ world[p].ppid \in DOMAIN world \cup {0}
  /\ \A p \in DOMAIN scan : scan[p] \in Processes /\ scan[p].birth <= events
  /\ \A p \in DOMAIN scan \cap DOMAIN world :
       scan[p].birth = world[p].birth => scan[p].cmd = world[p].cmd

\* A numbering that falls from child to parent, for those born up to a time.
FallsUp(f, rank, time) ==
  \A p \in DOMAIN f : f[p].birth <= time /\ f[p].ppid # 0 => rank[f[p].ppid] < rank[p]

\* The tree of the host is one at any time, and what was there when the cycle started is one
\* with what has been read of it.
ForestInv ==
  /\ \E rank \in [Pids -> Nat] : FallsUp(world, rank, events)
  /\ \E rank \in [Pids -> Nat] : FallsUp(world, rank, since) /\ FallsUp(scan, rank, since)

\* What a step does to the host and to the scan.
LEMMA HostSteps ==
  ASSUME [Next]_vars
  PROVE  \/ \E p \in Pids : Start(p)
         \/ \E S \in SUBSET DOMAIN world : Exit(S) /\ UNCHANGED <<scan, since>>
         \/ UNCHANGED <<world, events, scan, since>>
         \/ ScanProcess
         \/ StartCycle
<1>1. CASE \E p \in Pids : Start(p) \/ ExitProcess(p)
  <2>1. ASSUME NEW p \in Pids, ExitProcess(p)
        PROVE  \E S \in SUBSET DOMAIN world : Exit(S) /\ UNCHANGED <<scan, since>>
    BY <2>1 DEF ExitProcess, Exit, collectorVars
  <2> QED BY <1>1, <2>1
<1>2. CASE EndScan
  BY <1>2 DEF EndScan
<1>3. CASE Visit
  <2>1. UNCHANGED <<scan, since>>
    BY <1>3 DEF Visit
  <2>2. UNCHANGED <<world, events>> \/ CollectDies(Next1) \/ Collect(Next1)
    BY <1>3 DEF Visit
  <2>3. CollectDies(Next1) \/ Collect(Next1) => \E S \in SUBSET DOMAIN world : Exit(S)
    BY DEF CollectDies, Collect, Exit
  <2> QED BY <2>1, <2>2, <2>3
<1>4. CASE UNCHANGED vars
  BY <1>4 DEF vars, collectorVars
<1> QED BY <1>1, <1>2, <1>3, <1>4 DEF Next

\* A process starts with a birth that is later than all before it.
LEMMA Started ==
  ASSUME HostInv, NEW p \in Pids, Start(p)
  PROVE  /\ p \notin DOMAIN world /\ DOMAIN world' = DOMAIN world \cup {p}
         /\ events' = events + 1 /\ events' \in 0 .. MaxEvents
         /\ \A q \in DOMAIN world : world'[q] = world[q]
         /\ world'[p] \in Processes /\ world'[p].birth = events'
         /\ world'[p].ppid \in DOMAIN world \cup {0}
         /\ UNCHANGED collectorVars
<1>1. p \notin DOMAIN world /\ events < MaxEvents /\ events' = events + 1
  BY DEF Start
<1>2. PICK q \in DOMAIN world \cup {0} : \E cmd \in Programs :
        world' = Put(world, p, [birth |-> events + 1, ppid |-> q, cmd |-> cmd,
                                 env |-> <<>>, space |-> <<>>])
  BY DEF Start
<1>3. PICK cmd \in Programs :
        world' = Put(world, p, [birth |-> events + 1, ppid |-> q, cmd |-> cmd,
                                 env |-> <<>>, space |-> <<>>])
  BY <1>2
<1> DEFINE new == [birth |-> events + 1, ppid |-> q, cmd |-> cmd,
                                 env |-> <<>>, space |-> <<>>]
<1>4. events + 1 \in Nat /\ events + 1 \in 0 .. MaxEvents
  BY <1>1, PidsAssumption DEF HostInv
<1>5. new \in Processes
  <2>1. cmd \in CommandLines /\ q \in Pids \cup {0} /\ <<>> \in Seq(Words)
    BY ProgramsAssumption DEF HostInv
  <2> QED BY <1>4, <2>1 DEF Processes
<1>6. new.birth = events + 1 /\ new.ppid = q
  OBVIOUS
<1> HIDE DEF new
<1>7. DOMAIN world' = DOMAIN world \cup {p} /\ world'[p] = new /\ \A x \in DOMAIN world : world'[x] = world[x]
  BY <1>1, <1>3 DEF Put, new
<1> QED BY <1>1, <1>4, <1>5, <1>6, <1>7 DEF Start

\* Processes exit: their children go to init, and nothing else changes.
LEMMA Exited ==
  ASSUME HostInv, NEW S \in SUBSET DOMAIN world, Exit(S)
  PROVE  /\ DOMAIN world' = DOMAIN world \ S
         /\ events <= events' /\ events' \in 0 .. MaxEvents
         /\ \A q \in DOMAIN world' :
              /\ world'[q] \in Processes
              /\ world'[q].birth = world[q].birth /\ world'[q].cmd = world[q].cmd
              /\ world'[q].ppid \in {0, world[q].ppid} \ S
<1>1. events + Cardinality(S) <= MaxEvents /\ events' = events + Cardinality(S)
  BY DEF Exit
<1>2. events <= events' /\ events' \in 0 .. MaxEvents
  <2>1. S \in SUBSET Pids
    BY DEF HostInv
  <2>2. Cardinality(S) \in Nat
    BY <2>1, PidsAssumption, FS_Subset, FS_CardinalityType
  <2> QED BY <1>1, <2>2, PidsAssumption DEF HostInv
<1>3. world' = [x \in DOMAIN world \ S |->
                 IF world[x].ppid \in S THEN [world[x] EXCEPT !.ppid = 0] ELSE world[x]]
  BY DEF Exit
<1>4. 0 \notin S
  BY PidsAssumption DEF HostInv
<1>5. ASSUME NEW q \in DOMAIN world \ S
      PROVE  /\ world'[q] \in Processes
             /\ world'[q].birth = world[q].birth /\ world'[q].cmd = world[q].cmd
             /\ world'[q].ppid \in {0, world[q].ppid} \ S
  <2>1. world[q] \in Processes
    BY DEF HostInv
  <2>2. world'[q] = IF world[q].ppid \in S THEN [world[q] EXCEPT !.ppid = 0] ELSE world[q]
    BY <1>3
  <2> QED BY <1>4, <2>1, <2>2 DEF Processes
<1> QED BY <1>1, <1>2, <1>3, <1>5

\* What is read of a process is what it is at that moment.
LEMMA Scanned ==
  ASSUME ScanProcess
  PROVE  /\ DOMAIN scan \subseteq DOMAIN scan'
         /\ \A p \in DOMAIN scan' : \/ p \in DOMAIN scan /\ scan'[p] = scan[p]
                                    \/ p \in DOMAIN world /\ scan'[p] = world[p]
         /\ todo' \subseteq todo
         /\ UNCHANGED <<world, events, pc, seen, names, spaces, report, since>>
<1>1. CASE Next1 \in DOMAIN world
  <2>1. scan' = Put(scan, Next1, world[Next1])
    BY <1>1 DEF ScanProcess
  <2> QED BY <1>1, <2>1 DEF ScanProcess, Put
<1>2. CASE Next1 \notin DOMAIN world
  BY <1>2 DEF ScanProcess
<1> QED BY <1>1, <1>2

LEMMA TodoSteps ==
  ASSUME [Next]_vars
  PROVE  todo' \subseteq todo \cup DOMAIN scan \cup DOMAIN world
<1>1. CASE \E p \in Pids : Start(p) \/ ExitProcess(p)
  BY <1>1 DEF Start, ExitProcess, collectorVars
<1> QED BY <1>1 DEF Next, ScanProcess, EndScan, Visit, StartCycle, vars, collectorVars

LEMMA InitHost ==
  ASSUME Init
  PROVE  HostInv /\ ForestInv
<1>1. world \in Worlds \cup Quiet /\ events \in {0, MaxEvents} /\ DOMAIN scan = {} /\ since = 0 /\ todo = DOMAIN world
  BY DEF Init, Nothing
<1>2. events \in 0 .. MaxEvents /\ since \in 0 .. events /\ events \in Nat
  BY <1>1, PidsAssumption
<1>3. /\ DOMAIN world \subseteq Pids
      /\ \A p \in DOMAIN world :
           world[p] \in Processes /\ world[p].birth = 0 /\ world[p].ppid \in DOMAIN world \cup {0}
      /\ \E rank \in [Pids -> 0 .. Cardinality(Pids)] :
           \A p \in DOMAIN world : world[p].ppid # 0 => rank[world[p].ppid] < rank[p]
  BY <1>1, WorldsAssumption
<1>4. HostInv
  BY <1>1, <1>2, <1>3 DEF HostInv
<1>5. PICK rank \in [Pids -> 0 .. Cardinality(Pids)] :
        \A p \in DOMAIN world : world[p].ppid # 0 => rank[world[p].ppid] < rank[p]
  BY <1>3
<1>6. rank \in [Pids -> Nat]
  <2>1. Cardinality(Pids) \in Nat
    BY PidsAssumption, FS_CardinalityType
  <2> QED BY <2>1
<1>7. FallsUp(world, rank, events) /\ FallsUp(world, rank, since) /\ FallsUp(scan, rank, since)
  BY <1>1, <1>5 DEF FallsUp
<1> QED BY <1>4, <1>6, <1>7 DEF ForestInv

LEMMA HostInvNext ==
  ASSUME HostInv, [Next]_vars
  PROVE  HostInv'
<1>1. todo' \subseteq Pids
  BY TodoSteps DEF HostInv
<1>2. ASSUME NEW p \in Pids, Start(p) PROVE HostInv'
  <2>0. /\ p \notin DOMAIN world /\ DOMAIN world' = DOMAIN world \cup {p}
        /\ events' = events + 1 /\ events' \in 0 .. MaxEvents
        /\ \A q \in DOMAIN world : world'[q] = world[q]
        /\ world'[p] \in Processes /\ world'[p].birth = events'
        /\ world'[p].ppid \in DOMAIN world \cup {0}
        /\ UNCHANGED collectorVars
    BY <1>2, Started
  <2>1. events \in Nat /\ events' \in Nat /\ events' = events + 1 /\ since' = since /\ scan' = scan
    BY <2>0 DEF HostInv, collectorVars
  <2>2. ASSUME NEW q \in DOMAIN world'
        PROVE  /\ world'[q] \in Processes /\ world'[q].birth <= events'
               /\ world'[q].ppid \in DOMAIN world' \cup {0}
    <3>1. CASE q = p
      BY <2>0, <2>1, <3>1
    <3>2. CASE q \in DOMAIN world
      <4>1. world[q].birth \in Nat
        BY <3>2 DEF HostInv, Processes
      <4> QED BY <2>0, <2>1, <3>2, <4>1 DEF HostInv
    <3> QED BY <2>0, <3>1, <3>2
  <2>3. ASSUME NEW q \in DOMAIN scan
        PROVE  /\ scan[q] \in Processes /\ scan[q].birth <= events'
               /\ q \in DOMAIN world' /\ scan[q].birth = world'[q].birth
                    => scan[q].cmd = world'[q].cmd
    <3>1. scan[q] \in Processes /\ scan[q].birth \in Nat /\ scan[q].birth <= events
      BY DEF HostInv, Processes
    <3>2. scan[q].birth <= events' /\ scan[q].birth # events'
      BY <2>1, <3>1
    <3>3. q = p => scan[q].birth # world'[q].birth
      BY <2>0, <3>2
    <3> QED BY <2>0, <3>1, <3>2, <3>3 DEF HostInv
  <2>4. DOMAIN world' \subseteq Pids
    BY <2>0 DEF HostInv
  <2>5. events' \in 0 .. MaxEvents /\ since' \in 0 .. events'
    BY <2>0, <2>1 DEF HostInv
  <2> QED BY <1>1, <2>1, <2>2, <2>3, <2>4, <2>5 DEF HostInv
<1>3. ASSUME NEW S \in SUBSET DOMAIN world, Exit(S), UNCHANGED <<scan, since>> PROVE HostInv'
  <2>0. /\ DOMAIN world' = DOMAIN world \ S
        /\ events <= events' /\ events' \in 0 .. MaxEvents
        /\ \A q \in DOMAIN world' :
             /\ world'[q] \in Processes
             /\ world'[q].birth = world[q].birth /\ world'[q].cmd = world[q].cmd
             /\ world'[q].ppid \in {0, world[q].ppid} \ S
    BY <1>3, Exited
  <2>1. /\ events \in Nat /\ events' \in Nat /\ events <= events' /\ events' \in 0 .. MaxEvents
        /\ since' \in 0 .. events'
    BY <1>3, <2>0 DEF HostInv
  <2>2. ASSUME NEW q \in DOMAIN world'
        PROVE  /\ world'[q] \in Processes /\ world'[q].birth <= events'
               /\ world'[q].ppid \in DOMAIN world' \cup {0}
    <3>1. q \in DOMAIN world /\ world[q].birth \in Nat /\ world[q].birth <= events
          /\ world[q].ppid \in DOMAIN world \cup {0}
      BY <2>0 DEF HostInv, Processes
    <3> QED BY <2>0, <2>1, <3>1
  <2>3. ASSUME NEW q \in DOMAIN scan
        PROVE  /\ scan[q] \in Processes /\ scan[q].birth <= events'
               /\ q \in DOMAIN world' /\ scan[q].birth = world'[q].birth
                    => scan[q].cmd = world'[q].cmd
    <3>1. scan[q] \in Processes /\ scan[q].birth \in Nat /\ scan[q].birth <= events
      BY DEF HostInv, Processes
    <3>2. q \in DOMAIN world' => q \in DOMAIN world
      BY <2>0
    <3> QED BY <2>0, <2>1, <3>1, <3>2 DEF HostInv
  <2>4. DOMAIN world' \subseteq Pids /\ scan' = scan
    BY <1>3, <2>0 DEF HostInv
  <2> QED BY <1>1, <2>1, <2>2, <2>3, <2>4 DEF HostInv
<1>4. CASE UNCHANGED <<world, events, scan, since>>
  BY <1>1, <1>4 DEF HostInv
<1>5. CASE ScanProcess
  <2>1. UNCHANGED <<world, events, since>>
    BY <1>5 DEF ScanProcess
  <2>2. \A p \in DOMAIN scan' : \/ p \in DOMAIN scan /\ scan'[p] = scan[p]
                                \/ p \in DOMAIN world /\ scan'[p] = world[p]
    BY <1>5, Scanned
  <2> QED BY <1>1, <2>1, <2>2 DEF HostInv
<1>6. CASE StartCycle
  <2>1. UNCHANGED <<world, events>> /\ since' = events /\ DOMAIN scan' = {}
    BY <1>6 DEF StartCycle, Nothing
  <2>2. since' \in 0 .. events'
    BY <2>1 DEF HostInv
  <2> QED BY <1>1, <2>1, <2>2 DEF HostInv
<1> QED BY <1>2, <1>3, <1>4, <1>5, <1>6, HostSteps

\* A numbering of the host that falls from child to parent still does after an exit.
LEMMA ExitKeepsRank ==
  ASSUME HostInv, NEW S \in SUBSET DOMAIN world, Exit(S), NEW rank, NEW time, FallsUp(world, rank, time)
  PROVE  FallsUp(world', rank, time)
<1> SUFFICES ASSUME NEW q \in DOMAIN world', world'[q].birth <= time, world'[q].ppid # 0
             PROVE  rank[world'[q].ppid] < rank[q]
  BY DEF FallsUp
<1>1. q \in DOMAIN world /\ world'[q].birth = world[q].birth /\ world'[q].ppid = world[q].ppid
  BY Exited
<1> QED BY <1>1 DEF FallsUp

LEMMA ForestInvNext ==
  ASSUME HostInv, ForestInv, [Next]_vars
  PROVE  ForestInv'
<1>1. PICK rank \in [Pids -> Nat] : FallsUp(world, rank, events)
  BY DEF ForestInv
<1>2. PICK old \in [Pids -> Nat] : FallsUp(world, old, since) /\ FallsUp(scan, old, since)
  BY DEF ForestInv
<1>0. events \in Nat /\ since \in Nat /\ since <= events
  BY DEF HostInv
<1>3. ASSUME NEW p \in Pids, Start(p) PROVE ForestInv'
  <2>1. p \notin DOMAIN world /\ DOMAIN world' = DOMAIN world \cup {p} /\ events' = events + 1
        /\ world'[p].birth = events' /\ world'[p].ppid \in DOMAIN world \cup {0}
        /\ \A q \in DOMAIN world : world'[q] = world[q]
    BY <1>3, Started
  <2>2. scan' = scan /\ since' = since
    BY <1>3, Started DEF collectorVars
  <2> DEFINE above == IF world'[p].ppid = 0 THEN 0 ELSE rank[world'[p].ppid] + 1
             new   == [rank EXCEPT ![p] = above]
  <2>3. above \in Nat
    BY <2>1 DEF HostInv
  <2>4. new \in [Pids -> Nat] /\ new[p] = above /\ \A q \in Pids \ {p} : new[q] = rank[q]
    BY <2>3
  <2> HIDE DEF new
  <2>5. FallsUp(world', new, events')
    <3> SUFFICES ASSUME NEW q \in DOMAIN world', world'[q].ppid # 0
                 PROVE  new[world'[q].ppid] < new[q]
      BY DEF FallsUp
    <3>1. CASE q = p
      <4>1. world'[p].ppid \in Pids \ {p}
        BY <2>1, <3>1 DEF HostInv
      <4>2. rank[world'[p].ppid] \in Nat /\ new[world'[p].ppid] = rank[world'[p].ppid]
            /\ new[p] = rank[world'[p].ppid] + 1
        BY <2>4, <3>1, <4>1
      <4> HIDE DEF above
      <4> QED BY <3>1, <4>2
    <3>2. CASE q # p
      <4>1. q \in DOMAIN world /\ world'[q] = world[q]
        BY <2>1, <3>2
      <4>2. world[q].ppid \in DOMAIN world /\ world[q].birth <= events
        BY <4>1 DEF HostInv
      <4>3. rank[world[q].ppid] < rank[q]
        BY <1>1, <4>1, <4>2 DEF FallsUp
      <4>4. q \in Pids \ {p} /\ world[q].ppid \in Pids \ {p}
        BY <2>1, <3>2, <4>1, <4>2 DEF HostInv
      <4> QED BY <2>4, <4>1, <4>3, <4>4
    <3> QED BY <3>1, <3>2
  <2>6. FallsUp(world', old, since)
    <3> SUFFICES ASSUME NEW q \in DOMAIN world', world'[q].birth <= since, world'[q].ppid # 0
                 PROVE  old[world'[q].ppid] < old[q]
      BY DEF FallsUp
    <3>1. q # p
      BY <1>0, <2>1
    <3> QED BY <1>2, <2>1, <3>1 DEF FallsUp
  <2> QED BY <1>2, <2>2, <2>4, <2>5, <2>6 DEF ForestInv
<1>4. ASSUME NEW S \in SUBSET DOMAIN world, Exit(S), UNCHANGED <<scan, since>> PROVE ForestInv'
  <2>1. FallsUp(world', rank, events) /\ FallsUp(world', old, since)
    BY <1>1, <1>2, <1>4, ExitKeepsRank
  <2>2. FallsUp(world', rank, events')
    <3> SUFFICES ASSUME NEW q \in DOMAIN world', world'[q].ppid # 0
                 PROVE  rank[world'[q].ppid] < rank[q]
      BY DEF FallsUp
    <3>1. world'[q].birth <= events
      BY <1>4, Exited DEF HostInv
    <3> QED BY <2>1, <3>1 DEF FallsUp
  <2> QED BY <1>2, <1>4, <2>1, <2>2 DEF ForestInv
<1>5. CASE UNCHANGED <<world, events, scan, since>>
  BY <1>1, <1>2, <1>5 DEF ForestInv
<1>6. CASE ScanProcess
  <2>1. UNCHANGED <<world, events, since>>
    BY <1>6 DEF ScanProcess
  <2>2. FallsUp(scan', old, since)
    BY <1>2, <1>6, Scanned DEF FallsUp
  <2> QED BY <1>1, <1>2, <2>1, <2>2 DEF ForestInv
<1>7. CASE StartCycle
  <2>1. UNCHANGED <<world, events>> /\ since' = events /\ DOMAIN scan' = {}
    BY <1>7 DEF StartCycle, Nothing
  <2>2. FallsUp(scan', rank, events)
    BY <2>1 DEF FallsUp
  <2> QED BY <1>1, <2>1, <2>2 DEF ForestInv
<1> QED BY <1>3, <1>4, <1>5, <1>6, <1>7, HostSteps

\* Along a call the numbers rise, so that it is no longer than there are processes: in a tree
\* of processes that were all there when the cycle started the recursion ends.
LEMMA EndlessNeedsReuse ==
  ASSUME HostInv, ForestInv, NEW p \in DOMAIN scan, Endless(p)
  PROVE  \E q \in DOMAIN scan : scan[q].birth > since
<1> SUFFICES ASSUME \A q \in DOMAIN scan : ~(scan[q].birth > since) PROVE FALSE
  OBVIOUS
<1>1. IsFiniteSet(DOMAIN scan) /\ p \in Pids /\ DOMAIN scan \subseteq Pids /\ 0 \notin Pids
  BY PidsAssumption, FS_Subset DEF HostInv
<1>2. PICK N \in Nat : N = Cardinality(DOMAIN scan)
  BY <1>1, FS_CardinalityType
<1>0. PICK call \in Calls(p, N) : TRUE
  BY <1>2 DEF Endless
<1>3. PICK rank \in [Pids -> Nat] : FallsUp(scan, rank, since)
  BY DEF ForestInv
<1>4. \A q \in DOMAIN scan : scan[q].birth <= since
  BY DEF HostInv, Processes
<1>5. /\ call \in [1 .. N + 1 -> Pids] /\ call[1] = p
      /\ \A i \in 1 .. N : call[i + 1] \in DOMAIN scan /\ scan[call[i + 1]].ppid = call[i]
  BY <1>0, <1>1, CallGoesDown
<1>6. ASSUME NEW i \in 1 .. N PROVE rank[call[i]] < rank[call[i + 1]]
  <2>1. i \in 1 .. N + 1
    BY <1>1
  <2>2. call[i + 1] \in DOMAIN scan /\ scan[call[i + 1]].ppid = call[i] /\ call[i] \in Pids
    BY <1>5, <2>1
  <2> QED BY <1>1, <1>3, <1>4, <2>2 DEF FallsUp
<1>7. ASSUME NEW i \in 1 .. N + 1 PROVE call[i] \in DOMAIN scan
  <2>1. CASE i = 1
    BY <1>5, <2>1
  <2>2. CASE i # 1
    <3>1. i - 1 \in 1 .. N /\ (i - 1) + 1 = i
      BY <1>1, <2>2
    <3> QED BY <1>5, <3>1
  <2> QED BY <2>1, <2>2
<1>8. ASSUME NEW i \in 1 .. N + 1, NEW j \in 1 .. N + 1, i < j PROVE rank[call[i]] < rank[call[j]]
  <2> DEFINE bad == {k \in 1 .. N + 1 : i < k /\ ~(rank[call[i]] < rank[call[k]])}
  <2> SUFFICES ASSUME bad # {} PROVE FALSE
    BY <1>8
  <2>1. PICK k \in bad : \A l \in bad : k <= l
    <3>1. bad \subseteq Nat
      BY <1>1
    <3> HIDE DEF bad
    <3> QED BY <3>1, NatMin
  <2>2. k \in 1 .. N + 1 /\ i < k /\ ~(rank[call[i]] < rank[call[k]])
    OBVIOUS
  <2>3. k - 1 \in 1 .. N /\ k - 1 \in 1 .. N + 1 /\ (k - 1) + 1 = k /\ ~(k <= k - 1)
    BY <1>1, <2>2
  <2>4. rank[call[k - 1]] < rank[call[k]]
    BY <1>6, <2>3
  <2>5. k - 1 \notin bad
    <3> HIDE DEF bad
    <3> QED BY <2>1, <2>3
  <2>6. CASE i = k - 1
    BY <2>2, <2>4, <2>6
  <2>7. CASE i # k - 1
    <3>1. i < k - 1
      BY <1>1, <2>2, <2>7
    <3>2. rank[call[i]] < rank[call[k - 1]]
      BY <2>3, <2>5, <3>1
    <3>3. rank[call[i]] \in Nat /\ rank[call[k - 1]] \in Nat /\ rank[call[k]] \in Nat
      BY <1>5, <2>2, <2>3
    <3> QED BY <2>2, <2>4, <3>2, <3>3
  <2> QED BY <2>6, <2>7
<1>9. \E i, j \in 1 .. N + 1 : i # j /\ call[i] = call[j]
  <2>1. IsFiniteSet(1 .. N + 1) /\ Cardinality(1 .. N + 1) = N + 1
    <3>1. 1 \in Int /\ N + 1 \in Int /\ ~(1 > N + 1) /\ (N + 1) - 1 + 1 = N + 1
      OBVIOUS
    <3> QED BY <3>1, FS_Interval
  <2>2. Cardinality(DOMAIN scan) < Cardinality(1 .. N + 1)
    BY <1>1, <1>2, <2>1
  <2>3. call \in [1 .. N + 1 -> DOMAIN scan]
    BY <1>5, <1>7
  <2> QED BY <1>1, <1>2, <2>1, <2>2, <2>3, FS_PigeonHole
<1>10. PICK i \in 1 .. N + 1 : \E j \in 1 .. N + 1 : i # j /\ call[i] = call[j]
  BY <1>9
<1>11. PICK j \in 1 .. N + 1 : i # j /\ call[i] = call[j]
  BY <1>10
<1>12. i < j \/ j < i
  BY <1>1, <1>11
<1>13. rank[call[i]] \in Nat
  BY <1>5
<1> QED BY <1>8, <1>11, <1>12, <1>13

-----------------------------------------------------------------------------
\* The loop.

\* What Collect reports of a process, and what it leaves in the caches.
Reported(p, r, reach) ==
  /\ report' = report \cup {r} /\ r.pid = p /\ r.cmd = world[p].cmd /\ r.name = names'[p]
  /\ r.launch = IsLaunch(world[p].cmd) /\ r.children = Descendants(p)
  /\ r.net = Family(p) /\ r.ram = Counted(p, reach)
  /\ r.nodes \subseteq Descendants(p) \cap DOMAIN names' \cap DOMAIN spaces'
  /\ \A q \in Descendants(p) :
       /\ reach[q] >= 1 => q \in DOMAIN world
       /\ reach[q] = 3 /\ r.launch /\ ~IsLaunch(world[q].cmd) =>
            q \in DOMAIN names' /\ (IsEmpty(names'[q]) \/ q \in r.nodes)
  /\ r.disk = Calls(p, 0)
  /\ \A q \in Descendants(p) : reach[q] = 3 \/ q \notin DOMAIN world'
  /\ seen' = seen \cup Descendants(p) /\ pc' = pc

\* The names grow by those of p and of processes below it: what is known stays, and what is
\* new is the name of the command line that the process has by then.
NamesGrow(p, below) ==
  /\ DOMAIN names \cup {p} \subseteq DOMAIN names'
  /\ DOMAIN names' \subseteq DOMAIN names \cup {p} \cup (below \cap DOMAIN world)
  /\ \A q \in DOMAIN names : names'[q] = names[q]
  /\ \A q \in DOMAIN names' \ DOMAIN names : \E env : names'[q] = NodeName(world[q].cmd, env)
  /\ DOMAIN spaces \subseteq DOMAIN spaces'
  /\ DOMAIN spaces' \subseteq DOMAIN spaces \cup {p} \cup below

LEMMA Collected ==
  ASSUME NEW p \in DOMAIN world, Collect(p)
  PROVE  /\ NamesGrow(p, Descendants(p)) /\ p \in DOMAIN spaces'
         /\ \E reach \in [Descendants(p) -> Reaches] : \E r : Reported(p, r, reach)
<1> DEFINE children == Descendants(p)
<1>0. PICK exiting \in SUBSET (children \cap DOMAIN world) : \E reach \in Reached(children, exiting) :
        LET asked == Asked(p, children, reach)
            named == {q \in asked : ~IsEmpty(names'[q])}
        IN  /\ names' = NamesWith(p, asked, world[p].env)
            /\ spaces' = SpacesWith(p, named, world[p].space)
            /\ report' = report \cup
                 {[pid |-> p, cmd |-> world[p].cmd, name |-> names'[p], launch |-> IsLaunch(world[p].cmd),
                   children |-> children, ram |-> Counted(p, reach), net |-> Family(p),
                   disk |-> Calls(p, 0), nodes |-> {q \in named : reach[q] = 3}]}
            /\ seen' = seen \cup children
            /\ Exit(exiting)
            /\ UNCHANGED pc
  BY DEF Collect
<1>1. PICK reach \in Reached(children, exiting) :
        LET asked == Asked(p, children, reach)
            named == {q \in asked : ~IsEmpty(names'[q])}
        IN  /\ names' = NamesWith(p, asked, world[p].env)
            /\ spaces' = SpacesWith(p, named, world[p].space)
            /\ report' = report \cup
                 {[pid |-> p, cmd |-> world[p].cmd, name |-> names'[p], launch |-> IsLaunch(world[p].cmd),
                   children |-> children, ram |-> Counted(p, reach), net |-> Family(p),
                   disk |-> Calls(p, 0), nodes |-> {q \in named : reach[q] = 3}]}
            /\ seen' = seen \cup children
            /\ Exit(exiting)
            /\ UNCHANGED pc
  BY <1>0
<1>2. /\ reach \in [children -> Reaches]
      /\ \A q \in children : reach[q] >= 1 => q \in DOMAIN world
      /\ \A q \in children : reach[q] = 3 \/ q \notin DOMAIN world'
  <2>1. DOMAIN world' = DOMAIN world \ exiting
    BY <1>1 DEF Exit
  <2> QED BY <2>1 DEF Reached, Reaches
<1> HIDE DEF children
<1>3. PICK asked : asked = Asked(p, children, reach)
  OBVIOUS
<1>4. PICK named : named = {q \in asked : ~IsEmpty(names'[q])}
  OBVIOUS
<1>5. PICK r : r = [pid |-> p, cmd |-> world[p].cmd, name |-> names'[p], launch |-> IsLaunch(world[p].cmd),
                    children |-> children, ram |-> Counted(p, reach), net |-> Family(p),
                    disk |-> Calls(p, 0), nodes |-> {q \in named : reach[q] = 3}]
  OBVIOUS
<1>6. /\ names' = NamesWith(p, asked, world[p].env) /\ spaces' = SpacesWith(p, named, world[p].space)
      /\ report' = report \cup {r}
  BY <1>1, <1>3, <1>4, <1>5
<1>7. /\ asked \subseteq children \cap DOMAIN world
      /\ \A q \in children : IsLaunch(world[p].cmd) /\ reach[q] = 3 /\ ~IsLaunch(world[q].cmd) => q \in asked
  BY <1>2, <1>3 DEF Asked, Reaches
<1>8. /\ DOMAIN names' = DOMAIN names \cup {p} \cup asked
      /\ \A q \in DOMAIN names : names'[q] = names[q]
      /\ \A q \in ({p} \cup asked) \ DOMAIN names : \E env : names'[q] = NodeName(world[q].cmd, env)
  BY <1>6 DEF NamesWith
<1>9. DOMAIN spaces' = DOMAIN spaces \cup {p} \cup named
  BY <1>6 DEF SpacesWith
<1>10. NamesGrow(p, children) /\ p \in DOMAIN spaces'
  BY <1>4, <1>7, <1>8, <1>9 DEF NamesGrow
<1>11. /\ r.pid = p /\ r.cmd = world[p].cmd /\ r.name = names'[p] /\ r.launch = IsLaunch(world[p].cmd)
       /\ r.children = children /\ r.net = Family(p) /\ r.ram = Counted(p, reach)
       /\ r.disk = Calls(p, 0) /\ r.nodes = {q \in named : reach[q] = 3}
  BY <1>5
<1>12. r.nodes \subseteq children \cap DOMAIN names' \cap DOMAIN spaces'
  BY <1>4, <1>7, <1>8, <1>9, <1>11
<1>13. \A q \in children :
         reach[q] = 3 /\ r.launch /\ ~IsLaunch(world[q].cmd) =>
           q \in DOMAIN names' /\ (IsEmpty(names'[q]) \/ q \in r.nodes)
  BY <1>4, <1>7, <1>8, <1>11
<1>14. seen' = seen \cup children /\ pc' = pc
  BY <1>1
<1>15. Reported(p, r, reach)
  BY <1>2, <1>6, <1>11, <1>12, <1>13, <1>14 DEF Reported, children
<1> QED BY <1>2, <1>10, <1>15 DEF children

LEMMA Died ==
  ASSUME NEW p, CollectDies(p)
  PROVE  p \in DOMAIN world /\ Exit({p}) /\ NamesGrow(p, {}) /\ UNCHANGED <<pc, seen, report>>
<1>1. p \in DOMAIN world /\ Exit({p}) /\ UNCHANGED <<pc, seen, report>>
  BY DEF CollectDies, Exit
<1>2. /\ \E env : names' = NamesWith(p, {}, env)
      /\ \E space : spaces' = SpacesWith(p, {}, space)
  BY DEF CollectDies
<1>3. /\ DOMAIN names' = DOMAIN names \cup {p} \cup {}
      /\ \A q \in DOMAIN names : names'[q] = names[q]
      /\ \A q \in ({p} \cup {}) \ DOMAIN names : \E env : names'[q] = NodeName(world[q].cmd, env)
  <2>1. PICK env : names' = NamesWith(p, {}, env)
    BY <1>2
  <2> QED BY <2>1 DEF NamesWith
<1>4. DOMAIN spaces' = DOMAIN spaces \cup {p} \cup {}
  BY <1>2 DEF SpacesWith
<1>5. NamesGrow(p, {})
  BY <1>3, <1>4 DEF NamesGrow
<1> QED BY <1>1, <1>5

\* What a step does to the collector.
LEMMA LoopSteps ==
  ASSUME [Next]_vars
  PROVE  UNCHANGED collectorVars \/ ScanProcess \/ EndScan \/ Visit \/ StartCycle
BY DEF Next, Start, ExitProcess, vars

LEMMA VisitSteps ==
  ASSUME HostInv, Visit
  PROVE  /\ pc = "visit" /\ Next1 \in todo /\ todo' = todo \ {Next1} /\ UNCHANGED <<scan, since>>
         /\ \/ /\ Skips(Next1) \/ Next1 \notin DOMAIN world
               /\ UNCHANGED <<world, events, pc, seen, names, spaces, report>>
            \/ ~Skips(Next1) /\ CollectDies(Next1)
            \/ /\ Next1 \in DOMAIN world /\ Endless(Next1) /\ pc' = "raised"
               /\ UNCHANGED <<world, events, seen, names, spaces, report>>
            \/ ~Skips(Next1) /\ Next1 \in DOMAIN world /\ ~Endless(Next1) /\ Collect(Next1)
<1>1. todo # {} /\ todo \subseteq Nat
  BY PidsAssumption DEF Visit, HostInv
<1>2. Next1 \in todo
  BY <1>1, FirstIsLeast DEF Next1
<1> QED BY <1>2 DEF Visit, Skip, CollectGone, CollectRaises

\* What the report says is typed, and a name in it is that of the cache.
ReportTyped ==
  \A r \in report :
    /\ r.pid \in DOMAIN names \cap DOMAIN spaces /\ r.name = names[r.pid]
    /\ r.children \subseteq Pids
    /\ r.ram \cup r.net \cup r.disk \subseteq Seq(Pids)
    /\ r.nodes \subseteq DOMAIN names \cap DOMAIN spaces

\* The invariant of the loop: it goes by the scan, what has a name already is below something
\* that is reported, and that is what seen_pids holds.
LoopInv ==
  /\ pc \in {"scan", "visit", "raised"}
  /\ seen \cup DOMAIN names \cup DOMAIN spaces \subseteq Pids
  /\ pc = "scan" => DOMAIN names = {} /\ seen = {} /\ report = {}
  /\ pc # "scan" => todo \subseteq DOMAIN scan
  /\ todo \cap DOMAIN names \subseteq seen
  /\ \A q \in seen : \E r \in report : q \in r.children
  /\ ReportTyped
  /\ CycleNeedsReuse

LEMMA LoopInvNext ==
  ASSUME HostInv, ForestInv, LoopInv, [Next]_vars
  PROVE  LoopInv'
<1>1. CASE UNCHANGED collectorVars
  BY <1>1 DEF collectorVars, LoopInv, ReportTyped, CycleNeedsReuse
<1>2. CASE ScanProcess
  <2>1. pc = "scan" /\ UNCHANGED <<pc, seen, names, spaces, report, since>> /\ todo' \subseteq todo
    BY <1>2 DEF ScanProcess
  <2> QED BY <2>1 DEF LoopInv, ReportTyped, CycleNeedsReuse
<1>3. CASE EndScan
  <2>1. /\ pc = "scan" /\ pc' = "visit" /\ todo' = DOMAIN scan
        /\ UNCHANGED <<scan, seen, names, spaces, report, since>>
    BY <1>3 DEF EndScan
  <2> QED BY <2>1 DEF LoopInv, ReportTyped, CycleNeedsReuse
<1>4. CASE StartCycle
  <2>1. pc' = "scan" /\ DOMAIN names' = {} /\ DOMAIN spaces' = {} /\ seen' = {} /\ report' = {}
    BY <1>4 DEF StartCycle, Nothing
  <2> QED BY <2>1 DEF LoopInv, ReportTyped, CycleNeedsReuse
<1>5. CASE Visit
  <2> DEFINE p == Next1
  <2>1. pc = "visit" /\ p \in todo /\ todo' = todo \ {p} /\ UNCHANGED <<scan, since>>
    BY <1>5, VisitSteps
  <2>2. p \in Pids /\ p \in DOMAIN scan /\ DOMAIN world \subseteq Pids /\ IsFiniteSet(DOMAIN scan)
    BY <2>1, PidsAssumption, FS_Subset DEF HostInv, LoopInv
  <2>3. CASE UNCHANGED <<pc, seen, names, spaces, report>>
    BY <2>1, <2>3 DEF LoopInv, ReportTyped, CycleNeedsReuse
  <2>4. CASE CollectDies(p)
    <3>1. NamesGrow(p, {}) /\ UNCHANGED <<pc, seen, report>>
      BY <2>4, Died
    <3>2. ReportTyped'
      BY <3>1 DEF NamesGrow, LoopInv, ReportTyped
    <3>3. DOMAIN names' = DOMAIN names \cup {p} /\ DOMAIN spaces' \subseteq DOMAIN spaces \cup {p}
      BY <3>1 DEF NamesGrow
    <3> HIDE DEF p
    <3> QED BY <2>1, <2>2, <3>1, <3>2, <3>3 DEF LoopInv, CycleNeedsReuse
  <2>5. CASE Endless(p) /\ pc' = "raised" /\ UNCHANGED <<seen, names, spaces, report>>
    <3>1. \E q \in DOMAIN scan : scan[q].birth > since
      BY <2>2, <2>5, EndlessNeedsReuse
    <3> QED BY <2>1, <2>5, <3>1 DEF LoopInv, ReportTyped, CycleNeedsReuse
  <2>6. CASE p \in DOMAIN world /\ Collect(p)
    <3>1. NamesGrow(p, Descendants(p)) /\ p \in DOMAIN spaces'
      BY <2>6, Collected
    <3>2. PICK reach \in [Descendants(p) -> Reaches] : \E r : Reported(p, r, reach)
      BY <2>6, Collected
    <3>3. PICK r : Reported(p, r, reach)
      BY <3>2
    <3>4. Descendants(p) \subseteq Pids /\ Family(p) \subseteq Seq(Pids) /\ Counted(p, reach) \subseteq Family(p)
          /\ Calls(p, 0) \subseteq Family(p)
      BY <2>2, FamilyMembers DEF Counted
    <3> HIDE DEF p
    <3>5. ReportTyped'
      <4> SUFFICES ASSUME NEW s \in report'
                   PROVE  /\ s.pid \in DOMAIN names' \cap DOMAIN spaces' /\ s.name = names'[s.pid]
                          /\ s.children \subseteq Pids
                          /\ s.ram \cup s.net \cup s.disk \subseteq Seq(Pids)
                          /\ s.nodes \subseteq DOMAIN names' \cap DOMAIN spaces'
        BY DEF ReportTyped
      <4>1. CASE s \in report
        BY <3>1, <4>1 DEF NamesGrow, LoopInv, ReportTyped
      <4>2. CASE s = r
        <5>1. /\ s.pid = p /\ s.name = names'[p] /\ s.children = Descendants(p)
              /\ s.net = Family(p) /\ s.ram = Counted(p, reach) /\ s.disk = Calls(p, 0)
              /\ s.nodes \subseteq Descendants(p) \cap DOMAIN names' \cap DOMAIN spaces'
          BY <3>3, <4>2 DEF Reported
        <5>2. p \in DOMAIN names'
          BY <3>1 DEF NamesGrow
        <5> QED BY <3>1, <3>4, <5>1, <5>2
      <4>3. report' = report \cup {r}
        BY <3>3 DEF Reported
      <4> QED BY <4>1, <4>2, <4>3
    <3>6. /\ DOMAIN names' \subseteq DOMAIN names \cup {p} \cup Descendants(p)
          /\ DOMAIN spaces' \subseteq DOMAIN spaces \cup {p} \cup Descendants(p)
      BY <3>1 DEF NamesGrow
    <3>7. /\ report' = report \cup {r} /\ r.children = Descendants(p)
          /\ seen' = seen \cup Descendants(p) /\ pc' = pc
      BY <3>3 DEF Reported
    <3>8. \A q \in seen' : \E s \in report' : q \in s.children
      BY <3>7 DEF LoopInv
    <3> QED BY <2>1, <2>2, <3>4, <3>5, <3>6, <3>7, <3>8 DEF LoopInv, CycleNeedsReuse
  <2> QED BY <1>5, <2>3, <2>4, <2>5, <2>6, VisitSteps
<1> QED BY <1>1, <1>2, <1>3, <1>4, <1>5, LoopSteps

-----------------------------------------------------------------------------
\* The report.

\* The names are those of command lines that the processes had.
NameInv ==
  /\ \A p \in DOMAIN names : \E cmd \in CommandLines : \E env : names[p] = NodeName(cmd, env)
  /\ \A r \in report : r.cmd \in CommandLines /\ \E env : r.name = NodeName(r.cmd, env)

LEMMA NameInvNext ==
  ASSUME HostInv, LoopInv, NameInv, [Next]_vars
  PROVE  NameInv'
<1>1. \A p \in DOMAIN world : world[p].cmd \in CommandLines
  BY DEF HostInv, Processes
<1>2. CASE UNCHANGED <<names, report>>
  BY <1>2 DEF NameInv
<1>3. CASE StartCycle
  BY <1>3 DEF StartCycle, Nothing, NameInv
<1>4. CASE Visit
  <2> DEFINE p == Next1
  <2>1. p \in todo /\ pc = "visit"
    BY <1>4, VisitSteps
  <2>2. ASSUME NEW below, NamesGrow(p, below), p \in DOMAIN world
        PROVE  \A q \in DOMAIN names' : \E cmd \in CommandLines : \E env : names'[q] = NodeName(cmd, env)
    <3> SUFFICES ASSUME NEW q \in DOMAIN names'
                 PROVE  \E cmd \in CommandLines : \E env : names'[q] = NodeName(cmd, env)
      OBVIOUS
    <3>1. CASE q \in DOMAIN names
      BY <2>2, <3>1 DEF NamesGrow, NameInv
    <3>2. CASE q \notin DOMAIN names
      <4>1. q \in DOMAIN world
        BY <2>2, <3>2 DEF NamesGrow
      <4>2. \E env : names'[q] = NodeName(world[q].cmd, env)
        BY <2>2, <3>2 DEF NamesGrow
      <4> QED BY <1>1, <4>1, <4>2
    <3> QED BY <3>1, <3>2
  <2>3. CASE CollectDies(p)
    <3>1. p \in DOMAIN world /\ NamesGrow(p, {}) /\ report' = report
      BY <2>3, Died
    <3> QED BY <2>2, <3>1 DEF NameInv
  <2>4. CASE ~Skips(p) /\ p \in DOMAIN world /\ Collect(p)
    <3>1. NamesGrow(p, Descendants(p))
      BY <2>4, Collected
    <3>2. PICK reach \in [Descendants(p) -> Reaches] : \E r : Reported(p, r, reach)
      BY <2>4, Collected
    <3>3. PICK r : Reported(p, r, reach)
      BY <3>2
    <3>4. p \notin DOMAIN names
      BY <2>1, <2>4 DEF Skips, Passed, LoopInv
    <3>5. \E env : names'[p] = NodeName(world[p].cmd, env)
      BY <3>1, <3>4 DEF NamesGrow
    <3>6. report' = report \cup {r} /\ r.cmd = world[p].cmd /\ r.name = names'[p]
      BY <3>3 DEF Reported
    <3>7. r.cmd \in CommandLines /\ \E env : r.name = NodeName(r.cmd, env)
      BY <1>1, <2>4, <3>5, <3>6
    <3>8. \A q \in DOMAIN names' : \E cmd \in CommandLines : \E env : names'[q] = NodeName(cmd, env)
      BY <2>2, <2>4, <3>1
    <3>9. \A s \in report' : s.cmd \in CommandLines /\ \E env : s.name = NodeName(s.cmd, env)
      BY <3>6, <3>7 DEF NameInv
    <3> QED BY <3>8, <3>9 DEF NameInv
  <2> QED BY <1>2, <1>4, <2>3, <2>4, VisitSteps
<1> QED BY <1>2, <1>3, <1>4, LoopSteps DEF ScanProcess, EndScan, collectorVars

\* A process that still runs after a step did so before it, with the same command line: one
\* that has taken over its pid is born later than what was scanned.
LEMMA StaysFromBefore ==
  ASSUME HostInv, [Next]_vars, NEW q, scan' = scan, Stays(q)'
  PROVE  Stays(q) /\ world'[q].cmd = world[q].cmd
<1>1. q \in DOMAIN scan /\ q \in DOMAIN world' /\ scan[q].birth = world'[q].birth
  BY DEF Stays
<1>2. q \in DOMAIN world /\ world'[q].birth = world[q].birth /\ world'[q].cmd = world[q].cmd
  <2>1. ASSUME NEW p \in Pids, Start(p) PROVE q \in DOMAIN world /\ world'[q] = world[q]
    <3>1. /\ DOMAIN world' = DOMAIN world \cup {p} /\ world'[p].birth = events'
          /\ events' = events + 1 /\ \A x \in DOMAIN world : world'[x] = world[x]
      BY <2>1, Started
    <3>2. scan[q].birth \in Nat /\ scan[q].birth <= events /\ events \in Nat
      BY <1>1 DEF HostInv, Processes
    <3>3. q # p
      BY <1>1, <3>1, <3>2
    <3> QED BY <1>1, <3>1, <3>3
  <2>2. ASSUME NEW S \in SUBSET DOMAIN world, Exit(S)
        PROVE  /\ q \in DOMAIN world /\ world'[q].birth = world[q].birth
               /\ world'[q].cmd = world[q].cmd
    BY <1>1, <2>2, Exited
  <2>3. ScanProcess \/ StartCycle => world' = world
    BY DEF ScanProcess, StartCycle
  <2> QED BY <1>1, <2>1, <2>2, <2>3, HostSteps
<1> QED BY <1>1, <1>2 DEF Stays

\* The totals do not change after a process was collected: the scan is over by then, and what
\* has gone does not come back.
LEMMA TotalsNext ==
  ASSUME HostInv, LoopInv, TotalsAreOfTheTree, [Next]_vars
  PROVE  TotalsAreOfTheTree'
<1>1. ASSUME scan' = scan, NEW s \in report
      PROVE  /\ s.children = Below(s.pid)'
             /\ {Last(entry) : entry \in s.net} = {s.pid} \cup s.children
             /\ \A a, b \in s.net : Last(a) = Last(b) => a = b
             /\ s.ram \subseteq s.net /\ \A entry \in s.net \ s.ram : ~Stays(Last(entry))'
             /\ s.disk \subseteq s.ram /\ {Last(entry) : entry \in s.disk} = {s.pid}
  <2>1. \A q : Stays(q)' => Stays(q)
    BY <1>1, StaysFromBefore
  <2>2. Below(s.pid)' = Below(s.pid)
    BY <1>1 DEF Below
  <2> QED BY <1>1, <2>1, <2>2 DEF TotalsAreOfTheTree
<1>5. CASE UNCHANGED <<scan, report>>
  BY <1>1, <1>5 DEF TotalsAreOfTheTree
<1>2. CASE report' = {}
  BY <1>2 DEF TotalsAreOfTheTree
<1>3. CASE Visit
  <2> DEFINE p == Next1
  <2>1. p \in todo /\ pc = "visit" /\ scan' = scan
    BY <1>3, VisitSteps
  <2>2. p \in Pids /\ DOMAIN scan \subseteq Pids /\ IsFiniteSet(DOMAIN scan)
    BY <2>1, PidsAssumption, FS_Subset DEF HostInv
  <2>3. CASE p \in DOMAIN world /\ ~Endless(p) /\ Collect(p)
    <3>1. PICK reach \in [Descendants(p) -> Reaches] : \E r : Reported(p, r, reach)
      BY <2>3, Collected
    <3>2. PICK r : Reported(p, r, reach)
      BY <3>1
    <3> HIDE DEF p
    <3>3. /\ report' = report \cup {r} /\ r.pid = p /\ r.children = Descendants(p)
          /\ r.net = Family(p) /\ r.ram = Counted(p, reach)
          /\ r.disk = Calls(p, 0)
          /\ \A q \in Descendants(p) : reach[q] = 3 \/ q \notin DOMAIN world'
      BY <3>2 DEF Reported
    <3>9. /\ Calls(p, 0) = {[i \in 1 .. 1 |-> p]} /\ Last([i \in 1 .. 1 |-> p]) = p
          /\ Calls(p, 0) \subseteq Family(p)
      BY <2>2, FamilyMembers
    <3>4. r.children = Below(p)
      BY <2>2, <2>3, <3>3, DescendantsAreBelow
    <3>5. {Last(entry) : entry \in r.net} = {p} \cup r.children
      BY <3>3, <3>9 DEF Descendants
    <3>6. \A a, b \in r.net : Last(a) = Last(b) => a = b
      BY <2>2, <2>3, <3>3, OneEntryEach
    <3>7. r.ram \subseteq r.net
      BY <3>3 DEF Counted
    <3>8. \A entry \in r.net \ r.ram : ~Stays(Last(entry))'
      <4> SUFFICES ASSUME NEW entry \in Family(p), entry \notin Counted(p, reach)
                   PROVE  ~Stays(Last(entry))'
        BY <3>3
      <4>1. entry \notin Calls(p, 0) /\ ~(reach[Last(entry)] >= 1)
        BY DEF Counted
      <4>2. Last(entry) \in Descendants(p)
        BY <4>1 DEF Descendants
      <4>3. reach[Last(entry)] # 3
        BY <4>1
      <4> QED BY <3>3, <4>2, <4>3 DEF Stays
    <3>10. r.disk \subseteq r.ram /\ {Last(entry) : entry \in r.disk} = {p}
      BY <3>3, <3>9 DEF Counted
    <3>11. r.children = Below(r.pid)'
      <4>1. r.children = Below(r.pid)
        BY <3>3, <3>4
      <4>2. Below(r.pid)' = Below(r.pid)
        BY <2>1 DEF Below
      <4> QED BY <4>1, <4>2
    <3>12. /\ report' = report \cup {r}
           /\ {Last(entry) : entry \in r.net} = {r.pid} \cup r.children
           /\ {Last(entry) : entry \in r.disk} = {r.pid}
      BY <3>3, <3>5, <3>10
    <3> QED BY <1>1, <2>1, <3>6, <3>7, <3>8, <3>10, <3>11, <3>12 DEF TotalsAreOfTheTree
  <2>4. CASE CollectDies(p)
    BY <1>5, <2>1, <2>4, Died
  <2> QED BY <1>3, <1>5, <2>1, <2>3, <2>4, VisitSteps
<1>4. ScanProcess \/ EndScan \/ StartCycle => report' = {}
  BY DEF ScanProcess, EndScan, StartCycle, LoopInv
<1> QED BY <1>2, <1>3, <1>4, <1>5, LoopSteps DEF collectorVars

\* What is below a process that is reported is listed with it, or need not be.
Listed(r, q) ==
  r.launch => \/ q \in r.nodes
              \/ IsLaunch(world[q].cmd)
              \/ q \in DOMAIN names /\ IsEmpty(names[q])

\* What the loop has come by is reported or below something that is.
ShownInv ==
  /\ \A r \in report : \A q \in r.children : Stays(q) => Listed(r, q)
  /\ pc = "visit" =>
       \A q \in Pids \ todo :
         Stays(q) /\ IsRosProcess(world[q].cmd) /\ ~IsShellWrapper(world[q].cmd)
           => q \in seen \/ \E r \in report : r.pid = q

\* No argument, no ROS process.
LEMMA NothingIsNoRosProcess == ~IsRosProcess(<<>>)
BY DEF IsRosProcess, Flat, FlattenSeq, VerbAt

\* A ROS process that still runs is passed over only if it has been seen.
LEMMA SkipsOnlySeen ==
  ASSUME HostInv, NEW q, Stays(q), Skips(q),
         IsRosProcess(world[q].cmd), ~IsShellWrapper(world[q].cmd)
  PROVE  q \in seen
<1>1. scan[q].cmd = world[q].cmd
  BY DEF Stays, HostInv
<1> QED BY <1>1, NothingIsNoRosProcess DEF Skips, Passed

LEMMA ShownInvNext ==
  ASSUME HostInv, LoopInv, ShownInv, [Next]_vars
  PROVE  ShownInv'
<1>1. ASSUME UNCHANGED <<scan, seen, report, pc>>, todo' = todo,
             DOMAIN names \subseteq DOMAIN names', \A q \in DOMAIN names : names'[q] = names[q]
      PROVE  ShownInv'
  <2>1. ASSUME NEW r \in report, NEW q \in r.children, Stays(q)' PROVE Listed(r, q)'
    <3>1. Listed(r, q) /\ world'[q].cmd = world[q].cmd
      BY <1>1, <2>1, StaysFromBefore DEF ShownInv
    <3> QED BY <1>1, <3>1 DEF Listed
  <2>2. ASSUME pc = "visit", NEW q \in Pids \ todo, Stays(q)',
               IsRosProcess(world'[q].cmd), ~IsShellWrapper(world'[q].cmd)
        PROVE  q \in seen \/ \E r \in report : r.pid = q
    BY <1>1, <2>2, StaysFromBefore DEF ShownInv
  <2> QED BY <1>1, <2>1, <2>2 DEF ShownInv
<1>2. CASE UNCHANGED collectorVars
  BY <1>1, <1>2 DEF collectorVars
<1>3. CASE ScanProcess \/ StartCycle
  BY <1>3 DEF ScanProcess, StartCycle, LoopInv, ShownInv
<1>4. CASE EndScan
  <2>1. report' = {} /\ todo' = DOMAIN scan'
    BY <1>4 DEF EndScan, LoopInv
  <2> QED BY <2>1 DEF ShownInv, Stays
<1>5. CASE Visit
  <2> DEFINE p == Next1
  <2>1. pc = "visit" /\ p \in todo /\ todo' = todo \ {p} /\ scan' = scan /\ p \in Pids
    BY <1>5, VisitSteps DEF HostInv
  <2>2. \A q : Stays(q)' => Stays(q) /\ world'[q].cmd = world[q].cmd
    BY <2>1, StaysFromBefore
  <2>3. CASE /\ Skips(p) \/ p \notin DOMAIN world
             /\ UNCHANGED <<world, pc, seen, names, report>>
    <3>1. ASSUME NEW r \in report, NEW q \in r.children, Stays(q)' PROVE Listed(r, q)'
      BY <2>2, <2>3, <3>1 DEF ShownInv, Listed
    <3>2. ASSUME NEW q \in Pids \ todo', Stays(q)',
                 IsRosProcess(world'[q].cmd), ~IsShellWrapper(world'[q].cmd)
          PROVE  q \in seen \/ \E r \in report : r.pid = q
      <4>1. Stays(q) /\ IsRosProcess(world[q].cmd) /\ ~IsShellWrapper(world[q].cmd)
        BY <2>2, <2>3, <3>2
      <4>2. CASE q = p
        <5>1. q \in DOMAIN world
          BY <4>1 DEF Stays
        <5> QED BY <2>3, <4>1, <4>2, <5>1, SkipsOnlySeen
      <4>3. CASE q # p
        BY <2>1, <4>1, <4>3 DEF ShownInv
      <4> QED BY <4>2, <4>3
    <3> QED BY <2>3, <3>1, <3>2 DEF ShownInv
  <2>4. CASE CollectDies(p)
    <3>1. /\ Exit({p}) /\ p \in DOMAIN world /\ UNCHANGED <<pc, seen, report>>
          /\ DOMAIN names \subseteq DOMAIN names' /\ \A q \in DOMAIN names : names'[q] = names[q]
      BY <2>4, Died DEF NamesGrow
    <3>2. p \notin DOMAIN world'
      BY <3>1 DEF Exit
    <3>3. ASSUME NEW r \in report, NEW q \in r.children, Stays(q)' PROVE Listed(r, q)'
      <4>1. Listed(r, q) /\ world'[q].cmd = world[q].cmd
        BY <2>2, <3>3 DEF ShownInv
      <4> QED BY <3>1, <4>1 DEF Listed
    <3>4. ASSUME NEW q \in Pids \ todo', Stays(q)',
                 IsRosProcess(world'[q].cmd), ~IsShellWrapper(world'[q].cmd)
          PROVE  q \in seen \/ \E r \in report : r.pid = q
      <4>1. q # p
        BY <3>2, <3>4 DEF Stays
      <4>2. Stays(q) /\ IsRosProcess(world[q].cmd) /\ ~IsShellWrapper(world[q].cmd) /\ q \notin todo
        BY <2>1, <2>2, <3>4, <4>1
      <4> QED BY <2>1, <4>2 DEF ShownInv
    <3> QED BY <2>1, <3>1, <3>3, <3>4 DEF ShownInv
  <2>5. CASE pc' = "raised" /\ UNCHANGED <<world, names, report>>
    <3>1. ASSUME NEW r \in report, NEW q \in r.children, Stays(q)' PROVE Listed(r, q)'
      BY <2>2, <2>5, <3>1 DEF ShownInv, Listed
    <3> QED BY <2>5, <3>1 DEF ShownInv
  <2>6. CASE p \in DOMAIN world /\ Collect(p)
    <3>1. DOMAIN names \subseteq DOMAIN names' /\ \A q \in DOMAIN names : names'[q] = names[q]
      BY <2>6, Collected DEF NamesGrow
    <3>2. PICK reach \in [Descendants(p) -> Reaches] : \E r : Reported(p, r, reach)
      BY <2>6, Collected
    <3>3. PICK r : Reported(p, r, reach)
      BY <3>2
    <3> HIDE DEF p
    <3>4. /\ report' = report \cup {r} /\ r.pid = p /\ r.children = Descendants(p)
          /\ \A q \in Descendants(p) :
               reach[q] = 3 /\ r.launch /\ ~IsLaunch(world[q].cmd) =>
                 q \in DOMAIN names' /\ (IsEmpty(names'[q]) \/ q \in r.nodes)
          /\ \A q \in Descendants(p) : reach[q] = 3 \/ q \notin DOMAIN world'
          /\ seen' = seen \cup Descendants(p) /\ pc' = pc
      BY <3>3 DEF Reported
    <3>5. ASSUME NEW s \in report', NEW q \in s.children, Stays(q)' PROVE Listed(s, q)'
      <4>1. CASE s \in report
        <5>1. Listed(s, q) /\ world'[q].cmd = world[q].cmd
          BY <2>2, <3>5, <4>1 DEF ShownInv
        <5> QED BY <3>1, <3>4, <5>1 DEF Listed
      <4>2. CASE s = r
        <5>1. reach[q] = 3
          BY <3>4, <3>5, <4>2 DEF Stays
        <5>2. world'[q].cmd = world[q].cmd
          BY <2>2, <3>5
        <5> QED BY <3>4, <4>2, <5>1, <5>2 DEF Listed
      <4> QED BY <3>4, <4>1, <4>2
    <3>6. ASSUME NEW q \in Pids \ todo', Stays(q)',
                 IsRosProcess(world'[q].cmd), ~IsShellWrapper(world'[q].cmd)
          PROVE  q \in seen' \/ \E s \in report' : s.pid = q
      <4>1. CASE q = p
        BY <3>4, <4>1
      <4>2. CASE q # p
        <5>1. Stays(q) /\ IsRosProcess(world[q].cmd) /\ ~IsShellWrapper(world[q].cmd) /\ q \notin todo
          BY <2>1, <2>2, <3>6, <4>2
        <5>2. q \in seen \/ \E s \in report : s.pid = q
          BY <2>1, <5>1 DEF ShownInv
        <5> QED BY <3>4, <5>2
      <4> QED BY <4>1, <4>2
    <3> QED BY <3>5, <3>6 DEF ShownInv
  <2> QED BY <1>5, <2>3, <2>4, <2>5, <2>6, VisitSteps
<1> QED BY <1>2, <1>3, <1>4, <1>5, LoopSteps

ReportInv == HostInv /\ ForestInv /\ LoopInv /\ NameInv /\ TotalsAreOfTheTree /\ ShownInv

LEMMA SpecReportInv == Spec => []ReportInv
<1>1. Init => ReportInv
  <2> SUFFICES ASSUME Init PROVE ReportInv
    OBVIOUS
  <2>1. /\ pc = "scan" /\ DOMAIN names = {} /\ DOMAIN spaces = {} /\ seen = {} /\ report = {}
    BY DEF Init, Nothing
  <2>2. LoopInv /\ NameInv /\ TotalsAreOfTheTree /\ ShownInv
    BY <2>1 DEF LoopInv, ReportTyped, CycleNeedsReuse, NameInv, TotalsAreOfTheTree, ShownInv
  <2> QED BY <2>2, InitHost DEF ReportInv
<1>2. ReportInv /\ [Next]_vars => ReportInv'
  BY HostInvNext, ForestInvNext, LoopInvNext, NameInvNext, TotalsNext, ShownInvNext DEF ReportInv
<1> QED BY <1>1, <1>2, PTL DEF Spec

-----------------------------------------------------------------------------
\* Type correctness of the scan, the loop and the report, for any processes and commands.
THEOREM ReportTypes == Spec => []TypeOK
<1>1. ReportInv => TypeOK
  <2> SUFFICES ASSUME ReportInv PROVE TypeOK
    OBVIOUS
  <2>1. \A f \in {world, scan, names, spaces} : DOMAIN f \subseteq Pids
    BY DEF ReportInv, HostInv, LoopInv
  <2> QED BY <2>1 DEF ReportInv, HostInv, LoopInv, ReportTyped, TypeOK
<1> QED BY <1>1, SpecReportInv, PTL

\* For any tree that was scanned, however it changes while it is read, a process is reported
\* with each process below it, once, and nothing else (_get_descendants, _aggregate_children).
THEOREM TotalsOfTheTree == Spec => []TotalsAreOfTheTree
<1>1. ReportInv => TotalsAreOfTheTree
  BY DEF ReportInv
<1> QED BY <1>1, SpecReportInv, PTL

\* No node that was scanned and still runs is lost between the loop and the trees: what is in
\* seen_pids (process_collector.py:137) is below a reported process, which lists it unless it
\* is a launch process, could not be read or has no name.  A launch process is reported or
\* counted below another one (process_collector.py:588).
THEOREM NodesAreShown == Spec => []EveryNodeIsShown
<1>1. ReportInv => EveryNodeIsShown
  <2> SUFFICES ASSUME ReportInv, pc = "visit", todo = {}, NEW q \in DOMAIN scan,
                      Stays(q), IsRosProcess(world[q].cmd),
                      ~IsShellWrapper(world[q].cmd)
               PROVE  \E r \in report : IF IsLaunch(world[q].cmd) THEN q \in {r.pid} \cup r.children
                                                                  ELSE Shows(r, q)
    BY DEF EveryNodeIsShown
  <2>1. q \in Pids
    BY DEF ReportInv, HostInv
  <2>2. q \in seen \/ \E r \in report : r.pid = q
    BY <2>1 DEF ReportInv, ShownInv
  <2>3. q \in seen => \E r \in report : q \in r.children
    BY DEF ReportInv, LoopInv
  <2>4. PICK r \in report : r.pid = q \/ q \in r.children
    BY <2>2, <2>3
  <2>5. q \in r.children => Listed(r, q)
    BY <2>1 DEF ReportInv, ShownInv
  <2>6. ~IsLaunch(world[q].cmd) => Shows(r, q)
    BY <2>4, <2>5 DEF Shows, Listed
  <2> QED BY <2>4, <2>6
<1> QED BY <1>1, SpecReportInv, PTL

\* No rule that guesses comes up with an interpreter, for any command line at all.
THEOREM NoInterpreterNamed == Spec => []NameIsNoInterpreter
<1>1. ReportInv => NameIsNoInterpreter
  BY GuessIsNoInterpreter DEF ReportInv, NameInv, NameIsNoInterpreter
<1> QED BY <1>1, SpecReportInv, PTL

\* For any command line at all, a ROS process that is reported without a name has one made of
\* interpreters, options and files named after one, or an empty one, or was given an empty
\* name (_extract_node_name_from_cmdline).
THEOREM ReportedIsNamed == Spec => []RosProcessIsNamed
<1>1. ReportInv => RosProcessIsNamed
  BY NamelessSaysNothing DEF ReportInv, NameInv, RosProcessIsNamed
<1> QED BY <1>1, SpecReportInv, PTL

\* For any number of processes, the recursion of _get_descendants ends unless a pid was taken
\* over during the scan.
THEOREM CyclesNeedReuse == Spec => []CycleNeedsReuse
<1>1. ReportInv => CycleNeedsReuse
  BY DEF ReportInv, LoopInv
<1> QED BY <1>1, SpecReportInv, PTL

============================================================================
