--------------------------- MODULE NetStatsProofs ---------------------------
(***************************************************************************)
(* Theorems about the two backends of NetStatsCollector, for any processes *)
(* and sockets, any traffic and any clock: what is reported was sent, and  *)
(* under what conditions nothing is lost.                                  *)
(***************************************************************************)
EXTENDS NetStatsCollector, FiniteSetTheorems, WellFoundedInduction, TLAPS

-----------------------------------------------------------------------------
\* Sums over finite sets, as MapThenSumSet makes them.

LEMMA NatMin ==
  ASSUME NEW T, T \subseteq Nat, T # {}
  PROVE  \E m \in T : \A n \in T : m <= n
<1> DEFINE less == {pair \in Nat \X Nat : pair[1] < pair[2]}
<1>1. IsWellFoundedOn(less, Nat)
  BY NatLessThanWellFounded DEF OpToRel
<1>2. \A n, m \in Nat : n < m => <<n, m>> \in less
  OBVIOUS
<1> HIDE DEF less
<1>3. PICK m \in T : \A n \in T : ~(<<n, m>> \in less)
  BY <1>1, WFMin
<1>4. ASSUME NEW n \in T PROVE m <= n
  <2>1. n \in Nat /\ m \in Nat
    OBVIOUS
  <2>2. ~(n < m)
    BY <1>2, <1>3, <2>1
  <2> QED BY <2>1, <2>2
<1> QED BY <1>4

\* Induction over the subsets of a finite set: a set that has a subset whenever it has all
\* those with one element less has all of them.
LEMMA SubsetsByOne ==
  ASSUME NEW S, IsFiniteSet(S), NEW G,
         \A s \in SUBSET S : (\A x \in s : s \ {x} \in G) => s \in G
  PROVE  \A s \in SUBSET S : s \in G
<1> SUFFICES ASSUME NEW bad \in SUBSET S, bad \notin G PROVE FALSE
  OBVIOUS
<1> DEFINE T == {Cardinality(s) : s \in {s \in SUBSET S : s \notin G}}
<1>1. \A s \in SUBSET S : IsFiniteSet(s) /\ Cardinality(s) \in Nat
  BY FS_Subset, FS_CardinalityType
<1>2. T \subseteq Nat /\ T # {}
  BY <1>1
<1>3. PICK m \in T : \A n \in T : m <= n
  <2> HIDE DEF T
  <2> QED BY <1>2, NatMin
<1>4. PICK s \in SUBSET S : s \notin G /\ Cardinality(s) = m
  OBVIOUS
<1>5. ASSUME NEW x \in s PROVE s \ {x} \in G
  <2>1. Cardinality(s \ {x}) = Cardinality(s) - 1 /\ s \ {x} \in SUBSET S
    BY <1>1, FS_RemoveElement
  <2>2. Cardinality(s \ {x}) \in Nat /\ Cardinality(s) \in Nat
    BY <1>1, <2>1
  <2>3. ~(Cardinality(s) <= Cardinality(s \ {x}))
    BY <2>1, <2>2
  <2> QED BY <1>3, <1>4, <2>1, <2>3
<1> QED BY <1>4, <1>5

Pick(s) == CHOOSE x \in s : TRUE

Summed(iter, h, S) ==
  iter = [s \in SUBSET S |-> IF s = {} THEN 0 ELSE h[Pick(s)] + iter[s \ {Pick(s)}]]

Sum(h, S) == (CHOOSE iter : Summed(iter, h, S))[S]

LEMMA PickIn == ASSUME NEW s, s # {} PROVE Pick(s) \in s
BY DEF Pick

\* The recursion has a solution.
LEMMA SummedExists ==
  ASSUME NEW S, IsFiniteSet(S), NEW h
  PROVE  \E iter : Summed(iter, h, S)
<1> DEFINE value(g, s) == IF s = {} THEN 0 ELSE h[Pick(s)] + g[s \ {Pick(s)}]
           upto(g, n)  == \A s \in SUBSET S : Cardinality(s) <= n => g[s] = value(g, s)
           bad         == {n \in Nat : ~\E g : upto(g, n)}
<1>1. \A s \in SUBSET S : IsFiniteSet(s) /\ Cardinality(s) \in Nat
  BY FS_Subset, FS_CardinalityType
<1>2. bad = {}
  <2> SUFFICES ASSUME bad # {} PROVE FALSE
    OBVIOUS
  <2>1. PICK m \in bad : \A n \in bad : m <= n
    <3>1. bad \subseteq Nat
      OBVIOUS
    <3> HIDE DEF bad
    <3> QED BY <3>1, NatMin
  <2>2. m \in Nat /\ ~\E g : upto(g, m)
    OBVIOUS
  <2>3. \E g : \A s \in SUBSET S : Cardinality(s) < m => g[s] = value(g, s)
    <3>1. CASE m = 0
      BY <1>1, <3>1
    <3>2. CASE m # 0
      <4>1. m - 1 \in Nat /\ ~(m <= m - 1)
        BY <2>2, <3>2
      <4>2. m - 1 \notin bad
        <5> HIDE DEF bad
        <5> QED BY <2>1, <4>1
      <4>3. PICK g : upto(g, m - 1)
        BY <4>1, <4>2
      <4>4. \A s \in SUBSET S : Cardinality(s) < m => Cardinality(s) <= m - 1
        BY <1>1, <2>2
      <4> QED BY <4>3, <4>4
    <3> QED BY <3>1, <3>2
  <2>4. PICK g : \A s \in SUBSET S : Cardinality(s) < m => g[s] = value(g, s)
    BY <2>3
  <2> DEFINE next == [s \in SUBSET S |-> value(g, s)]
  <2>5. ASSUME NEW s \in SUBSET S, Cardinality(s) <= m PROVE next[s] = value(next, s)
    <3>1. CASE s = {}
      BY <3>1
    <3>2. CASE s # {}
      <4>1. Pick(s) \in s
        BY <3>2, PickIn
      <4>2. s \ {Pick(s)} \in SUBSET S /\ Cardinality(s \ {Pick(s)}) < m
        BY <1>1, <2>2, <2>5, <4>1, FS_RemoveElement
      <4>3. next[s \ {Pick(s)}] = g[s \ {Pick(s)}]
        BY <2>4, <4>2
      <4> QED BY <3>2, <4>3
    <3> QED BY <3>1, <3>2
  <2>6. upto(next, m)
    BY <2>5
  <2> HIDE DEF next, upto
  <2> QED BY <2>2, <2>6
<1>3. PICK g : upto(g, Cardinality(S))
  BY <1>1, <1>2
<1>4. \A s \in SUBSET S : Cardinality(s) <= Cardinality(S)
  BY FS_Subset
<1> DEFINE iter == [s \in SUBSET S |-> g[s]]
<1>5. ASSUME NEW s \in SUBSET S PROVE iter[s] = value(iter, s)
  <2>1. g[s] = value(g, s)
    BY <1>3, <1>4
  <2>2. s \ {Pick(s)} \in SUBSET S
    OBVIOUS
  <2> QED BY <2>1, <2>2
<1>6. Summed(iter, h, S)
  BY <1>5 DEF Summed
<1> QED BY <1>6

LEMMA SumIsSummed ==
  ASSUME NEW S, IsFiniteSet(S), NEW h
  PROVE  Summed(CHOOSE iter : Summed(iter, h, S), h, S)
BY Zenon, SummedExists

LEMMA SummedAgree ==
  ASSUME NEW S, IsFiniteSet(S), NEW T \in SUBSET S, NEW h, NEW f, NEW g,
         Summed(f, h, S), Summed(g, h, T)
  PROVE  f[T] = g[T]
<1> DEFINE G == {s \in SUBSET T : f[s] = g[s]}
<1>1. IsFiniteSet(T)
  BY FS_Subset
<1>2. ASSUME NEW s \in SUBSET T, \A x \in s : s \ {x} \in G PROVE s \in G
  <2>1. s \in SUBSET S /\ s \in SUBSET T
    OBVIOUS
  <2>2. CASE s = {}
    BY <2>1, <2>2 DEF Summed
  <2>3. CASE s # {}
    <3>1. s \ {Pick(s)} \in G
      BY <1>2, <2>3, PickIn
    <3>2. f[s] = h[Pick(s)] + f[s \ {Pick(s)}]
      BY <2>1, <2>3 DEF Summed
    <3>3. g[s] = h[Pick(s)] + g[s \ {Pick(s)}]
      BY <2>1, <2>3 DEF Summed
    <3> QED BY <2>1, <3>1, <3>2, <3>3
  <2> QED BY <2>2, <2>3
<1>3. \A s \in SUBSET T : s \in G
  <2> HIDE DEF G
  <2> QED BY <1>1, <1>2, SubsetsByOne
<1> QED BY <1>3

LEMMA SumEmpty == ASSUME NEW h PROVE Sum(h, {}) = 0
BY SumIsSummed, FS_EmptySet DEF Sum, Summed

LEMMA SumPick ==
  ASSUME NEW S, IsFiniteSet(S), S # {}, NEW h
  PROVE  Sum(h, S) = h[Pick(S)] + Sum(h, S \ {Pick(S)})
<1> DEFINE rest == S \ {Pick(S)}
           f == CHOOSE iter : Summed(iter, h, S)
           g == CHOOSE iter : Summed(iter, h, rest)
<1>1. IsFiniteSet(rest) /\ rest \in SUBSET S
  BY FS_RemoveElement
<1>2. Summed(f, h, S) /\ Summed(g, h, rest)
  BY <1>1, SumIsSummed
<1>3. f[rest] = g[rest]
  <2> HIDE DEF f, g, rest
  <2> QED BY <1>1, <1>2, SummedAgree
<1>4. f[S] = h[Pick(S)] + f[rest]
  <2> HIDE DEF f
  <2> QED BY <1>2 DEF Summed
<1> QED BY <1>3, <1>4 DEF Sum

LEMMA SumNat ==
  ASSUME NEW S, IsFiniteSet(S), NEW h, \A x \in S : h[x] \in Nat
  PROVE  Sum(h, S) \in Nat
<1> DEFINE G == {s \in SUBSET S : Sum(h, s) \in Nat}
<1>1. ASSUME NEW s \in SUBSET S, \A x \in s : s \ {x} \in G PROVE s \in G
  <2>1. CASE s = {}
    BY <2>1, SumEmpty
  <2>2. CASE s # {}
    <3>1. Pick(s) \in s /\ IsFiniteSet(s)
      BY <2>2, PickIn, FS_Subset
    <3>2. Sum(h, s) = h[Pick(s)] + Sum(h, s \ {Pick(s)})
      BY <2>2, <3>1, SumPick
    <3> QED BY <1>1, <3>1, <3>2
  <2> QED BY <2>1, <2>2
<1>2. \A s \in SUBSET S : s \in G
  <2> HIDE DEF G
  <2> QED BY <1>1, SubsetsByOne
<1> QED BY <1>2

\* Any element can be the one that is added last.
LEMMA SumRemove ==
  ASSUME NEW S, IsFiniteSet(S), NEW h, \A x \in S : h[x] \in Nat
  PROVE  \A x \in S : Sum(h, S) = h[x] + Sum(h, S \ {x})
<1> DEFINE G == {s \in SUBSET S : \A x \in s : Sum(h, s) = h[x] + Sum(h, s \ {x})}
<1>1. ASSUME NEW s \in SUBSET S, \A x \in s : s \ {x} \in G PROVE s \in G
  <2> SUFFICES ASSUME NEW x \in s PROVE Sum(h, s) = h[x] + Sum(h, s \ {x})
    OBVIOUS
  <2> DEFINE c == Pick(s)
             both == s \ {x, c}
  <2>1. c \in s
    BY PickIn
  <2>2. IsFiniteSet(s) /\ IsFiniteSet(both) /\ IsFiniteSet(s \ {c})
    BY FS_Subset
  <2>3. Sum(h, s) = h[c] + Sum(h, s \ {c})
    BY <2>2, SumPick
  <2>4. CASE x = c
    BY <2>3, <2>4
  <2>5. CASE x # c
    <3>1. (s \ {c}) \ {x} = both /\ (s \ {x}) \ {c} = both
      OBVIOUS
    <3>2. Sum(h, s \ {c}) = h[x] + Sum(h, both)
      BY <1>1, <2>1, <2>5, <3>1
    <3>3. Sum(h, s \ {x}) = h[c] + Sum(h, both)
      BY <1>1, <2>1, <2>5, <3>1
    <3>4. Sum(h, both) \in Nat /\ h[x] \in Nat /\ h[c] \in Nat
      BY <2>1, <2>2, SumNat
    <3> QED BY <2>3, <3>2, <3>3, <3>4
  <2> QED BY <2>4, <2>5
<1>2. \A s \in SUBSET S : s \in G
  <2> HIDE DEF G
  <2> QED BY <1>1, SubsetsByOne
<1> QED BY <1>2

\* A sum grows with its set and with what is added up.
LEMMA SumMonotonic ==
  ASSUME NEW T, IsFiniteSet(T), NEW S \in SUBSET T, NEW f, NEW g,
         \A x \in T : g[x] \in Nat, \A x \in S : f[x] \in Nat /\ f[x] <= g[x]
  PROVE  Sum(f, S) <= Sum(g, T)
<1> DEFINE G == {t \in SUBSET T : Sum(f, S \cap t) <= Sum(g, t)}
<1>1. ASSUME NEW t \in SUBSET T, \A x \in t : t \ {x} \in G PROVE t \in G
  <2>1. IsFiniteSet(t) /\ IsFiniteSet(S \cap t)
    BY FS_Subset
  <2>2. CASE t = {}
    BY <2>2, SumEmpty
  <2>3. CASE t # {}
    <3>1. PICK x \in t : TRUE
      BY <2>3
    <3>2. Sum(g, t) = g[x] + Sum(g, t \ {x}) /\ Sum(g, t \ {x}) \in Nat /\ g[x] \in Nat
      <4>1. IsFiniteSet(t \ {x})
        BY <2>1, FS_RemoveElement
      <4> QED BY <2>1, <4>1, SumRemove, SumNat
    <3>3. Sum(f, S \cap (t \ {x})) <= Sum(g, t \ {x})
      BY <1>1
    <3>4. Sum(f, S \cap (t \ {x})) \in Nat
      <4>1. IsFiniteSet(S \cap (t \ {x}))
        BY FS_Subset
      <4> QED BY <4>1, SumNat
    <3>5. CASE x \in S
      <4>1. (S \cap t) \ {x} = S \cap (t \ {x}) /\ x \in S \cap t
        BY <3>5
      <4>2. Sum(f, S \cap t) = f[x] + Sum(f, S \cap (t \ {x}))
        BY <2>1, <4>1, SumRemove
      <4> QED BY <3>2, <3>3, <3>4, <3>5, <4>2
    <3>6. CASE x \notin S
      <4>1. S \cap t = S \cap (t \ {x})
        BY <3>6
      <4>2. Sum(f, S \cap t) \in Nat
        BY <3>4, <4>1
      <4>3. Sum(f, S \cap t) <= Sum(g, t)
        BY <3>2, <3>3, <4>1, <4>2
      <4> QED BY <4>3
    <3> QED BY <3>5, <3>6
  <2> QED BY <2>2, <2>3
<1>2. \A t \in SUBSET T : t \in G
  <2> HIDE DEF G
  <2> QED BY <1>1, SubsetsByOne
<1>3. S \cap T = S
  OBVIOUS
<1> QED BY <1>2, <1>3

-----------------------------------------------------------------------------
\* The eBPF backend.

\* What the probes have counted of k and the collector has not turned into a rate: what is
\* in the map; and what was read as well, once it can only be in one of the two.
InFlight(k) ==
  IF pc = "rates" \/ (pc = "clear" /\ k \notin todo)
  THEN Ebpf!At(map, k) + Ebpf!At(result, k)
  ELSE Ebpf!At(map, k)

\* Each entry goes from the map to the result and from there to a rate; in between it is
\* in both, and what the map has more by then is late.
BytesInv ==
  /\ pc \in {"items", "clear"} => todo \subseteq DOMAIN map
  /\ \A k \in Ebpf!Keys :
       /\ reported[k] + dropped[k] + InFlight(k) <= counted[k]
       /\ pc # "raised" => counted[k] <= reported[k] + dropped[k] + InFlight(k) + late[k]
       /\ (pc = "items" /\ k \in todo) => k \notin DOMAIN result
       /\ Ebpf!InWindow(k) =>
            /\ Ebpf!At(result, k) <= Ebpf!At(map, k)
            /\ counted[k] <= reported[k] + dropped[k] + Ebpf!At(result, k) + late[k]

EbpfInv == Ebpf!TypeOK /\ BytesInv /\ Ebpf!ClockRaises

LEMMA AtNat ==
  ASSUME NEW f, \A k \in DOMAIN f : f[k] \in Nat \ {0}, NEW k
  PROVE  Ebpf!At(f, k) \in Nat /\ (k \in DOMAIN f <=> Ebpf!At(f, k) # 0)
BY DEF Ebpf!At

LEMMA TotalOfNat ==
  ASSUME Ebpf!TypeOK, NEW p, NEW d
  PROVE  Ebpf!TotalOf(p, d) \in Nat
<1> DEFINE mine == {k \in DOMAIN result : k[1] = p /\ k[3] = d}
<1>1. Ebpf!TotalOf(p, d) = Sum(result, mine)
  BY Zenon DEF Ebpf!TotalOf, Ebpf!MapThenSumSet, Ebpf!MapThenFoldSet, Sum, Summed, Pick
<1>2. IsFiniteSet(Ebpf!Keys)
  <2> DEFINE pairs == EbpfPids \X Protocols
             three == [q \in pairs \X Directions |-> <<q[1][1], q[1][2], q[2]>>]
  <2>1. IsFiniteSet(pairs \X Directions)
    BY FiniteAssumption, FS_Product
  <2>2. three \in Surjection(pairs \X Directions, Ebpf!Keys)
    <3>1. ASSUME NEW k \in Ebpf!Keys
          PROVE  \E q \in pairs \X Directions : three[q] = k
      <4>1. PICK a \in EbpfPids, b \in Protocols, c \in Directions : k = <<a, b, c>>
        BY DEF Ebpf!Keys
      <4>2. <<<<a, b>>, c>> \in pairs \X Directions /\ three[<<<<a, b>>, c>>] = k
        BY <4>1
      <4> QED BY <4>2
    <3>2. three \in [pairs \X Directions -> Ebpf!Keys]
      BY DEF Ebpf!Keys
    <3> QED BY <3>1, <3>2 DEF Surjection
  <2> QED BY <2>1, <2>2, FS_Surjection
<1>3. IsFiniteSet(mine) /\ \A k \in mine : result[k] \in Nat
  BY <1>2, FS_Subset DEF Ebpf!TypeOK
<1> QED BY <1>1, <1>3, SumNat

LEMMA EbpfInit == Ebpf!Init => EbpfInv
<1> SUFFICES ASSUME Ebpf!Init PROVE EbpfInv
  OBVIOUS
<1>1. Ebpf!TypeOK
  <2>1. DOMAIN Ebpf!Empty = {}
    BY DEF Ebpf!Empty
  <2>2. map = Ebpf!Empty /\ result = Ebpf!Empty /\ lastStats = Ebpf!Empty /\ pc = "idle"
        /\ todo = {} /\ clockSet = FALSE
    BY DEF Ebpf!Init
  <2>3. now \in 1 .. MaxClock /\ last \in 0 .. MaxClock
    BY BoundsAssumption DEF Ebpf!Init
  <2>4. /\ counted \in [Ebpf!Keys -> Nat] /\ reported \in [Ebpf!Keys -> Nat]
        /\ dropped \in [Ebpf!Keys -> Nat] /\ late \in [Ebpf!Keys -> Nat]
    BY DEF Ebpf!Init
  <2> QED BY <2>1, <2>2, <2>3, <2>4 DEF Ebpf!TypeOK
<1>2. BytesInv
  BY DEF Ebpf!Init, BytesInv, InFlight, Ebpf!InWindow, Ebpf!At, Ebpf!Empty
<1>3. Ebpf!ClockRaises
  BY DEF Ebpf!Init, Ebpf!ClockRaises, Ebpf!Empty
<1> QED BY <1>1, <1>2, <1>3 DEF EbpfInv

LEMMA TrafficKeeps == ASSUME EbpfInv, NEW k \in Ebpf!Keys, Ebpf!Traffic(k) PROVE EbpfInv'
<1> USE DEF EbpfInv
<1>0. \A j \in Ebpf!Keys : /\ Ebpf!At(map, j) \in Nat /\ Ebpf!At(result, j) \in Nat
                           /\ counted[j] \in Nat /\ reported[j] \in Nat
                           /\ dropped[j] \in Nat /\ late[j] \in Nat
  BY AtNat DEF Ebpf!TypeOK
<1>1. /\ counted'[k] = counted[k] + 1 /\ \A j \in Ebpf!Keys \ {k} : counted'[j] = counted[j]
      /\ counted' \in [Ebpf!Keys -> Nat]
      /\ UNCHANGED <<pc, todo, result, now, last, lastStats, reported, clockSet>>
  BY DEF Ebpf!Traffic, Ebpf!TypeOK
<1>2. Ebpf!ClockRaises'
  BY <1>1 DEF Ebpf!ClockRaises
<1>3. \A j \in Ebpf!Keys : /\ Ebpf!At(result, j)' = Ebpf!At(result, j)
                           /\ Ebpf!InWindow(j)' <=> Ebpf!InWindow(j)
  BY <1>1 DEF Ebpf!At, Ebpf!InWindow
<1>4. CASE Ebpf!HasRoom(k)
  <2>1. /\ DOMAIN map' = DOMAIN map \cup {k}
        /\ Ebpf!At(map', k) = Ebpf!At(map, k) + 1
        /\ \A j \in Ebpf!Keys \ {k} : Ebpf!At(map', j) = Ebpf!At(map, j)
        /\ \A j \in DOMAIN map' : map'[j] \in Nat \ {0}
    BY <1>0, <1>4 DEF Ebpf!Traffic, Ebpf!At, Ebpf!TypeOK
  <2>2. /\ UNCHANGED dropped
        /\ late' = [late EXCEPT ![k] = IF Ebpf!InWindow(k) THEN @ + 1 ELSE @]
    BY <1>4 DEF Ebpf!Traffic
  <2>3. /\ late'[k] = IF Ebpf!InWindow(k) THEN late[k] + 1 ELSE late[k]
        /\ \A j \in Ebpf!Keys \ {k} : late'[j] = late[j]
        /\ late' \in [Ebpf!Keys -> Nat]
    BY <2>2 DEF Ebpf!TypeOK
  <2>4. Ebpf!TypeOK'
    BY <1>1, <2>1, <2>2, <2>3 DEF Ebpf!TypeOK
  <2>5. pc' \in {"items", "clear"} => todo' \subseteq DOMAIN map'
    BY <1>1, <2>1 DEF BytesInv
  <2>6. Ebpf!At(map, k)' = Ebpf!At(map, k) + 1
        /\ \A j \in Ebpf!Keys \ {k} : Ebpf!At(map, j)' = Ebpf!At(map, j)
    BY <2>1
  <2>7. BytesInv'
    BY <1>0, <1>1, <1>3, <2>2, <2>3, <2>5, <2>6 DEF BytesInv, InFlight, Ebpf!InWindow
  <2> QED BY <1>2, <2>4, <2>7
<1>5. CASE ~Ebpf!HasRoom(k)
  <2>1. /\ UNCHANGED map /\ dropped' = [dropped EXCEPT ![k] = @ + 1]
        /\ late' = [late EXCEPT ![k] = @]
    BY <1>5 DEF Ebpf!Traffic
  <2>2. /\ dropped'[k] = dropped[k] + 1
        /\ \A j \in Ebpf!Keys \ {k} : dropped'[j] = dropped[j]
        /\ dropped' \in [Ebpf!Keys -> Nat] /\ late' = late
    BY <2>1 DEF Ebpf!TypeOK
  <2>3. Ebpf!TypeOK'
    BY <1>1, <2>1, <2>2 DEF Ebpf!TypeOK
  <2>4. \A j \in Ebpf!Keys : Ebpf!At(map, j)' = Ebpf!At(map, j)
    BY <2>1 DEF Ebpf!At
  <2>5. BytesInv'
    BY <1>0, <1>1, <1>3, <2>1, <2>2, <2>4 DEF BytesInv, InFlight, Ebpf!InWindow
  <2> QED BY <1>2, <2>3, <2>5
<1> QED BY <1>4, <1>5

LEMMA ReadKeeps == ASSUME EbpfInv, NEW k \in Ebpf!Keys, Ebpf!ReadEntry(k) PROVE EbpfInv'
<1> USE DEF EbpfInv
<1>1. k \in DOMAIN map /\ map[k] \in Nat \ {0} /\ k \in todo
  BY DEF Ebpf!ReadEntry, BytesInv, Ebpf!TypeOK
<1>2. /\ Ebpf!At(result', k) = Ebpf!At(map, k)
      /\ \A j \in Ebpf!Keys \ {k} : Ebpf!At(result', j) = Ebpf!At(result, j)
      /\ DOMAIN result' = DOMAIN result \cup {k}
      /\ \A j \in DOMAIN result' : result'[j] \in Nat \ {0}
  BY <1>1 DEF Ebpf!ReadEntry, Ebpf!At, Ebpf!TypeOK
<1>3. Ebpf!TypeOK'
  BY <1>2 DEF Ebpf!ReadEntry, Ebpf!TypeOK
<1>4. BytesInv'
  <2>1. /\ UNCHANGED <<map, pc, reported, counted, dropped, late>> /\ pc = "items"
        /\ todo' = todo \ {k}
    BY DEF Ebpf!ReadEntry
  <2>2. \A j \in Ebpf!Keys : Ebpf!At(map, j)' = Ebpf!At(map, j) /\ Ebpf!At(map, j) \in Nat
    BY <2>1, AtNat DEF Ebpf!At, Ebpf!TypeOK
  <2>3. Ebpf!At(result, k)' = Ebpf!At(map, k)
        /\ \A j \in Ebpf!Keys \ {k} : Ebpf!At(result, j)' = Ebpf!At(result, j)
    BY <1>2
  <2>4. \A j \in Ebpf!Keys : /\ counted[j] \in Nat /\ reported[j] \in Nat
                             /\ dropped[j] \in Nat /\ late[j] \in Nat
    BY DEF Ebpf!TypeOK
  <2> QED BY <1>2, <2>1, <2>2, <2>3, <2>4 DEF BytesInv, InFlight, Ebpf!InWindow
<1>5. Ebpf!ClockRaises'
  BY DEF Ebpf!ReadEntry, Ebpf!ClockRaises
<1> QED BY <1>3, <1>4, <1>5

LEMMA ClearKeeps == ASSUME EbpfInv, NEW k \in Ebpf!Keys, Ebpf!ClearEntry(k) PROVE EbpfInv'
<1> USE DEF EbpfInv
<1>1. /\ Ebpf!At(map', k) = 0
      /\ \A j \in Ebpf!Keys \ {k} : Ebpf!At(map', j) = Ebpf!At(map, j)
      /\ DOMAIN map' = DOMAIN map \ {k}
      /\ \A j \in DOMAIN map' : map'[j] \in Nat \ {0}
  BY DEF Ebpf!ClearEntry, Ebpf!At, Ebpf!TypeOK
<1>2. Ebpf!TypeOK'
  BY <1>1 DEF Ebpf!ClearEntry, Ebpf!TypeOK
<1>3. BytesInv'
  <2>1. /\ UNCHANGED <<result, pc, reported, counted, dropped, late>> /\ pc = "clear" /\ k \in todo
        /\ todo' = todo \ {k}
    BY DEF Ebpf!ClearEntry
  <2>2. \A j \in Ebpf!Keys : /\ Ebpf!At(result, j)' = Ebpf!At(result, j)
                             /\ Ebpf!At(result, j) \in Nat /\ Ebpf!At(map, j) \in Nat
                             /\ reported[j] \in Nat /\ counted[j] \in Nat
                           /\ dropped[j] \in Nat /\ late[j] \in Nat
    BY <2>1, AtNat DEF Ebpf!At, Ebpf!TypeOK
  <2>3. Ebpf!At(map, k)' = 0
        /\ \A j \in Ebpf!Keys \ {k} : Ebpf!At(map, j)' = Ebpf!At(map, j)
    BY <1>1
  <2> QED BY <1>1, <2>1, <2>2, <2>3 DEF BytesInv, InFlight, Ebpf!InWindow
<1>4. Ebpf!ClockRaises'
  BY DEF Ebpf!ClearEntry, Ebpf!ClockRaises
<1> QED BY <1>2, <1>3, <1>4

LEMMA CollectKeeps ==
  ASSUME EbpfInv, Ebpf!StartItems \/ Ebpf!StartClear \/ Ebpf!EndCollect
  PROVE  EbpfInv'
<1> USE DEF EbpfInv
<1>0. \A j \in Ebpf!Keys : /\ Ebpf!At(result, j) \in Nat /\ Ebpf!At(map, j) \in Nat
                           /\ j \in DOMAIN map <=> Ebpf!At(map, j) # 0
                           /\ counted[j] \in Nat /\ reported[j] \in Nat
                           /\ dropped[j] \in Nat /\ late[j] \in Nat
  BY AtNat DEF Ebpf!TypeOK
<1>1. CASE Ebpf!StartItems
  <2>1. Ebpf!TypeOK' /\ Ebpf!ClockRaises'
    BY <1>1 DEF Ebpf!StartItems, Ebpf!TypeOK, Ebpf!ClockRaises, Ebpf!Empty
  <2>2. \A j \in Ebpf!Keys : Ebpf!At(result, j)' = 0 /\ Ebpf!At(map, j)' = Ebpf!At(map, j)
    BY <1>1 DEF Ebpf!StartItems, Ebpf!At, Ebpf!Empty
  <2>3. DOMAIN result' = {}
    BY <1>1 DEF Ebpf!StartItems, Ebpf!Empty
  <2>4. BytesInv'
    BY <1>0, <1>1, <2>2, <2>3 DEF Ebpf!StartItems, BytesInv, InFlight, Ebpf!InWindow
  <2> QED BY <2>1, <2>4
<1>2. CASE Ebpf!StartClear
  <2>1. Ebpf!TypeOK' /\ Ebpf!ClockRaises'
    BY <1>2 DEF Ebpf!StartClear, Ebpf!ToClear, Ebpf!TypeOK, Ebpf!ClockRaises
  <2>2. \A j \in Ebpf!Keys : /\ Ebpf!At(result, j)' = Ebpf!At(result, j)
                             /\ Ebpf!At(map, j)' = Ebpf!At(map, j)
    BY <1>2 DEF Ebpf!StartClear, Ebpf!At
  <2>3. /\ pc = "items" /\ todo = {} /\ pc' = "clear" /\ todo' = DOMAIN map
        /\ UNCHANGED <<map, result, reported, counted, dropped, late>>
    BY <1>2 DEF Ebpf!StartClear, Ebpf!ToClear
  <2>4. \A j \in Ebpf!Keys :
          /\ Ebpf!At(result, j) <= Ebpf!At(map, j)
          /\ counted[j] <= reported[j] + dropped[j] + Ebpf!At(result, j) + late[j]
    BY <2>3 DEF BytesInv, Ebpf!InWindow
  <2>5. \A j \in Ebpf!Keys : j \notin todo' => Ebpf!At(map, j) = 0 /\ Ebpf!At(result, j) = 0
    BY <1>0, <2>3, <2>4
  <2>6. BytesInv'
    BY <1>0, <2>2, <2>3, <2>4, <2>5 DEF BytesInv, InFlight, Ebpf!InWindow
  <2> QED BY <2>1, <2>6
<1>3. CASE Ebpf!EndCollect
  <2>1. Ebpf!TypeOK' /\ Ebpf!ClockRaises'
    BY <1>3 DEF Ebpf!EndCollect, Ebpf!TypeOK, Ebpf!ClockRaises
  <2>2. \A j \in Ebpf!Keys : /\ Ebpf!At(result, j)' = Ebpf!At(result, j)
                             /\ Ebpf!At(map, j)' = Ebpf!At(map, j)
    BY <1>3 DEF Ebpf!EndCollect, Ebpf!At
  <2>3. BytesInv'
    BY <1>3, <2>2 DEF Ebpf!EndCollect, BytesInv, InFlight, Ebpf!InWindow
  <2> QED BY <2>1, <2>3
<1> QED BY <1>1, <1>2, <1>3

LEMMA RatesKeep == ASSUME EbpfInv, Ebpf!Rates PROVE EbpfInv'
<1> USE DEF EbpfInv
<1>0. /\ now \in Nat /\ last \in Nat /\ pc = "rates" /\ last' = now
      /\ clockSet' \in BOOLEAN /\ (~clockSet' => ~clockSet /\ now > last)
      /\ UNCHANGED <<map, todo, result, now, counted, dropped, late>>
  <2>1. now \in Nat /\ last \in Nat /\ clockSet \in BOOLEAN
    BY DEF Ebpf!TypeOK
  <2>2. /\ pc = "rates" /\ last' = now /\ clockSet' = (clockSet \/ now <= last)
        /\ UNCHANGED <<map, todo, result, now, counted, dropped, late>>
    BY DEF Ebpf!Rates
  <2>3. clockSet' \in BOOLEAN /\ (~clockSet' => ~clockSet /\ ~(now <= last))
    BY Zenon, <2>1, <2>2
  <2> QED BY <2>1, <2>2, <2>3
<1>1. Ebpf!Elapsed \in Int /\ (now > last => Ebpf!Elapsed > 0)
  BY <1>0 DEF Ebpf!Elapsed
<1>2. \A j \in Ebpf!Keys : /\ Ebpf!At(result, j)' = Ebpf!At(result, j)
                           /\ Ebpf!At(map, j)' = Ebpf!At(map, j)
                           /\ Ebpf!At(result, j) \in Nat /\ Ebpf!At(map, j) \in Nat
                           /\ reported[j] \in Nat /\ counted[j] \in Nat
                           /\ dropped[j] \in Nat /\ late[j] \in Nat
  BY <1>0, AtNat DEF Ebpf!At, Ebpf!TypeOK
<1>3. CASE Ebpf!Elapsed = 0 /\ result # Ebpf!Empty
  <2>1. pc' = "raised" /\ UNCHANGED <<lastStats, reported>>
    BY <1>3 DEF Ebpf!Rates
  <2>2. Ebpf!TypeOK' /\ Ebpf!ClockRaises'
    BY <1>0, <1>1, <1>3, <2>1 DEF Ebpf!TypeOK, Ebpf!ClockRaises
  <2>3. BytesInv'
    BY <1>0, <1>2, <2>1 DEF BytesInv, InFlight, Ebpf!InWindow
  <2> QED BY <2>2, <2>3
<1>4. CASE ~(Ebpf!Elapsed = 0 /\ result # Ebpf!Empty)
  <2>1. /\ pc' = "idle"
        /\ lastStats' = [p \in {k[1] : k \in DOMAIN result} |->
                           [bytes |-> [d \in Directions |-> Ebpf!TotalOf(p, d)],
                            per |-> Ebpf!Elapsed]]
        /\ reported' = [k \in Ebpf!Keys |-> reported[k] + Ebpf!At(result, k)]
    BY <1>4 DEF Ebpf!Rates
  <2>2. /\ DOMAIN lastStats' \subseteq EbpfPids
        /\ \A p \in DOMAIN lastStats' :
             /\ lastStats'[p] \in [bytes : [Directions -> Nat], per : Int]
             /\ lastStats'[p].per = Ebpf!Elapsed
    <3>1. \A p, d : Ebpf!TotalOf(p, d) \in Nat
      BY TotalOfNat
    <3>2. {k[1] : k \in DOMAIN result} \subseteq EbpfPids
      BY DEF Ebpf!TypeOK, Ebpf!Keys
    <3> QED BY <1>1, <2>1, <3>1, <3>2
  <2>3. Ebpf!TypeOK'
    <3>1. pc' \in {"idle", "items", "clear", "rates", "raised"} /\ last' \in 0 .. MaxClock
      BY <1>0, <2>1 DEF Ebpf!TypeOK
    <3>2. reported' \in [Ebpf!Keys -> Nat]
      BY <1>2, <2>1
    <3> QED BY <1>0, <2>2, <3>1, <3>2 DEF Ebpf!TypeOK
  <2>4. Ebpf!ClockRaises'
    BY <1>0, <1>1, <2>1, <2>2 DEF Ebpf!ClockRaises
  <2>5. BytesInv'
    BY <1>0, <1>2, <2>1 DEF BytesInv, InFlight, Ebpf!InWindow
  <2> QED BY <2>3, <2>4, <2>5
<1> QED BY <1>3, <1>4

LEMMA EbpfNext == ASSUME EbpfInv, Ebpf!Next PROVE EbpfInv'
<1>1. ASSUME NEW t \in 1 .. MaxClock, Ebpf!Clock(t) PROVE EbpfInv'
  <2>1. Ebpf!TypeOK' /\ Ebpf!ClockRaises'
    BY <1>1 DEF EbpfInv, Ebpf!Clock, Ebpf!TypeOK, Ebpf!ClockRaises
  <2>2. BytesInv'
    BY <1>1 DEF EbpfInv, Ebpf!Clock, BytesInv, InFlight, Ebpf!InWindow, Ebpf!At
  <2> QED BY <2>1, <2>2 DEF EbpfInv
<1> QED BY <1>1, TrafficKeeps, ReadKeeps, ClearKeeps, CollectKeeps, RatesKeep DEF Ebpf!Next

-----------------------------------------------------------------------------
\* The ss backend.

SsTyped ==
  /\ Ss!TypeOK
  /\ \A p \in DOMAIN prev : /\ prev[p].time \in Nat /\ prev[p].value \in Nat
                            /\ prev[p].time <= ssNow
  /\ sent \in [Pids -> Nat] /\ ssReported \in [Pids -> Nat]

Owned(p) == {s \in Socks : owner[s] = p}

\* What a process that closed no socket has sent is in the counters of the sockets it
\* holds; what was reported for it is at most what was parsed last, and that can only grow.
SsTraffic ==
  /\ \A s \in Socks : owner[s] = NoPid => acked[s] = 0 /\ s \notin received
  /\ \A p \in Pids \ closed :
       /\ Sum(acked, Owned(p)) = sent[p]
       /\ ssReported[p] <= Ss!Total(p)
       /\ p \in DOMAIN prev => ssReported[p] <= prev[p].value /\ prev[p].value <= Ss!Total(p)

SsInv == SsTyped /\ Ss!SamplesOfLastSeen /\ SsTraffic

LEMMA AckedNat ==
  ASSUME Ss!TypeOK
  PROVE  \A s \in Socks : acked[s] \in Nat
BY BoundsAssumption DEF Ss!TypeOK

LEMMA SocksFinite ==
  ASSUME NEW S \in SUBSET Socks
  PROVE  IsFiniteSet(S)
BY FiniteAssumption, FS_Subset

LEMMA TotalIsSum == ASSUME NEW p PROVE Ss!Total(p) = Sum(acked, Ss!Parsed(p))
BY Zenon DEF Ss!Total, Ss!MapThenSumSet, Ss!MapThenFoldSet, Sum, Summed, Pick

LEMMA ParsedOwned == ASSUME Ss!TypeOK, NEW p PROVE Ss!Parsed(p) \subseteq Owned(p)
BY DEF Ss!Parsed, Owned, Ss!TypeOK

LEMMA TotalNat == ASSUME Ss!TypeOK, NEW p PROVE Ss!Total(p) \in Nat
<1>1. Ss!Parsed(p) \in SUBSET Socks
  BY ParsedOwned DEF Owned
<1>2. IsFiniteSet(Ss!Parsed(p)) /\ \A s \in Ss!Parsed(p) : acked[s] \in Nat
  BY <1>1, SocksFinite, AckedNat
<1>3. Sum(acked, Ss!Parsed(p)) \in Nat
  BY <1>2, SumNat
<1> QED BY <1>3, TotalIsSum

\* No more is parsed for a process than it has sent.
LEMMA TotalAtMostSent ==
  ASSUME SsTyped, SsTraffic, NEW p \in Pids \ closed
  PROVE  Ss!Total(p) <= sent[p]
<1>1. Ss!TypeOK /\ Ss!Parsed(p) \in SUBSET Owned(p) /\ Owned(p) \in SUBSET Socks
  BY ParsedOwned DEF Owned, SsTyped
<1>2. IsFiniteSet(Owned(p)) /\ \A s \in Owned(p) : acked[s] \in Nat
  BY <1>1, SocksFinite, AckedNat
<1>3. \A s \in Ss!Parsed(p) : acked[s] \in Nat /\ acked[s] <= acked[s]
  BY <1>1, <1>2
<1>4. Sum(acked, Ss!Parsed(p)) <= Sum(acked, Owned(p))
  BY <1>1, <1>2, <1>3, SumMonotonic
<1> QED BY <1>4, TotalIsSum DEF SsTraffic

LEMMA TotalGrows ==
  ASSUME Ss!TypeOK, Ss!TypeOK', NEW p, Ss!Parsed(p) \subseteq Ss!Parsed(p)',
         \A s \in Ss!Parsed(p) : acked[s] <= acked'[s]
  PROVE  Ss!Total(p) <= Ss!Total(p)' /\ Ss!Total(p)' \in Nat
<1>1. Ss!Total(p)' = Sum(acked', Ss!Parsed(p)')
  BY Zenon DEF Ss!Total, Ss!MapThenSumSet, Ss!MapThenFoldSet, Sum, Summed, Pick
<1>2. Ss!Parsed(p)' \in SUBSET Socks /\ Ss!Parsed(p) \in SUBSET Ss!Parsed(p)'
  BY DEF Ss!Parsed, Ss!TypeOK
<1>3. \A s \in Socks : acked[s] \in Nat /\ acked'[s] \in Nat
  BY BoundsAssumption DEF Ss!TypeOK
<1>4. IsFiniteSet(Ss!Parsed(p)') /\ \A s \in Ss!Parsed(p)' : acked'[s] \in Nat
  BY <1>2, <1>3, SocksFinite
<1>5. \A s \in Ss!Parsed(p) : acked[s] \in Nat /\ acked[s] <= acked'[s]
  BY <1>2, <1>3
<1>6. Sum(acked, Ss!Parsed(p)) <= Sum(acked', Ss!Parsed(p)')
  BY <1>2, <1>4, <1>5, SumMonotonic
<1>7. Sum(acked', Ss!Parsed(p)') \in Nat
  BY <1>4, SumNat
<1> QED BY <1>1, <1>6, <1>7, TotalIsSum

\* A step of the host keeps the invariant when, for the processes that have closed no
\* socket, what is parsed only grows and the sums of the counters follow what was sent.
LEMMA HostKeeps ==
  ASSUME SsInv, SsTyped',
         UNCHANGED <<prev, lastSeen, ssReported>>, closed \subseteq closed',
         \A s \in Socks : owner'[s] = NoPid => acked'[s] = 0 /\ s \notin received',
         \A p \in Pids \ closed' : /\ Ss!Parsed(p) \subseteq Ss!Parsed(p)'
                                   /\ \A s \in Ss!Parsed(p) : acked[s] <= acked'[s]
                                   /\ Sum(acked', Owned(p)') = sent'[p]
  PROVE  SsInv'
<1>1. Ss!TypeOK /\ Ss!TypeOK'
  BY DEF SsInv, SsTyped
<1>2. Ss!SamplesOfLastSeen'
  BY DEF SsInv, Ss!SamplesOfLastSeen
<1>3. ASSUME NEW p \in Pids \ closed' PROVE
        /\ ssReported'[p] <= Ss!Total(p)'
        /\ p \in DOMAIN prev' => ssReported'[p] <= prev'[p].value /\ prev'[p].value <= Ss!Total(p)'
  <2>1. Ss!Total(p) <= Ss!Total(p)' /\ Ss!Total(p)' \in Nat
    BY <1>1, TotalGrows
  <2>2. Ss!Total(p) \in Nat
    BY <1>1, TotalNat
  <2>3. p \in Pids \ closed /\ ssReported[p] \in Nat /\ (p \in DOMAIN prev => prev[p].value \in Nat)
    BY DEF SsInv, SsTyped
  <2>4. /\ ssReported[p] <= Ss!Total(p)
        /\ p \in DOMAIN prev => ssReported[p] <= prev[p].value /\ prev[p].value <= Ss!Total(p)
    BY <2>3 DEF SsInv, SsTraffic
  <2> QED BY <2>1, <2>2, <2>3, <2>4
<1>4. SsTraffic'
  BY <1>3 DEF SsTraffic
<1> QED BY <1>2, <1>4 DEF SsInv

LEMMA SsInitInv == Ss!Init => SsInv
<1> SUFFICES ASSUME Ss!Init PROVE SsInv
  OBVIOUS
<1>1. DOMAIN Ss!Nothing = {}
  BY DEF Ss!Nothing
<1>2. SsTyped
  BY <1>1, BoundsAssumption DEF Ss!Init, SsTyped, Ss!TypeOK
<1>3. Ss!SamplesOfLastSeen
  BY <1>1 DEF Ss!Init, Ss!SamplesOfLastSeen
<1>4. ASSUME NEW p \in Pids PROVE Sum(acked, Owned(p)) = 0 /\ Ss!Total(p) = 0
  <2>1. Owned(p) = {} /\ Ss!Parsed(p) = {}
    BY NoPidAssumption DEF Owned, Ss!Parsed, Ss!Init
  <2> QED BY <2>1, SumEmpty, TotalIsSum
<1>5. SsTraffic
  BY <1>1, <1>4 DEF SsTraffic, Ss!Init
<1> QED BY <1>2, <1>3, <1>5 DEF SsInv

LEMMA SumSame ==
  ASSUME NEW S, IsFiniteSet(S), NEW f, NEW g,
         \A x \in S : f[x] \in Nat /\ g[x] = f[x]
  PROVE  Sum(g, S) = Sum(f, S)
<1>1. Sum(f, S) <= Sum(g, S) /\ Sum(g, S) <= Sum(f, S)
  BY SumMonotonic
<1>2. Sum(f, S) \in Nat /\ Sum(g, S) \in Nat
  BY SumNat
<1> QED BY <1>1, <1>2

LEMMA OpenKeeps ==
  ASSUME SsInv, NEW s \in Socks, NEW q \in Pids, Ss!OpenSocket(s, q)
  PROVE  SsInv'
<1>1. Ss!TypeOK /\ acked[s] = 0 /\ s \notin received /\ q # NoPid
  BY NoPidAssumption DEF SsInv, SsTyped, SsTraffic, Ss!OpenSocket
<1>2. /\ UNCHANGED <<acked, received, ssNow, prev, lastSeen, ssStats, sent, ssReported, closed>>
      /\ owner' \in [Socks -> Pids \cup {NoPid}] /\ owner[s] = NoPid /\ owner'[s] = q
      /\ \A r \in Socks \ {s} : owner'[r] = owner[r]
  BY <1>1 DEF Ss!OpenSocket, Ss!collectorVars, Ss!TypeOK
<1>3. SsTyped'
  BY <1>2 DEF SsInv, SsTyped, Ss!TypeOK
<1>4. \A r \in Socks : owner'[r] = NoPid => acked'[r] = 0 /\ r \notin received'
  BY <1>1, <1>2 DEF SsInv, SsTraffic
<1>5. ASSUME NEW p \in Pids \ closed' PROVE
        /\ Ss!Parsed(p) \subseteq Ss!Parsed(p)'
        /\ \A r \in Ss!Parsed(p) : acked[r] <= acked'[r]
        /\ Sum(acked', Owned(p)') = sent'[p]
  <2>1. Ss!Parsed(p) \subseteq Ss!Parsed(p)'
    BY <1>1, <1>2 DEF Ss!Parsed, Ss!TypeOK
  <2>2. \A r \in Ss!Parsed(p) : acked[r] <= acked'[r]
    BY <1>1, <1>2, AckedNat DEF Ss!Parsed, Ss!TypeOK
  <2>3. Sum(acked, Owned(p)) = sent[p]
    BY <1>2 DEF SsInv, SsTraffic
  <2>4. CASE p = q
    <3>1. Owned(p)' = Owned(p) \cup {s} /\ s \notin Owned(p) /\ Owned(p)' \subseteq Socks
      BY <1>1, <1>2, <2>4 DEF Owned
    <3>2. IsFiniteSet(Owned(p)') /\ \A r \in Owned(p)' : acked[r] \in Nat
      BY <1>1, <3>1, SocksFinite, AckedNat
    <3>3. Owned(p)' \ {s} = Owned(p) /\ s \in Owned(p)'
      BY <3>1
    <3>4. Sum(acked, Owned(p)') = acked[s] + Sum(acked, Owned(p))
      <4> DEFINE O == Owned(p)'
      <4>1. Sum(acked, O) = acked[s] + Sum(acked, O \ {s})
        <5> HIDE DEF O
        <5>1. IsFiniteSet(O) /\ s \in O /\ \A r \in O : acked[r] \in Nat
          BY <3>2, <3>3 DEF O
        <5> QED BY <5>1, SumRemove
      <4> QED BY <4>1, <3>3
    <3>5. sent[p] \in Nat
      BY DEF SsInv, SsTyped
    <3> QED BY <1>1, <1>2, <2>1, <2>2, <2>3, <3>4, <3>5
  <2>5. CASE p # q
    <3>1. Owned(p)' = Owned(p)
      BY <1>2, <2>5, NoPidAssumption DEF Owned
    <3> QED BY <1>2, <2>1, <2>2, <2>3, <3>1
  <2> QED BY <2>4, <2>5
<1> QED BY <1>2, <1>3, <1>4, <1>5, HostKeeps

LEMMA SendKeeps ==
  ASSUME SsInv, NEW s \in Socks, Ss!Send(s)
  PROVE  SsInv'
<1> DEFINE q == owner[s]
<1>1. Ss!TypeOK /\ q \in Pids /\ sent \in [Pids -> Nat]
  BY DEF SsInv, SsTyped, Ss!Send, Ss!TypeOK
<1>2. /\ UNCHANGED <<owner, received, ssNow, prev, lastSeen, ssStats, ssReported, closed>>
      /\ acked[s] < MaxBytes
      /\ acked' = [acked EXCEPT ![s] = @ + 1]
      /\ sent' = [sent EXCEPT ![q] = @ + 1]
  BY DEF Ss!Send, Ss!collectorVars
<1>3. /\ acked' \in [Socks -> 0 .. MaxBytes] /\ acked'[s] = acked[s] + 1
      /\ \A r \in Socks \ {s} : acked'[r] = acked[r]
  BY <1>1, <1>2, BoundsAssumption DEF Ss!TypeOK
<1>4. /\ sent' \in [Pids -> Nat] /\ sent'[q] = sent[q] + 1
      /\ \A p \in Pids \ {q} : sent'[p] = sent[p]
  BY <1>1, <1>2
<1>5. SsTyped'
  BY <1>2, <1>3, <1>4 DEF SsInv, SsTyped, Ss!TypeOK
<1>6. \A r \in Socks : owner'[r] = NoPid => acked'[r] = 0 /\ r \notin received'
  BY <1>1, <1>2, <1>3, NoPidAssumption DEF SsInv, SsTraffic
<1>7. \A r \in Socks : acked[r] \in Nat /\ acked'[r] \in Nat /\ acked[r] <= acked'[r]
  BY <1>1, <1>3, AckedNat
<1>8. ASSUME NEW p \in Pids \ closed' PROVE
        /\ Ss!Parsed(p) \subseteq Ss!Parsed(p)'
        /\ \A r \in Ss!Parsed(p) : acked[r] <= acked'[r]
        /\ Sum(acked', Owned(p)') = sent'[p]
  <2>1. Ss!Parsed(p) \subseteq Ss!Parsed(p)' /\ Ss!Parsed(p) \subseteq Socks
    BY <1>1, <1>2, <1>3, <1>7 DEF Ss!Parsed, Ss!TypeOK
  <2>2. Sum(acked, Owned(p)) = sent[p] /\ Owned(p)' = Owned(p) /\ Owned(p) \in SUBSET Socks
    BY <1>2 DEF SsInv, SsTraffic, Owned
  <2>3. /\ IsFiniteSet(Owned(p)) /\ IsFiniteSet(Owned(p) \ {s})
        /\ \A r \in Owned(p) : acked[r] \in Nat /\ acked'[r] \in Nat
    BY <1>7, <2>2, SocksFinite
  <2>4. CASE p = q
    <3>1. s \in Owned(p)
      BY <2>4 DEF Owned
    <3>2. Sum(acked, Owned(p)) = acked[s] + Sum(acked, Owned(p) \ {s})
      BY <2>3, <3>1, SumRemove
    <3>3. Sum(acked', Owned(p)) = acked'[s] + Sum(acked', Owned(p) \ {s})
      BY <2>3, <3>1, SumRemove
    <3>4. Sum(acked', Owned(p) \ {s}) = Sum(acked, Owned(p) \ {s})
      <4>1. \A r \in Owned(p) \ {s} : acked[r] \in Nat /\ acked'[r] = acked[r]
        BY <1>3, <2>2, <2>3
      <4> QED BY <2>3, <4>1, SumSame
    <3>5. Sum(acked, Owned(p) \ {s}) \in Nat
      BY <2>3, SumNat
    <3> QED BY <1>3, <1>4, <1>7, <2>1, <2>2, <2>4, <3>2, <3>3, <3>4, <3>5
  <2>5. CASE p # q
    <3>1. \A r \in Owned(p) : acked[r] \in Nat /\ acked'[r] = acked[r]
      BY <1>3, <2>2, <2>3, <2>5 DEF Owned
    <3>2. Sum(acked', Owned(p)) = Sum(acked, Owned(p))
      BY <2>3, <3>1, SumSame
    <3> QED BY <1>4, <1>7, <2>1, <2>2, <2>5, <3>2
  <2> QED BY <2>4, <2>5
<1> QED BY <1>2, <1>5, <1>6, <1>8, HostKeeps

LEMMA ReceiveKeeps ==
  ASSUME SsInv, NEW s \in Socks, Ss!ReceiveFirst(s)
  PROVE  SsInv'
<1>1. /\ UNCHANGED <<owner, acked, ssNow, prev, lastSeen, ssStats, sent, ssReported, closed>>
      /\ owner[s] # NoPid /\ received' = received \cup {s}
  BY DEF Ss!ReceiveFirst, Ss!collectorVars
<1>2. Ss!TypeOK
  BY DEF SsInv, SsTyped
<1>3. SsTyped'
  BY <1>1 DEF SsInv, SsTyped, Ss!TypeOK
<1>4. \A r \in Socks : owner'[r] = NoPid => acked'[r] = 0 /\ r \notin received'
  BY <1>1 DEF SsInv, SsTraffic
<1>5. ASSUME NEW p \in Pids \ closed' PROVE
        /\ Ss!Parsed(p) \subseteq Ss!Parsed(p)'
        /\ \A r \in Ss!Parsed(p) : acked[r] <= acked'[r]
        /\ Sum(acked', Owned(p)') = sent'[p]
  <2>1. Ss!Parsed(p) \subseteq Ss!Parsed(p)' /\ Owned(p)' = Owned(p)
    BY <1>1 DEF Ss!Parsed, Owned
  <2>2. \A r \in Ss!Parsed(p) : acked[r] \in Nat /\ acked'[r] = acked[r]
    BY <1>1, <1>2, AckedNat DEF Ss!Parsed, Ss!TypeOK
  <2>3. Sum(acked, Owned(p)) = sent[p]
    BY <1>1 DEF SsInv, SsTraffic
  <2> QED BY <1>1, <2>1, <2>2, <2>3
<1> QED BY <1>1, <1>3, <1>4, <1>5, HostKeeps

LEMMA CloseKeeps ==
  ASSUME SsInv, NEW s \in Socks, Ss!CloseSocket(s)
  PROVE  SsInv'
<1> DEFINE q == owner[s]
<1>1. Ss!TypeOK /\ q \in Pids
  BY DEF SsInv, SsTyped, Ss!CloseSocket, Ss!TypeOK
<1>2. /\ UNCHANGED <<ssNow, prev, lastSeen, ssStats, sent, ssReported>>
      /\ received' = received \ {s} /\ closed' = closed \cup {q}
      /\ owner' = [owner EXCEPT ![s] = NoPid] /\ acked' = [acked EXCEPT ![s] = 0]
  BY DEF Ss!CloseSocket, Ss!collectorVars
<1>3. /\ owner' \in [Socks -> Pids \cup {NoPid}] /\ owner'[s] = NoPid
      /\ acked' \in [Socks -> 0 .. MaxBytes] /\ acked'[s] = 0
      /\ \A r \in Socks \ {s} : owner'[r] = owner[r] /\ acked'[r] = acked[r]
  BY <1>1, <1>2, BoundsAssumption DEF Ss!TypeOK
<1>4. SsTyped'
  BY <1>1, <1>2, <1>3 DEF SsInv, SsTyped, Ss!TypeOK
<1>5. \A r \in Socks : owner'[r] = NoPid => acked'[r] = 0 /\ r \notin received'
  BY <1>2, <1>3 DEF SsInv, SsTraffic
<1>6. ASSUME NEW p \in Pids \ closed' PROVE
        /\ Ss!Parsed(p) \subseteq Ss!Parsed(p)'
        /\ \A r \in Ss!Parsed(p) : acked[r] <= acked'[r]
        /\ Sum(acked', Owned(p)') = sent'[p]
  <2>1. p # q /\ p \in Pids \ closed /\ p # NoPid
    BY <1>2, NoPidAssumption
  <2>2. /\ Owned(p)' = Owned(p) /\ Owned(p) \in SUBSET Socks /\ s \notin Owned(p)
        /\ Ss!Parsed(p) \subseteq Owned(p)
    BY <1>1, <1>3, <2>1, ParsedOwned DEF Owned
  <2>3. \A r \in Owned(p) : acked[r] \in Nat /\ acked'[r] = acked[r]
    BY <1>1, <1>3, <2>2, AckedNat
  <2>4. Ss!Parsed(p) \subseteq Ss!Parsed(p)'
    BY <1>2, <1>3, <2>2, <2>3 DEF Ss!Parsed
  <2>5. Sum(acked', Owned(p)) = Sum(acked, Owned(p))
    BY <2>2, <2>3, SocksFinite, SumSame
  <2>6. \A r \in Ss!Parsed(p) : acked[r] <= acked'[r]
    BY <2>2, <2>3
  <2> QED BY <1>2, <2>1, <2>2, <2>4, <2>5, <2>6 DEF SsInv, SsTraffic
<1> QED BY <1>2, <1>4, <1>5, <1>6, HostKeeps

LEMMA TotalSame ==
  ASSUME UNCHANGED <<owner, acked, received>>, NEW p
  PROVE  Ss!Total(p)' = Ss!Total(p)
<1>1. Ss!Total(p)' = Sum(acked', Ss!Parsed(p)')
  BY Zenon DEF Ss!Total, Ss!MapThenSumSet, Ss!MapThenFoldSet, Sum, Summed, Pick
<1>2. Ss!Parsed(p)' = Ss!Parsed(p) /\ acked' = acked
  BY DEF Ss!Parsed
<1> QED BY <1>1, <1>2, TotalIsSum

LEMMA TickKeeps == ASSUME SsInv, Ss!Tick PROVE SsInv'
<1>1. /\ UNCHANGED <<owner, acked, received, prev, lastSeen, ssStats, sent, ssReported, closed>>
      /\ ssNow \in Nat /\ ssNow < MaxClock /\ ssNow' = ssNow + 1
  BY BoundsAssumption DEF Ss!Tick, Ss!collectorVars, SsInv, SsTyped, Ss!TypeOK
<1>2. ssNow' \in 0 .. MaxClock /\ ssNow <= ssNow'
  BY <1>1, BoundsAssumption
<1>3. SsTyped'
  BY <1>1, <1>2 DEF SsInv, SsTyped, Ss!TypeOK
<1>4. SsTraffic' /\ Ss!SamplesOfLastSeen'
  BY <1>1, TotalSame DEF SsInv, SsTraffic, Ss!SamplesOfLastSeen, Owned
<1> QED BY <1>3, <1>4 DEF SsInv

\* What calculate_rate stores for p and gives back, when it is called at ssNow with v.
LEMMA OneRate ==
  ASSUME SsTyped, NEW p, NEW v \in Nat,
         NEW new, new = Ss!Remember(prev, p, ssNow, v)[p],
         NEW rate, rate = Ss!RateOf(prev, p, ssNow, v)
  PROVE  /\ new.time \in Nat /\ new.value \in Nat /\ new.time <= ssNow
         /\ rate.bytes \in Nat /\ rate.per > 0
         /\ p \notin DOMAIN prev => new.value = v /\ rate.bytes = 0
         /\ p \in DOMAIN prev /\ prev[p].value <= v =>
              /\ prev[p].value <= new.value /\ new.value <= v
              /\ rate.bytes = new.value - prev[p].value
<1>1. ssNow \in Nat
  BY BoundsAssumption DEF SsTyped, Ss!TypeOK
<1>2. p \in DOMAIN prev => prev[p].time \in Nat /\ prev[p].value \in Nat /\ prev[p].time <= ssNow
  BY DEF SsTyped
<1>3. CASE p \notin DOMAIN prev
  <2>1. new = [time |-> ssNow, value |-> v] /\ rate = [bytes |-> 0, per |-> 1]
    BY <1>3 DEF Ss!Remember, Ss!RateOf, Ss!CanRate, Ss!NoRate, Ss!Sample
  <2> QED BY <1>1, <1>3, <2>1
<1>4. CASE p \in DOMAIN prev /\ ~(ssNow > prev[p].time)
  <2>1. new = prev[p] /\ rate = [bytes |-> 0, per |-> 1]
    BY <1>4 DEF Ss!Remember, Ss!RateOf, Ss!CanRate, Ss!NoRate
  <2> QED BY <1>1, <1>2, <1>4, <2>1
<1>5. CASE p \in DOMAIN prev /\ ssNow > prev[p].time
  <2>1. /\ new = [time |-> ssNow, value |-> v]
        /\ rate = [bytes |-> Ss!Delta(prev[p], v), per |-> ssNow - prev[p].time]
    BY <1>5 DEF Ss!Remember, Ss!RateOf, Ss!CanRate, Ss!Sample
  <2> QED BY <1>1, <1>2, <1>5, <2>1 DEF Ss!Delta
<1> QED BY <1>3, <1>4, <1>5

LEMMA RefreshKeeps == ASSUME SsInv, Ss!Refresh PROVE SsInv'
<1> DEFINE current == {p \in Pids : Ss!Parsed(p) # {}}
           new(p)  == Ss!Remember(prev, p, ssNow, Ss!Total(p))[p]
           rate(p) == Ss!RateOf(prev, p, ssNow, Ss!Total(p))
<1>1. /\ prev' = Ss!ForgetAll(Ss!Calculated(current), lastSeen \ current)
      /\ lastSeen' = current
      /\ ssStats' = [p \in current |-> rate(p)]
      /\ ssReported' = [p \in Pids |-> IF p \in current THEN ssReported[p] + ssStats'[p].bytes
                                                        ELSE ssReported[p]]
      /\ UNCHANGED <<owner, acked, received, ssNow, sent, closed>>
  BY DEF Ss!Refresh, Ss!hostVars
<1>2. Ss!TypeOK /\ SsTyped /\ current \subseteq Pids /\ DOMAIN prev = lastSeen
  BY DEF SsInv, SsTyped, Ss!SamplesOfLastSeen
<1>3. DOMAIN prev' = current /\ \A p \in current : prev'[p] = new(p)
  <2>1. DOMAIN Ss!Calculated(current) = DOMAIN prev \cup current
        /\ \A p \in current : Ss!Calculated(current)[p] = new(p)
    BY DEF Ss!Calculated
  <2>2. DOMAIN prev' = DOMAIN Ss!Calculated(current) \ (lastSeen \ current)
        /\ \A p \in DOMAIN prev' : prev'[p] = Ss!Calculated(current)[p]
    BY <1>1 DEF Ss!ForgetAll, Ss!Forget
  <2> QED BY <1>2, <2>1, <2>2
<1>4. \A p \in Pids : Ss!Total(p) \in Nat /\ Ss!Total(p)' = Ss!Total(p)
  BY <1>1, <1>2, TotalNat, TotalSame
<1>5. \A p \in Pids :
        /\ new(p).time \in Nat /\ new(p).value \in Nat /\ new(p).time <= ssNow
        /\ rate(p).bytes \in Nat /\ rate(p).per > 0
        /\ p \notin DOMAIN prev => new(p).value = Ss!Total(p) /\ rate(p).bytes = 0
        /\ p \in DOMAIN prev /\ prev[p].value <= Ss!Total(p) =>
             /\ prev[p].value <= new(p).value /\ new(p).value <= Ss!Total(p)
             /\ rate(p).bytes = new(p).value - prev[p].value
  BY <1>2, <1>4, OneRate
<1> HIDE DEF new, rate
<1>6. \A p \in current : ssReported'[p] = ssReported[p] + rate(p).bytes
  BY <1>1, <1>2
<1>7. \A p \in Pids \ current : ssReported'[p] = ssReported[p]
  BY <1>1
<1>8. ssReported' \in [Pids -> Nat]
  <2>1. \A p \in Pids : ssReported[p] \in Nat
    BY <1>2 DEF SsTyped
  <2>2. \A p \in Pids : ssReported'[p] \in Nat
    BY <1>5, <1>6, <1>7, <2>1
  <2> QED BY <1>1, <2>2
<1>9. SsTyped'
  <2>1. \A p \in DOMAIN prev' : /\ prev'[p].time \in Nat /\ prev'[p].value \in Nat
                                /\ prev'[p].time <= ssNow'
    BY <1>1, <1>2, <1>3, <1>5
  <2>2. DOMAIN ssStats' = current /\ \A p \in current : ssStats'[p] = rate(p)
    BY <1>1
  <2>3. Ss!TypeOK'
    BY <1>1, <1>2, <1>3, <1>5, <2>2 DEF Ss!TypeOK
  <2> QED BY <1>1, <1>2, <1>8, <2>1, <2>3 DEF SsTyped
<1>10. Ss!SamplesOfLastSeen'
  BY <1>1, <1>3 DEF Ss!SamplesOfLastSeen
<1>11. ASSUME NEW p \in Pids \ closed' PROVE
         /\ ssReported'[p] <= Ss!Total(p)'
         /\ p \in DOMAIN prev' => ssReported'[p] <= prev'[p].value /\ prev'[p].value <= Ss!Total(p)'
  <2>1. /\ ssReported[p] <= Ss!Total(p)
        /\ p \in DOMAIN prev => ssReported[p] <= prev[p].value /\ prev[p].value <= Ss!Total(p)
    BY <1>1 DEF SsInv, SsTraffic
  <2>2. ssReported[p] \in Nat /\ (p \in DOMAIN prev => prev[p].value \in Nat)
    BY <1>2 DEF SsTyped
  <2>3. CASE p \notin current
    BY <1>3, <1>4, <1>7, <2>1, <2>3
  <2>4. CASE p \in current
    <3>1. prev'[p] = new(p) /\ ssReported'[p] = ssReported[p] + rate(p).bytes
      BY <1>3, <1>6, <2>4
    <3> QED BY <1>4, <1>5, <2>1, <2>2, <3>1
  <2> QED BY <2>3, <2>4
<1>12. SsTraffic'
  <2>1. \A p \in Pids \ closed : Sum(acked, Owned(p)) = sent[p]
    BY DEF SsInv, SsTraffic
  <2>2. \A p \in Pids \ closed' : Sum(acked', Owned(p)') = sent'[p]
    BY <1>1, <2>1 DEF Owned
  <2>3. \A s \in Socks : owner'[s] = NoPid => acked'[s] = 0 /\ s \notin received'
    BY <1>1 DEF SsInv, SsTraffic
  <2> QED BY <1>11, <2>2, <2>3 DEF SsTraffic
<1> QED BY <1>9, <1>10, <1>12 DEF SsInv

LEMMA RefreshFailsKeeps == ASSUME SsInv, Ss!RefreshFails PROVE SsInv'
<1>1. /\ UNCHANGED <<owner, acked, received, ssNow, prev, lastSeen, sent, ssReported, closed>>
      /\ DOMAIN ssStats' = {}
  BY DEF Ss!RefreshFails, Ss!hostVars, Ss!Nothing
<1>2. SsTyped'
  BY <1>1 DEF SsInv, SsTyped, Ss!TypeOK
<1>3. SsTraffic' /\ Ss!SamplesOfLastSeen'
  BY <1>1, TotalSame DEF SsInv, SsTraffic, Ss!SamplesOfLastSeen, Owned
<1> QED BY <1>2, <1>3 DEF SsInv

LEMMA SsNext == ASSUME SsInv, Ss!Next PROVE SsInv'
BY OpenKeeps, SendKeeps, ReceiveKeeps, CloseKeeps, TickKeeps, RefreshKeeps, RefreshFailsKeeps
   DEF Ss!Next

-----------------------------------------------------------------------------
\* The collector, with whichever backend it has chosen.

NetStatsInv == backend \in {"ebpf", "ss", "none"} /\ SsInv /\ EbpfInv

\* A backend that was not chosen stands still.
LEMMA SsStands == ASSUME SsInv, UNCHANGED ssVars PROVE SsInv'
<1>1. UNCHANGED <<owner, acked, received, ssNow, prev, lastSeen, ssStats, sent, ssReported, closed>>
  BY DEF ssVars
<1>2. SsTyped'
  BY <1>1 DEF SsInv, SsTyped, Ss!TypeOK
<1>3. SsTraffic' /\ Ss!SamplesOfLastSeen'
  BY <1>1, TotalSame DEF SsInv, SsTraffic, Ss!SamplesOfLastSeen, Owned
<1> QED BY <1>2, <1>3 DEF SsInv

LEMMA EbpfStands == ASSUME EbpfInv, UNCHANGED ebpfVars PROVE EbpfInv'
<1>1. UNCHANGED <<map, pc, todo, result, now, last, lastStats, counted, reported, dropped,
                 late, clockSet>>
  BY DEF ebpfVars
<1>2. Ebpf!TypeOK' /\ Ebpf!ClockRaises'
  BY <1>1 DEF EbpfInv, Ebpf!TypeOK, Ebpf!ClockRaises
<1>3. BytesInv'
  BY <1>1 DEF EbpfInv, BytesInv, InFlight, Ebpf!InWindow, Ebpf!At
<1> QED BY <1>2, <1>3 DEF EbpfInv

LEMMA SpecNetStatsInv == Spec => []NetStatsInv
<1>1. Init => NetStatsInv
  BY SsInitInv, EbpfInit DEF Init, NetStatsInv, Backend
<1>2. NetStatsInv /\ [Next]_vars => NetStatsInv'
  <2> SUFFICES ASSUME NetStatsInv, [Next]_vars PROVE NetStatsInv'
    OBVIOUS
  <2>1. CASE WithSs
    <3>1. SsInv' /\ backend' = backend /\ UNCHANGED ebpfVars
      BY <2>1, SsNext DEF WithSs, NetStatsInv
    <3> QED BY <3>1, EbpfStands DEF NetStatsInv
  <2>2. CASE WithEbpf
    <3>1. EbpfInv' /\ backend' = backend /\ UNCHANGED ssVars
      BY <2>2, EbpfNext DEF WithEbpf, NetStatsInv
    <3> QED BY <3>1, SsStands DEF NetStatsInv
  <2>3. CASE UNCHANGED vars
    <3>1. backend' = backend /\ UNCHANGED ssVars /\ UNCHANGED ebpfVars
      BY <2>3 DEF vars
    <3> QED BY <3>1, SsStands, EbpfStands DEF NetStatsInv
  <2> QED BY <2>1, <2>2, <2>3 DEF Next, WithNone
<1> QED BY <1>1, <1>2, PTL DEF Spec

\* Type correctness of the collector and of both backends; every rate of ss is over a
\* positive time.
THEOREM NetStatsTyped == Spec => []TypeOK
<1>1. NetStatsInv => TypeOK
  BY DEF NetStatsInv, TypeOK, SsInv, SsTyped, EbpfInv
<1> QED BY <1>1, SpecNetStatsInv, PTL

\* The ss backend keeps a sample of exactly the processes of the last successful refresh,
\* over failed refreshes and processes that come back (_refresh_ss).
THEOREM NoSampleLeft == Spec => []SamplesOfLastSeen
<1>1. NetStatsInv => SamplesOfLastSeen
  BY DEF NetStatsInv, SamplesOfLastSeen, SsInv
<1> QED BY <1>1, SpecNetStatsInv, PTL

\* For any sockets and processes, and any order of refreshes and traffic, neither backend
\* reports what was not sent: ss for the processes that closed no socket, since what its
\* sample holds is at most what the sockets still show; the probes for all of them.
THEOREM NothingMadeUp == Spec => []ReportsOnlyTraffic
<1>1. SsInv => Ss!ReportsOnlyTraffic
  <2> SUFFICES ASSUME SsInv, NEW p \in Pids \ closed PROVE ssReported[p] <= sent[p]
    BY DEF Ss!ReportsOnlyTraffic
  <2>1. Ss!Total(p) <= sent[p] /\ ssReported[p] <= Ss!Total(p)
    BY TotalAtMostSent DEF SsInv, SsTraffic
  <2>2. Ss!Total(p) \in Nat /\ ssReported[p] \in Nat /\ sent[p] \in Nat
    BY TotalNat DEF SsInv, SsTyped
  <2> QED BY <2>1, <2>2
<1>2. EbpfInv => Ebpf!ReportedOnce
  <2> SUFFICES ASSUME EbpfInv, NEW k \in Ebpf!Keys PROVE reported[k] <= counted[k]
    BY DEF Ebpf!ReportedOnce
  <2>1. Ebpf!At(map, k) \in Nat /\ Ebpf!At(result, k) \in Nat
    BY AtNat DEF EbpfInv, Ebpf!TypeOK
  <2>2. InFlight(k) \in Nat
    BY <2>1 DEF InFlight
  <2>3. /\ reported[k] \in Nat /\ counted[k] \in Nat /\ dropped[k] \in Nat
        /\ reported[k] + dropped[k] + InFlight(k) <= counted[k]
    BY DEF EbpfInv, BytesInv, Ebpf!TypeOK
  <2> QED BY <2>2, <2>3
<1>3. NetStatsInv => ReportsOnlyTraffic
  BY <1>1, <1>2 DEF NetStatsInv, ReportsOnlyTraffic
<1> QED BY <1>3, SpecNetStatsInv, PTL

\* Of every key, whatever the probes see and however full the map is: each byte is in the
\* map or in a rate, was dropped for want of room, or fell in the window of its own entry.
THEOREM BytesAccountedFor == Spec => []EveryByteAccountedFor
<1>1. NetStatsInv => EveryByteAccountedFor
  <2> SUFFICES ASSUME EbpfInv, pc = "idle", NEW k \in Ebpf!Keys
               PROVE  counted[k] - reported[k] - Ebpf!At(map, k) - dropped[k] \in 0 .. late[k]
    BY DEF NetStatsInv, EveryByteAccountedFor, Ebpf!EveryByteAccountedFor
  <2>1. /\ counted[k] \in Nat /\ reported[k] \in Nat /\ dropped[k] \in Nat
        /\ late[k] \in Nat /\ Ebpf!At(map, k) \in Nat
    BY AtNat DEF EbpfInv, Ebpf!TypeOK
  <2>2. /\ reported[k] + dropped[k] + Ebpf!At(map, k) <= counted[k]
        /\ counted[k] <= reported[k] + dropped[k] + Ebpf!At(map, k) + late[k]
    BY DEF EbpfInv, BytesInv, InFlight
  <2> QED BY <2>1, <2>2
<1> QED BY <1>1, SpecNetStatsInv, PTL

\* The division by the time since the last refresh raises nothing, and no rate is negative,
\* as long as the wall clock goes forward between refreshes.
THEOREM ClockAloneRaises == Spec => []ClockRaises
<1>1. NetStatsInv => ClockRaises
  BY DEF NetStatsInv, ClockRaises, EbpfInv
<1> QED BY <1>1, SpecNetStatsInv, PTL
=============================================================================
