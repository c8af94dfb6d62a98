-------------------------- MODULE TerminalUIProofs --------------------------
(***************************************************************************)
(* Theorems about TerminalUI, for any hosts, process lists and heights:    *)
(* the selection, the list that was drawn last and the screen fit one      *)
(* another, whatever keys come between two drawings.                       *)
(***************************************************************************)
EXTENDS TerminalUI, FiniteSetTheorems, TLAPS

-----------------------------------------------------------------------------
\* Counting.

LEMMA EntriesNat == ASSUME NEW s \in Statuses PROVE Entries(s) \in Nat
<1>1. s.groups \in Seq(Nat \ {0})
  BY StatusAssumption
<1>2. IsFiniteSet(DOMAIN s.groups) /\ \A g \in DOMAIN s.groups : s.groups[g] \in Nat
  BY <1>1, FS_Interval
<1> DEFINE rows(g) == {g} \X (1 .. s.groups[g])
           all == {rows(g) : g \in DOMAIN s.groups}
<1>3. ASSUME NEW g \in DOMAIN s.groups PROVE IsFiniteSet(rows(g))
  <2>1. IsFiniteSet({g}) /\ IsFiniteSet(1 .. s.groups[g])
    <3>1. s.groups[g] \in Int /\ 1 \in Int
      BY <1>2
    <3>2. IsFiniteSet(1 .. s.groups[g])
      BY <3>1, FS_Interval
    <3> QED BY <3>2, FS_Singleton
  <2> QED BY <2>1, FS_Product
<1>4. IsFiniteSet(all)
  <2> DEFINE f == [g \in DOMAIN s.groups |-> rows(g)]
  <2> HIDE DEF rows
  <2>1. f \in Surjection(DOMAIN s.groups, all)
    BY DEF Surjection
  <2> QED BY <1>2, <2>1, FS_Surjection
<1>5. IsFiniteSet(UNION all)
  <2>1. \A T \in all : IsFiniteSet(T)
    BY <1>3
  <2> HIDE DEF all
  <2> QED BY <1>4, <2>1, FS_UNION
<1> QED BY <1>5, FS_CardinalityType DEF Entries, Members

\* Every index below the number of elements is the rank of one of them.
LEMMA RankExists ==
  ASSUME NEW S \in SUBSET Nat, IsFiniteSet(S), NEW i \in Nat, i < Cardinality(S)
  PROVE  \E h \in S : Cardinality({k \in S : k < h}) = i
<1> DEFINE below(h) == {k \in S : k < h}
           ranks == 0 .. Cardinality(S) - 1
           rank == [h \in S |-> Cardinality(below(h))]
<1>1. Cardinality(S) \in Nat
  BY FS_CardinalityType
<1>2. \A h \in S : IsFiniteSet(below(h)) /\ Cardinality(below(h)) \in Nat
  BY FS_Subset, FS_CardinalityType
<1>3. ASSUME NEW h \in S PROVE Cardinality(below(h)) <= Cardinality(S) - 1
  <2>1. IsFiniteSet(S \ {h}) /\ Cardinality(S \ {h}) = Cardinality(S) - 1
    BY FS_RemoveElement
  <2>2. below(h) \in SUBSET (S \ {h})
    OBVIOUS
  <2> QED BY <2>1, <2>2, FS_Subset
<1>4. ASSUME NEW g \in S, NEW h \in S, g < h PROVE Cardinality(below(g)) # Cardinality(below(h))
  <2>1. IsFiniteSet(below(h) \ {g}) /\ Cardinality(below(h) \ {g}) = Cardinality(below(h)) - 1
    <3>1. g \in below(h)
      BY <1>4
    <3> QED BY <1>2, <3>1, FS_RemoveElement
  <2>2. below(g) \in SUBSET (below(h) \ {g})
    <3>1. g \in Nat /\ h \in Nat /\ \A k \in S : k \in Nat
      OBVIOUS
    <3>2. \A k \in S : k < g => k < h /\ k # g
      BY <1>4, <3>1
    <3> QED BY <3>2
  <2>3. Cardinality(below(g)) <= Cardinality(below(h) \ {g})
    BY <2>1, <2>2, FS_Subset
  <2> QED BY <1>2, <2>1, <2>3
<1> HIDE DEF below
<1>5. rank \in Injection(S, ranks)
  <2>1. rank \in [S -> ranks]
    BY <1>1, <1>2, <1>3
  <2>2. \A g, h \in S : g < h \/ h < g \/ g = h
    OBVIOUS
  <2>3. \A g, h \in S : rank[g] = rank[h] => g = h
    BY <1>4, <2>2
  <2> QED BY <2>1, <2>3 DEF Injection, IsInjective
<1>6. IsFiniteSet(ranks) /\ Cardinality(ranks) = Cardinality(S)
  <2>1. Cardinality(S) - 1 \in Int /\ 0 \in Int
    BY <1>1
  <2>2. IsFiniteSet(ranks)
        /\ Cardinality(ranks) = IF 0 > Cardinality(S) - 1 THEN 0 ELSE Cardinality(S) - 1 - 0 + 1
    BY <2>1, FS_Interval
  <2> QED BY <1>1, <2>2
<1>7. rank \in Surjection(S, ranks)
  <2> HIDE DEF rank, ranks
  <2> QED BY <1>5, <1>6, FS_Injection
<1>8. PICK h \in S : rank[h] = i
  <2>1. i \in ranks
    BY <1>1
  <2> HIDE DEF rank, ranks
  <2> QED BY <1>7, <2>1 DEF Surjection
<1> QED BY <1>8 DEF below

LEMMA KnownFinite == IsFiniteSet(Known) /\ Known \in SUBSET Nat /\ Cardinality(Known) \in Nat
BY HostsAssumption, FS_Subset, FS_CardinalityType DEF Known

\* The index of the selected host is that of a known host, or out of range.
LEMMA ShownKnown ==
  ASSUME TypeOK, IsHost
  PROVE  Shown \in Known /\ hosts[Shown] \in Statuses
<1>1. host \in Nat /\ host < Cardinality(Known)
  BY KnownFinite DEF IsHost, TypeOK, MaxOf
<1>2. \E h \in Known : Cardinality({k \in Known : k < h}) = host
  BY <1>1, KnownFinite, RankExists
<1>3. Shown \in Known
  BY <1>2 DEF Shown
<1> QED BY <1>3 DEF TypeOK, Known

-----------------------------------------------------------------------------
\* The invariant.

\* While an entry is highlighted on a screen with at least as many rows as the keys assume,
\* the selection is in the list and in the rows the next drawing would show.
Follows ==
  (screen.marked >= 0 /\ screen.rows >= Page) =>
     /\ 0 <= selected /\ selected < listed
     /\ scroll <= selected /\ selected < scroll + screen.rows

\* The selection is not behind the list, and nothing is highlighted while it is before it.
Within == selected <= MaxOf(0, listed - 1) /\ (selected = -1 => screen.marked = -1)

UIInv == TypeOK /\ Within /\ Follows

LEMMA Numbers ==
  ASSUME TypeOK
  PROVE  /\ height \in Nat \ {0} /\ Page \in Nat \ {0}
         /\ listed \in Nat /\ selected \in Int /\ selected >= -1 /\ scroll \in Nat
         /\ screen.rows \in Nat /\ screen.marked \in Int
BY EntriesNat, HeightsAssumption DEF TypeOK, Page, MaxOf

LEMMA MoveKeeps ==
  ASSUME UIInv, NEW to \in Int, NEW offset \in Nat, Move(to, offset),
         to >= -1, to <= MaxOf(0, listed - 1), to = -1 => selected = -1 \/ listed = 0,
         (/\ screen.rows >= Page /\ 0 <= selected /\ selected < listed
          /\ scroll <= selected /\ selected < scroll + screen.rows)
           => 0 <= to /\ to < listed /\ offset <= to /\ to < offset + screen.rows
  PROVE  UIInv'
<1>1. /\ UNCHANGED <<hosts, paused, host, listed, height, screen>>
      /\ pc' = "draw" /\ selected' = to /\ scroll' = offset
  BY DEF Move
<1>2. TypeOK'
  BY <1>1 DEF UIInv, TypeOK, Known
<1>3. Within'
  <2>1. listed = 0 => screen.marked = -1
    BY DEF UIInv, TypeOK
  <2> QED BY <1>1, <2>1 DEF UIInv, Within
<1>4. Follows'
  BY <1>1 DEF UIInv, Follows, Page
<1> QED BY <1>2, <1>3, <1>4 DEF UIInv

LEMMA MovesKeep ==
  ASSUME UIInv, Up \/ Down \/ PageUp \/ PageDown \/ HomeKey \/ EndKey \/ NoKey
  PROVE  UIInv'
<1>0. /\ listed \in Nat /\ selected \in Int /\ selected >= -1 /\ scroll \in Nat
      /\ screen.rows \in Nat /\ Page \in Nat \ {0}
      /\ selected <= MaxOf(0, listed - 1)
  BY Numbers DEF UIInv, Within
<1> HIDE DEF UIInv
<1>1. CASE NoKey
  BY <1>0, <1>1, MoveKeeps DEF NoKey
<1>2. CASE Up
  <2>1. CASE selected > 0
    <3>1. Move(selected - 1, MinOf(scroll, selected - 1))
      BY <1>2, <2>1 DEF Up
    <3>2. MinOf(scroll, selected - 1) \in Nat
      BY <1>0, <2>1 DEF MinOf
    <3> QED BY <1>0, <2>1, <3>1, <3>2, MoveKeeps DEF MinOf, MaxOf
  <2>2. CASE ~(selected > 0)
    BY <1>0, <1>2, <2>2, MoveKeeps DEF Up
  <2> QED BY <2>1, <2>2
<1>3. CASE Down
  <2>1. CASE selected < listed - 1
    <3>1. Move(selected + 1, MaxOf(scroll, selected + 1 - Page + 1))
      BY <1>3, <2>1 DEF Down
    <3>2. MaxOf(scroll, selected + 1 - Page + 1) \in Nat
      BY <1>0 DEF MaxOf
    <3> QED BY <1>0, <2>1, <3>1, <3>2, MoveKeeps DEF MaxOf
  <2>2. CASE ~(selected < listed - 1)
    BY <1>0, <1>3, <2>2, MoveKeeps DEF Down
  <2> QED BY <2>1, <2>2
<1>4. CASE PageUp
  <2>1. MaxOf(0, selected - Page) \in Int /\ MaxOf(0, scroll - Page) \in Nat
    BY <1>0 DEF MaxOf
  <2>2. Move(MaxOf(0, selected - Page), MaxOf(0, scroll - Page))
    BY <1>4 DEF PageUp
  <2> QED BY <1>0, <2>1, <2>2, MoveKeeps DEF MaxOf
<1>5. CASE PageDown
  <2>1. /\ MinOf(listed - 1, selected + Page) \in Int
        /\ MinOf(MaxOf(0, listed - Page), scroll + Page) \in Nat
    BY <1>0 DEF MaxOf, MinOf
  <2>2. Move(MinOf(listed - 1, selected + Page), MinOf(MaxOf(0, listed - Page), scroll + Page))
    BY <1>5 DEF PageDown
  <2> QED BY <1>0, <2>1, <2>2, MoveKeeps DEF MaxOf, MinOf
<1>6. CASE HomeKey
  BY <1>0, <1>6, MoveKeeps DEF HomeKey, MaxOf
<1>7. CASE EndKey
  <2>1. MaxOf(0, listed - 1) \in Int /\ MaxOf(0, listed - Page) \in Nat
    BY <1>0 DEF MaxOf
  <2>2. Move(MaxOf(0, listed - 1), MaxOf(0, listed - Page))
    BY <1>7 DEF EndKey
  <2> QED BY <1>0, <2>1, <2>2, MoveKeeps DEF MaxOf
<1> QED BY <1>1, <1>2, <1>3, <1>4, <1>5, <1>6, <1>7

LEMMA SelectHostKeeps ==
  ASSUME UIInv, NEW h \in -1 .. MaxOf(0, Cardinality(Known) - 1), SelectHost(h)
  PROVE  UIInv'
<1>0. listed \in Nat /\ screen.rows \in Nat /\ Page \in Nat \ {0} /\ screen.marked \in Int
  BY Numbers DEF UIInv
<1>1. /\ UNCHANGED <<hosts, paused, listed, height, screen>>
      /\ pc' = "draw" /\ host' = h /\ selected' = 0 /\ scroll' = 0
  BY DEF SelectHost
<1>2. TypeOK'
  BY <1>1 DEF UIInv, TypeOK, Known
<1>3. Within'
  BY <1>0, <1>1 DEF Within, MaxOf
<1>4. Follows'
  BY <1>0, <1>1, Numbers DEF UIInv, Follows, Page
<1> QED BY <1>2, <1>3, <1>4 DEF UIInv

LEMMA OtherKeysKeep ==
  ASSUME UIInv, Left \/ Right \/ Pause \/ Resize \/ Quit
  PROVE  UIInv'
<1>0. host \in Int /\ host >= -1 /\ host <= MaxOf(0, Cardinality(Known) - 1)
      /\ Cardinality(Known) \in Nat /\ selected \in Int
  BY KnownFinite, Numbers DEF UIInv, TypeOK, MaxOf
<1>1. CASE Left
  <2>1. MaxOf(0, host - 1) \in -1 .. MaxOf(0, Cardinality(Known) - 1)
    BY <1>0 DEF MaxOf
  <2> QED BY <1>1, <2>1, SelectHostKeeps DEF Left
<1>2. CASE Right
  <2>1. MinOf(Cardinality(Known) - 1, host + 1) \in -1 .. MaxOf(0, Cardinality(Known) - 1)
    BY <1>0 DEF MaxOf, MinOf
  <2> QED BY <1>2, <2>1, SelectHostKeeps DEF Right
<1>3. CASE Pause \/ Quit
  <2>1. /\ UNCHANGED <<hosts, host, selected, scroll, listed, height, screen>>
        /\ pc' \in {"draw", "last"} /\ (paused' = paused \/ paused' = ~paused)
    BY <1>3 DEF Pause, Quit
  <2>2. TypeOK'
    BY <2>1 DEF UIInv, TypeOK, Known
  <2> QED BY <2>1, <2>2 DEF UIInv, Within, Follows, Page
<1>4. CASE Resize
  <2>1. /\ UNCHANGED <<hosts, paused, host, selected, scroll, listed>>
        /\ pc' = "draw" /\ height' \in Heights
        /\ screen'.rows = 0 /\ screen'.marked = -1
    BY <1>4 DEF Resize, NoList
  <2>2. listed \in Nat /\ height' \in Nat
    BY <2>1, Numbers, HeightsAssumption DEF UIInv
  <2>3. TypeOK'
    BY <2>1, <2>2 DEF UIInv, TypeOK, Known
  <2>4. Within' /\ Follows'
    BY <2>1 DEF UIInv, Within, Follows
  <2> QED BY <2>3, <2>4 DEF UIInv
<1> QED BY <1>1, <1>2, <1>3, <1>4

LEMMA CallbackKeeps == ASSUME UIInv, NEW h \in Hosts, StatusCallback(h) PROVE UIInv'
<1>1. /\ hosts' \in [Hosts -> Statuses \cup {NoStatus}] /\ Known \subseteq Known'
      /\ UNCHANGED <<pc, paused, host, selected, scroll, listed, height, screen>>
  BY StatusAssumption DEF StatusCallback, uiVars, UIInv, TypeOK, Known
<1>2. /\ IsFiniteSet(Known') /\ Cardinality(Known) \in Nat /\ Cardinality(Known') \in Nat
      /\ Cardinality(Known) <= Cardinality(Known')
  <2>1. Known' \in SUBSET Hosts
    BY DEF Known
  <2> QED BY <1>1, <2>1, HostsAssumption, KnownFinite, FS_Subset, FS_CardinalityType
<1>3. host' \in -1 .. MaxOf(0, Cardinality(Known') - 1)
  BY <1>1, <1>2 DEF UIInv, TypeOK, MaxOf
<1>4. TypeOK'
  BY <1>1, <1>3 DEF UIInv, TypeOK
<1>5. Within' /\ Follows'
  BY <1>1 DEF UIInv, Within, Follows, Page
<1> QED BY <1>4, <1>5 DEF UIInv

\* What is drawn, and that it highlights the selection if this was in the rows shown before.
LEMMA ListDrawn ==
  ASSUME UIInv, DrawList, UNCHANGED <<hosts, paused, host, height>>
  PROVE  /\ listed' \in {Entries(s) : s \in Statuses} /\ listed' \in Nat
         /\ selected' \in Int /\ selected' >= -1 /\ selected' <= MaxOf(0, listed' - 1)
         /\ scroll' \in Nat
         /\ screen'.rows \in 0 .. height /\ screen'.marked \in -1 .. listed' - 1
         /\ screen'.of \in Nat
         /\ selected' = -1 => screen'.marked = -1 /\ selected = -1
         /\ screen'.marked >= 0 =>
              /\ selected' = screen'.marked /\ screen'.rows > 0 /\ selected' < listed'
              /\ scroll' <= selected' /\ selected' < scroll' + screen'.rows
         /\ (/\ screen.marked >= 0 /\ screen.rows >= Page
             /\ screen'.rows >= screen.rows /\ screen'.of > 0)
              => screen'.marked >= 0
<1> DEFINE status == hosts[Shown]
           n == Entries(status)
           rows == height - (ListRow(status) + 2) - 1
<1>1. status \in Statuses /\ n \in Nat /\ status.gpus \in Nat
  <2>1. status \in Statuses
    BY ShownKnown DEF UIInv, DrawList
  <2> QED BY <2>1, EntriesNat, StatusAssumption
<1>2. /\ height \in Nat \ {0} /\ Page \in Nat \ {0} /\ scroll \in Nat
      /\ selected \in Int /\ selected >= -1 /\ screen.rows \in Nat /\ screen.marked \in Int
  BY Numbers DEF UIInv
<1>3. rows \in Int /\ rows < height
  <2>1. ListRow(status) \in Nat
    BY <1>1, <1>2, KnownFinite DEF ListRow, RowAfterHosts, MaxOf, MinOf
  <2> QED BY <1>2, <2>1
<1>4. /\ listed' = n /\ selected' = Clamp(n)
      /\ \/ rows < 1 /\ screen' = NoList /\ scroll' = scroll
         \/ /\ rows >= 1
            /\ scroll' = MinOf(scroll, MaxOf(0, n - rows))
            /\ screen'.rows = rows /\ screen'.of = n
            /\ screen'.marked = IF scroll' <= selected' /\ selected' < MinOf(n, scroll' + rows)
                                THEN selected' ELSE -1
  BY <1>3 DEF DrawList, List
<1>5. /\ selected' \in Int /\ selected' >= -1 /\ selected' <= MaxOf(0, n - 1)
      /\ selected' <= selected \/ (n = 0 /\ selected' = 0)
      /\ selected >= 0 => selected' >= 0
      /\ n > 0 => selected' = MinOf(selected, n - 1)
  <2>1. selected' = (IF n > 0 THEN MinOf(selected, n - 1) ELSE 0) /\ n \in Nat
    BY <1>1, <1>4 DEF Clamp
  <2> HIDE DEF n
  <2> QED BY <1>2, <2>1 DEF MinOf, MaxOf
<1>6. CASE rows < 1
  <2>1. /\ screen'.rows = 0 /\ screen'.of = 0 /\ screen'.marked = -1 /\ scroll' = scroll
        /\ listed' = n
    BY <1>3, <1>4, <1>6 DEF NoList
  <2> QED BY <1>1, <1>2, <1>5, <2>1
<1>7. CASE rows >= 1
  <2>1. /\ scroll' = MinOf(scroll, MaxOf(0, n - rows))
        /\ screen'.rows = rows /\ screen'.of = n /\ listed' = n
        /\ screen'.marked = IF scroll' <= selected' /\ selected' < MinOf(n, scroll' + rows)
                            THEN selected' ELSE -1
    BY <1>3, <1>4, <1>7
  <2> HIDE DEF n, rows
  <2>2. scroll' \in Nat /\ scroll' <= scroll /\ scroll' <= MaxOf(0, n - rows)
        /\ (scroll' = scroll \/ scroll' = MaxOf(0, n - rows))
    BY <1>1, <1>2, <1>3, <2>1 DEF MinOf, MaxOf
  <2>3. screen'.marked >= 0 =>
              /\ selected' = screen'.marked /\ selected' < n
              /\ scroll' <= selected' /\ selected' < scroll' + rows
    BY <1>1, <1>3, <1>5, <2>1, <2>2 DEF MinOf
  <2>4. screen'.marked \in -1 .. n - 1
    BY <1>1, <1>5, <2>1, <2>2, <1>3 DEF MinOf
  <2>5. ASSUME screen.marked >= 0, screen.rows >= Page, rows >= screen.rows, n > 0
        PROVE  screen'.marked >= 0
    <3>1. 0 <= selected /\ scroll <= selected /\ selected < scroll + screen.rows
      BY <2>5 DEF UIInv, Follows
    <3>2. selected' >= 0 /\ selected' <= selected /\ selected' < n
          /\ (selected' = selected \/ selected' = n - 1)
      BY <1>1, <1>2, <1>5, <2>5, <3>1 DEF MinOf
    <3>3. scroll' <= selected'
      BY <1>1, <1>2, <1>3, <1>7, <2>2, <3>1, <3>2, <2>5 DEF MaxOf
    <3>4. selected' < scroll' + rows
      BY <1>1, <1>2, <1>3, <2>2, <2>5, <3>1, <3>2 DEF MaxOf
    <3> QED BY <1>1, <1>3, <2>1, <2>2, <3>2, <3>3, <3>4, <1>5 DEF MinOf
  <2> QED BY <1>1, <1>2, <1>3, <1>5, <1>7, <2>1, <2>2, <2>3, <2>4, <2>5 DEF n
<1> QED BY <1>3, <1>6, <1>7

LEMMA DrawKeeps == ASSUME UIInv, Draw PROVE UIInv'
<1>0. UNCHANGED <<hosts, paused, host, height>> /\ pc' \in {"key", "ended"}
  BY DEF Draw
<1>1. CASE UNCHANGED <<selected, scroll, listed, screen>>
  <2>1. TypeOK'
    BY <1>0, <1>1 DEF UIInv, TypeOK, Known
  <2> QED BY <1>0, <1>1, <2>1 DEF UIInv, Within, Follows, Page
<1>2. CASE DrawNoList
  <2>1. UNCHANGED <<selected, scroll, listed>> /\ screen'.rows = 0 /\ screen'.marked = -1
    BY <1>2 DEF DrawNoList, NoList
  <2>2. listed \in Nat /\ height \in Nat
    BY Numbers DEF UIInv
  <2>3. TypeOK'
    BY <1>0, <2>1, <2>2 DEF UIInv, TypeOK, Known
  <2> QED BY <2>1, <2>3 DEF UIInv, Within, Follows
<1>3. CASE DrawList
  <2>1. /\ listed' \in {Entries(s) : s \in Statuses} /\ listed' \in Nat
        /\ selected' \in Int /\ selected' >= -1 /\ selected' <= MaxOf(0, listed' - 1)
        /\ scroll' \in Nat
        /\ screen'.rows \in 0 .. height /\ screen'.marked \in -1 .. listed' - 1
        /\ screen'.marked >= 0 =>
             /\ selected' = screen'.marked /\ screen'.rows > 0 /\ selected' < listed'
             /\ scroll' <= selected' /\ selected' < scroll' + screen'.rows
    BY <1>0, <1>3, ListDrawn
  <2>2. TypeOK'
    BY <1>0, <2>1 DEF UIInv, TypeOK, Known
  <2>3. Follows'
    BY <2>1 DEF Follows
  <2> QED BY <2>1, <2>2, <2>3 DEF UIInv, Within
<1> QED BY <1>1, <1>2, <1>3 DEF Draw

LEMMA SpecUIInv == Spec => []UIInv
<1>1. Init => UIInv
  <2> SUFFICES ASSUME Init PROVE UIInv
    OBVIOUS
  <2>1. Cardinality(Known) = 0 /\ height \in Nat \ {0}
    BY FS_EmptySet, HeightsAssumption DEF Init, Known
  <2>2. TypeOK
    <3>1. /\ hosts \in [Hosts -> Statuses \cup {NoStatus}] /\ height \in Heights
          /\ pc = "key" /\ paused = FALSE /\ host = 0 /\ selected = 0 /\ scroll = 0 /\ listed = 0
          /\ screen.rows = 0 /\ screen.marked = -1
      BY DEF Init, NoList
    <3>2. host \in -1 .. MaxOf(0, Cardinality(Known) - 1)
      BY <2>1, <3>1 DEF MaxOf
    <3>3. screen.rows \in 0 .. height /\ screen.marked \in -1 .. listed - 1
      BY <2>1, <3>1
    <3> QED BY <3>1, <3>2, <3>3 DEF TypeOK
  <2>3. Within /\ Follows
    BY DEF Init, Within, Follows, NoList, MaxOf
  <2> QED BY <2>2, <2>3 DEF UIInv
<1>2. UIInv /\ [Next]_vars => UIInv'
  <2> SUFFICES ASSUME UIInv, [Next]_vars PROVE UIInv'
    OBVIOUS
  <2>1. CASE UNCHANGED vars
    BY <2>1 DEF vars, uiVars, UIInv, TypeOK, Known, Within, Follows, Page
  <2> QED BY <2>1, CallbackKeeps, MovesKeep, OtherKeysKeep, DrawKeeps DEF Next, Key
<1> QED BY <1>1, <1>2, PTL DEF Spec

\* Type correctness for any lists, any number of hosts and any heights: the list on the
\* screen has a length that some status has, and what is highlighted is in it.
THEOREM UITypeCorrect == Spec => []TypeOK
<1>1. UIInv => TypeOK
  BY DEF UIInv
<1> QED BY <1>1, SpecUIInv, PTL

\* Page Down on an empty list is the only step that puts the selection before the list.
LEMMA OnlyPageDown ==
  ASSUME UIInv, Next, selected' = -1, selected # -1
  PROVE  PageDown /\ listed = 0
<1>0. /\ listed \in Nat /\ selected \in Nat /\ Page \in Nat \ {0}
  BY Numbers DEF UIInv
<1>1. CASE PageDown
  <2>1. selected' = MinOf(listed - 1, selected + Page)
    BY <1>1 DEF PageDown, Move
  <2> QED BY <1>0, <1>1, <2>1 DEF MinOf
<1>2. CASE Up \/ Down \/ PageUp \/ HomeKey \/ EndKey \/ NoKey \/ Left \/ Right
  BY <1>0, <1>2 DEF Up, Down, PageUp, HomeKey, EndKey, NoKey, Left, Right, SelectHost, Move, MaxOf
<1>3. CASE Pause \/ Resize \/ Quit \/ (\E h \in Hosts : StatusCallback(h))
  BY <1>3 DEF Pause, Resize, Quit, StatusCallback, uiVars
<1>4. CASE Draw
  <2>1. UNCHANGED <<hosts, paused, host, height>>
    BY <1>4 DEF Draw
  <2>2. CASE DrawList
    BY <2>1, <2>2, ListDrawn
  <2> QED BY <1>4, <2>2 DEF Draw, DrawNoList
<1> QED BY <1>1, <1>2, <1>3, <1>4 DEF Next, Key

\* The selection never points behind the list of the last drawing, for any lists that the
\* callback puts in between the keys, and before it, where nothing is highlighted, only
\* after Page Down on an empty list (_handle_input, "Clamp selection to valid range").
THEOREM SelectionInList == Spec => SelectionWithinList
<1>1. UIInv /\ UIInv' /\ [Next]_vars =>
        [/\ selected' <= MaxOf(0, listed' - 1)
         /\ selected' = -1 => /\ screen'.marked = -1
                              /\ selected = -1 \/ (PageDown /\ listed = 0)]_vars
  <2> SUFFICES ASSUME UIInv, UIInv', Next
               PROVE  /\ selected' <= MaxOf(0, listed' - 1)
                      /\ selected' = -1 => /\ screen'.marked = -1
                                           /\ selected = -1 \/ (PageDown /\ listed = 0)
    OBVIOUS
  <2>1. /\ selected' <= MaxOf(0, listed' - 1)
        /\ selected' = -1 => screen'.marked = -1
    BY DEF UIInv, Within, MaxOf
  <2> QED BY <2>1, OnlyPageDown
<1> QED BY <1>1, SpecUIInv, PTL DEF Spec, SelectionWithinList

\* As long as the screen shows the rows that the keys assume, and no fewer than before, the
\* highlighted entry does not leave it, for any keys and any number of updates between two
\* drawings (_handle_input, _get_visible_process_count, _draw).
THEOREM SelectionOnScreen == Spec => SelectionStaysOnScreen
<1> DEFINE Stays == (/\ screen.marked >= 0
                     /\ screen'.rows >= screen.rows /\ screen.rows >= Page
                     /\ screen'.of > 0) => screen'.marked >= 0
<1>1. UIInv /\ [Next]_vars => [Stays]_vars
  <2> SUFFICES ASSUME UIInv, Next PROVE Stays
    OBVIOUS
  <2>1. CASE UNCHANGED screen
    BY <2>1
  <2>2. CASE screen' = NoList
    <3>1. screen.rows \in Nat /\ Page \in Nat \ {0} /\ screen'.rows = 0
      BY <2>2, Numbers DEF UIInv, NoList
    <3> QED BY <3>1
  <2>3. CASE Draw
    <3>1. UNCHANGED <<hosts, paused, host, height>>
      BY <2>3 DEF Draw
    <3> QED BY <2>1, <2>2, <2>3, <3>1, ListDrawn DEF Draw, DrawNoList
  <2> QED BY <2>1, <2>2, <2>3 DEF Next, Key, Up, Down, PageUp, PageDown, HomeKey, EndKey,
                                  NoKey, Move, Left, Right, SelectHost, Pause, Resize, Quit,
                                  StatusCallback, uiVars
<1> QED BY <1>1, SpecUIInv, PTL DEF Spec, SelectionStaysOnScreen
=============================================================================
