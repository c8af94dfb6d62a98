----------------------------- MODULE TerminalUI -----------------------------
(***************************************************************************)
(* The curses front end (terminal_ui/app.py): the subscription fills       *)
(* _hosts from the spin thread while the UI thread alternates between one  *)
(* key (or a timeout of getch) and one drawing.  Hosts are numbered in the *)
(* order of their names.  Rows and entries count; colours, columns and     *)
(* figures are left out.                                                   *)
(***************************************************************************)
EXTENDS Integers, FiniteSets, Sequences

CONSTANTS
  Hosts,     \* the hosts that may publish, numbered in the order of their names
  Statuses,  \* what they publish: [groups |-> sizes of the process groups, gpus |-> how many]
  NoStatus,
  Heights    \* the heights the terminal can have

ASSUME HostsAssumption == Hosts \subseteq Nat /\ IsFiniteSet(Hosts)
ASSUME StatusAssumption ==
  /\ Statuses \subseteq [groups : Seq(Nat \ {0}), gpus : Nat]
  /\ NoStatus \notin Statuses
ASSUME HeightsAssumption == Heights \subseteq Nat \ {0} /\ Heights # {}

VARIABLES
  hosts,     \* _hosts: host -> last status
  pc,        \* the UI thread: about to read a "key", to "draw", for the "last" time, "ended"
  paused,    \* _paused
  host,      \* _selected_host, an index from 0; -1 is possible
  selected,  \* _selected_process, an index from 0; -1 is possible
  scroll,    \* _scroll_offset
  listed,    \* the length of _display_procs
  height,    \* of the terminal, as curses knows it
  screen     \* what the last drawing shows of the process list

uiVars == <<pc, paused, host, selected, scroll, listed, height, screen>>
vars == <<hosts, uiVars>>

MaxOf(a, b) == IF a > b THEN a ELSE b
MinOf(a, b) == IF a < b THEN a ELSE b

\* No process list is on the screen, or rows of it: host, first entry, number of rows,
\* length of the list, and which entry is highlighted (-1: none).
NoList == [host |-> 0, first |-> 0, rows |-> 0, of |-> 0, marked |-> -1]
List(h, first, rows, of, marked) ==
  [host |-> h, first |-> first, rows |-> rows, of |-> of, marked |-> marked]

\* A process group is a launch process with its child nodes, or a single process; each
\* member is an entry of the flat list.
Members(status) == UNION {{g} \X (1 .. status.groups[g]) : g \in DOMAIN status.groups}
Entries(status) == Cardinality(Members(status))

Known == {h \in Hosts : hosts[h] # NoStatus}

\* The name at index host of the sorted names.
Shown == CHOOSE h \in Known : Cardinality({k \in Known : k < h}) = host
IsHost == 0 <= host /\ host < Cardinality(Known)

TypeOK ==
  /\ hosts \in [Hosts -> Statuses \cup {NoStatus}]
  /\ pc \in {"key", "draw", "last", "ended"}
  /\ paused \in BOOLEAN
  /\ host \in -1 .. MaxOf(0, Cardinality(Known) - 1)
  /\ listed \in {0} \cup {Entries(s) : s \in Statuses}
  /\ selected \in Nat \cup {-1} /\ scroll \in Nat
  /\ height \in Heights
  /\ screen.rows \in 0 .. height /\ screen.marked \in -1 .. listed - 1

Init ==
  /\ hosts = [h \in Hosts |-> NoStatus]
  /\ pc = "key" /\ paused = FALSE
  /\ host = 0 /\ selected = 0 /\ scroll = 0 /\ listed = 0
  /\ height \in Heights
  /\ screen = NoList

-----------------------------------------------------------------------------
\* _status_callback, in the spin thread.
StatusCallback(h) ==
  /\ \E status \in Statuses : hosts' = [hosts EXCEPT ![h] = status]
  /\ UNCHANGED uiVars

-----------------------------------------------------------------------------
\* _handle_input.  A step of the UI thread from "key" to "draw".

\* _get_visible_process_count: what the keys assume of the drawing.
Page == MaxOf(1, height - 21)

\* Keys that move only the selection and the scroll offset.
Move(to, offset) ==
  /\ pc = "key" /\ pc' = "draw"
  /\ selected' = to /\ scroll' = offset
  /\ UNCHANGED <<hosts, paused, host, listed, height, screen>>

Up ==
  IF selected > 0 THEN Move(selected - 1, MinOf(scroll, selected - 1))
                  ELSE Move(selected, scroll)

\* Variant: the scroll offset is adjusted one entry too late.
DownLate ==
  IF selected < listed - 1
  THEN Move(selected + 1, MaxOf(scroll, selected + 1 - Page))
  ELSE Move(selected, scroll)

Down ==
  IF selected < listed - 1
  THEN Move(selected + 1, MaxOf(scroll, selected + 1 - Page + 1))
  ELSE Move(selected, scroll)

\* Variant: Page Up does not stop at the first entry.
PageUpAny == Move(selected - Page, scroll - Page)

PageUp   == Move(MaxOf(0, selected - Page), MaxOf(0, scroll - Page))
PageDown == Move(MinOf(listed - 1, selected + Page),
                 MinOf(MaxOf(0, listed - Page), scroll + Page))
HomeKey  == Move(0, 0)
EndKey   == Move(MaxOf(0, listed - 1), MaxOf(0, listed - Page))

\* Left and right; the set of hosts is read at the key.
SelectHost(h) ==
  /\ pc = "key" /\ pc' = "draw"
  /\ host' = h /\ selected' = 0 /\ scroll' = 0
  /\ UNCHANGED <<hosts, paused, listed, height, screen>>

Left  == SelectHost(MaxOf(0, host - 1))
Right == SelectHost(MinOf(Cardinality(Known) - 1, host + 1))

Pause ==
  /\ pc = "key" /\ pc' = "draw"
  /\ paused' = ~paused
  /\ UNCHANGED <<hosts, host, selected, scroll, listed, height, screen>>

\* KEY_RESIZE: curses has taken over the new height and the screen is cleared.
Resize ==
  /\ pc = "key" /\ pc' = "draw"
  /\ height' \in Heights \ {height}
  /\ screen' = NoList
  /\ UNCHANGED <<hosts, paused, host, selected, scroll, listed>>

\* The loop draws once more before it ends.
Quit ==
  /\ pc = "key" /\ pc' = "last"
  /\ UNCHANGED <<hosts, paused, host, selected, scroll, listed, height, screen>>

\* Variant: getch waits for a key.
NoTimeout == FALSE

\* No key within the timeout, or one without a meaning.
NoKey == Move(selected, scroll)

Key == Up \/ Down \/ PageUp \/ PageDown \/ HomeKey \/ EndKey \/ Left \/ Right
       \/ Pause \/ Resize \/ NoKey

-----------------------------------------------------------------------------
\* _draw.

\* The row below the host names, and the one where the process list would start.
RowAfterHosts == MaxOf(3, MinOf(3 + Cardinality(Known), height - 1)) + 1
ListRow(status) ==
  LET gpuRow == RowAfterHosts + 4
  IN  MaxOf(gpuRow, MinOf(gpuRow + status.gpus, height - 1)) + 2

Fits(row) == row < height - 1

\* Variant: the selection is not clamped.
KeepSelection(n) == selected

\* "Clamp selection to valid range".
Clamp(n) == IF n > 0 THEN MinOf(selected, n - 1) ELSE 0

\* The drawing ends before it gets to the process list: nothing to show, or no room.
DrawNoList ==
  /\ IsHost => ~Fits(ListRow(hosts[Shown]))
  /\ screen' = NoList
  /\ UNCHANGED <<selected, scroll, listed>>

\* The list is rebuilt and the selection clamped, but there may be no room for entries.
DrawList ==
  /\ IsHost /\ Fits(ListRow(hosts[Shown]))
  /\ LET n    == Entries(hosts[Shown])
         rows == height - (ListRow(hosts[Shown]) + 2) - 1
     IN  /\ listed' = n
         /\ selected' = Clamp(n)
         /\ IF rows < 1
            THEN screen' = NoList /\ UNCHANGED scroll
            ELSE /\ scroll' = MinOf(scroll, MaxOf(0, n - rows))
                 /\ screen' = List(Shown, scroll', rows, n,
                                IF scroll' <= selected' /\ selected' < MinOf(n, scroll' + rows)
                                THEN selected' ELSE -1)

Draw ==
  /\ \/ pc = "draw" /\ pc' = "key"
     \/ pc = "last" /\ pc' = "ended"
  /\ IF paused THEN UNCHANGED <<selected, scroll, listed, screen>>
               ELSE DrawList \/ DrawNoList
  /\ UNCHANGED <<hosts, paused, host, height>>

Next ==
  \/ \E h \in Hosts : StatusCallback(h)
  \/ Key \/ Quit \/ Draw

Spec == Init /\ [][Next]_vars

\* getch returns after 100 ms if no key is pressed, and the loop goes on.
FairSpec == Spec /\ WF_vars(NoKey) /\ WF_vars(Draw)

-----------------------------------------------------------------------------
\* The selection never points behind the list of the last drawing, although the keys, the
\* callback and the drawing each have their own idea of the list and a low terminal keeps
\* it from being rebuilt.  It points before it, to -1, in one case: after Page Down on an
\* empty list.  The drawing does not correct that ("Clamp selection to valid range",
\* app.py:470, on a list that has entries by then), but highlights no entry.
SelectionWithinList ==
  [][/\ selected' <= MaxOf(0, listed' - 1)
     /\ selected' = -1 => /\ screen'.marked = -1
                          /\ selected = -1 \/ (PageDown /\ listed = 0)]_vars

\* The highlighted entry does not leave the screen as long as this shows the rows that the
\* keys assume (Page): whatever keys are pressed and lists come, the next list highlights
\* an entry too, if it is not empty and has no fewer rows than the last one.  The keys
\* compute the rows from the height alone, the drawing from hosts and GPUs as well: with
\* too many of these, or a new one, the entry can leave the screen, which is excluded here.
SelectionStaysOnScreen ==
  [][(/\ screen.marked >= 0
      /\ screen'.rows >= screen.rows /\ screen.rows >= Page
      /\ screen'.of > 0)
       => screen'.marked >= 0]_vars

\* No update is lost between the threads: as long as host h is selected and its last
\* status is s, the user interface is not paused and the terminal has room for the list,
\* this list is on the screen again and again, whether keys are pressed or not.
Selects(h, s) ==
  /\ ~paused /\ IsHost /\ Shown = h /\ hosts[h] = s /\ pc # "ended"
  /\ height > ListRow(s) + 3
ScreenCatchesUp ==
  \A h \in Hosts, s \in Statuses :
    <>[]Selects(h, s) => []<>(screen.host = h /\ screen.of = Entries(s))
=============================================================================
