----------------------------- MODULE TabbedHistory -----------------------------
(* What tabbed browsing promises: every tab has a history and a place in it, *)
(* the page shown belongs to the entry under the active tab's cursor, and one *)
(* load changes one thing: it adds an entry, replaces one, moves the cursor,  *)
(* or lands in a tab.  A load that fails changes nothing.  The last three     *)
(* actions are the exceptions the browser allows itself; each is named.       *)
EXTENDS Naturals, Sequences

CONSTANTS
    Urls,          \* the addresses
    NoPage,        \* the page shown when there is none
    SessionLimit,  \* entries the active tab may have
    HistoryLimit,  \* entries remembered of a tab that is not active
    TabLimit       \* tabs

VARIABLES
    tabs,    \* the tabs' histories, [entries, at]
    active,  \* the active tab
    page,    \* the page shown, or NoPage
    filed    \* the page shown belongs to the entry under the cursor

vars == <<tabs, active, page, filed>>

Here == tabs[active]
UrlOf(h) == h.entries[h.at]
Single(u) == [entries |-> <<u>>, at |-> 1]

\* A new entry ends the forward entries and, at the limit, costs the oldest.
Visited(h, u) ==
    LET kept == Append(SubSeq(h.entries, 1, h.at), u)
        over == IF Len(kept) > SessionLimit THEN 1 ELSE 0
    IN [entries |-> SubSeq(kept, 1 + over, Len(kept)), at |-> Len(kept) - over]

Replaced(h, u) == [h EXCEPT !.entries[h.at] = u]

\* The part of a history that is remembered: a window that ends at the cursor,
\* or as near to it as a full window can.
Remembered(h) ==
    LET n     == Len(h.entries)
        ends  == IF h.at <= HistoryLimit THEN HistoryLimit ELSE h.at
        last  == IF ends > n THEN n ELSE ends
        first == IF last > HistoryLimit THEN last - HistoryLimit ELSE 0
    IN [entries |-> SubSeq(h.entries, first + 1, last), at |-> h.at - first]

\* What a tab keeps when another becomes active.  While its page is lost its
\* cursor is where it was when the tab was left or where a failed move put it.
LeftBehind(h) ==
    {Remembered([h EXCEPT !.at = c]) : c \in IF page = NoPage THEN DOMAIN h.entries ELSE {h.at}}

Init ==
    \E u \in Urls : /\ tabs = <<Single(u)>> /\ active = 1
                    /\ page = u /\ filed = TRUE

--------------------------------------------------------------------------------
(* Loads in the active tab. *)

Shows(u) == page' = u /\ filed' = TRUE

Visit(u)   == Shows(u) /\ UNCHANGED active /\ tabs' = [tabs EXCEPT ![active] = Visited(Here, u)]
Replace(u) == Shows(u) /\ UNCHANGED active /\ tabs' = [tabs EXCEPT ![active] = Replaced(Here, u)]
Reload     == UNCHANGED <<active, tabs>> /\ Shows(UrlOf(Here))
Traverse(c) ==
    /\ Shows(Here.entries[c]) /\ UNCHANGED active
    /\ c \in {Here.at - 1, Here.at + 1}
    /\ tabs' = [tabs EXCEPT ![active].at = c]

--------------------------------------------------------------------------------
(* Tabs.  u is the address at which the load ended. *)

\* The tabs once `closed` is gone, and the index of tab i among them.
Without(s, closed) == SubSeq(s, 1, closed - 1) \o SubSeq(s, closed + 1, Len(s))
Shifted(i, closed) == IF i > closed THEN i - 1 ELSE i

OpenTab(u) ==
    /\ Shows(u)
    /\ Len(tabs) < TabLimit
    /\ active' = Len(tabs) + 1
    /\ \E h \in LeftBehind(Here) : tabs' = Append([tabs EXCEPT ![active] = h], Single(u))

SwitchTab(i, u) ==
    /\ Shows(u)
    /\ i # active /\ active' = i
    /\ \E h \in LeftBehind(Here) :
         tabs' = [tabs EXCEPT ![active] = h, ![i] = Replaced(tabs[i], u)]

CloseTab(i) ==
    /\ UNCHANGED <<page, filed>>
    /\ i # active /\ active' = Shifted(active, i)
    /\ tabs' = Without(tabs, i)

\* The active tab closes once its neighbour is shown.
CloseActive(u) ==
    LET i == IF active < Len(tabs) THEN active + 1 ELSE active - 1
    IN /\ Shows(u)
       /\ Len(tabs) > 1
       /\ active' = Shifted(i, active)
       /\ tabs' = Without([tabs EXCEPT ![i] = Replaced(tabs[i], u)], active)

--------------------------------------------------------------------------------
(* Exceptions. *)

\* On a machine too small for two pages the page goes before its successor is
\* known to load, and a failed traversal then leaves the cursor at its target.
LosePage(c) ==
    /\ page' = NoPage /\ UNCHANGED <<active, filed>>
    /\ c \in {Here.at - 1, Here.at, Here.at + 1}
    /\ tabs' = [tabs EXCEPT ![active].at = c]

\* The page is shown, but the history does not say so.
ShowsUnfiled(u) == page' = u /\ filed' = FALSE
Misfile(u) == ShowsUnfiled(u) /\ UNCHANGED <<tabs, active>>

\* The tab's own history could not be installed: it goes on with the history
\* of the tab it was reached from, as the load left it.
LimitedTab(i, u, closes) ==
    LET outcomes == {Here, Visited(Here, u), Replaced(Here, u)}
                      \cup {[Here EXCEPT !.at = c] : c \in DOMAIN Here.entries}
    IN /\ ShowsUnfiled(u)
       /\ i # active /\ active' = IF closes THEN Shifted(i, active) ELSE i
       /\ i = Len(tabs) + 1 => ~closes /\ Len(tabs) < TabLimit
       /\ \E left \in LeftBehind(Here), h \in outcomes :
            LET landed == [j \in DOMAIN tabs \cup {i} |->
                             IF j = i THEN h ELSE IF j = active THEN left ELSE tabs[j]]
            IN tabs' = IF closes THEN Without(landed, active) ELSE landed

Next ==
    \/ Reload
    \/ \E u \in Urls :
         \/ Visit(u) \/ Replace(u)
         \/ OpenTab(u) \/ CloseActive(u)
         \/ \E i \in DOMAIN tabs : SwitchTab(i, u)
         \/ Misfile(u)
         \/ \E i \in 1 .. Len(tabs) + 1, closes \in BOOLEAN : LimitedTab(i, u, closes)
    \/ \E i \in DOMAIN tabs : CloseTab(i)
    \/ \E c \in DOMAIN Here.entries : Traverse(c) \/ LosePage(c)

Spec == Init /\ [][Next]_vars
================================================================================
