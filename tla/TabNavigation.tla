----------------------------- MODULE TabNavigation -----------------------------
(* One load at a time, the engine's session history, and the tabs around it. *)
(* A load is begun by an action of the user or of the page and then pumped   *)
(* once per frame until it commits, fails or is cancelled; the frontend      *)
(* settles it in the same frame: the tab transition it belongs to, and the   *)
(* copy of the history that the active tab keeps.                            *)
(* Every action is one frame.  An address stands for its redirect chain; a   *)
(* move within a document, the browser's own pages, titles, scroll positions *)
(* and form state are left out.                                              *)
EXTENDS Naturals, Sequences

CONSTANTS
    Urls,          \* the addresses
    NoPage,        \* no page, no address
    SessionLimit,  \* history_capacity of the engine
    HistoryLimit,  \* BROWSER_TAB_HISTORY_LIMIT
    TabLimit       \* BROWSER_TAB_LIMIT

ASSUME LimitsAssumption ==
    /\ NoPage \notin Urls
    /\ HistoryLimit \in Nat \ {0} /\ SessionLimit \in Nat \ {0} /\ TabLimit \in Nat \ {0}
    /\ HistoryLimit <= SessionLimit

VARIABLES
    history,     \* the engine's history, [entries, at]
    page,        \* the document shown
    job,         \* the load in progress
    tabs,        \* the tabs' snapshots, [entries, at, asleep]
    active,      \* the selected tab
    card,        \* the file of the tab that sleeps
    transition,  \* the tab request that waits for a load
    astray       \* ghost: "page" when the page shown came without an entry,
                 \* "tab" when the active tab missed a commit, else "no"

vars == <<history, page, job, tabs, active, card, transition, astray>>

Phases == {"none", "fetch", "adapter", "finish"}
Histories(limit) ==
    {h \in [entries : UNION {[1 .. n -> Urls] : n \in 1 .. limit}, at : 1 .. limit] :
        h.at <= Len(h.entries)}

NoJob == [phase |-> "none", url |-> NoPage, record |-> FALSE, replace |-> FALSE, moved |-> FALSE,
          previous |-> 1, loose |-> FALSE]
NoTransition == [pending |-> FALSE, added |-> FALSE, previous |-> 1, closes |-> FALSE]

Idle == job.phase = "none"
UrlOf(h) == h.entries[h.at]
Awake(h) == [entries |-> h.entries, at |-> h.at, asleep |-> FALSE]
AsHistory(t) == [entries |-> t.entries, at |-> t.at]
Single(u) == [entries |-> <<u>>, at |-> 1]
NoFile == [entries |-> <<>>, at |-> 0]
Sleeper == [entries |-> <<>>, at |-> 0, asleep |-> TRUE]

TypeOK ==
    /\ history \in Histories(SessionLimit)
    /\ page \in Urls \cup {NoPage}
    /\ job \in [phase : Phases, url : Urls \cup {NoPage}, record : BOOLEAN, replace : BOOLEAN,
                moved : BOOLEAN, previous : 1 .. SessionLimit, loose : BOOLEAN]
    /\ Len(tabs) \in 1 .. TabLimit
    /\ \A i \in DOMAIN tabs :
         tabs[i] = Sleeper \/ (~tabs[i].asleep /\ AsHistory(tabs[i]) \in Histories(HistoryLimit))
    /\ card \in Histories(HistoryLimit) \cup {NoFile}
    /\ active \in DOMAIN tabs
    /\ transition \in [pending : BOOLEAN, added : BOOLEAN, previous : 1 .. TabLimit, closes : BOOLEAN]
    /\ astray \in {"no", "page", "tab"}

Init ==
    \E u \in Urls :
        /\ history = Single(u) /\ page = u
        /\ tabs = <<Awake(Single(u))>> /\ active = 1
        /\ card = NoFile /\ job = NoJob /\ transition = NoTransition
        /\ astray = "no"

--------------------------------------------------------------------------------
(* The session history and the tab snapshots. *)

\* history_push: forward entries go, and the oldest when the history is full.
Pushed(h, u) ==
    LET kept == Append(SubSeq(h.entries, 1, h.at), u)
        over == IF Len(kept) > SessionLimit THEN 1 ELSE 0
    IN [entries |-> SubSeq(kept, 1 + over, Len(kept)), at |-> Len(kept) - over]

\* history_replace_current.
Replaced(h, u) == [h EXCEPT !.entries[h.at] = u]

\* browser_tabs_capture_active copies a window of the engine's history.
Window(h) ==
    LET n     == Len(h.entries)
        start == IF n <= HistoryLimit \/ h.at < HistoryLimit THEN 0 ELSE h.at - HistoryLimit
        count == IF n - start > HistoryLimit THEN HistoryLimit ELSE n - start
    IN [entries |-> SubSeq(h.entries, start + 1, start + count), at |-> h.at - start]

Captured(s, i, h) == [s EXCEPT ![i] = Awake(Window(h))]

\* browser_tabs_remove: what becomes of the tabs, and of a selected index.
Removed(s, i) == SubSeq(s, 1, i - 1) \o SubSeq(s, i + 1, Len(s))
Shifted(i, removed) == IF i > removed THEN i - 1 ELSE i

--------------------------------------------------------------------------------
(* Beginning a load. *)

\* browser_engine_begin_navigation_request: an address of the site adapters
\* (YouTube, search) is built locally, any other is fetched.
Begun(u, how) ==
    {[how EXCEPT !.phase = p, !.url = u] : p \in {"fetch", "adapter"}}

\* A link, a form or an address: the new page gets an entry.
Link(u) ==
    /\ Idle
    /\ job' \in Begun(u, [NoJob EXCEPT !.record = TRUE])
    /\ UNCHANGED <<history, page, tabs, active, card, transition, astray>>

\* location.replace, or a refresh: it takes the place of the current entry.
ScriptReplace(u) ==
    /\ Idle /\ page # NoPage
    /\ job' \in Begun(u, [NoJob EXCEPT !.replace = TRUE])
    /\ UNCHANGED <<history, page, tabs, active, card, transition, astray>>

\* psp_app_reload: the current entry, or the address the recovery sheet offers,
\* which is that of any load that was interrupted or failed.
Reload ==
    /\ Idle
    /\ job' \in Begun(UrlOf(history), NoJob)
    /\ UNCHANGED <<history, page, tabs, active, card, transition, astray>>

Retry(u) ==
    /\ Idle
    /\ u # UrlOf(history)
    /\ job' \in Begun(u, [NoJob EXCEPT !.loose = TRUE])
    /\ UNCHANGED <<history, page, tabs, active, card, transition, astray>>

\* Back and Forward move the cursor before the load.
Move(to) ==
    /\ Idle
    /\ to \in {history.at - 1, history.at + 1} \cap DOMAIN history.entries
    /\ history' = [history EXCEPT !.at = to]
    /\ job' \in Begun(history.entries[to], [NoJob EXCEPT !.moved = TRUE, !.previous = history.at])
    /\ UNCHANGED <<page, tabs, active, card, transition, astray>>

--------------------------------------------------------------------------------
(* The end of a load, and what the frontend makes of it. *)

\* Mutation: the cursor stays where the failed move put it.
RestoredNot(shown) == history

\* browser_engine_navigation_restore_history, only over a page that is there.
Restored(shown) ==
    IF job.moved /\ shown # NoPage THEN [history EXCEPT !.at = job.previous] ELSE history

\* psp_tabs_finish of a load that did not succeed: the tab that was active is
\* selected again, a tab made for the load is removed.
Undo ==
    /\ tabs' = IF transition.added THEN Removed(tabs, active) ELSE tabs
    /\ active' = IF transition.pending THEN transition.previous ELSE active
    /\ transition' = NoTransition

Fails(shown) ==
    /\ page' = shown
    /\ history' = Restored(shown)
    /\ job' = NoJob
    /\ Undo
    /\ UNCHANGED <<card, astray>>

Cancels ==
    /\ history' = Restored(page)
    /\ job' = NoJob
    /\ Undo
    /\ UNCHANGED <<page, card, astray>>

\* Mutation: another tab may be asleep already.
HibernateAnother(s, i) ==
    /\ tabs' = [s EXCEPT ![i] = Sleeper]
    /\ card' = AsHistory(s[i])

\* browser_tabs_hibernate writes one tab to the card; one sleeps at a time.
Hibernate(s, i) ==
    /\ \A j \in DOMAIN s : ~s[j].asleep
    /\ tabs' = [s EXCEPT ![i] = Sleeper]
    /\ card' = AsHistory(s[i])

\* browser_tabs_rehydrate reads it back and removes the file.
Woken(s, i) == IF s[i].asleep THEN [s EXCEPT ![i] = Awake(card)] ELSE s
CardWithout(i) == IF tabs[i].asleep THEN NoFile ELSE card

\* psp_tabs_finish of a load that succeeded: the target's entry takes the
\* address that arrived, its history is installed in the engine, and a tab that
\* was to close goes.
FinishTab ==
    LET landed == Replaced(tabs[active], job.url)
        h      == AsHistory(landed)
        index  == IF transition.closes THEN Shifted(active, transition.previous) ELSE active
        kept   == IF transition.closes THEN Removed(tabs, transition.previous) ELSE tabs
        ready  == Captured(kept, index, h)
    IN /\ history' = h
       /\ \/ tabs' = ready /\ UNCHANGED card
          \/ transition.added /\ Hibernate(ready, transition.previous)
       /\ active' = index
       /\ astray' = "no"

\* The engine refuses the history: the tab is reset to one entry, the engine
\* keeps the history it has.
LimitTab(h) ==
    LET reset == [tabs EXCEPT ![active] = Awake(Single(job.url))]
    IN /\ history' = h
       /\ tabs' = IF transition.closes THEN Removed(reset, transition.previous) ELSE reset
       /\ active' = IF transition.closes THEN Shifted(active, transition.previous) ELSE active
       /\ astray' = "page"
       /\ UNCHANGED card

Settle(h) ==
    /\ page' = job.url /\ job' = NoJob
    /\ IF transition.pending
         THEN /\ FinishTab \/ LimitTab(h)
              /\ transition' = NoTransition
         ELSE /\ history' = h
              /\ tabs' = Captured(tabs, active, h)
              /\ astray' = IF job.loose THEN "page" ELSE "no"
              /\ UNCHANGED <<active, card, transition>>

\* Circle during the very pump that committed: the engine has the page, the
\* frontend settles a cancelled load.
SettleCancelled(h) ==
    /\ page' = job.url /\ job' = NoJob /\ history' = h
    /\ Undo
    /\ astray' = IF job.loose THEN "page" ELSE "tab"
    /\ UNCHANGED card

--------------------------------------------------------------------------------
(* Pumping a load: navigation_load_pump, navigation_load_finish, and the site *)
(* adapter's pump.                                                            *)

Continues(j) == job' = j /\ UNCHANGED <<history, page, tabs, active, card, transition, astray>>

\* The load turns into a site adapter's, by a redirect or as the answer to a
\* refused search.  The armed replacement was taken when the load began, and
\* the adapter's commit does not find it.
ByAdapter == [job EXCEPT !.phase = "adapter", !.replace = FALSE,
                         !.loose = job.loose \/ job.replace]
RedirectToAdapter == job.phase = "fetch" /\ (Continues(ByAdapter) \/ Fails(page))
FallBackFromGoogle == job.phase = "fetch" /\ ~job.moved /\ Continues(ByAdapter)

Download == job.phase = "fetch" /\ Cancels
FailFetch == job.phase = "fetch" /\ Fails(page)

\* navigation_load_finalize_parse of the complete response.  Where memory does
\* not hold two documents, the page shown is given up first.
Parse ==
    /\ job.phase = "fetch"
    /\ \E shown \in {page, NoPage} :
         \/ /\ page' = shown
            /\ job' = [job EXCEPT !.phase = "finish"]
            /\ UNCHANGED <<history, tabs, active, card, transition, astray>>
         \/ Fails(shown)

\* What the commit makes of the history.
Outcome ==
    IF job.record THEN Pushed(history, job.url)
    ELSE IF job.replace THEN Replaced(history, job.url) ELSE history

\* The candidate is built in slices and published in one step, which the
\* history may refuse.
Commit ==
    /\ job.phase \in {"finish", "adapter"}
    /\ Settle(Outcome) \/ SettleCancelled(Outcome) \/ Fails(page)

\* The watchdog ends a load that makes no progress; Circle ends any.
CancelLoad == ~Idle /\ Cancels

Pump ==
    \/ RedirectToAdapter \/ FallBackFromGoogle \/ Download \/ FailFetch
    \/ Parse \/ Commit

\* psp_suspend_pending_navigation ends the load but not its tab transition.
Suspend ==
    /\ ~Idle
    /\ history' = Restored(page)
    /\ job' = NoJob
    /\ UNCHANGED <<page, tabs, active, card, transition, astray>>

\* A link on the page that is loading: the load gives way to another, or to
\* none when that cannot start; the transition waits on.
PreviewLink(u) ==
    /\ ~Idle
    /\ history' = Restored(page)
    /\ job' \in Begun(u, [NoJob EXCEPT !.record = TRUE]) \cup {NoJob}
    /\ UNCHANGED <<page, tabs, active, card, transition, astray>>

--------------------------------------------------------------------------------
(* Tab requests: psp_tabs_request, and the load it asks for. *)

\* The document shown is captured before anything else.
Current == Captured(tabs, active, history)
Caught == IF astray = "tab" THEN "no" ELSE astray

\* The request selects a tab, awake by now, and begins its load; or the load
\* cannot begin and the selection is undone; or the tab cannot be read from the
\* card, or made.
Request(s, i, t) ==
    /\ \/ /\ job' \in Begun(UrlOf(s[i]), [NoJob EXCEPT !.loose = TRUE])
          /\ tabs' = s /\ active' = i
          /\ transition' = [t EXCEPT !.pending = TRUE, !.previous = active]
          /\ card' = IF t.added THEN card ELSE CardWithout(i)
       \/ /\ tabs' = IF t.added THEN Current ELSE s
          /\ card' = IF t.added THEN card ELSE CardWithout(i)
          /\ UNCHANGED <<job, active, transition>>
       \/ /\ tabs' = Current
          /\ UNCHANGED <<job, active, card, transition>>
    /\ astray' = Caught
    /\ UNCHANGED <<history, page>>

MayRequest == Idle /\ ~transition.pending

SwitchTab(i) ==
    /\ MayRequest /\ i # active
    /\ Request(Woken(Current, i), i, NoTransition)

NewTab(u) ==
    /\ MayRequest /\ Len(tabs) < TabLimit
    /\ Request(Append(Current, Awake(Single(u))), Len(tabs) + 1, [NoTransition EXCEPT !.added = TRUE])

CloseActive ==
    LET i == IF active < Len(tabs) THEN active + 1 ELSE active - 1
    IN /\ MayRequest /\ Len(tabs) > 1
       /\ Request(Woken(Current, i), i, [NoTransition EXCEPT !.closes = TRUE])

CloseTab(i) ==
    /\ MayRequest /\ i # active
    /\ tabs' = Removed(Current, i)
    /\ active' = Shifted(active, i)
    /\ card' = CardWithout(i)
    /\ astray' = Caught
    /\ UNCHANGED <<history, page, job, transition>>

--------------------------------------------------------------------------------
Next ==
    \/ \E u \in Urls : Link(u) \/ ScriptReplace(u) \/ Retry(u) \/ PreviewLink(u) \/ NewTab(u)
    \/ Reload
    \/ \E to \in DOMAIN history.entries : Move(to)
    \/ Pump \/ CancelLoad \/ Suspend
    \/ CloseActive
    \/ \E i \in DOMAIN tabs : SwitchTab(i) \/ CloseTab(i)

Spec == Init /\ [][Next]_vars

--------------------------------------------------------------------------------
(* Properties. *)

\* Between loads the active tab's snapshot is the engine's history, as much of
\* it as a tab keeps, so that leaving the tab and coming back finds the same
\* place.  The exceptions are a page that arrived without an entry, a commit the
\* frontend settled as cancelled, and a transition whose load was suspended.
TabOwnsHistory ==
    (Idle /\ ~transition.pending /\ page # NoPage /\ astray = "no")
        => /\ AsHistory(tabs[active]) = Window(history)
           /\ ~tabs[active].asleep
           /\ page = UrlOf(history)

\* What the user sees: the transition and the move in progress not yet made.
Owner == IF transition.pending THEN transition.previous ELSE active
SeenTabs ==
    LET kept == IF transition.added THEN Removed(tabs, active) ELSE tabs
    IN SubSeq([i \in DOMAIN kept |-> IF i = Owner THEN Restored(page)
                                      ELSE IF kept[i].asleep THEN card ELSE AsHistory(kept[i])],
              1, Len(kept))

Seen == INSTANCE TabbedHistory
            WITH tabs <- SeenTabs, active <- Owner, filed <- astray # "page"

\* Every load, however it is begun, retried, redirected, cancelled or failed,
\* and every tab request does to the tabs' histories what TabbedHistory says.
ImplementsTabbedHistory == Seen!Spec
================================================================================
