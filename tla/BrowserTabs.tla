---------------------------- MODULE BrowserTabs ----------------------------
(***************************************************************************)
(* The tab list of the browser tool (src/src/agents/tools/browser-tool.ts).*)
(* The list is a module-level object shared by every call of the tool, of  *)
(* every session.  A call keeps a reference to the tab object it resolved, *)
(* and goes on using it after an await even when the list has dropped it:  *)
(* `tab` holds every object ever built, `tabs` the ones in the list, which *)
(* is only ever added to at its end and filtered, so that it is in the     *)
(* order in which its tabs were built.                                     *)
(*                                                                         *)
(* A page is known by its URL; the text, the links, the forms and the refs *)
(* of a snapshot are those of the URL it was taken at.                     *)
(***************************************************************************)
EXTENDS Naturals, Sequences, FiniteSetsExt

CONSTANTS
    Urls,      \* the addresses a tab can show
    None       \* no snapshot

VARIABLES
    tab,           \* every tab object built so far
    tabs,          \* browserState.tabs, as a set of positions in `tab`
    activeTabId,   \* browserState.activeTabId, 0 for null
    nextTabIndex   \* browserState.nextTabIndex

tabVars == <<tab, tabs, activeTabId, nextTabIndex>>

TabsInit ==
    /\ tab = <<>>
    /\ tabs = {}
    /\ activeTabId = 0
    /\ nextTabIndex = 1

OpenTabs == {h \in DOMAIN tab : h \in tabs}

BuildTabRecord(url) ==
    [id |-> nextTabIndex, url |-> url, history |-> <<url>>, historyIndex |-> 1,
     lastSnapshot |-> None]

\* A popup's tab is created in the background: the active tab stays.
CreateBackgroundTab(url) ==
    /\ tab' = Append(tab, BuildTabRecord(url))
    /\ tabs' = tabs \cup {Len(tab) + 1}
    /\ nextTabIndex' = nextTabIndex + 1

CreateTab(url) ==
    /\ CreateBackgroundTab(url)
    /\ activeTabId' = nextTabIndex

\* The history of a tab that leaves its entry for url: what was ahead is lost.
Pushed(t, url) ==
    LET kept == Append(SubSeq(t.history, 1, t.historyIndex), url)
    IN  [t EXCEPT !.history = kept, !.historyIndex = Len(kept)]

NavigateKeepsSnapshot(t, url) ==
    [Pushed(t, url) EXCEPT !.url = url]

NavigateTab(t, url) ==
    [Pushed(t, url) EXCEPT !.url = url, !.lastSnapshot = None]

AppendHistoryEntry(t, url) ==
    IF t.history[t.historyIndex] = url THEN t ELSE Pushed(t, url)

\* The address a page is found at: a new history entry when it moved.
Visited(t, url) ==
    [(IF url # t.url THEN AppendHistoryEntry(t, url) ELSE t) EXCEPT !.url = url]

\* A tab after captureTabSnapshot or captureLiveTabSnapshot wrote its result.
Captured(t, url) ==
    [t EXCEPT !.url = url, !.history[t.historyIndex] = url, !.lastSnapshot = url]

\* The same without a snapshot (snapshotAfter = false).
Located(t, url) ==
    [t EXCEPT !.url = url, !.history[t.historyIndex] = url]

\* The entry that "back" and "forward" go to.
Entry(t, action) ==
    IF action = "back"
    THEN IF t.historyIndex > 1 THEN t.historyIndex - 1 ELSE 1
    ELSE IF t.historyIndex < Len(t.history) THEN t.historyIndex + 1
                                            ELSE Len(t.history)

CloseTabOnly(id) ==
    /\ tabs' = {h \in tabs : tab[h].id # id}
    /\ UNCHANGED activeTabId

\* closeTab drops every tab of that id, and the last one left takes its place.
CloseTab(id) ==
    LET left == {h \in tabs : tab[h].id # id}
    IN  /\ tabs' = left
        /\ activeTabId' = IF activeTabId # id THEN activeTabId
                          ELSE IF left = {} THEN 0 ELSE tab[Max(left)].id

ResetNumberingOnly ==
    /\ activeTabId' = 0
    /\ nextTabIndex' = 1
    /\ UNCHANGED tabs

ResetTabs ==
    /\ tabs' = {}
    /\ activeTabId' = 0
    /\ nextTabIndex' = 1
=============================================================================
