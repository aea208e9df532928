------------------------------ MODULE Browser ------------------------------
(***************************************************************************)
(* The browser tool: calls that share one tab list and one live browser    *)
(* (src/src/agents/tools/browser-tool.ts).  Node runs one callback at a    *)
(* time, so a call is atomic between two awaits; at every await the calls  *)
(* of other sessions, and those a timed-out turn left behind, go on.       *)
(* Every await on the network, on a page or on the browser may also fail.  *)
(***************************************************************************)
EXTENDS BrowserTabs, Functions

CONSTANTS
    MaxTabs,       \* tab objects
    MaxPages,      \* pages of the live engine
    MaxLaunches,   \* browser processes
    MaxObjects,    \* tab objects, pages and processes together
    Slots,         \* one for each call that can be under way at once
    MaxEvents      \* calls, and pages and browsers lost by themselves

ASSUME BrowserAssumption ==
    /\ None \notin Urls
    /\ {MaxTabs, MaxPages, MaxLaunches, MaxObjects, MaxEvents} \subseteq Nat \ {0}

VARIABLES
    browsers,      \* the processes launched: does each still run?
    liveBrowser,   \* the one the module holds, 0 for null
    liveContext,   \* the browser of the context it holds, 0 for null
    page,          \* every page opened, with the tab id its handlers know
    live,          \* livePagesByTabId: the page of a tab id, 0 for none
    call,          \* the calls under way
    events,        \* how many calls began, and pages and browsers were lost
    overlap        \* did two calls ever overlap?

runtimeVars == <<browsers, liveBrowser, liveContext, page, live>>
vars == <<tabVars, runtimeVars, call, events, overlap>>

Ids == 1..MaxTabs

\* A call: its action, the await it stands at, the tab object and the page it
\* holds, the address it read off the page, the one it started from, the tab
\* a popup came from, the tab ids still to close, whether the snapshot under way is
\* the one the action needs first, and whether it ran alone so far.
Idle == [op |-> "none", at |-> "idle", tab |-> 0, page |-> 0, browser |-> 0,
         url |-> None, before |-> None, parent |-> 0, todo |-> {},
         seed |-> FALSE, alone |-> TRUE]

\* There is room for one more tab, page or browser.
Room == Len(tab) + Len(page) + Len(browsers) < MaxObjects

Busy == {c \in Slots : call[c].at # "idle"}

Init ==
    /\ TabsInit
    /\ browsers = <<>>
    /\ liveBrowser = 0
    /\ liveContext = 0
    /\ page = <<>>
    /\ live = [i \in Ids |-> 0]
    /\ call = [c \in Slots |-> Idle]
    /\ events = 0
    /\ overlap = FALSE

\* Call c goes on as r.  Only of stop and reset is it kept that it ran alone.
Go(c, r) ==
    LET shared == Busy \ {c} # {} IN
    /\ call' = [d \in Slots |->
                  LET q == IF d = c THEN r ELSE call[d]
                  IN  IF q.op \in {"stop", "reset"} /\ shared
                      THEN [q EXCEPT !.alone = FALSE] ELSE q]
    /\ overlap' = (overlap \/ shared)

Done(c) == Go(c, Idle)

\* The state a call begins in.
New(op, h) == [Idle EXCEPT !.op = op, !.tab = h]

Begin(c) ==
    /\ events < MaxEvents
    /\ c \notin Busy
    /\ events' = events + 1

Put(h, t) == tab' = [tab EXCEPT ![h] = t]

SetActiveTab(h) == activeTabId' = tab[h].id

PageOf(h) == live[tab[h].id]

\* The address of a page; that of its tab while the page is still blank.
Shown(p, t) == IF page[p].url = None THEN t.url ELSE page[p].url

\* The calls that go on with the fetch engine when the live one fails.
Fallback == {"open", "navigate", "snapshot"}

\* The rest of call r once it waits for a snapshot with page p, or for the
\* fetch engine: all that still matters is whether a failure falls back, and
\* what follows the snapshot that an action needs first.
Waiting(r, at, p) ==
    [Idle EXCEPT !.at = at, !.page = p, !.tab = r.tab, !.parent = r.parent,
                 !.seed = r.seed, !.alone = r.alone,
                 !.op = IF r.seed THEN r.op
                        ELSE IF r.op \in Fallback THEN "snapshot" ELSE "capture"]

----------------------------------------------------------------------------
(* The live runtime.                                                       *)

\* ensureLiveRuntime up to its first await that has to wait.
EnsureLiveRuntime(r) ==
    IF liveBrowser = 0 THEN [r EXCEPT !.at = "launch"]
    ELSE IF liveContext = 0
         THEN [r EXCEPT !.at = "context", !.browser = liveBrowser]
         ELSE IF r.op = "start" THEN Idle
              ELSE [r EXCEPT !.at = "newPage", !.browser = liveContext]

\* What waits for the runtime goes on with context x.
WithContext(r, x) ==
    IF r.op = "start" THEN Idle
                      ELSE [r EXCEPT !.at = "newPage", !.browser = x]

\* chromium.launch resolves: the module holds the new process, whatever it
\* held before, and asks it for a context unless it holds one.
Launched(c) ==
    LET r == call[c]  b == Len(browsers) + 1 IN
    /\ r.at = "launch"
    /\ Room /\ b <= MaxLaunches
    /\ browsers' = Append(browsers, TRUE)
    /\ liveBrowser' = b
    /\ Go(c, IF liveContext = 0
             THEN [r EXCEPT !.at = "context", !.browser = b]
             ELSE WithContext(r, liveContext))
    /\ UNCHANGED <<tabVars, liveContext, page, live, events>>

ContextReady(c) ==
    LET r == call[c] IN
    /\ r.at = "context"
    /\ browsers[r.browser]
    /\ liveContext' = r.browser
    /\ Go(c, WithContext(r, r.browser))
    /\ UNCHANGED <<tabVars, browsers, liveBrowser, page, live, events>>

\* attachLivePage puts the page in the map under the tab's id.
AttachLivePage(id, p) == live' = [live EXCEPT ![id] = p]

\* newPage resolves, the page is attached to the call's tab and navigated.
PageReady(c) ==
    LET r == call[c]  p == Len(page) + 1 IN
    /\ r.at = "newPage"
    /\ browsers[r.browser]
    /\ Room /\ p <= MaxPages
    /\ page' = Append(page, [url |-> None, browser |-> r.browser,
                             open |-> TRUE, own |-> TRUE,
                             id |-> tab[r.tab].id])
    /\ AttachLivePage(tab[r.tab].id, p)
    /\ Go(c, [r EXCEPT !.at = "goto", !.page = p, !.browser = 0])
    /\ UNCHANGED <<tabVars, browsers, liveBrowser, liveContext, events>>

\* The close handler of a page forgets the page unless another took its place.
Forget(m, ps) == [i \in Ids |-> IF m[i] \in ps THEN 0 ELSE m[i]]

Closed(ps) == [p \in DOMAIN page |->
                 IF p \in ps THEN [page[p] EXCEPT !.open = FALSE] ELSE page[p]]

PagesOf(b) == {p \in DOMAIN page : page[p].browser = b}

----------------------------------------------------------------------------
(* stop and reset.                                                         *)

\* The end of the call; only reset clears the tab list.
EndReset(c, r) ==
    /\ IF r.op = "reset" THEN ResetTabs
                         ELSE UNCHANGED <<tabs, activeTabId, nextTabIndex>>
    /\ Done(c)

\* resetLiveRuntime with m the map of live pages: closeLiveTab for the ids
\* listed at its start that still have a page, then the context, the browser.
ResetLiveRuntime(c, r, m) ==
    LET left == {i \in r.todo : m[i] # 0} IN
    IF left # {}
    THEN LET i == Min(left) IN
         /\ live' = [m EXCEPT ![i] = 0]
         /\ Go(c, [r EXCEPT !.at = "drop", !.page = m[i], !.todo = left \ {i}])
         /\ UNCHANGED <<tabs, activeTabId, nextTabIndex>>
    ELSE /\ live' = m
         /\ IF liveContext # 0
            THEN /\ Go(c, [r EXCEPT !.at = "closeContext", !.browser = liveContext,
                                    !.page = 0, !.todo = {}])
                 /\ UNCHANGED <<tabs, activeTabId, nextTabIndex>>
            ELSE IF liveBrowser # 0
            THEN /\ Go(c, [r EXCEPT !.at = "closeBrowser", !.browser = liveBrowser,
                                    !.page = 0, !.todo = {}])
                 /\ UNCHANGED <<tabs, activeTabId, nextTabIndex>>
            ELSE EndReset(c, r)

StopOrReset(c, op) ==
    /\ Begin(c)
    /\ ResetLiveRuntime(c, [New(op, 0) EXCEPT !.todo = {i \in Ids : live[i] # 0}],
                        live)
    /\ UNCHANGED <<tab, browsers, liveBrowser, liveContext, page>>

\* liveContext.close() settles: its pages are closed, and the module drops the
\* context it holds by now.
ContextClosed(c) ==
    LET r == call[c] IN
    /\ r.at = "closeContext"
    /\ page' = Closed(PagesOf(r.browser))
    /\ live' = Forget(live, PagesOf(r.browser))
    /\ liveContext' = 0
    /\ IF liveBrowser # 0
       THEN /\ Go(c, [r EXCEPT !.at = "closeBrowser", !.browser = liveBrowser])
            /\ UNCHANGED <<tabs, activeTabId, nextTabIndex>>
       ELSE EndReset(c, r)
    /\ UNCHANGED <<tab, browsers, liveBrowser, events>>

BrowserClosedButKept(c) ==
    LET r == call[c] IN
    /\ r.at = "closeBrowser"
    /\ browsers' = [browsers EXCEPT ![r.browser] = FALSE]
    /\ page' = Closed(PagesOf(r.browser))
    /\ live' = Forget(live, PagesOf(r.browser))
    /\ EndReset(c, r)
    /\ UNCHANGED <<tab, liveBrowser, liveContext, events>>

BrowserClosed(c) ==
    LET r == call[c] IN
    /\ r.at = "closeBrowser"
    /\ browsers' = [browsers EXCEPT ![r.browser] = FALSE]
    /\ page' = Closed(PagesOf(r.browser))
    /\ live' = Forget(live, PagesOf(r.browser))
    /\ liveBrowser' = 0
    /\ EndReset(c, r)
    /\ UNCHANGED <<tab, liveContext, events>>

----------------------------------------------------------------------------
(* How a call begins.  Live awaits follow when the tab has a page or the   *)
(* call asked for the live engine, a request of the fetch engine otherwise.*)

\* captureLiveTabSnapshot of the tab, or captureTabSnapshot, or neither: no
\* snapshot was asked for, or the live engine was and the tab has no page.
Capture(c, r, t) ==
    IF live[t.id] # 0
    THEN Go(c, Waiting(r, "settle", live[t.id]))
    ELSE Go(c, Waiting(r, "fetch", 0)) \/ Done(c)

\* open, search with openFirstResult, and snapshot of an address: a new tab.
OpenTab(c, url) ==
    LET r == New("open", Len(tab) + 1) IN
    /\ Begin(c)
    /\ Room /\ Len(tab) < MaxTabs
    /\ CreateTab(url)
    /\ \/ Go(c, EnsureLiveRuntime(r))
       \/ Go(c, Waiting(r, "fetch", 0))
       \/ Done(c)
    /\ UNCHANGED runtimeVars

\* start only prepares the live runtime.
Start(c) ==
    /\ Begin(c)
    /\ Go(c, EnsureLiveRuntime(New("start", 0)))
    /\ UNCHANGED <<tabVars, runtimeVars>>

Focus(c, h) ==
    /\ Begin(c)
    /\ SetActiveTab(h)
    /\ Done(c)
    /\ UNCHANGED <<tab, tabs, nextTabIndex, runtimeVars>>

\* What screenshot, dialog, console, downloads and pdf look at is not modelled;
\* so do the calls end that throw because the tab has no page.
Screenshot(c, h) == Focus(c, h)

Inspect(c, h) == Focus(c, h)

\* closeLiveTab(tab.id): out of the map at once, closed after an await.
Close(c, h) ==
    /\ Begin(c)
    /\ IF PageOf(h) = 0
       THEN CloseTab(tab[h].id) /\ Done(c) /\ UNCHANGED live
       ELSE /\ live' = [live EXCEPT ![tab[h].id] = 0]
            /\ Go(c, [New("close", h) EXCEPT !.at = "drop", !.page = PageOf(h)])
            /\ UNCHANGED <<tabs, activeTabId>>
    /\ UNCHANGED <<tab, nextTabIndex, browsers, liveBrowser, liveContext, page>>

Navigate(c, h, url) ==
    LET r == New("navigate", h) IN
    /\ Begin(c)
    /\ Put(h, NavigateTab(tab[h], url))
    /\ SetActiveTab(h)
    /\ IF PageOf(h) # 0
       THEN Go(c, [r EXCEPT !.at = "goto", !.page = PageOf(h)])
       ELSE \/ Go(c, EnsureLiveRuntime(r))
            \/ Go(c, Waiting(r, "fetch", 0))
            \/ Done(c)
    /\ UNCHANGED <<tabs, nextTabIndex, runtimeVars>>

Reload(c, h) ==
    LET r == New("navigate", h) IN
    /\ Begin(c)
    /\ SetActiveTab(h)
    /\ IF PageOf(h) # 0
       THEN Go(c, [r EXCEPT !.at = "goto", !.page = PageOf(h)])
       ELSE Capture(c, r, tab[h])
    /\ UNCHANGED <<tab, tabs, nextTabIndex, runtimeVars>>

Snapshot(c, h) ==
    /\ Begin(c)
    /\ SetActiveTab(h)
    /\ Capture(c, New("snapshot", h), tab[h])
    /\ UNCHANGED <<tab, tabs, nextTabIndex, runtimeVars>>

\* forms takes a snapshot when the tab has none, and throws when that fails.
Forms(c, h) ==
    /\ Begin(c)
    /\ tab[h].lastSnapshot = None
    /\ SetActiveTab(h)
    /\ Capture(c, New("forms", h), tab[h])
    /\ UNCHANGED <<tab, tabs, nextTabIndex, runtimeVars>>

\* products does, and falls back.
Products(c, h) ==
    /\ tab[h].lastSnapshot = None
    /\ Snapshot(c, h)

\* A call at work on the page of its tab.
OnPage(h) == [New("interact", h) EXCEPT !.at = "act", !.page = PageOf(h)]

\* A live page for the tab: the one it has, whose address the tab then takes,
\* or a new one sent to the tab's address.
Enter(c, h) ==
    /\ Begin(c)
    /\ SetActiveTab(h)
    /\ IF PageOf(h) # 0
       THEN /\ Put(h, Visited(tab[h], Shown(PageOf(h), tab[h])))
            /\ Go(c, OnPage(h))
       ELSE /\ Go(c, EnsureLiveRuntime(New("enter", h)))
            /\ UNCHANGED tab
    /\ UNCHANGED <<tabs, nextTabIndex, runtimeVars>>

Login(c, h) == Enter(c, h)

\* mfa sends a new page to the address of the last snapshot instead.
Mfa(c, h) == Enter(c, h)

\* challenge looks for a human check, on the live page or in a snapshot.
Challenge(c, h) ==
    \/ Enter(c, h)
    \/ PageOf(h) = 0 /\ Snapshot(c, h)

\* findClickTarget, and the action of a form: addresses that the snapshot of the
\* tab lists; without a snapshot there are none.
TargetsOf(t) == IF t.lastSnapshot = None THEN {} ELSE Urls

\* What an action does once the tab, now t, has its snapshot.  A click may
\* also follow a link by its address; a link or a form of a tab without a page
\* is followed with the fetch engine.
Act(c, r, h, t) ==
    LET p == live[t.id]
        s == [r EXCEPT !.seed = FALSE, !.url = None, !.page = p]
    IN
    \/ /\ p # 0
       /\ Put(h, t)
       /\ Go(c, IF r.op = "click" THEN [s EXCEPT !.at = "act", !.before = Shown(p, t)]
                                  ELSE [s EXCEPT !.at = "act", !.op = "interact"])
    \/ /\ p # 0
       /\ r.op = "click"
       /\ \E url \in TargetsOf(t) :
             /\ Put(h, NavigateTab(t, url))
             /\ Go(c, [s EXCEPT !.at = "goto", !.before = Shown(p, t)])
    \/ /\ p = 0
       /\ r.op \in {"click", "submit"}
       /\ \E url \in TargetsOf(t) :
             /\ Put(h, NavigateTab(t, url))
             /\ \/ Go(c, Waiting(s, "fetch", 0))
                \/ r.op = "click" /\ Done(c)
    \/ Put(h, t) /\ Done(c)

\* An action that takes a snapshot first when the tab has none.
Seeded(c, h, op) ==
    /\ Begin(c)
    /\ SetActiveTab(h)
    /\ IF tab[h].lastSnapshot = None
       THEN Capture(c, [New(op, h) EXCEPT !.seed = TRUE], tab[h]) /\ UNCHANGED tab
       ELSE Act(c, New(op, h), h, tab[h])
    /\ UNCHANGED <<tabs, nextTabIndex, runtimeVars>>

\* An action on the live page that needs no snapshot.
Watch(c, h) ==
    /\ Begin(c)
    /\ PageOf(h) # 0
    /\ SetActiveTab(h)
    /\ Go(c, OnPage(h))
    /\ UNCHANGED <<tab, tabs, nextTabIndex, runtimeVars>>

WaitForRequest(c, h) == Watch(c, h)

Scroll(c, h) == Watch(c, h)

Evaluate(c, h) == Watch(c, h)

\* wait goes on without a page.
Wait(c, h) ==
    \/ Watch(c, h)
    \/ PageOf(h) = 0 /\ Snapshot(c, h)

\* An action on the live page that resolves refs of the snapshot.
Handle(c, h) ==
    /\ PageOf(h) # 0
    /\ Seeded(c, h, "interact")

Hover(c, h) == Handle(c, h)

Select(c, h) == Handle(c, h)

Upload(c, h) == Handle(c, h)

\* type and fill, by selector or in a form of the snapshot.
Fill(c, h) == Watch(c, h) \/ Seeded(c, h, "interact")

Submit(c, h) == Seeded(c, h, "submit")

Click(c, h) == Seeded(c, h, "click")

\* back and forward in the fetch engine move the index at once; with a page
\* they wait for it.
Move(c, h, op) ==
    LET t == tab[h]  i == Entry(t, op) IN
    /\ Begin(c)
    /\ SetActiveTab(h)
    /\ IF PageOf(h) # 0
       THEN Go(c, [New(op, h) EXCEPT !.at = "goto", !.page = PageOf(h)]) /\ UNCHANGED tab
       ELSE IF i = t.historyIndex THEN Done(c) /\ UNCHANGED tab
       ELSE /\ Put(h, [t EXCEPT !.historyIndex = i, !.url = t.history[i],
                                !.lastSnapshot = None])
            /\ Go(c, Waiting(New(op, h), "fetch", 0)) \/ Done(c)
    /\ UNCHANGED <<tabs, nextTabIndex, runtimeVars>>

----------------------------------------------------------------------------
(* How the awaits of a call settle.                                        *)

\* captureLiveTabSnapshot looks the page of the tab up again.
CaptureAgain(c, r) ==
    /\ PageOf(r.tab) # 0
    /\ Go(c, Waiting(r, "settle", PageOf(r.tab)))

\* goto, reload, goBack or goForward resolves, after any redirects.
Arrived(c) ==
    LET r == call[c]  t == tab[r.tab] IN
    /\ r.at = "goto"
    /\ page[r.page].open
    /\ \E url \in Urls :
          /\ page' = [page EXCEPT ![r.page].url = url]
          /\ \/ /\ r.op = "enter"
                /\ Put(r.tab, Visited(t, url))
                /\ Go(c, [r EXCEPT !.op = "interact", !.at = "act"])
             \/ /\ r.op = "click"
                /\ Go(c, [r EXCEPT !.at = "downloads"])
                /\ UNCHANGED tab
             \/ /\ r.op \in {"back", "forward"}
                /\ Put(r.tab, [t EXCEPT !.historyIndex = Entry(t, r.op), !.url = url])
                /\ CaptureAgain(c, r) \/ Done(c)
             \/ /\ r.op \in {"open", "navigate"}
                /\ \/ CaptureAgain(c, r) /\ UNCHANGED tab
                   \/ Put(r.tab, Located(t, url)) /\ Done(c)
    /\ UNCHANGED <<tabs, activeTabId, nextTabIndex, browsers, liveBrowser,
                   liveContext, live, events>>

\* The action on the page is done; the page may have gone elsewhere, and a
\* click may have opened another page.
Acted(c) ==
    LET r == call[c] IN
    /\ r.at = "act"
    /\ page[r.page].open
    /\ \/ \E url \in {page[r.page].url} \union Urls :
             /\ page' = [page EXCEPT ![r.page].url = url]
             /\ IF r.op = "click" THEN Go(c, [r EXCEPT !.at = "downloads"])
                                  ELSE CaptureAgain(c, r) \/ Done(c)
       \/ /\ r.op = "click"
          /\ Room /\ Len(page) < MaxPages
          /\ \E url \in Urls :
                page' = Append(page, [page[r.page] EXCEPT !.url = url, !.own = FALSE,
                                                           !.id = 0])
          /\ Go(c, [r EXCEPT !.at = "popup", !.page = Len(page) + 1])
    /\ UNCHANGED <<tabVars, browsers, liveBrowser, liveContext, live, events>>

\* registerPopupTabFromLivePage.
Popup(c) ==
    LET r == call[c]  url == page[r.page].url IN
    /\ r.at = "popup"
    /\ Room /\ Len(tab) < MaxTabs
    /\ CreateBackgroundTab(url)
    /\ AttachLivePage(nextTabIndex, r.page)
    /\ page' = [page EXCEPT ![r.page].id = nextTabIndex]
    /\ Go(c, Waiting([r EXCEPT !.tab = Len(tab) + 1, !.parent = r.tab], "settle", r.page))
    /\ UNCHANGED <<activeTabId, browsers, liveBrowser, liveContext, events>>

\* captureLiveTabSnapshot reads the address of the page ...
Settled(c) ==
    LET r == call[c] IN
    /\ r.at = "settle"
    /\ page[r.page].open
    /\ page[r.page].url # None
    /\ Go(c, [r EXCEPT !.at = "read", !.url = page[r.page].url])
    /\ UNCHANGED <<tabVars, runtimeVars, events>>

\* ... and writes the tab after it has read the page.  For click and submit
\* appendHistoryEntry follows.
Read(c) ==
    LET r == call[c]  t == Captured(tab[r.tab], r.url) IN
    /\ r.at = "read"
    /\ page[r.page].open
    /\ IF r.seed THEN Act(c, r, r.tab, t)
       ELSE IF r.parent # 0
       THEN Put(r.tab, t) /\ Go(c, [r EXCEPT !.at = "downloads", !.url = None])
       ELSE Put(r.tab, AppendHistoryEntry(t, r.url)) /\ Done(c)
    /\ UNCHANGED <<tabs, activeTabId, nextTabIndex, runtimeVars, events>>

\* The wait for downloads of a click is over.  A popup's tab is focused, or
\* its parent is; then a snapshot of it, or the address alone.
Downloaded(c) ==
    LET r == call[c]  t == tab[r.tab] IN
    /\ r.at = "downloads"
    /\ \/ /\ r.parent # 0
          /\ \/ /\ SetActiveTab(r.tab)
                /\ \/ Done(c)
                   \/ t.lastSnapshot = None /\ CaptureAgain(c, [r EXCEPT !.parent = 0])
             \/ /\ SetActiveTab(r.parent)
                /\ \/ Done(c)
                   \/ CaptureAgain(c, [r EXCEPT !.tab = r.parent, !.parent = 0])
          /\ UNCHANGED tab
       \/ /\ r.parent = 0
          /\ \/ CaptureAgain(c, r) /\ UNCHANGED tab
             \/ LET now == Shown(r.page, t)
                    moved == IF now # r.before THEN AppendHistoryEntry(t, now) ELSE t
                IN  Put(r.tab, Located(moved, now)) /\ Done(c)
          /\ UNCHANGED activeTabId
    /\ UNCHANGED <<tabs, nextTabIndex, runtimeVars, events>>

\* captureTabSnapshot, its redirects followed, writes the tab.  fill chose the
\* fetch engine before: it only changes the form values kept with the tab.
Fetched(c) ==
    LET r == call[c] IN
    /\ r.at = "fetch"
    /\ \E url \in Urls :
          LET t == Captured(tab[r.tab], url) IN
          IF r.seed /\ r.op # "interact" THEN Act(c, r, r.tab, t)
                                         ELSE Put(r.tab, t) /\ Done(c)
    /\ UNCHANGED <<tabs, activeTabId, nextTabIndex, runtimeVars, events>>

\* An await of the call rejects.  The call throws; or it falls back on the
\* fetch engine, and closeLiveTab drops the page of its tab; or the snapshot
\* was that of a popup, which may be missing.
Fails(c) ==
    LET r == call[c]  t == tab[r.tab] IN
    /\ r.at \in {"launch", "context", "newPage", "goto", "act", "settle", "read", "fetch"}
    /\ \/ /\ r.parent = 0
          /\ Done(c)
          /\ UNCHANGED <<tab, live>>
       \/ /\ r.at # "fetch"
          /\ r.op \in Fallback
          /\ IF PageOf(r.tab) # 0
             THEN /\ live' = [live EXCEPT ![t.id] = 0]
                  /\ Go(c, [r EXCEPT !.at = "drop", !.page = PageOf(r.tab),
                                    !.url = None, !.browser = 0])
             ELSE /\ UNCHANGED live
                  /\ Go(c, Waiting(r, "fetch", 0))
          /\ UNCHANGED tab
       \/ /\ r.parent # 0
          /\ Put(r.tab, Located(t, Shown(r.page, t)))
          /\ Go(c, [r EXCEPT !.at = "downloads", !.url = None])
          /\ UNCHANGED live
    /\ UNCHANGED <<tabs, activeTabId, nextTabIndex, browsers, liveBrowser,
                   liveContext, page, events>>

\* The page that closeLiveTab took out of the map is closed, and what called
\* it goes on: the fetch engine, closeTab, or the rest of the live runtime.
Dropped(c) ==
    LET r == call[c]  m == Forget(live, {r.page}) IN
    /\ r.at = "drop"
    /\ page' = Closed({r.page})
    /\ \/ /\ r.op \in Fallback
          /\ live' = m
          /\ \/ Go(c, Waiting(r, "fetch", 0))
             \/ r.op = "navigate" /\ Done(c)
          /\ UNCHANGED <<tabs, activeTabId, nextTabIndex>>
       \/ /\ r.op = "close"
          /\ live' = m
          /\ CloseTab(tab[r.tab].id)
          /\ Done(c)
          /\ UNCHANGED nextTabIndex
       \/ r.op \in {"stop", "reset"} /\ ResetLiveRuntime(c, r, m)
    /\ UNCHANGED <<tab, browsers, liveBrowser, liveContext, events>>

----------------------------------------------------------------------------
(* What happens outside the tool.                                          *)

\* A page closes itself, or crashes.
PageCloses(p) ==
    /\ page[p].open
    /\ events < MaxEvents
    /\ events' = events + 1
    /\ page' = Closed({p})
    /\ live' = Forget(live, {p})
    /\ UNCHANGED <<tabVars, browsers, liveBrowser, liveContext, call, overlap>>

\* The browser process dies.  The module goes on holding it.
BrowserDies(b) ==
    /\ browsers[b]
    /\ events < MaxEvents
    /\ events' = events + 1
    /\ browsers' = [browsers EXCEPT ![b] = FALSE]
    /\ page' = Closed(PagesOf(b))
    /\ live' = Forget(live, PagesOf(b))
    /\ UNCHANGED <<tabVars, liveBrowser, liveContext, call, overlap>>

Next ==
    \/ \E c \in Slots :
          \/ \E url \in Urls : OpenTab(c, url)
          \/ Start(c)
          \/ \E op \in {"stop", "reset"} : StopOrReset(c, op)
          \/ \E h \in OpenTabs :
                \/ Focus(c, h) \/ Screenshot(c, h) \/ Inspect(c, h)
                \/ Close(c, h) \/ Reload(c, h) \/ Snapshot(c, h)
                \/ Forms(c, h) \/ Products(c, h)
                \/ Login(c, h) \/ Mfa(c, h) \/ Challenge(c, h)
                \/ Wait(c, h) \/ WaitForRequest(c, h) \/ Scroll(c, h) \/ Evaluate(c, h)
                \/ Hover(c, h) \/ Select(c, h) \/ Upload(c, h)
                \/ Fill(c, h) \/ Submit(c, h) \/ Click(c, h)
                \/ \E url \in Urls : Navigate(c, h, url)
                \/ \E op \in {"back", "forward"} : Move(c, h, op)
          \/ Launched(c) \/ ContextReady(c) \/ PageReady(c)
          \/ ContextClosed(c) \/ BrowserClosed(c)
          \/ Arrived(c) \/ Acted(c) \/ Popup(c) \/ Settled(c) \/ Read(c)
          \/ Downloaded(c) \/ Fetched(c) \/ Fails(c) \/ Dropped(c)
    \/ \E p \in DOMAIN page : PageCloses(p)
    \/ \E b \in DOMAIN browsers : BrowserDies(b)

Spec == Init /\ [][Next]_vars

----------------------------------------------------------------------------
(* Properties.                                                             *)

\* No two tabs of the list share an id, and the next id is free, although
\* reset starts the numbering anew while other calls are under way.
TabIdsAreUnique ==
    /\ \A g, h \in OpenTabs : tab[g].id = tab[h].id => g = h
    /\ \A h \in OpenTabs : tab[h].id < nextTabIndex

\* The tab ids that a page of the live engine was ever attached under.
LiveIds == {page[p].id : p \in DOMAIN page}

\* A tab that only the fetch engine served agrees with itself, however calls
\* interleave: its address is the current entry of its history, and the
\* snapshot whose links, forms and refs the next action will use is of that
\* address.  Ids count, not tabs: after a reset a page may be attached under an
\* id that another tab has by now.
FetchTabAgrees ==
    \A h \in DOMAIN tab : LET t == tab[h] IN
        t.id \notin LiveIds => /\ t.history[t.historyIndex] = t.url
                               /\ t.lastSnapshot \in {None, t.url}

\* As long as no two calls overlapped, the tool is in order between calls: the
\* active tab is a tab of the list and there is one when there are tabs, every
\* page opened for a tab and still open is attached to a tab of the list, the
\* context is that of the browser, and no other browser runs.
SerialUseIsClean ==
    ~ overlap /\ Busy = {} =>
        /\ activeTabId \in {tab[h].id : h \in OpenTabs} \union {0}
        /\ activeTabId = 0 => tabs = {}
        /\ \A i \in Ids : live[i] # 0 =>
              /\ \E h \in OpenTabs : tab[h].id = i
              /\ page[live[i]].own => page[live[i]].open
        /\ \A p \in DOMAIN page : page[p].own /\ page[p].open => p \in Range(live)
        /\ liveContext \in {0, liveBrowser}
        /\ \A b \in DOMAIN browsers : browsers[b] => b = liveBrowser

\* Whatever the overlaps before it left, a stop or reset that runs alone leaves
\* no page in the map, no context and no browser, and reset no tab.
LoneResetCleans ==
    [][\A c \in Slots :
          /\ call[c].op \in {"stop", "reset"} /\ call[c].alone
          /\ call'[c].at = "idle"
          => /\ \A i \in Ids : live'[i] = 0
             /\ liveBrowser' = 0 /\ liveContext' = 0
             /\ call[c].op = "reset" => tabs' = {} /\ activeTabId' = 0]_vars
=============================================================================
