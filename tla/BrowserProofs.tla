--------------------------- MODULE BrowserProofs ---------------------------
(***************************************************************************)
(* The tabs of the fetch engine, the numbering of the tabs, and what a     *)
(* stop or reset leaves, for any number of calls, tabs, pages, browsers    *)
(* and losses.                                                             *)
(***************************************************************************)
EXTENDS Browser, TLAPS

Addresses == Urls \cup {None}
TabRecord == [id : Ids, url : Addresses, history : Seq(Addresses), historyIndex : Nat,
              lastSnapshot : Addresses]

TabOK(t) == t \in TabRecord /\ t.historyIndex \in 1..Len(t.history)

\* What FetchTabAgrees says of a tab.
Agrees(t) == t.history[t.historyIndex] = t.url /\ t.lastSnapshot \in {None, t.url}

TabsOK ==
    /\ tab \in Seq(TabRecord) /\ Len(tab) <= MaxTabs
    /\ \A h \in DOMAIN tab : TabOK(tab[h])
    /\ nextTabIndex \in 1..Len(tab) + 1

PagesOK ==
    /\ \E S : page \in Seq(S)
    /\ \A p \in DOMAIN page : /\ {"url", "id", "open", "own"} \subseteq DOMAIN page[p]
                              /\ page[p].url \in Addresses /\ page[p].id \in Nat

\* The ids that the pages P were attached under.
IdsOf(P) == {P[p].id : p \in DOMAIN P}

LiveOK ==
    /\ DOMAIN live = Ids
    /\ \A i \in Ids : live[i] # 0 => live[i] \in DOMAIN page /\ i \in IdsOf(page)

Fields == {"op", "at", "tab", "page", "browser", "url", "before", "parent", "todo", "seed", "alone"}

\* A call under way has a tab, unless it is about the runtime; when it works on
\* a page, or on a popup, a page was attached under its tab's id.  The snapshot
\* of a popup is not one that an action needs first.
CallOK(r, T, P) ==
    /\ DOMAIN r = Fields /\ r.url \in Addresses /\ r.before \in Addresses
    /\ r.op = "start" => r.at \in {"launch", "context"}
    /\ r.op \in {"stop", "reset"} => r.at \in {"drop", "closeContext", "closeBrowser"}
    /\ r.at # "idle" /\ r.op \notin {"start", "stop", "reset"} => r.tab \in DOMAIN T
    /\ r.at \in {"goto", "act", "popup", "settle", "read", "downloads"} => r.page \in DOMAIN P
    /\ r.at \in {"goto", "act", "popup", "downloads"} => T[r.tab].id \in IdsOf(P)
    /\ r.seed => r.at \in {"settle", "read", "fetch"} /\ r.op \in {"interact", "submit", "click"}
    /\ r.at = "popup" => P[r.page].id = 0 /\ r.op = "click"
    /\ r.parent # 0 => /\ r.op = "capture" /\ r.at \in {"settle", "read", "downloads"}
                       /\ {r.tab, r.parent} \subseteq DOMAIN T /\ T[r.tab].id \in IdsOf(P)

CallsOK ==
    /\ DOMAIN call = Slots
    /\ \A c \in Slots : CallOK(call[c], tab, page)
    /\ \A c, d \in Slots :
          call[c].at = "popup" /\ call[d].at = "popup" /\ call[c].page = call[d].page => c = d

FetchOK == \A h \in DOMAIN tab : tab[h].id \in IdsOf(page) \/ Agrees(tab[h])

BrowserInv == TabsOK /\ PagesOK /\ LiveOK /\ CallsOK /\ FetchOK

-----------------------------------------------------------------------------
(* The operations on a tab.                                                *)

LEMMA PushedOK ==
    ASSUME NEW t, TabOK(t), NEW url \in Addresses
    PROVE  LET u == Pushed(t, url) IN
           /\ TabOK(u) /\ u.id = t.id /\ u.url = t.url /\ u.lastSnapshot = t.lastSnapshot
           /\ u.history[u.historyIndex] = url
  <1> DEFINE front == SubSeq(t.history, 1, t.historyIndex)
             kept == Append(front, url)
  <1>1. /\ t \in TabRecord /\ t.history \in Seq(Addresses) /\ t.historyIndex \in Nat
        /\ t.historyIndex \in 1..Len(t.history) /\ Len(t.history) \in Nat
    BY DEF TabOK, TabRecord
  <1>2. front \in Seq(Addresses)
    BY <1>1
  <1> HIDE DEF front
  <1>3. kept \in Seq(Addresses) /\ Len(kept) \in 1..Len(kept) /\ Len(kept) \in Nat /\ kept[Len(kept)] = url
    BY <1>2
  <1> HIDE DEF kept
  <1>4. Pushed(t, url) = [t EXCEPT !.history = kept, !.historyIndex = Len(kept)]
    BY Zenon DEF Pushed, kept, front
  <1> QED
    BY <1>1, <1>3, <1>4, Zenon DEF TabOK, TabRecord

LEMMA NavigateOK ==
    ASSUME NEW t, TabOK(t), NEW url \in Addresses
    PROVE  TabOK(NavigateTab(t, url)) /\ NavigateTab(t, url).id = t.id /\ Agrees(NavigateTab(t, url))
  <1> DEFINE u == Pushed(t, url)
  <1>1. TabOK(u) /\ u.id = t.id /\ u.history[u.historyIndex] = url
    BY PushedOK, Zenon
  <1>2. NavigateTab(t, url) = [u EXCEPT !.url = url, !.lastSnapshot = None]
    BY Zenon DEF NavigateTab
  <1> HIDE DEF u
  <1> QED
    BY <1>1, <1>2, Zenon DEF TabOK, TabRecord, Agrees, Addresses

LEMMA AppendOK ==
    ASSUME NEW t, TabOK(t), NEW url \in Addresses
    PROVE  LET u == AppendHistoryEntry(t, url) IN TabOK(u) /\ u.id = t.id
  BY PushedOK, Zenon DEF AppendHistoryEntry

LEMMA VisitedOK ==
    ASSUME NEW t, TabOK(t), NEW url \in Addresses
    PROVE  TabOK(Visited(t, url)) /\ Visited(t, url).id = t.id
  <1> DEFINE u == IF url # t.url THEN AppendHistoryEntry(t, url) ELSE t
  <1>1. TabOK(u) /\ u.id = t.id
    BY AppendOK, Zenon
  <1>2. Visited(t, url) = [u EXCEPT !.url = url]
    BY Zenon DEF Visited
  <1> HIDE DEF u
  <1> QED
    BY <1>1, <1>2, Zenon DEF TabOK, TabRecord

\* The current entry of the history replaced.
LEMMA EntrySet ==
    ASSUME NEW t, TabOK(t), NEW url \in Addresses
    PROVE  LET h == [t.history EXCEPT ![t.historyIndex] = url] IN
           h \in Seq(Addresses) /\ Len(h) = Len(t.history) /\ h[t.historyIndex] = url
  BY DEF TabOK, TabRecord

LEMMA CapturedOK ==
    ASSUME NEW t, TabOK(t), NEW url \in Addresses
    PROVE  LET u == Captured(t, url) IN
           /\ TabOK(u) /\ u.id = t.id /\ Agrees(u) /\ AppendHistoryEntry(u, url) = u
  <1> DEFINE h == [t.history EXCEPT ![t.historyIndex] = url]
             u == [t EXCEPT !.url = url, !.history = h, !.lastSnapshot = url]
  <1>1. h \in Seq(Addresses) /\ Len(h) = Len(t.history) /\ h[t.historyIndex] = url
    BY EntrySet, Zenon
  <1>2. Captured(t, url) = u
    BY Zenon DEF Captured, TabOK, TabRecord
  <1> HIDE DEF h
  <1>3. TabOK(u) /\ u.id = t.id /\ Agrees(u) /\ u.history[u.historyIndex] = url
    BY <1>1, Zenon DEF TabOK, TabRecord, Agrees
  <1> HIDE DEF u
  <1> QED
    BY <1>2, <1>3, Zenon DEF AppendHistoryEntry

LEMMA LocatedOK ==
    ASSUME NEW t, TabOK(t), NEW url \in Addresses
    PROVE  TabOK(Located(t, url)) /\ Located(t, url).id = t.id
  <1> DEFINE h == [t.history EXCEPT ![t.historyIndex] = url]
             u == [t EXCEPT !.url = url, !.history = h]
  <1>1. h \in Seq(Addresses) /\ Len(h) = Len(t.history)
    BY EntrySet, Zenon
  <1>2. Located(t, url) = u
    BY Zenon DEF Located, TabOK, TabRecord
  <1> HIDE DEF h
  <1> QED
    BY <1>1, <1>2, Zenon DEF TabOK, TabRecord

LEMMA EntryOK ==
    ASSUME NEW t, TabOK(t), NEW op
    PROVE  Entry(t, op) \in 1..Len(t.history)
  BY DEF TabOK, TabRecord, Entry

\* back and forward, without a snapshot or at the address of the page.
LEMMA MovedOK ==
    ASSUME NEW t, TabOK(t), NEW i \in 1..Len(t.history), NEW url \in Addresses
    PROVE  LET u == [t EXCEPT !.historyIndex = i, !.url = t.history[i], !.lastSnapshot = None]
               v == [t EXCEPT !.historyIndex = i, !.url = url] IN
           TabOK(u) /\ u.id = t.id /\ Agrees(u) /\ TabOK(v) /\ v.id = t.id
  <1>1. i \in Nat /\ t.history \in Seq(Addresses) /\ t.history[i] \in Addresses /\ t \in TabRecord
    BY DEF TabOK, TabRecord
  <1> DEFINE u == [t EXCEPT !.historyIndex = i, !.url = t.history[i], !.lastSnapshot = None]
             v == [t EXCEPT !.historyIndex = i, !.url = url]
  <1>2. TabOK(u) /\ u.id = t.id /\ Agrees(u)
    BY <1>1, Zenon DEF TabOK, TabRecord, Agrees, Addresses
  <1>3. TabOK(v) /\ v.id = t.id
    BY <1>1, Zenon DEF TabOK, TabRecord
  <1> QED
    BY <1>2, <1>3, Zenon

LEMMA BuiltOK ==
    ASSUME NEW url \in Addresses, nextTabIndex \in Ids
    PROVE  /\ TabOK(BuildTabRecord(url)) /\ Agrees(BuildTabRecord(url))
           /\ BuildTabRecord(url).id = nextTabIndex
  <1>1. <<url>> \in Seq(Addresses) /\ Len(<<url>>) = 1 /\ <<url>>[1] = url
    OBVIOUS
  <1> QED
    BY <1>1 DEF BuildTabRecord, TabOK, TabRecord, Agrees, Addresses

-----------------------------------------------------------------------------
(* What a step of one call leaves of the others.                           *)

TabsGrow == \A h \in DOMAIN tab : h \in DOMAIN tab' /\ tab'[h].id = tab[h].id
PagesGrow == /\ \A p \in DOMAIN page : p \in DOMAIN page'
             /\ \A i \in IdsOf(page) : i = 0 \/ i \in IdsOf(page')
PopupsStay(c) ==
    \A d \in Slots : d # c /\ call[d].at = "popup" => page'[call[d].page].id = 0

LEMMA CallStays ==
    ASSUME TabsOK, TabsGrow, PagesGrow, NEW r, CallOK(r, tab, page),
           r.at = "popup" => page'[r.page].id = 0
    PROVE  CallOK(r, tab', page')
  <1>1. \A h \in DOMAIN tab : tab[h].id # 0
    BY DEF TabsOK, TabOK, TabRecord, Ids
  <1>2. \A h \in DOMAIN tab : tab[h].id \in IdsOf(page) => tab'[h].id \in IdsOf(page')
    BY <1>1, Zenon DEF TabsGrow, PagesGrow
  <1>3. r.at \in {"goto", "act", "popup", "downloads"} => r.tab \in DOMAIN tab
    BY Zenon DEF CallOK
  <1> QED
    BY <1>2, <1>3, Zenon DEF CallOK, TabsGrow, PagesGrow

LEMMA AloneNoMore ==
    ASSUME NEW r, NEW T, NEW P, CallOK(r, T, P)
    PROVE  /\ CallOK([r EXCEPT !.alone = FALSE], T, P)
           /\ [r EXCEPT !.alone = FALSE].at = r.at /\ [r EXCEPT !.alone = FALSE].page = r.page
  BY Zenon DEF CallOK, Fields

\* A call goes on as r.
LEMMA GoKeeps ==
    ASSUME BrowserInv, NEW c \in Slots, NEW r, Go(c, r), TabsGrow, PagesGrow, PopupsStay(c),
           CallOK(r, tab', page'), r.at = "popup" => r.page \notin DOMAIN page
    PROVE  CallsOK'
  <1> DEFINE q(d) == IF d = c THEN r ELSE call[d]
  <1>1. \A d \in Slots : CallOK(q(d), tab', page')
    BY CallStays, Zenon DEF BrowserInv, CallsOK, PopupsStay
  <1>2. \A d \in Slots : call'[d] = q(d) \/ call'[d] = [q(d) EXCEPT !.alone = FALSE]
    BY Zenon DEF Go
  <1>3. DOMAIN call' = Slots
    BY Zenon DEF Go
  <1>4. \A d \in Slots : call[d].at = "popup" => call[d].page \in DOMAIN page
    BY Zenon DEF BrowserInv, CallsOK, CallOK
  <1>5. \A d, e \in Slots : q(d).at = "popup" /\ q(e).at = "popup" /\ q(d).page = q(e).page => d = e
    BY <1>4, Zenon DEF BrowserInv, CallsOK
  <1> HIDE DEF q
  <1>6. \A d \in Slots : CallOK(call'[d], tab', page') /\ call'[d].at = q(d).at /\ call'[d].page = q(d).page
    <2> SUFFICES ASSUME NEW d \in Slots
                 PROVE  /\ CallOK(call'[d], tab', page')
                        /\ call'[d].at = q(d).at /\ call'[d].page = q(d).page
      BY Zenon
    <2>1. CASE call'[d] = q(d)
      BY <1>1, <2>1, Zenon
    <2>2. CASE call'[d] = [q(d) EXCEPT !.alone = FALSE]
      BY <1>1, <2>2, AloneNoMore
    <2> QED
      BY <1>2, <2>1, <2>2, Zenon
  <1> QED
    BY <1>3, <1>5, <1>6 DEF CallsOK

\* No tab is touched.
LEMMA TabsStay ==
    ASSUME BrowserInv, UNCHANGED tab, nextTabIndex' \in {nextTabIndex, 1}, PagesGrow
    PROVE  TabsOK' /\ FetchOK' /\ TabsGrow
  <1>1. TabsOK'
    <2>1. Len(tab) \in Nat
      BY DEF BrowserInv, TabsOK
    <2> QED
      BY <2>1 DEF BrowserInv, TabsOK
  <1>2. \A h \in DOMAIN tab : tab[h].id # 0
    BY DEF BrowserInv, TabsOK, TabOK, TabRecord, Ids
  <1>3. FetchOK'
    BY <1>2, Zenon DEF BrowserInv, FetchOK, PagesGrow
  <1> QED
    BY <1>1, <1>3, Zenon DEF TabsGrow

\* One tab is written.
LEMMA PutKeeps ==
    ASSUME BrowserInv, UNCHANGED nextTabIndex, PagesGrow,
           NEW h \in DOMAIN tab, NEW t, Put(h, t), TabOK(t), t.id = tab[h].id,
           Agrees(t) \/ t.id \in IdsOf(page')
    PROVE  TabsOK' /\ FetchOK' /\ TabsGrow
  <1>1. /\ tab \in Seq(TabRecord) /\ tab' = [tab EXCEPT ![h] = t] /\ t \in TabRecord
    BY Zenon DEF BrowserInv, TabsOK, Put, TabOK
  <1>2. /\ tab' \in Seq(TabRecord) /\ DOMAIN tab' = DOMAIN tab /\ Len(tab') = Len(tab)
        /\ \A g \in DOMAIN tab : tab'[g] = IF g = h THEN t ELSE tab[g]
    BY <1>1
  <1>3. TabsOK'
    BY <1>2, Zenon DEF BrowserInv, TabsOK
  <1>4. \A g \in DOMAIN tab : tab[g].id # 0
    BY DEF BrowserInv, TabsOK, TabOK, TabRecord, Ids
  <1>5. \A g \in DOMAIN tab : tab'[g].id \in IdsOf(page') \/ Agrees(tab'[g])
    BY <1>2, <1>4, Zenon DEF BrowserInv, FetchOK, PagesGrow
  <1> QED
    BY <1>2, <1>3, <1>5, Zenon DEF FetchOK, TabsGrow

\* A tab is built.
LEMMA NewTab ==
    ASSUME BrowserInv, Len(tab) < MaxTabs, PagesGrow,
           NEW url \in Addresses, CreateBackgroundTab(url)
    PROVE  /\ TabsOK' /\ FetchOK' /\ TabsGrow
           /\ nextTabIndex \in Ids
           /\ Len(tab) + 1 \in DOMAIN tab' /\ tab'[Len(tab) + 1].id = nextTabIndex
  <1> DEFINE new == BuildTabRecord(url)
  <1>1. tab \in Seq(TabRecord) /\ Len(tab) \in Nat /\ MaxTabs \in Nat /\ nextTabIndex \in 1..Len(tab) + 1
    BY BrowserAssumption DEF BrowserInv, TabsOK
  <1>2. nextTabIndex \in Ids
    BY <1>1 DEF Ids
  <1>3. TabOK(new) /\ Agrees(new) /\ new.id = nextTabIndex /\ new \in TabRecord
    BY <1>2, BuiltOK, Zenon DEF TabOK
  <1>4. tab' = Append(tab, new) /\ nextTabIndex' = nextTabIndex + 1
    BY Zenon DEF CreateBackgroundTab
  <1> HIDE DEF new
  <1>5. /\ tab' \in Seq(TabRecord) /\ Len(tab') = Len(tab) + 1 /\ DOMAIN tab' = 1..Len(tab) + 1
        /\ DOMAIN tab = 1..Len(tab)
        /\ tab'[Len(tab) + 1] = new /\ \A g \in DOMAIN tab : tab'[g] = tab[g]
    BY <1>1, <1>3, <1>4
  <1>6. \A g \in DOMAIN tab' : g \in DOMAIN tab \/ g = Len(tab) + 1
    BY <1>1, <1>5
  <1>7. TabsOK'
    BY <1>1, <1>3, <1>4, <1>5, <1>6 DEF BrowserInv, TabsOK
  <1>8. \A g \in DOMAIN tab : tab[g].id # 0
    BY DEF BrowserInv, TabsOK, TabOK, TabRecord, Ids
  <1>9. \A g \in DOMAIN tab' : tab'[g].id \in IdsOf(page') \/ Agrees(tab'[g])
    BY <1>3, <1>5, <1>6, <1>8, Zenon DEF BrowserInv, FetchOK, PagesGrow
  <1> QED
    BY <1>1, <1>2, <1>3, <1>5, <1>7, <1>9 DEF FetchOK, TabsGrow

\* Pages stay attached, or are dropped from the map.
LEMMA LiveShrinks ==
    ASSUME BrowserInv, PagesGrow, DOMAIN live' = Ids, \A i \in Ids : live'[i] \in {0, live[i]}
    PROVE  LiveOK'
  <1>1. \A i \in Ids : i # 0
    BY DEF Ids
  <1> QED
    BY <1>1, Zenon DEF BrowserInv, LiveOK, PagesGrow

LEMMA PagesStay ==
    ASSUME BrowserInv, UNCHANGED page
    PROVE  PagesOK' /\ PagesGrow /\ \A c : PopupsStay(c)
  <1>1. PagesOK'
    BY Zenon DEF BrowserInv, PagesOK
  <1> QED
    BY <1>1, Zenon DEF BrowserInv, CallsOK, CallOK, PagesGrow, PopupsStay

\* Pages close.
LEMMA ClosedKeeps ==
    ASSUME BrowserInv, NEW ps, page' = Closed(ps)
    PROVE  PagesOK' /\ PagesGrow /\ \A c : PopupsStay(c)
  <1>1. PICK S : page \in Seq(S)
    BY Zenon DEF BrowserInv, PagesOK
  <1>2. /\ DOMAIN page = 1..Len(page) /\ Len(page) \in Nat
        /\ DOMAIN page' = DOMAIN page
    BY <1>1 DEF Closed
  <1>3. \A p \in DOMAIN page : /\ DOMAIN page'[p] = DOMAIN page[p]
                               /\ page'[p].id = page[p].id /\ page'[p].url = page[p].url
    BY Zenon DEF Closed, BrowserInv, PagesOK
  <1>4. page' \in Seq({page'[p] : p \in DOMAIN page})
    <2>1. page' = [p \in 1..Len(page) |-> page'[p]]
      BY <1>2, Zenon DEF Closed
    <2> QED
      BY <1>2, <2>1
  <1>5. PagesOK'
    BY <1>2, <1>3, <1>4, Zenon DEF BrowserInv, PagesOK
  <1>6. IdsOf(page') = IdsOf(page)
    BY <1>2, <1>3, Zenon DEF IdsOf
  <1> QED
    BY <1>2, <1>3, <1>5, <1>6, Zenon DEF PagesGrow, PopupsStay, BrowserInv, CallsOK, CallOK

-----------------------------------------------------------------------------
(* The states a call goes on in.                                           *)

RuntimeOps == {"start", "stop", "reset"}

\* A call that is about tab h, whatever it waits for.
About(r, h, T, P) ==
    /\ DOMAIN r = Fields /\ r.url \in Addresses /\ r.before \in Addresses
    /\ r.op \notin RuntimeOps /\ r.tab = h /\ h \in DOMAIN T
    /\ r.seed => r.op \in {"interact", "submit", "click"}
    /\ r.parent # 0 => /\ ~ r.seed /\ r.op \in {"capture", "click"}
                       /\ r.parent \in DOMAIN T /\ T[h].id \in IdsOf(P)

LEMMA IdleOK == \A T, P : CallOK(Idle, T, P) /\ Idle.at = "idle"
  BY Zenon DEF Idle, CallOK, Fields, Addresses

LEMMA NewOK ==
    ASSUME NEW T, NEW P, NEW h \in DOMAIN T, NEW op, op \notin RuntimeOps
    PROVE  /\ About(New(op, h), h, T, P) /\ New(op, h).op = op /\ New(op, h).parent = 0
           /\ ~ New(op, h).seed
  BY Zenon DEF New, Idle, About, Fields, Addresses

LEMMA WaitingOK ==
    ASSUME NEW T, NEW P, NEW h, NEW r, About(r, h, T, P), NEW at, NEW p,
           (at = "fetch" /\ r.parent = 0) \/ (at = "settle" /\ p \in DOMAIN P)
    PROVE  CallOK(Waiting(r, at, p), T, P) /\ Waiting(r, at, p).at = at
  <1> DEFINE op == IF r.seed THEN r.op ELSE IF r.op \in Fallback THEN "snapshot" ELSE "capture"
  <1>1. /\ op \notin RuntimeOps /\ (r.seed => op \in {"interact", "submit", "click"})
        /\ r.parent # 0 => op = "capture"
    BY Zenon DEF About, RuntimeOps, Fallback
  <1>2. Waiting(r, at, p) =
           [Idle EXCEPT !.at = at, !.page = p, !.tab = r.tab, !.parent = r.parent,
                        !.seed = r.seed, !.alone = r.alone, !.op = op]
    BY Zenon DEF Waiting
  <1> HIDE DEF op
  <1> DEFINE w == Waiting(r, at, p)
  <1>3. /\ DOMAIN w = Fields /\ w.url = None /\ w.before = None /\ w.op = op /\ w.at = at
        /\ w.page = p /\ w.tab = r.tab /\ w.parent = r.parent /\ w.seed = r.seed
    BY <1>2, ZenonT(60) DEF Idle, Fields
  <1> HIDE DEF w
  <1>4. CallOK(w, T, P)
    BY <1>1, <1>3, Zenon DEF About, RuntimeOps, CallOK, Addresses
  <1> QED
    BY <1>3, <1>4, Zenon DEF w

\* At work on page p of a tab that has pages.
LEMMA WorkingOK ==
    ASSUME NEW T, NEW P, NEW h, NEW r, About(r, h, T, P), T[h].id \in IdsOf(P),
           r.page \in DOMAIN P, ~ r.seed,
           \/ r.at \in {"goto", "act", "downloads"} /\ r.parent = 0
           \/ r.at = "downloads" /\ r.op = "capture"
    PROVE  CallOK(r, T, P)
  BY Zenon DEF About, RuntimeOps, CallOK

\* Waiting for the runtime, for the network or for a page to close.
LEMMA AwayOK ==
    ASSUME NEW T, NEW P, NEW h, NEW r, About(r, h, T, P),
           r.at \in {"launch", "context", "newPage", "drop"}, r.parent = 0, ~ r.seed
    PROVE  CallOK(r, T, P)
  BY Zenon DEF About, RuntimeOps, CallOK

\* ensureLiveRuntime, for a call about a tab and for start.
LEMMA EnsureOK ==
    ASSUME NEW T, NEW P, NEW h \in DOMAIN T, NEW op, op \notin RuntimeOps
    PROVE  LET r == EnsureLiveRuntime(New(op, h)) IN CallOK(r, T, P) /\ r.at # "popup"
  <1> DEFINE r == New(op, h)
             a == [r EXCEPT !.at = "launch"]
             b == [r EXCEPT !.at = "context", !.browser = liveBrowser]
             d == [r EXCEPT !.at = "newPage", !.browser = liveContext]
  <1>1. About(r, h, T, P) /\ r.op = op /\ r.parent = 0 /\ ~ r.seed
    BY NewOK, Zenon
  <1>2. EnsureLiveRuntime(r) \in {a, b, d}
    BY <1>1, Zenon DEF EnsureLiveRuntime, RuntimeOps
  <1> HIDE DEF r
  <1>3. /\ About(a, h, T, P) /\ a.at = "launch" /\ a.parent = 0 /\ ~ a.seed
        /\ About(b, h, T, P) /\ b.at = "context" /\ b.parent = 0 /\ ~ b.seed
        /\ About(d, h, T, P) /\ d.at = "newPage" /\ d.parent = 0 /\ ~ d.seed
    BY <1>1, Zenon DEF About, Fields
  <1>4. CallOK(a, T, P) /\ CallOK(b, T, P) /\ CallOK(d, T, P)
    BY <1>3, AwayOK, Zenon
  <1> HIDE DEF a, b, d
  <1> QED
    BY <1>2, <1>3, <1>4, Zenon DEF r

LEMMA StartOK ==
    \A T, P : LET r == EnsureLiveRuntime(New("start", 0)) IN CallOK(r, T, P) /\ r.at # "popup"
  <1> DEFINE r == New("start", 0)
             a == [r EXCEPT !.at = "launch"]
             b == [r EXCEPT !.at = "context", !.browser = liveBrowser]
  <1>1. EnsureLiveRuntime(r) \in {a, b, Idle}
    BY Zenon DEF EnsureLiveRuntime, New, Idle
  <1>2. \A T, P : CallOK(a, T, P) /\ a.at = "launch" /\ CallOK(b, T, P) /\ b.at = "context"
    BY DEF New, Idle, CallOK, Fields, Addresses
  <1> HIDE DEF r, a, b
  <1> QED
    BY <1>1, <1>2, IdleOK, Zenon DEF r

-----------------------------------------------------------------------------
(* Steps.                                                                  *)

LEMMA Step ==
    ASSUME BrowserInv, NEW c \in Slots, NEW r, Go(c, r), CallOK(r, tab, page), r.at # "popup",
           TabsOK', FetchOK', TabsGrow, PagesOK', PagesGrow, PopupsStay(c), LiveOK'
    PROVE  BrowserInv'
  <1>1. CallOK(r, tab', page')
    BY CallStays, Zenon DEF BrowserInv
  <1>2. CallsOK'
    BY <1>1, GoKeeps, Zenon
  <1> QED
    BY <1>2, Zenon DEF BrowserInv

\* Nothing but the map of live pages, which may lose pages, and the numbering.
LEMMA Quiet ==
    ASSUME BrowserInv, NEW c \in Slots, NEW r, Go(c, r), CallOK(r, tab, page), r.at # "popup",
           UNCHANGED <<tab, page>>, nextTabIndex' \in {nextTabIndex, 1},
           DOMAIN live' = Ids, \A i \in Ids : live'[i] \in {0, live[i]}
    PROVE  BrowserInv'
  BY TabsStay, PagesStay, LiveShrinks, Step, Zenon

LEMMA Silent ==
    ASSUME BrowserInv, NEW c \in Slots, NEW r, Go(c, r), CallOK(r, tab, page), r.at # "popup",
           UNCHANGED <<tab, page, live, nextTabIndex>>
    PROVE  BrowserInv'
  <1>1. DOMAIN live' = Ids /\ \A i \in Ids : live'[i] \in {0, live[i]}
    BY Zenon DEF BrowserInv, LiveOK
  <1> QED
    BY <1>1, Quiet, Zenon

\* A tab is written.
LEMMA Writes ==
    ASSUME BrowserInv, NEW c \in Slots, NEW r, Go(c, r), CallOK(r, tab, page), r.at # "popup",
           UNCHANGED <<page, live, nextTabIndex>>,
           NEW h \in DOMAIN tab, NEW t, Put(h, t), TabOK(t), t.id = tab[h].id,
           Agrees(t) \/ t.id \in IdsOf(page)
    PROVE  BrowserInv'
  <1>1. PagesOK' /\ PagesGrow /\ PopupsStay(c)
    BY PagesStay, Zenon
  <1>2. TabsOK' /\ FetchOK' /\ TabsGrow
    BY <1>1, PutKeeps, Zenon
  <1>3. LiveOK'
    BY Zenon DEF BrowserInv, LiveOK
  <1> QED
    BY <1>1, <1>2, <1>3, Step, Zenon

\* The page of a tab, when it has one.
LEMMA PageOK ==
    ASSUME BrowserInv, NEW h \in DOMAIN tab, live[tab[h].id] # 0
    PROVE  live[tab[h].id] \in DOMAIN page /\ tab[h].id \in IdsOf(page)
  <1>1. tab[h].id \in Ids
    BY Zenon DEF BrowserInv, TabsOK, TabOK, TabRecord
  <1> QED
    BY <1>1, Zenon DEF BrowserInv, LiveOK

LEMMA ShownOK ==
    ASSUME BrowserInv, NEW p \in DOMAIN page, NEW t, TabOK(t)
    PROVE  Shown(p, t) \in Addresses
  BY Zenon DEF BrowserInv, PagesOK, Shown, TabOK, TabRecord

-----------------------------------------------------------------------------
(* How a call begins.                                                      *)

\* captureLiveTabSnapshot or captureTabSnapshot is awaited, or neither.
LEMMA CaptureKeeps ==
    ASSUME BrowserInv, NEW c \in Slots, NEW h \in DOMAIN tab, NEW r, About(r, h, tab, page),
           r.parent = 0, Capture(c, r, tab[h]), UNCHANGED <<tab, page, live, nextTabIndex>>
    PROVE  BrowserInv'
  <1> DEFINE p == live[tab[h].id]
  <1>1. CASE p # 0
    <2>1. Go(c, Waiting(r, "settle", p))
      BY <1>1, Zenon DEF Capture
    <2>2. p \in DOMAIN page
      BY <1>1, PageOK, Zenon
    <2>3. CallOK(Waiting(r, "settle", p), tab, page) /\ Waiting(r, "settle", p).at = "settle"
      BY <2>2, WaitingOK
    <2> QED
      BY <2>1, <2>3, Silent, Zenon
  <1>2. CASE p = 0
    <2>1. Go(c, Waiting(r, "fetch", 0)) \/ Go(c, Idle)
      BY <1>2, Zenon DEF Capture, Done
    <2>2. CallOK(Waiting(r, "fetch", 0), tab, page) /\ Waiting(r, "fetch", 0).at = "fetch"
      BY WaitingOK
    <2> QED
      BY <2>1, <2>2, IdleOK, Silent, Zenon
  <1> QED
    BY <1>1, <1>2, Zenon

\* An action with its snapshot, on the page of the tab or with the fetch engine.
LEMMA ActKeeps ==
    ASSUME BrowserInv, NEW c \in Slots, NEW h \in DOMAIN tab, NEW r, About(r, h, tab, page),
           r.parent = 0, NEW t, TabOK(t), t.id = tab[h].id, Agrees(t) \/ t.id \in IdsOf(page),
           Act(c, r, h, t), UNCHANGED <<page, live, nextTabIndex>>
    PROVE  BrowserInv'
  <1> DEFINE p == live[t.id]
             s == [r EXCEPT !.seed = FALSE, !.url = None, !.page = p]
             a == [s EXCEPT !.at = "act", !.before = Shown(p, t)]
             b == [s EXCEPT !.at = "act", !.op = "interact"]
             g == [s EXCEPT !.at = "goto", !.before = Shown(p, t)]
  <1>1. About(s, h, tab, page) /\ s.parent = 0 /\ ~ s.seed /\ s.page = p
    BY Zenon DEF About, Fields, Addresses
  <1>2. CallOK(Idle, tab, page) /\ Idle.at # "popup"
    BY IdleOK, Zenon
  <1>3. CASE p # 0
    <2>1. p \in DOMAIN page /\ t.id \in IdsOf(page) /\ Shown(p, t) \in Addresses
      BY <1>3, PageOK, ShownOK, Zenon
    <2> HIDE DEF s
    <2>2. /\ About(a, h, tab, page) /\ a.at = "act" /\ a.page = p /\ a.parent = 0 /\ ~ a.seed
          /\ About(b, h, tab, page) /\ b.at = "act" /\ b.page = p /\ b.parent = 0 /\ ~ b.seed
          /\ About(g, h, tab, page) /\ g.at = "goto" /\ g.page = p /\ g.parent = 0 /\ ~ g.seed
      BY <1>1, <2>1, Zenon DEF About, Fields, RuntimeOps
    <2> HIDE DEF a, b, g
    <2>3. CallOK(a, tab, page) /\ CallOK(b, tab, page) /\ CallOK(g, tab, page)
      BY <2>1, <2>2, WorkingOK, Zenon
    <2>4. \/ Put(h, t) /\ (Go(c, a) \/ Go(c, b) \/ Go(c, Idle))
          \/ \E url \in Urls : Put(h, NavigateTab(t, url)) /\ Go(c, g)
      BY <1>3, Zenon DEF Act, TargetsOf, Done, a, b, g, s
    <2>5. CASE Put(h, t) /\ (Go(c, a) \/ Go(c, b) \/ Go(c, Idle))
      BY <1>2, <2>2, <2>3, <2>5, Writes, Zenon
    <2>6. CASE \E url \in Urls : Put(h, NavigateTab(t, url)) /\ Go(c, g)
      <3>1. PICK url \in Urls : Put(h, NavigateTab(t, url)) /\ Go(c, g)
        BY <2>6, Zenon
      <3>2. TabOK(NavigateTab(t, url)) /\ NavigateTab(t, url).id = t.id /\ Agrees(NavigateTab(t, url))
        BY NavigateOK, Zenon DEF Addresses
      <3> QED
        BY <2>2, <2>3, <3>1, <3>2, Writes, Zenon
    <2> QED
      BY <2>4, <2>5, <2>6, Zenon
  <1>4. CASE p = 0
    <2> HIDE DEF s
    <2>1. CallOK(Waiting(s, "fetch", 0), tab, page) /\ Waiting(s, "fetch", 0).at = "fetch"
      BY <1>1, WaitingOK
    <2>2. \/ Put(h, t) /\ Go(c, Idle)
          \/ \E url \in Urls :
                Put(h, NavigateTab(t, url)) /\ (Go(c, Waiting(s, "fetch", 0)) \/ Go(c, Idle))
      BY <1>4, Zenon DEF Act, TargetsOf, Done, s
    <2>3. CASE Put(h, t) /\ Go(c, Idle)
      BY <1>2, <2>3, Writes, Zenon
    <2>4. CASE \E url \in Urls :
                  Put(h, NavigateTab(t, url)) /\ (Go(c, Waiting(s, "fetch", 0)) \/ Go(c, Idle))
      <3>1. PICK url \in Urls :
               Put(h, NavigateTab(t, url)) /\ (Go(c, Waiting(s, "fetch", 0)) \/ Go(c, Idle))
        BY <2>4, Zenon
      <3>2. TabOK(NavigateTab(t, url)) /\ NavigateTab(t, url).id = t.id /\ Agrees(NavigateTab(t, url))
        BY NavigateOK, Zenon DEF Addresses
      <3> QED
        BY <1>2, <2>1, <3>1, <3>2, Writes, Zenon
    <2> QED
      BY <2>2, <2>3, <2>4, Zenon
  <1> QED
    BY <1>3, <1>4, Zenon

\* A call sent to the page of its tab.
LEMMA SentOK ==
    ASSUME BrowserInv, NEW h \in DOMAIN tab, PageOf(h) # 0, NEW op, op \notin RuntimeOps,
           NEW at \in {"goto", "act"}
    PROVE  LET r == [New(op, h) EXCEPT !.at = at, !.page = PageOf(h)] IN
           CallOK(r, tab, page) /\ r.at # "popup"
  <1> DEFINE n == New(op, h)
             r == [n EXCEPT !.at = at, !.page = PageOf(h)]
  <1>1. PageOf(h) \in DOMAIN page /\ tab[h].id \in IdsOf(page)
    BY PageOK, Zenon DEF PageOf
  <1>2. About(n, h, tab, page) /\ n.parent = 0 /\ ~ n.seed
    BY NewOK, Zenon
  <1> HIDE DEF n
  <1>3. About(r, h, tab, page) /\ r.parent = 0 /\ ~ r.seed /\ r.at = at /\ r.page = PageOf(h)
    BY <1>2, Zenon DEF About, Fields
  <1> HIDE DEF r
  <1>4. CallOK(r, tab, page)
    BY <1>1, <1>3, WorkingOK, Zenon
  <1> QED
    BY <1>3, <1>4, Zenon DEF r, n

LEMMA SnapshotKeeps ==
    ASSUME BrowserInv, NEW c \in Slots, NEW h \in DOMAIN tab
    PROVE  (Snapshot(c, h) \/ Forms(c, h) \/ Products(c, h)) => BrowserInv'
  <1>1. About(New("snapshot", h), h, tab, page) /\ New("snapshot", h).parent = 0
    BY NewOK, Zenon DEF RuntimeOps
  <1>2. About(New("forms", h), h, tab, page) /\ New("forms", h).parent = 0
    BY NewOK, Zenon DEF RuntimeOps
  <1>3. Snapshot(c, h) => BrowserInv'
    BY <1>1, CaptureKeeps, Zenon DEF Snapshot, runtimeVars
  <1>4. Forms(c, h) => BrowserInv'
    BY <1>2, CaptureKeeps, Zenon DEF Forms, runtimeVars
  <1> QED
    BY <1>3, <1>4, Zenon DEF Products

LEMMA SeededKeeps ==
    ASSUME BrowserInv, NEW c \in Slots, NEW h \in DOMAIN tab,
           NEW op \in {"interact", "submit", "click"}, Seeded(c, h, op)
    PROVE  BrowserInv'
  <1> DEFINE n == New(op, h)
             r == [n EXCEPT !.seed = TRUE]
  <1>1. About(n, h, tab, page) /\ n.parent = 0 /\ n.op = op
    BY NewOK, ZenonT(60) DEF RuntimeOps
  <1>2. /\ UNCHANGED <<page, live, nextTabIndex>>
        /\ (Capture(c, r, tab[h]) /\ UNCHANGED tab) \/ Act(c, n, h, tab[h])
    BY Zenon DEF Seeded, runtimeVars
  <1> HIDE DEF n
  <1>3. About(r, h, tab, page) /\ r.parent = 0
    BY <1>1, Zenon DEF About, Fields
  <1> HIDE DEF r
  <1>4. TabOK(tab[h]) /\ (Agrees(tab[h]) \/ tab[h].id \in IdsOf(page))
    BY Zenon DEF BrowserInv, TabsOK, FetchOK
  <1>5. CASE Capture(c, r, tab[h]) /\ UNCHANGED tab
    BY <1>2, <1>3, <1>5, CaptureKeeps, Zenon
  <1>6. CASE Act(c, n, h, tab[h])
    BY <1>1, <1>2, <1>4, <1>6, ActKeeps, Zenon
  <1> QED
    BY <1>2, <1>5, <1>6, Zenon

LEMMA WatchKeeps ==
    ASSUME BrowserInv, NEW c \in Slots, NEW h \in DOMAIN tab, Watch(c, h)
    PROVE  BrowserInv'
  <1>1. CallOK(OnPage(h), tab, page) /\ OnPage(h).at # "popup"
    BY SentOK, Zenon DEF Watch, OnPage, RuntimeOps
  <1>2. Go(c, OnPage(h)) /\ UNCHANGED <<tab, page, live, nextTabIndex>>
    BY Zenon DEF Watch, runtimeVars
  <1> QED
    BY <1>1, <1>2, Silent, Zenon

LEMMA EnterKeeps ==
    ASSUME BrowserInv, NEW c \in Slots, NEW h \in DOMAIN tab, Enter(c, h)
    PROVE  BrowserInv'
  <1>1. UNCHANGED <<page, live, nextTabIndex>>
    BY Zenon DEF Enter, runtimeVars
  <1>2. CASE PageOf(h) # 0
    <2> DEFINE url == Shown(PageOf(h), tab[h])
    <2>1. PageOf(h) \in DOMAIN page /\ tab[h].id \in IdsOf(page) /\ TabOK(tab[h])
      BY <1>2, PageOK, Zenon DEF PageOf, BrowserInv, TabsOK
    <2>2. url \in Addresses
      BY <2>1, ShownOK, Zenon
    <2>3. Put(h, Visited(tab[h], url)) /\ Go(c, OnPage(h))
      BY <1>2, Zenon DEF Enter
    <2> HIDE DEF url
    <2>4. TabOK(Visited(tab[h], url)) /\ Visited(tab[h], url).id = tab[h].id
      BY <2>1, <2>2, VisitedOK, Zenon
    <2>5. CallOK(OnPage(h), tab, page) /\ OnPage(h).at # "popup"
      BY <1>2, SentOK, Zenon DEF OnPage, RuntimeOps
    <2> QED
      BY <1>1, <2>1, <2>3, <2>4, <2>5, Writes, Zenon
  <1>3. CASE PageOf(h) = 0
    <2> DEFINE r == EnsureLiveRuntime(New("enter", h))
    <2>1. CallOK(r, tab, page) /\ r.at # "popup"
      BY EnsureOK, Zenon DEF RuntimeOps
    <2>2. Go(c, r) /\ UNCHANGED tab
      BY <1>3, Zenon DEF Enter
    <2> HIDE DEF r
    <2> QED
      BY <1>1, <2>1, <2>2, Silent, Zenon
  <1> QED
    BY <1>2, <1>3, Zenon

LEMMA NavigateKeeps ==
    ASSUME BrowserInv, NEW c \in Slots, NEW h \in DOMAIN tab, NEW url \in Urls, Navigate(c, h, url)
    PROVE  BrowserInv'
  <1> DEFINE n == New("navigate", h)
             g == [n EXCEPT !.at = "goto", !.page = PageOf(h)]
             e == EnsureLiveRuntime(n)
             w == Waiting(n, "fetch", 0)
             t == NavigateTab(tab[h], url)
  <1>1. TabOK(t) /\ t.id = tab[h].id /\ Agrees(t)
    BY NavigateOK, Zenon DEF Addresses, BrowserInv, TabsOK
  <1>2. PageOf(h) # 0 => CallOK(g, tab, page) /\ g.at # "popup"
    BY SentOK, Zenon DEF RuntimeOps
  <1>3. CallOK(e, tab, page) /\ e.at # "popup"
    BY EnsureOK, Zenon DEF RuntimeOps
  <1>4. CallOK(w, tab, page) /\ w.at # "popup"
    <2>1. About(n, h, tab, page) /\ n.parent = 0
      BY NewOK, Zenon DEF RuntimeOps
    <2> HIDE DEF n
    <2> QED
      BY <2>1, WaitingOK
  <1>5. CallOK(Idle, tab, page) /\ Idle.at # "popup"
    BY IdleOK, Zenon
  <1>6. /\ Put(h, t) /\ UNCHANGED <<page, live, nextTabIndex>>
        /\ (PageOf(h) # 0 /\ Go(c, g)) \/ Go(c, e) \/ Go(c, w) \/ Go(c, Idle)
    BY Zenon DEF Navigate, Done, runtimeVars
  <1> HIDE DEF n, g, e, w, t
  <1> QED
    BY <1>1, <1>2, <1>3, <1>4, <1>5, <1>6, Writes, Zenon

LEMMA ReloadKeeps ==
    ASSUME BrowserInv, NEW c \in Slots, NEW h \in DOMAIN tab, Reload(c, h)
    PROVE  BrowserInv'
  <1> DEFINE n == New("navigate", h)
             g == [n EXCEPT !.at = "goto", !.page = PageOf(h)]
  <1>1. PageOf(h) # 0 => CallOK(g, tab, page) /\ g.at # "popup"
    BY SentOK, Zenon DEF RuntimeOps
  <1>2. About(n, h, tab, page) /\ n.parent = 0
    BY NewOK, Zenon DEF RuntimeOps
  <1>3. /\ UNCHANGED <<tab, page, live, nextTabIndex>>
        /\ (PageOf(h) # 0 /\ Go(c, g)) \/ Capture(c, n, tab[h])
    BY Zenon DEF Reload, runtimeVars
  <1> HIDE DEF n, g
  <1> QED
    BY <1>1, <1>2, <1>3, CaptureKeeps, Silent, Zenon

LEMMA MoveKeeps ==
    ASSUME BrowserInv, NEW c \in Slots, NEW h \in DOMAIN tab, NEW op \in {"back", "forward"},
           Move(c, h, op)
    PROVE  BrowserInv'
  <1> DEFINE n == New(op, h)
             g == [n EXCEPT !.at = "goto", !.page = PageOf(h)]
             w == Waiting(n, "fetch", 0)
             i == Entry(tab[h], op)
             t == [tab[h] EXCEPT !.historyIndex = i, !.url = tab[h].history[i], !.lastSnapshot = None]
  <1>1. PageOf(h) # 0 => CallOK(g, tab, page) /\ g.at # "popup"
    BY SentOK, Zenon DEF RuntimeOps
  <1>2. CallOK(w, tab, page) /\ w.at # "popup"
    <2>1. About(n, h, tab, page) /\ n.parent = 0
      BY NewOK, Zenon DEF RuntimeOps
    <2> HIDE DEF n
    <2> QED
      BY <2>1, WaitingOK
  <1>3. CallOK(Idle, tab, page) /\ Idle.at # "popup"
    BY IdleOK, Zenon
  <1>4. TabOK(t) /\ t.id = tab[h].id /\ Agrees(t)
    <2>1. TabOK(tab[h])
      BY Zenon DEF BrowserInv, TabsOK
    <2>2. i \in 1..Len(tab[h].history)
      BY <2>1, EntryOK, Zenon
    <2> HIDE DEF i
    <2>3. None \in Addresses
      BY Zenon DEF Addresses
    <2> QED
      BY <2>1, <2>2, <2>3, MovedOK, Zenon
  <1>5. /\ UNCHANGED <<page, live, nextTabIndex>>
        /\ \/ UNCHANGED tab /\ ((PageOf(h) # 0 /\ Go(c, g)) \/ Go(c, Idle))
           \/ Put(h, t) /\ (Go(c, w) \/ Go(c, Idle))
    BY Zenon DEF Move, Done, runtimeVars
  <1> HIDE DEF n, g, w, i, t
  <1>6. CASE UNCHANGED tab /\ ((PageOf(h) # 0 /\ Go(c, g)) \/ Go(c, Idle))
    BY <1>1, <1>3, <1>5, <1>6, Silent, Zenon
  <1>7. CASE Put(h, t) /\ (Go(c, w) \/ Go(c, Idle))
    BY <1>2, <1>3, <1>4, <1>5, <1>7, Writes, Zenon
  <1> QED
    BY <1>5, <1>6, <1>7, Zenon

LEMMA CloseKeeps ==
    ASSUME BrowserInv, NEW c \in Slots, NEW h \in DOMAIN tab, Close(c, h)
    PROVE  BrowserInv'
  <1> DEFINE n == New("close", h)
             d == [n EXCEPT !.at = "drop", !.page = PageOf(h)]
  <1>1. UNCHANGED <<tab, page, nextTabIndex>> /\ DOMAIN live = Ids /\ tab[h].id \in Ids
    BY Zenon DEF Close, BrowserInv, LiveOK, TabsOK, TabOK, TabRecord
  <1>2. CASE PageOf(h) = 0
    BY <1>1, <1>2, IdleOK, Silent, Zenon DEF Close, Done
  <1>3. CASE PageOf(h) # 0
    <2>1. About(n, h, tab, page) /\ n.parent = 0 /\ ~ n.seed
      BY NewOK, Zenon DEF RuntimeOps
    <2>2. Go(c, d) /\ live' = [live EXCEPT ![tab[h].id] = 0]
      BY <1>3, Zenon DEF Close
    <2> HIDE DEF n
    <2>3. About(d, h, tab, page) /\ d.parent = 0 /\ ~ d.seed /\ d.at = "drop"
      BY <2>1, Zenon DEF About, Fields
    <2> HIDE DEF d
    <2>4. CallOK(d, tab, page)
      BY <2>3, AwayOK, Zenon
    <2>5. DOMAIN live' = Ids /\ \A i \in Ids : live'[i] \in {0, live[i]}
      BY <1>1, <2>2, Zenon
    <2> QED
      BY <1>1, <2>2, <2>3, <2>4, <2>5, Quiet, Zenon
  <1> QED
    BY <1>2, <1>3, Zenon

LEMMA OpenKeeps ==
    ASSUME BrowserInv, NEW c \in Slots, NEW url \in Urls, OpenTab(c, url)
    PROVE  BrowserInv'
  <1> DEFINE h == Len(tab) + 1
             n == New("open", h)
             e == EnsureLiveRuntime(n)
             w == Waiting(n, "fetch", 0)
  <1>1. UNCHANGED <<page, live>> /\ Len(tab) < MaxTabs /\ CreateBackgroundTab(url)
    BY Zenon DEF OpenTab, runtimeVars, CreateTab
  <1>2. PagesOK' /\ PagesGrow /\ PopupsStay(c)
    BY <1>1, PagesStay, Zenon
  <1>3. TabsOK' /\ FetchOK' /\ TabsGrow /\ h \in DOMAIN tab'
    BY <1>1, <1>2, NewTab, Zenon DEF Addresses
  <1>4. LiveOK'
    BY <1>1, Zenon DEF BrowserInv, LiveOK
  <1>5. Go(c, e) \/ Go(c, w) \/ Go(c, Idle)
    BY Zenon DEF OpenTab, Done
  <1>6. CallOK(e, tab', page') /\ e.at # "popup"
    BY <1>3, EnsureOK, Zenon DEF RuntimeOps
  <1>7. CallOK(w, tab', page') /\ w.at # "popup"
    <2>1. About(n, h, tab', page') /\ n.parent = 0
      BY <1>3, NewOK, Zenon DEF RuntimeOps
    <2> HIDE DEF n
    <2> QED
      BY <2>1, WaitingOK
  <1>8. CallOK(Idle, tab', page') /\ Idle.at # "popup"
    BY IdleOK, Zenon
  <1> HIDE DEF h, n, e, w
  <1>9. CallsOK'
    BY <1>2, <1>3, <1>5, <1>6, <1>7, <1>8, GoKeeps, Zenon
  <1> QED
    BY <1>2, <1>3, <1>4, <1>9, Zenon DEF BrowserInv

LEMMA StartKeeps ==
    ASSUME BrowserInv, NEW c \in Slots, Start(c)
    PROVE  BrowserInv'
  <1> DEFINE r == EnsureLiveRuntime(New("start", 0))
  <1>1. CallOK(r, tab, page) /\ r.at # "popup"
    BY StartOK, Zenon
  <1>2. Go(c, r) /\ UNCHANGED <<tab, page, live, nextTabIndex>>
    BY Zenon DEF Start, runtimeVars, tabVars
  <1> HIDE DEF r
  <1> QED
    BY <1>1, <1>2, Silent, Zenon

LEMMA FocusKeeps ==
    ASSUME BrowserInv, NEW c \in Slots, NEW h, Focus(c, h)
    PROVE  BrowserInv'
  BY IdleOK, Silent, Zenon DEF Focus, Done, runtimeVars

-----------------------------------------------------------------------------
(* stop and reset.                                                         *)

LEMMA ResetOK ==
    ASSUME NEW r, NEW at \in {"drop", "closeContext", "closeBrowser"},
           DOMAIN r = Fields, r.op \in {"stop", "reset"}, r.at = at, r.parent = 0, ~ r.seed,
           r.url \in Addresses, r.before \in Addresses
    PROVE  \A T, P : CallOK(r, T, P) /\ r.at # "popup"
  BY Zenon DEF CallOK

\* A call of stop or reset.
Resetting(r) ==
    /\ DOMAIN r = Fields /\ r.op \in {"stop", "reset"} /\ r.parent = 0 /\ ~ r.seed
    /\ r.url \in Addresses /\ r.before \in Addresses

LEMMA StillResetting ==
    ASSUME NEW c \in Slots, CallsOK, call[c].op \in {"stop", "reset"}
    PROVE  Resetting(call[c])
  BY Zenon DEF CallsOK, CallOK, Resetting

LEMMA EndKeeps ==
    ASSUME BrowserInv, NEW c \in Slots, NEW r, EndReset(c, r), UNCHANGED tab,
           PagesOK', PagesGrow, PopupsStay(c), LiveOK'
    PROVE  BrowserInv'
  <1>1. nextTabIndex' \in {nextTabIndex, 1} /\ Go(c, Idle)
    BY Zenon DEF EndReset, ResetTabs, Done
  <1> QED
    BY <1>1, TabsStay, IdleOK, Step, Zenon

\* The part of resetLiveRuntime up to its next await.
LEMMA ResetKeeps ==
    ASSUME BrowserInv, NEW c \in Slots, NEW r, Resetting(r), NEW m, ResetLiveRuntime(c, r, m),
           DOMAIN m = Ids, \A i \in Ids : m[i] \in {0, live[i]},
           UNCHANGED tab, PagesOK', PagesGrow, PopupsStay(c)
    PROVE  BrowserInv'
  <1> DEFINE left == {i \in r.todo : m[i] # 0}
             d(i) == [r EXCEPT !.at = "drop", !.page = m[i], !.todo = left \ {i}]
             x == [r EXCEPT !.at = "closeContext", !.browser = liveContext, !.page = 0, !.todo = {}]
             b == [r EXCEPT !.at = "closeBrowser", !.browser = liveBrowser, !.page = 0, !.todo = {}]
  <1>1. \/ \E i : /\ live' = [m EXCEPT ![i] = 0] /\ Go(c, d(i)) /\ UNCHANGED nextTabIndex
        \/ live' = m /\ (Go(c, x) \/ Go(c, b)) /\ UNCHANGED nextTabIndex
        \/ live' = m /\ EndReset(c, r)
    BY Zenon DEF ResetLiveRuntime
  <1>2. DOMAIN live' = Ids /\ \A i \in Ids : live'[i] \in {0, live[i]}
    BY <1>1, Zenon
  <1>3. LiveOK'
    BY <1>2, LiveShrinks, Zenon
  <1>4. \A i : CallOK(d(i), tab, page) /\ d(i).at # "popup"
    <2> SUFFICES ASSUME NEW i PROVE CallOK(d(i), tab, page) /\ d(i).at # "popup"
      BY Zenon
    <2>1. Resetting(d(i)) /\ d(i).at = "drop"
      BY Zenon DEF Resetting, Fields
    <2> HIDE DEF d
    <2> QED
      BY <2>1, ResetOK, Zenon DEF Resetting
  <1>5. CallOK(x, tab, page) /\ x.at # "popup"
    <2>1. Resetting(x) /\ x.at = "closeContext"
      BY Zenon DEF Resetting, Fields
    <2> HIDE DEF x
    <2> QED
      BY <2>1, ResetOK, Zenon DEF Resetting
  <1>6. CallOK(b, tab, page) /\ b.at # "popup"
    <2>1. Resetting(b) /\ b.at = "closeBrowser"
      BY Zenon DEF Resetting, Fields
    <2> HIDE DEF b
    <2> QED
      BY <2>1, ResetOK, Zenon DEF Resetting
  <1> HIDE DEF d, x, b
  <1>7. CASE EndReset(c, r)
    BY <1>3, <1>7, EndKeeps, Zenon
  <1>8. CASE ~ EndReset(c, r)
    <2>1. UNCHANGED nextTabIndex /\ (Go(c, x) \/ Go(c, b) \/ \E i : Go(c, d(i)))
      BY <1>1, <1>8, Zenon
    <2>2. TabsOK' /\ FetchOK' /\ TabsGrow
      BY <2>1, TabsStay, Zenon
    <2> QED
      BY <1>3, <1>4, <1>5, <1>6, <2>1, <2>2, Step, Zenon
  <1> QED
    BY <1>7, <1>8, Zenon

LEMMA StopOrResetKeeps ==
    ASSUME BrowserInv, NEW c \in Slots, NEW op \in {"stop", "reset"}, StopOrReset(c, op)
    PROVE  BrowserInv'
  <1> DEFINE r == [New(op, 0) EXCEPT !.todo = {i \in Ids : live[i] # 0}]
  <1>1. Resetting(r)
    BY Zenon DEF New, Idle, Resetting, Fields, Addresses
  <1>2. UNCHANGED <<tab, page>> /\ ResetLiveRuntime(c, r, live)
    BY Zenon DEF StopOrReset
  <1> HIDE DEF r
  <1>3. PagesOK' /\ PagesGrow /\ PopupsStay(c) /\ DOMAIN live = Ids
    BY <1>2, PagesStay, Zenon DEF BrowserInv, LiveOK
  <1> QED
    BY <1>1, <1>2, <1>3, ResetKeeps, Zenon

LEMMA Forgets ==
    ASSUME BrowserInv, NEW ps
    PROVE  DOMAIN Forget(live, ps) = Ids /\ \A i \in Ids : Forget(live, ps)[i] \in {0, live[i]}
  BY Zenon DEF Forget

LEMMA ContextClosedKeeps ==
    ASSUME BrowserInv, NEW c \in Slots, ContextClosed(c) \/ BrowserClosed(c)
    PROVE  BrowserInv'
  <1> DEFINE r == call[c]
             ps == PagesOf(r.browser)
             b == [r EXCEPT !.at = "closeBrowser", !.browser = liveBrowser]
  <1>1. /\ page' = Closed(ps) /\ live' = Forget(live, ps) /\ UNCHANGED tab
        /\ r.at \in {"closeContext", "closeBrowser"}
        /\ (r.at = "closeContext" /\ Go(c, b) /\ UNCHANGED nextTabIndex) \/ EndReset(c, r)
    BY Zenon DEF ContextClosed, BrowserClosed
  <1>2. PagesOK' /\ PagesGrow /\ PopupsStay(c)
    BY <1>1, ClosedKeeps, Zenon
  <1>3. LiveOK'
    BY <1>1, <1>2, Forgets, LiveShrinks, Zenon
  <1>4. CASE EndReset(c, r)
    BY <1>1, <1>2, <1>3, <1>4, EndKeeps, Zenon
  <1>5. CASE r.at = "closeContext" /\ Go(c, b) /\ UNCHANGED nextTabIndex
    <2>1. CallOK(r, tab, page)
      BY Zenon DEF BrowserInv, CallsOK
    <2>2. CallOK(b, tab, page) /\ b.at # "popup"
      BY <1>5, <2>1, Zenon DEF CallOK, Fields
    <2>3. TabsOK' /\ FetchOK' /\ TabsGrow
      BY <1>1, <1>2, <1>5, TabsStay, Zenon
    <2> QED
      BY <1>2, <1>3, <1>5, <2>2, <2>3, Step, Zenon
  <1> QED
    BY <1>1, <1>4, <1>5, Zenon

-----------------------------------------------------------------------------
(* How pages come, move and get their id.                                  *)

LEMMA OneToN ==
    ASSUME NEW n \in Nat, NEW f, f = [g \in 1..n |-> f[g]]
    PROVE  f \in Seq({f[g] : g \in 1..n})
  OBVIOUS

LEMMA PageMade ==
    ASSUME BrowserInv, NEW q, {"url", "id", "open", "own"} \subseteq DOMAIN q,
           q.url \in Addresses, q.id \in Nat, page' = Append(page, q)
    PROVE  /\ PagesOK' /\ PagesGrow /\ \A c : PopupsStay(c)
           /\ Len(page) + 1 \in DOMAIN page' /\ Len(page) + 1 \notin DOMAIN page
           /\ page'[Len(page) + 1] = q /\ q.id \in IdsOf(page')
  <1>1. PICK S : page \in Seq(S)
    BY Zenon DEF BrowserInv, PagesOK
  <1>2. page \in Seq(S \cup {q}) /\ page' \in Seq(S \cup {q}) /\ Len(page) \in Nat
    BY <1>1
  <1>3. /\ DOMAIN page = 1..Len(page) /\ DOMAIN page' = 1..Len(page) + 1
        /\ page'[Len(page) + 1] = q /\ \A p \in DOMAIN page : page'[p] = page[p]
    BY <1>2
  <1>4. /\ \A p \in DOMAIN page' : p \in DOMAIN page \/ p = Len(page) + 1
        /\ \A p \in DOMAIN page : p \in DOMAIN page'
        /\ Len(page) + 1 \in DOMAIN page' /\ Len(page) + 1 \notin DOMAIN page
    BY <1>2, <1>3, SMTT(60)
  <1>5. PagesOK'
    BY <1>2, <1>3, <1>4, ZenonT(60) DEF BrowserInv, PagesOK
  <1>6. q.id \in IdsOf(page') /\ \A i \in IdsOf(page) : i \in IdsOf(page')
    BY <1>3, <1>4, Zenon DEF IdsOf
  <1>7. \A c : PopupsStay(c)
    BY <1>3, Zenon DEF PopupsStay, BrowserInv, CallsOK, CallOK
  <1> QED
    BY <1>3, <1>4, <1>5, <1>6, <1>7, Zenon DEF PagesGrow

LEMMA PageMoves ==
    ASSUME BrowserInv, NEW p \in DOMAIN page, NEW url \in Addresses,
           page' = [page EXCEPT ![p].url = url]
    PROVE  PagesOK' /\ PagesGrow /\ (\A c : PopupsStay(c)) /\ IdsOf(page') = IdsOf(page)
  <1>1. PICK S : page \in Seq(S)
    BY Zenon DEF BrowserInv, PagesOK
  <1>2. DOMAIN page = 1..Len(page) /\ Len(page) \in Nat /\ DOMAIN page' = DOMAIN page
    BY <1>1
  <1>3. \A g \in DOMAIN page : /\ DOMAIN page'[g] = DOMAIN page[g] /\ page'[g].id = page[g].id
                               /\ page'[g].url \in Addresses
    BY Zenon DEF BrowserInv, PagesOK
  <1>4. page' \in Seq({page'[g] : g \in DOMAIN page})
    <2>1. page' = [g \in 1..Len(page) |-> page'[g]]
      BY <1>2, Zenon
    <2>2. Len(page) \in Nat /\ DOMAIN page = 1..Len(page)
      BY <1>2, Zenon
    <2> QED
      BY ONLY <2>1, <2>2, OneToN, Zenon
  <1>5. PagesOK'
    BY <1>2, <1>3, <1>4, Zenon DEF BrowserInv, PagesOK
  <1>6. IdsOf(page') = IdsOf(page)
    BY <1>2, <1>3 DEF IdsOf
  <1> QED
    BY <1>2, <1>3, <1>5, <1>6, ZenonT(60) DEF PagesGrow, PopupsStay, BrowserInv, CallsOK, CallOK

\* A popup gets the id of the tab built for it.
LEMMA PopupNamed ==
    ASSUME BrowserInv, NEW c \in Slots, call[c].at = "popup", NEW i \in Nat,
           page' = [page EXCEPT ![call[c].page].id = i]
    PROVE  PagesOK' /\ PagesGrow /\ PopupsStay(c) /\ DOMAIN page' = DOMAIN page /\ i \in IdsOf(page')
  <1> DEFINE p == call[c].page
  <1>1. p \in DOMAIN page /\ page[p].id = 0
    BY Zenon DEF BrowserInv, CallsOK, CallOK
  <1>2. PICK S : page \in Seq(S)
    BY Zenon DEF BrowserInv, PagesOK
  <1>3. DOMAIN page = 1..Len(page) /\ Len(page) \in Nat /\ DOMAIN page' = DOMAIN page
    BY <1>2
  <1>4. \A g \in DOMAIN page : /\ DOMAIN page'[g] = DOMAIN page[g] /\ page'[g].url = page[g].url
                               /\ page'[g].id = IF g = p THEN i ELSE page[g].id
    BY Zenon DEF BrowserInv, PagesOK
  <1>5. page' \in Seq({page'[g] : g \in DOMAIN page})
    <2>1. page' = [g \in 1..Len(page) |-> page'[g]]
      BY <1>3, Zenon
    <2>2. Len(page) \in Nat /\ DOMAIN page = 1..Len(page)
      BY <1>3, Zenon
    <2> QED
      BY ONLY <2>1, <2>2, OneToN, Zenon
  <1>6. PagesOK'
    BY <1>3, <1>4, <1>5, ZenonT(60) DEF BrowserInv, PagesOK
  <1>7. i \in IdsOf(page') /\ \A j \in IdsOf(page) : j = 0 \/ j \in IdsOf(page')
    BY <1>1, <1>3, <1>4 DEF IdsOf
  <1>8. PopupsStay(c)
    <2> SUFFICES ASSUME NEW d \in Slots, d # c, call[d].at = "popup"
                 PROVE  page'[call[d].page].id = 0
      BY Zenon DEF PopupsStay
    <2>1. call[d].page \in DOMAIN page /\ page[call[d].page].id = 0 /\ call[d].page # p
      BY Zenon DEF BrowserInv, CallsOK, CallOK
    <2> QED
      BY <1>4, <2>1, Zenon
  <1> QED
    BY <1>3, <1>6, <1>7, <1>8, Zenon DEF PagesGrow

\* A page is attached.
LEMMA AttachKeeps ==
    ASSUME BrowserInv, PagesGrow, NEW i \in Ids, NEW p \in DOMAIN page', i \in IdsOf(page'),
           AttachLivePage(i, p)
    PROVE  LiveOK'
  <1>1. DOMAIN live' = Ids /\ \A j \in Ids : live'[j] = IF j = i THEN p ELSE live[j]
    BY Zenon DEF AttachLivePage, BrowserInv, LiveOK
  <1>2. \A j \in Ids : j # 0
    BY DEF Ids
  <1> QED
    BY <1>1, <1>2, Zenon DEF BrowserInv, LiveOK, PagesGrow

-----------------------------------------------------------------------------
(* How awaits settle.                                                      *)

LEMMA RuntimeReadyKeeps ==
    ASSUME BrowserInv, NEW c \in Slots, Launched(c) \/ ContextReady(c)
    PROVE  BrowserInv'
  <1> DEFINE r == call[c]
             e(x) == [r EXCEPT !.at = "context", !.browser = x]
             n(x) == [r EXCEPT !.at = "newPage", !.browser = x]
  <1>1. /\ UNCHANGED <<tab, page, live, nextTabIndex>> /\ r.at \in {"launch", "context"}
        /\ \E x : \/ Go(c, e(x)) \/ Go(c, Idle)
                  \/ r.op # "start" /\ Go(c, n(x))
    BY Zenon DEF Launched, ContextReady, WithContext, tabVars
  <1>2. CallOK(r, tab, page)
    BY Zenon DEF BrowserInv, CallsOK
  <1>3. \A x : CallOK(e(x), tab, page) /\ e(x).at # "popup"
    BY <1>1, <1>2, Zenon DEF CallOK, Fields
  <1>4. r.op # "start" => \A x : CallOK(n(x), tab, page) /\ n(x).at # "popup"
    BY <1>1, <1>2, Zenon DEF CallOK, Fields
  <1> HIDE DEF e, n
  <1> QED
    BY <1>1, <1>3, <1>4, IdleOK, Silent, Zenon

LEMMA PageReadyKeeps ==
    ASSUME BrowserInv, NEW c \in Slots, PageReady(c)
    PROVE  BrowserInv'
  <1> DEFINE r == call[c]
             p == Len(page) + 1
             q == [url |-> None, browser |-> r.browser, open |-> TRUE, own |-> TRUE, id |-> tab[r.tab].id]
             g == [r EXCEPT !.at = "goto", !.page = p, !.browser = 0]
  <1>1. /\ r.at = "newPage" /\ page' = Append(page, q) /\ AttachLivePage(tab[r.tab].id, p)
        /\ Go(c, g) /\ UNCHANGED <<tab, nextTabIndex>>
    BY Zenon DEF PageReady, tabVars
  <1>2. CallOK(r, tab, page) /\ r.tab \in DOMAIN tab
    BY <1>1, Zenon DEF BrowserInv, CallsOK, CallOK
  <1>3. tab[r.tab].id \in Ids /\ tab[r.tab].id \in Nat
    BY <1>2, SMTT(60) DEF BrowserInv, TabsOK, TabOK, TabRecord, Ids
  <1>4. {"url", "id", "open", "own"} \subseteq DOMAIN q /\ q.url \in Addresses /\ q.id = tab[r.tab].id
    BY Zenon DEF Addresses
  <1> HIDE DEF q
  <1>5. PagesOK' /\ PagesGrow /\ PopupsStay(c) /\ p \in DOMAIN page' /\ tab[r.tab].id \in IdsOf(page')
    BY <1>1, <1>3, <1>4, PageMade, Zenon
  <1>6. TabsOK' /\ FetchOK' /\ TabsGrow
    BY <1>1, <1>5, TabsStay, Zenon
  <1>7. LiveOK'
    BY <1>1, <1>3, <1>5, AttachKeeps, Zenon
  <1> HIDE DEF p
  <1>8. CallOK(g, tab', page') /\ g.at # "popup"
    BY <1>1, <1>2, <1>5, Zenon DEF CallOK, Fields
  <1> HIDE DEF g
  <1>9. CallsOK'
    BY <1>1, <1>5, <1>6, <1>8, GoKeeps, Zenon
  <1> QED
    BY <1>5, <1>6, <1>7, <1>9, Zenon DEF BrowserInv

\* captureLiveTabSnapshot of a tab that has a page.
LEMMA CaptureAgainOK ==
    ASSUME BrowserInv, NEW c \in Slots, NEW r, About(r, r.tab, tab, page), CaptureAgain(c, r)
    PROVE  LET w == Waiting(r, "settle", PageOf(r.tab)) IN
           Go(c, w) /\ CallOK(w, tab, page) /\ w.at = "settle"
  <1>1. r.tab \in DOMAIN tab /\ PageOf(r.tab) # 0 /\ Go(c, Waiting(r, "settle", PageOf(r.tab)))
    BY Zenon DEF CaptureAgain, About
  <1>2. PageOf(r.tab) \in DOMAIN page
    BY <1>1, PageOK, Zenon DEF PageOf
  <1> QED
    BY <1>1, <1>2, WaitingOK, SMTT(60)

\* The page of a call has moved, and the call's tab may be written.
LEMMA MovedStep ==
    ASSUME BrowserInv, NEW c \in Slots, NEW r, Go(c, r), CallOK(r, tab, page), r.at # "popup",
           NEW p \in DOMAIN page, NEW url \in Addresses, page' = [page EXCEPT ![p].url = url],
           UNCHANGED <<live, nextTabIndex>>, NEW h \in DOMAIN tab, tab[h].id \in IdsOf(page),
           UNCHANGED tab \/ \E t : Put(h, t) /\ TabOK(t) /\ t.id = tab[h].id
    PROVE  BrowserInv'
  <1>1. PagesOK' /\ PagesGrow /\ PopupsStay(c) /\ IdsOf(page') = IdsOf(page)
    BY PageMoves, Zenon
  <1>2. TabsOK' /\ FetchOK' /\ TabsGrow
    BY <1>1, TabsStay, PutKeeps, Zenon
  <1>3. LiveOK'
    <2>1. DOMAIN live' = Ids /\ \A i \in Ids : live'[i] \in {0, live[i]}
      BY Zenon DEF BrowserInv, LiveOK
    <2> QED
      BY <1>1, <2>1, LiveShrinks, Zenon
  <1> QED
    BY <1>1, <1>2, <1>3, Step, Zenon

LEMMA ArrivedKeeps ==
    ASSUME BrowserInv, NEW c \in Slots, Arrived(c)
    PROVE  BrowserInv'
  <1> DEFINE r == call[c]
             t == tab[r.tab]
             a == [r EXCEPT !.op = "interact", !.at = "act"]
             d == [r EXCEPT !.at = "downloads"]
             w == Waiting(r, "settle", PageOf(r.tab))
             m(url) == [t EXCEPT !.historyIndex = Entry(t, r.op), !.url = url]
  <1>1. r.at = "goto" /\ UNCHANGED <<live, nextTabIndex>>
    BY Zenon DEF Arrived
  <1>2. CallOK(r, tab, page) /\ About(r, r.tab, tab, page) /\ r.parent = 0 /\ ~ r.seed
    BY <1>1, Zenon DEF BrowserInv, CallsOK, CallOK, About, RuntimeOps
  <1>3. r.page \in DOMAIN page /\ r.tab \in DOMAIN tab /\ t.id \in IdsOf(page) /\ TabOK(t)
    BY <1>1, <1>2, Zenon DEF CallOK, About, BrowserInv, TabsOK
  <1>4. PICK url \in Urls :
           /\ page' = [page EXCEPT ![r.page].url = url]
           /\ \/ Put(r.tab, Visited(t, url)) /\ Go(c, a)
              \/ Go(c, d) /\ UNCHANGED tab
              \/ Put(r.tab, m(url)) /\ (CaptureAgain(c, r) \/ Go(c, Idle))
              \/ CaptureAgain(c, r) /\ UNCHANGED tab
              \/ Put(r.tab, Located(t, url)) /\ Go(c, Idle)
    BY Zenon DEF Arrived, Done
  <1>5. url \in Addresses
    BY Zenon DEF Addresses
  <1>6. UNCHANGED tab \/ \E u : Put(r.tab, u) /\ TabOK(u) /\ u.id = t.id
    <2>1. TabOK(Visited(t, url)) /\ Visited(t, url).id = t.id
      BY <1>3, <1>5, VisitedOK, Zenon
    <2>2. TabOK(Located(t, url)) /\ Located(t, url).id = t.id
      BY <1>3, <1>5, LocatedOK, Zenon
    <2>3. TabOK(m(url)) /\ m(url).id = t.id
      BY <1>3, <1>5, EntryOK, MovedOK, ZenonT(60)
    <2> HIDE DEF t, m
    <2> QED
      BY <1>4, <2>1, <2>2, <2>3, Zenon
  <1>7. CallOK(a, tab, page) /\ a.at # "popup"
    BY <1>1, <1>2, Zenon DEF CallOK, Fields
  <1>8. CallOK(d, tab, page) /\ d.at # "popup"
    BY <1>1, <1>2, Zenon DEF CallOK, Fields
  <1>9. CaptureAgain(c, r) => Go(c, w) /\ CallOK(w, tab, page) /\ w.at # "popup"
    BY <1>2, CaptureAgainOK, Zenon
  <1>10. \E q : Go(c, q) /\ CallOK(q, tab, page) /\ q.at # "popup"
    <2> HIDE DEF a, d, w, r, t, m
    <2> QED
      BY <1>4, <1>7, <1>8, <1>9, IdleOK, Zenon
  <1> HIDE DEF a, d, w, m
  <1> QED
    BY <1>1, <1>3, <1>4, <1>5, <1>6, <1>10, MovedStep, Zenon

LEMMA ActedKeeps ==
    ASSUME BrowserInv, NEW c \in Slots, Acted(c)
    PROVE  BrowserInv'
  <1> DEFINE r == call[c]
             d == [r EXCEPT !.at = "downloads"]
             w == Waiting(r, "settle", PageOf(r.tab))
             o == [r EXCEPT !.at = "popup", !.page = Len(page) + 1]
             q(url) == [page[r.page] EXCEPT !.url = url, !.own = FALSE, !.id = 0]
  <1>1. r.at = "act" /\ UNCHANGED <<tab, live, nextTabIndex>>
    BY Zenon DEF Acted, tabVars
  <1>2. CallOK(r, tab, page) /\ About(r, r.tab, tab, page) /\ r.parent = 0 /\ ~ r.seed
    BY <1>1, Zenon DEF BrowserInv, CallsOK, CallOK, About, RuntimeOps
  <1>3. r.page \in DOMAIN page /\ r.tab \in DOMAIN tab /\ tab[r.tab].id \in IdsOf(page)
    BY <1>1, <1>2, Zenon DEF CallOK, About
  <1>4. /\ page[r.page].url \in Addresses
        /\ {"url", "id", "open", "own"} \subseteq DOMAIN page[r.page]
    BY <1>3, Zenon DEF BrowserInv, PagesOK
  <1>5. \/ \E url \in Addresses : /\ page' = [page EXCEPT ![r.page].url = url]
                                  /\ Go(c, d) \/ CaptureAgain(c, r) \/ Go(c, Idle)
        \/ r.op = "click" /\ Go(c, o) /\ \E url \in Urls : page' = Append(page, q(url))
    BY <1>4, Zenon DEF Acted, Done, Addresses
  <1>6. CASE \E url \in Addresses : /\ page' = [page EXCEPT ![r.page].url = url]
                                    /\ Go(c, d) \/ CaptureAgain(c, r) \/ Go(c, Idle)
    <2>1. PICK url \in Addresses : /\ page' = [page EXCEPT ![r.page].url = url]
                                   /\ Go(c, d) \/ CaptureAgain(c, r) \/ Go(c, Idle)
      BY <1>6, Zenon
    <2>2. CallOK(d, tab, page) /\ d.at # "popup"
      BY <1>1, <1>2, Zenon DEF CallOK, Fields
    <2>3. CaptureAgain(c, r) => Go(c, w) /\ CallOK(w, tab, page) /\ w.at # "popup"
      BY <1>2, CaptureAgainOK, Zenon
    <2> HIDE DEF d, w
    <2>4. \E x : Go(c, x) /\ CallOK(x, tab, page) /\ x.at # "popup"
      BY <2>1, <2>2, <2>3, IdleOK, Zenon
    <2> QED
      BY <1>1, <1>3, <2>1, <2>4, MovedStep, Zenon
  <1>7. CASE r.op = "click" /\ Go(c, o) /\ \E url \in Urls : page' = Append(page, q(url))
    <2>1. PICK url \in Urls : page' = Append(page, q(url))
      BY <1>7, Zenon
    <2>2. {"url", "id", "open", "own"} \subseteq DOMAIN q(url) /\ q(url).url \in Addresses /\ q(url).id = 0
      BY <1>4, Zenon DEF Addresses
    <2> HIDE DEF q
    <2>3. /\ PagesOK' /\ PagesGrow /\ PopupsStay(c) /\ Len(page) + 1 \notin DOMAIN page
          /\ Len(page) + 1 \in DOMAIN page' /\ page'[Len(page) + 1].id = 0
      BY <2>1, <2>2, PageMade, SMTT(60)
    <2>4. TabsOK' /\ FetchOK' /\ TabsGrow
      BY <1>1, <2>3, TabsStay, Zenon
    <2>5. LiveOK'
      <3>1. DOMAIN live' = Ids /\ \A i \in Ids : live'[i] \in {0, live[i]}
        BY <1>1, Zenon DEF BrowserInv, LiveOK
      <3> QED
        BY <2>3, <3>1, LiveShrinks, Zenon
    <2>6. tab'[r.tab].id \in IdsOf(page')
      BY <1>1, <1>3, <2>3, SMTT(60) DEF PagesGrow, BrowserInv, TabsOK, TabOK, TabRecord, Ids
    <2>7. CallOK(o, tab', page') /\ o.page = Len(page) + 1
      BY <1>1, <1>2, <1>3, <1>7, <2>3, <2>6, Zenon DEF CallOK, Fields
    <2> HIDE DEF o
    <2>8. CallsOK'
      BY <1>7, <2>3, <2>4, <2>7, GoKeeps, Zenon
    <2> QED
      BY <2>3, <2>4, <2>5, <2>8, Zenon DEF BrowserInv
  <1> QED
    BY <1>5, <1>6, <1>7, Zenon

\* registerPopupTabFromLivePage.
LEMMA PopupKeeps ==
    ASSUME BrowserInv, NEW c \in Slots, Popup(c)
    PROVE  BrowserInv'
  <1> DEFINE r == call[c]
             h == Len(tab) + 1
             i == nextTabIndex
             q == [r EXCEPT !.tab = h, !.parent = r.tab]
             w == Waiting(q, "settle", r.page)
  <1>1. /\ r.at = "popup" /\ Len(tab) < MaxTabs /\ CreateBackgroundTab(page[r.page].url)
        /\ AttachLivePage(i, r.page) /\ page' = [page EXCEPT ![r.page].id = i] /\ Go(c, w)
    BY Zenon DEF Popup
  <1>2. CallOK(r, tab, page) /\ r.page \in DOMAIN page /\ page[r.page].url \in Addresses
    BY <1>1, ZenonT(60) DEF BrowserInv, CallsOK, CallOK, PagesOK
  <1>3. i \in Nat
    BY DEF BrowserInv, TabsOK
  <1>4. PagesOK' /\ PagesGrow /\ PopupsStay(c) /\ r.page \in DOMAIN page' /\ i \in IdsOf(page')
    BY <1>1, <1>2, <1>3, PopupNamed, Zenon
  <1>5. /\ TabsOK' /\ FetchOK' /\ TabsGrow /\ i \in Ids /\ h \in DOMAIN tab' /\ tab'[h].id = i
    BY <1>1, <1>2, <1>4, NewTab, Zenon
  <1>6. LiveOK'
    BY <1>1, <1>4, <1>5, AttachKeeps, Zenon
  <1> HIDE DEF i, h
  <1>7. About(q, h, tab', page')
    <2>1. r.tab \in DOMAIN tab' /\ r.op = "click" /\ ~ r.seed /\ DOMAIN r = Fields
      BY <1>1, <1>2, <1>5, Zenon DEF CallOK, TabsGrow
    <2> QED
      BY <1>2, <1>4, <1>5, <2>1, Zenon DEF CallOK, About, Fields, RuntimeOps
  <1> HIDE DEF q
  <1>8. CallOK(w, tab', page') /\ w.at = "settle"
    BY <1>4, <1>7, WaitingOK
  <1> HIDE DEF w
  <1>9. CallsOK'
    BY <1>1, <1>4, <1>5, <1>8, GoKeeps, Zenon
  <1> QED
    BY <1>4, <1>5, <1>6, <1>9, Zenon DEF BrowserInv

LEMMA SettledKeeps ==
    ASSUME BrowserInv, NEW c \in Slots, Settled(c)
    PROVE  BrowserInv'
  <1> DEFINE r == call[c]
             q == [r EXCEPT !.at = "read", !.url = page[r.page].url]
  <1>1. r.at = "settle" /\ Go(c, q) /\ UNCHANGED <<tab, page, live, nextTabIndex>>
    BY Zenon DEF Settled, tabVars, runtimeVars
  <1>2. CallOK(r, tab, page) /\ page[r.page].url \in Addresses
    BY <1>1, Zenon DEF BrowserInv, CallsOK, CallOK, PagesOK
  <1>3. CallOK(q, tab, page) /\ q.at # "popup"
    BY <1>1, <1>2, Zenon DEF CallOK, Fields
  <1> HIDE DEF q
  <1> QED
    BY <1>1, <1>3, Silent, Zenon

\* captureTabSnapshot and captureLiveTabSnapshot write the tab.
LEMMA ReadKeeps ==
    ASSUME BrowserInv, NEW c \in Slots, Read(c) \/ Fetched(c)
    PROVE  BrowserInv'
  <1> DEFINE r == call[c]
             h == r.tab
             d == [r EXCEPT !.at = "downloads", !.url = None]
  <1>1. /\ r.at \in {"read", "fetch"} /\ UNCHANGED <<page, live, nextTabIndex>>
    BY Zenon DEF Read, Fetched, runtimeVars
  <1>2. CallOK(r, tab, page) /\ About(r, h, tab, page) /\ h \in DOMAIN tab /\ TabOK(tab[h])
    BY <1>1, Zenon DEF BrowserInv, CallsOK, CallOK, About, RuntimeOps, TabsOK
  <1>3. PICK url \in Addresses : LET t == Captured(tab[h], url) IN
           \/ r.seed /\ Act(c, r, h, t)
           \/ r.at = "read" /\ r.parent # 0 /\ Put(h, t) /\ Go(c, d)
           \/ (Put(h, t) \/ Put(h, AppendHistoryEntry(t, url))) /\ Go(c, Idle)
    <2>1. CASE Read(c)
      BY <1>2, <2>1, Zenon DEF Read, Done, CallOK
    <2>2. CASE Fetched(c)
      BY <2>2, Zenon DEF Fetched, Done, Addresses
    <2> QED
      BY <2>1, <2>2, Zenon
  <1> DEFINE t == Captured(tab[h], url)
  <1>4. TabOK(t) /\ t.id = tab[h].id /\ Agrees(t) /\ AppendHistoryEntry(t, url) = t
    BY <1>2, CapturedOK, Zenon
  <1>5. \/ r.seed /\ Act(c, r, h, t)
        \/ r.at = "read" /\ r.parent # 0 /\ Put(h, t) /\ Go(c, d)
        \/ Put(h, t) /\ Go(c, Idle)
    BY <1>3, <1>4, Zenon
  <1> HIDE DEF t
  <1>6. CASE r.seed /\ Act(c, r, h, t)
    <2>1. r.parent = 0
      BY <1>2, <1>6, Zenon DEF CallOK
    <2> HIDE DEF r, h
    <2> QED
      BY <1>1, <1>2, <1>4, <1>6, <2>1, ActKeeps, Zenon
  <1>7. CASE r.at = "read" /\ r.parent # 0 /\ Put(h, t) /\ Go(c, d)
    <2>1. CallOK(d, tab, page) /\ d.at # "popup"
      BY <1>2, <1>7, Zenon DEF CallOK, Fields, Addresses
    <2> HIDE DEF r, h, d
    <2> QED
      BY <1>1, <1>2, <1>4, <1>7, <2>1, Writes, Zenon
  <1>8. CASE Put(h, t) /\ Go(c, Idle)
    BY <1>1, <1>2, <1>4, <1>8, IdleOK, Writes, Zenon
  <1> QED
    BY <1>5, <1>6, <1>7, <1>8, Zenon

LEMMA DownloadedKeeps ==
    ASSUME BrowserInv, NEW c \in Slots, Downloaded(c)
    PROVE  BrowserInv'
  <1> DEFINE r == call[c]
             t == tab[r.tab]
             own == [r EXCEPT !.parent = 0]
             up == [r EXCEPT !.tab = r.parent, !.parent = 0]
             now == Shown(r.page, t)
             moved == IF now # r.before THEN AppendHistoryEntry(t, now) ELSE t
  <1>1. /\ r.at = "downloads" /\ UNCHANGED <<page, live, nextTabIndex>>
        /\ \/ UNCHANGED tab /\ (\/ Go(c, Idle) \/ CaptureAgain(c, r)
                                \/ r.parent # 0 /\ (CaptureAgain(c, own) \/ CaptureAgain(c, up)))
           \/ Put(r.tab, Located(moved, now)) /\ Go(c, Idle)
    BY Zenon DEF Downloaded, Done, runtimeVars
  <1>2. CallOK(r, tab, page) /\ About(r, r.tab, tab, page) /\ ~ r.seed
    BY <1>1, Zenon DEF BrowserInv, CallsOK, CallOK, About, RuntimeOps
  <1>3. r.page \in DOMAIN page /\ r.tab \in DOMAIN tab /\ t.id \in IdsOf(page) /\ TabOK(t)
    BY <1>1, <1>2, ZenonT(60) DEF CallOK, About, BrowserInv, TabsOK
  <1>4. CASE Put(r.tab, Located(moved, now)) /\ Go(c, Idle)
    <2>1. now \in Addresses
      BY <1>3, ShownOK, Zenon
    <2> HIDE DEF now
    <2>2. TabOK(moved) /\ moved.id = t.id
      BY <1>3, <2>1, AppendOK, Zenon
    <2> HIDE DEF moved
    <2>3. TabOK(Located(moved, now)) /\ Located(moved, now).id = t.id
      BY <2>1, <2>2, LocatedOK, Zenon
    <2> HIDE DEF r
    <2> QED
      BY <1>1, <1>3, <1>4, <2>3, IdleOK, Writes, Zenon
  <1>5. CASE UNCHANGED tab /\ (\/ Go(c, Idle) \/ CaptureAgain(c, r)
                               \/ r.parent # 0 /\ (CaptureAgain(c, own) \/ CaptureAgain(c, up)))
    <2>1. About(own, own.tab, tab, page)
      BY <1>2, Zenon DEF About, Fields
    <2>2. r.parent # 0 => About(up, up.tab, tab, page)
      BY <1>2, Zenon DEF About, Fields
    <2> HIDE DEF r, own, up
    <2>3. \E q : Go(c, q) /\ CallOK(q, tab, page) /\ q.at # "popup"
      <3>1. CASE Go(c, Idle)
        BY <3>1, IdleOK, Zenon
      <3>2. CASE \E x : About(x, x.tab, tab, page) /\ CaptureAgain(c, x)
        BY <3>2, CaptureAgainOK, Zenon
      <3> QED
        BY <1>2, <1>5, <2>1, <2>2, <3>1, <3>2, Zenon
    <2> QED
      BY <1>1, <1>5, <2>3, Silent, Zenon
  <1> QED
    BY <1>1, <1>4, <1>5, Zenon

LEMMA FailsKeeps ==
    ASSUME BrowserInv, NEW c \in Slots, Fails(c)
    PROVE  BrowserInv'
  <1> DEFINE r == call[c]
             t == tab[r.tab]
             g == [r EXCEPT !.at = "drop", !.page = PageOf(r.tab), !.url = None, !.browser = 0]
             w == Waiting(r, "fetch", 0)
             d == [r EXCEPT !.at = "downloads", !.url = None]
             now == Shown(r.page, t)
  <1>1. /\ r.at \notin {"idle", "popup"} /\ UNCHANGED <<page, nextTabIndex>>
        /\ \/ Go(c, Idle) /\ UNCHANGED <<tab, live>>
           \/ /\ r.op \in Fallback /\ UNCHANGED tab
              /\ \/ live' = [live EXCEPT ![t.id] = 0] /\ Go(c, g)
                 \/ UNCHANGED live /\ Go(c, w)
           \/ r.parent # 0 /\ Put(r.tab, Located(t, now)) /\ Go(c, d) /\ UNCHANGED live
    BY Zenon DEF Fails, Done
  <1>2. CallOK(r, tab, page)
    BY Zenon DEF BrowserInv, CallsOK
  <1>3. CASE Go(c, Idle) /\ UNCHANGED <<tab, live>>
    BY <1>1, <1>3, IdleOK, Silent, Zenon
  <1>4. CASE /\ r.op \in Fallback /\ UNCHANGED tab
             /\ \/ live' = [live EXCEPT ![t.id] = 0] /\ Go(c, g)
                \/ UNCHANGED live /\ Go(c, w)
    <2>1. About(r, r.tab, tab, page) /\ r.parent = 0 /\ ~ r.seed
      BY <1>1, <1>2, <1>4, Zenon DEF CallOK, About, RuntimeOps, Fallback
    <2>2. DOMAIN live' = Ids /\ \A i \in Ids : live'[i] \in {0, live[i]}
      BY <1>4, Zenon DEF BrowserInv, LiveOK
    <2>3. About(g, g.tab, tab, page) /\ g.parent = 0 /\ ~ g.seed /\ g.at = "drop"
      BY <2>1, Zenon DEF About, Fields, Addresses
    <2>4. CallOK(w, tab, page) /\ w.at # "popup"
      <3> HIDE DEF r
      <3> QED
        BY <2>1, WaitingOK
    <2> HIDE DEF r, g, w
    <2>5. CallOK(g, tab, page)
      BY <2>3, AwayOK, Zenon
    <2> QED
      BY <1>1, <1>4, <2>2, <2>3, <2>4, <2>5, Quiet, Zenon
  <1>5. CASE r.parent # 0 /\ Put(r.tab, Located(t, now)) /\ Go(c, d) /\ UNCHANGED live
    <2>1. r.tab \in DOMAIN tab /\ r.page \in DOMAIN page /\ t.id \in IdsOf(page) /\ TabOK(t)
      BY <1>2, <1>5, Zenon DEF CallOK, BrowserInv, TabsOK
    <2>2. now \in Addresses
      BY <2>1, ShownOK, Zenon
    <2> HIDE DEF now
    <2>3. TabOK(Located(t, now)) /\ Located(t, now).id = t.id
      BY <2>1, <2>2, LocatedOK, Zenon
    <2>4. CallOK(d, tab, page) /\ d.at # "popup"
      BY <1>2, <1>5, Zenon DEF CallOK, Fields, Addresses
    <2> HIDE DEF r, d
    <2> QED
      BY <1>1, <1>5, <2>1, <2>3, <2>4, Writes, Zenon
  <1> QED
    BY <1>1, <1>3, <1>4, <1>5, Zenon

LEMMA DroppedKeeps ==
    ASSUME BrowserInv, NEW c \in Slots, Dropped(c)
    PROVE  BrowserInv'
  <1> DEFINE r == call[c]
             m == Forget(live, {r.page})
             w == Waiting(r, "fetch", 0)
  <1>1. /\ r.at = "drop" /\ page' = Closed({r.page}) /\ UNCHANGED tab
        /\ \/ live' = m /\ UNCHANGED nextTabIndex /\ ((r.op \in Fallback /\ Go(c, w)) \/ Go(c, Idle))
           \/ r.op \in {"stop", "reset"} /\ ResetLiveRuntime(c, r, m)
    BY Zenon DEF Dropped, Done
  <1>2. CallOK(r, tab, page)
    BY Zenon DEF BrowserInv, CallsOK
  <1>3. PagesOK' /\ PagesGrow /\ PopupsStay(c)
    BY <1>1, ClosedKeeps, Zenon
  <1>4. DOMAIN m = Ids /\ \A i \in Ids : m[i] \in {0, live[i]}
    BY Forgets, Zenon
  <1> HIDE DEF m
  <1>5. CASE live' = m /\ UNCHANGED nextTabIndex /\ ((r.op \in Fallback /\ Go(c, w)) \/ Go(c, Idle))
    <2>1. r.op \in Fallback => About(r, r.tab, tab, page) /\ r.parent = 0
      BY <1>1, <1>2, Zenon DEF CallOK, About, RuntimeOps, Fallback
    <2> HIDE DEF r
    <2>2. r.op \in Fallback => CallOK(w, tab, page) /\ w.at # "popup"
      BY <2>1, WaitingOK, SMTT(60)
    <2>3. LiveOK'
      BY <1>3, <1>4, <1>5, LiveShrinks, Zenon
    <2>4. TabsOK' /\ FetchOK' /\ TabsGrow
      BY <1>1, <1>3, <1>5, TabsStay, Zenon
    <2> HIDE DEF w
    <2> QED
      BY <1>3, <1>5, <2>2, <2>3, <2>4, IdleOK, Step, Zenon
  <1>6. CASE r.op \in {"stop", "reset"} /\ ResetLiveRuntime(c, r, m)
    <2>1. Resetting(r)
      BY <1>6, StillResetting, Zenon DEF BrowserInv
    <2> HIDE DEF r
    <2> QED
      BY <1>1, <1>3, <1>4, <1>6, <2>1, ResetKeeps, Zenon
  <1> QED
    BY <1>1, <1>5, <1>6, Zenon

\* A page or a browser is lost.
LEMMA LostKeeps ==
    ASSUME BrowserInv, NEW ps, page' = Closed(ps), live' = Forget(live, ps), UNCHANGED <<tabVars, call>>
    PROVE  BrowserInv'
  <1>1. PagesOK' /\ PagesGrow /\ \A c : PopupsStay(c)
    BY ClosedKeeps, Zenon
  <1>2. LiveOK'
    BY <1>1, Forgets, LiveShrinks, Zenon
  <1>3. TabsOK' /\ FetchOK' /\ TabsGrow
    BY <1>1, TabsStay, Zenon DEF tabVars
  <1>4. \A c \in Slots : call[c].at = "popup" => page'[call[c].page].id = 0
    <2>1. \A p \in DOMAIN page : page'[p].id = page[p].id
      BY Zenon DEF Closed, BrowserInv, PagesOK
    <2> QED
      BY <2>1, Zenon DEF BrowserInv, CallsOK, CallOK
  <1>5. \A c \in Slots : CallOK(call[c], tab', page')
    BY <1>1, <1>3, <1>4, CallStays, Zenon DEF BrowserInv, CallsOK
  <1>6. CallsOK'
    BY <1>5, Zenon DEF BrowserInv, CallsOK
  <1> QED
    BY <1>1, <1>2, <1>3, <1>6, Zenon DEF BrowserInv

-----------------------------------------------------------------------------
(* The theorem.                                                            *)

LEMMA StartsRight == Init => BrowserInv
  <1> SUFFICES ASSUME Init PROVE BrowserInv
    BY Zenon
  <1>1. TabsOK /\ FetchOK
    BY BrowserAssumption DEF Init, TabsInit, TabsOK, FetchOK
  <1>2. PagesOK
    <2>1. page \in Seq({})
      BY DEF Init
    <2> QED
      BY <2>1 DEF Init, PagesOK
  <1>3. LiveOK
    BY Zenon DEF Init, LiveOK
  <1>4. CallsOK
    BY IdleOK, Zenon DEF Init, CallsOK
  <1> QED
    BY <1>1, <1>2, <1>3, <1>4, Zenon DEF BrowserInv

\* The calls on a tab of the list.
LEMMA TabCallKeeps ==
    ASSUME BrowserInv, NEW c \in Slots, NEW h \in OpenTabs
    PROVE  \/ Focus(c, h) \/ Screenshot(c, h) \/ Inspect(c, h)
           \/ Close(c, h) \/ Reload(c, h) \/ Snapshot(c, h)
           \/ Forms(c, h) \/ Products(c, h)
           \/ Login(c, h) \/ Mfa(c, h) \/ Challenge(c, h)
           \/ Wait(c, h) \/ WaitForRequest(c, h) \/ Scroll(c, h) \/ Evaluate(c, h)
           \/ Hover(c, h) \/ Select(c, h) \/ Upload(c, h)
           \/ Fill(c, h) \/ Submit(c, h) \/ Click(c, h)
           \/ \E url \in Urls : Navigate(c, h, url)
           \/ \E op \in {"back", "forward"} : Move(c, h, op)
           => BrowserInv'
  <1>1. h \in DOMAIN tab
    BY Zenon DEF OpenTabs
  <1>2. Focus(c, h) \/ Screenshot(c, h) \/ Inspect(c, h) => BrowserInv'
    BY FocusKeeps, Zenon DEF Screenshot, Inspect
  <1>3. Close(c, h) \/ Reload(c, h) => BrowserInv'
    BY <1>1, CloseKeeps, ReloadKeeps, Zenon
  <1>4. Snapshot(c, h) \/ Forms(c, h) \/ Products(c, h) => BrowserInv'
    BY <1>1, SnapshotKeeps, Zenon
  <1>5. Login(c, h) \/ Mfa(c, h) \/ Challenge(c, h) => BrowserInv'
    BY <1>1, <1>4, EnterKeeps, Zenon DEF Login, Mfa, Challenge
  <1>6. Wait(c, h) \/ WaitForRequest(c, h) \/ Scroll(c, h) \/ Evaluate(c, h) => BrowserInv'
    BY <1>1, <1>4, WatchKeeps, Zenon DEF Wait, WaitForRequest, Scroll, Evaluate
  <1>7. Hover(c, h) \/ Select(c, h) \/ Upload(c, h) => BrowserInv'
    BY <1>1, SeededKeeps, Zenon DEF Hover, Select, Upload, Handle
  <1>8. Fill(c, h) \/ Submit(c, h) \/ Click(c, h) => BrowserInv'
    BY <1>1, WatchKeeps, SeededKeeps, Zenon DEF Fill, Submit, Click
  <1>9. (\E url \in Urls : Navigate(c, h, url)) => BrowserInv'
    BY <1>1, NavigateKeeps, Zenon
  <1>10. (\E op \in {"back", "forward"} : Move(c, h, op)) => BrowserInv'
    BY <1>1, MoveKeeps, Zenon
  <1> QED
    BY <1>2, <1>3, <1>4, <1>5, <1>6, <1>7, <1>8, <1>9, <1>10, Zenon

LEMMA NextKeeps == BrowserInv /\ [Next]_vars => BrowserInv'
  <1> SUFFICES ASSUME BrowserInv, [Next]_vars PROVE BrowserInv'
    BY Zenon
  <1>1. ASSUME NEW c \in Slots, NEW url \in Urls, OpenTab(c, url) PROVE BrowserInv'
    BY <1>1, OpenKeeps, Zenon
  <1>2. ASSUME NEW c \in Slots, Start(c) PROVE BrowserInv'
    BY <1>2, StartKeeps, Zenon
  <1>3. ASSUME NEW c \in Slots, NEW op \in {"stop", "reset"}, StopOrReset(c, op) PROVE BrowserInv'
    BY <1>3, StopOrResetKeeps, Zenon
  <1>4. ASSUME NEW c \in Slots,
               \/ Launched(c) \/ ContextReady(c) \/ PageReady(c)
               \/ ContextClosed(c) \/ BrowserClosed(c)
        PROVE  BrowserInv'
    BY <1>4, RuntimeReadyKeeps, PageReadyKeeps, ContextClosedKeeps, Zenon
  <1>5. ASSUME NEW c \in Slots,
               \/ Arrived(c) \/ Acted(c) \/ Popup(c) \/ Settled(c) \/ Read(c)
               \/ Downloaded(c) \/ Fetched(c) \/ Fails(c) \/ Dropped(c)
        PROVE  BrowserInv'
    BY <1>5, ArrivedKeeps, ActedKeeps, PopupKeeps, SettledKeeps, ReadKeeps, DownloadedKeeps,
       FailsKeeps, DroppedKeeps, Zenon
  <1>6. ASSUME NEW p, PageCloses(p) PROVE BrowserInv'
    BY <1>6, LostKeeps, Zenon DEF PageCloses
  <1>7. ASSUME NEW b, BrowserDies(b) PROVE BrowserInv'
    BY <1>7, LostKeeps, Zenon DEF BrowserDies
  <1>8. CASE UNCHANGED vars
    BY <1>8, Zenon DEF vars, tabVars, runtimeVars, BrowserInv, TabsOK, PagesOK, LiveOK, CallsOK, FetchOK
  <1> QED
    BY <1>1, <1>2, <1>3, <1>4, <1>5, <1>6, <1>7, <1>8, TabCallKeeps, Zenon DEF Next

\* However many calls, tabs, pages and browsers there are, and however the calls
\* of browser-tool.ts interleave, fail and are overtaken by a reset: a tab under
\* whose id no page of the live engine was ever attached has its address as the
\* current entry of its history and, if it has a snapshot, one of that address.
THEOREM FetchTabsAgree == Spec => []FetchTabAgrees
  <1>1. BrowserInv => FetchTabAgrees
    BY Zenon DEF BrowserInv, FetchOK, Agrees, IdsOf, FetchTabAgrees, LiveIds
  <1> QED
    BY <1>1, StartsRight, NextKeeps, PTL DEF Spec

-----------------------------------------------------------------------------
(* stop and reset.                                                         *)

Resets == {"stop", "reset"}

\* A stop or reset that ran alone so far has no other call beside it; the pages
\* still in the map are those it has still to drop, and what it has closed stays
\* so.
LoneInv ==
    \A c \in Slots : call[c].op \in Resets /\ call[c].alone =>
        /\ Busy \subseteq {c}
        /\ call[c].at = "drop" => \A i \in Ids : live[i] # 0 => i \in call[c].todo
        /\ call[c].at \in {"closeContext", "closeBrowser"} => \A i \in Ids : live[i] = 0
        /\ call[c].at = "closeBrowser" => liveContext = 0

\* The other calls when one goes on: a stop or reset among them runs alone no more.
LEMMA OthersGo ==
    ASSUME BrowserInv, NEW c \in Slots, NEW x, Go(c, x), NEW d \in Slots, d # c
    PROVE  /\ call'[d].op \in Resets => ~ call'[d].alone
           /\ call[d].op \in Resets => call'[d].at # "idle"
           /\ call[d].at = "idle" => call'[d].at = "idle"
  <1>1. DOMAIN call[d] = Fields /\ (call[d].op \in Resets => call[d].at \in {"drop", "closeContext", "closeBrowser"})
    BY Zenon DEF BrowserInv, CallsOK, CallOK, Resets
  <1>2. call[d].op \in Resets => Busy \ {c} # {}
    <2>1. call[d].op \in Resets => call[d].at # "idle"
      BY <1>1
    <2>2. call[d].at # "idle" => d \in Busy \ {c}
      BY Zenon DEF Busy
    <2> QED BY <2>1, <2>2, Zenon
  <1>3. CASE call[d].op \in Resets
    <2>1. call'[d] = [call[d] EXCEPT !.alone = FALSE]
      BY <1>2, <1>3, Zenon DEF Go, Resets
    <2>2. ~ call'[d].alone /\ call'[d].at = call[d].at
      BY <1>1, <2>1, Zenon DEF Fields
    <2> QED BY <1>1, <1>3, <2>2, Zenon
  <1>4. CASE call[d].op \notin Resets
    <2>1. call'[d] = call[d]
      BY <1>4, Zenon DEF Go, Resets
    <2> QED BY <1>4, <2>1, Zenon
  <1> QED BY <1>3, <1>4, Zenon

\* The call itself, when it is not a stop or reset.
LEMMA PlainGoes ==
    ASSUME BrowserInv, NEW c \in Slots, NEW x, Go(c, x), x.op \notin Resets
    PROVE  LoneInv'
  <1>1. call'[c] = x
    BY Zenon DEF Go, Resets
  <1> QED BY <1>1, OthersGo, Zenon DEF LoneInv

\* The call itself, when it is: whether it is still alone is seen there.
LEMMA ResetGoes ==
    ASSUME BrowserInv, NEW c \in Slots, NEW x, Go(c, x), x.op \in Resets, DOMAIN x = Fields
    PROVE  /\ call'[c].at = x.at /\ call'[c].todo = x.todo
           /\ call'[c].alone => x.alone /\ Busy' \subseteq {c}
  <1>1. CASE Busy \ {c} # {}
    <2>1. call'[c] = [x EXCEPT !.alone = FALSE]
      BY <1>1, Zenon DEF Go, Resets
    <2> QED BY <2>1, Zenon DEF Fields
  <1>2. CASE Busy \ {c} = {}
    <2>1. call'[c] = x
      BY <1>2, Zenon DEF Go
    <2>2. \A d \in Slots : d # c => call'[d].at = "idle"
      BY <1>2, OthersGo, Zenon DEF Busy
    <2> QED BY <2>1, <2>2, Zenon DEF Busy
  <1> QED BY <1>1, <1>2, Zenon

\* The ways in which a call goes on, none of which makes it a stop or reset.
Plain(r) == DOMAIN r = Fields /\ r.op \notin Resets

LEMMA PlainIdle == Plain(Idle)
  BY Zenon DEF Plain, Idle, Fields, Resets

LEMMA PlainNew == \A op, h : op \notin Resets => Plain(New(op, h))
  BY Zenon DEF Plain, New, Idle, Fields, Resets

LEMMA PlainWaiting == ASSUME NEW r, Plain(r), NEW at, NEW p PROVE Plain(Waiting(r, at, p))
  BY Zenon DEF Plain, Waiting, Idle, Fields, Resets

LEMMA PlainRuntime ==
    ASSUME NEW r, Plain(r)
    PROVE  Plain(EnsureLiveRuntime(r)) /\ \A x : Plain(WithContext(r, x))
  BY PlainIdle, Zenon DEF Plain, EnsureLiveRuntime, WithContext, Fields

LEMMA PlainCapture ==
    ASSUME NEW c, NEW r, Plain(r), NEW t, Capture(c, r, t) \/ CaptureAgain(c, r)
    PROVE  \E x : Go(c, x) /\ Plain(x)
  BY PlainWaiting, PlainIdle, Zenon DEF Capture, CaptureAgain, Done

LEMMA PlainAct ==
    ASSUME NEW c, NEW r, Plain(r), NEW h, NEW t, Act(c, r, h, t)
    PROVE  \E x : Go(c, x) /\ Plain(x)
  <1> DEFINE p == live[t.id]
             s == [r EXCEPT !.seed = FALSE, !.url = None, !.page = p]
             a == [s EXCEPT !.at = "act", !.before = Shown(p, t)]
             i == [s EXCEPT !.at = "act", !.op = "interact"]
             g == [s EXCEPT !.at = "goto", !.before = Shown(p, t)]
  <1>1. Go(c, a) \/ Go(c, i) \/ Go(c, g) \/ Go(c, Waiting(s, "fetch", 0)) \/ Go(c, Idle)
    BY Zenon DEF Act, Done
  <1>2. Plain(s)
    BY Zenon DEF Plain, Fields
  <1> HIDE DEF s, p
  <1>3. Plain(a) /\ Plain(i) /\ Plain(g)
    BY <1>2, Zenon DEF Plain, Fields, Resets
  <1> HIDE DEF a, i, g
  <1> QED BY <1>1, <1>2, <1>3, PlainWaiting, PlainIdle, Zenon

\* What a call may do that is no stop or reset.
Goes(c) == call[c].op \notin Resets /\ \E x : Go(c, x) /\ Plain(x)

LEMMA BeginsPlain == ASSUME BrowserInv, NEW c \in Slots, Begin(c) PROVE call[c].op \notin Resets
  <1>1. call[c].op \in Resets => call[c].at # "idle"
    BY DEF BrowserInv, CallsOK, CallOK, Resets
  <1> QED BY <1>1, Zenon DEF Begin, Busy

LEMMA TabCallGoes ==
    ASSUME BrowserInv, NEW c \in Slots, NEW h
    PROVE  /\ Focus(c, h) \/ Reload(c, h) \/ Snapshot(c, h) \/ Forms(c, h) \/ Enter(c, h) \/ Watch(c, h) => Goes(c)
           /\ \A op \in {"interact", "submit", "click"} : Seeded(c, h, op) => Goes(c)
           /\ \A url : Navigate(c, h, url) => Goes(c)
           /\ \A op \in {"back", "forward"} : Move(c, h, op) => Goes(c)
           /\ Close(c, h) => Goes(c)
  <1> USE BeginsPlain, PlainIdle DEF Goes, Done
  <1>1. Focus(c, h) => Goes(c)
    BY Zenon DEF Focus
  <1>2. \A op \in {"navigate", "snapshot", "forms", "enter", "interact", "submit", "click", "back", "forward", "close"} :
           Plain(New(op, h))
    BY PlainNew DEF Resets
  <1>3. Plain(OnPage(h)) /\ \A p : Plain([New("navigate", h) EXCEPT !.at = "goto", !.page = p])
    BY Zenon DEF OnPage, New, Idle, Plain, Fields, Resets
  <1>4. Reload(c, h) => Goes(c)
    BY <1>2, <1>3, PlainCapture, Zenon DEF Reload
  <1>5. Snapshot(c, h) \/ Forms(c, h) => Goes(c)
    BY <1>2, PlainCapture, Zenon DEF Snapshot, Forms
  <1>6. Enter(c, h) \/ Watch(c, h) => Goes(c)
    BY <1>2, <1>3, PlainRuntime, Zenon DEF Enter, Watch
  <1>7. \A op \in {"interact", "submit", "click"} : Seeded(c, h, op) => Goes(c)
    <2>1. \A op \in {"interact", "submit", "click"} : Plain([New(op, h) EXCEPT !.seed = TRUE])
      BY Zenon DEF New, Idle, Plain, Fields, Resets
    <2> QED BY <1>2, <2>1, PlainCapture, PlainAct, Zenon DEF Seeded
  <1>8. \A url : Navigate(c, h, url) => Goes(c)
    BY <1>2, <1>3, PlainRuntime, PlainWaiting, Zenon DEF Navigate
  <1>9. \A op \in {"back", "forward"} : Move(c, h, op) => Goes(c)
    <2>1. \A op \in {"back", "forward"} : \A p : Plain([New(op, h) EXCEPT !.at = "goto", !.page = p])
      BY Zenon DEF New, Idle, Plain, Fields, Resets
    <2> QED BY <1>2, <2>1, PlainWaiting, Zenon DEF Move
  <1>10. Close(c, h) => Goes(c)
    <2>1. \A p : Plain([New("close", h) EXCEPT !.at = "drop", !.page = p])
      BY Zenon DEF New, Idle, Plain, Fields, Resets
    <2> QED BY <2>1, Zenon DEF Close
  <1> QED BY <1>1, <1>4, <1>5, <1>6, <1>7, <1>8, <1>9, <1>10, Zenon

\* A call that is no stop or reset because of where it stands.
LEMMA StandsPlain ==
    ASSUME BrowserInv, NEW c \in Slots,
           call[c].at \in {"launch", "context", "newPage", "goto", "act", "popup", "settle",
                           "read", "downloads", "fetch"}
    PROVE  Plain(call[c])
  <1>1. call[c].op \notin Resets
    BY DEF BrowserInv, CallsOK, CallOK, Resets
  <1> QED BY <1>1, Zenon DEF BrowserInv, CallsOK, CallOK, Plain

LEMMA AwaitGoes ==
    ASSUME BrowserInv, NEW c \in Slots,
           \/ Launched(c) \/ ContextReady(c) \/ PageReady(c)
           \/ Arrived(c) \/ Acted(c) \/ Popup(c) \/ Settled(c) \/ Read(c)
           \/ Downloaded(c) \/ Fetched(c) \/ Fails(c)
    PROVE  Goes(c)
  <1> DEFINE r == call[c]
  <1>1. Plain(r)
    BY StandsPlain, Zenon DEF Launched, ContextReady, PageReady, Arrived, Acted, Popup, Settled, Read,
       Downloaded, Fetched, Fails
  <1>2. /\ \A at : Plain([r EXCEPT !.at = at])
        /\ \A at, x : /\ Plain([r EXCEPT !.at = at, !.browser = x])
                      /\ Plain([r EXCEPT !.at = at, !.page = x])
                      /\ Plain([r EXCEPT !.at = at, !.url = x])
        /\ \A at, x, y : Plain([r EXCEPT !.at = at, !.page = x, !.browser = y])
    BY <1>1, Zenon DEF Plain, Fields
  <1>3. \A at, x : \A y, z : Plain([r EXCEPT !.at = at, !.page = x, !.url = y, !.browser = z])
    BY <1>1, Zenon DEF Plain, Fields
  <1>4. \A x, y : Plain([r EXCEPT !.tab = x, !.parent = y]) /\ Plain([r EXCEPT !.parent = y])
    BY <1>1, Zenon DEF Plain, Fields
  <1>5. Plain([r EXCEPT !.op = "interact", !.at = "act"])
    BY <1>1, Zenon DEF Plain, Fields, Resets
  <1>6. r.op \notin Resets
    BY <1>1, Zenon DEF Plain
  <1> SUFFICES \E x : Go(c, x) /\ Plain(x)
    BY <1>6, Zenon DEF Goes
  <1> HIDE DEF r
  <1> USE PlainIdle DEF Done
  <1>7. CASE Launched(c) \/ ContextReady(c)
    BY <1>1, <1>2, <1>7, PlainRuntime, Zenon DEF Launched, ContextReady, r
  <1>8. CASE PageReady(c) \/ Settled(c)
    BY <1>2, <1>8, Zenon DEF PageReady, Settled, r
  <1>9. CASE Arrived(c)
    BY <1>1, <1>2, <1>5, <1>9, PlainCapture, Zenon DEF Arrived, r
  <1>10. CASE Acted(c)
    BY <1>1, <1>2, <1>10, PlainCapture, Zenon DEF Acted, r
  <1>11. CASE Popup(c)
    BY <1>4, <1>11, PlainWaiting, Zenon DEF Popup, r
  <1>12. CASE Read(c)
    BY <1>1, <1>2, <1>12, PlainAct, Zenon DEF Read, r
  <1>13. CASE Fetched(c)
    BY <1>1, <1>13, PlainAct, Zenon DEF Fetched, r
  <1>14. CASE Downloaded(c)
    BY <1>1, <1>4, <1>14, PlainCapture, Zenon DEF Downloaded, r
  <1>15. CASE Fails(c)
    BY <1>1, <1>2, <1>3, <1>15, PlainWaiting, Zenon DEF Fails, r
  <1> QED BY <1>7, <1>8, <1>9, <1>10, <1>11, <1>12, <1>13, <1>14, <1>15, SMTT(60)

LEMMA OpenGoes ==
    ASSUME BrowserInv, NEW c \in Slots, Start(c) \/ \E url \in Urls : OpenTab(c, url)
    PROVE  Goes(c)
  <1>1. call[c].op \notin Resets
    BY BeginsPlain, Zenon DEF Start, OpenTab
  <1>2. \A h : Plain(New("open", h)) /\ Plain(New("start", h))
    BY PlainNew DEF Resets
  <1> QED BY <1>1, <1>2, PlainRuntime, PlainWaiting, PlainIdle, Zenon DEF Start, OpenTab, Goes, Done

\* A stop or reset up to its next await, with what it knows of the map.
LEMMA LoneResets ==
    ASSUME BrowserInv, NEW c \in Slots, NEW r, r.op \in Resets, DOMAIN r = Fields, NEW m, DOMAIN m = Ids,
           ResetLiveRuntime(c, r, m),
           r.alone => \A i \in Ids : m[i] # 0 => i \in r.todo,
           UNCHANGED <<liveContext, liveBrowser>>
    PROVE  /\ LoneInv'
           /\ r.alone /\ call'[c].at = "idle" =>
                 /\ \A i \in Ids : live'[i] = 0
                 /\ liveBrowser' = 0 /\ liveContext' = 0
                 /\ r.op = "reset" => tabs' = {} /\ activeTabId' = 0
  <1> DEFINE left == {i \in r.todo : m[i] # 0}
             d(i) == [r EXCEPT !.at = "drop", !.page = m[i], !.todo = left \ {i}]
             x == [r EXCEPT !.at = "closeContext", !.browser = liveContext, !.page = 0, !.todo = {}]
             b == [r EXCEPT !.at = "closeBrowser", !.browser = liveBrowser, !.page = 0, !.todo = {}]
  <1>1. CASE left # {}
    <2>1. PICK i : live' = [m EXCEPT ![i] = 0] /\ Go(c, d(i))
      BY <1>1, Zenon DEF ResetLiveRuntime
    <2>2. /\ d(i).op \in Resets /\ DOMAIN d(i) = Fields /\ d(i).at = "drop" /\ d(i).todo = left \ {i}
          /\ d(i).alone = r.alone
      BY Zenon DEF Fields
    <2> HIDE DEF d
    <2>3. /\ call'[c].at = "drop" /\ call'[c].todo = left \ {i}
          /\ call'[c].alone => r.alone /\ Busy' \subseteq {c}
      BY <2>1, <2>2, ResetGoes, Zenon
    <2>4. r.alone => \A j \in Ids : live'[j] # 0 => j \in left \ {i}
      BY <2>1, Zenon
    <2> HIDE DEF left
    <2>5. call'[c].at # "idle" /\ call'[c].at \notin {"closeContext", "closeBrowser"}
      BY <2>3
    <2>6. LoneInv'
      BY <2>1, <2>3, <2>4, <2>5, OthersGo, Zenon DEF LoneInv
    <2> QED BY <2>5, <2>6, Zenon
  <1>2. CASE left = {}
    <2>1. live' = m /\ (r.alone => \A i \in Ids : live'[i] = 0)
      BY <1>2, Zenon DEF ResetLiveRuntime
    <2>2. CASE liveContext # 0
      <3>1. Go(c, x)
        BY <1>2, <2>2, Zenon DEF ResetLiveRuntime
      <3>2. x.op \in Resets /\ DOMAIN x = Fields /\ x.at = "closeContext" /\ x.alone = r.alone
        BY Zenon DEF Fields
      <3> HIDE DEF x
      <3>3. call'[c].at = "closeContext" /\ (call'[c].alone => r.alone /\ Busy' \subseteq {c})
        BY <3>1, <3>2, ResetGoes, Zenon
      <3>4. call'[c].at \notin {"idle", "drop", "closeBrowser"}
        BY <3>3
      <3>5. LoneInv'
        BY <2>1, <3>1, <3>3, <3>4, OthersGo, Zenon DEF LoneInv
      <3> QED BY <3>4, <3>5, Zenon
    <2>3. CASE liveContext = 0 /\ liveBrowser # 0
      <3>1. Go(c, b)
        BY <1>2, <2>3, Zenon DEF ResetLiveRuntime
      <3>2. b.op \in Resets /\ DOMAIN b = Fields /\ b.at = "closeBrowser" /\ b.alone = r.alone
        BY Zenon DEF Fields
      <3> HIDE DEF b
      <3>3. call'[c].at = "closeBrowser" /\ (call'[c].alone => r.alone /\ Busy' \subseteq {c})
        BY <3>1, <3>2, ResetGoes, Zenon
      <3>4. call'[c].at \notin {"idle", "drop", "closeContext"}
        BY <3>3
      <3>5. LoneInv'
        BY <2>1, <2>3, <3>1, <3>3, <3>4, OthersGo, Zenon DEF LoneInv
      <3> QED BY <3>4, <3>5, Zenon
    <2>4. CASE liveContext = 0 /\ liveBrowser = 0
      <3>1. Go(c, Idle) /\ (r.op = "reset" => ResetTabs)
        BY <1>2, <2>4, Zenon DEF ResetLiveRuntime, EndReset, Done
      <3>2. LoneInv'
        BY <3>1, PlainIdle, PlainGoes, Zenon DEF Plain
      <3> QED BY <2>1, <2>4, <3>1, <3>2, Zenon DEF ResetTabs
    <2> QED BY <2>2, <2>3, <2>4, Zenon
  <1> QED BY <1>1, <1>2, Zenon

\* What LoneResetCleans says of call c.
Cleans(c) ==
    call[c].op \in {"stop", "reset"} /\ call[c].alone /\ call'[c].at = "idle"
    => /\ \A i \in Ids : live'[i] = 0
       /\ liveBrowser' = 0 /\ liveContext' = 0
       /\ call[c].op = "reset" => tabs' = {} /\ activeTabId' = 0

LEMMA PlainCleans ==
    ASSUME BrowserInv, NEW c \in Slots, Goes(c)
    PROVE  LoneInv' /\ \A d \in Slots : Cleans(d)
  <1>1. call[c].op \notin Resets
    BY Zenon DEF Goes
  <1>2. PICK x : Go(c, x) /\ Plain(x)
    BY Zenon DEF Goes
  <1>3. LoneInv'
    BY <1>2, PlainGoes, Zenon DEF Plain
  <1>4. \A d \in Slots : d # c => Cleans(d)
    BY <1>2, OthersGo, Zenon DEF Cleans, Resets
  <1> QED BY <1>1, <1>3, <1>4, Zenon DEF Cleans, Resets

\* Those beside a stop or reset.
LEMMA OthersClean ==
    ASSUME BrowserInv, NEW c \in Slots, NEW x, Go(c, x), Cleans(c) PROVE \A d \in Slots : Cleans(d)
  BY OthersGo, Zenon DEF Cleans, Resets

LEMMA ResetCleans ==
    ASSUME BrowserInv, LoneInv, NEW c \in Slots,
           \/ \E op \in {"stop", "reset"} : StopOrReset(c, op)
           \/ ContextClosed(c) \/ BrowserClosed(c) \/ Dropped(c)
    PROVE  LoneInv' /\ \A d \in Slots : Cleans(d)
  <1> DEFINE r == call[c]
  <1>1. DOMAIN r = Fields /\ (r.op \in Resets => r.at \in {"drop", "closeContext", "closeBrowser"})
    BY Zenon DEF BrowserInv, CallsOK, CallOK, Resets
  <1>2. ASSUME NEW op \in {"stop", "reset"}, StopOrReset(c, op) PROVE LoneInv' /\ \A d \in Slots : Cleans(d)
    <2> DEFINE n == [New(op, 0) EXCEPT !.todo = {i \in Ids : live[i] # 0}]
    <2>1. /\ n.op \in Resets /\ DOMAIN n = Fields /\ n.todo = {i \in Ids : live[i] # 0}
      BY Zenon DEF New, Idle, Fields, Resets
    <2>2. ResetLiveRuntime(c, n, live) /\ UNCHANGED <<liveContext, liveBrowser>> /\ Begin(c)
      BY <1>2, Zenon DEF StopOrReset
    <2> HIDE DEF n
    <2>3. LoneInv'
      BY <2>1, <2>2, LoneResets, Zenon DEF BrowserInv, LiveOK
    <2>4. Cleans(c)
      BY <2>2, BeginsPlain, Zenon DEF Cleans, Resets
    <2>5. \E x : Go(c, x)
      BY <2>2, Zenon DEF ResetLiveRuntime, EndReset, Done
    <2> QED BY <2>3, <2>4, <2>5, OthersClean, Zenon
  <1>3. CASE Dropped(c)
    <2> DEFINE m == Forget(live, {r.page})
    <2>1. /\ r.at = "drop" /\ UNCHANGED <<liveContext, liveBrowser>>
          /\ \/ r.op \in Resets /\ ResetLiveRuntime(c, r, m)
             \/ r.op \in Fallback /\ (Go(c, Waiting(r, "fetch", 0)) \/ Go(c, Idle))
             \/ r.op = "close" /\ Go(c, Idle)
      BY <1>3, Zenon DEF Dropped, Done, Resets
    <2>2. CASE r.op \in Resets
      <3>1. DOMAIN m = Ids /\ \A i \in Ids : m[i] \in {0, live[i]}
        BY Forgets, Zenon
      <3> HIDE DEF m
      <3>2. r.alone => \A i \in Ids : m[i] # 0 => i \in r.todo
        BY <2>1, <2>2, <3>1, Zenon DEF LoneInv
      <3>3. ResetLiveRuntime(c, r, m)
        BY <2>1, <2>2 DEF Fallback, Resets
      <3>4. \E x : Go(c, x)
        BY <3>3, Zenon DEF ResetLiveRuntime, EndReset, Done
      <3> HIDE DEF r
      <3>5. LoneInv' /\ (r.alone /\ call'[c].at = "idle" =>
                 /\ \A i \in Ids : live'[i] = 0
                 /\ liveBrowser' = 0 /\ liveContext' = 0
                 /\ r.op = "reset" => tabs' = {} /\ activeTabId' = 0)
        BY <1>1, <2>1, <2>2, <3>1, <3>2, <3>3, LoneResets, Zenon
      <3>6. Cleans(c)
        BY <3>5, Zenon DEF Cleans, r
      <3> QED BY <3>4, <3>5, <3>6, OthersClean, Zenon
    <2>3. CASE r.op \notin Resets
      <3>1. Plain(r)
        BY <1>1, <2>3, Zenon DEF Plain
      <3> HIDE DEF r
      <3>2. \E x : Go(c, x) /\ Plain(x)
        BY <2>1, <2>3, <3>1, PlainWaiting, PlainIdle, Zenon
      <3>3. Goes(c)
        BY <2>3, <3>2, Zenon DEF Goes, r
      <3> QED BY <3>3, PlainCleans, Zenon
    <2> QED BY <2>2, <2>3, Zenon
  <1>4. CASE ContextClosed(c)
    <2> DEFINE b == [r EXCEPT !.at = "closeBrowser", !.browser = liveBrowser]
    <2>1. /\ r.at = "closeContext" /\ live' = Forget(live, PagesOf(r.browser)) /\ liveContext' = 0
          /\ UNCHANGED liveBrowser
          /\ \/ liveBrowser # 0 /\ Go(c, b)
             \/ liveBrowser = 0 /\ Go(c, Idle) /\ (r.op = "reset" => ResetTabs)
      BY <1>4, Zenon DEF ContextClosed, EndReset, Done
    <2>2. \A i \in Ids : live'[i] \in {0, live[i]}
      BY <2>1, Forgets, Zenon
    <2>3. r.op \in Resets /\ r.alone => \A i \in Ids : live'[i] = 0
      BY <2>1, <2>2, Zenon DEF LoneInv
    <2>4. CASE liveBrowser # 0
      <3>1. Go(c, b) /\ b.op = r.op /\ DOMAIN b = Fields /\ b.at = "closeBrowser" /\ b.alone = r.alone
        BY <1>1, <2>1, <2>4, Zenon DEF Fields
      <3> HIDE DEF b
      <3>2. CASE r.op \in Resets
        <4>1. call'[c].at = "closeBrowser" /\ (call'[c].alone => r.alone /\ Busy' \subseteq {c})
          BY <3>1, <3>2, ResetGoes, Zenon
        <4>2. call'[c].at \notin {"idle", "drop", "closeContext"}
          BY <4>1
        <4>3. LoneInv'
          BY <2>1, <2>3, <3>1, <3>2, <4>1, <4>2, OthersGo, Zenon DEF LoneInv
        <4>4. Cleans(c)
          BY <4>2, Zenon DEF Cleans
        <4> QED BY <3>1, <4>3, <4>4, OthersClean, Zenon
      <3>3. CASE r.op \notin Resets
        BY <3>1, <3>3, PlainCleans, Zenon DEF Goes, Plain
      <3> QED BY <3>2, <3>3, Zenon
    <2>5. CASE liveBrowser = 0
      <3>1. LoneInv'
        BY <2>1, <2>5, PlainIdle, PlainGoes, Zenon DEF Plain
      <3>2. Cleans(c)
        BY <2>1, <2>3, <2>5, Zenon DEF Cleans, ResetTabs, Resets
      <3> QED BY <2>1, <2>5, <3>1, <3>2, OthersClean, Zenon
    <2> QED BY <2>4, <2>5, Zenon
  <1>5. CASE BrowserClosed(c)
    <2>1. /\ r.at = "closeBrowser" /\ live' = Forget(live, PagesOf(r.browser)) /\ liveBrowser' = 0
          /\ UNCHANGED liveContext /\ Go(c, Idle) /\ (r.op = "reset" => ResetTabs)
      BY <1>5, Zenon DEF BrowserClosed, EndReset, Done
    <2>2. \A i \in Ids : live'[i] \in {0, live[i]}
      BY <2>1, Forgets, Zenon
    <2>3. r.op \in Resets /\ r.alone => liveContext = 0 /\ \A i \in Ids : live'[i] = 0
      BY <2>1, <2>2, Zenon DEF LoneInv
    <2>4. LoneInv'
      BY <2>1, PlainIdle, PlainGoes, Zenon DEF Plain
    <2>5. Cleans(c)
      BY <2>1, <2>3, Zenon DEF Cleans, ResetTabs, Resets
    <2> QED BY <2>1, <2>4, <2>5, OthersClean, Zenon
  <1> QED BY <1>2, <1>3, <1>4, <1>5, Zenon

\* A page or a browser is lost.
LEMMA LostCleans ==
    ASSUME BrowserInv, LoneInv, NEW ps, live' = Forget(live, ps), UNCHANGED <<call, liveContext>>
    PROVE  LoneInv' /\ \A d \in Slots : Cleans(d)
  <1>1. \A i \in Ids : live'[i] \in {0, live[i]}
    BY Forgets, Zenon
  <1>2. \A d \in Slots : call[d].op \in Resets => call[d].at # "idle"
    BY DEF BrowserInv, CallsOK, CallOK, Resets
  <1>3. LoneInv'
    BY <1>1, Zenon DEF LoneInv, Busy
  <1> QED BY <1>2, <1>3, Zenon DEF Cleans, Resets

\* The calls on a tab of the list.
LEMMA AnyTabCallGoes ==
    ASSUME BrowserInv, NEW c \in Slots, NEW h,
           \/ Focus(c, h) \/ Screenshot(c, h) \/ Inspect(c, h)
           \/ Close(c, h) \/ Reload(c, h) \/ Snapshot(c, h)
           \/ Forms(c, h) \/ Products(c, h)
           \/ Login(c, h) \/ Mfa(c, h) \/ Challenge(c, h)
           \/ Wait(c, h) \/ WaitForRequest(c, h) \/ Scroll(c, h) \/ Evaluate(c, h)
           \/ Hover(c, h) \/ Select(c, h) \/ Upload(c, h)
           \/ Fill(c, h) \/ Submit(c, h) \/ Click(c, h)
           \/ \E url \in Urls : Navigate(c, h, url)
           \/ \E op \in {"back", "forward"} : Move(c, h, op)
    PROVE  Goes(c)
  <1>1. Focus(c, h) \/ Screenshot(c, h) \/ Inspect(c, h) \/ Snapshot(c, h) => Goes(c)
    BY TabCallGoes, Zenon DEF Screenshot, Inspect
  <1>2. Close(c, h) \/ Reload(c, h) \/ Forms(c, h) \/ Products(c, h) => Goes(c)
    BY TabCallGoes, Zenon DEF Products
  <1>3. Login(c, h) \/ Mfa(c, h) \/ Challenge(c, h) => Goes(c)
    BY <1>1, TabCallGoes, Zenon DEF Login, Mfa, Challenge
  <1>4. Wait(c, h) \/ WaitForRequest(c, h) \/ Scroll(c, h) \/ Evaluate(c, h) => Goes(c)
    BY <1>1, TabCallGoes, Zenon DEF Wait, WaitForRequest, Scroll, Evaluate
  <1>5. Hover(c, h) \/ Select(c, h) \/ Upload(c, h) \/ Fill(c, h) \/ Submit(c, h) \/ Click(c, h) => Goes(c)
    BY TabCallGoes, Zenon DEF Hover, Select, Upload, Handle, Fill, Submit, Click
  <1>6. (\E url \in Urls : Navigate(c, h, url)) \/ (\E op \in {"back", "forward"} : Move(c, h, op)) => Goes(c)
    BY TabCallGoes, Zenon
  <1> QED BY <1>1, <1>2, <1>3, <1>4, <1>5, <1>6, Zenon

LEMMA NextCleans == BrowserInv /\ LoneInv /\ [Next]_vars => LoneInv' /\ \A d \in Slots : Cleans(d)
  <1> SUFFICES ASSUME BrowserInv, LoneInv, [Next]_vars PROVE LoneInv' /\ \A d \in Slots : Cleans(d)
    BY Zenon
  <1>1. ASSUME NEW c \in Slots,
               \/ Start(c) \/ \E url \in Urls : OpenTab(c, url)
               \/ Launched(c) \/ ContextReady(c) \/ PageReady(c)
               \/ Arrived(c) \/ Acted(c) \/ Popup(c) \/ Settled(c) \/ Read(c)
               \/ Downloaded(c) \/ Fetched(c) \/ Fails(c)
        PROVE  LoneInv' /\ \A d \in Slots : Cleans(d)
    BY <1>1, OpenGoes, AwaitGoes, PlainCleans, Zenon
  <1>2. ASSUME NEW c \in Slots,
               \/ \E op \in {"stop", "reset"} : StopOrReset(c, op)
               \/ ContextClosed(c) \/ BrowserClosed(c) \/ Dropped(c)
        PROVE  LoneInv' /\ \A d \in Slots : Cleans(d)
    BY <1>2, ResetCleans, Zenon
  <1>3. ASSUME NEW c \in Slots, Goes(c) PROVE LoneInv' /\ \A d \in Slots : Cleans(d)
    BY <1>3, PlainCleans, Zenon
  <1>4. ASSUME NEW p, PageCloses(p) \/ BrowserDies(p) PROVE LoneInv' /\ \A d \in Slots : Cleans(d)
    BY <1>4, LostCleans, Zenon DEF PageCloses, BrowserDies
  <1>5. CASE UNCHANGED vars
    <2>1. UNCHANGED <<call, live, liveContext>>
      BY <1>5, Zenon DEF vars, runtimeVars
    <2>2. \A d \in Slots : call[d].op \in Resets => call[d].at # "idle"
      BY DEF BrowserInv, CallsOK, CallOK, Resets
    <2> QED BY <2>1, <2>2, Zenon DEF LoneInv, Busy, Cleans, Resets
  <1> QED BY <1>1, <1>2, <1>3, <1>4, <1>5, AnyTabCallGoes, Zenon DEF Next

LEMMA StartsLone == Init => LoneInv
  BY DEF Init, LoneInv, Idle, Resets

\* However many calls, tabs, pages and browsers there are: a stop or reset of
\* browser-tool.ts beside which no other call ran leaves no page in the map, no
\* context and no browser, and a reset no tab and no active tab, whatever the
\* calls that overlapped before it left behind, and although pages close and
\* browsers die while it waits.
THEOREM LoneResetIsClean == Spec => LoneResetCleans
  <1>1. BrowserInv /\ LoneInv /\ [Next]_vars
        => [\A c \in Slots :
              /\ call[c].op \in {"stop", "reset"} /\ call[c].alone
              /\ call'[c].at = "idle"
              => /\ \A i \in Ids : live'[i] = 0
                 /\ liveBrowser' = 0 /\ liveContext' = 0
                 /\ call[c].op = "reset" => tabs' = {} /\ activeTabId' = 0]_vars
    BY NextCleans, Zenon DEF Cleans
  <1> QED
    BY <1>1, StartsRight, NextKeeps, StartsLone, NextCleans, PTL DEF Spec, LoneResetCleans

-----------------------------------------------------------------------------
(* The numbering of the tabs.                                              *)

\* What a tab becomes keeps its id.
Same(t, u) == "id" \in DOMAIN u /\ u.id = t.id

LEMMA IdsStay ==
    ASSUME NEW t, NEW s, Same(t, s)
    PROVE  /\ \A url : /\ Same(t, Pushed(s, url)) /\ Same(t, NavigateTab(s, url))
                       /\ Same(t, AppendHistoryEntry(s, url)) /\ Same(t, Visited(s, url))
                       /\ Same(t, Captured(s, url)) /\ Same(t, Located(s, url))
           /\ \A i, a, b : /\ Same(t, [s EXCEPT !.historyIndex = i, !.url = a])
                           /\ Same(t, [s EXCEPT !.historyIndex = i, !.url = a, !.lastSnapshot = b])
  <1>1. \A x, url : Same(t, x) => Same(t, Pushed(x, url)) /\ Same(t, [x EXCEPT !.url = url])
    BY Zenon DEF Same, Pushed
  <1>2. \A x, url : Same(t, x) => Same(t, [x EXCEPT !.url = url, !.lastSnapshot = None])
    BY Zenon DEF Same
  <1>3. \A url : Same(t, NavigateTab(s, url)) /\ Same(t, AppendHistoryEntry(s, url))
    BY <1>1, <1>2, Zenon DEF NavigateTab, AppendHistoryEntry
  <1>4. \A url : Same(t, Visited(s, url))
    BY <1>1, <1>3, Zenon DEF Visited
  <1>5. \A url : Same(t, Captured(s, url)) /\ Same(t, Located(s, url))
    BY Zenon DEF Same, Captured, Located
  <1>6. \A i, a, b : /\ Same(t, [s EXCEPT !.historyIndex = i, !.url = a])
                     /\ Same(t, [s EXCEPT !.historyIndex = i, !.url = a, !.lastSnapshot = b])
    BY Zenon DEF Same
  <1> QED BY <1>1, <1>3, <1>4, <1>5, <1>6, Zenon

\* No tab is renumbered.
Kept == DOMAIN tab' = DOMAIN tab /\ \A g \in DOMAIN tab : tab'[g].id = tab[g].id

LEMMA PutKept == ASSUME NEW h, NEW t, Put(h, t), Same(tab[h], t) PROVE Kept
  BY Zenon DEF Put, Same, Kept

LEMMA ActKept == ASSUME NEW c, NEW r, NEW h, NEW t, Act(c, r, h, t), Same(tab[h], t) PROVE Kept
  <1>1. \/ Put(h, t) \/ \E url : Put(h, NavigateTab(t, url))
    BY Zenon DEF Act
  <1> QED BY <1>1, PutKept, IdsStay, Zenon

\* The list may lose tabs, be emptied, or get a new tab under the next id.
Numbered ==
    \/ Kept /\ tabs' \subseteq tabs /\ nextTabIndex' = nextTabIndex
    \/ UNCHANGED tab /\ tabs' = {}
    \/ \E url : CreateBackgroundTab(url)

LEMMA NumberedKeeps == ASSUME BrowserInv, TabIdsAreUnique, Numbered PROVE TabIdsAreUnique'
  <1>1. CASE Kept /\ tabs' \subseteq tabs /\ nextTabIndex' = nextTabIndex
    BY <1>1, Zenon DEF TabIdsAreUnique, OpenTabs, Kept
  <1>2. CASE UNCHANGED tab /\ tabs' = {}
    BY <1>2, Zenon DEF TabIdsAreUnique, OpenTabs
  <1>3. ASSUME NEW url, CreateBackgroundTab(url) PROVE TabIdsAreUnique'
    <2> DEFINE n == BuildTabRecord(url)
    <2>1. tab' = Append(tab, n) /\ tabs' = tabs \cup {Len(tab) + 1} /\ nextTabIndex' = nextTabIndex + 1
      BY <1>3, Zenon DEF CreateBackgroundTab
    <2>2. n.id = nextTabIndex
      BY Zenon DEF BuildTabRecord
    <2> HIDE DEF n
    <2>3. tab \in Seq(TabRecord) /\ nextTabIndex \in Nat /\ \A g \in DOMAIN tab : tab[g].id \in Nat
      BY DEF BrowserInv, TabsOK, TabOK, TabRecord, Ids
    <2>4. \A g \in DOMAIN tab' : g # Len(tab) + 1 => g \in DOMAIN tab /\ tab'[g] = tab[g]
      BY <2>1, <2>3
    <2>5. tab'[Len(tab) + 1].id = nextTabIndex
      BY <2>1, <2>2, <2>3
    <2>6. \A g \in OpenTabs' : g # Len(tab) + 1 => g \in OpenTabs /\ tab'[g].id = tab[g].id
      BY <2>1, <2>4, Zenon DEF OpenTabs
    <2>7. \A g \in OpenTabs : tab[g].id \in Nat /\ tab[g].id < nextTabIndex
      BY <2>3, Zenon DEF OpenTabs, TabIdsAreUnique
    <2>8. \A k \in Nat : k < nextTabIndex => k < nextTabIndex + 1 /\ k # nextTabIndex
      BY <2>3
    <2>9. nextTabIndex < nextTabIndex + 1
      BY <2>3
    <2>10. \A g \in OpenTabs' : g # Len(tab) + 1 => tab'[g].id < nextTabIndex' /\ tab'[g].id # nextTabIndex
      BY <2>1, <2>6, <2>7, <2>8, Zenon
    <2>11. \A g \in OpenTabs' : tab'[g].id < nextTabIndex'
      BY <2>1, <2>5, <2>9, <2>10, Zenon
    <2>12. ASSUME NEW g \in OpenTabs', NEW h \in OpenTabs', tab'[g].id = tab'[h].id PROVE g = h
      BY <2>5, <2>6, <2>10, <2>12, Zenon DEF TabIdsAreUnique
    <2> QED BY <2>11, <2>12, Zenon DEF TabIdsAreUnique
  <1> QED BY <1>1, <1>2, <1>3, Zenon DEF Numbered

LEMMA TabCallNumbers ==
    ASSUME BrowserInv, NEW c \in Slots, NEW h \in DOMAIN tab
    PROVE  /\ Focus(c, h) \/ Reload(c, h) \/ Snapshot(c, h) \/ Forms(c, h) \/ Enter(c, h) \/ Watch(c, h) => Numbered
           /\ \A op : Seeded(c, h, op) => Numbered
           /\ \A url : Navigate(c, h, url) => Numbered
           /\ \A op : Move(c, h, op) => Numbered
           /\ Close(c, h) => Numbered
  <1>1. Same(tab[h], tab[h])
    BY Zenon DEF BrowserInv, TabsOK, TabOK, TabRecord, Same
  <1>2. UNCHANGED <<tab, tabs, nextTabIndex>> => Numbered
    BY Zenon DEF Numbered, Kept
  <1>3. Kept /\ UNCHANGED <<tabs, nextTabIndex>> => Numbered
    BY Zenon DEF Numbered
  <1>4. Focus(c, h) \/ Reload(c, h) \/ Snapshot(c, h) \/ Forms(c, h) \/ Watch(c, h) => Numbered
    BY <1>2, Zenon DEF Focus, Reload, Snapshot, Forms, Watch
  <1>5. Enter(c, h) => Numbered
    BY <1>1, <1>2, <1>3, IdsStay, PutKept, Zenon DEF Enter
  <1>6. \A op : Seeded(c, h, op) => Numbered
    BY <1>1, <1>2, <1>3, ActKept, Zenon DEF Seeded
  <1>7. \A url : Navigate(c, h, url) => Numbered
    BY <1>1, <1>3, IdsStay, PutKept, Zenon DEF Navigate
  <1>8. \A op : Move(c, h, op) => Numbered
    BY <1>1, <1>2, <1>3, IdsStay, PutKept, Zenon DEF Move
  <1>9. Close(c, h) => Numbered
    BY Zenon DEF Close, CloseTab, Numbered, Kept
  <1> QED BY <1>4, <1>5, <1>6, <1>7, <1>8, <1>9, Zenon

LEMMA ResetNumbers ==
    ASSUME NEW c, NEW r, UNCHANGED tab,
           (\E m : ResetLiveRuntime(c, r, m)) \/ EndReset(c, r) \/ UNCHANGED <<tabs, nextTabIndex>>
    PROVE  Numbered
  BY Zenon DEF ResetLiveRuntime, EndReset, ResetTabs, Numbered, Kept

LEMMA AwaitNumbers ==
    ASSUME BrowserInv, NEW c \in Slots,
           \/ Launched(c) \/ ContextReady(c) \/ PageReady(c)
           \/ Arrived(c) \/ Acted(c) \/ Popup(c) \/ Settled(c) \/ Read(c)
           \/ Downloaded(c) \/ Fetched(c) \/ Fails(c)
    PROVE  Numbered
  <1> DEFINE r == call[c]
             t == tab[r.tab]
  <1>1. /\ r.at \in {"read", "fetch"} => Same(t, t)
        /\ r.at \in {"goto", "downloads"} => Same(t, t)
        /\ r.parent # 0 => Same(t, t)
    <2>1. r.at \in {"read", "fetch", "goto", "downloads"} => r.at # "idle" /\ r.op \notin {"start", "stop", "reset"}
      BY DEF BrowserInv, CallsOK, CallOK
    <2>2. \A h \in DOMAIN tab : Same(tab[h], tab[h])
      BY Zenon DEF BrowserInv, TabsOK, TabOK, TabRecord, Same
    <2> QED BY <2>1, <2>2, ZenonT(60) DEF BrowserInv, CallsOK, CallOK
  <1>2. UNCHANGED <<tab, tabs, nextTabIndex>> => Numbered
    BY Zenon DEF Numbered, Kept
  <1>3. Kept /\ UNCHANGED <<tabs, nextTabIndex>> => Numbered
    BY Zenon DEF Numbered
  <1>4. Launched(c) \/ ContextReady(c) \/ PageReady(c) \/ Acted(c) \/ Settled(c) => Numbered
    BY <1>2, Zenon DEF Launched, ContextReady, PageReady, Acted, Settled, tabVars
  <1>5. Popup(c) => Numbered
    BY Zenon DEF Popup, Numbered
  <1>6. Arrived(c) => Numbered
    BY <1>1, <1>2, <1>3, IdsStay, PutKept, Zenon DEF Arrived
  <1>7. Read(c) => Numbered
    <2> SUFFICES ASSUME Read(c) PROVE Numbered
      BY Zenon
    <2> DEFINE u == Captured(t, r.url)
    <2>1. Same(t, u)
      BY <1>1, IdsStay, Zenon DEF Read
    <2>2. /\ Act(c, r, r.tab, u) \/ Put(r.tab, u) \/ Put(r.tab, AppendHistoryEntry(u, r.url))
          /\ UNCHANGED <<tabs, nextTabIndex>>
      BY Zenon DEF Read
    <2> HIDE DEF u
    <2>3. Same(t, AppendHistoryEntry(u, r.url))
      BY <2>1, IdsStay, Zenon
    <2> QED BY <1>3, <2>1, <2>2, <2>3, ActKept, PutKept, Zenon
  <1>8. Fetched(c) => Numbered
    <2> SUFFICES ASSUME Fetched(c) PROVE Numbered
      BY Zenon
    <2>1. PICK url : Act(c, r, r.tab, Captured(t, url)) \/ Put(r.tab, Captured(t, url))
      BY Zenon DEF Fetched
    <2>2. Same(t, Captured(t, url))
      BY <1>1, IdsStay, Zenon DEF Fetched
    <2>3. UNCHANGED <<tabs, nextTabIndex>>
      BY Zenon DEF Fetched
    <2> QED BY <1>3, <2>1, <2>2, <2>3, ActKept, PutKept, Zenon
  <1>9. Downloaded(c) => Numbered
    <2> SUFFICES ASSUME Downloaded(c) PROVE Numbered
      BY Zenon
    <2> DEFINE now == Shown(r.page, t)
               moved == IF now # r.before THEN AppendHistoryEntry(t, now) ELSE t
    <2>1. UNCHANGED <<tabs, nextTabIndex>> /\ (UNCHANGED tab \/ Put(r.tab, Located(moved, now)))
      BY Zenon DEF Downloaded
    <2>2. Same(t, moved)
      BY <1>1, IdsStay, Zenon DEF Downloaded
    <2> HIDE DEF moved
    <2> QED BY <1>2, <1>3, <2>1, <2>2, IdsStay, PutKept, Zenon
  <1>10. Fails(c) => Numbered
    BY <1>1, <1>2, <1>3, IdsStay, PutKept, Zenon DEF Fails
  <1> QED BY <1>4, <1>5, <1>6, <1>7, <1>8, <1>9, <1>10, Zenon

LEMMA AnyTabCallNumbers ==
    ASSUME BrowserInv, NEW c \in Slots, NEW h \in OpenTabs,
           \/ Focus(c, h) \/ Screenshot(c, h) \/ Inspect(c, h)
           \/ Close(c, h) \/ Reload(c, h) \/ Snapshot(c, h)
           \/ Forms(c, h) \/ Products(c, h)
           \/ Login(c, h) \/ Mfa(c, h) \/ Challenge(c, h)
           \/ Wait(c, h) \/ WaitForRequest(c, h) \/ Scroll(c, h) \/ Evaluate(c, h)
           \/ Hover(c, h) \/ Select(c, h) \/ Upload(c, h)
           \/ Fill(c, h) \/ Submit(c, h) \/ Click(c, h)
           \/ \E url \in Urls : Navigate(c, h, url)
           \/ \E op \in {"back", "forward"} : Move(c, h, op)
    PROVE  Numbered
  <1>1. h \in DOMAIN tab
    BY Zenon DEF OpenTabs
  <1>2. Focus(c, h) \/ Screenshot(c, h) \/ Inspect(c, h) \/ Snapshot(c, h) => Numbered
    BY <1>1, TabCallNumbers, Zenon DEF Screenshot, Inspect
  <1>3. Close(c, h) \/ Reload(c, h) \/ Forms(c, h) \/ Products(c, h) => Numbered
    BY <1>1, TabCallNumbers, Zenon DEF Products
  <1>4. Login(c, h) \/ Mfa(c, h) \/ Challenge(c, h) => Numbered
    BY <1>1, <1>2, TabCallNumbers, Zenon DEF Login, Mfa, Challenge
  <1>5. Wait(c, h) \/ WaitForRequest(c, h) \/ Scroll(c, h) \/ Evaluate(c, h) => Numbered
    BY <1>1, <1>2, TabCallNumbers, Zenon DEF Wait, WaitForRequest, Scroll, Evaluate
  <1>6. Hover(c, h) \/ Select(c, h) \/ Upload(c, h) \/ Fill(c, h) \/ Submit(c, h) \/ Click(c, h) => Numbered
    BY <1>1, TabCallNumbers, Zenon DEF Hover, Select, Upload, Handle, Fill, Submit, Click
  <1>7. (\E url \in Urls : Navigate(c, h, url)) \/ (\E op \in {"back", "forward"} : Move(c, h, op)) => Numbered
    BY <1>1, TabCallNumbers, Zenon
  <1> QED BY <1>2, <1>3, <1>4, <1>5, <1>6, <1>7, Zenon

LEMMA NextNumbers == BrowserInv /\ [Next]_vars => Numbered
  <1> SUFFICES ASSUME BrowserInv, [Next]_vars PROVE Numbered
    BY Zenon
  <1>1. ASSUME NEW c \in Slots, NEW url \in Urls, OpenTab(c, url) PROVE Numbered
    BY <1>1, Zenon DEF OpenTab, CreateTab, Numbered
  <1>2. ASSUME UNCHANGED tabVars PROVE Numbered
    BY <1>2, Zenon DEF tabVars, Numbered, Kept
  <1>3. ASSUME NEW c \in Slots,
               \/ Launched(c) \/ ContextReady(c) \/ PageReady(c)
               \/ Arrived(c) \/ Acted(c) \/ Popup(c) \/ Settled(c) \/ Read(c)
               \/ Downloaded(c) \/ Fetched(c) \/ Fails(c)
        PROVE  Numbered
    BY <1>3, AwaitNumbers, Zenon
  <1>4. ASSUME NEW c \in Slots, NEW op, StopOrReset(c, op) PROVE Numbered
    BY <1>4, ResetNumbers, Zenon DEF StopOrReset
  <1>5. ASSUME NEW c \in Slots, ContextClosed(c) \/ BrowserClosed(c) PROVE Numbered
    BY <1>5, ResetNumbers, Zenon DEF ContextClosed, BrowserClosed
  <1>6. ASSUME NEW c \in Slots, Dropped(c) PROVE Numbered
    <2>1. CloseTab(tab[call[c].tab].id) /\ UNCHANGED <<tab, nextTabIndex>> => Numbered
      BY Zenon DEF CloseTab, Numbered, Kept
    <2> QED BY <1>6, <2>1, ResetNumbers, Zenon DEF Dropped
  <1>7. ASSUME NEW c \in Slots, Start(c) PROVE Numbered
    BY <1>2, <1>7, Zenon DEF Start
  <1>8. ASSUME NEW p, PageCloses(p) \/ BrowserDies(p) PROVE Numbered
    BY <1>2, <1>8, Zenon DEF PageCloses, BrowserDies
  <1>9. CASE UNCHANGED vars
    BY <1>2, <1>9, Zenon DEF vars
  <1> QED
    BY <1>1, <1>3, <1>4, <1>5, <1>6, <1>7, <1>8, <1>9, AnyTabCallNumbers, Zenon DEF Next

\* However many calls, tabs, pages and browsers there are, and however calls of
\* browser-tool.ts interleave: no two tabs of the list share an id, and the next
\* id is that of none, although reset starts the numbering anew while calls that
\* hold a tab of before, or wait for a popup to number, are under way.
THEOREM TabsAreTold == Spec => []TabIdsAreUnique
  <1>1. Init => TabIdsAreUnique
    BY Zenon DEF Init, TabsInit, TabIdsAreUnique, OpenTabs
  <1>2. BrowserInv /\ TabIdsAreUnique /\ [Next]_vars => TabIdsAreUnique'
    BY NextNumbers, NumberedKeeps, Zenon
  <1> QED
    BY <1>1, <1>2, StartsRight, NextKeeps, PTL DEF Spec
============================================================================
