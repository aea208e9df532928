------------------------ MODULE BrowserSerialProofs ------------------------
(***************************************************************************)
(* The order the browser tool is in as long as its calls come one after    *)
(* the other, for any number of calls, tabs, pages, browsers and losses.   *)
(***************************************************************************)
EXTENDS BrowserProofs

\* A tab of the list has id i.
Listed(i) == \E h \in OpenTabs : tab[h].id = i

ActiveOK == (activeTabId = 0 \/ Listed(activeTabId)) /\ (activeTabId = 0 => tabs = {})

\* What is attached belongs to a tab of the list.
MapOK == \A i \in Ids : live[i] # 0 => Listed(i) /\ (page[live[i]].own => page[live[i]].open)

\* What was opened is attached, or about to be closed by r, the call under way.
OwnOK(r) ==
    \A p \in DOMAIN page : page[p].own /\ page[p].open =>
        (\E i \in Ids : live[i] = p) \/ (r.at = "drop" /\ r.page = p)

RunOK ==
    /\ liveContext \in {0, liveBrowser}
    /\ \A b \in DOMAIN browsers : browsers[b] => b = liveBrowser

\* What the call under way relies on, at the await it stands at.
StandOK(r) ==
    /\ r.at # "idle" /\ r.op \notin {"start", "stop", "reset"} => r.tab \in OpenTabs
    /\ r.at # "idle" /\ r.parent # 0 => r.parent \in OpenTabs
    /\ r.at \in {"launch", "context", "newPage"} /\ r.op # "start" => live[tab[r.tab].id] = 0
    /\ r.at = "drop" /\ r.op = "close" => live[tab[r.tab].id] = 0
    /\ r.at \in {"drop", "closeContext", "closeBrowser"} /\ r.op \in Resets => r.alone
    /\ r.at = "launch" => liveBrowser = 0
    /\ r.at = "context" => r.browser = liveBrowser
    /\ r.at = "closeBrowser" => r.browser = liveBrowser /\ liveContext = 0
    /\ r.at = "popup" => ~ page[r.page].own

Clean(r) == ActiveOK /\ MapOK /\ OwnOK(r) /\ RunOK /\ StandOK(r)

\* r is the one call under way, or none is.
Current(r) == (Busy = {} /\ r = Idle) \/ \E c \in Slots : Busy = {c} /\ r = call[c]

\* Of tabs built some are the latest.
HasLast ==
    /\ tabs \subseteq DOMAIN tab
    /\ \A S \in SUBSET DOMAIN tab : S # {} => \E m \in S : \A g \in S : m >= g

SerialInv ==
    /\ browsers \in Seq(BOOLEAN) /\ HasLast
    /\ overlap \in BOOLEAN
    /\ ~ overlap => \E r : Current(r) /\ Clean(r)

\* The call that goes on is the only one, if none overlaps.
LEMMA SerialGo ==
    ASSUME SerialInv, NEW c \in Slots, NEW x, Go(c, x), ~ overlap'
    PROVE  /\ call[c].at = "idle" => Clean(Idle)
           /\ call[c].at # "idle" => Clean(call[c])
           /\ call' = [call EXCEPT ![c] = x] \/ DOMAIN call # Slots
           /\ x.at = "idle" => Busy' = {}
           /\ x.at # "idle" => Busy' = {c} /\ call'[c] = x
  <1>1. ~ overlap /\ Busy \ {c} = {}
    BY Zenon DEF Go
  <1>2. call' = [d \in Slots |-> IF d = c THEN x ELSE call[d]]
    BY <1>1, Zenon DEF Go
  <1>3. \A d \in Slots : d # c => call[d].at = "idle"
    BY <1>1, Zenon DEF Busy
  <1>4. Busy' = {d \in Slots : d = c /\ x.at # "idle"}
    BY <1>2, <1>3, Zenon DEF Busy
  <1>5. PICK r : Current(r) /\ Clean(r)
    BY <1>1, Zenon DEF SerialInv
  <1>6. call[c].at = "idle" => r = Idle
    BY <1>3, <1>5, Zenon DEF Current, Busy
  <1>7. call[c].at # "idle" => r = call[c]
    BY <1>3, <1>5, Zenon DEF Current, Busy
  <1> QED BY <1>2, <1>4, <1>5, <1>6, <1>7, Zenon

\* Of a call that is over only that it is over counts.
LEMMA OverClean == ASSUME NEW x, x.at = "idle", Clean(x)' PROVE Clean(Idle)'
  <1>1. Idle.at = "idle"
    BY Zenon DEF Idle
  <1> QED BY <1>1 DEF Clean, OwnOK, StandOK

LEMMA SerialKeeps ==
    ASSUME SerialInv, NEW c \in Slots, NEW x, Go(c, x),
           browsers' \in Seq(BOOLEAN), HasLast', ~ overlap' => Clean(x)'
    PROVE  SerialInv'
  <1>1. overlap' \in BOOLEAN
    BY Zenon DEF Go, SerialInv
  <1>2. ASSUME ~ overlap' PROVE \E r : Current(r)' /\ Clean(r)'
    <2>1. CASE x.at = "idle"
      <3>1. Clean(Idle)'
        BY <1>2, <2>1, OverClean
      <3> QED BY <1>2, <2>1, <3>1, SerialGo, Zenon DEF Current
    <2>2. CASE x.at # "idle"
      BY <1>2, <2>2, SerialGo, Zenon DEF Current
    <2> QED BY <2>1, <2>2, Zenon
  <1> QED BY <1>1, <1>2, Zenon DEF SerialInv

LEMMA KeptUnlessNew ==
    ASSUME BrowserInv, Numbered, UNCHANGED nextTabIndex PROVE Kept
  <1>1. nextTabIndex + 1 # nextTabIndex
    BY DEF BrowserInv, TabsOK
  <1> QED BY <1>1, Zenon DEF Numbered, Kept, CreateBackgroundTab

LEMMA LastKeeps == ASSUME BrowserInv, Numbered, HasLast PROVE HasLast'
  <1>1. CASE DOMAIN tab' = DOMAIN tab /\ tabs' \subseteq tabs
    BY <1>1, Zenon DEF HasLast
  <1>2. ASSUME NEW url, CreateBackgroundTab(url) PROVE HasLast'
    <2>1. tab \in Seq(TabRecord) /\ tab' = Append(tab, BuildTabRecord(url))
      BY <1>2, Zenon DEF CreateBackgroundTab, BrowserInv, TabsOK
    <2>2. \A g \in DOMAIN tab' : (g \in DOMAIN tab \/ g = Len(tab) + 1) /\ Len(tab) + 1 >= g
      BY <2>1
    <2>3. ASSUME NEW S \in SUBSET DOMAIN tab', S # {} PROVE \E m \in S : \A g \in S : m >= g
      <3>1. CASE Len(tab) + 1 \in S
        BY <2>2, <3>1, Zenon
      <3>2. CASE Len(tab) + 1 \notin S
        BY <2>2, <2>3, <3>2, Zenon DEF HasLast
      <3> QED BY <3>1, <3>2, Zenon
    <2>4. tabs' = tabs \cup {Len(tab) + 1} /\ DOMAIN tab \subseteq DOMAIN tab' /\ Len(tab) + 1 \in DOMAIN tab'
      BY <1>2, <2>1 DEF CreateBackgroundTab
    <2> QED BY <2>3, <2>4, Zenon DEF HasLast
  <1>3. CASE UNCHANGED tab /\ tabs' = {}
    BY <1>1, <1>3, Zenon
  <1> QED BY <1>1, <1>2, <1>3, Zenon DEF Numbered, Kept

LEMMA ListKept ==
    ASSUME Kept, UNCHANGED tabs PROVE OpenTabs' = OpenTabs /\ \A i : Listed(i)' <=> Listed(i)
  <1>1. OpenTabs' = OpenTabs
    BY Zenon DEF OpenTabs, Kept
  <1>2. \A h \in OpenTabs : tab'[h].id = tab[h].id
    BY Zenon DEF OpenTabs, Kept
  <1> QED BY <1>1, <1>2, Zenon DEF Listed

\* A tab of the list may become the active one.
Focused == activeTabId' = activeTabId \/ \E h \in OpenTabs : activeTabId' = tab[h].id

LEMMA TabIds == ASSUME BrowserInv PROVE \A h \in OpenTabs : tab[h].id \in Ids /\ tab[h].id # 0
  BY DEF BrowserInv, TabsOK, TabOK, TabRecord, Ids, OpenTabs

LEMMA ActiveKeeps ==
    ASSUME BrowserInv, ActiveOK, Kept, UNCHANGED tabs, Focused PROVE ActiveOK'
  <1>1. Listed(activeTabId') \/ activeTabId' = activeTabId
    BY Zenon DEF Focused, Listed
  <1>2. activeTabId' = 0 => activeTabId = 0
    BY TabIds, Zenon DEF Focused
  <1>3. activeTabId' = 0 \/ Listed(activeTabId')
    BY <1>1, Zenon DEF ActiveOK
  <1>4. \A i : Listed(i)' <=> Listed(i)
    BY ListKept, Zenon
  <1>5. PICK a : a = activeTabId'
    OBVIOUS
  <1>6. a = 0 \/ Listed(a)
    BY <1>3, <1>5, Zenon
  <1>7. a = 0 \/ Listed(a)'
    BY <1>4, <1>6, Zenon
  <1>8. (\E h \in OpenTabs' : tab'[h].id = a) <=> Listed(a)'
    BY Zenon DEF Listed
  <1> QED BY <1>2, <1>5, <1>7, <1>8, Zenon DEF ActiveOK, Listed

\* No page is opened for a tab, none closes.
PagesQuiet ==
    /\ \A p \in DOMAIN page :
          p \in DOMAIN page' /\ page'[p].own = page[p].own /\ page'[p].open = page[p].open
    /\ \A p \in DOMAIN page' : p \in DOMAIN page \/ ~ page'[p].own

LEMMA QuietKeeps ==
    ASSUME BrowserInv, MapOK, NEW r, OwnOK(r), r.at # "drop", NEW x, PagesQuiet, UNCHANGED live,
           \A i : Listed(i) => Listed(i)'
    PROVE  MapOK' /\ OwnOK(x)'
  <1>1. MapOK'
    BY Zenon DEF MapOK, PagesQuiet, BrowserInv, LiveOK
  <1>2. OwnOK(x)'
    BY Zenon DEF OwnOK, PagesQuiet
  <1> QED BY <1>1, <1>2, Zenon

\* A call that holds tabs of the list.
Held(r) == DOMAIN r = Fields /\ r.tab \in OpenTabs /\ (r.parent # 0 => r.parent \in OpenTabs)

Still(x) == x.at = "idle" \/ (Held(x) /\ x.at \in {"goto", "act", "settle", "read", "downloads", "fetch"})

\* A step that touches a tab or a page at most.
Light ==
    /\ PagesQuiet /\ UNCHANGED <<tabs, nextTabIndex, live, browsers, liveBrowser, liveContext>>
    /\ Focused

LEMMA StillStands ==
    ASSUME NEW x, Still(x), OpenTabs' = OpenTabs PROVE StandOK(x)'
  BY DEF Still, Held, StandOK

LEMMA LightClean ==
    ASSUME BrowserInv, Numbered, NEW r, Clean(r), r.at # "drop", NEW x, Light, StandOK(x)'
    PROVE  Clean(x)'
  <1>1. Kept
    BY KeptUnlessNew, Zenon DEF Light
  <1>2. ActiveOK'
    BY <1>1, ActiveKeeps, Zenon DEF Clean, Light
  <1>3. MapOK' /\ OwnOK(x)'
    BY <1>1, ListKept, QuietKeeps, Zenon DEF Clean, Light
  <1>4. RunOK'
    BY Zenon DEF Clean, Light, RunOK
  <1> QED BY <1>2, <1>3, <1>4, Zenon DEF Clean

-----------------------------------------------------------------------------
(* Calls on a tab of the list.                                             *)

\* Call c goes on and leaves all in order.
CleanStep(c) == \E x : Go(c, x) /\ Clean(x)'

\* Call c goes on with the tabs it holds.
StillGoes(c) == \E x : Go(c, x) /\ Still(x)

LEMMA LightStep ==
    ASSUME BrowserInv, Numbered, NEW r, Clean(r), r.at # "drop", Light, NEW c, StillGoes(c)
    PROVE  CleanStep(c)
  <1>1. OpenTabs' = OpenTabs
    BY KeptUnlessNew, ListKept, Zenon DEF Light
  <1> QED BY <1>1, StillStands, LightClean, Zenon DEF StillGoes, CleanStep

LEMMA StillIdle == Still(Idle)
  BY Zenon DEF Still, Idle

LEMMA StillWaiting ==
    ASSUME NEW r, Held(r), NEW at \in {"settle", "fetch"}, NEW p PROVE Still(Waiting(r, at, p))
  BY Zenon DEF Waiting, Idle, Held, Still, Fields

LEMMA StillCapture ==
    ASSUME NEW c, NEW r, Held(r), NEW t, Capture(c, r, t) PROVE StillGoes(c)
  BY StillWaiting, StillIdle, Zenon DEF Capture, Done, StillGoes

LEMMA StillAct ==
    ASSUME NEW c, NEW r, Held(r), NEW h, NEW t, Act(c, r, h, t) PROVE StillGoes(c)
  <1> DEFINE p == live[t.id]
             s == [r EXCEPT !.seed = FALSE, !.url = None, !.page = p]
             a == [s EXCEPT !.at = "act", !.before = Shown(p, t)]
             i == [s EXCEPT !.at = "act", !.op = "interact"]
             g == [s EXCEPT !.at = "goto", !.before = Shown(p, t)]
  <1>1. Go(c, a) \/ Go(c, i) \/ Go(c, g) \/ Go(c, Waiting(s, "fetch", 0)) \/ Go(c, Idle)
    BY Zenon DEF Act, Done
  <1>2. Held(s)
    BY Zenon DEF Held, Fields
  <1> HIDE DEF s, p
  <1>3. Still(a) /\ Still(i) /\ Still(g)
    BY <1>2, Zenon DEF Held, Still, Fields
  <1> HIDE DEF a, i, g
  <1>4. Still(Waiting(s, "fetch", 0))
    BY <1>2, StillWaiting, Zenon
  <1> QED BY <1>1, <1>3, <1>4, StillIdle, Zenon DEF StillGoes

LEMMA FreeClean == ASSUME NEW c \in Slots, Begin(c) PROVE call[c].at = "idle"
  BY Zenon DEF Begin, Busy

LEMMA NoPageMoves == ASSUME UNCHANGED page PROVE PagesQuiet
  BY Zenon DEF PagesQuiet

\* The calls that do not ask for the live engine.
LEMMA TabCallLight ==
    ASSUME BrowserInv, Clean(Idle), NEW c \in Slots, NEW h \in OpenTabs
    PROVE  /\ Focus(c, h) \/ Reload(c, h) \/ Snapshot(c, h) \/ Forms(c, h) \/ Watch(c, h) => CleanStep(c)
           /\ \A op : Seeded(c, h, op) => CleanStep(c)
           /\ \A op : Move(c, h, op) => CleanStep(c)
  <1>1. h \in DOMAIN tab /\ Idle.at = "idle"
    BY Zenon DEF OpenTabs, Idle
  <1>2. /\ UNCHANGED <<tabs, nextTabIndex, runtimeVars>> /\ SetActiveTab(h) => Light
    BY NoPageMoves, Zenon DEF Light, runtimeVars, Focused, SetActiveTab
  <1>3. \A op, p : Still([New(op, h) EXCEPT !.at = "goto", !.page = p])
    BY Zenon DEF New, Idle, Held, Still, Fields
  <1>4. Still(OnPage(h))
    BY Zenon DEF OnPage, New, Idle, Held, Still, Fields
  <1>5. \A op : Held(New(op, h)) /\ Held([New(op, h) EXCEPT !.seed = TRUE])
    BY Zenon DEF New, Idle, Held, Fields
  <1>6. Light /\ Numbered /\ StillGoes(c) => CleanStep(c)
    BY <1>1, LightStep, Zenon
  <1>7. Focus(c, h) => CleanStep(c)
    BY <1>1, <1>2, <1>6, TabCallNumbers, StillIdle, Zenon DEF Focus, Done, StillGoes
  <1>8. Reload(c, h) => CleanStep(c)
    <2> SUFFICES ASSUME Reload(c, h) PROVE StillGoes(c)
      BY <1>1, <1>2, <1>6, TabCallNumbers, Zenon DEF Reload
    <2> QED BY <1>3, <1>5, StillCapture, Zenon DEF Reload, StillGoes
  <1>9. Snapshot(c, h) \/ Forms(c, h) => CleanStep(c)
    <2> SUFFICES ASSUME Snapshot(c, h) \/ Forms(c, h) PROVE StillGoes(c)
      BY <1>1, <1>2, <1>6, TabCallNumbers, Zenon DEF Snapshot, Forms
    <2> QED BY <1>5, StillCapture, Zenon DEF Snapshot, Forms
  <1>10. Watch(c, h) => CleanStep(c)
    BY <1>1, <1>2, <1>4, <1>6, TabCallNumbers, Zenon DEF Watch, StillGoes
  <1>11. ASSUME NEW op, Seeded(c, h, op) PROVE CleanStep(c)
    <2>1. StillGoes(c)
      BY <1>5, <1>11, StillCapture, StillAct, Zenon DEF Seeded
    <2>2. Light /\ Numbered
      BY <1>1, <1>2, <1>11, TabCallNumbers, Zenon DEF Seeded
    <2> QED BY <1>6, <2>1, <2>2, Zenon
  <1>12. ASSUME NEW op, Move(c, h, op) PROVE CleanStep(c)
    <2>1. StillGoes(c)
      BY <1>3, <1>5, <1>12, StillWaiting, StillIdle, Zenon DEF Move, Done, StillGoes
    <2>2. Light /\ Numbered
      BY <1>1, <1>2, <1>12, TabCallNumbers, Zenon DEF Move
    <2> QED BY <1>6, <2>1, <2>2, Zenon
  <1> QED BY <1>7, <1>8, <1>9, <1>10, <1>11, <1>12, Zenon

-----------------------------------------------------------------------------
(* Awaits that settle.                                                     *)

LEMMA HeldCall ==
    ASSUME BrowserInv, NEW c \in Slots, Clean(call[c]),
           call[c].at \in {"newPage", "goto", "act", "popup", "settle", "read", "downloads", "fetch"}
    PROVE  Held(call[c])
  <1>1. call[c].op \notin {"start", "stop", "reset"} /\ call[c].at # "idle"
    BY DEF BrowserInv, CallsOK, CallOK
  <1> QED BY <1>1, ZenonT(60) DEF BrowserInv, CallsOK, CallOK, Clean, StandOK, Held

LEMMA UrlQuiet == ASSUME BrowserInv, NEW p, NEW url, page' = [page EXCEPT ![p].url = url] PROVE PagesQuiet
  <1>1. \A q \in DOMAIN page : {"own", "open"} \subseteq DOMAIN page[q]
    BY Zenon DEF BrowserInv, PagesOK
  <1> QED BY <1>1, Zenon DEF PagesQuiet

LEMMA AwaitLight ==
    ASSUME BrowserInv, NEW c \in Slots, Clean(call[c]),
           Arrived(c) \/ Settled(c) \/ Read(c) \/ Downloaded(c) \/ Fetched(c)
    PROVE  CleanStep(c)
  <1> DEFINE r == call[c]
  <1>1. Held(r)
    BY HeldCall, Zenon DEF Arrived, Settled, Read, Downloaded, Fetched
  <1>2. Numbered
    BY AwaitNumbers, ZenonT(60)
  <1>3. r.at # "drop"
    BY DEF Arrived, Settled, Read, Downloaded, Fetched
  <1>4. /\ UNCHANGED <<tabs, activeTabId, nextTabIndex, runtimeVars>> => Light
        /\ PagesQuiet /\ UNCHANGED <<tabs, activeTabId, nextTabIndex, browsers, liveBrowser, liveContext, live>> => Light
    BY NoPageMoves, Zenon DEF Light, runtimeVars, Focused
  <1>5. Light
    <2>1. CASE Arrived(c)
      BY <1>4, <2>1, UrlQuiet, Zenon DEF Arrived
    <2>2. CASE Settled(c)
      BY <1>4, <2>2, Zenon DEF Settled, tabVars
    <2>3. CASE Read(c) \/ Fetched(c)
      BY <1>4, <2>3, Zenon DEF Read, Fetched
    <2>4. CASE Downloaded(c)
      <3>1. r.tab \in OpenTabs /\ (r.parent # 0 => r.parent \in OpenTabs)
        BY <1>1, Zenon DEF Held
      <3>2. Focused
        BY <2>4, <3>1, Zenon DEF Downloaded, SetActiveTab, Focused
      <3> QED BY <2>4, <3>2, NoPageMoves, Zenon DEF Downloaded, Light, runtimeVars
    <2> QED BY <2>1, <2>2, <2>3, <2>4, Zenon
  <1>6. StillGoes(c)
    <2>1. /\ \A at \in {"act", "downloads"} : Still([r EXCEPT !.at = at])
          /\ Still([r EXCEPT !.op = "interact", !.at = "act"])
          /\ \A u : Still([r EXCEPT !.at = "read", !.url = u]) /\ Still([r EXCEPT !.at = "downloads", !.url = u])
          /\ Held([r EXCEPT !.parent = 0])
          /\ r.parent # 0 => Held([r EXCEPT !.tab = r.parent, !.parent = 0])
      BY <1>1, Zenon DEF Held, Still, Fields
    <2>2. \A s : Held(s) /\ CaptureAgain(c, s) => StillGoes(c)
      BY StillWaiting, Zenon DEF CaptureAgain, StillGoes
    <2>3. Done(c) => StillGoes(c)
      BY StillIdle, Zenon DEF Done, StillGoes
    <2> HIDE DEF r
    <2>4. CASE Arrived(c)
      BY <1>1, <2>1, <2>2, <2>3, <2>4, Zenon DEF Arrived, StillGoes, r
    <2>5. CASE Settled(c)
      BY <2>1, <2>5, Zenon DEF Settled, StillGoes, r
    <2>6. CASE Read(c) \/ Fetched(c)
      BY <1>1, <2>1, <2>3, <2>6, StillAct, Zenon DEF Read, Fetched, StillGoes, r
    <2>7. CASE Downloaded(c)
      BY <1>1, <2>1, <2>2, <2>3, <2>7, Zenon DEF Downloaded, StillGoes, r
    <2> QED BY <2>4, <2>5, <2>6, <2>7, Zenon
  <1> QED BY <1>2, <1>3, <1>5, <1>6, LightStep, Zenon

LEMMA ActedClean ==
    ASSUME BrowserInv, NEW c \in Slots, Clean(call[c]), Acted(c) PROVE CleanStep(c)
  <1> DEFINE r == call[c]
             x == [r EXCEPT !.at = "popup", !.page = Len(page) + 1]
             n(url) == [page[r.page] EXCEPT !.url = url, !.own = FALSE, !.id = 0]
  <1>1. Held(r) /\ Numbered
    BY HeldCall, AwaitNumbers, Zenon DEF Acted
  <1>2. r.at = "act" /\ UNCHANGED <<tabVars, browsers, liveBrowser, liveContext, live>>
    BY Zenon DEF Acted
  <1>3. PagesQuiet => Light
    BY <1>2, Zenon DEF Light, tabVars, Focused
  <1>4. r.at # "drop"
    BY <1>2
  <1>5. CASE \E url : /\ page' = [page EXCEPT ![r.page].url = url]
                      /\ Go(c, [r EXCEPT !.at = "downloads"]) \/ CaptureAgain(c, r) \/ Done(c)
    <2>1. Still([r EXCEPT !.at = "downloads"])
      BY <1>1, Zenon DEF Held, Still, Fields
    <2>2. StillGoes(c)
      BY <1>1, <1>5, <2>1, StillWaiting, StillIdle, Zenon DEF CaptureAgain, Done, StillGoes
    <2> QED BY <1>1, <1>3, <1>4, <1>5, <2>2, UrlQuiet, LightStep, Zenon
  <1>6. ASSUME NEW url, page' = Append(page, n(url)), Go(c, x) PROVE CleanStep(c)
    <2>1. r.page \in DOMAIN page
      BY <1>2, Zenon DEF BrowserInv, CallsOK, CallOK
    <2>2. ~ n(url).own
      BY <2>1, Zenon DEF BrowserInv, PagesOK
    <2>3. PICK S : page \in Seq(S)
      BY Zenon DEF BrowserInv, PagesOK
    <2> HIDE DEF n
    <2>4. /\ \A p \in DOMAIN page : p \in DOMAIN page' /\ page'[p] = page[p]
          /\ \A p \in DOMAIN page' : p \in DOMAIN page \/ p = Len(page) + 1
          /\ page'[Len(page) + 1] = n(url)
      BY <1>6, <2>3
    <2>5. PagesQuiet
      BY <2>2, <2>4, Zenon DEF PagesQuiet
    <2>6. OpenTabs' = OpenTabs
      BY <1>2, Zenon DEF tabVars, OpenTabs
    <2>7. Held(x) /\ x.at = "popup" /\ x.page = Len(page) + 1
      BY <1>1, Zenon DEF Held, Fields
    <2>8. PICK y : y = x
      OBVIOUS
    <2> HIDE DEF x
    <2>9. StandOK(y)'
      BY <2>2, <2>4, <2>6, <2>7, <2>8, SMTT(60) DEF StandOK, Held
    <2> QED BY <1>1, <1>3, <1>4, <1>6, <2>5, <2>8, <2>9, LightClean, ZenonT(60) DEF CleanStep
  <1> QED BY <1>5, <1>6, Zenon DEF Acted, n

-----------------------------------------------------------------------------
(* Pages that close, or leave the map.                                     *)

\* The pages ps close, no other does.
Closing(ps) ==
    /\ DOMAIN page' = DOMAIN page
    /\ \A p \in DOMAIN page : page'[p].own = page[p].own
                              /\ IF p \in ps THEN ~ page'[p].open ELSE page'[p].open = page[p].open

LEMMA ClosedPages ==
    ASSUME BrowserInv PROVE (\A ps : page' = Closed(ps) => Closing(ps)) /\ (UNCHANGED page => Closing({}))
  <1>1. \A p \in DOMAIN page : {"own", "open"} \subseteq DOMAIN page[p]
    BY Zenon DEF BrowserInv, PagesOK
  <1> QED BY <1>1, Zenon DEF Closed, Closing

\* The pages ps are out of the map m, no other is.
Without(m, ps) == \A i \in Ids : m[i] = IF live[i] \in ps THEN 0 ELSE live[i]

LEMMA ForgetWithout == ASSUME BrowserInv PROVE (\A ps : Without(Forget(live, ps), ps)) /\ Without(live, {})
  <1>1. Without(live, {})
    BY Zenon DEF Without
  <1>2. ASSUME NEW ps PROVE Without(Forget(live, ps), ps)
    <2>1. \A i \in Ids : Forget(live, ps)[i] = IF live[i] \in ps THEN 0 ELSE live[i]
      BY Zenon DEF Forget
    <2> QED BY <2>1, Zenon DEF Without
  <1> QED BY <1>1, <1>2, Zenon

\* Pages close and leave the map, and a call may take one more out of it.
LEMMA ShrinkKeeps ==
    ASSUME BrowserInv, MapOK, NEW r, OwnOK(r), NEW ps, Closing(ps), NEW m, Without(m, ps), NEW x,
           r.at = "drop" => r.page \in ps \/ (x.at = "drop" /\ x.page = r.page),
           \A i \in Ids : live'[i] = m[i] \/ (live'[i] = 0 /\ x.at = "drop" /\ x.page = m[i]),
           \A i \in Ids : Listed(i) /\ live'[i] # 0 => Listed(i)'
    PROVE  MapOK' /\ OwnOK(x)'
  <1>1. \A i \in Ids : live'[i] # 0 => live'[i] = live[i] /\ live[i] \notin ps
    BY Zenon DEF Without
  <1>2. MapOK'
    BY <1>1, ZenonT(60) DEF MapOK, Closing, BrowserInv, LiveOK
  <1>3. ASSUME NEW p \in DOMAIN page', page'[p].own, page'[p].open
        PROVE (\E i \in Ids : live'[i] = p) \/ (x.at = "drop" /\ x.page = p)
    <2>1. p \in DOMAIN page /\ p \notin ps /\ page[p].own /\ page[p].open
      BY <1>3, Zenon DEF Closing
    <2>2. CASE r.at = "drop" /\ r.page = p
      BY <2>1, <2>2, Zenon
    <2>3. ASSUME NEW i \in Ids, live[i] = p PROVE (\E j \in Ids : live'[j] = p) \/ (x.at = "drop" /\ x.page = p)
      BY <2>1, <2>3, Zenon DEF Without
    <2> QED BY <2>1, <2>2, <2>3, Zenon DEF OwnOK
  <1>4. OwnOK(x)'
    BY <1>3, Zenon DEF OwnOK
  <1> QED BY <1>2, <1>4, Zenon

LEMMA SameList ==
    ASSUME UNCHANGED <<tab, tabs, activeTabId>> PROVE (ActiveOK => ActiveOK') /\ OpenTabs' = OpenTabs /\ \A i : Listed(i) => Listed(i)'
  BY Zenon DEF ActiveOK, Listed, OpenTabs

\* A call takes a page of the map to close it.
LEMMA DetachClean ==
    ASSUME BrowserInv, NEW r, Clean(r), r.at # "drop", NEW i, live' = [live EXCEPT ![i] = 0],
           NEW x, x.at = "drop", x.page = live[i], StandOK(x)',
           UNCHANGED <<tab, tabs, activeTabId, browsers, liveBrowser, liveContext, page>>
    PROVE  Clean(x)'
  <1>1. \A j \in Ids : live'[j] = live[j] \/ (live'[j] = 0 /\ x.at = "drop" /\ x.page = live[j])
    BY Zenon DEF BrowserInv, LiveOK
  <1>2. MapOK' /\ OwnOK(x)'
    BY <1>1, ClosedPages, ForgetWithout, SameList, ShrinkKeeps, Zenon DEF Clean
  <1> QED BY <1>2, SameList, Zenon DEF Clean, RunOK

LEMMA HeldAs ==
    ASSUME BrowserInv, NEW c \in Slots, Clean(call[c]), call[c].at # "idle",
           call[c].op \notin {"start", "stop", "reset"}
    PROVE  Held(call[c])
  BY Zenon DEF BrowserInv, CallsOK, CallOK, Clean, StandOK, Held

LEMMA FailsClean ==
    ASSUME BrowserInv, NEW c \in Slots, Clean(call[c]), Fails(c) PROVE CleanStep(c)
  <1> DEFINE r == call[c]
             i == tab[r.tab].id
             x == [r EXCEPT !.at = "drop", !.page = live[i], !.url = None, !.browser = 0]
  <1>1. r.at # "drop" /\ r.at # "idle"
    BY DEF Fails
  <1>2. Numbered
    BY AwaitNumbers, Zenon
  <1>3. UNCHANGED live => Light
    BY NoPageMoves, Zenon DEF Fails, Light, Focused
  <1>4. /\ r.op \in Fallback => r.op \notin {"start", "stop", "reset", "close"}
        /\ r.parent # 0 => r.op \notin {"start", "stop", "reset"}
    BY DEF Fallback, BrowserInv, CallsOK, CallOK
  <1>5. CASE Done(c) /\ UNCHANGED live
    BY <1>1, <1>2, <1>3, <1>5, StillIdle, LightStep, Zenon DEF Done, StillGoes
  <1>6. CASE r.op \in Fallback /\ UNCHANGED live /\ Go(c, Waiting(r, "fetch", 0))
    BY <1>1, <1>2, <1>3, <1>4, <1>6, HeldAs, StillWaiting, LightStep, Zenon DEF StillGoes
  <1>7. CASE r.parent # 0 /\ UNCHANGED live /\ Go(c, [r EXCEPT !.at = "downloads", !.url = None])
    <2>1. Held(r)
      BY <1>1, <1>4, <1>7, HeldAs, Zenon
    <2>2. Still([r EXCEPT !.at = "downloads", !.url = None])
      BY <2>1, Zenon DEF Held, Still, Fields
    <2> QED BY <1>1, <1>2, <1>3, <1>7, <2>2, LightStep, Zenon DEF StillGoes
  <1>8. CASE r.op \in Fallback /\ live' = [live EXCEPT ![i] = 0] /\ Go(c, x) /\ UNCHANGED tab
    <2>1. Held(r)
      BY <1>1, <1>4, <1>8, HeldAs, Zenon
    <2>2. Held(x) /\ x.at = "drop" /\ x.page = live[i] /\ x.op = r.op
      BY <2>1, Zenon DEF Held, Fields
    <2>3. UNCHANGED <<tab, tabs, activeTabId, browsers, liveBrowser, liveContext, page>>
      BY <1>8, Zenon DEF Fails
    <2>4. PICK y : y = x
      BY SMTT(60)
    <2> HIDE DEF x
    <2>5. StandOK(y)'
      BY <1>4, <1>8, <2>2, <2>3, <2>4, SameList, SMTT(60) DEF Held, StandOK, Resets
    <2>6. Clean(y)'
      BY <1>1, <1>8, <2>2, <2>3, <2>4, <2>5, DetachClean, Zenon
    <2> QED BY <1>8, <2>4, <2>6, Zenon DEF CleanStep
  <1> QED BY <1>5, <1>6, <1>7, <1>8, Zenon DEF Fails, PageOf

-----------------------------------------------------------------------------
(* The live runtime.                                                       *)

\* A call that asks for the live engine, for a tab without a page.
Asks(r) == DOMAIN r = Fields /\ r.op \notin Resets /\ r.parent = 0

LEMMA RuntimeStands ==
    ASSUME RunOK, NEW r, Asks(r), UNCHANGED <<liveBrowser, liveContext>>,
           r.op # "start" => r.tab \in OpenTabs' /\ live'[tab'[r.tab].id] = 0,
           NEW x, x = EnsureLiveRuntime(r)
    PROVE  StandOK(x)'
  <1> DEFINE l == [r EXCEPT !.at = "launch"]
             k == [r EXCEPT !.at = "context", !.browser = liveBrowser]
             n == [r EXCEPT !.at = "newPage", !.browser = liveContext]
  <1>1. /\ l.at = "launch" /\ l.op = r.op /\ l.tab = r.tab /\ l.parent = 0
        /\ k.at = "context" /\ k.op = r.op /\ k.tab = r.tab /\ k.parent = 0 /\ k.browser = liveBrowser
        /\ n.at = "newPage" /\ n.op = r.op /\ n.tab = r.tab /\ n.parent = 0
        /\ Idle.at = "idle"
    BY Zenon DEF Asks, Fields, Idle
  <1>2. \/ liveBrowser = 0 /\ x = l
        \/ x = k
        \/ x = Idle
        \/ r.op # "start" /\ x = n
    BY Zenon DEF EnsureLiveRuntime
  <1> HIDE DEF l, k, n
  <1>3. CASE liveBrowser = 0 /\ x = l
    BY <1>1, <1>3, SMTT(60) DEF StandOK
  <1>4. CASE x = k
    BY <1>1, <1>4, SMTT(60) DEF StandOK
  <1>5. CASE x = Idle
    BY <1>1, <1>5, SMTT(60) DEF StandOK
  <1>6. CASE r.op # "start" /\ x = n
    BY <1>1, <1>6 DEF StandOK
  <1> QED BY <1>2, <1>3, <1>4, <1>5, <1>6, Zenon

\* start, and a call on a tab of the list that has no page.
LEMMA EngineClean ==
    ASSUME BrowserInv, Numbered, Clean(Idle), NEW c, Light, NEW r, Asks(r), Go(c, EnsureLiveRuntime(r)),
           r.op # "start" => r.tab \in OpenTabs /\ live[tab[r.tab].id] = 0
    PROVE  CleanStep(c)
  <1>1. Kept
    BY KeptUnlessNew, Zenon DEF Light
  <1>2. OpenTabs' = OpenTabs /\ \A h \in OpenTabs : tab'[h].id = tab[h].id
    BY <1>1, ListKept, Zenon DEF Light, Kept, OpenTabs
  <1>3. UNCHANGED <<live, liveBrowser, liveContext>>
    BY Zenon DEF Light
  <1>4. PICK x : x = EnsureLiveRuntime(r)
    OBVIOUS
  <1>5. StandOK(x)'
    BY <1>2, <1>3, <1>4, RuntimeStands, ZenonT(60) DEF Clean
  <1>6. Idle.at # "drop"
    BY DEF Idle
  <1> QED BY <1>4, <1>5, <1>6, LightClean, Zenon DEF CleanStep

LEMMA StartClean == ASSUME BrowserInv, Clean(Idle), NEW c, Start(c) PROVE CleanStep(c)
  <1>1. Light
    BY NoPageMoves, Zenon DEF Start, Light, Focused, tabVars, runtimeVars
  <1>2. Numbered
    BY Zenon DEF Start, tabVars, Numbered, Kept
  <1>3. Asks(New("start", 0)) /\ New("start", 0).op = "start"
    BY DEF Asks, New, Idle, Fields, Resets
  <1> QED BY <1>1, <1>2, <1>3, EngineClean, Zenon DEF Start

LEMMA LiveCallClean ==
    ASSUME BrowserInv, Clean(Idle), NEW c \in Slots, NEW h \in OpenTabs
    PROVE  (Enter(c, h) => CleanStep(c)) /\ \A url : Navigate(c, h, url) => CleanStep(c)
  <1>1. h \in DOMAIN tab /\ Idle.at = "idle"
    BY Zenon DEF OpenTabs, Idle
  <1>2. /\ UNCHANGED <<tabs, nextTabIndex, runtimeVars>> /\ SetActiveTab(h) => Light
    BY NoPageMoves, Zenon DEF Light, runtimeVars, Focused, SetActiveTab
  <1>3. \A p : Still([New("navigate", h) EXCEPT !.at = "goto", !.page = p])
    BY Zenon DEF New, Idle, Held, Still, Fields
  <1>4. Still(OnPage(h))
    BY Zenon DEF OnPage, New, Idle, Held, Still, Fields
  <1>5. /\ Held(New("navigate", h))
        /\ Asks(New("navigate", h)) /\ New("navigate", h).tab = h
        /\ Asks(New("enter", h)) /\ New("enter", h).tab = h
    BY SMTT(60) DEF New, Idle, Held, Fields, Asks, Resets
  <1>6. Light /\ Numbered /\ StillGoes(c) => CleanStep(c)
    BY <1>1, LightStep, Zenon
  <1>7. PageOf(h) = 0 => live[tab[h].id] = 0
    BY Zenon DEF PageOf
  <1>8. ASSUME Enter(c, h) PROVE CleanStep(c)
    <2>1. Light /\ Numbered
      BY <1>1, <1>2, <1>8, TabCallNumbers, Zenon DEF Enter
    <2>2. CASE PageOf(h) # 0
      BY <1>4, <1>6, <1>8, <2>1, <2>2, ZenonT(60) DEF Enter, StillGoes
    <2>3. CASE PageOf(h) = 0
      BY <1>5, <1>7, <1>8, <2>1, <2>3, EngineClean, ZenonT(60) DEF Enter
    <2> QED BY <2>2, <2>3, Zenon
  <1>9. ASSUME NEW url, Navigate(c, h, url) PROVE CleanStep(c)
    <2>1. Light /\ Numbered
      BY <1>1, <1>2, <1>9, TabCallNumbers, Zenon DEF Navigate
    <2>2. CASE PageOf(h) # 0
      BY <1>3, <1>6, <1>9, <2>1, <2>2, ZenonT(60) DEF Navigate, StillGoes
    <2>3. CASE PageOf(h) = 0 /\ Go(c, EnsureLiveRuntime(New("navigate", h)))
      BY <1>5, <1>7, <2>1, <2>3, EngineClean, ZenonT(60)
    <2>4. CASE Go(c, Waiting(New("navigate", h), "fetch", 0)) \/ Done(c)
      BY <1>5, <1>6, <2>1, <2>4, StillWaiting, StillIdle, ZenonT(60) DEF StillGoes, Done
    <2> QED BY <1>9, <2>2, <2>3, <2>4, Zenon DEF Navigate
  <1> QED BY <1>8, <1>9, Zenon

-----------------------------------------------------------------------------
(* A tab more.                                                             *)

LEMMA Grows ==
    ASSUME BrowserInv, TabIdsAreUnique, NEW url, CreateBackgroundTab(url), Len(tab) < MaxTabs
    PROVE  /\ OpenTabs' = OpenTabs \cup {Len(tab) + 1}
           /\ \A i : Listed(i) => Listed(i)'
           /\ tab'[Len(tab) + 1].id = nextTabIndex /\ nextTabIndex \in Ids /\ nextTabIndex # 0
           /\ ~ Listed(nextTabIndex)
  <1> DEFINE n == BuildTabRecord(url)
  <1>1. tab' = Append(tab, n) /\ tabs' = tabs \cup {Len(tab) + 1}
    BY Zenon DEF CreateBackgroundTab
  <1>2. n.id = nextTabIndex
    BY Zenon DEF BuildTabRecord
  <1> HIDE DEF n
  <1>3. /\ tab \in Seq(TabRecord) /\ nextTabIndex \in 1..Len(tab) + 1
        /\ \A g \in DOMAIN tab : tab[g].id \in Nat
    BY DEF BrowserInv, TabsOK, TabOK, TabRecord, Ids
  <1>4. MaxTabs \in Nat
    BY BrowserAssumption
  <1>5. nextTabIndex \in Ids /\ nextTabIndex # 0
    BY <1>3, <1>4, SMTT(60) DEF Ids
  <1>6. /\ \A g \in DOMAIN tab' : g # Len(tab) + 1 => g \in DOMAIN tab
        /\ \A g \in DOMAIN tab : g \in DOMAIN tab' /\ tab'[g] = tab[g]
        /\ Len(tab) + 1 \in DOMAIN tab'
    BY <1>1, <1>3, SMTT(60)
  <1>7. tab'[Len(tab) + 1].id = nextTabIndex
    BY <1>1, <1>2, <1>3, SMTT(60)
  <1>8. OpenTabs' = OpenTabs \cup {Len(tab) + 1}
    BY <1>1, <1>6, Zenon DEF OpenTabs
  <1>9. \A i : Listed(i) => Listed(i)'
    BY <1>6, <1>8, Zenon DEF Listed, OpenTabs
  <1>10. \A k \in Nat : k < nextTabIndex => k # nextTabIndex
    BY <1>3
  <1>11. ~ Listed(nextTabIndex)
    BY <1>3, <1>10, Zenon DEF Listed, OpenTabs, TabIdsAreUnique
  <1> QED BY <1>5, <1>7, <1>8, <1>9, <1>11, ZenonT(60)

LEMMA OpenClean ==
    ASSUME BrowserInv, TabIdsAreUnique, Clean(Idle), NEW c, NEW url, OpenTab(c, url) PROVE CleanStep(c)
  <1> DEFINE h == Len(tab) + 1
             r == New("open", h)
  <1>1. /\ CreateBackgroundTab(url) /\ Len(tab) < MaxTabs /\ activeTabId' = nextTabIndex
        /\ UNCHANGED <<page, live, browsers, liveBrowser, liveContext>>
    BY Zenon DEF OpenTab, CreateTab, runtimeVars
  <1>2. /\ h \in OpenTabs' /\ \A i : Listed(i) => Listed(i)'
        /\ tab'[h].id = nextTabIndex /\ nextTabIndex \in Ids /\ nextTabIndex # 0
        /\ ~ Listed(nextTabIndex)
    BY <1>1, Grows, Zenon
  <1>3. live[nextTabIndex] = 0
    BY <1>2, Zenon DEF Clean, MapOK
  <1>4. ActiveOK'
    BY <1>1, <1>2, Zenon DEF ActiveOK, Listed
  <1>5. RunOK'
    BY <1>1, Zenon DEF RunOK, Clean
  <1>6. Idle.at # "drop" /\ Idle.at = "idle"
    BY DEF Idle
  <1>7. \A x : MapOK' /\ OwnOK(x)'
    BY <1>1, <1>2, <1>6, NoPageMoves, QuietKeeps, ZenonT(60) DEF Clean
  <1>8. \A x : StandOK(x)' => Clean(x)'
    BY <1>4, <1>5, <1>7, Zenon DEF Clean
  <1>9. Asks(r) /\ r.tab = h
    BY DEF New, Idle, Fields, Asks, Resets
  <1> HIDE DEF h
  <1>10. \A x : x = EnsureLiveRuntime(r) => StandOK(x)'
    BY <1>1, <1>2, <1>3, <1>9, RuntimeStands, ZenonT(60) DEF Clean
  <1>11. \A x : x = Idle => StandOK(x)'
    BY <1>6, SMTT(60) DEF StandOK
  <1>12. \A x : x = Waiting(r, "fetch", 0) => StandOK(x)'
    <2>1. LET w == Waiting(r, "fetch", 0) IN w.at = "fetch" /\ w.tab = h /\ w.parent = 0
      BY <1>9, Zenon DEF Waiting, Idle, Asks
    <2> QED BY <1>2, <2>1, SMTT(60) DEF StandOK
  <1>13. \E x : x \in {EnsureLiveRuntime(r), Waiting(r, "fetch", 0), Idle} /\ Go(c, x)
    BY Zenon DEF OpenTab, Done, h
  <1> QED BY <1>8, <1>10, <1>11, <1>12, <1>13, Zenon DEF CleanStep

-----------------------------------------------------------------------------
(* The runtime is there, a page is there, a popup is there.                *)

LEMMA LaunchedClean ==
    ASSUME BrowserInv, browsers \in Seq(BOOLEAN), NEW c \in Slots, Clean(call[c]), Launched(c) PROVE CleanStep(c)
  <1> DEFINE r == call[c]
             b == Len(browsers) + 1
             y == [r EXCEPT !.at = "context", !.browser = b]
  <1>1. /\ r.at = "launch" /\ browsers' = Append(browsers, TRUE) /\ liveBrowser' = b
        /\ UNCHANGED <<tabVars, liveContext, page, live>>
    BY ZenonT(60) DEF Launched
  <1>2. Plain(r) /\ r.parent = 0 /\ r.at # "drop" /\ r.at # "idle"
    BY <1>1, StandsPlain, SMTT(60) DEF BrowserInv, CallsOK, CallOK, Launched
  <1>3. liveBrowser = 0 /\ liveContext = 0
    BY <1>1, Zenon DEF Clean, StandOK, RunOK
  <1>4. Go(c, y)
    BY <1>3, Zenon DEF Launched
  <1>5. UNCHANGED <<tab, tabs, activeTabId>>
    BY <1>1, Zenon DEF tabVars
  <1>6. y.at = "context" /\ y.op = r.op /\ y.tab = r.tab /\ y.parent = 0 /\ y.browser = b
    BY <1>2, Zenon DEF Plain, Fields
  <1>7. PICK x : x = y
    BY SMTT(60)
  <1>8. /\ r.op \notin {"start", "stop", "reset"} => r.tab \in OpenTabs
        /\ r.op # "start" => live[tab[r.tab].id] = 0
    BY <1>1, <1>2 DEF Clean, StandOK
  <1> HIDE DEF y, r
  <1>9. OpenTabs' = OpenTabs
    BY <1>5, SameList, ZenonT(60)
  <1>10. StandOK(x)'
    BY <1>1, <1>5, <1>6, <1>7, <1>8, <1>9, SMTT(60) DEF StandOK
  <1>11. /\ \A d \in DOMAIN browsers' : d = b \/ (d \in DOMAIN browsers /\ browsers'[d] = browsers[d])
         /\ \A d \in DOMAIN browsers : d # 0
    <2>1. PICK S : S = BOOLEAN
      OBVIOUS
    <2>2. browsers \in Seq(S) /\ TRUE \in S
      BY <2>1, Zenon
    <2>3. PICK u : u = TRUE
      OBVIOUS
    <2>4. browsers' = Append(browsers, u) /\ u \in S
      BY <1>1, <2>2, <2>3, Zenon
    <2> QED BY <2>2, <2>4, SMTT(60)
  <1>12. RunOK'
    BY <1>1, <1>3, <1>11, Zenon DEF Clean, RunOK
  <1>13. MapOK' /\ OwnOK(x)'
    BY <1>1, <1>2, <1>5, NoPageMoves, QuietKeeps, SameList, ZenonT(60) DEF Clean, r
  <1>14. ActiveOK'
    BY <1>5, SameList, Zenon DEF Clean
  <1> QED BY <1>4, <1>7, <1>10, <1>12, <1>13, <1>14, ZenonT(60) DEF Clean, CleanStep

LEMMA ContextClean ==
    ASSUME BrowserInv, NEW c \in Slots, Clean(call[c]), ContextReady(c) PROVE CleanStep(c)
  <1> DEFINE r == call[c]
             n == [r EXCEPT !.at = "newPage", !.browser = r.browser]
  <1>1. /\ r.at = "context" /\ liveContext' = r.browser /\ Go(c, WithContext(r, r.browser))
        /\ UNCHANGED <<tabVars, browsers, liveBrowser, page, live>>
    BY ZenonT(60) DEF ContextReady
  <1>2. Plain(r) /\ r.parent = 0 /\ r.at # "drop" /\ r.at # "idle"
    BY <1>1, StandsPlain, SMTT(60) DEF BrowserInv, CallsOK, CallOK
  <1>3. r.browser = liveBrowser
    BY <1>1, Zenon DEF Clean, StandOK
  <1>4. UNCHANGED <<tab, tabs, activeTabId>>
    BY <1>1, Zenon DEF tabVars
  <1>5. n.at = "newPage" /\ n.op = r.op /\ n.tab = r.tab /\ n.parent = 0 /\ Idle.at = "idle"
    BY <1>2, Zenon DEF Plain, Fields, Idle
  <1>6. PICK x : x = WithContext(r, r.browser)
    OBVIOUS
  <1>7. x = Idle \/ (r.op # "start" /\ x = n)
    BY <1>6, ZenonT(60) DEF WithContext
  <1>8. /\ r.op \notin {"start", "stop", "reset"} => r.tab \in OpenTabs
        /\ r.op # "start" => live[tab[r.tab].id] = 0
    BY <1>1, <1>2, SMTT(60) DEF Clean, StandOK
  <1> HIDE DEF n, r
  <1>9. OpenTabs' = OpenTabs
    BY <1>4, SameList, ZenonT(60)
  <1>10. StandOK(x)'
    BY <1>1, <1>4, <1>5, <1>7, <1>8, <1>9, SMTT(60) DEF StandOK
  <1>11. RunOK'
    BY <1>1, <1>3, Zenon DEF Clean, RunOK
  <1>12. MapOK' /\ OwnOK(x)'
    BY <1>1, <1>2, <1>4, NoPageMoves, QuietKeeps, SameList, ZenonT(60) DEF Clean, r
  <1>13. ActiveOK'
    BY <1>4, SameList, Zenon DEF Clean
  <1> QED BY <1>1, <1>6, <1>10, <1>11, <1>12, <1>13, ZenonT(60) DEF Clean, CleanStep

LEMMA PageReadyClean ==
    ASSUME BrowserInv, NEW c \in Slots, Clean(call[c]), PageReady(c) PROVE CleanStep(c)
  <1> DEFINE r == call[c]
             p == Len(page) + 1
             i == tab[r.tab].id
             n == [url |-> None, browser |-> r.browser, open |-> TRUE, own |-> TRUE, id |-> i]
             y == [r EXCEPT !.at = "goto", !.page = p, !.browser = 0]
  <1>1. /\ r.at = "newPage" /\ page' = Append(page, n) /\ live' = [live EXCEPT ![i] = p] /\ Go(c, y)
        /\ UNCHANGED <<tab, tabs, activeTabId, browsers, liveBrowser, liveContext>>
    BY ZenonT(60) DEF PageReady, AttachLivePage, tabVars
  <1>2. r.at # "drop" /\ r.at # "idle" /\ r.op # "start"
    BY <1>1, SMTT(60) DEF BrowserInv, CallsOK, CallOK
  <1>3. Held(r)
    BY <1>1, HeldCall, Zenon
  <1>4. live[i] = 0
    BY <1>1, <1>2, Zenon DEF Clean, StandOK
  <1>5. i \in Ids /\ Listed(i)
    BY <1>3, TabIds, Zenon DEF Held, Listed
  <1>6. Still(y)
    BY <1>3, Zenon DEF Held, Still, Fields
  <1>7. n.own /\ n.open
    BY Zenon
  <1>8. PICK S : page \in Seq(S)
    BY Zenon DEF BrowserInv, PagesOK
  <1> HIDE DEF n, y, r, i
  <1>9. /\ \A q \in DOMAIN page' : q = p \/ (q \in DOMAIN page /\ page'[q] = page[q])
        /\ \A q \in DOMAIN page : page'[q] = page[q] /\ q # 0
        /\ page'[p] = n
    BY <1>1, <1>8, SMTT(60)
  <1> HIDE DEF p
  <1>10. DOMAIN live = Ids /\ \A j \in Ids : live[j] # 0 => live[j] \in DOMAIN page
    BY Zenon DEF BrowserInv, LiveOK
  <1>11. live'[i] = p /\ \A j \in Ids : j # i => live'[j] = live[j]
    BY <1>1, <1>5, <1>10, Zenon
  <1>12. \A j : Listed(j) => Listed(j)'
    BY <1>1, SameList, Zenon
  <1>13. MapOK'
    <2>1. ASSUME NEW j \in Ids, live'[j] # 0
          PROVE  Listed(j)' /\ (page'[live'[j]].own => page'[live'[j]].open)
      <3>1. CASE j = i
        BY <1>5, <1>7, <1>9, <1>11, <1>12, <3>1, ZenonT(60)
      <3>2. CASE j # i
        <4>1. live'[j] = live[j] /\ live[j] # 0
          BY <1>11, <2>1, <3>2, Zenon
        <4>2. page'[live[j]] = page[live[j]]
          BY <1>9, <1>10, <4>1, Zenon
        <4> QED BY <1>12, <4>1, <4>2, Zenon DEF Clean, MapOK
      <3> QED BY <3>1, <3>2, Zenon
    <2> QED BY <2>1, Zenon DEF MapOK
  <1>14. ASSUME NEW q \in DOMAIN page', page'[q].own, page'[q].open PROVE \E j \in Ids : live'[j] = q
    <2>1. CASE q = p
      BY <1>5, <1>11, <2>1, Zenon
    <2>2. CASE q \in DOMAIN page /\ page'[q] = page[q]
      <3>1. PICK j \in Ids : live[j] = q
        BY <1>2, <1>14, <2>2, Zenon DEF Clean, OwnOK, r
      <3>2. j # i
        BY <1>4, <1>9, <2>2, <3>1, ZenonT(60)
      <3> QED BY <1>11, <3>1, <3>2, Zenon
    <2> QED BY <1>9, <2>1, <2>2, Zenon
  <1>15. PICK x : x = y
    OBVIOUS
  <1>16. OwnOK(x)'
    BY <1>14, Zenon DEF OwnOK
  <1>17. ActiveOK' /\ OpenTabs' = OpenTabs /\ RunOK'
    BY <1>1, SameList, Zenon DEF Clean, RunOK
  <1>18. StandOK(x)'
    BY <1>6, <1>15, <1>17, StillStands, Zenon
  <1> QED BY <1>1, <1>13, <1>15, <1>16, <1>17, <1>18, ZenonT(60) DEF Clean, CleanStep

LEMMA PopupClean ==
    ASSUME BrowserInv, TabIdsAreUnique, NEW c \in Slots, Clean(call[c]), Popup(c) PROVE CleanStep(c)
  <1>0. PICK i : i = nextTabIndex
    OBVIOUS
  <1> DEFINE r == call[c]
             s == [r EXCEPT !.tab = Len(tab) + 1, !.parent = r.tab]
             y == Waiting(s, "settle", r.page)
  <1>1. /\ r.at = "popup" /\ Len(tab) < MaxTabs /\ live' = [live EXCEPT ![i] = r.page] /\ Go(c, y)
        /\ page' = [page EXCEPT ![r.page].id = i] /\ CreateBackgroundTab(page[r.page].url)
        /\ UNCHANGED <<activeTabId, browsers, liveBrowser, liveContext>>
    BY <1>0, ZenonT(60) DEF Popup, AttachLivePage
  <1>2. r.at # "drop" /\ r.page \in DOMAIN page
    BY <1>1, SMTT(60) DEF BrowserInv, CallsOK, CallOK
  <1>3. Held(r)
    BY <1>1, HeldCall, Zenon
  <1>4. ~ page[r.page].own
    BY <1>1, Zenon DEF Clean, StandOK
  <1>5. /\ OpenTabs' = OpenTabs \cup {Len(tab) + 1}
        /\ \A j : Listed(j) => Listed(j)'
        /\ tab'[Len(tab) + 1].id = i /\ i \in Ids /\ i # 0
        /\ ~ Listed(i)
    BY <1>0, <1>1, Grows, Zenon
  <1>6. y.at = "settle" /\ y.tab = Len(tab) + 1 /\ y.parent = r.tab
    <2>1. s.tab = Len(tab) + 1 /\ s.parent = r.tab
      BY <1>3, Zenon DEF Held, Fields
    <2> HIDE DEF s
    <2> QED BY <2>1, Zenon DEF Waiting, Idle
  <1> HIDE DEF y, r
  <1>7. DOMAIN live = Ids /\ \A j \in Ids : live[j] # 0 => live[j] \in DOMAIN page
    BY Zenon DEF BrowserInv, LiveOK
  <1>8. live[i] = 0
    BY <1>5, Zenon DEF Clean, MapOK
  <1>9. live'[i] = r.page /\ \A j \in Ids : j # i => live'[j] = live[j]
    BY <1>1, <1>5, <1>7, Zenon
  <1>10. \A q \in DOMAIN page : {"own", "open"} \subseteq DOMAIN page[q]
    BY Zenon DEF BrowserInv, PagesOK
  <1>11. DOMAIN page' = DOMAIN page /\ \A q \in DOMAIN page : page'[q].own = page[q].own /\ page'[q].open = page[q].open
    BY <1>1, <1>10, Zenon
  <1>12. \A q \in DOMAIN page : q # 0
    BY DEF BrowserInv, PagesOK
  <1>13. Listed(i)'
    BY <1>5, Zenon DEF Listed
  <1>14. MapOK'
    <2>1. ASSUME NEW j \in Ids, live'[j] # 0
          PROVE  Listed(j)' /\ (page'[live'[j]].own => page'[live'[j]].open)
      <3>1. CASE j = i
        BY <1>2, <1>4, <1>9, <1>11, <1>13, <3>1, ZenonT(60)
      <3>2. CASE j # i
        <4>1. live'[j] = live[j] /\ live[j] # 0 /\ live[j] \in DOMAIN page
          BY <1>7, <1>9, <2>1, <3>2, Zenon
        <4>2. Listed(j) /\ (page[live[j]].own => page[live[j]].open)
          BY <4>1, Zenon DEF Clean, MapOK
        <4> QED BY <1>5, <1>11, <4>1, <4>2, ZenonT(60)
      <3> QED BY <3>1, <3>2, Zenon
    <2> QED BY <2>1, Zenon DEF MapOK
  <1>15. ASSUME NEW q \in DOMAIN page', page'[q].own, page'[q].open PROVE \E j \in Ids : live'[j] = q
    <2>1. PICK j \in Ids : live[j] = q
      BY <1>2, <1>11, <1>15, Zenon DEF Clean, OwnOK, r
    <2>2. j # i
      BY <1>8, <1>11, <1>12, <2>1, ZenonT(60)
    <2> QED BY <1>9, <2>1, <2>2, Zenon
  <1>16. PICK x : x = y
    OBVIOUS
  <1>17. OwnOK(x)'
    BY <1>15, Zenon DEF OwnOK
  <1>18. ActiveOK'
    <2>1. activeTabId = 0 => activeTabId' = 0
      BY <1>1, Zenon
    <2>2. tabs # {} => activeTabId # 0
      BY Zenon DEF Clean, ActiveOK
    <2>3. r.tab \in tabs
      BY <1>3, Zenon DEF Held, OpenTabs
    <2> QED BY <1>1, <1>5, <2>2, <2>3, ZenonT(60) DEF Clean, ActiveOK, Listed
  <1>19. RunOK'
    BY <1>1, Zenon DEF Clean, RunOK
  <1>20. StandOK(x)'
    BY <1>3, <1>5, <1>6, <1>16, SMTT(60) DEF StandOK, Held
  <1> QED BY <1>1, <1>14, <1>16, <1>17, <1>18, <1>19, <1>20, ZenonT(60) DEF Clean, CleanStep

-----------------------------------------------------------------------------
(* A tab less.                                                             *)

LEMMA CloseList ==
    ASSUME BrowserInv, HasLast, ActiveOK, NEW id, CloseTab(id), UNCHANGED tab
    PROVE  ActiveOK' /\ \A i : i # id /\ Listed(i) => Listed(i)'
  <1> DEFINE left == {h \in tabs : tab[h].id # id}
  <1>1. /\ tabs' = left
        /\ activeTabId' = IF activeTabId # id THEN activeTabId ELSE IF left = {} THEN 0 ELSE tab[Max(left)].id
    BY Zenon DEF CloseTab
  <1>2. OpenTabs' = left /\ OpenTabs = tabs
    BY <1>1, Zenon DEF OpenTabs, HasLast
  <1>3. \A i : i # id /\ Listed(i) => Listed(i)'
    BY <1>2, Zenon DEF Listed
  <1>4. left # {} => Max(left) \in left
    <2> HIDE DEF left
    <2>1. left # {} => \E m \in left : \A g \in left : m >= g
      BY Zenon DEF left, HasLast
    <2> QED BY <2>1, Zenon DEF Max
  <1>5. CASE activeTabId # id
    <2>1. activeTabId' = activeTabId
      BY <1>1, <1>5, Zenon
    <2>2. tabs = {} => tabs' = {}
      BY <1>1, Zenon
    <2>3. PICK a : a = activeTabId
      OBVIOUS
    <2>4. a = 0 \/ Listed(a)'
      BY <1>3, <1>5, <2>3, Zenon DEF ActiveOK
    <2>5. a = 0 \/ \E h \in OpenTabs' : tab'[h].id = a
      BY <2>4, Zenon DEF Listed
    <2> QED BY <1>3, <2>1, <2>2, <2>3, <2>5, ZenonT(60) DEF ActiveOK, Listed
  <1>6. CASE activeTabId = id /\ left = {}
    BY <1>1, <1>3, <1>6, Zenon DEF ActiveOK
  <1>7. CASE activeTabId = id /\ left # {}
    <2> HIDE DEF left
    <2>1. activeTabId' = tab[Max(left)].id /\ Max(left) \in OpenTabs' /\ Max(left) \in OpenTabs
      BY <1>1, <1>2, <1>4, <1>7, ZenonT(60) DEF left
    <2>2. activeTabId' # 0
      BY <2>1, TabIds, Zenon
    <2> QED BY <1>3, <2>1, <2>2, Zenon DEF ActiveOK, Listed
  <1> QED BY <1>5, <1>6, <1>7, Zenon

LEMMA CloseClean ==
    ASSUME BrowserInv, HasLast, Clean(Idle), NEW c, NEW h \in OpenTabs, Close(c, h) PROVE CleanStep(c)
  <1> DEFINE i == tab[h].id
             y == [New("close", h) EXCEPT !.at = "drop", !.page = live[i]]
  <1>1. Idle.at = "idle" /\ Idle.at # "drop"
    BY DEF Idle
  <1>2. UNCHANGED <<tab, browsers, liveBrowser, liveContext, page>>
    BY Zenon DEF Close
  <1>3. CASE live[i] = 0
    <2>1. CloseTab(i) /\ Go(c, Idle) /\ UNCHANGED live
      BY <1>3, Zenon DEF Close, PageOf, Done
    <2>2. ActiveOK' /\ \A j : j # i /\ Listed(j) => Listed(j)'
      BY <1>2, <2>1, CloseList, Zenon DEF Clean
    <2>3. \A j \in Ids : Listed(j) /\ live'[j] # 0 => Listed(j)'
      BY <1>3, <2>1, <2>2, ZenonT(60)
    <2>4. \A x : MapOK' /\ OwnOK(x)'
      BY <1>1, <1>2, <2>1, <2>3, ClosedPages, ForgetWithout, ShrinkKeeps, ZenonT(60) DEF Clean
    <2>5. PICK x : x = Idle
      BY SMTT(60)
    <2>6. StandOK(x)'
      BY <1>1, <2>5, SMTT(60) DEF StandOK
    <2>7. RunOK'
      BY <1>2, Zenon DEF Clean, RunOK
    <2> QED BY <2>1, <2>2, <2>4, <2>5, <2>6, <2>7, ZenonT(60) DEF Clean, CleanStep
  <1>4. CASE live[i] # 0
    <2>1. live' = [live EXCEPT ![i] = 0] /\ Go(c, y) /\ UNCHANGED <<tabs, activeTabId>>
      BY <1>4, Zenon DEF Close, PageOf
    <2>2. y.at = "drop" /\ y.page = live[i] /\ y.op = "close" /\ y.tab = h /\ y.parent = 0
      BY Zenon DEF New, Idle
    <2>3. PICK x : x = y
      OBVIOUS
    <2> HIDE DEF y
    <2>4. live'[i] = 0 /\ OpenTabs' = OpenTabs
      BY <1>2, <2>1, SameList, TabIds, ZenonT(60) DEF BrowserInv, LiveOK
    <2>5. StandOK(x)'
      BY <1>2, <2>2, <2>3, <2>4, SMTT(60) DEF StandOK, Resets
    <2> QED BY <1>1, <1>2, <2>1, <2>2, <2>3, <2>5, DetachClean, ZenonT(60) DEF CleanStep
  <1> QED BY <1>3, <1>4, Zenon

-----------------------------------------------------------------------------
(* stop and reset.                                                         *)

\* A stop or reset that runs alone, up to its next await.
LEMMA ResetStep ==
    ASSUME BrowserInv, NEW s, Clean(s), NEW ps, Closing(ps), s.at = "drop" => s.page \in ps,
           NEW c, NEW r, DOMAIN r = Fields, r.op \in Resets, r.alone, r.parent = 0,
           NEW m, DOMAIN m = Ids, Without(m, ps), \A i \in Ids : m[i] # 0 => i \in r.todo,
           ResetLiveRuntime(c, r, m), UNCHANGED <<tab, browsers, liveBrowser, liveContext>>
    PROVE  CleanStep(c)
  <1> DEFINE left == {i \in r.todo : m[i] # 0}
             d(i) == [r EXCEPT !.at = "drop", !.page = m[i], !.todo = left \ {i}]
             k == [r EXCEPT !.at = "closeContext", !.browser = liveContext, !.page = 0, !.todo = {}]
             b == [r EXCEPT !.at = "closeBrowser", !.browser = liveBrowser, !.page = 0, !.todo = {}]
  <1>1. RunOK'
    BY Zenon DEF Clean, RunOK
  <1>2. ASSUME NEW x, StandOK(x)', UNCHANGED <<tabs, activeTabId>>,
               \A i \in Ids : live'[i] = m[i] \/ (live'[i] = 0 /\ x.at = "drop" /\ x.page = m[i])
        PROVE  Clean(x)'
    <2>1. MapOK' /\ OwnOK(x)'
      BY <1>2, ShrinkKeeps, SameList, Zenon DEF Clean
    <2> QED BY <1>1, <1>2, <2>1, SameList, Zenon DEF Clean
  <1>3. r.op \in {"stop", "reset"} /\ r.op # "close" /\ r.op # "start"
    BY DEF Resets
  <1>4. CASE left # {}
    <2>1. PICK i : live' = [m EXCEPT ![i] = 0] /\ Go(c, d(i)) /\ UNCHANGED <<tabs, activeTabId>>
      BY <1>4, Zenon DEF ResetLiveRuntime
    <2>2. d(i).at = "drop" /\ d(i).page = m[i] /\ d(i).op = r.op /\ d(i).alone /\ d(i).parent = 0
      BY ZenonT(60) DEF Fields
    <2>3. PICK x : x = d(i)
      BY ZenonT(60)
    <2> HIDE DEF d
    <2>4. StandOK(x)'
      BY <1>3, <2>2, <2>3, SMTT(60) DEF StandOK
    <2>5. \A j \in Ids : live'[j] = m[j] \/ (live'[j] = 0 /\ x.at = "drop" /\ x.page = m[j])
      BY <2>1, <2>2, <2>3, Zenon
    <2> QED BY <1>2, <2>1, <2>3, <2>4, <2>5, ZenonT(60) DEF CleanStep
  <1>5. CASE left = {}
    <2>1. live' = m /\ \A i \in Ids : live'[i] = 0
      BY <1>5, Zenon DEF ResetLiveRuntime
    <2>2. CASE liveContext # 0
      <3>1. Go(c, k) /\ UNCHANGED <<tabs, activeTabId>>
        BY <1>5, <2>2, Zenon DEF ResetLiveRuntime
      <3>2. k.at = "closeContext" /\ k.op = r.op /\ k.alone /\ k.parent = 0
        BY Zenon DEF Fields
      <3>3. PICK x : x = k
        BY SMTT(60)
      <3> HIDE DEF k
      <3>4. StandOK(x)'
        BY <1>3, <3>2, <3>3, SMTT(60) DEF StandOK
      <3> QED BY <1>2, <2>1, <3>1, <3>3, <3>4, Zenon DEF CleanStep
    <2>3. CASE liveContext = 0 /\ liveBrowser # 0
      <3>1. Go(c, b) /\ UNCHANGED <<tabs, activeTabId>>
        BY <1>5, <2>3, Zenon DEF ResetLiveRuntime
      <3>2. b.at = "closeBrowser" /\ b.op = r.op /\ b.alone /\ b.parent = 0 /\ b.browser = liveBrowser
        BY Zenon DEF Fields
      <3>3. PICK x : x = b
        OBVIOUS
      <3> HIDE DEF b
      <3>4. StandOK(x)'
        BY <1>3, <2>3, <3>2, <3>3, SMTT(60) DEF StandOK
      <3> QED BY <1>2, <2>1, <3>1, <3>3, <3>4, Zenon DEF CleanStep
    <2>4. CASE liveContext = 0 /\ liveBrowser = 0
      <3>1. Go(c, Idle) /\ (UNCHANGED <<tabs, activeTabId>> \/ (tabs' = {} /\ activeTabId' = 0))
        BY <1>5, <2>4, Zenon DEF ResetLiveRuntime, EndReset, Done, ResetTabs
      <3>2. PICK x : x = Idle
        BY SMTT(60)
      <3>3. StandOK(x)'
        BY <3>2 DEF StandOK, Idle
      <3>4. CASE tabs' = {} /\ activeTabId' = 0
        <4>1. ActiveOK'
          BY <3>4, Zenon DEF ActiveOK
        <4>2. MapOK' /\ OwnOK(x)'
          BY <2>1, ShrinkKeeps, Zenon DEF Clean
        <4> QED BY <1>1, <3>1, <3>2, <3>3, <4>1, <4>2, ZenonT(60) DEF Clean, CleanStep
      <3> QED BY <1>2, <2>1, <3>1, <3>2, <3>3, <3>4, ZenonT(60) DEF CleanStep
    <2> QED BY <2>2, <2>3, <2>4, Zenon
  <1> QED BY <1>4, <1>5, Zenon

LEMMA StopClean ==
    ASSUME BrowserInv, Clean(Idle), NEW c, NEW op \in {"stop", "reset"}, StopOrReset(c, op) PROVE CleanStep(c)
  <1> DEFINE r == [New(op, 0) EXCEPT !.todo = {i \in Ids : live[i] # 0}]
  <1>1. /\ DOMAIN r = Fields /\ r.op \in Resets /\ r.alone /\ r.parent = 0
        /\ r.todo = {i \in Ids : live[i] # 0}
    BY Zenon DEF New, Idle, Fields, Resets
  <1>2. ResetLiveRuntime(c, r, live) /\ UNCHANGED <<tab, browsers, liveBrowser, liveContext, page>>
    BY Zenon DEF StopOrReset
  <1> HIDE DEF r
  <1>3. \A i \in Ids : live[i] # 0 => i \in r.todo
    BY <1>1, Zenon
  <1>4. Closing({}) /\ Without(live, {}) /\ DOMAIN live = Ids
    BY <1>2, ClosedPages, ForgetWithout, ZenonT(60) DEF BrowserInv, LiveOK
  <1>5. Idle.at # "drop"
    BY DEF Idle
  <1> QED BY <1>1, <1>2, <1>3, <1>4, <1>5, ResetStep, ZenonT(60)

LEMMA DroppedClean ==
    ASSUME BrowserInv, LoneInv, HasLast, NEW c \in Slots, Clean(call[c]), Dropped(c) PROVE CleanStep(c)
  <1> DEFINE r == call[c]
             m == Forget(live, {r.page})
             i == tab[r.tab].id
  <1>1. r.at = "drop" /\ page' = Closed({r.page}) /\ UNCHANGED <<tab, browsers, liveBrowser, liveContext>>
    BY Zenon DEF Dropped
  <1>2. Closing({r.page}) /\ Without(m, {r.page}) /\ DOMAIN m = Ids
    BY <1>1, ClosedPages, ForgetWithout, ZenonT(60) DEF Forget
  <1>3. r.at # "idle" /\ DOMAIN r = Fields
    BY <1>1, SMTT(60) DEF BrowserInv, CallsOK, CallOK
  <1>4. RunOK' /\ r.page \in {r.page}
    BY <1>1, Zenon DEF Clean, RunOK
  <1>5. CASE r.op \in Fallback
    <2>1. Held(r)
      <3>1. r.op \notin {"start", "stop", "reset"}
        BY <1>5 DEF Fallback
      <3> QED BY <1>3, <3>1, HeldAs, Zenon
    <2>2. r.op \notin Resets /\ r.op # "close"
      BY <1>5 DEF Fallback, Resets
    <2>3. /\ live' = m /\ UNCHANGED <<tabs, activeTabId>>
          /\ Go(c, Waiting(r, "fetch", 0)) \/ Go(c, Idle)
      BY <2>2, Zenon DEF Dropped, Done, Resets
    <2>4. PICK x : Go(c, x) /\ Still(x)
      BY <2>1, <2>3, StillWaiting, StillIdle, Zenon
    <2>5. ActiveOK' /\ OpenTabs' = OpenTabs /\ \A j : Listed(j) => Listed(j)'
      BY <1>1, <2>3, SameList, Zenon DEF Clean
    <2>6. MapOK' /\ OwnOK(x)'
      BY <1>2, <1>4, <2>3, <2>5, ShrinkKeeps, ZenonT(60) DEF Clean
    <2> QED BY <1>4, <2>4, <2>5, <2>6, StillStands, Zenon DEF Clean, CleanStep
  <1>6. CASE r.op = "close"
    <2>1. r.op \notin Resets /\ r.op \notin Fallback
      BY <1>6 DEF Fallback, Resets
    <2>2. live' = m /\ CloseTab(i) /\ Go(c, Idle)
      BY <2>1, Zenon DEF Dropped, Done, Resets
    <2>3. r.tab \in OpenTabs /\ live[i] = 0
      <3>1. r.op \notin {"start", "stop", "reset"}
        BY <1>6
      <3> QED BY <1>1, <1>3, <1>6, <3>1, ZenonT(60) DEF Clean, StandOK
    <2>4. i \in Ids /\ m[i] = 0
      BY <2>3, TabIds, Zenon DEF Forget
    <2>5. ActiveOK' /\ \A j : j # i /\ Listed(j) => Listed(j)'
      BY <1>1, <2>2, CloseList, Zenon DEF Clean
    <2> HIDE DEF m, i
    <2>6. \A j \in Ids : Listed(j) /\ live'[j] # 0 => Listed(j)'
      BY <2>2, <2>4, <2>5, Zenon
    <2>7. \A x : MapOK' /\ OwnOK(x)'
      BY <1>2, <1>4, <2>2, <2>6, ShrinkKeeps, ZenonT(60) DEF Clean
    <2>8. PICK x : x = Idle
      BY SMTT(60)
    <2>9. StandOK(x)'
      BY <2>8 DEF StandOK, Idle
    <2> QED BY <1>4, <2>2, <2>5, <2>7, <2>8, <2>9, Zenon DEF Clean, CleanStep
  <1>7. CASE r.op \in Resets
    <2>1. r.op \notin Fallback /\ r.op # "close" /\ r.parent = 0
      BY <1>7, SMTT(60) DEF Fallback, Resets, BrowserInv, CallsOK, CallOK
    <2>2. ResetLiveRuntime(c, r, m)
      BY <2>1, Zenon DEF Dropped
    <2>3. r.alone
      <3>1. r.at \in {"drop", "closeContext", "closeBrowser"}
        BY <1>1
      <3> QED BY <1>7, <3>1, Zenon DEF Clean, StandOK
    <2>4. \A j \in Ids : live[j] # 0 => j \in r.todo
      BY <1>1, <1>7, <2>3, Zenon DEF LoneInv
    <2>5. \A j \in Ids : m[j] # 0 => j \in r.todo
      BY <1>2, <2>4, Zenon DEF Without
    <2> HIDE DEF m
    <2> QED BY <1>1, <1>2, <1>3, <1>4, <1>7, <2>1, <2>2, <2>3, <2>5, ResetStep, ZenonT(60)
  <1> QED BY <1>5, <1>6, <1>7, Zenon DEF Dropped, Resets

LEMMA ClosesClean ==
    ASSUME BrowserInv, LoneInv, NEW c \in Slots, Clean(call[c]), ContextClosed(c) \/ BrowserClosed(c)
    PROVE  CleanStep(c)
  <1> DEFINE r == call[c]
             ps == PagesOf(r.browser)
             y == [r EXCEPT !.at = "closeBrowser", !.browser = liveBrowser]
  <1>1. /\ r.at \in {"closeContext", "closeBrowser"} /\ page' = Closed(ps) /\ live' = Forget(live, ps)
        /\ UNCHANGED tab
    BY Zenon DEF ContextClosed, BrowserClosed
  <1>2. Closing(ps) /\ Without(live', ps)
    BY <1>1, ClosedPages, ForgetWithout, ZenonT(60)
  <1>3. r.at # "drop" /\ r.at # "idle" /\ DOMAIN r = Fields /\ r.parent = 0
    BY <1>1, SMTT(60) DEF BrowserInv, CallsOK, CallOK
  <1>4. r.at = "closeBrowser" => r.browser = liveBrowser /\ liveContext = 0
    BY Zenon DEF Clean, StandOK
  <1>5. r.op \in Resets => r.alone
    <2>1. r.at \in {"drop", "closeContext", "closeBrowser"}
      BY <1>1
    <2> QED BY <2>1, Zenon DEF Clean, StandOK
  <1>6. r.op \in Resets => \A i \in Ids : live'[i] = 0
    BY <1>1, <1>2, <1>5, Zenon DEF LoneInv, Without
  <1>7. RunOK'
    <2>1. CASE ContextClosed(c)
      BY <2>1, Zenon DEF ContextClosed, Clean, RunOK
    <2>2. CASE BrowserClosed(c)
      BY <1>4, <2>2, Zenon DEF BrowserClosed, Clean, RunOK
    <2> QED BY <2>1, <2>2, Zenon
  <1>8. \A x : UNCHANGED <<tabs, activeTabId>> /\ StandOK(x)' => Clean(x)'
    <2> SUFFICES ASSUME NEW x, UNCHANGED <<tabs, activeTabId>>, StandOK(x)' PROVE Clean(x)'
      BY Zenon
    <2>1. ActiveOK' /\ \A i : Listed(i) => Listed(i)'
      BY <1>1, SameList, Zenon DEF Clean
    <2>2. MapOK' /\ OwnOK(x)'
      BY <1>2, <1>3, <2>1, ShrinkKeeps, ZenonT(60) DEF Clean
    <2> QED BY <1>7, <2>1, <2>2, Zenon DEF Clean
  <1>9. CASE EndReset(c, r)
    <2>1. Go(c, Idle) /\ (UNCHANGED <<tabs, activeTabId>> \/ (r.op = "reset" /\ tabs' = {} /\ activeTabId' = 0))
      BY <1>9, Zenon DEF EndReset, Done, ResetTabs
    <2>2. PICK x : x = Idle
      BY SMTT(60)
    <2>3. StandOK(x)'
      BY <2>2 DEF StandOK, Idle
    <2>4. CASE r.op = "reset" /\ tabs' = {} /\ activeTabId' = 0
      <3>1. ActiveOK'
        BY <2>4, Zenon DEF ActiveOK
      <3>2. \A i \in Ids : live'[i] = 0
        BY <1>6, <2>4, Zenon DEF Resets
      <3>3. MapOK' /\ OwnOK(x)'
        BY <1>2, <1>3, <3>2, ShrinkKeeps, ZenonT(60) DEF Clean
      <3> QED BY <1>7, <2>1, <2>2, <2>3, <3>1, <3>3, ZenonT(60) DEF Clean, CleanStep
    <2> QED BY <1>8, <2>1, <2>2, <2>3, <2>4, ZenonT(60) DEF CleanStep
  <1>10. CASE r.at = "closeContext" /\ Go(c, y) /\ UNCHANGED <<tabs, activeTabId, liveBrowser>> /\ liveContext' = 0
    <2>1. y.at = "closeBrowser" /\ y.browser = liveBrowser /\ y.op = r.op /\ y.tab = r.tab /\ y.parent = 0
          /\ y.alone = r.alone
      BY <1>3, Zenon DEF Fields
    <2>2. PICK x : x = y
      OBVIOUS
    <2>3. r.op \notin {"start", "stop", "reset"} => r.tab \in OpenTabs
      BY <1>3, Zenon DEF Clean, StandOK
    <2> HIDE DEF y, r
    <2>4. OpenTabs' = OpenTabs
      BY <1>1, <1>10, SameList, ZenonT(60)
    <2>5. StandOK(x)'
      BY <1>5, <1>10, <2>1, <2>2, <2>3, <2>4, SMTT(60) DEF StandOK
    <2> QED BY <1>8, <1>10, <2>2, <2>5, ZenonT(60) DEF CleanStep
  <1> QED BY <1>9, <1>10, Zenon DEF ContextClosed, BrowserClosed

\* What is lost outside the tool.
LEMMA SeqExcept ==
    ASSUME NEW S, NEW s \in Seq(S), NEW b, NEW u \in S PROVE [s EXCEPT ![b] = u] \in Seq(S)
  <1> DEFINE t == [s EXCEPT ![b] = u]
  <1>1. \A i \in DOMAIN s : t[i] \in S
    OBVIOUS
  <1>2. DOMAIN t = 1 .. Len(s) /\ Len(s) \in Nat
    OBVIOUS
  <1>3. t = [i \in 1 .. Len(s) |-> t[i]]
    BY <1>2, Zenon
  <1>4. \A i \in 1 .. Len(s) : t[i] \in S
    BY <1>1, <1>2, SMTT(60)
  <1> HIDE DEF t
  <1>5. t \in Seq(S)
    BY <1>2, <1>3, <1>4, SMTT(60)
  <1> QED BY <1>5 DEF t

\* A page closes or a browser dies while the calls wait.
LEMMA LostClean ==
    ASSUME BrowserInv, SerialInv, NEW ps, page' = Closed(ps), live' = Forget(live, ps),
           UNCHANGED <<tabVars, liveBrowser, liveContext, call, overlap>>,
           browsers' = browsers \/ \E b : browsers' = [browsers EXCEPT ![b] = FALSE]
    PROVE  SerialInv'
  <1>1. UNCHANGED <<tab, tabs, activeTabId>>
    BY Zenon DEF tabVars
  <1>2. Closing(ps) /\ Without(live', ps) /\ \A i \in Ids : live'[i] \in {0, live[i]}
    BY ClosedPages, ForgetWithout, Forgets, ZenonT(60)
  <1>3. browsers \in Seq(BOOLEAN) /\ HasLast /\ HasLast'
    BY <1>1, Zenon DEF SerialInv, HasLast
  <1>4. browsers' \in Seq(BOOLEAN) /\ \A b \in DOMAIN browsers' : b \in DOMAIN browsers /\ (browsers'[b] => browsers[b])
    <2>1. PICK S : S = BOOLEAN
      OBVIOUS
    <2>2. PICK u : u = FALSE
      OBVIOUS
    <2>3. browsers \in Seq(S) /\ u \in S
      BY <1>3, <2>1, <2>2, Zenon
    <2>4. browsers' = browsers \/ \E b : browsers' = [browsers EXCEPT ![b] = u]
      BY <2>2, Zenon
    <2>5. browsers' \in Seq(S) /\ DOMAIN browsers' = DOMAIN browsers
      BY <2>3, <2>4, SeqExcept
    <2>6. \A b \in DOMAIN browsers : browsers'[b] = browsers[b] \/ browsers'[b] = u
      BY <2>4, Zenon
    <2> QED BY <2>1, <2>2, <2>5, <2>6, ZenonT(60)
  <1>5. ASSUME NEW r, Current(r), Clean(r) PROVE Current(r)' /\ Clean(r)'
    <2>1. Busy' = Busy /\ Current(r)'
      BY <1>5, Zenon DEF Current, Busy
    <2>2. ActiveOK' /\ OpenTabs' = OpenTabs /\ \A i : Listed(i) => Listed(i)'
      BY <1>1, <1>5, SameList, Zenon DEF Clean
    <2>3. MapOK' /\ OwnOK(r)'
      BY <1>2, <1>5, <2>2, ShrinkKeeps, ZenonT(60) DEF Clean
    <2>4. RunOK'
      BY <1>4, <1>5, Zenon DEF Clean, RunOK
    <2>5. r.at = "popup" => r.page \in DOMAIN page
      <3>1. r = Idle => r.at # "popup"
        BY SMTT(60) DEF Idle
      <3>2. \A c \in Slots : call[c].at = "popup" => call[c].page \in DOMAIN page
        BY DEF BrowserInv, CallsOK, CallOK
      <3> QED BY <1>5, <3>1, <3>2, ZenonT(60) DEF Current
    <2>6. r.at = "popup" => ~ page'[r.page].own
      BY <1>2, <1>5, <2>5, ZenonT(60) DEF Clean, StandOK, Closing
    <2>7. r.op \in Resets => r.at \in {"idle", "drop", "closeContext", "closeBrowser"}
      <3>1. \A c \in Slots : call[c].op \in Resets => call[c].at \in {"drop", "closeContext", "closeBrowser"}
        BY DEF BrowserInv, CallsOK, CallOK, Resets
      <3>2. Idle.at = "idle"
        BY Zenon DEF Idle
      <3> QED BY <1>5, <3>1, <3>2, ZenonT(60) DEF Current
    <2>8. r.tab \in OpenTabs /\ live[tab[r.tab].id] = 0 => live'[tab'[r.tab].id] = 0
      BY <1>1, <1>2, TabIds, Zenon
    <2>9. StandOK(r)
      BY <1>5, ZenonT(60) DEF Clean
    <2>10. r.at \in {"launch", "context", "newPage"} /\ r.op # "start" => live'[tab'[r.tab].id] = 0
      <3>1. r.at \in {"launch", "context", "newPage"} => r.at # "idle" /\ r.op \notin Resets
        BY <2>7, SMTT(60)
      <3> QED BY <2>8, <2>9, <3>1, SMTT(60) DEF StandOK, Resets
    <2>11. r.at = "drop" /\ r.op = "close" => live'[tab'[r.tab].id] = 0
      BY <2>8, <2>9, SMTT(60) DEF StandOK
    <2>12. StandOK(r)'
      BY <2>2, <2>6, <2>9, <2>10, <2>11, ZenonT(60) DEF StandOK
    <2> QED BY <2>1, <2>2, <2>3, <2>4, <2>12, Zenon DEF Clean
  <1> QED BY <1>3, <1>4, <1>5, ZenonT(60) DEF SerialInv

-----------------------------------------------------------------------------
(* All steps.                                                              *)

LEMMA AnyTabCallClean ==
    ASSUME BrowserInv, HasLast, Clean(Idle), NEW c \in Slots, NEW h \in OpenTabs,
           \/ Focus(c, h) \/ Screenshot(c, h) \/ Inspect(c, h)
           \/ Close(c, h) \/ Reload(c, h) \/ Snapshot(c, h)
           \/ Forms(c, h) \/ Products(c, h)
           \/ Login(c, h) \/ Mfa(c, h) \/ Challenge(c, h)
           \/ Wait(c, h) \/ WaitForRequest(c, h) \/ Scroll(c, h) \/ Evaluate(c, h)
           \/ Hover(c, h) \/ Select(c, h) \/ Upload(c, h)
           \/ Fill(c, h) \/ Submit(c, h) \/ Click(c, h)
           \/ \E url \in Urls : Navigate(c, h, url)
           \/ \E op \in {"back", "forward"} : Move(c, h, op)
    PROVE  CleanStep(c)
  <1>1. Focus(c, h) \/ Screenshot(c, h) \/ Inspect(c, h) \/ Snapshot(c, h) => CleanStep(c)
    BY TabCallLight, Zenon DEF Screenshot, Inspect
  <1>2. Close(c, h) \/ Reload(c, h) \/ Forms(c, h) \/ Products(c, h) => CleanStep(c)
    BY TabCallLight, CloseClean, Zenon DEF Products
  <1>3. Login(c, h) \/ Mfa(c, h) \/ Challenge(c, h) => CleanStep(c)
    BY <1>1, LiveCallClean, Zenon DEF Login, Mfa, Challenge
  <1>4. Wait(c, h) \/ WaitForRequest(c, h) \/ Scroll(c, h) \/ Evaluate(c, h) => CleanStep(c)
    BY <1>1, TabCallLight, Zenon DEF Wait, WaitForRequest, Scroll, Evaluate
  <1>5. Hover(c, h) \/ Select(c, h) \/ Upload(c, h) \/ Fill(c, h) \/ Submit(c, h) \/ Click(c, h) => CleanStep(c)
    BY TabCallLight, Zenon DEF Hover, Select, Upload, Handle, Fill, Submit, Click
  <1>6. (\E url \in Urls : Navigate(c, h, url)) \/ (\E op \in {"back", "forward"} : Move(c, h, op)) => CleanStep(c)
    BY TabCallLight, LiveCallClean, ZenonT(60)
  <1> QED BY <1>1, <1>2, <1>3, <1>4, <1>5, <1>6, ZenonT(60)

\* The step of a call, when no two overlapped.
LEMMA CallSerial ==
    ASSUME SerialInv, BrowserInv, Numbered, browsers' \in Seq(BOOLEAN), NEW c \in Slots, NEW x, Go(c, x),
           \/ Begin(c) /\ (Clean(Idle) => CleanStep(c))
           \/ call[c].at # "idle" /\ (Clean(call[c]) => CleanStep(c))
    PROVE  SerialInv'
  <1>1. HasLast'
    BY LastKeeps, Zenon DEF SerialInv
  <1>2. CASE overlap'
    BY <1>1, <1>2, SerialKeeps, Zenon
  <1>3. CASE ~ overlap'
    <2>1. (call[c].at = "idle" => Clean(Idle)) /\ (call[c].at # "idle" => Clean(call[c]))
      BY <1>3, SerialGo, Zenon
    <2>2. PICK y : Go(c, y) /\ Clean(y)'
      BY <2>1, FreeClean, Zenon DEF CleanStep
    <2> QED BY <1>1, <2>2, SerialKeeps, Zenon
  <1> QED BY <1>2, <1>3, Zenon

\* The calls on a tab begin while the slot is free and leave the browsers alone.
LEMMA TabCallBegins ==
    ASSUME NEW c \in Slots, NEW h,
           \/ Focus(c, h) \/ Screenshot(c, h) \/ Inspect(c, h)
           \/ Close(c, h) \/ Reload(c, h) \/ Snapshot(c, h)
           \/ Forms(c, h) \/ Products(c, h)
           \/ Login(c, h) \/ Mfa(c, h) \/ Challenge(c, h)
           \/ Wait(c, h) \/ WaitForRequest(c, h) \/ Scroll(c, h) \/ Evaluate(c, h)
           \/ Hover(c, h) \/ Select(c, h) \/ Upload(c, h)
           \/ Fill(c, h) \/ Submit(c, h) \/ Click(c, h)
           \/ \E url \in Urls : Navigate(c, h, url)
           \/ \E op \in {"back", "forward"} : Move(c, h, op)
    PROVE  Begin(c) /\ UNCHANGED browsers
  <1>1. Focus(c, h) \/ Enter(c, h) \/ Watch(c, h) \/ Snapshot(c, h) => Begin(c) /\ UNCHANGED browsers
    BY Zenon DEF Focus, Enter, Watch, Snapshot, runtimeVars
  <1>2. \A op : Seeded(c, h, op) => Begin(c) /\ UNCHANGED browsers
    BY Zenon DEF Seeded, runtimeVars
  <1>3. Screenshot(c, h) \/ Inspect(c, h) \/ Forms(c, h) \/ Products(c, h)
        => Begin(c) /\ UNCHANGED browsers
    BY <1>1, Zenon DEF Screenshot, Inspect, Forms, Products, runtimeVars
  <1>4. Close(c, h) \/ Reload(c, h) => Begin(c) /\ UNCHANGED browsers
    BY Zenon DEF Close, Reload, runtimeVars
  <1>5. Login(c, h) \/ Mfa(c, h) \/ Challenge(c, h) => Begin(c) /\ UNCHANGED browsers
    BY <1>1, <1>3, Zenon DEF Login, Mfa, Challenge
  <1>6. Wait(c, h) \/ WaitForRequest(c, h) \/ Scroll(c, h) \/ Evaluate(c, h) => Begin(c) /\ UNCHANGED browsers
    BY <1>1, <1>3, Zenon DEF Wait, WaitForRequest, Scroll, Evaluate
  <1>7. Hover(c, h) \/ Select(c, h) \/ Upload(c, h) \/ Fill(c, h) \/ Submit(c, h) \/ Click(c, h)
        => Begin(c) /\ UNCHANGED browsers
    BY <1>1, <1>2, ZenonT(60) DEF Hover, Select, Upload, Handle, Fill, Submit, Click
  <1>8. \A url : Navigate(c, h, url) => Begin(c) /\ UNCHANGED browsers
    BY Zenon DEF Navigate, runtimeVars
  <1>9. \A op : Move(c, h, op) => Begin(c) /\ UNCHANGED browsers
    BY Zenon DEF Move, runtimeVars
  <1> QED BY <1>1, <1>3, <1>4, <1>5, <1>6, <1>7, <1>8, <1>9, ZenonT(60)

\* Nothing happens.
LEMMA UnchangedSerial == ASSUME SerialInv, UNCHANGED vars PROVE SerialInv'
  <1>1. UNCHANGED <<tab, tabs, activeTabId, browsers, liveBrowser, liveContext, page, live, call, overlap>>
    BY Zenon DEF vars, tabVars, runtimeVars
  <1>2. OpenTabs' = OpenTabs /\ Busy' = Busy
    BY <1>1, Zenon DEF OpenTabs, Busy
  <1>3. ASSUME NEW r, Current(r), Clean(r) PROVE Current(r)' /\ Clean(r)'
    <2>1. Current(r)'
      BY <1>1, <1>2, <1>3, ZenonT(60) DEF Current
    <2>2. ActiveOK' /\ MapOK'
      BY <1>1, <1>2, <1>3, Zenon DEF Clean, ActiveOK, MapOK, Listed
    <2>3. OwnOK(r)' /\ RunOK'
      BY <1>1, <1>2, <1>3, ZenonT(60) DEF Clean, OwnOK, RunOK
    <2>4. StandOK(r)'
      BY <1>1, <1>2, <1>3, ZenonT(60) DEF Clean, StandOK
    <2> QED BY <2>1, <2>2, <2>3, <2>4, ZenonT(60) DEF Clean
  <1> QED BY <1>1, <1>3, Zenon DEF SerialInv, HasLast

LEMMA NextSerial ==
    SerialInv /\ BrowserInv /\ LoneInv /\ TabIdsAreUnique /\ [Next]_vars => SerialInv'
  <1> SUFFICES ASSUME SerialInv, BrowserInv, LoneInv, TabIdsAreUnique, [Next]_vars PROVE SerialInv'
    BY Zenon
  <1>1. Numbered
    BY NextNumbers, Zenon
  <1>2. HasLast /\ browsers \in Seq(BOOLEAN)
    BY Zenon DEF SerialInv
  <1>3. UNCHANGED browsers => browsers' \in Seq(BOOLEAN)
    BY <1>2, Zenon
  <1>4. ASSUME NEW c \in Slots, Begin(c), UNCHANGED browsers, NEW x, Go(c, x), Clean(Idle) => CleanStep(c)
        PROVE  SerialInv'
    BY <1>1, <1>3, <1>4, CallSerial, ZenonT(60)
  <1>5. ASSUME NEW c \in Slots, call[c].at # "idle", browsers' \in Seq(BOOLEAN), NEW x, Go(c, x),
               Clean(call[c]) => CleanStep(c)
        PROVE  SerialInv'
    BY <1>1, <1>5, CallSerial, Zenon
  <1>6. ASSUME NEW c \in Slots, Start(c) \/ \E url \in Urls : OpenTab(c, url) PROVE SerialInv'
    <2>1. Begin(c) /\ UNCHANGED browsers /\ \E x : Go(c, x)
      BY <1>6, Zenon DEF Start, OpenTab, runtimeVars, Done
    <2> QED BY <1>4, <1>6, <2>1, StartClean, OpenClean, ZenonT(60)
  <1>7. ASSUME NEW c \in Slots, NEW op \in {"stop", "reset"}, StopOrReset(c, op) PROVE SerialInv'
    <2>1. Begin(c) /\ UNCHANGED browsers /\ \E x : Go(c, x)
      BY <1>7, Zenon DEF StopOrReset, ResetLiveRuntime, EndReset, Done
    <2> QED BY <1>4, <1>7, <2>1, StopClean, Zenon
  <1>8. ASSUME NEW c \in Slots, Launched(c) PROVE SerialInv'
    <2>1. call[c].at # "idle" /\ \E x : Go(c, x)
      <3>1. call[c].at = "launch" /\ \E x : Go(c, x)
        BY <1>8, Zenon DEF Launched
      <3> QED BY <3>1
    <2>2. browsers' \in Seq(BOOLEAN)
      <3>1. PICK S : S = BOOLEAN
        OBVIOUS
      <3>2. PICK u : u = TRUE
        OBVIOUS
      <3>3. browsers \in Seq(S) /\ u \in S /\ browsers' = Append(browsers, u)
        BY <1>2, <1>8, <3>1, <3>2, Zenon DEF Launched
      <3>4. browsers' \in Seq(S)
        BY <3>3
      <3> QED BY <3>1, <3>4, Zenon
    <2>3. Clean(call[c]) => CleanStep(c)
      BY <1>2, <1>8, LaunchedClean, ZenonT(60)
    <2> QED BY <1>5, <2>1, <2>2, <2>3, Zenon
  <1>9. ASSUME NEW c \in Slots, BrowserClosed(c) PROVE SerialInv'
    <2>1. call[c].at # "idle" /\ \E x : Go(c, x)
      <3>1. call[c].at = "closeBrowser" /\ \E x : Go(c, x)
        BY <1>9, Zenon DEF BrowserClosed, EndReset, Done
      <3> QED BY <3>1
    <2>2. browsers' \in Seq(BOOLEAN)
      <3>1. PICK S : S = BOOLEAN
        OBVIOUS
      <3>2. PICK u : u = FALSE
        OBVIOUS
      <3>3. browsers \in Seq(S) /\ u \in S
        BY <1>2, <3>1, <3>2, Zenon
      <3>5. PICK b : browsers' = [browsers EXCEPT ![b] = u]
        BY <1>9, <3>2, Zenon DEF BrowserClosed
      <3>6. [browsers EXCEPT ![b] = u] \in Seq(S)
        BY <3>3, SeqExcept
      <3>7. browsers' \in Seq(S)
        BY <3>5, <3>6, Zenon
      <3> QED BY <3>1, <3>7, Zenon
    <2>3. Clean(call[c]) => CleanStep(c)
      BY <1>9, ClosesClean, Zenon
    <2> QED BY <1>5, <2>1, <2>2, <2>3, Zenon
  <1>10. ASSUME NEW c \in Slots,
               \/ ContextReady(c) \/ PageReady(c) \/ Arrived(c) \/ Acted(c) \/ Popup(c)
               \/ Settled(c) \/ Read(c) \/ Downloaded(c) \/ Fetched(c) \/ Fails(c)
        PROVE  SerialInv'
    <2>1. \E x : Go(c, x)
      BY <1>10, AwaitGoes, Zenon DEF Goes
    <2>2. call[c].at # "idle"
      <3>1. call[c].at \in {"context", "newPage", "goto", "act", "popup", "settle", "read", "downloads", "fetch",
                           "launch"}
        BY <1>10, Zenon DEF ContextReady, PageReady, Arrived, Acted, Popup, Settled, Read, Downloaded, Fetched,
                            Fails
      <3> QED BY <3>1
    <2>3. UNCHANGED browsers
      BY <1>10, Zenon DEF ContextReady, PageReady, Arrived, Acted, Popup, Settled, Read, Downloaded, Fetched,
                          Fails, runtimeVars
    <2>4. Clean(call[c]) => CleanStep(c)
      BY <1>10, ContextClean, PageReadyClean, AwaitLight, ActedClean, PopupClean, FailsClean, ZenonT(60)
    <2> QED BY <1>3, <1>5, <2>1, <2>2, <2>3, <2>4, ZenonT(60)
  <1>11. ASSUME NEW c \in Slots, Dropped(c) \/ ContextClosed(c) PROVE SerialInv'
    <2>1. PICK x : Go(c, x)
      BY <1>11, Zenon DEF Dropped, ContextClosed, ResetLiveRuntime, EndReset, Done
    <2>2. call[c].at # "idle"
      <3>1. call[c].at \in {"drop", "closeContext"}
        BY <1>11, Zenon DEF Dropped, ContextClosed
      <3> QED BY <3>1
    <2>3. browsers' \in Seq(BOOLEAN)
      BY <1>3, <1>11, Zenon DEF Dropped, ContextClosed
    <2>4. Clean(call[c]) => CleanStep(c)
      BY <1>2, <1>11, DroppedClean, ClosesClean, Zenon
    <2> QED BY <1>5, <2>1, <2>2, <2>3, <2>4, Zenon
  <1>12. ASSUME NEW c \in Slots, NEW h \in OpenTabs,
               \/ Focus(c, h) \/ Screenshot(c, h) \/ Inspect(c, h)
               \/ Close(c, h) \/ Reload(c, h) \/ Snapshot(c, h)
               \/ Forms(c, h) \/ Products(c, h)
               \/ Login(c, h) \/ Mfa(c, h) \/ Challenge(c, h)
               \/ Wait(c, h) \/ WaitForRequest(c, h) \/ Scroll(c, h) \/ Evaluate(c, h)
               \/ Hover(c, h) \/ Select(c, h) \/ Upload(c, h)
               \/ Fill(c, h) \/ Submit(c, h) \/ Click(c, h)
               \/ \E url \in Urls : Navigate(c, h, url)
               \/ \E op \in {"back", "forward"} : Move(c, h, op)
        PROVE  SerialInv'
    <2>1. PICK x : Go(c, x)
      BY <1>12, AnyTabCallGoes, Zenon DEF Goes
    <2>2. Begin(c) /\ UNCHANGED browsers
      BY <1>12, TabCallBegins, Zenon
    <2>3. Clean(Idle) => CleanStep(c)
      BY <1>2, <1>12, AnyTabCallClean, Zenon
    <2> QED BY <1>4, <2>1, <2>2, <2>3, Zenon
  <1>13. ASSUME NEW p \in DOMAIN page, PageCloses(p) PROVE SerialInv'
    BY <1>13, LostClean, Zenon DEF PageCloses
  <1>14. ASSUME NEW b \in DOMAIN browsers, BrowserDies(b) PROVE SerialInv'
    BY <1>14, LostClean, Zenon DEF BrowserDies
  <1>15. CASE UNCHANGED vars
    BY <1>15, UnchangedSerial, Zenon
  <1> QED BY <1>6, <1>7, <1>8, <1>9, <1>10, <1>11, <1>12, <1>13, <1>14, <1>15, Zenon DEF Next

LEMMA StartsSerial == Init => SerialInv
  <1> SUFFICES ASSUME Init PROVE SerialInv
    OBVIOUS
  <1>1. /\ tab = <<>> /\ tabs = {} /\ activeTabId = 0 /\ browsers = <<>> /\ page = <<>>
        /\ liveContext = 0 /\ overlap = FALSE /\ live = [i \in Ids |-> 0]
    BY Zenon DEF Init, TabsInit
  <1>2. \A c \in Slots : call[c].at = "idle"
    BY Zenon DEF Init, Idle
  <1>3. Current(Idle)
    BY <1>2, Zenon DEF Current, Busy
  <1>4. Idle.at = "idle"
    BY DEF Idle
  <1>5. DOMAIN tab = {} /\ DOMAIN page = {} /\ DOMAIN browsers = {}
    BY <1>1
  <1>6. Clean(Idle)
    <2>1. ActiveOK /\ MapOK /\ OwnOK(Idle) /\ RunOK
      BY <1>1, <1>5, Zenon DEF ActiveOK, MapOK, OwnOK, RunOK
    <2>2. StandOK(Idle)
      BY <1>4 DEF StandOK
    <2> QED BY <2>1, <2>2, Zenon DEF Clean
  <1>7. browsers \in Seq(BOOLEAN)
    BY <1>1
  <1>8. HasLast
    BY <1>1, <1>5, Zenon DEF HasLast
  <1> QED BY <1>1, <1>3, <1>6, <1>7, <1>8, Zenon DEF SerialInv

\* However many calls, tabs, pages and browsers there are: as long as no two
\* calls of browser-tool.ts overlapped, the tool is in order between two calls.
\* The active tab is one of the list, what is attached belongs to a tab of the
\* list, every page opened for a tab and still open is attached, and no browser
\* runs but the one the module holds, although calls fail at any await, pages
\* close and browsers die.
THEOREM SerialUse == Spec => []SerialUseIsClean
  <1>1. BrowserInv /\ SerialInv => SerialUseIsClean
    <2> SUFFICES ASSUME BrowserInv, SerialInv, ~ overlap, Busy = {} PROVE SerialUseIsClean!2
      BY Zenon DEF SerialUseIsClean
    <2>1. Clean(Idle)
      <3>1. PICK r : Current(r) /\ Clean(r)
        BY Zenon DEF SerialInv
      <3>2. r = Idle
        BY <3>1, Zenon DEF Current
      <3> QED BY <3>1, <3>2, Zenon
    <2>2. Idle.at # "drop"
      BY DEF Idle
    <2>3. DOMAIN live = Ids
      BY Zenon DEF BrowserInv, LiveOK
    <2>4. \A p \in DOMAIN page : page[p].own /\ page[p].open => p \in Range(live)
      BY <2>1, <2>2, <2>3, Zenon DEF Clean, OwnOK, Range
    <2> QED BY <2>1, <2>4, Zenon DEF Clean, ActiveOK, MapOK, RunOK, Listed
  <1> QED
    BY <1>1, StartsRight, NextKeeps, StartsLone, NextCleans, StartsSerial, NextSerial, TabsAreTold, PTL DEF Spec
=============================================================================
