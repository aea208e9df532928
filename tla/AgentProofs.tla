----------------------------- MODULE AgentProofs -----------------------------
(***************************************************************************)
(* What changes to config.json preserve, for every set of providers, slots *)
(* and pages, any number of changes and of crashes; and a turn of the      *)
(* agent, for every set of messages, calls and texts and every bound on    *)
(* rounds, batches and turns.                                              *)
(***************************************************************************)
EXTENDS AgentTurn, ConfigStore, TLAPS

Fields == {"provider", "models", "providers", "routing", "telegram", "protection"}

\* What the proofs need of the type of a configuration.
Shape(c) ==
    /\ Fields \subseteq DOMAIN c
    /\ DOMAIN c.providers = Providers /\ DOMAIN c.routing = Slots /\ DOMAIN c.models = Slots
    /\ c.provider \in Providers \cup {Nothing}
    /\ \A s \in Slots : /\ c.routing[s] \in Providers \cup {Nothing}
                       /\ c.models[s] \in Providers \cup {"bare", Nothing}
    /\ \A p \in Providers : c.providers[p] # Nothing => c.providers[p].credential \in Credentials

RoutesOK(c) == \A s \in Slots : Route(c, s) \in Configured(c) \cup {Nothing}

\* The route that a slot names for itself, other than through a bare model name.
Explicit(c, s) == IF c.routing[s] # Nothing THEN c.routing[s]
                  ELSE IF c.models[s] = "bare" THEN Nothing ELSE c.models[s]

\* A configuration says what the users were told: stronger than
\* SavesKeepEachOther in that a route that was told is the slot's own, which
\* changes of other slots and of "provider" cannot move.
Says(c, t) ==
    /\ {"providers", "telegram", "routing"} \subseteq DOMAIN t /\ DOMAIN t.routing = Slots
    /\ c.providers = t.providers /\ c.telegram = t.telegram
    /\ \A s \in Slots : t.routing[s] # Nothing => Explicit(c, s) = t.routing[s]

PictureShape(picture) ==
    /\ {"listed", "draft"} \subseteq DOMAIN picture /\ DOMAIN picture.draft = Slots
    /\ \A s \in Slots : picture.draft[s] \in Providers

\* A page that lists providers drafts routes to them only.
PictureOK(picture) ==
    picture.listed # {} => \A s \in Slots : picture.draft[s] \in picture.listed

-----------------------------------------------------------------------------
(* The operations on a configuration.                                      *)

LEMMA ProfileIsThere ==
    \A k \in Credentials : [credential |-> k, models |-> TRUE] # Nothing
  <1>1. ASSUME NEW k \in Credentials PROVE [credential |-> k, models |-> TRUE] \in Profiles
    <2>1. TRUE \in BOOLEAN
      OBVIOUS
    <2> QED
      BY <2>1, Zenon DEF Profiles
  <1> QED
    BY <1>1, ProfileAssumption

LEMMA ExplicitIsRoute ==
    ASSUME NEW c, NEW s \in Slots, Explicit(c, s) # Nothing
    PROVE  Route(c, s) = Explicit(c, s)
  BY DEF Explicit, Route, OwnRoute, PresetRoute

LEMMA EmptyShape == Shape(EmptyConfig) /\ RoutesOK(EmptyConfig)
  BY ConfigurationAssumption
  DEF Shape, Fields, EmptyConfig, RoutesOK, Route, OwnRoute, PresetRoute

LEMMA ToldIsSaid == ASSUME NEW c, Shape(c) PROVE Says(c, Told(c))
  BY DEF Says, Told, Explicit

\* Operations that leave routes and presets alone.
LEMMA SameRoutes ==
    ASSUME NEW c, NEW d, d.provider = c.provider, d.models = c.models, d.routing = c.routing
    PROVE  \A s \in Slots : Route(d, s) = Route(c, s) /\ Explicit(d, s) = Explicit(c, s)
  BY DEF Route, OwnRoute, PresetRoute, Explicit

LEMMA WithProviderOK ==
    ASSUME NEW c, Shape(c), NEW p \in Providers, NEW credential \in {"keep", "apiKey", "token"},
           NEW t
    PROVE  LET d == WithProvider(c, p, credential) IN
           /\ Shape(d)
           /\ RoutesOK(c) => RoutesOK(d)
           /\ Says(c, t) => Says(d, [t EXCEPT !.providers[p] = d.providers[p]])
  <1> DEFINE d == WithProvider(c, p, credential)
             had == IF c.providers[p] = Nothing THEN "none" ELSE c.providers[p].credential
             kind == IF credential = "keep" THEN had ELSE credential
             profile == [credential |-> kind, models |-> TRUE]
  <1>1. kind \in Credentials
    BY DEF Shape, Credentials
  <1>2. profile # Nothing /\ profile.credential \in Credentials
    BY <1>1, ProfileIsThere
  <1>3. d = [c EXCEPT !.providers[p] = profile]
    BY DEF WithProvider
  <1> HIDE DEF profile, d
  <1>4. /\ DOMAIN d = DOMAIN c
        /\ d.provider = c.provider /\ d.models = c.models /\ d.routing = c.routing
        /\ d.telegram = c.telegram
        /\ d.providers = [c.providers EXCEPT ![p] = profile]
    BY <1>3 DEF Shape, Fields
  <1>5. d.providers[p] = profile /\ \A q \in Providers \ {p} : d.providers[q] = c.providers[q]
    BY <1>4 DEF Shape
  <1>6. Shape(d)
    BY <1>2, <1>4, <1>5 DEF Shape
  <1>7. Configured(c) \subseteq Configured(d)
    BY <1>2, <1>5 DEF Configured
  <1>8. RoutesOK(c) => RoutesOK(d)
    BY <1>4, <1>7, SameRoutes DEF RoutesOK
  <1>9. Says(c, t) => Says(d, [t EXCEPT !.providers[p] = d.providers[p]])
    BY <1>4, <1>5, SameRoutes DEF Says
  <1> QED
    BY <1>6, <1>8, <1>9 DEF d

\* Operations that give every slot a route of its own or none.
LEMMA AllRouted ==
    ASSUME NEW d, NEW route, d.routing = route, d.models = route, d.provider = route["default"],
           \A s \in Slots : route[s] \in Providers \cup {Nothing}
    PROVE  \A s \in Slots : /\ Explicit(d, s) = route[s]
                            /\ Route(d, s) = IF route[s] # Nothing THEN route[s] ELSE route["default"]
  BY ConfigurationAssumption DEF Explicit, Route, OwnRoute, PresetRoute

LEMMA RouteType ==
    ASSUME NEW c, Shape(c), NEW s \in Slots PROVE Route(c, s) \in Providers \cup {Nothing}
  BY ConfigurationAssumption DEF Shape, Route, OwnRoute, PresetRoute

LEMMA PictureIsOK ==
    ASSUME NEW c, Shape(c), NEW d \in Preferred(c)
    PROVE  /\ PictureShape(Picture(c, d))
           /\ RoutesOK(c) => PictureOK(Picture(c, d))
  <1> DEFINE routes == {Route(c, s) : s \in Slots} \ {Nothing}
  <1>1. routes \subseteq Providers
    BY RouteType
  <1>2. "default" \in Slots /\ Catalogued \subseteq Providers
    BY ConfigurationAssumption
  <1>3. d \in Providers
    BY <1>1, <1>2 DEF Preferred, Configured
  <1>4. RoutesOK(c) => routes \subseteq Configured(c)
    BY DEF RoutesOK
  <1>5. RoutesOK(c) /\ Configured(c) # {} => d \in Configured(c)
    BY <1>2, <1>4 DEF Preferred
  <1>6. \A s \in Slots : Picture(c, d).draft[s] = IF Route(c, s) # Nothing THEN Route(c, s) ELSE d
    BY DEF Picture
  <1>7. PictureShape(Picture(c, d))
    BY <1>3, <1>6, RouteType DEF PictureShape, Picture
  <1>8. Picture(c, d).listed = Configured(c)
    BY DEF Picture
  <1>9. RoutesOK(c) => PictureOK(Picture(c, d))
    BY <1>5, <1>6, <1>8 DEF PictureOK, RoutesOK
  <1> QED
    BY <1>7, <1>9

\* What the users are told when p is deleted from c, which becomes d.
DeletedNews(c, p, d, t) ==
    [t EXCEPT !.providers[p] = Nothing,
              !.routing = [s \in Slots |-> IF @[s] \in Configured(c) \ {p} THEN @[s]
                                           ELSE d.routing[s]]]

LEMMA WithoutProviderOK ==
    ASSUME NEW c, Shape(c), NEW p \in Configured(c), NEW t, NEW first,
           first \in IF Configured(c) \ {p} = {} THEN {Nothing} ELSE Configured(c) \ {p}
    PROVE  LET d == WithoutProvider(c, p, first) IN
           /\ Shape(d)
           /\ RoutesOK(d)
           /\ Says(c, t) => Says(d, DeletedNews(c, p, d, t))
  <1> DEFINE d == WithoutProvider(c, p, first)
             left == [c.providers EXCEPT ![p] = Nothing]
             usable == first # Nothing /\ (first \in Catalogued \/ left[first].models)
             route == [s \in Slots |->
                          LET now == Route(c, s)
                          IN  IF now # Nothing /\ now # p /\ left[now] # Nothing THEN now
                              ELSE IF usable THEN first ELSE Nothing]
  <1>0. /\ DOMAIN left = Providers /\ left[p] = Nothing
        /\ \A q \in Providers \ {p} : left[q] = c.providers[q]
        /\ Configured(c) \subseteq Providers
        /\ \A s \in Slots : Route(c, s) \in Providers \cup {Nothing}
    BY RouteType DEF Shape, Configured
  <1>1. d = [c EXCEPT !.providers = left, !.routing = route, !.models = route,
                      !.provider = route["default"]]
    BY DEF WithoutProvider
  <1>2. ASSUME NEW s \in Slots
        PROVE  /\ route[s] \in (Configured(c) \ {p}) \cup {Nothing}
               /\ Route(c, s) \in Configured(c) \ {p} => route[s] = Route(c, s)
    <2> DEFINE now == Route(c, s)
    <2>1. route[s] = IF now # Nothing /\ now # p /\ left[now] # Nothing THEN now
                     ELSE IF usable THEN first ELSE Nothing
      OBVIOUS
    <2>2. now \in Providers \cup {Nothing}
      BY <1>0
    <2>3. first \in (Configured(c) \ {p}) \cup {Nothing}
      OBVIOUS
    <2> HIDE DEF now, route, left, usable
    <2>4. now # Nothing /\ now # p /\ left[now] # Nothing <=> now \in Configured(c) \ {p}
      BY <1>0, <2>2, ConfigurationAssumption DEF Configured
    <2> QED
      BY <2>1, <2>3, <2>4 DEF now
  <1>3. DOMAIN route = Slots
    OBVIOUS
  <1> HIDE DEF route, left, d
  <1>4. /\ DOMAIN d = DOMAIN c /\ d.telegram = c.telegram
        /\ d.providers = left /\ d.routing = route /\ d.models = route
        /\ d.provider = route["default"]
    BY <1>1 DEF Shape, Fields
  <1>5. \A s \in Slots : route[s] \in Providers \cup {Nothing}
    BY <1>0, <1>2
  <1>6. "default" \in Slots
    BY ConfigurationAssumption
  <1>7. Shape(d)
    BY <1>0, <1>3, <1>4, <1>5, <1>6 DEF Shape
  <1>8. Configured(d) = Configured(c) \ {p}
    BY <1>0, <1>4 DEF Configured
  <1>9. RoutesOK(d)
    BY <1>2, <1>4, <1>5, <1>6, <1>8, AllRouted DEF RoutesOK
  <1>10. ASSUME Says(c, t)
         PROVE  Says(d, DeletedNews(c, p, d, t))
    <2> DEFINE u == DeletedNews(c, p, d, t)
    <2>1. /\ DOMAIN u = DOMAIN t /\ u.telegram = t.telegram
          /\ u.providers = [t.providers EXCEPT ![p] = Nothing]
          /\ u.routing = [s \in Slots |-> IF t.routing[s] \in Configured(c) \ {p} THEN t.routing[s]
                                           ELSE d.routing[s]]
      BY <1>10 DEF Says, DeletedNews
    <2>2. u.providers = left
      BY <1>10, <2>1 DEF left, Says
    <2> HIDE DEF u
    <2>3. ASSUME NEW s \in Slots PROVE Explicit(d, s) = u.routing[s]
      <3>1. Explicit(d, s) = route[s]
        BY <1>4, <1>5, AllRouted
      <3>2. CASE t.routing[s] \in Configured(c) \ {p}
        <4>1. t.routing[s] # Nothing
          BY <1>0, <3>2, ConfigurationAssumption
        <4>2. Route(c, s) = t.routing[s]
          BY <1>10, <4>1, ExplicitIsRoute DEF Says
        <4> QED
          BY <1>2, <2>1, <3>1, <3>2, <4>2
      <3>3. CASE t.routing[s] \notin Configured(c) \ {p}
        BY <1>4, <2>1, <3>1, <3>3
      <3> QED
        BY <3>2, <3>3
    <2>4. Says(d, u)
      BY <1>4, <1>10, <2>1, <2>2, <2>3 DEF Says
    <2> QED
      BY <2>4 DEF u
  <1> QED
    BY <1>7, <1>9, <1>10 DEF d

LEMMA WithRoutesOK ==
    ASSUME NEW c, Shape(c), NEW t, NEW draft, DOMAIN draft = Slots,
           \A s \in Slots : draft[s] \in Providers
    PROVE  LET d == WithRoutes(c, draft) IN
           /\ Shape(d)
           /\ (\A s \in Slots : draft[s] \in Configured(c)) => RoutesOK(d)
           /\ Says(c, t) => Says(d, [t EXCEPT !.routing = draft])
  <1> DEFINE d == WithRoutes(c, draft)
  <1>1. /\ DOMAIN d = DOMAIN c /\ d.telegram = c.telegram /\ d.providers = c.providers
        /\ d.routing = draft /\ d.models = draft /\ d.provider = draft["default"]
    BY DEF WithRoutes, Shape, Fields
  <1> HIDE DEF d
  <1>2. \A s \in Slots : Explicit(d, s) = draft[s] /\ Route(d, s) = draft[s]
    BY <1>1, AllRouted, ConfigurationAssumption
  <1>3. Shape(d)
    BY <1>1, ConfigurationAssumption DEF Shape
  <1>4. (\A s \in Slots : draft[s] \in Configured(c)) => RoutesOK(d)
    BY <1>1, <1>2 DEF RoutesOK, Configured
  <1>5. Says(c, t) => Says(d, [t EXCEPT !.routing = draft])
    BY <1>1, <1>2 DEF Says
  <1> QED
    BY <1>3, <1>4, <1>5 DEF d

LEMMA WithCommandOK ==
    ASSUME NEW c, Shape(c), NEW t, NEW slots, NEW p \in Providers
    PROVE  LET d == WithCommand(c, slots, p) IN
           /\ Shape(d)
           /\ RoutesOK(c) /\ p \in Configured(c) => RoutesOK(d)
           /\ Says(c, t) =>
                 Says(d, [t EXCEPT !.routing = [s \in Slots |-> IF s \in slots THEN p ELSE @[s]]])
  <1> DEFINE d == WithCommand(c, slots, p)
  <1>1. /\ DOMAIN d = DOMAIN c /\ d.telegram = c.telegram /\ d.providers = c.providers
        /\ d.models = c.models /\ d.provider = p
        /\ d.routing = [s \in Slots |-> IF s \in slots THEN p ELSE c.routing[s]]
    BY DEF WithCommand, Shape, Fields
  <1> HIDE DEF d
  <1>2. "default" \in Slots /\ p # Nothing
    BY ConfigurationAssumption
  <1>3. Shape(d)
    BY <1>1 DEF Shape
  <1>4. ASSUME NEW s \in Slots
        PROVE  /\ OwnRoute(d, s) \in {p, OwnRoute(c, s)}
               /\ Explicit(d, s) = IF s \in slots THEN p ELSE Explicit(c, s)
    BY <1>1, <1>2 DEF OwnRoute, PresetRoute, Explicit
  <1>5. ASSUME RoutesOK(c), p \in Configured(c) PROVE RoutesOK(d)
    <2>1. \A s \in Slots : OwnRoute(c, s) # Nothing => Route(c, s) = OwnRoute(c, s)
      BY DEF Route
    <2>2. \A s \in Slots : OwnRoute(c, s) \in Configured(c) \cup {Nothing}
      BY <1>5, <2>1 DEF RoutesOK
    <2>3. Configured(d) = Configured(c)
      BY <1>1 DEF Configured
    <2>4. \A s \in Slots : OwnRoute(d, s) \in Configured(d) \cup {Nothing}
      BY <1>4, <1>5, <2>2, <2>3
    <2> QED
      BY <1>2, <2>4 DEF RoutesOK, Route
  <1>6. Says(c, t) =>
           Says(d, [t EXCEPT !.routing = [s \in Slots |-> IF s \in slots THEN p ELSE @[s]]])
    BY <1>1, <1>4 DEF Says
  <1> QED
    BY <1>3, <1>5, <1>6 DEF d

LEMMA TelegramOK ==
    ASSUME NEW c, Shape(c), NEW t
    PROVE  LET d == [c EXCEPT !.telegram = IF @ = "set" THEN "changed" ELSE "set"] IN
           /\ Shape(d)
           /\ RoutesOK(c) => RoutesOK(d)
           /\ Says(c, t) => Says(d, [t EXCEPT !.telegram = d.telegram])
  <1> DEFINE d == [c EXCEPT !.telegram = IF @ = "set" THEN "changed" ELSE "set"]
  <1>1. /\ DOMAIN d = DOMAIN c /\ d.providers = c.providers
        /\ d.models = c.models /\ d.provider = c.provider /\ d.routing = c.routing
    BY DEF Shape, Fields
  <1> HIDE DEF d
  <1>2. Shape(d)
    BY <1>1 DEF Shape
  <1>3. RoutesOK(c) => RoutesOK(d)
    BY <1>1, SameRoutes DEF RoutesOK, Configured
  <1>4. Says(c, t) => Says(d, [t EXCEPT !.telegram = d.telegram])
    BY <1>1, SameRoutes DEF Says
  <1> QED
    BY <1>2, <1>3, <1>4 DEF d

LEMMA EditsOK == ASSUME Shape(OnDisk), NEW d \in Edits PROVE Shape(d)
  BY DEF Edits, Shape, Fields

\* The wizard's result: routes to providers that are there; and nothing is
\* missing when they were all configured anew, one with a key, the profile files
\* are there and self-protection was not switched off.
LEMMA WithOnboardingOK ==
    ASSUME NEW c, Shape(c), NEW merged, DOMAIN merged = Providers, NEW telegram,
           NEW route \in [Slots -> Providers],
           \A p \in Providers : merged[p] # Nothing => merged[p].credential \in Credentials
    PROVE  LET d == WithOnboarding(c, merged, route, telegram) IN
           /\ Shape(d)
           /\ Configured(d) = {p \in Providers : merged[p] # Nothing}
           /\ \A s \in Slots : Route(d, s) = route[s]
           /\ d.providers = merged
           /\ c.protection # "off" => d.protection = "on"
  <1> DEFINE d == WithOnboarding(c, merged, route, telegram)
  <1>1. /\ DOMAIN d = DOMAIN c /\ d.providers = merged
        /\ d.routing = route /\ d.models = route /\ d.provider = route["default"]
        /\ c.protection # "off" => d.protection = "on"
    BY DEF WithOnboarding, Shape, Fields
  <1> HIDE DEF d
  <1>2. "default" \in Slots /\ Nothing \notin Providers
    BY ConfigurationAssumption
  <1>3. \A s \in Slots : Route(d, s) = route[s]
    BY <1>1, <1>2, AllRouted
  <1>4. Shape(d)
    BY <1>1, <1>2 DEF Shape
  <1> QED
    BY <1>1, <1>3, <1>4 DEF d, Configured

-----------------------------------------------------------------------------
(* The invariant.                                                          *)

WriterOK(r) ==
    /\ "at" \in DOMAIN r /\ r.at \in {"idle", "ready", "open", "contended"}
    /\ r.at # "idle" => {"kind", "next", "told"} \subseteq DOMAIN r /\ Shape(r.next)

ShapesOK ==
    /\ {"whole", "config"} \subseteq DOMAIN disk /\ Shape(disk.config)
    /\ DOMAIN writer = ConfigWriters /\ \A w \in ConfigWriters : WriterOK(writer[w])
    /\ DOMAIN page = Pages /\ \A g \in Pages : PictureShape(page[g])

\* One change at a time: who changes the file does so alone, the file says what
\* was told except while it is open, and the change says what will be told.
OneByOne ==
    ~ mixed =>
        /\ \A v, w \in ConfigWriters : writer[v].at # "idle" /\ writer[w].at # "idle" => v = w
        /\ \A w \in ConfigWriters : /\ writer[w].at # "contended"
                                    /\ writer[w].at # "idle" => Says(writer[w].next, writer[w].told)
        /\ (\A w \in ConfigWriters : writer[w].at \in {"idle", "ready"})
              => disk.whole /\ Says(disk.config, told)

RoutesInv ==
    ~ mixed /\ ~ misnamed =>
        /\ RoutesOK(disk.config)
        /\ \A w \in ConfigWriters : writer[w].at # "idle" => RoutesOK(writer[w].next)
        /\ \A g \in Pages : PictureOK(page[g])

WizardInv ==
    ~ mixed /\ ~ excuse =>
        /\ writer[Wizard].at # "idle" => MissingParts(writer[Wizard].next, userFile) = {}
        /\ report # "incomplete"

StoreInv == ShapesOK /\ OneByOne /\ RoutesInv /\ WizardInv

LEMMA OnDiskOK ==
    ASSUME StoreInv
    PROVE  /\ Shape(OnDisk)
           /\ ~ mixed /\ ~ misnamed => RoutesOK(OnDisk)
           /\ ~ mixed /\ BusyWriters = {} => OnDisk = disk.config /\ Says(OnDisk, told)
  <1>1. Shape(OnDisk) /\ (~ mixed /\ ~ misnamed => RoutesOK(OnDisk))
    BY EmptyShape DEF StoreInv, ShapesOK, RoutesInv, OnDisk
  <1>2. ~ mixed /\ BusyWriters = {} => disk.whole /\ Says(disk.config, told)
    BY DEF StoreInv, OneByOne, BusyWriters
  <1> QED
    BY <1>1, <1>2 DEF OnDisk

\* A change begins that computes a configuration with the properties above.
LEMMA Begins ==
    ASSUME StoreInv, NEW w \in ConfigWriters, NEW kind, NEW next, NEW news,
           BeginChange(w, kind, next, news), UNCHANGED <<disk, page, told>>,
           misnamed => misnamed',
           Shape(next),
           Says(OnDisk, told) => Says(next, news),
           ~ mixed /\ ~ misnamed' => RoutesOK(next),
           \/ w # Wizard /\ UNCHANGED <<userFile, report, excuse>>
           \/ w = Wizard /\ report' = "none"
              /\ (~ excuse' => MissingParts(next, userFile') = {})
    PROVE  StoreInv'
  <1> DEFINE job == [at |-> "ready", kind |-> kind, next |-> next,
                     told |-> IF mixed' THEN told ELSE news]
  <1>1. /\ DOMAIN writer = ConfigWriters
        /\ \A v \in ConfigWriters : WriterOK(writer[v])
    BY ZenonT(60) DEF StoreInv, ShapesOK
  <1>2. /\ DOMAIN writer' = ConfigWriters /\ writer'[w] = job
        /\ \A v \in ConfigWriters \ {w} : writer'[v] = writer[v]
    BY <1>1 DEF BeginChange
  <1>3. ~ mixed' => ~ mixed /\ BusyWriters = {}
    BY Zenon DEF BeginChange
  <1>4. ~ mixed' => Says(OnDisk, told) /\ disk.whole /\ \A v \in ConfigWriters : writer[v].at = "idle"
    BY <1>3, OnDiskOK, ZenonT(60) DEF BusyWriters, StoreInv, OneByOne
  <1>5. job.at = "ready" /\ job.next = next /\ (~ mixed' => job.told = news) /\ WriterOK(job)
    BY ZenonT(60) DEF WriterOK
  <1> HIDE DEF job
  <1>6. ShapesOK'
    BY <1>1, <1>2, <1>5, ZenonT(60) DEF StoreInv, ShapesOK
  <1>7. OneByOne'
    BY <1>2, <1>3, <1>4, <1>5, ZenonT(60) DEF StoreInv, OneByOne
  <1>8. RoutesInv'
    BY <1>2, <1>3, <1>4, <1>5 DEF StoreInv, RoutesInv
  <1>9. Wizard \in ConfigWriters
    BY ZenonT(60) DEF ConfigWriters
  <1>10. WizardInv'
    BY <1>2, <1>3, <1>4, <1>5, <1>9 DEF StoreInv, WizardInv
  <1> QED
    BY <1>6, <1>7, <1>8, <1>10 DEF StoreInv

LEMMA PageBeginsOK ==
    ASSUME StoreInv, NEW g \in Pages, NEW kind, NEW next, NEW news,
           PageBegins(g, kind, next, news), misnamed => misnamed', Shape(next),
           Says(OnDisk, told) => Says(next, news),
           ~ mixed /\ ~ misnamed' => RoutesOK(next)
    PROVE  StoreInv'
  <1>1. g \in ConfigWriters /\ g # Wizard
    BY StoreAssumption DEF ConfigWriters
  <1> QED
    BY <1>1, Begins DEF PageBegins

LEMMA OpenKeeps ==
    ASSUME StoreInv, NEW w \in ConfigWriters, OpenConfig(w) PROVE StoreInv'
  <1>1. /\ DOMAIN writer = ConfigWriters /\ writer[w].at = "ready"
        /\ \A v \in ConfigWriters : WriterOK(writer[v])
    BY DEF StoreInv, ShapesOK, OpenConfig
  <1>2. /\ DOMAIN writer' = ConfigWriters
        /\ \A v \in ConfigWriters :
              /\ DOMAIN writer'[v] = DOMAIN writer[v]
              /\ writer[v].at # "idle" => writer'[v].next = writer[v].next /\ writer'[v].told = writer[v].told
              /\ writer'[v].at = "idle" <=> writer[v].at = "idle"
              /\ writer'[v].at \in {"idle", "ready", "open", "contended"}
    BY <1>1 DEF OpenConfig, WriterOK, AtFile
  <1>3. /\ disk' = [whole |-> FALSE, config |-> EmptyConfig]
        /\ UNCHANGED <<userFile, page, report, told, mixed, misnamed, excuse>>
    BY ZenonT(60) DEF OpenConfig, storeHistory
  <1>4. ShapesOK'
    BY <1>1, <1>2, <1>3, EmptyShape, ZenonT(60) DEF StoreInv, ShapesOK, WriterOK
  <1>5. ~ mixed => AtFile = {}
    BY <1>1 DEF StoreInv, OneByOne, AtFile
  <1>6. ~ mixed => writer'[w].at = "open" /\ \A v \in ConfigWriters \ {w} : writer'[v] = writer[v]
    BY <1>1, <1>5, ZenonT(60) DEF OpenConfig, WriterOK
  <1>7. OneByOne'
    BY <1>1, <1>2, <1>3, <1>6, ZenonT(60) DEF StoreInv, OneByOne
  <1>8. RoutesInv'
    BY <1>2, <1>3, EmptyShape, ZenonT(60) DEF StoreInv, RoutesInv
  <1>9. WizardInv'
    BY <1>2, <1>3, ZenonT(60) DEF StoreInv, WizardInv, ConfigWriters
  <1> QED
    BY <1>4, <1>7, <1>8, <1>9 DEF StoreInv

LEMMA WriteKeeps ==
    ASSUME StoreInv, NEW w \in ConfigWriters, WriteConfig(w) PROVE StoreInv'
  <1> DEFINE c == IF disk'.whole THEN disk'.config ELSE EmptyConfig
  <1>1. /\ DOMAIN writer = ConfigWriters /\ writer[w].at \in {"open", "contended"}
        /\ \A v \in ConfigWriters : WriterOK(writer[v])
    BY ZenonT(60) DEF StoreInv, ShapesOK, WriteConfig, AtFile
  <1>2. /\ DOMAIN writer' = ConfigWriters /\ writer'[w] = Idle
        /\ \A v \in ConfigWriters \ {w} : writer'[v] = writer[v]
        /\ UNCHANGED <<userFile, mixed, misnamed, excuse>>
    BY <1>1 DEF WriteConfig
  <1>3. /\ WriterOK(Idle) /\ Idle.at = "idle"
    BY ZenonT(60) DEF WriterOK, Idle
  <1>4. \/ disk' = [whole |-> TRUE, config |-> writer[w].next]
        \/ writer[w].at = "contended" /\ disk' = [whole |-> FALSE, config |-> EmptyConfig]
    BY ZenonT(60) DEF WriteConfig
  <1>5. {"whole", "config"} \subseteq DOMAIN disk' /\ Shape(disk'.config) /\ Shape(c)
    BY <1>1, <1>4, EmptyShape DEF WriterOK
  <1>6. ~ mixed => /\ disk' = [whole |-> TRUE, config |-> writer[w].next] /\ c = writer[w].next
                   /\ told' = writer[w].told /\ Says(writer[w].next, writer[w].told)
                   /\ \A v \in ConfigWriters \ {w} : writer[v].at = "idle"
    BY <1>1, <1>4 DEF StoreInv, OneByOne, WriteConfig
  <1>7. UNCHANGED page \/ (w \in Pages /\ \E d \in Preferred(c) : page' = [page EXCEPT ![w] = Picture(c, d)])
    BY ZenonT(60) DEF WriteConfig
  <1>8. report' = IF w # Wizard THEN report
                  ELSE IF MissingParts(c, userFile) = {} THEN "onboarded" ELSE "incomplete"
    BY DEF WriteConfig
  <1>9. Wizard \in ConfigWriters
    BY ZenonT(60) DEF ConfigWriters
  <1> HIDE DEF c
  <1>10. DOMAIN page' = Pages /\ \A g \in Pages :
            \/ page'[g] = page[g]
            \/ PictureShape(page'[g]) /\ (RoutesOK(c) => PictureOK(page'[g]))
    BY <1>5, <1>7, PictureIsOK, SMTT(60) DEF StoreInv, ShapesOK
  <1>11. ShapesOK'
    BY <1>1, <1>2, <1>3, <1>5, <1>10, ZenonT(60) DEF StoreInv, ShapesOK
  <1>12. OneByOne'
    BY <1>2, <1>3, <1>6 DEF OneByOne
  <1>13. RoutesInv'
    BY <1>1, <1>2, <1>3, <1>6, <1>10 DEF StoreInv, RoutesInv
  <1>14. WizardInv'
    BY <1>1, <1>2, <1>3, <1>6, <1>8, <1>9, ZenonT(60) DEF StoreInv, WizardInv
  <1> QED
    BY <1>11, <1>12, <1>13, <1>14 DEF StoreInv

\* Writers that have not opened the file give up.
LEMMA GivingUpKeeps ==
    ASSUME StoreInv, UNCHANGED <<disk, userFile, page, report, told, misnamed, excuse>>,
           mixed => mixed', DOMAIN writer' = ConfigWriters,
           \A w \in ConfigWriters :
              \/ writer'[w] = writer[w]
              \/ writer'[w] = Idle /\ (mixed' \/ writer[w].at \in {"idle", "ready"})
    PROVE  StoreInv'
  <1>1. WriterOK(Idle) /\ Idle.at = "idle"
    BY DEF WriterOK, Idle
  <1>2. ShapesOK'
    BY <1>1, ZenonT(60) DEF StoreInv, ShapesOK
  <1>3. OneByOne'
    BY <1>1, ZenonT(60) DEF StoreInv, OneByOne
  <1>4. RoutesInv'
    BY <1>1 DEF StoreInv, RoutesInv
  <1>5. WizardInv'
    BY <1>1 DEF StoreInv, WizardInv, ConfigWriters
  <1> QED
    BY <1>2, <1>3, <1>4, <1>5 DEF StoreInv

LEMMA CrashKeeps == ASSUME StoreInv, ConfigCrash PROVE StoreInv'
  <1>1. \A w \in ConfigWriters : mixed' \/ writer[w].at \in {"idle", "ready"}
    BY Zenon DEF ConfigCrash, AtFile, StoreInv, ShapesOK, WriterOK
  <1> QED
    BY <1>1, GivingUpKeeps, Zenon DEF ConfigCrash

LEMMA CancelKeeps == ASSUME StoreInv, CancelOnboarding PROVE StoreInv'
  BY GivingUpKeeps DEF CancelOnboarding, StoreInv, ShapesOK, storeHistory

LEMMA LoadKeeps == ASSUME StoreInv, NEW g \in Pages, LoadSetup(g) PROVE StoreInv'
  <1>1. DOMAIN page' = Pages /\ \A h \in Pages :
            \/ page'[h] = page[h]
            \/ PictureShape(page'[h]) /\ (RoutesOK(OnDisk) => PictureOK(page'[h]))
    BY OnDiskOK, PictureIsOK DEF LoadSetup, StoreInv, ShapesOK
  <1>2. UNCHANGED <<disk, userFile, writer, report, told, mixed, misnamed, excuse>>
    BY SMTT(60) DEF LoadSetup, storeHistory
  <1>3. ShapesOK'
    BY <1>1, <1>2, ZenonT(60) DEF StoreInv, ShapesOK
  <1>4. OneByOne' /\ WizardInv'
    BY <1>2, ZenonT(60) DEF StoreInv, OneByOne, WizardInv
  <1>5. RoutesInv'
    BY <1>1, <1>2, OnDiskOK, ZenonT(60) DEF StoreInv, RoutesInv
  <1> QED
    BY <1>3, <1>4, <1>5, ZenonT(60) DEF StoreInv

LEMMA SaveProviderKeeps ==
    ASSUME StoreInv, NEW g \in Pages, NEW p \in Providers,
           NEW credential \in {"keep", "apiKey", "token"}, SaveProvider(g, p, credential)
    PROVE  StoreInv'
  <1> DEFINE next == WithProvider(OnDisk, p, credential)
             news == [told EXCEPT !.providers[p] = next.providers[p]]
  <1>1. PageBegins(g, "provider", next, news) /\ UNCHANGED misnamed
    BY DEF SaveProvider
  <1>2. /\ Shape(next) /\ (RoutesOK(OnDisk) => RoutesOK(next))
        /\ Says(OnDisk, told) => Says(next, news)
    BY OnDiskOK, WithProviderOK
  <1> HIDE DEF next, news
  <1> QED
    BY <1>1, <1>2, OnDiskOK, PageBeginsOK

LEMMA DeleteProviderKeeps ==
    ASSUME StoreInv, NEW g \in Pages, NEW p \in Providers, NEW first, DeleteProvider(g, p, first)
    PROVE  StoreInv'
  <1> DEFINE next == WithoutProvider(OnDisk, p, first)
             news == DeletedNews(OnDisk, p, next, told)
  <1>1. PageBegins(g, "delete", next, news) /\ UNCHANGED misnamed
    BY DEF DeleteProvider, DeletedNews
  <1>2. /\ p \in Configured(OnDisk) /\ Shape(OnDisk)
        /\ first \in IF Configured(OnDisk) \ {p} = {} THEN {Nothing} ELSE Configured(OnDisk) \ {p}
    BY OnDiskOK DEF DeleteProvider
  <1>3. Shape(next) /\ RoutesOK(next) /\ (Says(OnDisk, told) => Says(next, news))
    BY <1>2, WithoutProviderOK
  <1> HIDE DEF next, news
  <1> QED
    BY <1>1, <1>3, PageBeginsOK

LEMMA SaveRoutingKeeps ==
    ASSUME StoreInv, NEW g \in Pages, NEW slot \in Slots, NEW p \in Providers,
           SaveRouting(g, slot, p)
    PROVE  StoreInv'
  <1> DEFINE draft == [page[g].draft EXCEPT ![slot] = p]
             next == WithRoutes(OnDisk, draft)
             news == [told EXCEPT !.routing = draft]
  <1>0. PictureShape(page[g])
    BY DEF StoreInv, ShapesOK
  <1>1. DOMAIN draft = Slots /\ \A s \in Slots : draft[s] \in Providers
                                              /\ draft[s] \in {p, page[g].draft[s]}
                                              /\ (s = slot => draft[s] = p)
                                              /\ (s # slot => draft[s] = page[g].draft[s])
    BY <1>0 DEF PictureShape
  <1>2. /\ p \in page[g].listed \cup {page[g].draft[slot]}
        /\ PageBegins(g, "routing", next, news)
        /\ misnamed' = (misnamed \/ /\ page[g].listed # Configured(OnDisk) \/ page[g].listed = {}
                                    /\ \E s \in Slots : draft[s] \notin Configured(OnDisk))
    BY DEF SaveRouting
  <1> HIDE DEF draft
  <1>3. /\ Shape(next) /\ (Says(OnDisk, told) => Says(next, news))
        /\ (\A s \in Slots : draft[s] \in Configured(OnDisk)) => RoutesOK(next)
    BY <1>1, OnDiskOK, WithRoutesOK
  <1>4. ~ mixed /\ ~ misnamed => PictureOK(page[g])
    BY DEF StoreInv, RoutesInv
  <1>5. ~ mixed /\ ~ misnamed' => \A s \in Slots : draft[s] \in Configured(OnDisk)
    BY <1>1, <1>2, <1>4, Zenon DEF PictureOK
  <1> HIDE DEF next, news
  <1> QED
    BY <1>2, <1>3, <1>5, PageBeginsOK, Zenon

LEMMA SaveTelegramKeeps == ASSUME StoreInv, NEW g \in Pages, SaveTelegram(g) PROVE StoreInv'
  <1> DEFINE next == [OnDisk EXCEPT !.telegram = IF @ = "set" THEN "changed" ELSE "set"]
             news == [told EXCEPT !.telegram = next.telegram]
  <1>1. PageBegins(g, "telegram", next, news) /\ UNCHANGED misnamed
    BY DEF SaveTelegram
  <1>2. /\ Shape(next) /\ (RoutesOK(OnDisk) => RoutesOK(next))
        /\ Says(OnDisk, told) => Says(next, news)
    BY OnDiskOK, TelegramOK
  <1> HIDE DEF next, news
  <1> QED
    BY <1>1, <1>2, OnDiskOK, PageBeginsOK

LEMMA EditKeeps ==
    ASSUME StoreInv, NEW g \in Pages, NEW next \in Edits, EditConfig(g, next) PROVE StoreInv'
  <1>1. Shape(next) /\ Says(next, Told(next))
    BY OnDiskOK, EditsOK, ToldIsSaid
  <1>2. ~ misnamed' => RoutesOK(next)
    BY Zenon DEF EditConfig, RoutesOK
  <1> QED
    BY <1>1, <1>2, PageBeginsOK, Zenon DEF EditConfig

LEMMA CommandKeeps ==
    ASSUME StoreInv, NEW slots, NEW p \in Providers, ProviderCommand(slots, p) PROVE StoreInv'
  <1> DEFINE next == WithCommand(OnDisk, slots, p)
             news == [told EXCEPT !.routing = [s \in Slots |-> IF s \in slots THEN p ELSE @[s]]]
  <1>1. /\ BeginChange(Terminal, "command", next, news)
        /\ misnamed' = (misnamed \/ p \notin Configured(OnDisk))
        /\ UNCHANGED <<disk, userFile, page, report, told, excuse>>
    BY DEF ProviderCommand
  <1>2. /\ Shape(next) /\ (RoutesOK(OnDisk) /\ p \in Configured(OnDisk) => RoutesOK(next))
        /\ Says(OnDisk, told) => Says(next, news)
    BY OnDiskOK, WithCommandOK
  <1>3. Terminal \in ConfigWriters /\ Terminal # Wizard
    BY ZenonT(60) DEF ConfigWriters, Terminal, Wizard
  <1> HIDE DEF next, news
  <1> QED
    BY <1>1, <1>2, <1>3, OnDiskOK, Begins, Zenon

\* Nothing is missing after an onboarding that configured every provider anew.
LEMMA NothingMissing ==
    ASSUME NEW d, NEW added \in SUBSET Providers, NEW keyed \in SUBSET added, keyed # {},
           added \ keyed \subseteq Keyless,
           Configured(d) = added, d.protection = "on",
           \A p \in added : d.providers[p] = WizardProfile(p, keyed),
           \A s \in Slots : Route(d, s) \in added
    PROVE  MissingParts(d, TRUE) = {}
  <1>1. Nothing \notin added
    BY ConfigurationAssumption
  <1>2. \A p \in keyed : HasCredential(d, p)
    <2> SUFFICES ASSUME NEW p \in keyed PROVE HasCredential(d, p)
      OBVIOUS
    <2>0. p \in Configured(d) /\ d.providers[p] = WizardProfile(p, keyed)
      OBVIOUS
    <2>1. d.providers[p] # Nothing
      BY <2>0, ZenonT(60) DEF Configured
    <2>2. d.providers[p].credential = "apiKey"
      BY <2>0 DEF WizardProfile
    <2> QED
      BY <2>1, <2>2 DEF HasCredential
  <1> DEFINE routed == {Route(d, s) : s \in Slots} \ {Nothing}
  <1>3. routed \subseteq added
    OBVIOUS
  <1>4. \A p \in added \ Keyless : HasCredential(d, p)
    BY <1>2
  <1>5. \A s \in Slots : Route(d, s) # Nothing
    BY <1>1
  <1>6. \E p \in Providers : HasCredential(d, p)
    BY <1>2
  <1>7. added # {}
    BY ZenonT(60)
  <1> QED
    BY <1>3, <1>4, <1>5, <1>6, <1>7, ZenonT(60) DEF MissingParts

LEMMA OnboardKeeps == ASSUME StoreInv, RunOnboarding PROVE StoreInv'
  <1>1. PICK keep \in BOOLEAN, added \in SUBSET Catalogued, files \in BOOLEAN :
           \E keyed \in SUBSET added,
              route \in [Slots -> added \cup IF keep THEN Providers ELSE {}],
              telegram \in {OnDisk.telegram, "changed"} :
                 Onboard(keep, added, keyed, route, telegram, files)
    <2>1. (IF Configured(OnDisk) = {} THEN {FALSE} ELSE BOOLEAN) \subseteq BOOLEAN
      BY Zenon
    <2>2. PICK keep \in (IF Configured(OnDisk) = {} THEN {FALSE} ELSE BOOLEAN),
               added \in SUBSET Catalogued, files \in BOOLEAN :
            \E keyed \in SUBSET added,
               route \in [Slots -> added \cup IF keep THEN Providers ELSE {}],
               telegram \in {OnDisk.telegram} \cup IF files THEN {"changed"} ELSE {} :
                 Onboard(keep, added, keyed, route, telegram, files)
      BY Zenon DEF RunOnboarding
    <2>3. {OnDisk.telegram} \cup (IF files THEN {"changed"} ELSE {}) \subseteq {OnDisk.telegram, "changed"}
      BY Zenon
    <2> QED
      BY <2>1, <2>2, <2>3, Zenon
  <1>2. PICK keyed \in SUBSET added,
             route \in [Slots -> added \cup IF keep THEN Providers ELSE {}],
             telegram \in {OnDisk.telegram, "changed"} :
                Onboard(keep, added, keyed, route, telegram, files)
    BY <1>1, ZenonT(60)
  <1> DEFINE c == OnDisk
             old == IF keep THEN c.providers ELSE EmptyConfig.providers
             merged == [p \in Providers |-> IF p \in added THEN WizardProfile(p, keyed) ELSE old[p]]
             present == {p \in Providers : merged[p] # Nothing}
             next == WithOnboarding(c, merged, route, telegram)
  <1>3. /\ added \ keyed \subseteq Keyless
        /\ \/ keep /\ added = {} /\ route = [s \in Slots |-> Route(c, s)]
           \/ \A s \in Slots : route[s] \in present
        /\ BeginChange(Wizard, "wizard", next, Told(next))
        /\ UNCHANGED <<disk, page, told, misnamed>>
        /\ report' = "none"
    BY <1>2, ZenonT(60) DEF Onboard
  <1>4. userFile' = (userFile \/ files) /\ excuse' = (keep \/ ~ userFile' \/ c.protection = "off" \/ keyed = {})
    BY <1>2, Zenon DEF Onboard
  <1>5. Shape(c) /\ added \subseteq Providers /\ Nothing \notin Providers
    BY OnDiskOK, ConfigurationAssumption, ZenonT(60)
  <1>6. \A p \in Providers : /\ p \in added => merged[p] = WizardProfile(p, keyed)
                             /\ p \notin added => merged[p] = old[p]
    OBVIOUS
  <1>7. \A p \in Providers : WizardProfile(p, keyed) # Nothing /\ WizardProfile(p, keyed).credential \in Credentials
    BY ProfileIsThere, ZenonT(60) DEF WizardProfile, Credentials
  <1>8. \A p \in Providers : EmptyConfig.providers[p] = Nothing
    BY ZenonT(60) DEF EmptyConfig
  <1>9. DOMAIN merged = Providers
    BY ZenonT(60)
  <1> HIDE DEF merged, c
  <1>10. \A p \in Providers : merged[p] # Nothing => merged[p].credential \in Credentials
    BY <1>5, <1>6, <1>7, <1>8 DEF Shape
  <1>11. route \in [Slots -> Providers]
    BY <1>5, ZenonT(60)
  <1>12. /\ Shape(next) /\ Configured(next) = present /\ next.providers = merged
         /\ \A s \in Slots : Route(next, s) = route[s]
         /\ c.protection # "off" => next.protection = "on"
    BY <1>5, <1>9, <1>10, <1>11, WithOnboardingOK
  <1> HIDE DEF next
  <1>13. ~ mixed /\ ~ misnamed => RoutesOK(next)
    <2>1. CASE keep /\ added = {} /\ route = [s \in Slots |-> Route(c, s)]
      <3>1. present = Configured(c)
        BY <1>6, <2>1, ZenonT(60) DEF Configured
      <3>2. ~ mixed /\ ~ misnamed => RoutesOK(c)
        BY OnDiskOK, ZenonT(60) DEF c
      <3> QED
        BY <1>12, <2>1, <3>1, <3>2, ZenonT(60) DEF RoutesOK
    <2>2. CASE \A s \in Slots : route[s] \in present
      BY <1>12, <2>2 DEF RoutesOK
    <2> QED
      BY <1>3, <2>1, <2>2, ZenonT(60)
  <1>14. ASSUME ~ excuse' PROVE MissingParts(next, userFile') = {}
    <2>1. ~ keep /\ userFile' = TRUE /\ c.protection # "off" /\ keyed # {}
      <3>1. ~ keep /\ userFile' /\ c.protection # "off" /\ keyed # {}
        BY <1>4, <1>14, Zenon
      <3>2. userFile' \in BOOLEAN
        BY <1>4, Zenon
      <3> QED
        BY <3>1, <3>2
    <2>2. present = added
      BY <1>5, <1>6, <1>7, <1>8, <2>1
    <2>3. \A s \in Slots : route[s] \in present
      BY <1>3, <2>1, ZenonT(60)
    <2>4. /\ Configured(next) = added /\ next.protection = "on"
          /\ \A p \in added : next.providers[p] = WizardProfile(p, keyed)
          /\ \A s \in Slots : Route(next, s) \in added
      BY <1>5, <1>6, <1>12, <2>1, <2>2, <2>3, SMTT(60)
    <2>5. MissingParts(next, TRUE) = {}
      BY <1>3, <1>5, <2>1, <2>4, NothingMissing, Zenon
    <2> QED
      BY <2>1, <2>5, Zenon
  <1>15. Says(next, Told(next)) /\ Wizard \in ConfigWriters
    BY <1>12, ToldIsSaid DEF ConfigWriters
  <1> QED
    BY <1>3, <1>12, <1>13, <1>14, <1>15, Begins

-----------------------------------------------------------------------------
LEMMA StoreInvariant == StoreSpec => []StoreInv
  <1>1. StoreInit => StoreInv
    <2> SUFFICES ASSUME StoreInit PROVE StoreInv
      OBVIOUS
    <2>1. PICK c \in InitialConfigs :
            /\ disk = [whole |-> TRUE, config |-> c] /\ told = Told(c)
            /\ \E d \in Preferred(c) : page = [g \in Pages |-> Picture(c, d)]
      BY Zenon DEF StoreInit
    <2>2. Shape(c)
      BY StoreAssumption, ConfigurationAssumption DEF ConfigValues, Shape, Fields, Profiles
    <2>3. RoutesOK(c) /\ Says(c, told)
      BY <2>1, <2>2, StoreAssumption, ToldIsSaid, ZenonT(60) DEF RoutesOK
    <2>4. DOMAIN page = Pages /\ \A g \in Pages : PictureShape(page[g]) /\ PictureOK(page[g])
      BY <2>1, <2>2, <2>3, PictureIsOK, ZenonT(60)
    <2>5. WriterOK(Idle) /\ Idle.at = "idle"
      BY DEF WriterOK, Idle
    <2>6. DOMAIN writer = ConfigWriters /\ \A w \in ConfigWriters : writer[w] = Idle
      BY ZenonT(60) DEF StoreInit
    <2>7. ShapesOK /\ OneByOne /\ RoutesInv
      BY <2>1, <2>2, <2>3, <2>4, <2>5, <2>6, ZenonT(60) DEF ShapesOK, OneByOne, RoutesInv
    <2>8. WizardInv
      BY <2>5, <2>6 DEF StoreInit, WizardInv, ConfigWriters
    <2> QED
      BY <2>7, <2>8 DEF StoreInv
  <1>2. StoreInv /\ [StoreNext]_storeVars => StoreInv'
    <2> SUFFICES ASSUME StoreInv, [StoreNext]_storeVars PROVE StoreInv'
      BY ZenonT(60)
    <2>1. CASE UNCHANGED storeVars
      BY <2>1, ZenonT(60) DEF storeVars, StoreInv, ShapesOK, OneByOne, RoutesInv, WizardInv
    <2>2. CASE StoreNext
      BY <2>2, OpenKeeps, WriteKeeps, CrashKeeps, LoadKeeps, SaveTelegramKeeps, EditKeeps,
         SaveProviderKeeps, DeleteProviderKeeps, SaveRoutingKeeps, CommandKeeps, OnboardKeeps,
         CancelKeeps, ZenonT(60) DEF StoreNext
    <2> QED
      BY <2>1, <2>2
  <1> QED
    BY <1>1, <1>2, PTL DEF StoreSpec

\* Changes to config.json that follow one another lose nothing of each other,
\* from whichever of its five writers they come.
THEOREM SavesAreKept == StoreSpec => []SavesKeepEachOther
  <1>1. StoreInv => SavesKeepEachOther
    <2> SUFFICES ASSUME StoreInv, Quiet
                 PROVE  /\ disk.whole /\ disk.config.providers = told.providers
                        /\ disk.config.telegram = told.telegram
                        /\ \A s \in Slots : told.routing[s] # Nothing
                                             => Route(disk.config, s) = told.routing[s]
      BY ZenonT(60) DEF SavesKeepEachOther
    <2>1. disk.whole /\ Says(disk.config, told)
      BY ZenonT(60) DEF Quiet, BusyWriters, StoreInv, OneByOne
    <2> QED
      BY <2>1, ExplicitIsRoute, ZenonT(60) DEF Says
  <1> QED
    BY <1>1, StoreInvariant, PTL

\* Unless a user names an unknown provider, every route leads to a configured
\* one, also after deletions (handleDeleteSetupProvider).
THEOREM RoutesLeadSomewhere == StoreSpec => []RoutesNameProviders
  <1>1. StoreInv => RoutesNameProviders
    BY ZenonT(60) DEF StoreInv, RoutesInv, RoutesOK, RoutesNameProviders, Quiet
  <1> QED
    BY <1>1, StoreInvariant, PTL

\* An onboarding from scratch, with a key and the profile files, ends with the
\* status "onboarded" (runOnboarding, readOnboardingStatus).
THEOREM OnboardingCompletes == StoreSpec => []FreshOnboardingCompletes
  <1>1. StoreInv => FreshOnboardingCompletes
    BY DEF StoreInv, WizardInv, FreshOnboardingCompletes
  <1> QED
    BY <1>1, StoreInvariant, PTL

-----------------------------------------------------------------------------

LEMMA EmptyLength == Len(<<>>) = 0
  OBVIOUS

LEMMA TailShortens ==
  ASSUME NEW S, NEW s \in Seq(S), s # <<>>
  PROVE  Tail(s) \in Seq(S) /\ Len(Tail(s)) = Len(s) - 1
  OBVIOUS

\* Where the turn stands before its loop, and in it.
AutoPoints == {"autoOpen", "autoLogin", "autoMail", "autoMailAgain", "autoMfa"}
LoopPoints == {"enter", "request", "tools"} \cup AutoPoints

\* The loop runs below its limits, and a batch being run is not empty.
Limits ==
    /\ pc \in LoopPoints => round < MaxToolRounds /\ streak < StreakLimit
    /\ pc = "tools" => batch # <<>>

\* A completed, unverified change is recorded as such while the turn runs.
ChangeRecorded == pc # "idle" /\ unverified => needed /\ ~ satisfied

\* The code is awaited only when the loop is over, and for a challenge.
WaitsForChallenge ==
    /\ pc \in AutoPoints \cup {"request", "tools"} => ~ forceWait
    /\ pc # "idle" /\ forceWait => pendingMfa

\* An answer is there as soon as the loop has run.
AnswerKept ==
    /\ pc = "tools" => last.present
    /\ pc \in {"after", "finish"} => last.present \/ forceWait

TypeInv == TypeOK /\ Limits

LEMMA Constants ==
    /\ NoLogin \in LoginType
    /\ NothingSeen \in SeenType
    /\ NoAnswer \in AnswerType
    /\ NoResult \in LoginResults
    /\ <<>> \in Seq(Kinds) /\ Len(<<>>) = 0
  BY DEF NoLogin, LoginType, NothingSeen, SeenType, NoAnswer, AnswerType, TextClasses,
         NoResult, LoginResults

LEMMA TypeInit == Init => TypeInv
  <1> SUFFICES ASSUME Init PROVE TypeInv
    BY Zenon
  <1>1. FlagsOK
    BY Zenon DEF Init, FlagsOK
  <1>2. CountersOK
    BY BoundsAssumption DEF Init, CountersOK, StreakLimit, IdentityRetryLimit
  <1>3. DataOK
    BY Constants, Zenon DEF Init, DataOK, Points, Replies
  <1>4. Limits
    BY Zenon DEF Init, Limits, LoopPoints, AutoPoints
  <1> QED
    BY <1>1, <1>2, <1>3, <1>4, Zenon DEF TypeInv, TypeOK

\* What running a call leaves of the types of the variables it assigns.
LEMMA NoteType ==
    ASSUME NEW s \in SeenType, NEW kind, NEW ok \in BOOLEAN
    PROVE  Note(s, kind, ok) \in SeenType
  BY Zenon DEF Note, SeenType, OnBrowser

LEMMA ResultType ==
    ASSUME NEW kind, NEW res, NEW lr \in Results(kind, res)
    PROVE  lr \in LoginResults
  BY Constants, Zenon DEF Results

LEMMA RanTypes ==
    ASSUME FlagsOK, DataOK, NEW kind, NEW res, NEW lr \in LoginResults, Ran(kind, res, lr)
    PROVE  /\ needed' \in BOOLEAN /\ satisfied' \in BOOLEAN /\ shot' \in BOOLEAN
           /\ pendingMfa' \in BOOLEAN /\ unverified' \in BOOLEAN
           /\ asked' \subseteq Prompts
           /\ seen' \in SeenType
           /\ loginState' \in LoginType
  <1>1. needed' \in BOOLEAN /\ satisfied' \in BOOLEAN
    BY Zenon DEF Ran, RegisterSignal, FlagsOK
  <1>2. asked' \subseteq Prompts
    BY Zenon DEF Ran, RegisterSignal, DataOK
  <1>3. shot' \in BOOLEAN
    BY Zenon DEF Ran, FlagsOK
  <1>4. unverified' \in BOOLEAN
    BY Zenon DEF Ran, Observe, FlagsOK
  <1>5. pendingMfa' \in BOOLEAN
    <2>1. lr.requiresMfa \in BOOLEAN
      BY Zenon DEF LoginResults
    <2> QED
      BY <2>1, Zenon DEF Ran, UpdatePendingMfa, FlagsOK
  <1>6. seen' \in SeenType
    <2>1. PICK capture \in Captures(kind, res) :
             seen' = LET s == Note(seen, kind, res = "ok")
                     IN  IF capture = "none" THEN s ELSE Note(s, "screenshot", capture = "ok")
      BY Zenon DEF Ran
    <2>2. Note(seen, kind, res = "ok") \in SeenType
      BY NoteType, Zenon DEF DataOK
    <2> QED
      BY <2>1, <2>2, NoteType, Zenon
  <1>7. loginState' \in LoginType
    <2>1. [submitted |-> lr.submitted, mfaExpected |-> lr.mfaExpected] \in LoginType
      BY Zenon DEF LoginResults, LoginType
    <2> QED
      BY <2>1, Zenon DEF Ran, DataOK
  <1> QED
    BY <1>1, <1>2, <1>3, <1>4, <1>5, <1>6, <1>7, Zenon

\* The locals a turn starts with, and leaves when it ends.
LEMMA FreshFlags ==
    ASSUME NEW m, FreshLocals(m)
    PROVE  /\ needed' \in BOOLEAN /\ satisfied' \in BOOLEAN /\ forceWait' \in BOOLEAN
           /\ blocked' \in BOOLEAN /\ guardrail' \in BOOLEAN /\ autoLogin' \in BOOLEAN
           /\ shot' \in BOOLEAN
  <1>1. needed' \in BOOLEAN
    BY DEF FreshLocals
  <1>2. satisfied' \in BOOLEAN
    BY Zenon DEF FreshLocals
  <1>3. /\ forceWait' \in BOOLEAN /\ blocked' \in BOOLEAN /\ guardrail' \in BOOLEAN
        /\ autoLogin' \in BOOLEAN /\ shot' \in BOOLEAN
    BY Zenon DEF FreshLocals
  <1> QED
    BY <1>1, <1>2, <1>3, Zenon

LEMMA FreshCounters ==
    ASSUME NEW m, FreshLocals(m)
    PROVE  round' = 0 /\ identities' = 0 /\ streak' = 0 /\ batch' = <<>>
  BY Zenon DEF FreshLocals

LEMMA FreshData ==
    ASSUME NEW m, FreshLocals(m)
    PROVE  /\ asked' \subseteq Prompts
           /\ loginState' \in LoginType /\ seen' \in SeenType /\ last' \in AnswerType
  BY Constants, Zenon DEF FreshLocals

LEMMA ZeroCounters ==
    ASSUME turn' \in 0..MaxTurns,
           round' = 0, identities' = 0, streak' = 0, batch' = <<>>
    PROVE  CountersOK'
  BY BoundsAssumption DEF CountersOK, StreakLimit, IdentityRetryLimit

LEMMA EndTurnTypes ==
    ASSUME TypeInv, NEW r \in Replies, EndTurn(r), UNCHANGED turn, msg' \subseteq Intents,
           UNCHANGED <<pendingMfa, confirmed, waiting, unverified>>
    PROVE  TypeInv'
  <1> FreshLocals({})
    BY Zenon DEF EndTurn
  <1>1. FlagsOK'
    BY FreshFlags, Zenon DEF TypeInv, TypeOK, FlagsOK, EndTurn
  <1>2. CountersOK'
    BY FreshCounters, ZeroCounters, Zenon DEF TypeInv, TypeOK, CountersOK
  <1>3. DataOK'
    BY FreshData, Zenon DEF DataOK, EndTurn, Points
  <1>4. Limits'
    BY Zenon DEF EndTurn, Limits, LoopPoints, AutoPoints
  <1> QED
    BY <1>1, <1>2, <1>3, <1>4, Zenon DEF TypeInv, TypeOK

LEMMA BeginTurnTypes ==
    ASSUME TypeInv, NEW m \in Messages, BeginTurn(m)
    PROVE  TypeInv'
  <1>1. /\ turn' \in 0..MaxTurns
        /\ msg' \subseteq Intents
    BY InputsAssumption, BoundsAssumption DEF BeginTurn, TypeInv, TypeOK, CountersOK
  <1>2. /\ pendingMfa' \in BOOLEAN /\ unverified' \in BOOLEAN
        /\ UNCHANGED <<confirmed, waiting>>
    BY Zenon DEF BeginTurn
  <1>3. PICK q \in {{}, m} : FreshLocals(q)
    BY Zenon DEF BeginTurn, EndTurn
  <1>4. mfa' \in BOOLEAN /\ saved' \in BOOLEAN
    <2>1. CASE EndTurn("paused") \/ EndTurn("thrown")
      BY <2>1, Zenon DEF EndTurn
    <2>2. CASE ~ (EndTurn("paused") \/ EndTurn("thrown"))
      BY <1>2, <2>2, Zenon DEF BeginTurn, SavedServices
    <2> QED
      BY <2>1, <2>2, Zenon
  <1>5. pc' \in {"idle", "autoOpen", "autoLogin", "enter"} /\ reply' \in Replies
    BY Zenon DEF BeginTurn, EndTurn, Replies
  <1>6. FlagsOK'
    BY <1>2, <1>3, <1>4, FreshFlags, Zenon DEF FlagsOK, TypeInv, TypeOK
  <1>7. CountersOK'
    BY <1>1, <1>3, FreshCounters, ZeroCounters, Zenon
  <1>8. DataOK'
    BY <1>1, <1>3, <1>5, FreshData, Zenon DEF DataOK, Points
  <1>9. Limits'
    BY <1>3, <1>5, FreshCounters, BoundsAssumption DEF Limits, StreakLimit
  <1> QED
    BY <1>6, <1>7, <1>8, <1>9, Zenon DEF TypeInv, TypeOK

\* The variables of a call in the automatic login and in the retry.
LEMMA SyntheticTypes ==
    ASSUME TypeInv, NEW kind, NEW res, NEW lr \in LoginResults, Ran(kind, res, lr),
           UNCHANGED <<turnVars, ladderVars>>,
           forceWait' \in BOOLEAN, autoLogin' \in BOOLEAN,
           pc' \in {"autoLogin", "autoMail", "autoMailAgain", "autoMfa", "enter"}
              => pc \in LoopPoints,
           pc' \in {"autoLogin", "autoMail", "autoMailAgain", "autoMfa", "enter", "finish"}
    PROVE  TypeInv'
  <1> USE DEF turnVars, ladderVars
  <1>1. FlagsOK'
    BY RanTypes, Zenon DEF TypeInv, TypeOK, FlagsOK
  <1>2. CountersOK'
    BY Zenon DEF TypeInv, TypeOK, CountersOK
  <1>3. DataOK'
    BY RanTypes, Zenon DEF TypeInv, TypeOK, DataOK, Points
  <1>4. Limits'
    BY Zenon DEF TypeInv, Limits, LoopPoints, AutoPoints
  <1> QED
    BY <1>1, <1>2, <1>3, <1>4, Zenon DEF TypeInv, TypeOK

LEMMA AutoTypes ==
    ASSUME TypeInv, AutoOpen \/ AutoLogin \/ AutoMail \/ AutoMfa \/ RetryLogin
    PROVE  TypeInv'
  <1> USE DEF LoopPoints, AutoPoints
  <1>0. /\ forceWait \in BOOLEAN /\ autoLogin \in BOOLEAN
    BY Zenon DEF TypeInv, TypeOK, FlagsOK
  <1>1. CASE AutoOpen
    <2>1. PICK res : Ran("open", res, NoResult)
      BY <1>1, Zenon DEF AutoOpen
    <2> QED
      BY <1>0, <1>1, <2>1, SyntheticTypes, Constants, Zenon DEF AutoOpen
  <1>2. CASE AutoLogin
    <2>0. PICK res : \E lr \in Results("login", res) :
             Ran("login", res, lr) /\ autoLogin' = (res = "ok")
      BY <1>2, Zenon DEF AutoLogin
    <2>1. PICK lr \in LoginResults : Ran("login", res, lr) /\ autoLogin' = (res = "ok")
      BY <2>0, ResultType, Zenon
    <2>2. autoLogin' \in BOOLEAN
      BY <2>1, Zenon
    <2>3. forceWait' \in BOOLEAN
      BY <1>0, <1>2, Zenon DEF AutoLogin
    <2>4. pc' \in {"autoMail", "enter"} /\ pc = "autoLogin" /\ UNCHANGED <<turnVars, ladderVars>>
      BY <1>2, Zenon DEF AutoLogin
    <2> QED
      BY <2>1, <2>2, <2>3, <2>4, SyntheticTypes, Zenon
  <1>3. CASE AutoMail
    <2>1. PICK res : Ran("mail", res, NoResult)
      BY <1>3, Zenon DEF AutoMail
    <2>2. forceWait' \in BOOLEAN
      BY <1>3, Zenon DEF AutoMail
    <2>3. /\ pc' \in {"autoMfa", "autoMailAgain", "enter"} /\ pc \in {"autoMail", "autoMailAgain"}
          /\ UNCHANGED <<turnVars, ladderVars, autoLogin>>
      BY <1>3, Zenon DEF AutoMail
    <2> QED
      BY <1>0, <2>1, <2>2, <2>3, SyntheticTypes, Constants, Zenon
  <1>4. CASE AutoMfa
    <2>1. PICK res : Ran("mfa", res, NoResult)
      BY <1>4, Zenon DEF AutoMfa
    <2>2. forceWait' \in BOOLEAN
      BY <1>4, <2>1, RanTypes, Constants, Zenon DEF AutoMfa, TypeInv, TypeOK
    <2> QED
      BY <1>0, <1>4, <2>1, <2>2, SyntheticTypes, Constants, Zenon DEF AutoMfa
  <1>5. CASE RetryLogin
    <2>0. PICK res : \E lr \in Results("login", res) :
             Ran("login", res, lr) /\ forceWait' = (lr.requiresMfa /\ pendingMfa')
      BY <1>5, Zenon DEF RetryLogin
    <2>1. PICK lr \in LoginResults :
             Ran("login", res, lr) /\ forceWait' = (lr.requiresMfa /\ pendingMfa')
      BY <2>0, ResultType, Zenon
    <2>2. forceWait' \in BOOLEAN
      BY <2>1, Zenon
    <2>3. pc' = "finish" /\ UNCHANGED <<turnVars, ladderVars, autoLogin>>
      BY <1>5, Zenon DEF RetryLogin
    <2> QED
      BY <1>0, <2>1, <2>2, <2>3, SyntheticTypes, Zenon
  <1> QED
    BY <1>1, <1>2, <1>3, <1>4, <1>5, Zenon

LEMMA IdentityDue ==
    ASSUME NEW a, NEW found, Due("identity", a, found)
    PROVE  identities < IdentityRetryLimit
  BY Zenon DEF Due

LEMMA AnswerTypes ==
    ASSUME TypeInv, NEW a \in Answers, AnswerWithoutCalls(a)
    PROVE  TypeInv'
  <1> USE DEF keptVars, sharedVars
  <1>0. a \in AnswerType
    BY InputsAssumption, Zenon DEF Answers, AnswerType
  <1>1. FlagsOK'
    BY DEF AnswerWithoutCalls, TypeInv, TypeOK, FlagsOK
  <1>2. /\ round' \in 0..MaxToolRounds
        /\ identities' \in 0..IdentityRetryLimit
        /\ asked' \subseteq Prompts
        /\ pc' = "request" => round' < MaxToolRounds
        /\ pc' \in {"request", "after"}
    <2>0. /\ round \in 0..MaxToolRounds /\ round < MaxToolRounds
          /\ identities \in 0..IdentityRetryLimit
          /\ asked \subseteq Prompts
      BY Zenon DEF AnswerWithoutCalls, TypeInv, TypeOK, CountersOK, DataOK, Limits, LoopPoints
    <2>1. PICK found \in BOOLEAN :
             \/ pc' = "after" /\ UNCHANGED <<round, asked, identities>>
             \/ \E i \in 1..7 :
                   /\ FirstDue(i, a, found)
                   /\ NextRound
                   /\ asked' = asked \cup ({PromptOrder[i]} \cap OncePrompts)
                   /\ identities' = IF PromptOrder[i] = "identity" THEN identities + 1
                                    ELSE identities
      BY Zenon DEF AnswerWithoutCalls
    <2>2. CASE pc' = "after" /\ UNCHANGED <<round, asked, identities>>
      BY <2>0, <2>2, Zenon
    <2>3. CASE ~ (pc' = "after" /\ UNCHANGED <<round, asked, identities>>)
      <3>1. PICK i \in 1..7 :
               /\ Due(PromptOrder[i], a, found)
               /\ NextRound
               /\ asked' = asked \cup ({PromptOrder[i]} \cap OncePrompts)
               /\ identities' = IF PromptOrder[i] = "identity" THEN identities + 1
                                ELSE identities
        BY <2>1, <2>3, Zenon DEF FirstDue
      <3>2. PromptOrder[i] = "identity" => identities < IdentityRetryLimit
        BY <3>1, IdentityDue, Zenon
      <3>3. identities' \in 0..IdentityRetryLimit
        BY <2>0, <3>1, <3>2 DEF IdentityRetryLimit
      <3>4. asked' \subseteq Prompts
        BY <2>0, <3>1, Zenon DEF OncePrompts, Prompts
      <3> QED
        BY <2>0, <3>1, <3>3, <3>4, BoundsAssumption DEF NextRound
    <2> QED
      BY <2>2, <2>3, Zenon
  <1>3. CountersOK'
    BY <1>2, Zenon DEF AnswerWithoutCalls, TypeInv, TypeOK, CountersOK
  <1>4. DataOK'
    BY <1>0, <1>2, Zenon DEF AnswerWithoutCalls, TypeInv, TypeOK, DataOK, Points
  <1>5. Limits'
    BY <1>2, Zenon DEF AnswerWithoutCalls, TypeInv, Limits, LoopPoints, AutoPoints
  <1> QED
    BY <1>1, <1>3, <1>4, <1>5, Zenon DEF TypeInv, TypeOK

LEMMA BatchTypes ==
    ASSUME TypeInv, NEW a \in Answers, NEW calls \in Batches, AnswerWithCalls(a, calls)
    PROVE  TypeInv'
  <1> USE DEF keptVars, sharedVars
  <1>0. a \in AnswerType
    BY InputsAssumption, Zenon DEF Answers, AnswerType
  <1>1. FlagsOK'
    BY DEF AnswerWithCalls, TypeInv, TypeOK, FlagsOK
  <1>2. calls \in Seq(Kinds) /\ Len(calls) <= MaxBatch
    <2>1. PICK n \in 0..MaxBatch : calls \in [1..n -> Calls]
      BY Zenon DEF Batches
    <2> QED
      BY <2>1, InputsAssumption, BoundsAssumption
  <1>3. CountersOK'
    BY <1>2, Zenon DEF AnswerWithCalls, TypeInv, TypeOK, CountersOK
  <1>4. DataOK'
    BY <1>0, Zenon DEF AnswerWithCalls, TypeInv, TypeOK, DataOK, Points
  <1>5. Limits'
    BY Zenon DEF AnswerWithCalls, TypeInv, Limits, LoopPoints, AutoPoints
  <1> QED
    BY <1>1, <1>3, <1>4, <1>5, Zenon DEF TypeInv, TypeOK

LEMMA BlockCallTypes ==
    ASSUME TypeInv, BlockCall
    PROVE  TypeInv'
  <1> USE DEF keptVars
  <1>1. FlagsOK'
    BY Zenon DEF BlockCall, TypeInv, TypeOK, FlagsOK
  <1>2. CountersOK'
    <2>1. streak \in 0..StreakLimit /\ streak < StreakLimit
      BY Zenon DEF BlockCall, TypeInv, TypeOK, CountersOK, Limits, LoopPoints
    <2>2. streak' \in 0..StreakLimit
      BY <2>1 DEF BlockCall, StreakLimit
    <2>3. batch' = <<>> /\ UNCHANGED <<turn, round, identities>>
      BY Zenon DEF BlockCall
    <2> QED
      BY <2>2, <2>3, BoundsAssumption DEF TypeInv, TypeOK, CountersOK
  <1>3. DataOK'
    <2>1. seen' \in SeenType
      BY NoteType, Zenon DEF BlockCall, TypeInv, TypeOK, DataOK
    <2> QED
      BY <2>1, Zenon DEF BlockCall, TypeInv, TypeOK, DataOK, Points
  <1>4. Limits'
    BY Zenon DEF BlockCall, Limits, LoopPoints, AutoPoints
  <1> QED
    BY <1>1, <1>2, <1>3, <1>4, Zenon DEF TypeInv, TypeOK

\* The counters after an executed call, whichever way the batch goes on.
LEMMA RunCallCounters ==
    ASSUME TypeInv, pc = "tools", NEW res, NEW lr,
           MeetChallenge(lr) \/ PushResult(res), UNCHANGED <<turn, identities>>
    PROVE  CountersOK' /\ Limits' /\ pc' \in {"request", "tools", "after"}
  <1>0. /\ round \in 0..MaxToolRounds /\ round < MaxToolRounds
        /\ streak \in 0..StreakLimit /\ streak < StreakLimit
        /\ batch \in Seq(Kinds) /\ Len(batch) <= MaxBatch /\ batch # <<>>
        /\ turn \in 0..MaxTurns /\ identities \in 0..IdentityRetryLimit
    BY Zenon DEF TypeInv, TypeOK, CountersOK, Limits, LoopPoints
  <1> USE DEF CountersOK, Limits, LoopPoints, AutoPoints, NextRound, StreakLimit
  <1>1. CASE MeetChallenge(lr)
    BY <1>0, <1>1, BoundsAssumption DEF MeetChallenge
  <1>2. CASE PushResult(res)
    <2>1. streak' \in 0..StreakLimit
      BY <1>0, <1>2 DEF PushResult
    <2>2. CASE streak' >= StreakLimit
      <3>1. batch' = <<>> /\ pc' = "after" /\ UNCHANGED round
        BY <1>2, <2>1, <2>2 DEF PushResult
      <3> QED
        BY <1>0, <2>1, <3>1, BoundsAssumption
    <2>3. CASE streak' < StreakLimit
      <3>1. /\ batch' = Tail(batch)
            /\ IF Len(batch) = 1 THEN NextRound ELSE pc' = "tools" /\ UNCHANGED round
        BY <1>2, <2>1, <2>3 DEF PushResult
      <3>2. /\ Tail(batch) \in Seq(Kinds) /\ Len(Tail(batch)) = Len(batch) - 1
            /\ Len(batch) # 1 => Tail(batch) # <<>>
        <4>1. /\ Tail(batch) \in Seq(Kinds)
              /\ Len(Tail(batch)) = Len(batch) - 1
          BY <1>0, TailShortens, Zenon
        <4>2. Len(batch) \in Nat
          BY <1>0
        <4>3. Tail(batch) = <<>> => Len(Tail(batch)) = 0
          BY EmptyLength, Zenon
        <4>4. Tail(batch) = <<>> => Len(batch) = 1
          BY <4>1, <4>2, <4>3
        <4> QED
          BY <4>1, <4>4, Zenon
      <3> QED
        BY <1>0, <2>1, <2>3, <3>1, <3>2, BoundsAssumption, SMTT(60)
    <2> QED
      BY <2>1, <2>2, <2>3
  <1> QED
    BY <1>1, <1>2, Zenon

LEMMA RunCallTypes ==
    ASSUME TypeInv, RunCall
    PROVE  TypeInv'
  <1> USE DEF keptVars
  <1>0. PICK kind, res : \E lr \in Results(kind, res) :
           /\ Ran(kind, res, lr)
           /\ IF lr.requiresMfa THEN MeetChallenge(lr) ELSE PushResult(res)
    BY Zenon DEF RunCall
  <1>1. PICK lr \in LoginResults :
           /\ Ran(kind, res, lr)
           /\ MeetChallenge(lr) \/ PushResult(res)
    BY <1>0, ResultType, Zenon
  <1>2. FlagsOK'
    <2>1. waiting' \in BOOLEAN
      BY Zenon DEF RunCall
    <2>2. forceWait' \in BOOLEAN /\ guardrail' \in BOOLEAN
      BY <1>1, Zenon DEF MeetChallenge, PushResult, TypeInv, TypeOK, FlagsOK
    <2>3. UNCHANGED <<mfa, saved, confirmed, blocked, autoLogin>>
      BY Zenon DEF RunCall
    <2> QED
      BY <1>1, <2>1, <2>2, <2>3, RanTypes, Zenon DEF FlagsOK, TypeInv, TypeOK
  <1>3. CountersOK' /\ Limits' /\ pc' \in {"request", "tools", "after"}
    BY <1>1, RunCallCounters, Zenon DEF RunCall
  <1>4. DataOK'
    <2>1. UNCHANGED <<msg, last, reply>>
      BY Zenon DEF RunCall
    <2> QED
      BY <1>1, <1>3, <2>1, RanTypes, Zenon DEF DataOK, TypeInv, TypeOK, Points
  <1> QED
    BY <1>2, <1>3, <1>4, Zenon DEF TypeInv, TypeOK

\* The steps that touch neither the counters nor the result of a call.
LEMMA PlainTypes ==
    ASSUME TypeInv,
           UNCHANGED <<turn, round, identities, streak, batch>>,
           UNCHANGED <<msg, asked, loginState, seen>>,
           FlagsOK', last' \in AnswerType, pc' \in Points, reply' \in Replies,
           pc' \in LoopPoints => pc' # "tools" /\ pc \in LoopPoints
    PROVE  TypeInv'
  <1>1. CountersOK'
    BY Zenon DEF TypeInv, TypeOK, CountersOK
  <1>2. DataOK'
    BY Zenon DEF TypeInv, TypeOK, DataOK
  <1>3. Limits'
    BY Zenon DEF TypeInv, Limits, LoopPoints
  <1> QED
    BY <1>1, <1>2, <1>3, Zenon DEF TypeInv, TypeOK

LEMMA EnterLoopTypes == TypeInv /\ EnterLoop => TypeInv'
  <1> SUFFICES ASSUME TypeInv, EnterLoop PROVE TypeInv'
    BY Zenon
  <1>1. FlagsOK'
    <2>1. confirmed' \in BOOLEAN
      BY Zenon DEF EnterLoop, TypeInv, TypeOK, FlagsOK
    <2>2. waiting' \in BOOLEAN
      BY Zenon DEF EnterLoop, TypeInv, TypeOK, FlagsOK
    <2>3. /\ UNCHANGED <<mfa, saved, needed, satisfied, forceWait, blocked>>
          /\ UNCHANGED <<guardrail, autoLogin, shot, pendingMfa, unverified>>
      BY Zenon DEF EnterLoop, loopVars
    <2>4. FlagsOK
      BY Zenon DEF TypeInv, TypeOK
    <2> QED
      BY <2>1, <2>2, <2>3, <2>4, ZenonT(60) DEF FlagsOK
  <1>2. pc = "enter" /\ pc' \in {"after", "request"}
    BY Zenon DEF EnterLoop
  <1>3. /\ UNCHANGED <<turn, round, identities, streak, batch>>
        /\ UNCHANGED <<msg, asked, loginState, seen, last, reply>>
    BY Zenon DEF EnterLoop, loopVars
  <1> QED
    BY <1>1, <1>2, <1>3, PlainTypes, Zenon DEF TypeInv, TypeOK, DataOK, Points, LoopPoints, AutoPoints

LEMMA LeaveLoopTypes == TypeInv /\ LeaveLoop => TypeInv'
  <1> SUFFICES ASSUME TypeInv, LeaveLoop PROVE TypeInv'
    BY Zenon
  <1> USE DEF keptVars, sharedVars, loopVars
  <1>1. FlagsOK'
    BY DEF LeaveLoop, TypeInv, TypeOK, FlagsOK
  <1>2. /\ UNCHANGED <<turn, round, identities, streak, batch>>
        /\ UNCHANGED <<msg, asked, loginState, seen, last, reply>>
        /\ pc' = "finish"
    BY Zenon DEF LeaveLoop
  <1> QED
    BY <1>1, <1>2, PlainTypes, Zenon DEF TypeInv, TypeOK, DataOK, Points, LoopPoints, AutoPoints

LEMMA FinalizeTypes == TypeInv /\ Finalize => TypeInv'
  <1> SUFFICES ASSUME TypeInv, Finalize PROVE TypeInv'
    BY Zenon
  <1> USE DEF keptVars, sharedVars
  <1>1. FlagsOK'
    BY DEF Finalize, TypeInv, TypeOK, FlagsOK
  <1>2. /\ UNCHANGED <<turn, round, identities, streak, batch>>
        /\ UNCHANGED <<msg, asked, loginState, seen, reply>>
        /\ pc' = "save"
    BY Zenon DEF Finalize
  <1>3. last' \in AnswerType
    <2>1. last \in AnswerType
      BY Zenon DEF TypeInv, TypeOK, DataOK
    <2>2. Answers \subseteq AnswerType
      BY InputsAssumption, Zenon DEF Answers, AnswerType
    <2>3. [last EXCEPT !.present = TRUE] \in AnswerType
      BY <2>1, Zenon DEF AnswerType
    <2> QED
      BY <2>1, <2>2, <2>3, Zenon DEF Finalize
  <1> QED
    BY <1>1, <1>2, <1>3, PlainTypes, Zenon DEF TypeInv, TypeOK, DataOK, Points, LoopPoints, AutoPoints

LEMMA ExpiryTypes == TypeInv /\ ConfirmationExpires => TypeInv'
  <1> SUFFICES ASSUME TypeInv, ConfirmationExpires PROVE TypeInv'
    BY Zenon
  <1> USE DEF keptVars, loopVars
  <1>1. FlagsOK'
    <2>1. confirmed' \in BOOLEAN
      BY Zenon DEF ConfirmationExpires
    <2>2. UNCHANGED <<mfa, saved, needed, satisfied, forceWait, blocked, guardrail, autoLogin,
                      shot, pendingMfa, waiting, unverified>>
      BY Zenon DEF ConfirmationExpires
    <2> QED
      BY <2>1, <2>2, ZenonT(60) DEF TypeInv, TypeOK, FlagsOK
  <1>2. CountersOK' /\ Limits'
    BY Zenon DEF ConfirmationExpires, TypeInv, TypeOK, CountersOK, Limits
  <1>3. DataOK'
    BY Zenon DEF ConfirmationExpires, TypeInv, TypeOK, DataOK
  <1> QED
    BY <1>1, <1>2, <1>3, Zenon DEF TypeInv, TypeOK

LEMMA RejectTypes ==
    ASSUME TypeInv, NEW m \in Messages, RejectTurn(m)
    PROVE  TypeInv'
  <1> USE DEF loopVars
  <1>1. FlagsOK'
    BY DEF RejectTurn, TypeInv, TypeOK, FlagsOK
  <1>2. CountersOK' /\ Limits'
    BY BoundsAssumption DEF RejectTurn, TypeInv, TypeOK, CountersOK, Limits
  <1>3. DataOK'
    BY InputsAssumption, Zenon DEF RejectTurn, TypeInv, TypeOK, DataOK, Replies
  <1> QED
    BY <1>1, <1>2, <1>3, Zenon DEF TypeInv, TypeOK

LEMMA ComposedReply == ComposeReply \in Replies
  BY Zenon DEF ComposeReply, BaseReply, Replies

LEMMA EndTypes == TypeInv /\ (RequestFails \/ SaveFails \/ SaveAndReply) => TypeInv'
  <1> SUFFICES ASSUME TypeInv, RequestFails \/ SaveFails \/ SaveAndReply PROVE TypeInv'
    BY Zenon
  <1> USE DEF sharedVars
  <1>1. CASE RequestFails \/ SaveFails
    BY <1>1, EndTurnTypes, Zenon DEF RequestFails, SaveFails, Replies, TypeInv, TypeOK, DataOK, FlagsOK
  <1>2. CASE SaveAndReply
    BY <1>2, ComposedReply, EndTurnTypes, Zenon DEF SaveAndReply, TypeInv, TypeOK, DataOK
  <1> QED
    BY <1>1, <1>2, Zenon

LEMMA TypeStep == TypeInv /\ [Next]_vars => TypeInv'
  <1> SUFFICES ASSUME TypeInv, [Next]_vars PROVE TypeInv'
    BY Zenon
  <1>1. CASE Message
    BY <1>1, BeginTurnTypes, RejectTypes, Zenon DEF Message
  <1>2. CASE Request
    BY <1>2, AnswerTypes, BatchTypes, EndTypes, Zenon DEF Request
  <1>3. CASE AutoOpen \/ AutoLogin \/ AutoMail \/ AutoMfa \/ RetryLogin
    BY <1>3, AutoTypes, Zenon
  <1>4. CASE EnterLoop \/ LeaveLoop \/ Finalize \/ ConfirmationExpires
    BY <1>4, EnterLoopTypes, LeaveLoopTypes, FinalizeTypes, ExpiryTypes, Zenon
  <1>5. CASE BlockCall \/ RunCall
    BY <1>5, BlockCallTypes, RunCallTypes, Zenon
  <1>6. CASE SaveAndReply \/ SaveFails
    BY <1>6, EndTypes, Zenon
  <1>7. CASE UNCHANGED vars
    <2> USE <1>7 DEF vars, loopVars
    <2>1. FlagsOK'
      BY DEF TypeInv, TypeOK, FlagsOK
    <2>2. CountersOK' /\ Limits'
      BY Zenon DEF TypeInv, TypeOK, CountersOK, Limits
    <2>3. DataOK'
      BY Zenon DEF TypeInv, TypeOK, DataOK
    <2> QED
      BY <2>1, <2>2, <2>3, ZenonT(60) DEF TypeInv, TypeOK
  <1> QED
    BY <1>1, <1>2, <1>3, <1>4, <1>5, <1>6, <1>7, Zenon DEF Next, TurnStep

\* Every variable keeps its type and the loop's counters never exceed their
\* limits, however many rounds, calls and messages there are.
THEOREM TypeCorrect == Spec => []TypeOK
  <1>1. TypeInv => TypeOK
    BY Zenon DEF TypeInv
  <1> QED
    BY <1>1, TypeInit, TypeStep, PTL DEF Spec

-----------------------------------------------------------------------------
(* A change is verified before an outcome is reported.                     *)

\* A call keeps the record of changes right: it is this that lets the reply
\* be composed from completionVerificationNeeded and -Satisfied alone.
LEMMA RanRecords ==
    ASSUME NEW kind, NEW res, NEW lr, Ran(kind, res, lr),
           unverified => needed /\ ~ satisfied, unverified \in BOOLEAN
    PROVE  unverified' => needed' /\ ~ satisfied'
  <1> DEFINE ok == res = "ok"
  <1>1. /\ needed' = (needed \/ (ok /\ MutatesState(kind)))
        /\ satisfied' = IF ok /\ VerifiesState(kind) /\ (needed \/ MutatesState(kind)) THEN TRUE
                        ELSE IF ok /\ MutatesState(kind) THEN FALSE
                        ELSE satisfied
        /\ unverified' = IF ok /\ VerifiesState(kind) THEN FALSE
                         ELSE (unverified \/ (ok /\ MutatesState(kind)))
    BY Zenon DEF Ran, RegisterSignal, Observe
  <1> HIDE DEF ok
  <1> QED
    BY <1>1, Zenon

\* Only these replies report an outcome, and each needs the record to be clear.
LEMMA ClaimNeedsRecord ==
    ASSUME ComposeReply \in Claims
    PROVE  ~ needed \/ satisfied
  BY Zenon DEF ComposeReply, BaseReply, Claims

ClaimInv == ChangeRecorded /\ VerifiedBeforeClaim

LEMMA ClaimStep == TypeInv /\ ClaimInv /\ [Next]_vars => ClaimInv'
  <1> SUFFICES ASSUME TypeInv, ClaimInv, [Next]_vars PROVE ClaimInv'
    BY Zenon
  <1>0. unverified \in BOOLEAN
    BY Zenon DEF TypeInv, TypeOK, FlagsOK
  <1> USE DEF ClaimInv, ChangeRecorded, VerifiedBeforeClaim
  <1>1. ASSUME NEW m \in Messages, BeginTurn(m) PROVE ClaimInv'
    BY <1>1, Zenon DEF BeginTurn
  <1>2. ASSUME NEW m \in Messages, RejectTurn(m) PROVE ClaimInv'
    BY <1>2, Zenon DEF RejectTurn, Claims
  <1>3. ASSUME NEW kind, NEW res, NEW lr, Ran(kind, res, lr), pc # "idle", pc' # "idle"
        PROVE  ClaimInv'
    BY <1>0, <1>3, RanRecords, Zenon
  <1>4. CASE AutoOpen \/ AutoLogin \/ AutoMail \/ AutoMfa \/ RetryLogin
    BY <1>3, <1>4, Zenon DEF AutoOpen, AutoLogin, AutoMail, AutoMfa, RetryLogin
  <1>5. CASE RunCall
    BY <1>3, <1>5, Zenon DEF RunCall, MeetChallenge, PushResult, NextRound
  <1>6. CASE EnterLoop \/ LeaveLoop \/ Finalize \/ BlockCall \/ ConfirmationExpires
    <2>1. /\ UNCHANGED <<needed, satisfied, unverified, reply>>
          /\ pc' = "idle" <=> pc = "idle"
      <3>1. CASE EnterLoop
        BY <3>1, Zenon DEF EnterLoop, loopVars
      <3>2. CASE LeaveLoop
        BY <3>2, Zenon DEF LeaveLoop, loopVars
      <3>3. CASE Finalize
        BY <3>3, Zenon DEF Finalize
      <3>4. CASE BlockCall
        BY <3>4, Zenon DEF BlockCall
      <3>5. CASE ConfirmationExpires
        BY <3>5, Zenon DEF ConfirmationExpires, loopVars
      <3> QED
        BY <1>6, <3>1, <3>2, <3>3, <3>4, <3>5, Zenon
    <2> QED
      BY <2>1, Zenon
  <1>7. ASSUME NEW a, AnswerWithoutCalls(a) PROVE ClaimInv'
    BY <1>7, Zenon DEF AnswerWithoutCalls, NextRound
  <1>8. ASSUME NEW a, NEW calls, AnswerWithCalls(a, calls) PROVE ClaimInv'
    BY <1>8, Zenon DEF AnswerWithCalls
  <1>9. CASE RequestFails \/ SaveFails
    BY <1>9, Zenon DEF RequestFails, SaveFails, EndTurn, Claims
  <1>10. CASE SaveAndReply
    BY <1>10, ClaimNeedsRecord, Zenon DEF SaveAndReply, EndTurn
  <1>11. CASE UNCHANGED vars
    BY <1>11, Zenon DEF vars, loopVars
  <1> QED
    BY <1>1, <1>2, <1>4, <1>5, <1>6, <1>7, <1>8, <1>9, <1>10, <1>11, Zenon
       DEF Next, Message, TurnStep, Request

\* In every turn, a completed state-changing call is followed by a completed
\* verifying call before the reply reports an outcome.
THEOREM ClaimsAreVerified == Spec => []VerifiedBeforeClaim
  <1>1. Init => ClaimInv
    BY Zenon DEF Init, ClaimInv, ChangeRecorded, VerifiedBeforeClaim
  <1>2. ClaimInv => VerifiedBeforeClaim
    BY Zenon DEF ClaimInv
  <1> QED
    BY <1>1, <1>2, TypeInit, TypeStep, ClaimStep, PTL DEF Spec

-----------------------------------------------------------------------------
(* The code is asked for only while its challenge is registered; a refused *)
(* checkout ends the tool use; the loop leaves an answer behind.           *)

WaitInv ==
    /\ WaitsForChallenge
    /\ AskedCodeIsAwaited
    /\ BlockedEndsToolUse
    /\ AnswerKept

LEMMA AskNeedsWait ==
    ASSUME ComposeReply = "askCode"
    PROVE  forceWait
  BY Zenon DEF ComposeReply, BaseReply

\* A login result that asks for a code registers the challenge.
LEMMA ChallengeRegistered ==
    ASSUME NEW kind, NEW res, NEW lr \in Results(kind, res), lr.requiresMfa,
           Ran(kind, res, lr)
    PROVE  pendingMfa'
  <1>1. kind = "login" /\ res = "ok"
    BY SMTT(60) DEF Results, NoResult
  <1> QED
    BY <1>1, Zenon DEF Ran, UpdatePendingMfa

LEMMA WaitStep == TypeInv /\ WaitInv /\ [Next]_vars => WaitInv'
  <1> SUFFICES ASSUME TypeInv, WaitInv, [Next]_vars PROVE WaitInv'
    BY Zenon
  <1>0. /\ forceWait \in BOOLEAN /\ blocked \in BOOLEAN
        /\ pc \in Points
    BY Zenon DEF TypeInv, TypeOK, FlagsOK, DataOK
  <1> USE DEF WaitInv, WaitsForChallenge, AskedCodeIsAwaited, BlockedEndsToolUse, AnswerKept,
              AutoPoints
  <1>1. ASSUME NEW m \in Messages, BeginTurn(m) PROVE WaitInv'
    <2>1. forceWait' = FALSE /\ blocked' = FALSE
      BY <1>1, Zenon DEF BeginTurn, EndTurn, FreshLocals
    <2>2. pc' \in {"idle", "autoOpen", "autoLogin", "enter"} /\ reply' # "askCode"
      BY <1>1, Zenon DEF BeginTurn, EndTurn
    <2> QED
      BY <2>1, <2>2, Zenon
  <1>2. ASSUME NEW m \in Messages, RejectTurn(m) PROVE WaitInv'
    BY <1>2, Zenon DEF RejectTurn, loopVars
  <1>3. CASE AutoOpen
    BY <1>3, Zenon DEF AutoOpen, turnVars, ladderVars
  <1>4. CASE AutoLogin
    BY <1>0, <1>4, Zenon DEF AutoLogin, turnVars, ladderVars
  <1>5. CASE AutoMail
    BY <1>0, <1>5, Zenon DEF AutoMail, turnVars, ladderVars
  <1>6. CASE AutoMfa
    BY <1>0, <1>6, Zenon DEF AutoMfa, turnVars, ladderVars
  <1>7. CASE RetryLogin
    BY <1>0, <1>7, Zenon DEF RetryLogin, RetryDue, turnVars, ladderVars
  <1>8. CASE EnterLoop
    BY <1>0, <1>8, Zenon DEF EnterLoop, loopVars
  <1>9. CASE LeaveLoop
    BY <1>0, <1>9, Zenon DEF LeaveLoop, keptVars, sharedVars, loopVars
  <1>10. CASE Finalize
    BY <1>0, <1>10, Zenon DEF Finalize, sharedVars
  <1>11. CASE BlockCall
    BY <1>0, <1>11, Zenon DEF BlockCall
  <1>12. CASE RunCall
    <2>1. /\ pc = "tools" /\ UNCHANGED <<blocked, last, reply>>
          /\ ~ blocked /\ ~ forceWait /\ last.present
      BY <1>12, Zenon DEF RunCall
    <2>2. PICK kind, res : \E lr \in Results(kind, res) :
             /\ Ran(kind, res, lr)
             /\ IF lr.requiresMfa THEN MeetChallenge(lr) ELSE PushResult(res)
      BY <1>12, Zenon DEF RunCall
    <2>3. PICK lr \in Results(kind, res) :
             /\ Ran(kind, res, lr)
             /\ IF lr.requiresMfa THEN MeetChallenge(lr) ELSE PushResult(res)
      BY <2>2, Zenon
    <2>4. CASE lr.requiresMfa
      <3>1. pendingMfa'
        BY <2>3, <2>4, ChallengeRegistered, Zenon
      <3>2. \/ pc' \in {"request", "after"} /\ UNCHANGED forceWait
            \/ pc' = "after" /\ forceWait'
        BY <2>3, <2>4, Zenon DEF MeetChallenge, NextRound
      <3> QED
        BY <2>1, <3>1, <3>2
    <2>5. CASE ~ lr.requiresMfa
      <3>1. pc' \in {"request", "tools", "after"} /\ UNCHANGED forceWait
        BY <2>3, <2>5, Zenon DEF PushResult, NextRound
      <3> QED
        BY <2>1, <3>1, Zenon
    <2> QED
      BY <2>4, <2>5, Zenon
  <1>13. ASSUME NEW a \in Answers, AnswerWithoutCalls(a) PROVE WaitInv'
    BY <1>0, <1>13, Zenon DEF AnswerWithoutCalls, NextRound, Answers, sharedVars
  <1>14. ASSUME NEW a \in Answers, NEW calls, AnswerWithCalls(a, calls) PROVE WaitInv'
    BY <1>0, <1>14, Zenon DEF AnswerWithCalls, Answers, sharedVars
  <1>15. CASE RequestFails \/ SaveFails
    BY <1>15, Zenon DEF RequestFails, SaveFails, EndTurn, FreshLocals
  <1>16. CASE SaveAndReply
    BY <1>0, <1>16, AskNeedsWait, Zenon DEF SaveAndReply, EndTurn, FreshLocals, sharedVars
  <1>17. CASE ConfirmationExpires
    BY <1>17, Zenon DEF ConfirmationExpires, loopVars
  <1>18. CASE UNCHANGED vars
    BY <1>18, Zenon DEF vars, loopVars
  <1> QED
    BY <1>1, <1>2, <1>3, <1>4, <1>5, <1>6, <1>7, <1>8, <1>9, <1>10, <1>11, <1>12, <1>13,
       <1>14, <1>15, <1>16, <1>17, <1>18, ZenonT(60)
       DEF Next, Message, TurnStep, Request

LEMMA WaitInit == Init => WaitInv
  BY Zenon DEF Init, WaitInv, WaitsForChallenge, AskedCodeIsAwaited, BlockedEndsToolUse, AnswerKept,
         AutoPoints

\* The user is asked for a code after a login only while the session's
\* challenge is registered, so that the answer will be taken for the code.
THEOREM CodeIsAwaited == Spec => []AskedCodeIsAwaited
  <1>1. WaitInv => AskedCodeIsAwaited
    BY Zenon DEF WaitInv
  <1> QED
    BY <1>1, TypeInit, TypeStep, WaitInit, WaitStep, PTL DEF Spec

\* After a refused checkout action no call of the model is run in the turn.
THEOREM BlockedStops == Spec => []BlockedEndsToolUse
  <1>1. WaitInv => BlockedEndsToolUse
    BY Zenon DEF WaitInv
  <1> QED
    BY <1>1, TypeInit, TypeStep, WaitInit, WaitStep, PTL DEF Spec

\* "Provider did not return an assistant response." is unreachable.
THEOREM ResponseExists == Spec => []HasResponse
  <1>1. WaitInv => HasResponse
    BY Zenon DEF WaitInv, AnswerKept, HasResponse
  <1> QED
    BY <1>1, TypeInit, TypeStep, WaitInit, WaitStep, PTL DEF Spec

\* Only a message leaves idle.
LEMMA IdleUntilMessage ==
    ASSUME Next, pc = "idle", pc' # "idle"
    PROVE  \E m \in Messages : BeginTurn(m)
  <1>1. ~ TurnStep
    BY Zenon DEF TurnStep, AutoOpen, AutoLogin, AutoMail, AutoMfa, EnterLoop, Request, AnswerWithoutCalls,
       AnswerWithCalls, RequestFails, BlockCall, RunCall, RetryLogin, LeaveLoop, Finalize, SaveAndReply, SaveFails
  <1>2. ~ ConfirmationExpires
    BY Zenon DEF ConfirmationExpires
  <1>3. PICK m \in Messages : BeginTurn(m) \/ RejectTurn(m)
    BY <1>1, <1>2, Zenon DEF Next, Message
  <1>4. ~ RejectTurn(m)
    BY Zenon DEF RejectTurn
  <1> QED
    BY <1>3, <1>4, Zenon

\* The message with the code keeps the challenge, and goes to the loop with it.
LEMMA CodeStep ==
    ASSUME AskedCodeIsAwaited, Next, pc = "idle", reply = "askCode", pc' # "idle", "code" \in msg'
    PROVE  mfa' /\ pc' = "enter"
  <1>1. PICK m \in Messages : BeginTurn(m)
    BY IdleUntilMessage, Zenon
  <1>2. pendingMfa /\ "code" \in m
    BY <1>1, Zenon DEF AskedCodeIsAwaited, BeginTurn
  <1>3. pendingMfa'
    BY <1>1, <1>2, Zenon DEF BeginTurn, DropsChallenge
  <1> QED
    BY <1>1, <1>3, Zenon DEF BeginTurn, EndTurn

\* provider/run.ts: a message with a code that follows the question for it is taken as
\* the answer to the challenge, and never as a new request or a new login.
THEOREM CodeIsTaken == Spec => CodeContinuesChallenge
  <1>1. AskedCodeIsAwaited /\ [Next]_vars
        => [pc = "idle" /\ reply = "askCode" /\ pc' # "idle" /\ "code" \in msg' => mfa' /\ pc' = "enter"]_vars
    BY CodeStep, Zenon
  <1> QED
    BY <1>1, CodeIsAwaited, PTL DEF Spec, CodeContinuesChallenge

=============================================================================
