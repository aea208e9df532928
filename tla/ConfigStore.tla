----------------------------- MODULE ConfigStore -----------------------------
(***************************************************************************)
(* Those who change config.json: the setup pages of the dashboard          *)
(* (ui/app-setup.ts, web/dashboard.ts), its editor of the whole file       *)
(* (ui/app-config.ts), the terminal's /provider (tui/tui.ts) and the       *)
(* onboarding wizard (onboarding/onboard.ts).  Each reads the file,        *)
(* computes another configuration and writes it back (config/state.ts),    *)
(* without a lock; the editor and the wizard take a person's time between  *)
(* the two.                                                                *)
(***************************************************************************)
EXTENDS Configuration

CONSTANTS
    Pages,            \* open setup pages
    InitialConfigs,   \* configurations to begin with
    MaxSaves,         \* bound on changes begun
    MaxConfigCrashes  \* bound on ends of the process in the middle of them

VARIABLES
    disk,        \* config.json: [whole, config]
    userFile,    \* user.md exists
    writer,      \* what each writer is doing
    page,        \* each page's copy: the providers listed, the routing draft
    saves, configCrashes,
    report,      \* the wizard's last word: "none", "onboarded", "incomplete"
    \* History.
    told,        \* what the users were told is saved
    mixed,       \* two changes overlapped, or a crash cut the file short
    misnamed,    \* a change named a provider that was not configured, by a page
                 \* that was out of date or a user who could not know better
    excuse       \* the wizard's user left something out

storeVars == <<disk, userFile, writer, page, saves, configCrashes, report, told, mixed,
               misnamed, excuse>>
storeHistory == <<told, mixed, misnamed, excuse>>

Terminal == "terminal"
Wizard == "wizard"
ConfigWriters == Pages \cup {Terminal, Wizard}

ASSUME StoreAssumption ==
    /\ MaxSaves \in Nat /\ MaxConfigCrashes \in Nat
    /\ Pages \cap {Terminal, Wizard} = {}
    /\ InitialConfigs \subseteq ConfigValues
    /\ \A c \in InitialConfigs, s \in Slots : Route(c, s) \in Configured(c) \cup {Nothing}

Idle == [at |-> "idle"]

\* Each page's picture after a load: the providers, and every slot's route; a
\* slot without one gets the preferred provider, or the catalog's first.
Preferred(c) ==
    LET routes == {Route(c, s) : s \in Slots} \ {Nothing}
    IN  IF Route(c, "default") # Nothing THEN {Route(c, "default")}
        ELSE IF routes # {} THEN routes
        ELSE IF Configured(c) # {} THEN Configured(c)
        ELSE Catalogued
Picture(c, preferred) ==
    [listed |-> Configured(c),
     draft |-> [s \in Slots |-> IF Route(c, s) # Nothing THEN Route(c, s) ELSE preferred]]

\* What the users know to be saved.
Told(c) == [providers |-> c.providers, telegram |-> c.telegram,
            routing |-> [s \in Slots |-> IF c.routing[s] # Nothing THEN c.routing[s]
                                         ELSE IF c.models[s] = "bare" THEN Nothing
                                         ELSE c.models[s]]]

StoreInit ==
    /\ \E c \in InitialConfigs :
          /\ disk = [whole |-> TRUE, config |-> c]
          /\ told = Told(c)
          /\ \E d \in Preferred(c) : page = [g \in Pages |-> Picture(c, d)]
    /\ userFile = FALSE
    /\ writer = [w \in ConfigWriters |-> Idle]
    /\ saves = 0 /\ configCrashes = 0
    /\ report = "none"
    /\ mixed = FALSE /\ misnamed = FALSE /\ excuse = FALSE

-----------------------------------------------------------------------------
(* The file.                                                               *)

\* readConfig
OnDisk == IF disk.whole THEN disk.config ELSE EmptyConfig

AtFile == {w \in ConfigWriters : writer[w].at \in {"open", "contended"}}
BusyWriters == {w \in ConfigWriters : writer[w].at # "idle"}

\* A change begins: the file is read and the next configuration computed.
MayBegin(w) == writer[w] = Idle /\ saves < MaxSaves
BeginChange(w, kind, next, news) ==
    /\ MayBegin(w)
    /\ saves' = saves + 1
    /\ mixed' = (mixed \/ BusyWriters # {})
    /\ writer' = [writer EXCEPT ![w] = [at |-> "ready", kind |-> kind, next |-> next,
                                        told |-> IF mixed' THEN told ELSE news]]

\* writeConfig: writeFile truncates first.
OpenConfig(w) ==
    /\ writer[w].at = "ready"
    /\ writer' = [v \in ConfigWriters |->
                     IF v = w THEN [writer[v] EXCEPT !.at = IF AtFile = {} THEN "open"
                                                            ELSE "contended"]
                     ELSE IF v \in AtFile THEN [writer[v] EXCEPT !.at = "contended"]
                     ELSE writer[v]]
    /\ disk' = [whole |-> FALSE, config |-> EmptyConfig]
    /\ UNCHANGED <<userFile, page, saves, configCrashes, report, storeHistory>>

\* The text is written; two writers may leave a mixture, which does not parse.
\* The user is told: a page with the configuration read again, the wizard with
\* the status.
WriteConfig(w) ==
    /\ w \in AtFile
    /\ \/ disk' = [whole |-> TRUE, config |-> writer[w].next]
       \/ writer[w].at = "contended" /\ disk' = [whole |-> FALSE, config |-> EmptyConfig]
    /\ LET c == IF disk'.whole THEN disk'.config ELSE EmptyConfig
       IN  /\ \/ w \in Pages /\ writer[w].kind # "editor"
                 /\ \E d \in Preferred(c) : page' = [page EXCEPT ![w] = Picture(c, d)]
              \/ (w \notin Pages \/ writer[w].kind = "editor") /\ UNCHANGED page
           /\ report' = IF w # Wizard THEN report
                        ELSE IF MissingParts(c, userFile) = {} THEN "onboarded"
                        ELSE "incomplete"
    /\ told' = IF mixed THEN told ELSE writer[w].told
    /\ writer' = [writer EXCEPT ![w] = Idle]
    /\ UNCHANGED <<userFile, saves, configCrashes, mixed, misnamed, excuse>>

\* The process ends in the middle; the pages stay as they are.
ConfigCrash ==
    /\ configCrashes < MaxConfigCrashes /\ BusyWriters # {}
    /\ configCrashes' = configCrashes + 1
    /\ writer' = [w \in ConfigWriters |-> Idle]
    /\ mixed' = (mixed \/ AtFile # {})
    /\ UNCHANGED <<disk, userFile, page, saves, report, told, misnamed, excuse>>

-----------------------------------------------------------------------------
(* The setup pages.                                                        *)

\* loadSetupState
LoadSetup(g) ==
    /\ writer[g] = Idle
    /\ \E d \in Preferred(OnDisk) : page' = [page EXCEPT ![g] = Picture(OnDisk, d)]
    /\ UNCHANGED <<disk, userFile, writer, saves, configCrashes, report, storeHistory>>

PageBegins(g, kind, next, news) ==
    /\ BeginChange(g, kind, next, news)
    /\ UNCHANGED <<disk, userFile, page, configCrashes, report, told, excuse>>

\* saveSetupProvider and handlePutSetupProvider, with a credential of some kind or
\* none: a local server and an OAuth sign-in may do without.
SaveProvider(g, p, credential) ==
    /\ LET next == WithProvider(OnDisk, p, credential)
       IN  PageBegins(g, "provider", next, [told EXCEPT !.providers[p] = next.providers[p]])
    /\ UNCHANGED misnamed

\* deleteSetupProvider and handleDeleteSetupProvider; a provider that is not
\* there is an error.
DeleteProvider(g, p, first) ==
    LET left == Configured(OnDisk) \ {p}
        next == WithoutProvider(OnDisk, p, first)
    IN  /\ p \in page[g].listed /\ p \in Configured(OnDisk)
        /\ first \in IF left = {} THEN {Nothing} ELSE left
        /\ PageBegins(g, "delete", next,
              [told EXCEPT !.providers[p] = Nothing,
                           !.routing = [s \in Slots |-> IF @[s] \in left THEN @[s]
                                                        ELSE next.routing[s]]])
        /\ UNCHANGED misnamed

\* assignSetupRouteModel and saveSetupRouting, handlePutSetupRouting: a slot of
\* the draft is chosen among the providers listed, and the whole draft is saved;
\* the server takes it as it is.
SaveRouting(g, slot, p) ==
    LET draft == [page[g].draft EXCEPT ![slot] = p]
    IN  /\ p \in page[g].listed \cup {page[g].draft[slot]}
        /\ PageBegins(g, "routing", WithRoutes(OnDisk, draft),
                      [told EXCEPT !.routing = draft])
        /\ misnamed' = (misnamed \/ /\ page[g].listed # Configured(OnDisk) \/ page[g].listed = {}
                                    /\ \E s \in Slots : draft[s] \notin Configured(OnDisk))

\* saveSetupTelegram and handlePutSetupTelegram
SaveTelegram(g) ==
    LET next == [OnDisk EXCEPT !.telegram = IF @ = "set" THEN "changed" ELSE "set"]
    IN  /\ PageBegins(g, "telegram", next, [told EXCEPT !.telegram = next.telegram])
        /\ UNCHANGED misnamed

\* loadDashboardSettings, an edit, and saveConfigDraft with handlePutConfig: the
\* file becomes the text of the editor.
Edits == {[OnDisk EXCEPT !.protection = "off"]}
         \cup {[OnDisk EXCEPT !.routing["default"] = p] : p \in Providers}
EditConfig(g, next) ==
    /\ PageBegins(g, "editor", next, Told(next))
    /\ misnamed' = (misnamed \/ \E s \in Slots : Route(next, s) \notin Configured(next) \cup {Nothing})

-----------------------------------------------------------------------------
(* The terminal and the wizard.                                            *)

\* /provider: of a slot or of all; the provider must be known unless none is.
ProviderCommand(slots, p) ==
    /\ Configured(OnDisk) = {} \/ p \in Configured(OnDisk)
    /\ BeginChange(Terminal, "command", WithCommand(OnDisk, slots, p),
             [told EXCEPT !.routing = [s \in Slots |-> IF s \in slots THEN p ELSE @[s]]])
    /\ misnamed' = (misnamed \/ p \notin Configured(OnDisk))
    /\ UNCHANGED <<disk, userFile, page, configCrashes, report, told, excuse>>

\* configureProviderAuth: only a local server may do without a key.
WizardProfile(p, keyed) == [credential |-> IF p \in keyed THEN "apiKey" ELSE "none",
                            models |-> TRUE]

\* runOnboarding reads the configuration and asks: existing providers are kept
\* or dropped, some are configured, some of them with a key, the routes are kept
\* or chosen; the full scope also asks for telegram and writes the profile files,
\* which may be declined.
Onboard(keep, added, keyed, route, telegram, files) ==
    LET c == OnDisk
        old == IF keep THEN c.providers ELSE EmptyConfig.providers
        merged == [p \in Providers |-> IF p \in added THEN WizardProfile(p, keyed) ELSE old[p]]
        present == {p \in Providers : merged[p] # Nothing}
        next == WithOnboarding(c, merged, route, telegram)
    IN  /\ added \ keyed \subseteq Keyless
        /\ present # {}
        /\ \/ keep /\ added = {} /\ route = [s \in Slots |-> Route(c, s)]
           \/ \A s \in Slots : route[s] \in present
        /\ BeginChange(Wizard, "wizard", next, Told(next))
        /\ userFile' = (userFile \/ files)
        /\ report' = "none"
        /\ excuse' = (keep \/ ~ userFile' \/ c.protection = "off" \/ keyed = {})
        /\ UNCHANGED <<disk, page, configCrashes, told, misnamed>>

RunOnboarding ==
    /\ MayBegin(Wizard)
    /\ \E keep \in IF Configured(OnDisk) = {} THEN {FALSE} ELSE BOOLEAN,
          added \in SUBSET Catalogued, files \in BOOLEAN :
          \E keyed \in SUBSET added,
             route \in [Slots -> added \cup IF keep THEN Providers ELSE {}],
             telegram \in {OnDisk.telegram} \cup IF files THEN {"changed"} ELSE {} :
                Onboard(keep, added, keyed, route, telegram, files)

\* OnboardingCancelledError: nothing is saved.
CancelOnboarding ==
    /\ writer[Wizard].at = "ready"
    /\ writer' = [writer EXCEPT ![Wizard] = Idle]
    /\ UNCHANGED <<disk, userFile, page, saves, configCrashes, report, storeHistory>>

StoreNext ==
    \/ \E w \in ConfigWriters : OpenConfig(w) \/ WriteConfig(w)
    \/ ConfigCrash
    \/ \E g \in Pages :
          \/ LoadSetup(g) \/ SaveTelegram(g)
          \/ \E next \in Edits : EditConfig(g, next)
          \/ \E p \in Providers :
                \/ \E credential \in {"keep", "apiKey", "token"} : SaveProvider(g, p, credential)
                \/ \E first \in Providers \cup {Nothing} : DeleteProvider(g, p, first)
                \/ \E slot \in Slots : SaveRouting(g, slot, p)
    \/ \E p \in Providers, slots \in {Slots} \cup {{s} : s \in Slots} : ProviderCommand(slots, p)
    \/ RunOnboarding
    \/ CancelOnboarding

StoreSpec == StoreInit /\ [][StoreNext]_storeVars

-----------------------------------------------------------------------------
(* Properties.                                                             *)

Quiet == ~ mixed /\ BusyWriters = {}

\* Changes that follow one another lose nothing of each other: every provider,
\* the telegram settings and each slot's route are as the user last saved them,
\* whichever page, terminal or wizard saved them and whatever was changed since.
SavesKeepEachOther ==
    Quiet =>
        /\ disk.whole
        /\ disk.config.providers = told.providers
        /\ disk.config.telegram = told.telegram
        /\ \A s \in Slots : told.routing[s] # Nothing => Route(disk.config, s) = told.routing[s]

\* Unless a user names an unknown provider, every route leads to a
\* configured one: deleting a provider leaves no route to it, in the routing, in
\* the older presets or through a fallback, and an up-to-date page cannot make one.
RoutesNameProviders ==
    Quiet /\ ~ misnamed =>
        \A s \in Slots : Route(disk.config, s) \in Configured(disk.config) \cup {Nothing}

\* An onboarding that configures the providers anew, one of them with a
\* credential, and writes the profile files ends with the status "onboarded".
FreshOnboardingCompletes == ~ mixed /\ report = "incomplete" => excuse
=============================================================================
