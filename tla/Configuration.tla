---------------------------- MODULE Configuration ----------------------------
(***************************************************************************)
(* config/state.ts: what config.json says about providers and routes, how  *)
(* a route is resolved, and what onboarding still lacks.  A route is       *)
(* reduced to its provider.                                                *)
(***************************************************************************)
EXTENDS Naturals, FiniteSets

CONSTANTS
    Providers,     \* provider ids
    Catalogued,    \* those of PROVIDER_CATALOG, which knows models for them
    Keyless,       \* those that can run without a credential (local-openai)
    Slots,         \* "default", "planning", "coding"
    Nothing        \* an optional field that is not there

ASSUME ConfigurationAssumption ==
    /\ Catalogued \subseteq Providers /\ Keyless \subseteq Providers
    /\ "default" \in Slots
    /\ Nothing \notin Providers /\ "bare" \notin Providers \cup {Nothing}

Credentials == {"none", "apiKey", "token", "oauthToken"}
Profiles == [credential : Credentials, models : BOOLEAN]

ASSUME ProfileAssumption == Nothing \notin Profiles

\* provider; models: a reference to a provider's model, a bare model name of
\* the provider above, or nothing; providers; routing; channels.telegram;
\* tools.selfProtection.
ConfigValues ==
    [provider : Providers \cup {Nothing},
     models : [Slots -> Providers \cup {"bare", Nothing}],
     providers : [Providers -> Profiles \cup {Nothing}],
     routing : [Slots -> Providers \cup {Nothing}],
     telegram : {"unset", "set", "changed"},
     protection : {"unset", "on", "off"}]

\* What readConfig makes of a missing, empty or unreadable file.
EmptyConfig ==
    [provider |-> Nothing, models |-> [s \in Slots |-> Nothing],
     providers |-> [p \in Providers |-> Nothing], routing |-> [s \in Slots |-> Nothing],
     telegram |-> "unset", protection |-> "unset"]

Configured(c) == {p \in Providers : c.providers[p] # Nothing}

\* resolveRouteFromModelPreset
PresetRoute(c, slot) == IF c.models[slot] = "bare" THEN c.provider ELSE c.models[slot]

\* The route of a slot itself, and resolveRoutingTarget with its fallbacks.
OwnRoute(c, slot) == IF c.routing[slot] # Nothing THEN c.routing[slot] ELSE PresetRoute(c, slot)
Route(c, slot) == IF OwnRoute(c, slot) # Nothing THEN OwnRoute(c, slot) ELSE OwnRoute(c, "default")

\* hasProviderCredential
HasCredential(c, p) == c.providers[p] # Nothing /\ c.providers[p].credential # "none"

\* readOnboardingStatus: what is missing.  userFile: user.md exists; the other
\* files are created by whoever looks.
MissingParts(c, userFile) ==
    LET routed == {Route(c, s) : s \in Slots} \ {Nothing} IN
    {x \in {"providers", "credentials", "routing", "routedProvider", "routedCredential",
            "selfProtection", "userFile"} :
        \/ x = "providers" /\ Configured(c) = {}
        \/ x = "credentials" /\ Configured(c) # {}
           /\ \A p \in Providers : ~ HasCredential(c, p)
        \/ x = "routing" /\ \E s \in Slots : Route(c, s) = Nothing
        \/ x = "routedProvider" /\ \E p \in routed : p \notin Configured(c)
        \/ x = "routedCredential"
           /\ \E p \in routed : p \in Configured(c) \ Keyless /\ ~ HasCredential(c, p)
        \/ x = "selfProtection" /\ c.protection # "on"
        \/ x = "userFile" /\ ~ userFile}

-----------------------------------------------------------------------------
(* What the operations make of a configuration.                            *)

\* Mutant: the provider that is saved replaces the others.
WithOnlyProvider(c, p, credential) ==
    [c EXCEPT !.providers = [q \in Providers |->
        IF q = p THEN [credential |-> credential, models |-> TRUE] ELSE Nothing]]

\* handlePutSetupProvider: the other providers stay; a credential that is given
\* replaces the one there was, whatever its kind.  The page always sends models.
WithProvider(c, p, credential) ==
    LET had == IF c.providers[p] = Nothing THEN "none" ELSE c.providers[p].credential
    IN  [c EXCEPT !.providers[p] =
            [credential |-> IF credential = "keep" THEN had ELSE credential, models |-> TRUE]]

\* Mutant: the models of the deleted provider's slots stay.
WithoutProviderOnly(c, p, first) ==
    [c EXCEPT !.providers[p] = Nothing,
              !.routing = [s \in Slots |-> IF @[s] = p THEN Nothing ELSE @[s]]]

\* handleDeleteSetupProvider: slots that resolved to a provider that stays keep
\* it, the others move to the first one left if a model is known for it.
WithoutProvider(c, p, first) ==
    LET left == [c.providers EXCEPT ![p] = Nothing]
        usable == first # Nothing /\ (first \in Catalogued \/ left[first].models)
        route == [s \in Slots |->
                     LET now == Route(c, s)
                     IN  IF now # Nothing /\ now # p /\ left[now] # Nothing THEN now
                         ELSE IF usable THEN first ELSE Nothing]
    IN  [c EXCEPT !.providers = left, !.routing = route, !.models = route,
                  !.provider = route["default"]]

\* handlePutSetupRouting: all slots at once.
WithRoutes(c, route) ==
    [c EXCEPT !.provider = route["default"], !.models = route, !.routing = route]

\* /provider of the terminal: some slots; the presets stay.
WithCommand(c, slots, p) ==
    [c EXCEPT !.provider = p,
              !.routing = [s \in Slots |-> IF s \in slots THEN p ELSE @[s]]]

\* Mutant: self-protection is left as it was.
WithAnswersOnly(c, profiles, route, telegram) ==
    [c EXCEPT !.providers = profiles, !.routing = route, !.models = route,
              !.provider = route["default"], !.telegram = telegram]

\* runOnboarding: providers and routes as answered, everything else kept, and
\* self-protection on unless it was switched off.
WithOnboarding(c, profiles, route, telegram) ==
    [c EXCEPT !.providers = profiles, !.routing = route, !.models = route,
              !.provider = route["default"], !.telegram = telegram,
              !.protection = IF @ = "off" THEN "off" ELSE "on"]
=============================================================================
