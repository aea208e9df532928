------------------------------- MODULE MCSetup -------------------------------
(* The two parts of setting the program up, side by side: the credential     *)
(* dialogue with its vault, and the changes to config.json.  They share no   *)
(* state; a behaviour is one of the one or of the other.                     *)
EXTENDS SetupFlow, ConfigStore, TLC
CONSTANTS s1, mail, bank, cloud, local, own, p1,
    MaxWork       \* bound on dialogues and calls of the vault together

ServiceSymmetry == Permutations(Services)

Keyed == [credential |-> "apiKey", models |-> TRUE]

\* Configurations to begin with: none; one from before there was routing, with a
\* bare model name; a complete one, with a provider the catalog does not know.
Legacy == [EmptyConfig EXCEPT !.provider = cloud, !.providers[cloud] = Keyed,
                              !.models["default"] = "bare"]
Complete ==
    [provider |-> cloud, models |-> [s \in Slots |-> cloud],
     providers |-> [EmptyConfig.providers EXCEPT ![cloud] = Keyed,
                        ![own] = [credential |-> "token", models |-> FALSE]],
     routing |-> [s \in Slots |-> cloud], telegram |-> "set", protection |-> "on"]
SomeConfigs == {EmptyConfig, Legacy, Complete}

VARIABLE part

\* The part that is not looked at stays in one initial state.
Init ==
    /\ FlowInit /\ StoreInit
    /\ \/ part = "credentials" /\ disk.config = Legacy
       \/ part = "config"

Next ==
    \/ /\ part = "credentials" /\ FlowNext /\ UNCHANGED <<part, storeVars>>
       /\ Len(service') + Len(call') <= MaxWork
    \/ part = "config" /\ StoreNext /\ UNCHANGED <<part, flowVars>>

Spec == Init /\ [][Next]_<<part, flowVars, storeVars>>
=============================================================================
