------------------------------ MODULE MCGateway ------------------------------
(* Gateway on small sets of requests.                                      *)
EXTENDS Gateway
CONSTANTS a, i, n, e, s1

OneSession == [r \in Requests |-> s1]

Ready == {"onboarded", "routed"}
OtherRoute == {"crossSlot", "secondRoute"}
LocalFallbacks == {"localFallback", "localTimeoutFallback"}

\* Unconfigured, unrouted, remote with another route, and local with fewer and
\* fewer permissions.
EveryConfig ==
    {{}, {"onboarded"}, Ready, Ready \cup OtherRoute,
     Ready \cup OtherRoute \cup {"local"} \cup LocalFallbacks,
     Ready \cup OtherRoute \cup {"local", "localFallback"},
     Ready \cup OtherRoute \cup {"local"}}

\* With another route, or without.
RoutedConfigs == {Ready, Ready \cup OtherRoute}
=============================================================================
