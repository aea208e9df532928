----------------------------- MODULE ChatSocket -----------------------------
(***************************************************************************)
(* The WebSockets between the page of the web chat (ui/gateway.ts) and the *)
(* dashboard server (web/dashboard.ts).  A socket is a pair of FIFO        *)
(* channels; either side may lose it, and the other side learns of it      *)
(* later.  Until then it still reads what was sent before, and what it     *)
(* sends is lost.                                                          *)
(***************************************************************************)
EXTENDS Naturals, Sequences

CONSTANT MaxSockets      \* bound on the connections the page makes

ASSUME SocketAssumption == MaxSockets \in Nat \ {0}

VARIABLES
    link,    \* state of each socket
    up,      \* request frames on their way to the server
    down     \* response and event frames on their way to the page

socketVars == <<link, up, down>>

Sockets == 1..MaxSockets

LinkStates == {"unused", "opening", "open",
               "pageLeft",     \* closed by the page, the server has not seen it
               "serverLeft",   \* closed by the server, the page has not seen it
               "closed"}

SocketInit ==
    /\ link = [s \in Sockets |-> "unused"]
    /\ up = [s \in Sockets |-> <<>>]
    /\ down = [s \in Sockets |-> <<>>]

\* readyState is OPEN, as each side sees it.
PageSeesOpen(s) == link[s] \in {"open", "serverLeft"}
ServerSeesOpen(s) == link[s] \in {"open", "pageLeft"}

\* ws.send of the page, and sendWsFrame: to a side that left it goes nowhere.
PageSends(s, frames) ==
    up' = IF link[s] = "open" THEN [up EXCEPT ![s] = @ \o frames] ELSE up
ServerSends(s, frames) ==
    down' = IF link[s] = "open" THEN [down EXCEPT ![s] = @ \o frames] ELSE down

\* What the page's leaving and the server's leaving do to a socket.
LinkWithoutPage(s) ==
    CASE link[s] = "open" -> "pageLeft"
      [] link[s] \in {"opening", "serverLeft"} -> "closed"
      [] OTHER -> link[s]
LinkWithoutServer(s) ==
    CASE link[s] = "open" -> "serverLeft"
      [] link[s] \in {"opening", "pageLeft"} -> "closed"
      [] OTHER -> link[s]
=============================================================================
