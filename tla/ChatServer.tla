----------------------------- MODULE ChatServer -----------------------------
(***************************************************************************)
(* The dashboard server's side of the web chat (web/dashboard.ts): the     *)
(* connected clients, the subscription of each to the agent's events, and  *)
(* the handlers of frames, which other frames overtake while they await.   *)
(* A run of the agent is reduced to its end: it always ends (Gateway's     *)
(* EveryRequestAnswered).                                                  *)
(***************************************************************************)
EXTENDS ChatSocket

CONSTANT FreshKey    \* the random sessionKey of a new client

VARIABLES
    clientKey,   \* sessionKey of the client of each socket; 0: no client
    listeners,   \* subscriptions to the event bus: [sock, key]
    jobs,        \* handlers under way: [sock, method, id, key]
    started      \* history: messages handed to handleMessage, in order

serverVars == <<clientKey, listeners, jobs, started>>

ServerInit ==
    /\ clientKey = [s \in Sockets |-> 0]
    /\ listeners = {}
    /\ jobs = {}
    /\ started = <<>>

\* A response that refuses the request (ok: false) has key 0.
Response(f, key) == [type |-> "res", method |-> f.method, id |-> f.id, key |-> key]
Event(name, id) == [type |-> "event", method |-> name, id |-> id, key |-> 0]

\* unsubscribeEvents of the client of a socket.
Without(s) == {l \in listeners : l.sock # s}

\* bindClientEvents
Bind(s, key) == Without(s) \cup {[sock |-> s, key |-> key]}

\* "connection": the client starts in a session of its own.
Accept(s) ==
    /\ clientKey' = [clientKey EXCEPT ![s] = FreshKey]
    /\ listeners' = Bind(s, FreshKey)
    /\ UNCHANGED <<jobs, started>>

\* The frame's session becomes the client's.
Rebind(s, key) ==
    /\ clientKey' = [clientKey EXCEPT ![s] = key]
    /\ listeners' = Bind(s, key)

Begin(s, f) == jobs' = jobs \cup {[sock |-> s, method |-> f.method, id |-> f.id,
                                   key |-> f.key]}

\* handleWsMessage, up to its first await.
HandleFrame(s, f) ==
    \/ /\ f.method = "connect"
       /\ Begin(s, f)
       /\ UNCHANGED <<clientKey, listeners, down, started>>
    \/ /\ f.method = "chat.send"
       /\ Rebind(s, f.key)
       /\ ServerSends(s, <<Response(f, f.key), Event("sending", f.id)>>)
       /\ Begin(s, f)
       /\ started' = Append(started, f.id)
    \/ /\ f.method \in {"chat.history", "chat.inject"}
       /\ Rebind(s, f.key)
       /\ Begin(s, f)
       /\ UNCHANGED <<down, started>>
    \/ /\ f.method = "chat.abort"
       /\ ServerSends(s, <<Response(f, f.key), Event("done", f.id)>>)
       /\ UNCHANGED <<clientKey, listeners, jobs, started>>

ServerReceives(s) ==
    /\ ServerSeesOpen(s) /\ up[s] # <<>>
    /\ up' = [up EXCEPT ![s] = Tail(@)]
    /\ HandleFrame(s, Head(up[s]))
    /\ UNCHANGED link

\* Mutant: chat.done follows an answer only.
DoneAfterAnswer(j) ==
    CASE j.method = "chat.send" -> {<<Event("done", j.id)>>, <<>>}
      [] j.method = "chat.history" -> {<<Response(j, clientKey[j.sock])>>, <<Response(j, 0)>>}
      [] j.method = "connect" -> {<<Response(j, j.key)>>, <<Response(j, 0)>>}
      [] OTHER -> {<<Response(j, j.key)>>}

\* What a handler sends after its last await, displayed texts left out: chat.done
\* whether a message was answered, failed or was a heartbeat check, and with the
\* history the key the client has by now.  Reading a file may
\* fail; for chat.inject it makes no difference to the page.
Outcome(j) ==
    CASE j.method = "chat.send" -> {<<Event("done", j.id)>>}
      [] j.method = "chat.history" -> {<<Response(j, clientKey[j.sock])>>, <<Response(j, 0)>>}
      [] j.method = "connect" -> {<<Response(j, j.key)>>, <<Response(j, 0)>>}
      [] OTHER -> {<<Response(j, j.key)>>}

Finish(j) ==
    /\ jobs' = jobs \ {j}
    /\ \E frames \in Outcome(j) : ServerSends(j.sock, frames)
    /\ UNCHANGED <<link, up, clientKey, listeners, started>>

\* "close" and "error" of a client's socket.
Close(s) ==
    /\ clientKey' = [clientKey EXCEPT ![s] = 0]
    /\ listeners' = Without(s)

ClientGone(s) ==
    /\ ServerSeesOpen(s)
    /\ link' = [link EXCEPT ![s] = LinkWithoutServer(s)]
    /\ up' = [up EXCEPT ![s] = <<>>]
    /\ Close(s)
    /\ UNCHANGED <<down, jobs, started>>

\* close() of the server and the end of its process, which is then restarted.
Restart ==
    /\ link' = [s \in Sockets |-> LinkWithoutServer(s)]
    /\ up' = [s \in Sockets |-> <<>>]
    /\ clientKey' = [s \in Sockets |-> 0]
    /\ listeners' = {}
    /\ jobs' = {}
    /\ UNCHANGED <<down, started>>
=============================================================================
