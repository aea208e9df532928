------------------------------- MODULE WebChat -------------------------------
(***************************************************************************)
(* The web chat: one page (ChatPage) and the dashboard server (ChatServer) *)
(* over sockets that may be lost at any moment (ChatSocket).               *)
(***************************************************************************)
EXTENDS ChatPage, ChatServer

webVars == <<socketVars, pageVars, serverVars>>

WebInit == SocketInit /\ PageInit /\ ServerInit

\* The upgrade succeeds: the server has a client, and the page's onopen sends
\* the handshake.
OpenSocket ==
    /\ sock # 0 /\ link[sock] = "opening"
    /\ link' = [link EXCEPT ![sock] = "open"]
    /\ Accept(sock)
    /\ pending' = pending \cup {[method |-> "connect", id |-> 0]}
    /\ up' = [up EXCEPT ![sock] = <<Request("connect", 0)>>]
    /\ UNCHANGED <<down, sock, retry, chatSending, chatQueue, sessionKey, savedKey, typed, keys,
                   incidents, disturbed>>

\* Losing a client, or everything, ends the calm.
LoseClient(s) ==
    /\ ClientGone(s)
    /\ \/ link[s] = "pageLeft" /\ UNCHANGED incidents
       \/ link[s] = "open" /\ Incident
    /\ disturbed' = TRUE
    /\ UNCHANGED <<sock, retry, pending, chatSending, chatQueue, sessionKey, savedKey, typed, keys>>

ServerRestarts ==
    /\ Incident
    /\ \E s \in Sockets : ServerSeesOpen(s)
    /\ Restart
    /\ disturbed' = TRUE
    /\ UNCHANGED <<sock, retry, pending, chatSending, chatQueue, sessionKey, savedKey, typed, keys>>

WebNext ==
    \/ (PageStep \/ UserStep) /\ UNCHANGED serverVars
    \/ OpenSocket
    \/ \E s \in Sockets : LoseClient(s) \/ (ServerReceives(s) /\ UNCHANGED pageVars)
    \/ \E j \in jobs : Finish(j) /\ UNCHANGED pageVars
    \/ ServerRestarts

WebSpec == WebInit /\ [][WebNext]_webVars

-----------------------------------------------------------------------------
(* Properties.                                                             *)

Runs == {j \in jobs : j.method = "chat.send"}

\* While the page awaits an answer the next message waits: unless the user stops
\* an answer, or the connection or its request is lost, the server never works
\* on two messages of the page at once, and takes them in the order typed,
\* through any use of the queue, of new chats and of reloaded histories.
MessagesInTurn ==
    ~ disturbed =>
        /\ \A j, k \in Runs : j = k
        /\ \A m, n \in DOMAIN started : m < n => started[m] < started[n]

\* Nothing makes a message run twice: not the queue that survives a reload, a
\* timed-out request that was delivered after all, or a lost acknowledgement.
TypedRunsOnce ==
    \A m, n \in DOMAIN started : started[m] = started[n] => m = n

\* A queued message is sent or taken back by the user: each answer, or the lack
\* of one, ends in a chat.done that sends the next.
QueueDrains == (chatQueue # <<>>) ~> (chatQueue = <<>> \/ disturbed)
=============================================================================
