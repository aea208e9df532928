------------------------------ MODULE ChatPage ------------------------------
(***************************************************************************)
(* The page of the web chat: ui/app-chat.ts, ui/app-gateway.ts, the client *)
(* of ui/gateway.ts and what ui/chat-storage.ts keeps across a reload.     *)
(* A message is sent at once or, while an answer is awaited (chatSending), *)
(* queued; chat.done sends the next one.  Messages are numbered in the     *)
(* order in which they are typed.  What the page displays is left out.     *)
(***************************************************************************)
EXTENDS ChatSocket

CONSTANTS
    MaxTyped,     \* bound on the messages typed
    MaxKeys,      \* bound on the sessions begun
    MaxIncidents, \* bound on the user's other clicks and the losses
    MaxEvents     \* bound on messages and incidents together

ASSUME PageAssumption ==
    MaxTyped \in Nat /\ MaxKeys \in Nat \ {0} /\ MaxIncidents \in Nat /\ MaxEvents \in Nat

VARIABLES
    sock,         \* GatewayBrowserClient.ws; 0 for null
    retry,        \* its reconnectTimer is set
    pending,      \* its pending requests: [method, id]
    chatSending,
    chatQueue,
    sessionKey,
    savedKey,     \* settings.sessionKey, kept across a reload; 0 for ""
    typed,        \* messages typed so far
    keys,         \* session keys made so far
    incidents,    \* clicks and losses so far
    disturbed     \* history: the answer being awaited was given up

pageVars == <<sock, retry, pending, chatSending, chatQueue, sessionKey, savedKey,
              typed, keys, incidents, disturbed>>

Messages == 1..MaxTyped
Keys == 1..MaxKeys

\* A request of the page: its method, the number that tells it from others of
\* that method, and the session key it carries.
Request(method, id) == [method |-> method, id |-> id, key |-> sessionKey]
RequestName(f) == [method |-> f.method, id |-> f.id]

PageInit ==
    /\ sock = 0
    /\ retry = TRUE
    /\ pending = {}
    /\ chatSending = FALSE
    /\ chatQueue = <<>>
    /\ sessionKey = 1 /\ savedKey = 0
    /\ typed = 0
    /\ keys = 1
    /\ incidents = 0
    /\ disturbed = FALSE

Connected == sock # 0 /\ PageSeesOpen(sock)

\* request(): the promise is pending until the response, the timeout or the
\* loss of the connection.
Ask(f) ==
    /\ pending' = pending \cup {RequestName(f)}
    /\ PageSends(sock, <<f>>)

AwaitsAck == \E p \in pending : p.method = "chat.send"

-----------------------------------------------------------------------------
(* The user.                                                               *)

Incident ==
    /\ incidents < MaxIncidents /\ typed + incidents < MaxEvents
    /\ incidents' = incidents + 1

\* Mutant: a message is sent whether or not an answer is awaited.
SendAlways(msg, busy, queue) ==
    /\ Connected
    /\ chatSending' = TRUE
    /\ chatQueue' = queue
    /\ Ask(Request("chat.send", msg))

\* sendMessage, for a text that is no command: queued, refused or sent.
SendMessage(msg, busy, queue) ==
    \/ /\ busy
       /\ chatQueue' = Append(queue, msg)
       /\ chatSending' = busy
       /\ UNCHANGED <<pending, up>>
    \/ /\ ~ busy /\ ~ Connected
       /\ chatQueue' = queue
       /\ chatSending' = busy
       /\ UNCHANGED <<pending, up>>
    \/ /\ ~ busy /\ Connected
       /\ chatQueue' = queue
       /\ chatSending' = TRUE
       /\ Ask(Request("chat.send", msg))

Type ==
    /\ typed < MaxTyped /\ typed + incidents < MaxEvents
    /\ typed' = typed + 1
    /\ SendMessage(typed + 1, chatSending, chatQueue)
    /\ UNCHANGED <<link, down, sock, retry, sessionKey, savedKey, keys, incidents, disturbed>>

\* /new and new-chat-session: another session, an empty queue.
NewChat ==
    /\ Incident /\ keys < MaxKeys
    /\ keys' = keys + 1
    /\ sessionKey' = keys + 1
    /\ chatQueue' = <<>>
    /\ UNCHANGED <<socketVars, sock, retry, pending, chatSending, savedKey, typed, disturbed>>

\* eraseAgentMemory has succeeded: setSessionKey, which keeps the new session in
\* the settings, and an empty queue.
EraseMemory ==
    /\ Incident /\ keys < MaxKeys
    /\ keys' = keys + 1
    /\ sessionKey' = keys + 1 /\ savedKey' = keys + 1
    /\ chatQueue' = <<>>
    /\ UNCHANGED <<socketVars, sock, retry, pending, chatSending, typed, disturbed>>

\* abortChat: chat.abort without waiting for the response.
Stop ==
    /\ Incident /\ Connected
    /\ PageSends(sock, <<Request("chat.abort", 0)>>)
    /\ chatSending' = FALSE
    /\ disturbed' = TRUE
    /\ UNCHANGED <<link, down, sock, retry, pending, chatQueue, sessionKey, savedKey, typed, keys>>

\* remove-queue takes one message out, clear-chat-view all of them.
EditQueue ==
    /\ Incident /\ chatQueue # <<>>
    /\ \/ \E i \in 1..Len(chatQueue) :
             chatQueue' = SubSeq(chatQueue, 1, i - 1)
                          \o SubSeq(chatQueue, i + 1, Len(chatQueue))
       \/ chatQueue' = <<>>
    /\ UNCHANGED <<socketVars, sock, retry, pending, chatSending, sessionKey, savedKey, typed,
                   keys, disturbed>>

\* reloadChatHistory and injectAssistantNote.  Bound: the user has one request
\* of each kind under way.
AskFor(method) ==
    /\ Incident /\ Connected
    /\ [method |-> method, id |-> 1] \notin pending
    /\ Ask(Request(method, 1))
    /\ UNCHANGED <<link, down, sock, retry, chatSending, chatQueue, sessionKey, savedKey, typed,
                   keys, disturbed>>

-----------------------------------------------------------------------------
(* Connections.                                                            *)

\* doConnect: a new WebSocket in place of the one that is gone.
NextSocket == CHOOSE s \in Sockets : link[s] = "unused"
CanConnect == \E s \in Sockets : link[s] = "unused"

\* The page leaves its socket, if it has one, and opens the next.
Replace ==
    /\ CanConnect
    /\ link' = [s \in Sockets |-> IF s = sock THEN LinkWithoutPage(s)
                                  ELSE IF s = NextSocket THEN "opening" ELSE link[s]]
    /\ down' = [s \in Sockets |-> IF s = sock THEN <<>> ELSE down[s]]
    /\ sock' = NextSocket
    /\ pending' = {}
    /\ retry' = FALSE

\* The first connection of the page, and the reconnect timer.
Reconnect ==
    /\ retry /\ sock = 0
    /\ Replace
    /\ UNCHANGED <<up, chatSending, chatQueue, sessionKey, savedKey, typed, keys, incidents, disturbed>>

\* connectGateway by hand: close() of the old client rejects its requests, and
\* the rejection of chat.send ends the wait for an answer.
ReconnectByHand ==
    /\ Incident /\ Replace
    /\ chatSending' = (chatSending /\ ~ AwaitsAck)
    /\ disturbed' = TRUE
    /\ UNCHANGED <<up, chatQueue, sessionKey, savedKey, typed, keys>>

\* The page is loaded again: loadPersistedChatState restores the queue and,
\* unless the settings have one, the session key; nothing else outlives it.
Reload ==
    /\ Incident /\ Replace
    /\ chatSending' = FALSE
    /\ sessionKey' = IF savedKey # 0 THEN savedKey ELSE sessionKey
    /\ disturbed' = TRUE
    /\ UNCHANGED <<up, chatQueue, savedKey, typed, keys>>

\* ws.onclose: the pending requests are rejected and the timer is set.
SocketLost ==
    /\ sock # 0
    /\ \/ link[sock] = "serverLeft" /\ UNCHANGED incidents
       \/ link[sock] \in {"opening", "open"} /\ Incident
    /\ link' = [link EXCEPT ![sock] = LinkWithoutPage(sock)]
    /\ down' = [down EXCEPT ![sock] = <<>>]
    /\ sock' = 0
    /\ retry' = TRUE
    /\ pending' = {}
    /\ chatSending' = (chatSending /\ ~ AwaitsAck)
    /\ disturbed' = TRUE
    /\ UNCHANGED <<up, chatQueue, sessionKey, savedKey, typed, keys>>

\* The timer of request(): only chat.send's caller does anything about it.
RequestTimesOut ==
    /\ Incident
    /\ \E p \in pending :
          /\ pending' = pending \ {p}
          /\ chatSending' = (chatSending /\ p.method # "chat.send")
          /\ disturbed' = (disturbed \/ p.method = "chat.send")
    /\ UNCHANGED <<socketVars, sock, retry, chatQueue, sessionKey, savedKey, typed, keys>>

-----------------------------------------------------------------------------
(* handleFrame on the frame the page receives next.                        *)

\* A response: after the handshake the history is loaded, and the history says
\* which session the page is in.  A response nobody waits for is ignored, a
\* refusal only ends the wait.
HandleResponse(f) ==
    LET due == RequestName(f) \in pending /\ f.key # 0
    IN  /\ \/ /\ due /\ f.method = "connect"
              /\ pending' = (pending \ {RequestName(f)})
                            \cup {[method |-> "chat.history", id |-> 0]}
              /\ PageSends(sock, <<Request("chat.history", 0)>>)
           \/ /\ ~ (due /\ f.method = "connect")
              /\ pending' = pending \ {RequestName(f)}
              /\ UNCHANGED up
        /\ sessionKey' = IF due /\ f.method = "chat.history" THEN f.key ELSE sessionKey
        /\ UNCHANGED <<chatSending, chatQueue>>

\* Mutant: the message that is sent stays in the queue.
FlushKeepsHead ==
    IF chatQueue = <<>>
    THEN chatSending' = FALSE /\ UNCHANGED <<pending, up, chatQueue>>
    ELSE SendMessage(Head(chatQueue), FALSE, chatQueue)

\* chat.done: the answer is no longer awaited, and the next message is sent.
Flush ==
    IF chatQueue = <<>>
    THEN chatSending' = FALSE /\ UNCHANGED <<pending, up, chatQueue>>
    ELSE SendMessage(Head(chatQueue), FALSE, Tail(chatQueue))

HandleEvent(f) ==
    /\ \/ /\ f.method = "sending"
          /\ chatSending' = TRUE
          /\ UNCHANGED <<pending, up, chatQueue>>
       \/ f.method = "done" /\ Flush
    /\ UNCHANGED sessionKey

PageReceives ==
    /\ Connected /\ down[sock] # <<>>
    /\ down' = [down EXCEPT ![sock] = Tail(@)]
    /\ LET f == Head(down[sock])
       IN  IF f.type = "res" THEN HandleResponse(f) ELSE HandleEvent(f)
    /\ UNCHANGED <<link, sock, retry, savedKey, typed, keys, incidents, disturbed>>

\* What the page does by itself, and what the user does.
PageStep == Reconnect \/ SocketLost \/ RequestTimesOut \/ PageReceives
UserStep ==
    \/ Type \/ NewChat \/ EraseMemory \/ Stop \/ EditQueue \/ ReconnectByHand \/ Reload
    \/ AskFor("chat.history") \/ AskFor("chat.inject")
=============================================================================
