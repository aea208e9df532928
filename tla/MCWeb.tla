-------------------------------- MODULE MCWeb --------------------------------
(***************************************************************************)
(* The two conversations of the dashboard's page with its server that have *)
(* a protocol of their own: the web chat (WebChat) and the sign-in         *)
(* (CodexSignIn).  They share no state: a behaviour is one of either,      *)
(* chosen at the start, while the other rests.                             *)
(***************************************************************************)
EXTENDS WebChat, CodexSignIn

VARIABLE part

pageAndServer == <<part, webVars, signInVars>>

\* A step of one part.
OfChat(A) == part = "chat" /\ A /\ UNCHANGED <<part, signInVars>>
OfSignIn(A) == part = "signIn" /\ A /\ UNCHANGED <<part, webVars>>

Init == part \in {"chat", "signIn"} /\ WebInit /\ SignInInit
Next == OfChat(WebNext) \/ OfSignIn(SignInNext)

\* Frames on an open socket arrive and are handled, a run of the agent ends (the
\* gateway's timer sees to it), a request over HTTP is answered or fails, and
\* the page's timers fire: as long as some of this is due, some of it happens.
\* Nobody need ever sign in, or a lost socket reopen.
ChatGoesOn ==
    \/ PageReceives /\ UNCHANGED serverVars
    \/ \E s \in Sockets : ServerReceives(s) /\ UNCHANGED pageVars
    \/ \E j \in Runs : Finish(j) /\ UNCHANGED pageVars
SignInGoesOn == \E j \in Jobs : PollStep(j) \/ AnswerStart(j) \/ StartAnswered(j)
Fairness ==
    WF_pageAndServer(OfChat(ChatGoesOn)) /\ WF_pageAndServer(OfSignIn(SignInGoesOn))

Spec == Init /\ [][Next]_pageAndServer /\ Fairness
=============================================================================
