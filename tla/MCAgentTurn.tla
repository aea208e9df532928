----------------------------- MODULE MCAgentTurn -----------------------------
(* Instances of AgentTurn for TLC.  The message and call sets of a run are *)
(* the ones its question needs; the intents are those of real messages.    *)
EXTENDS AgentTurn

\* "fix the config", "continue", "hello", "search the web for ...", "confirm
\* purchase", "cancel the order", "who are you"
WorkMessages == {{"change", "tools"}, {"continue"}, {"smallTalk"}, {"lookup", "tools"},
                 {"confirm", "change"}, {"cancel"}, {"identity"}}
WorkCalls == {"read", "write", "order", "search"}
WorkTexts == {"empty", "answer", "ungrounded"}

\* "log in to example.com", "123456", "the login code is 123456", "resend the
\* code", "continue", "show my account dashboard"
LoginMessages == {{"login", "tools", "change"}, {"code"}, {"code", "login", "tools", "change"},
                  {"recovery"}, {"continue"}, {"dashboard"}}
LoginCalls == {"login", "mfa"}
LoginTexts == {"answer", "asksIdentifier", "refusesOtp"}
=============================================================================
