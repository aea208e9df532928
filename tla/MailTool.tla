------------------------------ MODULE MailTool ------------------------------
(***************************************************************************)
(* A call of the email tool (agents/tools/email-tool.ts): it takes the     *)
(* mailbox from the credential vault and talks IMAP to read mail or SMTP   *)
(* to send it, one command at a time over a socket of its own.  Every wait *)
(* for a reply ends with the reply, a timeout, or the end of the           *)
(* connection; the server may have done what it was asked all the same.    *)
(* Meanwhile mail arrives, and other clients read and delete it.           *)
(*                                                                         *)
(* Mails are their sequence numbers, which stay as they are while the      *)
(* mailbox is selected; headers and bodies are the number of the mail they *)
(* come from.                                                              *)
(***************************************************************************)
EXTENDS Naturals, Sequences, FiniteSets

CONSTANTS
    Mailboxes,     \* services of the vault
    MaxMails,      \* bound on the mails of the mailbox
    MailLimit,     \* limit
    MaxRecipients  \* bound on the recipients of a mail

ASSUME MailAssumption == MaxMails \in Nat /\ MailLimit \in 1 .. 50 /\ MaxRecipients \in Nat

VARIABLES
    mail,      \* the call
    box,       \* server: each mail is "absent", "unseen", "seen" or "gone"
    noted,     \* server: flag changes it has yet to tell of
    outbox,    \* server: [rcpts, copies] of the mail being sent
    \* History.
    marked     \* mails the call has marked as seen

mailVars == <<mail, box, noted, outbox, marked>>

Mails == 1 .. MaxMails
InBox == {q \in Mails : box[q] \in {"unseen", "seen"}}

NoReply == [is |-> "none", rows |-> <<>>]
NewMail == [at |-> 0, opts |-> [kind |-> "none"], script |-> <<>>, reply |-> NoReply, found |-> {}, picked |-> {},
            rows |-> <<>>, outcome |-> "none"]

MailInit ==
    /\ mail = NewMail
    /\ \E n \in 0 .. MaxMails : \E seen \in SUBSET (1 .. n) :
          box = [q \in Mails |-> IF q > n THEN "absent" ELSE IF q \in seen THEN "seen" ELSE "unseen"]
    /\ noted = {}
    /\ outbox = [rcpts |-> 0, copies |-> 0]
    /\ marked = {}

-----------------------------------------------------------------------------
(* The call.                                                               *)

\* What a call asks for: list_unread, read_unread and read_recent differ in the
\* defaults.
ReadOptions == [kind : {"read"}, all : BOOLEAN, body : BOOLEAN, mark : BOOLEAN, force : BOOLEAN]
SendOptions == [kind : {"send"}, to : 0 .. MaxRecipients, force : BOOLEAN]
Status == [kind |-> "status", force |-> FALSE]
Options == ReadOptions \cup SendOptions \cup {Status}

\* resolveProviderConfig: the hosts are those of a known provider, or follow from
\* the domain, or come with the call; upgrade: SMTP starts in clear and is
\* upgraded with STARTTLS, as the provider or the call has it.
Providers == {"gmail", "outlook", "proton", "domain", "unknown"}
Overrides == [hosts : BOOLEAN, smtp : {"default", "secure", "upgrade"}]
ProviderConfig(id, over) ==
    [supported |-> id \in {"gmail", "outlook", "domain"} \/ over.hosts,
     upgrade |-> IF over.smtp = "default" THEN id = "outlook" ELSE over.smtp = "upgrade"]

\* resolveMailboxCredential: the service that is asked for, or else any other
\* with an address.  vault: the authMode of each service's credential, if any.
Resolve(vault, asked) ==
    IF asked \in Mailboxes /\ vault[asked] # "none" THEN {asked}
    ELSE {s \in Mailboxes : vault[s] # "none"}

\* The steps of the two dialogues, each a wait for the server.
ImapConnect == <<"connect", "greeting">>
ImapScript(o) ==
    ImapConnect \o <<"LOGIN", "SELECT", "SEARCH", "HEADERS">>
    \o (IF o.body THEN <<"BODIES">> ELSE <<>>) \o (IF o.mark THEN <<"STORE">> ELSE <<>>)

SmtpConnect(upgrade) ==
    <<"connect", "greeting", "EHLO">> \o (IF upgrade THEN <<"STARTTLS", "upgrade", "EHLO">> ELSE <<>>)
SmtpScript(o, upgrade) ==
    SmtpConnect(upgrade) \o <<"AUTH", "USER", "PASS", "MAIL">>
    \o [r \in 1 .. o.to |-> "RCPT"] \o <<"DATA", "BODY">>

Script(o, upgrade) == IF o.kind = "read" THEN ImapScript(o) ELSE SmtpScript(o, upgrade)
Step == mail.script[mail.at]

\* Steps of connect, outside the try that looks at the error.
Connecting(step) == step \in {"connect", "greeting", "EHLO", "STARTTLS", "upgrade"}
Talking == mail.at > 0 /\ mail.outcome = "none"

\* buildBrowserFallback.
BrowserFallback == [mail EXCEPT !.reply = NoReply, !.outcome = "browser"]

\* createEmailTool.execute up to the connection.  Without a credential the call
\* throws, and so does a mail without recipients; a provider without protocol
\* access, or a credential with MFA, is left to the browser.
CallEmail(o, vault, asked, config) ==
    /\ mail.at = 0 /\ mail.outcome = "none"
    /\ \/ Resolve(vault, asked) = {} /\ mail' = [mail EXCEPT !.outcome = "error"]
       \/ \E s \in Resolve(vault, asked) :
             mail' = IF o = Status THEN [mail EXCEPT !.outcome = "ok"]
                     ELSE IF ~ config.supported \/ (vault[s] = "mfa" /\ ~ o.force) THEN BrowserFallback
                     ELSE IF o.kind = "send" /\ o.to = 0 THEN [mail EXCEPT !.outcome = "error"]
                     ELSE [mail EXCEPT !.at = 1, !.opts = o, !.script = Script(o, config.upgrade)]
    /\ UNCHANGED <<box, noted, outbox, marked>>

\* mailbox and mails are left alone.
CallOnly == UNCHANGED <<box, noted, outbox, marked>>

\* isAuthErrorMessage: the refusal says so, or the step's own error text does.
LooksLikeAuth(step, is) == is = "auth" \/ step = "LOGIN"

\* A step fails; what looks like an authentication error sends the user to the
\* browser unless it comes from connecting.
Fail(auth) ==
    mail' = IF auth /\ ~ Connecting(Step) /\ ~ mail.opts.force
            THEN BrowserFallback ELSE [mail EXCEPT !.reply = NoReply, !.outcome = "error"]

\* The rows of a FETCH by sequence number: a body is added to the row with the
\* headers; what the server volunteered makes rows of its own.
Merged(rows, more) ==
    [q \in DOMAIN rows \cup DOMAIN more |->
        IF q \notin DOMAIN rows THEN more[q]
        ELSE IF q \in DOMAIN more /\ more[q].body # 0 THEN [rows[q] EXCEPT !.body = more[q].body]
        ELSE rows[q]]

\* ids.slice: the newest of those found.
Newest(ids) == {q \in ids : Cardinality({r \in ids : r > q}) < MailLimit}

\* Mutant: a recipient that is refused is skipped.
IsExpectedOrRcpt(step, is) == is = "ok" \/ (step = "RCPT" /\ is = "no")

\* assertOk, expectedCodes: the replies a step goes on with.
IsExpected(step, is) == is = "ok"

\* The reply is read: on to the next step, or to the result.  Then finally
\* logout or quit, which ignore what the server still says.
ReadReply ==
    LET reply == mail.reply
        next == [mail EXCEPT !.reply = NoReply, !.at = @ + 1]
        last == mail.at = Len(mail.script)
        read == CASE Step = "SEARCH" -> [next EXCEPT !.found = DOMAIN reply.rows,
                                                     !.picked = Newest(DOMAIN reply.rows)]
                  [] Step \in {"HEADERS", "BODIES"} -> [next EXCEPT !.rows = Merged(@, reply.rows)]
                  [] OTHER -> next
    IN  /\ Talking /\ reply.is # "none"
        /\ IF ~ IsExpected(Step, reply.is) THEN Fail(LooksLikeAuth(Step, reply.is))
           ELSE IF last \/ (Step = "SEARCH" /\ read.picked = {})
           THEN mail' = [read EXCEPT !.outcome = "ok", !.at = mail.at]
           ELSE mail' = read
        /\ CallOnly

\* connectSocket: no connection, or not in time.
ConnectFails == Talking /\ Step = "connect" /\ Fail(FALSE) /\ CallOnly

\* waitForData: the time is up, or the connection ends.
ReplyLost == Talking /\ Step # "connect" /\ Fail(FALSE) /\ CallOnly

-----------------------------------------------------------------------------
(* The mail server (external), as far as the replies to the commands show. *)

\* Mutant: every mail that was found is marked.
StoreFound == mail.found

\* seqSet of markSeen.
StoreSet == mail.picked

Row(header, body) == [header |-> header, body |-> body]
Fetched(rows) ==
    [q \in (mail.picked \cap InBox) \cup noted |->
        IF q \in mail.picked \cap InBox THEN rows[q] ELSE Row(0, 0)]
Replies(is, rows) == mail' = [mail EXCEPT !.reply = [is |-> is, rows |-> rows]]

Serve ==
    LET headers == [q \in Mails |-> Row(q, 0)]
        bodies == [q \in Mails |-> Row(0, q)]
    IN  CASE Step = "SEARCH" ->
               LET ids == {q \in InBox : mail.opts.all \/ box[q] = "unseen"}
               IN  /\ Replies("ok", [q \in ids |-> Row(0, 0)])
                   /\ UNCHANGED <<box, outbox, marked>>
          [] Step = "HEADERS" -> Replies("ok", Fetched(headers)) /\ UNCHANGED <<box, outbox, marked>>
          [] Step = "BODIES" -> Replies("ok", Fetched(bodies)) /\ UNCHANGED <<box, outbox, marked>>
          [] Step = "STORE" ->
               LET now == {q \in StoreSet : box[q] = "unseen"}
               IN  /\ box' = [q \in Mails |-> IF q \in now THEN "seen" ELSE box[q]]
                   /\ marked' = marked \cup now
                   /\ Replies("ok", <<>>)
                   /\ UNCHANGED outbox
          [] Step = "RCPT" -> /\ outbox' = [outbox EXCEPT !.rcpts = @ + 1]
                              /\ Replies("ok", <<>>) /\ UNCHANGED <<box, marked>>
          [] Step = "BODY" -> /\ outbox' = [outbox EXCEPT !.copies = @ + 1]
                              /\ Replies("ok", <<>>) /\ UNCHANGED <<box, marked>>
          [] OTHER -> Replies("ok", <<>>) /\ UNCHANGED <<box, outbox, marked>>

\* The server does what it is asked, or refuses.
ServerReplies ==
    /\ Talking /\ mail.reply.is = "none"
    /\ \/ Serve
       \/ \E is \in {"no", "auth"} : Replies(is, <<>>) /\ UNCHANGED <<box, outbox, marked>>
    /\ noted' = {}

\* Mail arrives; another client reads or deletes some.
MailArrives ==
    \E q \in Mails :
        /\ box[q] = "absent" /\ \A r \in 1 .. q - 1 : box[r] # "absent"
        /\ box' = [box EXCEPT ![q] = "unseen"]
        /\ UNCHANGED <<mail, noted, outbox, marked>>
OthersRead(q) ==
    /\ box[q] = "unseen"
    /\ box' = [box EXCEPT ![q] = "seen"]
    /\ noted' = noted \cup {q}
    /\ UNCHANGED <<mail, outbox, marked>>
OthersDelete(q) ==
    /\ q \in InBox
    /\ box' = [box EXCEPT ![q] = "gone"]
    /\ noted' = noted \ {q}
    /\ UNCHANGED <<mail, outbox, marked>>

MailNext ==
    \/ /\ mail = NewMail
       /\ \E o \in Options, vault \in [Mailboxes -> {"none", "password", "mfa"}],
             asked \in Mailboxes \cup {"any"},
             config \in {ProviderConfig(id, over) : id \in Providers, over \in Overrides} :
                CallEmail(o, vault, asked, config)
    \/ ReadReply \/ ConnectFails \/ ReplyLost
    \/ ServerReplies
    \/ Talking /\ mail.opts.kind = "read" /\ (MailArrives \/ \E q \in Mails : OthersRead(q) \/ OthersDelete(q))

MailSpec == MailInit /\ [][MailNext]_mailVars

-----------------------------------------------------------------------------
(* Properties.                                                             *)

\* A call that reports success has sent exactly one mail, accepted by the server
\* for every recipient; one that sends the user to the browser to try again has
\* sent none.
SentIsAccepted ==
    /\ mail.outcome = "ok" /\ mail.opts.kind = "send"
          => outbox.copies = 1 /\ outbox.rcpts = mail.opts.to
    /\ mail.outcome = "browser" => outbox.copies = 0

\* Every mail that a successful call marked as seen is in its result, with its own
\* headers and with no other mail's body, whatever arrived, was read or was
\* deleted meanwhile; one that sends the user to the browser marked none.
MarkedWasShown ==
    /\ mail.outcome = "ok" =>
          /\ \A q \in marked : q \in DOMAIN mail.rows /\ mail.rows[q].header = q
          /\ \A q \in DOMAIN mail.rows : mail.rows[q].header \in {0, q} /\ mail.rows[q].body \in {0, q}
    /\ mail.outcome = "browser" => marked = {}
=============================================================================
