----------------------------- MODULE ToolsProofs -----------------------------
(***************************************************************************)
(* Three tools of the agent, each for every value of its constants: the    *)
(* gate before payments decides as the user said and implements the        *)
(* abstract gate; the mailbox reports as sent, and marks as read, what it  *)
(* has sent and shown; the sign-in to a site reports what it did there.    *)
(***************************************************************************)
EXTENDS CheckoutWorkflow, MailTool, BrowserLogin, TLAPS

-----------------------------------------------------------------------------
(* The gate before payments.                                               *)

\* The deadline of a session is exactly what its user said, as far as the
\* future is concerned.  DecisionsFollowTheUser is not inductive without this:
\* a decision is taken from the deadline, not from the user's words.
DeadlineIsSaid(s) ==
    /\ confirmedUntil[s] > now => said[s].word = "confirm"
    /\ (said[s].word = "confirm" /\ now < said[s].at + TTL)
         => confirmedUntil[s] = said[s].at + TTL
    /\ confirmedUntil[s] > now => confirmedUntil[s] = said[s].at + TTL

Sound(s) ==
    /\ DeadlineIsSaid(s)
    /\ decision[s] = "allowed" => Authorized(s)
    /\ decision[s] = "refused" => ~ Authorized(s)

IInv == TypeOK /\ \A s \in Sessions : Sound(s)

\* Every operation keeps the types.
LEMMA TypeStep == ASSUME TypeOK, [Next]_vars PROVE TypeOK'
<1> USE WorkflowAssumption DEF TypeOK, Words, Decisions
<1>1. CASE UNCHANGED vars
  BY <1>1, Zenon DEF vars
<1>2. CASE Tick
  BY <1>2 DEF Tick
<1>3. ASSUME NEW s \in Sessions, BeginCancel(s) PROVE TypeOK'
  BY <1>3, Zenon DEF BeginCancel
<1>4. ASSUME NEW s \in Sessions, BeginConfirm(s) PROVE TypeOK'
  BY <1>4 DEF BeginConfirm
<1>5. ASSUME NEW s \in Sessions, BeginOther(s) PROVE TypeOK'
  BY <1>5, Zenon DEF BeginOther, Current
<1>6. ASSUME NEW s \in Sessions, EnforceRisky(s) PROVE TypeOK'
  <2>1. Current(s) \in Nat
    BY Zenon DEF Current
  <2> QED
    BY <1>6, <2>1, Zenon DEF EnforceRisky
<1>7. ASSUME NEW s \in Sessions, EnforceHarmless(s) PROVE TypeOK'
  BY <1>7, Zenon DEF EnforceHarmless, Current
<1> QED
  BY <1>1, <1>2, <1>3, <1>4, <1>5, <1>6, <1>7, Zenon DEF Next

\* Every operation keeps each session's deadline and decision sound.
LEMMA SoundStep ==
    ASSUME IInv, [Next]_vars, NEW r \in Sessions
    PROVE  Sound(r)'
<1>1. /\ now \in Nat /\ TTL \in Nat \ {0}
      /\ confirmedUntil[r] \in Nat /\ said[r].at \in Nat
      /\ DOMAIN confirmedUntil = Sessions /\ DOMAIN said = Sessions
      /\ DOMAIN decision = Sessions
  BY WorkflowAssumption, Zenon DEF IInv, TypeOK, Words
<1>2. Sound(r)
  BY Zenon DEF IInv
<1> USE <1>1, <1>2 DEF Sound, DeadlineIsSaid, Authorized
<1>3. CASE UNCHANGED vars
  BY <1>3, Zenon DEF vars
<1>4. CASE Tick
  BY <1>4 DEF Tick
<1>5. ASSUME NEW s \in Sessions, BeginCancel(s) PROVE Sound(r)'
  BY <1>5 DEF BeginCancel
<1>6. ASSUME NEW s \in Sessions, BeginConfirm(s) PROVE Sound(r)'
  BY <1>6, Zenon DEF BeginConfirm
<1>7. ASSUME NEW s \in Sessions, BeginOther(s) PROVE Sound(r)'
  BY <1>7 DEF BeginOther, Current
<1>8. ASSUME NEW s \in Sessions, EnforceRisky(s) PROVE Sound(r)'
  BY <1>8 DEF EnforceRisky, Current
<1>9. ASSUME NEW s \in Sessions, EnforceHarmless(s) PROVE Sound(r)'
  BY <1>9 DEF EnforceHarmless, Current
<1> QED
  BY <1>3, <1>4, <1>5, <1>6, <1>7, <1>8, <1>9, Zenon DEF Next

\* The inductive invariant holds throughout.
LEMMA Invariance == Spec => []IInv
<1>1. Init => IInv
  BY DEF Init, IInv, TypeOK, Sound, DeadlineIsSaid, Authorized, Words, Decisions
<1>2. IInv /\ [Next]_vars => IInv'
  BY TypeStep, SoundStep, Zenon DEF IInv
<1> QED
  BY <1>1, <1>2, PTL DEF Spec

\* The state of the checkout workflow keeps its types.
THEOREM TypeCorrect == Spec => []TypeOK
  BY Invariance, PTL DEF IInv

\* enforceCheckoutWorkflow lets a risky action through exactly while the
\* session's user has authorized purchases, for any sessions and lifetime.
THEOREM DecisionsAreTheUsers == Spec => []DecisionsFollowTheUser
<1>1. IInv => DecisionsFollowTheUser
  BY Zenon DEF IInv, Sound, DecisionsFollowTheUser
<1> QED
  BY <1>1, Invariance, PTL

\* One step of the workflow is a step of every session's gate, or leaves it.
LEMMA GateStep ==
    ASSUME IInv, [Next]_vars, NEW r \in Sessions
    PROVE  [Gate(r)!Next]_<<confirmedUntil[r] > now, pending[r]>>
<1>1. /\ now \in Nat /\ TTL \in Nat \ {0}
      /\ confirmedUntil[r] \in Nat /\ pending[r] \in BOOLEAN
      /\ DOMAIN confirmedUntil = Sessions /\ DOMAIN pending = Sessions
  BY WorkflowAssumption, Zenon DEF IInv, TypeOK
<1> USE <1>1 DEF Gate!Next, Gate!Confirm, Gate!Cancel, Gate!Expire, Gate!Allow, Gate!Refuse
<1>3. CASE UNCHANGED vars
  BY <1>3, Zenon DEF vars
<1>4. CASE Tick
  BY <1>4 DEF Tick
<1>5. ASSUME NEW s \in Sessions, BeginCancel(s)
      PROVE [Gate(r)!Next]_<<confirmedUntil[r] > now, pending[r]>>
  BY <1>5, Zenon DEF BeginCancel
<1>6. ASSUME NEW s \in Sessions, BeginConfirm(s)
      PROVE [Gate(r)!Next]_<<confirmedUntil[r] > now, pending[r]>>
  BY <1>6, Zenon DEF BeginConfirm
<1>7. ASSUME NEW s \in Sessions, BeginOther(s)
      PROVE [Gate(r)!Next]_<<confirmedUntil[r] > now, pending[r]>>
  BY <1>7 DEF BeginOther, Current
<1>8. ASSUME NEW s \in Sessions, EnforceRisky(s)
      PROVE [Gate(r)!Next]_<<confirmedUntil[r] > now, pending[r]>>
  BY <1>8 DEF EnforceRisky, Current
<1>9. ASSUME NEW s \in Sessions, EnforceHarmless(s)
      PROVE [Gate(r)!Next]_<<confirmedUntil[r] > now, pending[r]>>
  BY <1>9 DEF EnforceHarmless, Current
<1> QED
  BY <1>3, <1>4, <1>5, <1>6, <1>7, <1>8, <1>9, Zenon DEF Next

\* The checkout workflow of every session implements the abstract gate.
THEOREM Refinement == Spec => ImplementsGate
<1>1. Init => \A s \in Sessions : Gate(s)!Init
  <2> SUFFICES ASSUME Init, NEW s \in Sessions PROVE Gate(s)!Init
    BY Zenon
  <2>1. ~ (confirmedUntil[s] > now)
    BY DEF Init
  <2>2. ~ pending[s]
    BY Zenon DEF Init
  <2> QED
    BY <2>1, <2>2, Zenon DEF Gate!Init
<1>2. IInv /\ [Next]_vars
        => [\A s \in Sessions :
              [Gate(s)!Next]_<<confirmedUntil[s] > now, pending[s]>>]_vars
  BY GateStep, Zenon
<1> QED
  BY <1>1, <1>2, Invariance, PTL DEF Spec, ImplementsGate

-----------------------------------------------------------------------------
(* The mailbox.                                                            *)

\* What the proof needs of the types.
MailFields(m) == {"at", "opts", "script", "reply", "found", "picked", "rows", "outcome"} \subseteq DOMAIN m
ReplyFields(r) == {"is", "rows"} \subseteq DOMAIN r
MailTypes ==
    /\ MailFields(mail) /\ ReplyFields(mail.reply)
    /\ DOMAIN outbox = {"rcpts", "copies"} /\ DOMAIN box = Mails
    /\ mail.at \in Nat

NothingDone == marked = {} /\ outbox.rcpts = 0 /\ outbox.copies = 0 /\ mail.rows = <<>>
Served == mail.reply.is = "ok"

\* Rows that hold no headers and no body of another mail, and among them every
\* picked mail that is still there.
OwnRows(r) ==
    \A q \in DOMAIN r : /\ {"header", "body"} \subseteq DOMAIN r[q]
                        /\ r[q].header \in {0, q} /\ r[q].body \in {0, q}
Shown(r, p, b) ==
    /\ OwnRows(r)
    /\ \A q \in p : b[q] \in {"unseen", "seen"} => q \in DOMAIN r /\ r[q].header = q
Present(b) == {q \in Mails : b[q] # "absent"}

Reading ==
    /\ mail.opts \in ReadOptions /\ mail.script = ImapScript(mail.opts)
    /\ mail.at \in 1 .. Len(mail.script)
    /\ outbox.copies = 0
    /\ mail.at <= 6 => mail.rows = <<>>
    /\ mail.at = 5 /\ Served => DOMAIN mail.reply.rows \subseteq Present(box)
    /\ mail.at > 5 => mail.picked \subseteq Present(box)
    /\ mail.at = 6 /\ Served => Shown(mail.reply.rows, mail.picked, box)
    /\ mail.at > 6 => Shown(mail.rows, mail.picked, box)
    /\ Step = "BODIES" /\ Served => OwnRows(mail.reply.rows)
    /\ marked # {} => Step = "STORE" /\ Served
    /\ \A q \in marked : q \in DOMAIN mail.rows /\ mail.rows[q].header = q

\* The steps that the server has done, and the steps before the recipients.
Finished == IF Served THEN mail.at ELSE mail.at - 1
Before(upgrade) == IF upgrade THEN 10 ELSE 7

Sending ==
    /\ mail.opts \in SendOptions
    /\ \E upgrade \in BOOLEAN :
          LET b == Before(upgrade)
              to == mail.opts.to
          IN  /\ mail.script = SmtpScript(mail.opts, upgrade)
              /\ outbox.rcpts = IF Finished <= b THEN 0 ELSE IF Finished <= b + to THEN Finished - b ELSE to
              /\ outbox.copies = IF Finished = b + to + 2 THEN 1 ELSE 0
    /\ mail.at \in 1 .. Len(mail.script)
    /\ mail.rows = <<>> /\ marked = {}

MailInv ==
    /\ MailTypes
    /\ mail.at = 0 => NothingDone /\ mail.opts.kind = "none"
    /\ Talking => Reading \/ Sending
    /\ SentIsAccepted /\ MarkedWasShown

\* The steps of the two dialogues, by position.
LEMMA ImapSteps ==
  ASSUME NEW o \in ReadOptions
  PROVE  LET s == ImapScript(o) IN
         /\ Len(s) \in Nat /\ Len(s) >= 6
         /\ s[5] = "SEARCH" /\ s[6] = "HEADERS"
         /\ \A i \in 1 .. Len(s) :
               /\ s[i] = "SEARCH" => i = 5
               /\ s[i] = "HEADERS" => i = 6
               /\ s[i] = "BODIES" => i = 7
               /\ s[i] = "STORE" => i > 6 /\ i = Len(s)
               /\ s[i] \notin {"RCPT", "BODY"}
<1>0. o.body \in BOOLEAN /\ o.mark \in BOOLEAN
  BY Zenon DEF ReadOptions
<1> DEFINE c == <<"connect", "greeting", "LOGIN", "SELECT", "SEARCH", "HEADERS">>
<1>1. CASE o.body /\ o.mark
  <2>1. ImapScript(o) = c \o <<"BODIES">> \o <<"STORE">>
    BY <1>1 DEF ImapScript, ImapConnect
  <2> QED BY <2>1
<1>2. CASE o.body /\ ~ o.mark
  <2>1. ImapScript(o) = c \o <<"BODIES">> \o <<>>
    BY <1>2 DEF ImapScript, ImapConnect
  <2> QED BY <2>1
<1>3. CASE ~ o.body /\ o.mark
  <2>1. ImapScript(o) = c \o <<>> \o <<"STORE">>
    BY <1>3 DEF ImapScript, ImapConnect
  <2> QED BY <2>1
<1>4. CASE ~ o.body /\ ~ o.mark
  <2>1. ImapScript(o) = ImapConnect \o <<"LOGIN", "SELECT", "SEARCH", "HEADERS">> \o <<>> \o <<>>
    BY <1>4, Zenon DEF ImapScript
  <2> QED BY <2>1 DEF ImapConnect
<1> QED BY <1>0, <1>1, <1>2, <1>3, <1>4, Zenon

AllSteps == {"connect", "greeting", "EHLO", "STARTTLS", "upgrade", "AUTH", "USER", "PASS", "MAIL",
             "RCPT", "DATA", "BODY"}

\* A sequence of n steps that are none of those that matter.
Plain(c, n) ==
    /\ c \in Seq(AllSteps) /\ Len(c) = n
    /\ \A i \in 1 .. n : c[i] \notin {"RCPT", "BODY", "SEARCH", "HEADERS", "BODIES", "STORE"}

\* A step of one dialogue followed by another.
LEMMA ConcatAt ==
  ASSUME NEW S, NEW c \in Seq(S), NEW d \in Seq(S)
  PROVE  /\ Len(c \o d) = Len(c) + Len(d)
         /\ \A i \in 1 .. Len(c) + Len(d) : (c \o d)[i] = IF i <= Len(c) THEN c[i] ELSE d[i - Len(c)]
OBVIOUS

\* Dialogues without such steps, one after the other.
LEMMA PlainConcat ==
  ASSUME NEW c, NEW d, NEW n \in Nat, NEW m \in Nat, Plain(c, n), Plain(d, m)
  PROVE  Plain(c \o d, n + m)
BY DEF Plain

\* Sending: the recipients come after the connection and the sign-in, the text last.
LEMMA SmtpSteps ==
  ASSUME NEW o \in SendOptions, NEW upgrade \in BOOLEAN
  PROVE  LET s == SmtpScript(o, upgrade)
             b == Before(upgrade) IN
         /\ o.to \in Nat
         /\ Len(s) = b + o.to + 2
         /\ \A i \in 1 .. Len(s) :
               /\ s[i] = "RCPT" <=> b < i /\ i <= b + o.to
               /\ s[i] = "BODY" <=> i = Len(s)
               /\ s[i] \notin {"SEARCH", "HEADERS", "BODIES", "STORE"}
<1> DEFINE b == Before(upgrade)
           c == SmtpConnect(upgrade) \o <<"AUTH", "USER", "PASS", "MAIL">>
           r == [i \in 1 .. o.to |-> "RCPT"]
           e == c \o r
           d == <<"DATA", "BODY">>
           s == SmtpScript(o, upgrade)
<1>1. o.to \in Nat /\ b \in Nat
  BY MailAssumption DEF SendOptions, Before
<1>2. r \in Seq(AllSteps) /\ Len(r) = o.to /\ \A i \in 1 .. o.to : r[i] = "RCPT"
  <2>1. r \in Seq({"RCPT"}) /\ Len(r) = o.to /\ \A i \in 1 .. o.to : r[i] = "RCPT"
    BY <1>1
  <2> HIDE DEF r
  <2> QED BY <2>1 DEF AllSteps
<1>3. Plain(c, b)
  <2>1. /\ Plain(<<"connect", "greeting", "EHLO">>, 3) /\ Plain(<<"STARTTLS", "upgrade", "EHLO">>, 3)
        /\ Plain(<<>>, 0) /\ Plain(<<"AUTH", "USER", "PASS", "MAIL">>, 4)
    <3>1. Plain(<<"connect", "greeting", "EHLO">>, 3)
      BY DEF Plain, AllSteps
    <3>2. Plain(<<"STARTTLS", "upgrade", "EHLO">>, 3)
      BY DEF Plain, AllSteps
    <3>3. Plain(<<"AUTH", "USER", "PASS", "MAIL">>, 4)
      BY DEF Plain, AllSteps
    <3>4. Plain(<<>>, 0)
      BY DEF Plain, AllSteps
    <3> QED BY <3>1, <3>2, <3>3, <3>4, Zenon
  <2>2. CASE upgrade
    <3>1. Plain(SmtpConnect(upgrade), 6)
      BY <2>1, <2>2, PlainConcat, 3 + 3 = 6, Zenon DEF SmtpConnect
    <3> QED BY <2>1, <2>2, <3>1, PlainConcat, 6 + 4 = 10, Zenon DEF Before
  <2>3. CASE ~ upgrade
    <3>1. Plain(SmtpConnect(upgrade), 3)
      BY <2>1, <2>3, PlainConcat, 3 + 0 = 3, Zenon DEF SmtpConnect
    <3> QED BY <2>1, <2>3, <3>1, PlainConcat, 3 + 4 = 7, Zenon DEF Before
  <2> QED BY <2>2, <2>3, Zenon
<1> HIDE DEF b, c, r
<1>4. /\ e \in Seq(AllSteps) /\ Len(e) = b + o.to
      /\ \A i \in 1 .. b : e[i] = c[i]
      /\ \A i \in b + 1 .. b + o.to : e[i] = "RCPT"
  BY <1>1, <1>2, <1>3 DEF Plain
<1>5. s = e \o d
  BY Zenon DEF SmtpScript, c, r
<1>d. d \in Seq(AllSteps) /\ Len(d) = 2 /\ d[1] = "DATA" /\ d[2] = "BODY"
  BY DEF AllSteps
<1> HIDE DEF e, s, d
<1>6. /\ Len(s) = Len(e) + 2 /\ \A i \in 1 .. Len(e) : s[i] = e[i]
      /\ s[Len(e) + 1] = "DATA" /\ s[Len(e) + 2] = "BODY"
  <2>1. Len(e) \in Nat /\ Len(e) + 1 \in 1 .. Len(e) + Len(d) /\ Len(e) + 2 \in 1 .. Len(e) + Len(d)
    BY <1>1, <1>4, <1>d
  <2>2. /\ Len(e \o d) = Len(e) + Len(d)
        /\ \A i \in 1 .. Len(e) + Len(d) : (e \o d)[i] = IF i <= Len(e) THEN e[i] ELSE d[i - Len(e)]
    BY <1>4, <1>d, ConcatAt, Zenon
  <2> QED BY <1>5, <1>d, <2>1, <2>2
<1>7. ASSUME NEW i \in 1 .. Len(s)
      PROVE  /\ s[i] = "RCPT" <=> b < i /\ i <= b + o.to
             /\ s[i] = "BODY" <=> i = Len(s)
             /\ s[i] \notin {"SEARCH", "HEADERS", "BODIES", "STORE"}
  <2>1. CASE i \in 1 .. b
    <3>1. s[i] = c[i]
      BY <1>1, <1>4, <1>6, <2>1
    <3> QED BY <1>1, <1>3, <1>4, <1>6, <2>1, <3>1 DEF Plain
  <2>2. CASE i \in b + 1 .. b + o.to
    <3>1. i \in 1 .. Len(e) /\ b < i /\ i <= b + o.to /\ i # Len(s)
      BY <1>1, <1>4, <1>6, <2>2
    <3>2. s[i] = "RCPT"
      BY <1>4, <1>6, <2>2, <3>1, Zenon
    <3> QED BY <3>1, <3>2
  <2>3. CASE i = b + o.to + 1
    <3>1. s[i] = "DATA"
      BY <1>4, <1>6, <2>3, Zenon
    <3> QED BY <1>1, <1>4, <1>6, <2>3, <3>1
  <2>4. CASE i = b + o.to + 2
    <3>1. s[i] = "BODY"
      BY <1>4, <1>6, <2>4, Zenon
    <3> QED BY <1>1, <1>4, <1>6, <2>4, <3>1
  <2>5. Len(s) = b + o.to + 2
    BY <1>4, <1>6, Zenon
  <2> QED BY <1>1, <2>1, <2>2, <2>3, <2>4, <2>5
<1> QED BY <1>1, <1>4, <1>6, <1>7, Zenon DEF b, s

\* What becomes of rows and of the mailbox.
LEMMA MergedOwn ==
  ASSUME NEW r, NEW m, OwnRows(r), OwnRows(m) PROVE OwnRows(Merged(r, m))
BY Zenon DEF OwnRows, Merged

\* Rows with their own headers, to which bodies are added.
LEMMA MergedShown ==
  ASSUME NEW r, NEW m, NEW p, NEW b, Shown(r, p, b), OwnRows(m) PROVE Shown(Merged(r, m), p, b)
<1>1. OwnRows(Merged(r, m))
  BY MergedOwn, Zenon DEF Shown
<1>2. ASSUME NEW q \in DOMAIN r PROVE q \in DOMAIN Merged(r, m) /\ Merged(r, m)[q].header = r[q].header
  BY Zenon DEF Merged, Shown, OwnRows
<1> QED BY <1>1, <1>2, Zenon DEF Shown

\* The headers are the first rows.
LEMMA FirstShown ==
  ASSUME NEW m, NEW p, NEW b, Shown(m, p, b) PROVE Shown(Merged(<<>>, m), p, b)
<1>1. DOMAIN Merged(<<>>, m) = DOMAIN m /\ \A q \in DOMAIN m : Merged(<<>>, m)[q] = m[q]
  BY DEF Merged
<1> QED BY <1>1, ZenonT(60) DEF Shown, OwnRows

\* A mail that arrived does not arrive again, and one that is gone stays away.
Later(b, c) ==
    \A q \in Mails : b[q] # "absent" => /\ c[q] # "absent"
                                        /\ c[q] \in {"unseen", "seen"} => b[q] \in {"unseen", "seen"}

\* What was shown of the picked mails stays shown when the mailbox moves on.
LEMMA LaterShown ==
  ASSUME NEW r, NEW p, NEW b, NEW c, Later(b, c), p \subseteq Present(b)
  PROVE  p \subseteq Present(c) /\ (Shown(r, p, b) => Shown(r, p, c))
BY Zenon DEF Later, Present, Shown

\* The answer that is read: the fields of the call after it.
LEMMA ReadFields ==
  ASSUME MailTypes, ReadReply, IsExpected(Step, mail.reply.is)
  PROVE  /\ MailFields(mail') /\ mail'.reply = NoReply
         /\ mail'.opts = mail.opts /\ mail'.script = mail.script
         /\ mail'.picked = IF Step = "SEARCH" THEN Newest(DOMAIN mail.reply.rows) ELSE mail.picked
         /\ mail'.rows = IF Step \in {"HEADERS", "BODIES"} THEN Merged(mail.rows, mail.reply.rows) ELSE mail.rows
         /\ \/ /\ mail'.outcome = "ok" /\ mail'.at = mail.at
               /\ mail.at = Len(mail.script) \/ (Step = "SEARCH" /\ mail'.picked = {})
            \/ mail'.outcome = mail.outcome /\ mail'.at = mail.at + 1 /\ mail.at # Len(mail.script)
<1>1. CASE Step = "SEARCH"
  BY <1>1, Zenon DEF ReadReply, MailTypes, MailFields
<1>2. CASE Step \in {"HEADERS", "BODIES"}
  BY <1>2, Zenon DEF ReadReply, MailTypes, MailFields
<1>3. CASE Step \notin {"SEARCH", "HEADERS", "BODIES"}
  BY <1>3, Zenon DEF ReadReply, MailTypes, MailFields
<1> QED BY <1>1, <1>2, <1>3, Zenon

\* A step that fails: the fields of the call after it.
LEMMA FailFields ==
  ASSUME MailTypes, NEW auth, Fail(auth)
  PROVE  /\ MailFields(mail') /\ mail'.reply = NoReply /\ mail'.at = mail.at /\ mail'.rows = mail.rows
         /\ mail'.opts = mail.opts
         /\ mail'.outcome = "error" \/ (auth /\ mail'.outcome = "browser")
BY Zenon DEF Fail, BrowserFallback, MailTypes, MailFields

\* An answer that arrives: the fields of the call after it.
LEMMA RepliesFields ==
  ASSUME MailTypes, NEW is, NEW rows, Replies(is, rows)
  PROVE  /\ MailFields(mail') /\ mail'.reply.is = is /\ mail'.reply.rows = rows /\ ReplyFields(mail'.reply)
         /\ mail'.at = mail.at /\ mail'.rows = mail.rows /\ mail'.opts = mail.opts
         /\ mail'.script = mail.script /\ mail'.picked = mail.picked /\ mail'.outcome = mail.outcome
BY Zenon DEF Replies, MailTypes, MailFields, ReplyFields

\* Before the call nothing is sent, marked or shown.
LEMMA MailStarts == MailInit => MailInv
BY DEF MailInit, MailInv, MailTypes, MailFields, ReplyFields, NewMail, NoReply, NothingDone, Talking,
       SentIsAccepted, MarkedWasShown

\* A call that ends in an error promises nothing.
LEMMA ErrorKeeps ==
  ASSUME MailInv, Talking, ConnectFails \/ ReplyLost PROVE MailInv'
<1>1. Fail(FALSE) /\ UNCHANGED <<box, noted, outbox, marked>>
  BY Zenon DEF ConnectFails, ReplyLost, CallOnly
<1>2. MailFields(mail') /\ mail'.reply = NoReply /\ mail'.at = mail.at /\ mail'.outcome = "error"
  BY <1>1, FailFields, Zenon DEF MailInv
<1> QED BY <1>1, <1>2 DEF MailInv, MailTypes, ReplyFields, NoReply, Talking, SentIsAccepted, MarkedWasShown

\* The call begins, or ends at once.
LEMMA CallKeeps ==
  ASSUME MailInv, mail = NewMail, NEW o \in Options, NEW vault, NEW asked, NEW config,
         config.upgrade \in BOOLEAN, CallEmail(o, vault, asked, config)
  PROVE  MailInv'
<1>1. UNCHANGED <<box, noted, outbox, marked>> /\ NothingDone
  BY Zenon DEF CallEmail, MailInv, NewMail
<1>2. CASE \/ mail' = [mail EXCEPT !.outcome = "error"] \/ mail' = [mail EXCEPT !.outcome = "ok"]
           \/ mail' = BrowserFallback
  <2>1. MailFields(mail') /\ ReplyFields(mail'.reply) /\ mail'.at = 0 /\ mail'.rows = <<>> /\ mail'.opts.kind = "none"
    <3>1. /\ MailFields(mail') /\ mail'.reply = NoReply /\ mail'.at = 0 /\ mail'.rows = <<>>
          /\ mail'.opts = [kind |-> "none"]
      BY <1>2, Zenon DEF NewMail, MailFields, BrowserFallback
    <3> QED BY <3>1 DEF ReplyFields, NoReply
  <2> QED BY <1>1, <2>1 DEF MailInv, MailTypes, NothingDone, Talking, SentIsAccepted, MarkedWasShown
<1>3. CASE mail' = [mail EXCEPT !.at = 1, !.opts = o, !.script = Script(o, config.upgrade)] /\ o # Status
  <2>1. /\ MailFields(mail') /\ mail'.reply = NoReply /\ mail'.at = 1 /\ mail'.rows = <<>> /\ mail'.opts = o
        /\ mail'.script = Script(o, config.upgrade) /\ mail'.outcome = "none"
    BY <1>3, Zenon DEF NewMail, MailFields
  <2>2. MailTypes' /\ ~ Served' /\ Finished' = 0
    BY <1>1, <2>1 DEF MailInv, MailTypes, ReplyFields, NoReply, Served, Finished
  <2>3. CASE o \in ReadOptions
    <3>1. mail'.script = ImapScript(o)
      BY <2>1, <2>3, Zenon DEF Script, ReadOptions
    <3>2. Reading'
      BY <1>1, <2>1, <2>2, <2>3, <3>1, ImapSteps DEF Reading, NothingDone
    <3> QED BY <2>1, <2>2, <3>2 DEF MailInv, Talking, SentIsAccepted, MarkedWasShown
  <2>4. CASE o \in SendOptions
    <3>1. mail'.script = SmtpScript(o, config.upgrade)
      BY <2>1, <2>4, Zenon DEF Script, SendOptions
    <3>2. Sending'
      <4>1. /\ o.to \in Nat /\ Before(config.upgrade) \in Nat
            /\ Len(mail'.script) = Before(config.upgrade) + o.to + 2
        BY <2>4, <3>1, SmtpSteps DEF Before
      <4> QED BY <1>1, <2>1, <2>2, <2>4, <3>1, <4>1 DEF Sending, NothingDone
    <3> QED BY <2>1, <2>2, <3>2 DEF MailInv, Talking, SentIsAccepted, MarkedWasShown
  <2> QED BY <1>3, <2>3, <2>4, Zenon DEF Options
<1> QED BY <1>2, <1>3, Zenon DEF CallEmail

\* Mail arrives, is read or is deleted by others: the mailbox moves on.
LEMMA OthersKeep ==
  ASSUME MailInv, Talking, Reading, UNCHANGED <<mail, outbox, marked>>, Later(box, box'), DOMAIN box' = Mails
  PROVE  MailInv'
<1>1. mail.at > 5 => /\ mail.picked \subseteq Present(box')
                     /\ Shown(mail.rows, mail.picked, box) => Shown(mail.rows, mail.picked, box')
                     /\ Shown(mail.reply.rows, mail.picked, box) => Shown(mail.reply.rows, mail.picked, box')
  BY LaterShown, Zenon DEF Reading
<1>2. DOMAIN mail.reply.rows \subseteq Present(box) => DOMAIN mail.reply.rows \subseteq Present(box')
  BY Zenon DEF Later, Present
<1>3. Reading'
  BY <1>1, <1>2, ImapSteps DEF Reading, Served, Step
<1> QED BY <1>3, Zenon DEF MailInv, MailTypes, MailFields, ReplyFields, Talking, SentIsAccepted, MarkedWasShown,
                    NothingDone

\* The server answers a call that reads.
LEMMA ServeReading ==
  ASSUME MailInv, Talking, Reading, ServerReplies PROVE MailInv'
<1>1. MailTypes /\ mail.reply.is = "none" /\ marked = {} /\ ~ Served
  BY Zenon DEF MailInv, ServerReplies, Reading, Served
<1>2. /\ Step = "SEARCH" <=> mail.at = 5
      /\ Step = "HEADERS" <=> mail.at = 6
      /\ Step = "BODIES" => mail.at = 7
      /\ Step = "STORE" => mail.at > 6
      /\ Step # "RCPT" /\ Step # "BODY"
  BY ImapSteps DEF Reading, Step
<1> DEFINE Answered(is, rows) ==
      /\ MailFields(mail') /\ mail'.reply.is = is /\ mail'.reply.rows = rows /\ ReplyFields(mail'.reply)
      /\ mail'.at = mail.at /\ mail'.rows = mail.rows /\ mail'.opts = mail.opts
      /\ mail'.script = mail.script /\ mail'.picked = mail.picked /\ mail'.outcome = mail.outcome
<1>3. ASSUME NEW is, NEW rows, Replies(is, rows) PROVE Answered(is, rows)
  BY <1>1, <1>3, RepliesFields, Zenon
<1> HIDE DEF Answered
<1>4. SUFFICES Reading' /\ MailTypes' /\ Talking' 
  BY DEF MailInv, Talking, SentIsAccepted, MarkedWasShown
<1>5. CASE \E is \in {"no", "auth"} : Replies(is, <<>>) /\ UNCHANGED <<box, outbox, marked>>
  BY <1>1, <1>3, <1>5, Zenon DEF Reading, MailTypes, Talking, Served, Step, Answered
<1>6. CASE Serve /\ Step = "SEARCH"
  <2>1. \E rows : /\ Replies("ok", rows) /\ DOMAIN rows \subseteq Present(box)
                  /\ UNCHANGED <<box, outbox, marked>>
    BY <1>6, Zenon DEF Serve, InBox, Present
  <2> QED BY <1>1, <1>2, <1>3, <1>6, <2>1 DEF Reading, MailTypes, Talking, Served, Step, Answered
<1>7. CASE Serve /\ Step = "HEADERS"
  <2> DEFINE rows == Fetched([q \in Mails |-> Row(q, 0)])
  <2>1. Replies("ok", rows) /\ UNCHANGED <<box, outbox, marked>>
    BY <1>7, Zenon DEF Serve
  <2>2. Shown(rows, mail.picked, box)
    <3>1. mail.picked \subseteq Mails
      BY <1>2, <1>7 DEF Reading, Present
    <3> QED BY <3>1, Zenon DEF Shown, OwnRows, Fetched, Row, InBox
  <2> HIDE DEF rows
  <2> QED BY <1>1, <1>2, <1>3, <1>7, <2>1, <2>2 DEF Reading, MailTypes, Talking, Served, Step, Answered
<1>8. CASE Serve /\ Step = "BODIES"
  <2> DEFINE rows == Fetched([q \in Mails |-> Row(0, q)])
  <2>1. Replies("ok", rows) /\ UNCHANGED <<box, outbox, marked>>
    BY <1>8, Zenon DEF Serve
  <2>2. OwnRows(rows)
    BY Zenon DEF OwnRows, Fetched, Row, InBox
  <2> HIDE DEF rows
  <2> QED BY <1>1, <1>2, <1>3, <1>8, <2>1, <2>2 DEF Reading, MailTypes, Talking, Served, Step, Answered
<1>9. CASE Serve /\ Step = "STORE"
  <2> DEFINE new == {q \in mail.picked : box[q] = "unseen"}
  <2>1. /\ Replies("ok", <<>>) /\ marked' = marked \cup new /\ UNCHANGED outbox
        /\ box' = [q \in Mails |-> IF q \in new THEN "seen" ELSE box[q]]
    BY <1>9, Zenon DEF Serve, StoreSet
  <2>2. Later(box, box') /\ DOMAIN box' = Mails
    BY <2>1, Zenon DEF Later
  <2>3. Shown(mail.rows, mail.picked, box) /\ mail.picked \subseteq Present(box)
    BY <1>2, <1>9 DEF Reading
  <2>4. Shown(mail.rows, mail.picked, box') /\ mail.picked \subseteq Present(box')
    BY <2>2, <2>3, LaterShown, Zenon
  <2>5. \A q \in marked' : q \in DOMAIN mail.rows /\ mail.rows[q].header = q
    BY <1>1, <2>1, <2>3, Zenon DEF Shown
  <2>6. Answered("ok", <<>>)
    BY <1>3, <2>1, Zenon
  <2> HIDE DEF new
  <2> QED BY <1>1, <1>2, <1>9, <2>1, <2>2, <2>4, <2>5, <2>6, Zenon DEF Reading, MailTypes, Talking, Served,
                                                                Step, Answered
<1>10. CASE Serve /\ Step \notin {"SEARCH", "HEADERS", "BODIES", "STORE"}
  <2>1. Replies("ok", <<>>) /\ UNCHANGED <<box, outbox, marked>>
    BY <1>2, <1>10, Zenon DEF Serve
  <2> QED BY <1>1, <1>2, <1>3, <1>10, <2>1, Zenon DEF Reading, MailTypes, Talking, Served, Step, Answered
<1> QED BY <1>5, <1>6, <1>7, <1>8, <1>9, <1>10, Zenon DEF ServerReplies

\* What the server has done for a mail being sent, by the steps done.
Sent(ob, done, b, to) ==
    /\ ob.rcpts = IF done <= b THEN 0 ELSE IF done <= b + to THEN done - b ELSE to
    /\ ob.copies = IF done = b + to + 2 THEN 1 ELSE 0

\* The server answers a call that sends.
LEMMA ServeSending ==
  ASSUME MailInv, Talking, Sending, ServerReplies PROVE MailInv'
<1>1. MailTypes /\ mail.reply.is = "none" /\ ~ Served /\ mail.at \in Nat
  BY Zenon DEF MailInv, MailTypes, ServerReplies, Served
<1>2. PICK upgrade \in BOOLEAN : /\ mail.script = SmtpScript(mail.opts, upgrade)
                                 /\ Sent(outbox, Finished, Before(upgrade), mail.opts.to)
  BY Zenon DEF Sending, Sent
<1> DEFINE b == Before(upgrade)
           to == mail.opts.to
<1>3. /\ to \in Nat /\ b \in Nat
      /\ mail.at \in 1 .. b + to + 2
      /\ Step = "RCPT" <=> b < mail.at /\ mail.at <= b + to
      /\ Step = "BODY" <=> mail.at = b + to + 2
      /\ Step \notin {"SEARCH", "HEADERS", "BODIES", "STORE"}
  <2> DEFINE s == SmtpScript(mail.opts, upgrade)
  <2>1. /\ to \in Nat /\ b \in Nat /\ Len(s) = b + to + 2
        /\ \A i \in 1 .. Len(s) :
               /\ s[i] = "RCPT" <=> b < i /\ i <= b + to
               /\ s[i] = "BODY" <=> i = Len(s)
               /\ s[i] \notin {"SEARCH", "HEADERS", "BODIES", "STORE"}
    BY SmtpSteps DEF Sending, Before
  <2>2. mail.at \in 1 .. Len(s) /\ Step = s[mail.at]
    BY <1>2, Zenon DEF Sending, Step
  <2> HIDE DEF s, b, to
  <2> QED BY <2>1, <2>2, Zenon
<1>4. Sent(outbox, mail.at - 1, b, to)
  BY <1>1, <1>2, Zenon DEF Finished
<1> DEFINE Answered(is, rows) ==
      /\ MailFields(mail') /\ mail'.reply.is = is /\ mail'.reply.rows = rows /\ ReplyFields(mail'.reply)
      /\ mail'.at = mail.at /\ mail'.rows = mail.rows /\ mail'.opts = mail.opts
      /\ mail'.script = mail.script /\ mail'.picked = mail.picked /\ mail'.outcome = mail.outcome
<1>5. ASSUME NEW is, NEW rows, Replies(is, rows) PROVE Answered(is, rows)
  BY <1>1, <1>5, RepliesFields, Zenon
<1>6. ASSUME NEW is, Answered(is, <<>>), UNCHANGED <<box, marked>>, DOMAIN outbox' = {"rcpts", "copies"},
             Sent(outbox', IF is = "ok" THEN mail.at ELSE mail.at - 1, b, to)
      PROVE  MailInv'
  <2>1. Finished' = IF is = "ok" THEN mail.at ELSE mail.at - 1
    BY <1>6, Zenon DEF Finished, Served
  <2>2. Sending'
    BY <1>2, <1>6, <2>1, Zenon DEF Sending, Sent
  <2> QED BY <1>1, <1>6, <2>2 DEF MailInv, MailTypes, Talking, SentIsAccepted, MarkedWasShown
<1> HIDE DEF Answered, b, to
<1>7. CASE \E is \in {"no", "auth"} : Replies(is, <<>>) /\ UNCHANGED <<box, outbox, marked>>
  BY <1>1, <1>4, <1>5, <1>6, <1>7, Zenon DEF MailTypes
<1>8. CASE Serve /\ Step = "RCPT"
  <2>1. Replies("ok", <<>>) /\ UNCHANGED <<box, marked>> /\ outbox' = [outbox EXCEPT !.rcpts = @ + 1]
    BY <1>8, Zenon DEF Serve
  <2>2. /\ DOMAIN outbox' = {"rcpts", "copies"} /\ outbox'.rcpts = outbox.rcpts + 1
        /\ outbox'.copies = outbox.copies
    BY <1>1, <2>1, Zenon DEF MailTypes
  <2>3. Sent(outbox', mail.at, b, to)
    BY <1>1, <1>3, <1>4, <1>8, <2>2 DEF Sent
  <2> QED BY <1>5, <1>6, <2>1, <2>2, <2>3, Zenon
<1>9. CASE Serve /\ Step = "BODY"
  <2>1. Replies("ok", <<>>) /\ UNCHANGED <<box, marked>> /\ outbox' = [outbox EXCEPT !.copies = @ + 1]
    BY <1>9, Zenon DEF Serve
  <2>2. /\ DOMAIN outbox' = {"rcpts", "copies"} /\ outbox'.rcpts = outbox.rcpts
        /\ outbox'.copies = outbox.copies + 1
    BY <1>1, <2>1, Zenon DEF MailTypes
  <2>3. Sent(outbox', mail.at, b, to)
    BY <1>1, <1>3, <1>4, <1>9, <2>2 DEF Sent
  <2> QED BY <1>5, <1>6, <2>1, <2>2, <2>3, Zenon
<1>10. CASE Serve /\ Step \notin {"RCPT", "BODY"}
  <2>1. Replies("ok", <<>>) /\ UNCHANGED <<box, outbox, marked>>
    BY <1>3, <1>10, Zenon DEF Serve
  <2>2. Sent(outbox, mail.at, b, to)
    BY <1>1, <1>3, <1>4, <1>10 DEF Sent
  <2> QED BY <1>1, <1>5, <1>6, <2>1, <2>2, Zenon DEF MailTypes
<1> QED BY <1>7, <1>8, <1>9, <1>10, Zenon DEF ServerReplies

\* A call that sends reads the answer.
LEMMA ReadSending ==
  ASSUME MailInv, Talking, Sending, ReadReply PROVE MailInv'
<1>1. MailTypes /\ UNCHANGED <<box, noted, outbox, marked>> /\ mail.at \in Nat /\ mail.outcome = "none"
  BY Zenon DEF MailInv, MailTypes, ReadReply, CallOnly, Talking
<1>2. PICK upgrade \in BOOLEAN : /\ mail.script = SmtpScript(mail.opts, upgrade)
                                 /\ Sent(outbox, Finished, Before(upgrade), mail.opts.to)
  BY Zenon DEF Sending, Sent
<1> DEFINE b == Before(upgrade)
           to == mail.opts.to
<1>3. /\ to \in Nat /\ b \in Nat
      /\ Len(mail.script) = b + to + 2 /\ mail.at \in 1 .. b + to + 2
      /\ Step \notin {"SEARCH", "HEADERS", "BODIES", "STORE"}
  BY <1>2, SmtpSteps DEF Sending, Step, Before
<1>4. CASE IsExpected(Step, mail.reply.is)
  <2>1. Served /\ Finished = mail.at
    BY <1>4, Zenon DEF IsExpected, Served, Finished
  <2>2. /\ MailFields(mail') /\ mail'.reply = NoReply /\ mail'.opts = mail.opts /\ mail'.script = mail.script
        /\ mail'.rows = mail.rows
        /\ \/ mail'.outcome = "ok" /\ mail'.at = mail.at /\ mail.at = Len(mail.script)
           \/ mail'.outcome = "none" /\ mail'.at = mail.at + 1 /\ mail.at # Len(mail.script)
    BY <1>1, <1>3, <1>4, ReadFields, Zenon
  <2>3. MailTypes' /\ ~ Served'
    BY <1>1, <2>2 DEF MailTypes, ReplyFields, NoReply, Served
  <2>4. CASE mail'.outcome = "ok"
    <3>1. outbox.copies = 1 /\ outbox.rcpts = to
      BY <1>2, <1>3, <2>1, <2>2, <2>4 DEF Sent
    <3>2. mail'.rows = <<>> /\ marked' = {} /\ mail'.at # 0
      BY <1>1, <1>3, <2>2, <2>4 DEF Sending
    <3> QED BY <1>1, <2>2, <2>3, <2>4, <3>1, <3>2 DEF MailInv, Talking, SentIsAccepted, MarkedWasShown
  <2>5. CASE mail'.outcome = "none"
    <3>1. mail'.at = mail.at + 1 /\ mail.at # Len(mail.script) /\ Finished' = mail.at
      BY <1>1, <2>2, <2>3, <2>5 DEF Finished
    <3>2. Sending'
      BY <1>1, <1>2, <1>3, <2>1, <2>2, <3>1 DEF Sending, Sent
    <3> QED BY <1>1, <2>3, <2>5, <3>1, <3>2 DEF MailInv, Talking, SentIsAccepted, MarkedWasShown
  <2> QED BY <2>2, <2>4, <2>5, Zenon
<1>5. CASE ~ IsExpected(Step, mail.reply.is)
  <2>1. Fail(LooksLikeAuth(Step, mail.reply.is)) /\ ~ Served
    BY <1>5, Zenon DEF ReadReply, IsExpected, Served
  <2>2. /\ MailFields(mail') /\ mail'.reply = NoReply /\ mail'.at = mail.at
        /\ mail'.outcome = "error" \/ mail'.outcome = "browser"
    BY <1>1, <2>1, FailFields, Zenon
  <2>3. outbox.copies = 0 /\ marked = {}
    BY <1>1, <1>2, <1>3, <2>1 DEF Sending, Sent, Finished
  <2> QED BY <1>1, <1>3, <2>2, <2>3 DEF MailInv, MailTypes, ReplyFields, NoReply, Talking,
                                        SentIsAccepted, MarkedWasShown
<1> QED BY <1>4, <1>5, Zenon

\* The end of a read call.
LEMMA ReadEnds ==
  ASSUME MailInv, Talking, Reading, CallOnly, MailFields(mail'), mail'.reply = NoReply, mail'.at = mail.at,
         mail'.opts = mail.opts, mail'.outcome = "ok", OwnRows(mail'.rows),
         \A q \in marked : q \in DOMAIN mail'.rows /\ mail'.rows[q].header = q
  PROVE  MailInv'
<1>1. mail'.opts.kind = "read"
  BY Zenon DEF Reading, ReadOptions
<1> QED BY <1>1, Zenon DEF MailInv, MailTypes, ReplyFields, NoReply, CallOnly, Reading, Talking, SentIsAccepted,
                    MarkedWasShown, OwnRows

\* A call that reads mail reads the answer.
LEMMA ReadReading ==
  ASSUME MailInv, Talking, Reading, ReadReply PROVE MailInv'
<1>1. /\ MailTypes /\ UNCHANGED <<box, noted, outbox, marked>> /\ CallOnly /\ mail.at \in Nat
      /\ mail.outcome = "none"
  BY Zenon DEF MailInv, MailTypes, ReadReply, CallOnly, Talking
<1>2. /\ Step = "SEARCH" <=> mail.at = 5
      /\ Step = "HEADERS" <=> mail.at = 6
      /\ Step = "BODIES" => mail.at = 7
      /\ Step = "STORE" => mail.at > 6 /\ mail.at = Len(mail.script)
      /\ Len(mail.script) \in Nat /\ Len(mail.script) >= 6 /\ mail.at \in 1 .. Len(mail.script)
  BY ImapSteps DEF Reading, Step
<1>3. CASE ~ IsExpected(Step, mail.reply.is)
  <2>1. Fail(LooksLikeAuth(Step, mail.reply.is)) /\ ~ Served
    BY <1>3, Zenon DEF ReadReply, IsExpected, Served
  <2>2. /\ MailFields(mail') /\ mail'.reply = NoReply /\ mail'.at = mail.at
        /\ mail'.outcome = "error" \/ mail'.outcome = "browser"
    BY <1>1, <2>1, FailFields, Zenon
  <2>3. outbox.copies = 0 /\ marked = {}
    BY <2>1, Zenon DEF Reading
  <2> QED BY <1>1, <1>2, <2>2, <2>3
       DEF MailInv, MailTypes, ReplyFields, NoReply, Talking, SentIsAccepted, MarkedWasShown
<1>4. CASE IsExpected(Step, mail.reply.is)
  <2>1. Served
    BY <1>4, Zenon DEF IsExpected, Served
  <2>2. /\ MailFields(mail') /\ mail'.reply = NoReply
        /\ mail'.opts = mail.opts /\ mail'.script = mail.script
        /\ mail'.picked = IF Step = "SEARCH" THEN Newest(DOMAIN mail.reply.rows) ELSE mail.picked
        /\ mail'.rows = IF Step \in {"HEADERS", "BODIES"} THEN Merged(mail.rows, mail.reply.rows) ELSE mail.rows
        /\ \/ /\ mail'.outcome = "ok" /\ mail'.at = mail.at
              /\ mail.at = Len(mail.script) \/ (Step = "SEARCH" /\ mail'.picked = {})
           \/ mail'.outcome = mail.outcome /\ mail'.at = mail.at + 1 /\ mail.at # Len(mail.script)
    BY <1>1, <1>4, ReadFields, Zenon
  <2>3. mail.at < 6 => mail'.rows = <<>> /\ marked = {}
    BY <1>2, <2>2 DEF Reading
  <2>4. mail.at = 5 => mail'.picked \subseteq Present(box)
    BY <1>2, <2>1, <2>2, Zenon DEF Reading, Newest
  <2>5. mail.at >= 6 => Shown(mail'.rows, mail'.picked, box) /\ mail'.picked \subseteq Present(box)
    <3>1. CASE mail.at = 6
      <4>1. mail.rows = <<>> /\ Shown(mail.reply.rows, mail.picked, box) /\ mail.picked \subseteq Present(box)
        BY <2>1, <3>1 DEF Reading
      <4>2. mail'.rows = Merged(<<>>, mail.reply.rows) /\ mail'.picked = mail.picked
        BY <1>2, <2>2, <3>1, <4>1, Zenon
      <4> QED BY <4>1, <4>2, FirstShown, Zenon
    <3>2. CASE mail.at > 6 /\ Step = "BODIES"
      <4>1. Shown(mail.rows, mail.picked, box) /\ mail.picked \subseteq Present(box) /\ OwnRows(mail.reply.rows)
        BY <2>1, <3>2, <1>1 DEF Reading
      <4>2. mail'.rows = Merged(mail.rows, mail.reply.rows) /\ mail'.picked = mail.picked
        BY <2>2, <3>2, Zenon
      <4> QED BY <4>1, <4>2, MergedShown, Zenon
    <3>3. CASE mail.at > 6 /\ Step # "BODIES"
      <4>1. mail'.rows = mail.rows /\ mail'.picked = mail.picked
        BY <1>1, <1>2, <2>2, <3>3
      <4> QED BY <1>1, <3>3, <4>1 DEF Reading
    <3> QED BY <1>1, <3>1, <3>2, <3>3
  <2>6. \A q \in marked : q \in DOMAIN mail'.rows /\ mail'.rows[q].header = q
    <3>1. CASE Step = "STORE"
      <4>1. mail'.rows = mail.rows
        BY <2>2, <3>1, Zenon
      <4> QED BY <4>1, Zenon DEF Reading
    <3>2. CASE Step # "STORE"
      BY <3>2, Zenon DEF Reading
    <3> QED BY <3>1, <3>2, Zenon
  <2>7. CASE mail'.outcome = "ok"
    <3>1. mail'.at = mail.at
      BY <1>1, <2>2, <2>7, Zenon
    <3>2. OwnRows(mail'.rows)
      BY <1>1, <2>3, <2>5 DEF OwnRows, Shown
    <3> QED BY <1>1, <2>2, <2>6, <2>7, <3>1, <3>2, ReadEnds, Zenon
  <2>8. CASE mail'.outcome = "none" /\ mail'.at = mail.at + 1 /\ mail.at # Len(mail.script)
    <3>1. marked = {}
      BY <1>2, <2>8, Zenon DEF Reading
    <3>2. ~ Served'
      BY <2>2 DEF Served, NoReply
    <3>3. mail'.at > 5 => mail'.picked \subseteq Present(box)
      BY <1>1, <2>4, <2>5, <2>8
    <3>4. mail'.at > 6 => Shown(mail'.rows, mail'.picked, box)
      BY <1>1, <2>5, <2>8
    <3>5. mail'.at <= 6 => mail'.rows = <<>>
      BY <1>1, <2>3, <2>8
    <3>6. Reading'
      BY <1>1, <1>2, <2>2, <2>8, <3>1, <3>2, <3>3, <3>4, <3>5 DEF Reading
    <3> QED BY <1>1, <2>2, <2>8, <3>6
         DEF MailInv, MailTypes, ReplyFields, NoReply, Talking, SentIsAccepted, MarkedWasShown
  <2> QED BY <1>1, <2>2, <2>7, <2>8, Zenon
<1> QED BY <1>3, <1>4, Zenon

\* Every step of the call, of the server and of the others keeps MailInv.
LEMMA MailStep == MailInv /\ [MailNext]_mailVars => MailInv'
<1> SUFFICES ASSUME MailInv, [MailNext]_mailVars PROVE MailInv'
  BY Zenon
<1>1. ASSUME mail = NewMail, NEW o \in Options, NEW vault, NEW asked, NEW id, NEW over,
             CallEmail(o, vault, asked, ProviderConfig(id, over))
      PROVE  MailInv'
  <2>1. ProviderConfig(id, over).upgrade \in BOOLEAN
    BY Zenon DEF ProviderConfig
  <2> QED BY <1>1, <2>1, CallKeeps
<1>2. CASE ReadReply
  BY <1>2, ReadReading, ReadSending, Zenon DEF MailInv, ReadReply
<1>3. CASE ConnectFails \/ ReplyLost
  BY <1>3, ErrorKeeps, Zenon DEF ConnectFails, ReplyLost
<1>4. CASE ServerReplies
  BY <1>4, ServeReading, ServeSending, Zenon DEF MailInv, ServerReplies
<1>5. ASSUME Talking, mail.opts.kind = "read",
             MailArrives \/ \E q \in Mails : OthersRead(q) \/ OthersDelete(q)
      PROVE  MailInv'
  <2>1. Reading
    BY <1>5, Zenon DEF MailInv, Sending, SendOptions
  <2>2. UNCHANGED <<mail, outbox, marked>> /\ Later(box, box') /\ DOMAIN box' = Mails
    BY <1>5, Zenon DEF MailInv, MailTypes, MailArrives, OthersRead, OthersDelete, Later, InBox
  <2> QED BY <1>5, <2>1, <2>2, OthersKeep, Zenon
<1>6. CASE UNCHANGED mailVars
  <2>1. UNCHANGED <<mail, box, noted, outbox, marked>>
    BY <1>6, Zenon DEF mailVars
  <2>2. Talking => (Reading \/ Sending)'
    BY <2>1, Zenon DEF MailInv, Reading, Sending, Served, Finished, Step
  <2> QED BY <2>1, <2>2, Zenon DEF MailInv, MailTypes, NothingDone, Talking, SentIsAccepted, MarkedWasShown
<1> QED BY <1>1, <1>2, <1>3, <1>4, <1>5, <1>6 DEF MailNext

\* The invariant of the mailbox tool, for any mailboxes, mails and limits.
THEOREM MailSpecKeeps == MailSpec => []MailInv
BY MailStarts, MailStep, PTL DEF MailSpec

\* email-tool.ts, sending: for any number of recipients and both ways to connect,
\* a call that reports success has sent one mail that the server accepted for
\* each of them, and one that falls back to the browser has sent none.
THEOREM SentMailIsAccepted == MailSpec => []SentIsAccepted
<1>1. MailInv => SentIsAccepted
  BY Zenon DEF MailInv
<1> QED BY <1>1, MailSpecKeeps, PTL

\* email-tool.ts, reading: for any mailbox and whatever others do to it, what a
\* call marked as seen is in its result under its own headers, and a call that
\* falls back to the browser marked nothing.
THEOREM MarkedMailWasShown == MailSpec => []MarkedWasShown
<1>1. MailInv => MarkedWasShown
  BY Zenon DEF MailInv
<1> QED BY <1>1, MailSpecKeeps, PTL

-----------------------------------------------------------------------------
(* The sign-in to a site.                                                  *)

LoginSteps == {"look", "enter", "lookAgain", "frames", "identifier", "password", "passwordNext",
               "secret", "submit", "enterKey", "press", "select"}
MfaSteps == {"codeFrames", "digits", "digitsEnter", "input", "codeButton", "codeEnter"}
Reporting == {"probe", "probeAgain", "snapshot"}
Asking == Codes \cup {"prompt"}

\* What the proof needs of the types.
LoginFields(l) == {"op", "at", "mode", "frame", "submitted", "mfa", "outcome"} \subseteq DOMAIN l
SiteFields(w) == {"view", "late", "typed", "pw"} \subseteq DOMAIN w
LoginTypes == LoginFields(login) /\ SiteFields(site) /\ sent \in Nat /\ submits \in Nat

\* A site that asks for a code, or is about to, has sent one.
AskedMeansSent == site.view \in Asking \/ site.late \in Asking => sent > 0

\* A call that has pressed nothing yet that took effect, one that has, and one
\* that is about to report.
NothingYet == ~ lost => submits = 0
OnceAtMost == ~ lost /\ submits > 0 => submits = 1 /\ (login.submitted \/ login.mode = "passwordless")
CodeIsMeant ==
    login.op = "login" =>
        /\ login.mfa => sent > 0
        /\ login.mode = "passwordless" /\ login.submitted => login.mfa

CallInv ==
    /\ login.at \in {"idle"} \cup LoginSteps \cup MfaSteps \cup Reporting
    /\ login.at \in MfaSteps => login.op = "mfa"
    /\ login.at \in LoginSteps \cup MfaSteps => NothingYet
    /\ login.at \in Reporting => OnceAtMost
    /\ At("snapshot") => CodeIsMeant
    /\ LoginReportIsTrue

LoginInv == LoginTypes /\ AskedMeansSent /\ CallInv

\* Before the first call nothing is submitted or sent.
LEMMA LoginStarts == LoginInit => LoginInv
BY DEF LoginInit, LoginInv, LoginTypes, LoginFields, SiteFields, NoLogin, LoginSteps, MfaSteps,
       Reporting, Asking,
       Codes, AskedMeansSent, CallInv, LoginReportIsTrue, At

SameCall(l, m) == l.op = m.op /\ l.mode = m.mode /\ l.submitted = m.submitted /\ l.mfa = m.mfa

\* The call goes on: its fields after the step.
LEMMA GoesOnFields ==
  ASSUME LoginFields(login), NEW at, GoesOn(at)
  PROVE  LoginFields(login') /\ login'.at = at /\ SameCall(login, login')
BY Zenon DEF LoginFields, GoesOn, SameCall

\* The call ends: its fields after the step.
LEMMA EndsFields ==
  ASSUME LoginFields(login), NEW outcome, Ends(outcome)
  PROVE  LoginFields(login') /\ login'.at = "idle" /\ login'.outcome = outcome /\ SameCall(login, login')
BY Zenon DEF LoginFields, Ends, SameCall

\* The site shows another view.
LEMMA ShowsFields ==
  ASSUME SiteFields(site), NEW v, Shows(v)
  PROVE  SiteFields(site') /\ site'.view = v /\ site'.late = "none"
BY Zenon DEF SiteFields, Shows

\* A call that has pressed nothing looks, types or gives up.
LEMMA Quietly ==
  ASSUME LoginInv, LoginFields(login'), SiteFields(site'), SameCall(login, login'),
         UNCHANGED <<sent, submits, lost>>, site'.view = site.view, site'.late = site.late,
         login.at \in LoginSteps \cup MfaSteps,
         \/ login.at \in LoginSteps /\ login'.at \in LoginSteps
         \/ login.at \in MfaSteps /\ login'.at \in MfaSteps
         \/ login'.at = "idle" /\ login'.outcome # "ok"
  PROVE  LoginInv'
BY DEF LoginInv, LoginTypes, AskedMeansSent, CallInv, NothingYet, SameCall, LoginReportIsTrue, At,
       LoginSteps, MfaSteps, Reporting

\* A call that presses something has submitted at most once, and knows it, or has
\* lost the answer.
LEMMA Pressing ==
  ASSUME LoginInv, LoginTypes', AskedMeansSent', login'.op = login.op,
         \/ login.at \in LoginSteps /\ login'.at \in LoginSteps \cup {"probe"}
         \/ login.at \in MfaSteps /\ login'.at \in MfaSteps \cup {"snapshot"},
         \/ ~ lost' => submits' = 0
         \/ (~ lost' => submits' <= 1) /\ login'.submitted /\ login'.at \in {"probe", "snapshot"}
  PROVE  LoginInv'
BY DEF LoginInv, LoginTypes, CallInv, NothingYet, OnceAtMost, CodeIsMeant, LoginReportIsTrue, At,
       LoginSteps, MfaSteps, Reporting

\* What pressing does to the site.
Effect(hit) ==
    /\ SiteFields(site') /\ sent' \in Nat /\ submits' \in Nat /\ AskedMeansSent'
    /\ submits' = submits \/ (hit /\ submits' = submits + 1)

\* What pressing does to the site, on the form.
LEMMA PressedEffect == ASSUME LoginInv, Pressed PROVE Effect(FormHit)
BY DEF LoginInv, LoginTypes, SiteFields, AskedMeansSent, Effect, Pressed, SiteGets, Asking, Codes

\* What pressing does to the site, on the form for a code.
LEMMA PressedCodeEffect == ASSUME LoginInv, PressedCode PROVE Effect(CodeHit)
BY DEF LoginInv, LoginTypes, SiteFields, AskedMeansSent, Effect, PressedCode, SiteGetsCode, Asking, Codes

\* A click that never reached the page.
LEMMA NoEffect == ASSUME LoginInv, UNCHANGED <<site, sent, submits>> PROVE Effect(FALSE)
BY Zenon DEF LoginInv, LoginTypes, AskedMeansSent, Effect, SiteFields, Asking

\* The call takes note that it submitted.
LEMMA SubmittedFields ==
  ASSUME LoginFields(login), NEW at, login' = Submitted(at)
  PROVE  LoginFields(login') /\ login'.at = at /\ login'.submitted /\ login'.op = login.op
BY Zenon DEF LoginFields, Submitted

\* Strikes, with the answer that the step reports and the step it goes on with.
LEMMA StrikesKeep ==
  ASSUME LoginInv, NEW done, NEW at,
         \/ login.at \in LoginSteps /\ done = "probe" /\ at \in LoginSteps \cup {"probe"}
         \/ login.at \in MfaSteps /\ done = "snapshot" /\ at \in MfaSteps \cup {"snapshot"},
         \/ Strikes(FormHit, Pressed, Submitted(done), at)
         \/ Strikes(CodeHit, PressedCode, Submitted(done), at)
         \/ GoesOn(at) /\ UNCHANGED <<site, sent, submits, lost>>
  PROVE  LoginInv'
<1>1. NothingYet /\ LoginFields(login)
  BY Zenon DEF LoginInv, CallInv, LoginTypes
<1>2. /\ SiteFields(site') /\ sent' \in Nat /\ submits' \in Nat /\ AskedMeansSent'
      /\ \/ login' = Submitted(done) /\ (~ lost' => submits' <= 1)
         \/ GoesOn(at) /\ (~ lost' => submits' = 0)
  <2>1. CASE GoesOn(at) /\ UNCHANGED <<site, sent, submits, lost>>
    BY <1>1, <2>1, NoEffect, Zenon DEF Effect, NothingYet
  <2>2. CASE Strikes(FormHit, Pressed, Submitted(done), at)
    <3>1. CASE Pressed /\ login' = Submitted(done) /\ lost' = lost
      BY <1>1, <3>1, PressedEffect DEF Effect, NothingYet
    <3>2. CASE Pressed /\ GoesOn(at) /\ lost' = (lost \/ FormHit)
      BY <1>1, <3>2, PressedEffect, Zenon DEF Effect, NothingYet
    <3> QED BY <2>1, <2>2, <3>1, <3>2, Zenon DEF Strikes
  <2>3. CASE Strikes(CodeHit, PressedCode, Submitted(done), at)
    <3>1. CASE PressedCode /\ login' = Submitted(done) /\ lost' = lost
      BY <1>1, <3>1, PressedCodeEffect DEF Effect, NothingYet
    <3>2. CASE PressedCode /\ GoesOn(at) /\ lost' = (lost \/ CodeHit)
      BY <1>1, <3>2, PressedCodeEffect, Zenon DEF Effect, NothingYet
    <3> QED BY <2>1, <2>3, <3>1, <3>2, Zenon DEF Strikes
  <2> QED BY <2>1, <2>2, <2>3, Zenon
<1>3. CASE login' = Submitted(done) /\ (~ lost' => submits' <= 1)
  BY <1>1, <1>2, <1>3, SubmittedFields, Pressing, Zenon DEF LoginTypes
<1>4. CASE GoesOn(at) /\ (~ lost' => submits' = 0)
  BY <1>1, <1>2, <1>4, GoesOnFields, Pressing, Zenon DEF LoginTypes, SameCall
<1> QED BY <1>2, <1>3, <1>4, Zenon

\* A look into the frames.
LEMMA FrameFields ==
  ASSUME LoginFields(login), NEW at, NEW frame, login' = [login EXCEPT !.at = at, !.frame = frame]
  PROVE  LoginFields(login') /\ login'.at = at /\ SameCall(login, login')
BY Zenon DEF LoginFields, SameCall

\* Text typed into a field changes no view.
LEMMA TypesIn ==
  ASSUME SiteFields(site), NEW typed, site' = [site EXCEPT !.typed = typed]
  PROVE  SiteFields(site') /\ site'.view = site.view /\ site'.late = site.late
BY Zenon DEF SiteFields

\* A step that leaves the site alone.
LEMMA SiteStays ==
  ASSUME LoginInv
  PROVE  LoginFields(login) /\ SiteFields(site) /\ (UNCHANGED site => SiteFields(site'))
BY Zenon DEF LoginInv, LoginTypes, SiteFields

\* Looking for the form changes the call only.
LEMMA LookKeeps == 
  ASSUME LoginInv, LookForIdentifier \/ LookAgain \/ LookInFrames \/ LookForCodeFrame PROVE LoginInv'
<1>1. CASE LookForIdentifier
  BY <1>1, SiteStays, GoesOnFields, Quietly, Zenon DEF LookForIdentifier, Looks, At, LoginSteps
<1>2. CASE LookAgain
  BY <1>2, SiteStays, GoesOnFields, Quietly, Zenon DEF LookAgain, Looks, At, LoginSteps
<1>3. CASE LookInFrames
  <2>1. CASE IdentifierIn(TRUE)
    BY <1>3, <2>1, SiteStays, FrameFields, Quietly, Zenon DEF LookInFrames, Looks, At, LoginSteps
  <2>2. CASE ~ IdentifierIn(TRUE)
    <3>1. \E outcome \in {"stuck", "human", "error"} : Ends(outcome)
      BY <1>3, <2>2, Zenon DEF LookInFrames
    <3>2. login.at \in LoginSteps /\ UNCHANGED <<site, sent, submits, lost>>
      BY <1>3, Zenon DEF LookInFrames, Looks, At, LoginSteps
    <3> QED BY <3>1, <3>2, SiteStays, EndsFields, Quietly, Zenon
  <2> QED BY <2>1, <2>2, Zenon
<1>4. CASE LookForCodeFrame
  BY <1>4, SiteStays, FrameFields, Quietly, Zenon DEF LookForCodeFrame, Looks, At, MfaSteps
<1> QED BY <1>1, <1>2, <1>3, <1>4, Zenon

\* So does typing, for what the site shows.
LEMMA TypingKeeps ==
  ASSUME LoginInv, FillIdentifier \/ FillPassword \/ TypeDigits \/ TypeCode PROVE LoginInv'
<1>1. CASE FillIdentifier
  BY <1>1, SiteStays, GoesOnFields, EndsFields, TypesIn, Quietly DEF FillIdentifier, At, LoginSteps
<1>2. CASE FillPassword
  BY <1>2, SiteStays, GoesOnFields, EndsFields, TypesIn, Quietly DEF FillPassword, At, LoginSteps
<1>3. CASE TypeDigits
  BY <1>3, SiteStays, GoesOnFields, TypesIn, Quietly, Zenon DEF TypeDigits, At, MfaSteps
<1>4. CASE TypeCode
  BY <1>4, SiteStays, GoesOnFields, EndsFields, TypesIn, Quietly DEF TypeCode, At, MfaSteps
<1> QED BY <1>1, <1>2, <1>3, <1>4, Zenon

\* The button that leads to the form, and x.com's second step, change the page too.
LEMMA LeadingKeeps == ASSUME LoginInv, PressEntry \/ LookForPassword PROVE LoginInv'
<1>1. CASE PressEntry
  <2>1. CASE UNCHANGED site
    BY <1>1, <2>1, SiteStays, GoesOnFields, Quietly, Zenon DEF PressEntry, At, LoginSteps
  <2>2. ASSUME NEW v \in Forms, GoesOn("lookAgain"), Shows(v) PROVE LoginInv'
    <3>1. /\ LoginTypes' /\ AskedMeansSent' /\ login'.op = login.op
          /\ login'.at \in LoginSteps /\ login.at \in LoginSteps
      BY <1>1, <2>2, SiteStays, GoesOnFields, ShowsFields, Zenon
         DEF PressEntry, LoginInv, LoginTypes, AskedMeansSent, SameCall, Forms, Asking, Codes, At,
             LoginSteps
    <3>2. ~ lost' => submits' = 0
      BY <1>1, <3>1, Zenon DEF PressEntry, LoginInv, CallInv, NothingYet
    <3> QED BY <3>1, <3>2, Pressing, Zenon
  <2> QED BY <1>1, <2>1, <2>2, Zenon DEF PressEntry
<1>2. CASE LookForPassword
  <2>1. CASE UNCHANGED site
    BY <1>2, <2>1, SiteStays, GoesOnFields, EndsFields, Quietly DEF LookForPassword, At, LoginSteps
  <2>2. CASE GoesOn("passwordNext") /\ site' = [site EXCEPT !.pw = TRUE]
    <3>1. SiteFields(site') /\ site'.view = site.view /\ site'.late = site.late
      BY <2>2, SiteStays, Zenon DEF SiteFields
    <3> QED BY <1>2, <2>2, <3>1, SiteStays, GoesOnFields, Quietly, Zenon DEF LookForPassword, LoginSteps
  <2> QED BY <1>2, <2>1, <2>2, Zenon DEF LookForPassword
<1> QED BY <1>1, <1>2, Zenon

\* The form is submitted, in one of the ways there are.
LEMMA PressingKeeps ==
  ASSUME LoginInv, SubmitNearest \/ PressEnter \/ PressButton \/ PressSelector PROVE LoginInv'
<1>1. CASE SubmitNearest
  BY <1>1, StrikesKeep, Zenon DEF SubmitNearest, At, LoginSteps
<1>2. CASE PressEnter
  BY <1>2, StrikesKeep, Zenon DEF PressEnter, At, LoginSteps
<1>3. CASE PressButton
  BY <1>3, StrikesKeep, Zenon DEF PressButton, PressAny, At, LoginSteps
<1>4. CASE PressSelector
  BY <1>4, StrikesKeep, Zenon DEF PressSelector, PressAny, At, LoginSteps
<1> QED BY <1>1, <1>2, <1>3, <1>4, Zenon

\* So is the form for the code.
LEMMA CodePressingKeeps ==
  ASSUME LoginInv, PressDigitsEnter \/ PressCodeButton \/ PressCodeEnter PROVE LoginInv'
<1>1. CASE PressDigitsEnter
  <2>1. login.at \in MfaSteps /\ login' = Submitted("snapshot") /\ lost' = lost
    BY <1>1, Zenon DEF PressDigitsEnter, At, MfaSteps
  <2>2. /\ SiteFields(site') /\ sent' \in Nat /\ submits' \in Nat /\ AskedMeansSent'
        /\ ~ lost => submits' <= 1
    <3>1. CASE PressedCode
      BY <2>1, <3>1, PressedCodeEffect DEF Effect, LoginInv, CallInv, NothingYet
    <3>2. CASE UNCHANGED <<site, sent, submits>>
      BY <2>1, <3>2, NoEffect DEF Effect, LoginInv, CallInv, NothingYet
    <3> QED BY <1>1, <3>1, <3>2, Zenon DEF PressDigitsEnter
  <2> QED BY <2>1, <2>2, SiteStays, SubmittedFields, Pressing, Zenon DEF LoginTypes
<1>2. CASE PressCodeButton
  BY <1>2, StrikesKeep, Zenon DEF PressCodeButton, At, MfaSteps
<1>3. CASE PressCodeEnter
  BY <1>3, StrikesKeep, Zenon DEF PressCodeEnter, At, MfaSteps
<1> QED BY <1>1, <1>2, <1>3, Zenon

\* The page is looked at after the form was submitted.
LEMMA ProbeKeeps == ASSUME LoginInv, Probe PROVE LoginInv'
<1>1. LoginFields(login) /\ UNCHANGED <<site, sent, submits, lost>> /\ OnceAtMost
  BY Zenon DEF Probe, Looks, LoginInv, LoginTypes, CallInv, Reporting
<1>2. LoginTypes' /\ AskedMeansSent'
  <2>1. LoginFields(login')
    BY <1>1, Zenon DEF Probe, Report, LoginFields
  <2> QED BY <1>1, <2>1, Zenon DEF LoginInv, LoginTypes, AskedMeansSent, SiteFields
<1>3. AsksForCode => sent > 0
  BY Zenon DEF LoginInv, AskedMeansSent, AsksForCode, Asking, Codes
<1>4. CASE ~ AsksForCode /\ login.mode = "passwordless" /\ login.submitted
  <2>1. login'.at = "probeAgain" /\ login'.mode = "passwordless"
    BY <1>1, <1>4, Zenon DEF Probe, LoginFields
  <2> QED BY <1>1, <1>2, <2>1, Zenon DEF LoginInv, CallInv, OnceAtMost, LoginReportIsTrue, At, LoginSteps,
                                  MfaSteps, Reporting
<1>5. CASE ~ (~ AsksForCode /\ login.mode = "passwordless" /\ login.submitted)
  <2>1. /\ login'.at = "snapshot" /\ login'.mode = login.mode /\ login'.submitted = login.submitted
        /\ login'.mfa = (AsksForCode \/ (login.mode = "passwordless" /\ login.submitted))
    BY <1>1, <1>5, Zenon DEF Probe, Report, LoginFields
  <2>2. OnceAtMost' /\ CodeIsMeant'
    BY <1>1, <1>3, <1>5, <2>1, Zenon DEF OnceAtMost, CodeIsMeant
  <2> QED BY <1>2, <2>1, <2>2, Zenon DEF LoginInv, CallInv, LoginReportIsTrue, At, LoginSteps, MfaSteps, Reporting
<1> QED BY <1>4, <1>5, Zenon

\* The report is made from the last look at the page.
LEMMA SnapshotKeeps == ASSUME LoginInv, SnapshotAfter PROVE LoginInv'
<1>1. At("snapshot") /\ UNCHANGED <<site, sent, submits, lost>> /\ OnceAtMost /\ CodeIsMeant
  BY Zenon DEF SnapshotAfter, Looks, LoginInv, CallInv, At, Reporting
<1>2. /\ LoginFields(login') /\ login'.at = "idle" /\ login'.outcome \in {"ok", "unseen"}
      /\ SameCall(login, login')
  BY SiteStays, EndsFields, Zenon DEF SnapshotAfter
<1>3. LoginTypes' /\ AskedMeansSent'
  BY <1>1, <1>2, Zenon DEF LoginInv, LoginTypes, AskedMeansSent, SiteFields
<1> QED BY <1>1, <1>2, <1>3, Zenon DEF LoginInv, CallInv, OnceAtMost, CodeIsMeant, SameCall, LoginReportIsTrue, At,
                                LoginSteps, MfaSteps, Reporting

\* A call begins, or throws at once.
LEMMA BeginKeeps ==
  ASSUME LoginInv, NEW r, BeginCall(r), LoginFields(r),
         \/ r.at = "idle" /\ r.outcome # "ok"
         \/ r.at = "look"
         \/ r.at = "codeFrames" /\ r.op = "mfa"
  PROVE  LoginInv'
BY DEF BeginCall, LoginInv, LoginTypes, AskedMeansSent, SiteFields, CallInv, NothingYet,
       LoginReportIsTrue, At,
       LoginSteps, MfaSteps, Reporting

\* A sign-in begins.
LEMMA BeginLoginKeeps ==
  ASSUME LoginInv, NEW vault, NEW candidates, NEW ofHost, NEW x, BeginLogin(vault, candidates, ofHost, x)
  PROVE  LoginInv'
<1> DEFINE new == [NoLogin EXCEPT !.op = "login", !.x = x]
<1>1. LoginFields([new EXCEPT !.outcome = "error"]) /\ [new EXCEPT !.outcome = "error"].at = "idle"
      /\ [new EXCEPT !.outcome = "error"].outcome = "error"
  BY Zenon DEF LoginFields, NoLogin
<1>2. ASSUME NEW s PROVE LoginFields([new EXCEPT !.at = "look", !.mode = vault[s]])
                         /\ [new EXCEPT !.at = "look", !.mode = vault[s]].at = "look"
  BY Zenon DEF LoginFields, NoLogin
<1>3. CASE BeginCall([new EXCEPT !.outcome = "error"])
  BY <1>1, <1>3, BeginKeeps, Zenon
<1>4. CASE \E s : BeginCall([new EXCEPT !.at = "look", !.mode = vault[s]])
  BY <1>2, <1>4, BeginKeeps, Zenon
<1> QED BY <1>3, <1>4, Zenon DEF BeginLogin

\* A code is brought.
LEMMA BeginMfaKeeps ==
  ASSUME LoginInv, BeginMfaWithout \/ \E code : BeginMfa(code) PROVE LoginInv'
<1>1. CASE BeginMfaWithout
  BY <1>1, BeginKeeps, Zenon DEF BeginMfaWithout, LoginFields, NoLogin
<1>2. ASSUME NEW code, BeginMfa(code) PROVE LoginInv'
  BY <1>2, BeginKeeps, Zenon DEF BeginMfa, LoginFields, NoLogin
<1> QED BY <1>1, <1>2, Zenon

\* The site goes on by itself: it asks for a code only after it has sent one.
LEMMA SiteKeeps == ASSUME LoginInv, SiteAnswers \/ SiteMoves PROVE LoginInv'
<1>1. UNCHANGED <<login, sent, submits, lost>>
  BY Zenon DEF SiteAnswers, SiteMoves
<1>2. \E v : Shows(v) /\ (v \in Asking => sent > 0)
  BY Zenon DEF SiteAnswers, SiteMoves, LoginInv, AskedMeansSent, Asking, Unasked, Codes
<1>3. SiteFields(site') /\ AskedMeansSent'
  BY <1>1, <1>2, SiteStays, ShowsFields, Zenon DEF AskedMeansSent, Asking, Codes
<1> QED BY <1>1, <1>3, ZenonT(60) DEF LoginInv, LoginTypes, LoginFields, CallInv, NothingYet, OnceAtMost,
                          CodeIsMeant, LoginReportIsTrue, At

\* Every step of a call and of the site keeps LoginInv.
LEMMA LoginStep == LoginInv /\ [LoginNext]_loginVars => LoginInv'
<1> SUFFICES ASSUME LoginInv, [LoginNext]_loginVars PROVE LoginInv'
  BY Zenon
<1>1. CASE UNCHANGED loginVars
  BY <1>1, Zenon DEF loginVars, LoginInv, LoginTypes, LoginFields, SiteFields, AskedMeansSent, CallInv, NothingYet,
              OnceAtMost, CodeIsMeant, LoginReportIsTrue, At
<1> QED BY <1>1, BeginLoginKeeps, BeginMfaKeeps, LookKeeps, TypingKeeps, LeadingKeeps, PressingKeeps,
           CodePressingKeeps, ProbeKeeps, SnapshotKeeps, SiteKeeps, Zenon DEF LoginNext

\* browser-tool.ts, login and mfa: for any number of codes, moves of the page and
\* calls, what a finished call says is true of the site.  Unless an await failed
\* after its click took effect, it submitted at most once and says so or calls it
\* unconfirmed, and one that wants a code met a site that has sent one.
THEOREM LoginReportsTruly == LoginSpec => []LoginReportIsTrue
<1>1. LoginInv => LoginReportIsTrue
  BY Zenon DEF LoginInv, CallInv
<1> QED BY LoginStarts, LoginStep, <1>1, PTL DEF LoginSpec
=============================================================================
