---------------------------- MODULE ProgressRelay ----------------------------
(***************************************************************************)
(* createTelegramProgressRelay (channels/telegram.ts): the relay that      *)
(* lives as long as one telegram message is handled.  It collects what the *)
(* assistant says into batches, sends them from timers through one chain   *)
(* of sends, and is closed before the reply is sent.                       *)
(*                                                                         *)
(* Two kinds of timers are kept in one variable, flushTimer: the one of    *)
(* scheduleFlush, which resets the variable when it fires, and the one     *)
(* flush arms for what is left, which does not.  A timer whose handle was  *)
(* overwritten stays armed.                                                *)
(***************************************************************************)
EXTENDS Naturals, Sequences

CONSTANTS
    MaxProgress,   \* MAX_PROGRESS_MESSAGES
    BatchLines,    \* BATCH_LINES
    MaxTexts       \* bound on the texts of the assistant during one turn

VARIABLES
    said,        \* number of texts the assistant has produced
    queue,       \* texts waiting; a text is its number
    sentCount,
    recent,      \* less than 450 ms since the last message was sent
    flushTimer,  \* what the variable holds: "null", the kind of an armed
                 \* timer, or "fired"
    armed,       \* [schedule, rearm]: timers that will fire
    chain,       \* sendChain: messages to be sent; a captcha notice is <<>>
    closing,     \* "no", or how far close is: "flushing", "draining", "closed"
    awaited,     \* messages of the chain that close waits for
    delivered    \* history: texts that were sent, in order

vars == <<said, queue, sentCount, recent, flushTimer, armed, chain, closing, awaited, delivered>>

Init ==
    /\ said = 0 /\ queue = <<>> /\ sentCount = 0 /\ recent = FALSE
    /\ flushTimer = "null" /\ armed = [schedule |-> 0, rearm |-> 0]
    /\ chain = <<>> /\ closing = "closed" /\ awaited = 0 /\ delivered = <<>>

Fresh(state) ==
    /\ said' = 0 /\ queue' = <<>> /\ sentCount' = 0 /\ recent' = FALSE
    /\ flushTimer' = "null" /\ armed' = [schedule |-> 0, rearm |-> 0]
    /\ chain' = <<>> /\ closing' = state /\ awaited' = 0 /\ delivered' = <<>>

\* A message is accepted: createTelegramProgressRelay.
Create == Fresh("no")

\* Nothing refers to the relay any more but timers that close did not clear.
Forget == Fresh("closed")

Open == closing = "no"

\* scheduleFlush, unless a timer is known or the relay is closed.
ScheduleFlush ==
    IF flushTimer = "null"
    THEN flushTimer' = "schedule" /\ armed' = [armed EXCEPT !.schedule = @ + 1]
    ELSE UNCHANGED <<flushTimer, armed>>

\* Mutant: the limit is not looked at when a batch is taken.
FlushWithoutLimit ==
    LET n == IF Len(queue) < BatchLines THEN Len(queue) ELSE BatchLines IN
    IF queue = <<>>
    THEN UNCHANGED <<queue, sentCount, chain>>
    ELSE /\ sentCount' = sentCount + 1
         /\ queue' = SubSeq(queue, n + 1, Len(queue))
         /\ chain' = Append(chain, SubSeq(queue, 1, n))

\* The part of flush before its await: one batch goes to the chain.  At the limit
\* what is queued is discarded.
Flush ==
    LET n == IF Len(queue) < BatchLines THEN Len(queue) ELSE BatchLines IN
    IF queue = <<>> \/ sentCount >= MaxProgress
    THEN queue' = <<>> /\ UNCHANGED <<sentCount, chain>>
    ELSE /\ sentCount' = sentCount + 1
         /\ queue' = SubSeq(queue, n + 1, Len(queue))
         /\ chain' = Append(chain, SubSeq(queue, 1, n))

\* An event with a text that is new; it is dropped right after a send and once
\* the limit is reached.
Text ==
    /\ Open /\ said < MaxTexts
    /\ said' = said + 1
    /\ \/ /\ sentCount < MaxProgress /\ ~ recent
          /\ queue' = Append(queue, said')
          /\ ScheduleFlush
       \/ /\ sentCount >= MaxProgress \/ recent
          /\ UNCHANGED <<queue, flushTimer, armed>>
    /\ UNCHANGED <<sentCount, recent, chain, closing, awaited, delivered>>

\* The end of a tracked screenshot of a captcha: a photo or a notice is sent.
Captcha ==
    /\ Open /\ said < MaxTexts
    /\ said' = said + 1
    /\ chain' = Append(chain, <<>>)
    /\ UNCHANGED <<queue, sentCount, recent, flushTimer, armed, closing, awaited, delivered>>

\* The timer of scheduleFlush.
ScheduledTimer ==
    /\ armed.schedule > 0
    /\ armed' = [armed EXCEPT !.schedule = @ - 1]
    /\ flushTimer' = "null"
    /\ Flush
    /\ UNCHANGED <<said, recent, closing, awaited, delivered>>

\* The timer armed by flush itself: flushTimer keeps its handle.
RearmedTimer ==
    /\ armed.rearm > 0
    /\ armed' = [armed EXCEPT !.rearm = @ - 1]
    /\ flushTimer' = IF flushTimer = "rearm" THEN "fired" ELSE flushTimer
    /\ Flush
    /\ UNCHANGED <<said, recent, closing, awaited, delivered>>

\* Mutant: what is left waits for the next text.
AfterSendNothing == UNCHANGED <<flushTimer, armed>>

\* The end of flush, once its message is sent: what is left waits for a timer.
AfterSend ==
    IF Open /\ queue # <<>> /\ sentCount < MaxProgress
    THEN flushTimer' = "rearm" /\ armed' = [armed EXCEPT !.rearm = @ + 1]
    ELSE UNCHANGED <<flushTimer, armed>>

\* The first message of the chain is sent, or sending it fails and is ignored.
Send ==
    /\ chain # <<>>
    /\ chain' = Tail(chain)
    /\ awaited' = IF awaited > 0 THEN awaited - 1 ELSE 0
    /\ \/ /\ Head(chain) = <<>>
          /\ UNCHANGED <<recent, flushTimer, armed, delivered>>
       \/ /\ Head(chain) # <<>>
          /\ \/ delivered' = delivered \o Head(chain) /\ recent' = TRUE
             \/ UNCHANGED <<delivered, recent>>
          /\ AfterSend
    /\ UNCHANGED <<said, queue, sentCount, closing>>

TimePasses ==
    /\ recent
    /\ recent' = FALSE
    /\ UNCHANGED <<said, queue, sentCount, flushTimer, armed, chain, closing, awaited, delivered>>

\* close: handleMessage has settled.  Only the timer in flushTimer is cleared,
\* and the last flush waits for the chain if it has added to it.
Close ==
    /\ Open
    /\ closing' = "flushing"
    /\ armed' = IF flushTimer \in DOMAIN armed
                THEN [armed EXCEPT ![flushTimer] = @ - 1] ELSE armed
    /\ flushTimer' = "null"
    /\ Flush
    /\ awaited' = IF chain' = chain THEN 0 ELSE Len(chain')
    /\ UNCHANGED <<said, recent, delivered>>

\* Mutant: close first waits until the queue is empty.
DrainQueue ==
    /\ closing = "flushing" /\ awaited = 0 /\ queue = <<>>
    /\ closing' = "draining"
    /\ awaited' = Len(chain)
    /\ UNCHANGED <<said, queue, sentCount, recent, flushTimer, armed, chain, delivered>>

\* close then waits for what the chain holds by now.
Drain ==
    /\ closing = "flushing" /\ awaited = 0
    /\ closing' = "draining"
    /\ awaited' = Len(chain)
    /\ UNCHANGED <<said, queue, sentCount, recent, flushTimer, armed, chain, delivered>>

MayClose == closing = "draining" /\ awaited = 0

Closed ==
    /\ MayClose
    /\ closing' = "closed"
    /\ UNCHANGED <<said, queue, sentCount, recent, flushTimer, armed, chain, awaited, delivered>>

\* The steps the relay takes by itself while it is open or being closed.
Relay == Text \/ Captcha \/ ScheduledTimer \/ RearmedTimer \/ Send \/ TimePasses \/ Drain

-----------------------------------------------------------------------------
(* What the bridge's properties say of the relay.                          *)

WithinLimit ==
    /\ sentCount <= MaxProgress
    /\ Len(delivered) <= sentCount * BatchLines

Ordered == \A i, j \in 1..Len(delivered) : i < j => delivered[i] < delivered[j]

\* Texts are queued below the limit, and no send is under way.
Waiting == Open /\ queue # <<>> /\ chain = <<>> /\ sentCount < MaxProgress
=============================================================================
