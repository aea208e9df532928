-------------------------- MODULE SessionTranscript --------------------------
(***************************************************************************)
(* What provider/session.ts keeps of a run's messages: dropping of empty   *)
(* error stubs and malformed tool calls, pairing of tool results with      *)
(* their calls (agents/session-transcript-repair.ts), and the limit on the *)
(* length.  The messages of a run, or of a file that an older version or a *)
(* user has edited, are built one at a time in any order.                  *)
(***************************************************************************)
EXTENDS ArrayFilter, Functions

CONSTANTS
    Ids,         \* tool-call ids
    Alphabet,    \* the messages transcripts are made of
    MaxSession,  \* MAX_SESSION_MESSAGES
    MaxRaw       \* bound on the messages of a run

VARIABLE messages

-----------------------------------------------------------------------------
(* Messages.  An assistant message has text, or not, and calls; a call is  *)
(* malformed if its id, name or input is missing.                          *)

Bad == "malformed"

User == [role |-> "user"]
ToolResult(id) == [role |-> "toolResult", id |-> id]
Assistant(stop, text, calls) ==
    [role |-> "assistant", stop |-> stop, text |-> text, calls |-> calls]

IsAssistant(m) == m.role = "assistant"
IsResult(m) == m.role = "toolResult"

IsMessage(m) ==
    \/ m = User
    \/ \E id \in Ids : m = ToolResult(id)
    \/ /\ IsAssistant(m)
       /\ m.stop \in {"stop", "error", "aborted"} /\ m.text \in BOOLEAN /\ m.calls \in Seq(Ids \cup {Bad})
       /\ m = Assistant(m.stop, m.text, m.calls)

ASSUME TranscriptAssumption ==
    (\A m \in Alphabet : IsMessage(m)) /\ MaxSession \in Nat \ {0} /\ MaxRaw \in Nat

-----------------------------------------------------------------------------
(* The steps of sanitizeSessionTranscript.                                 *)

IsProviderErrorStub(m) ==
    IsAssistant(m) /\ m.stop = "error" /\ ~ m.text /\ m.calls = <<>>

WithoutStubs(ms) == InOrder(ms, {i \in DOMAIN ms : ~ IsProviderErrorStub(ms[i])})

\* repairToolCallInputs: malformed calls go, and the message with them if it
\* has nothing else.
RepairInputs(ms) ==
    LET wellFormed(m) == InOrder(m.calls, {c \in DOMAIN m.calls : m.calls[c] # Bad})
        broken(m) == IsAssistant(m) /\ Bad \in Range(m.calls)
        repaired(m) == IF broken(m) THEN [m EXCEPT !.calls = wellFormed(m)] ELSE m
        kept == {i \in DOMAIN ms : broken(ms[i]) => (ms[i].text \/ wellFormed(ms[i]) # <<>>)}
        rest == InOrder(ms, kept)
    IN  [i \in 1..Len(rest) |-> repaired(rest[i])]

\* The positions after the i-th up to the next assistant.
Span(ms, i) == {j \in i + 1..Len(ms) : \A k \in i + 1..j : ~ IsAssistant(ms[k])}

\* The results found for a list of calls, once each, in the order of the calls.
ResultsFor(calls, found) ==
    LET firsts == {i \in DOMAIN calls : calls[i] \in found /\ \A j \in 1..i - 1 : calls[j] # calls[i]}
        answered == InOrder(calls, firsts)
    IN  [k \in 1..Len(answered) |-> ToolResult(answered[k])]

\* The calls of an assistant message that can be answered.
CallsOf(m) == IF m.stop \in {"error", "aborted"} THEN <<>> ELSE m.calls

ResultIds(ms, i) == {ms[j].id : j \in {j \in Span(ms, i) : IsResult(ms[j])}}

\* What a span holds besides results, the remainder.
Remainder(ms, i) == InOrder(ms, {j \in Span(ms, i) : ~ IsResult(ms[j])})

\* Mutant: the other messages of a span are lost when results are moved.
RepairSpanDropsRest(acc, ms, i) ==
    LET calls == CallsOf(ms[i])
        found == (ResultIds(ms, i) \cap Range(calls)) \ acc.seen
    IN  [out |-> acc.out \o <<ms[i]>> \o ResultsFor(calls, found),
         seen |-> acc.seen \cup found,
         changed |-> acc.changed \/ ResultIds(ms, i) # found]

\* One round of the loop of repairToolUseResultPairing, for the assistant at i:
\* acc is [out, seen, changed].
RepairSpan(acc, ms, i) ==
    LET calls == CallsOf(ms[i])
        found == (ResultIds(ms, i) \cap Range(calls)) \ acc.seen
    IN  [out |-> acc.out \o <<ms[i]>> \o ResultsFor(calls, found) \o Remainder(ms, i),
         seen |-> acc.seen \cup found,
         changed |-> \/ acc.changed
                     \/ ResultIds(ms, i) # found
                     \/ found # {} /\ Remainder(ms, i) # <<>>
                     \/ \E c, d \in DOMAIN calls : c # d /\ calls[c] = calls[d] /\ calls[c] \in found]

\* A round for any message: what follows an assistant went with its span, and
\* a result before the first one is an orphan.
RepairMessage(acc, ms, i) ==
    IF IsAssistant(ms[i]) THEN RepairSpan(acc, ms, i)
    ELSE IF \E h \in 1..i - 1 : IsAssistant(ms[h]) THEN acc
    ELSE IF IsResult(ms[i]) THEN [acc EXCEPT !.changed = TRUE]
    ELSE [acc EXCEPT !.out = Append(acc.out, ms[i])]

Rounds(ms) ==
    LET upTo[i \in 0..Len(ms)] ==
          IF i = 0 THEN [out |-> <<>>, seen |-> {}, changed |-> FALSE]
          ELSE RepairMessage(upTo[i - 1], ms, i)
    IN  upTo

\* repairToolUseResultPairing, without synthetic results: results move behind
\* their call, others go.  What did not change is returned as it was, so that a
\* second result for a call in one span stays unless something else changed.
RepairPairing(ms) ==
    LET repaired == Rounds(ms)[Len(ms)]
    IN  IF repaired.changed THEN repaired.out ELSE ms

DropLeadingResults(ms) ==
    LET talk == {i \in 1..Len(ms) : ~ IsResult(ms[i])}
    IN  IF talk = {} THEN <<>>
        ELSE SubSeq(ms, CHOOSE i \in talk : \A j \in talk : i <= j, Len(ms))

Sanitize(ms) ==
    DropLeadingResults(RepairPairing(RepairInputs(WithoutStubs(ms))))

Latest(ms) ==
    IF Len(ms) > MaxSession THEN SubSeq(ms, Len(ms) - MaxSession + 1, Len(ms)) ELSE ms

\* Mutant: the trimmed transcript is not sanitized again.
SavedUntrimmed(ms) == Latest(Sanitize(ms))

\* saveSessionMessages and loadSessionMessages.
Saved(ms) == Sanitize(Latest(Sanitize(ms)))

\* Mutant: loading applies the limit too, and keeps one message less.
ReloadedLatest(ms) == Sanitize(IF Len(ms) < MaxSession THEN ms ELSE Tail(ms))

Reloaded(ms) == Sanitize(ms)

-----------------------------------------------------------------------------
TranscriptInit == messages = <<>>

Push(m) == Len(messages) < MaxRaw /\ messages' = Append(messages, m)

TranscriptNext == \E m \in Alphabet : Push(m)

TranscriptSpec == TranscriptInit /\ [][TranscriptNext]_messages

-----------------------------------------------------------------------------
(* Properties.                                                             *)

\* Each result answers a call of the assistant message it directly follows.
Paired(ms) ==
    \A k \in 1..Len(ms) :
        IsResult(ms[k]) =>
            \E j \in 1..k - 1 :
                /\ IsAssistant(ms[j]) /\ ms[j].stop = "stop"
                /\ ms[k].id \in Range(ms[j].calls)
                /\ \A i \in j + 1..k : IsResult(ms[i])

\* What is saved has no result without its call, at the cut made by the limit
\* either ("Never start a persisted transcript with a tool result").
SavedIsPaired ==
    LET saved == Saved(messages) IN Paired(saved) /\ Len(saved) <= MaxSession

\* Loading gives back what was saved, and saving that again changes nothing: a
\* session does not erode by being opened.
SavedIsStable ==
    LET saved == Saved(messages) IN Reloaded(saved) = saved /\ Saved(saved) = saved

Talk(ms) == InOrder(ms, {i \in DOMAIN ms : ~ IsResult(ms[i])})

\* Saving loses nothing it need not: the conversation, apart from tool results,
\* keeps its messages and their order (what is saved is its latest part), and a
\* transcript that needs no repair and fits is saved with all its results (a
\* batch of them is put in the order of its calls when something follows it).
TalkIsKept ==
    LET talk == Talk(RepairInputs(WithoutStubs(messages)))
        saved == Saved(messages)
        savedTalk == Talk(saved)
        distinct == \A j, k \in 1..Len(messages) :
            /\ IsResult(messages[j]) /\ IsResult(messages[k]) /\ j # k
            => messages[j].id # messages[k].id
        wellFormed == \A k \in 1..Len(messages) :
            IsAssistant(messages[k]) => /\ Bad \notin Range(messages[k].calls)
                                        /\ ~ IsProviderErrorStub(messages[k])
    IN  /\ Len(savedTalk) <= Len(talk)
        /\ savedTalk = SubSeq(talk, Len(talk) - Len(savedTalk) + 1, Len(talk))
        /\ Paired(messages) /\ distinct /\ wellFormed /\ Len(messages) <= MaxSession
              => Len(saved) = Len(messages) /\ Range(saved) = Range(messages)
=============================================================================
