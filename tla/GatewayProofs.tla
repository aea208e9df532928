--------------------------- MODULE GatewayProofs ---------------------------
(***************************************************************************)
(* The gateway and the page it serves.  What becomes of transcripts and    *)
(* answers, for any number of sessions and requests, every configuration   *)
(* and any number of crashes; and for any number of sockets, messages and  *)
(* incidents, that a message of the page runs once, that undisturbed       *)
(* messages run one at a time in the order typed, and that a sign-in to a  *)
(* provider that the page reports was saved.                               *)
(***************************************************************************)
EXTENDS Gateway, WebChat, CodexSignIn, TLAPS

-----------------------------------------------------------------------------
(* Requests and transcripts.                                               *)

LEMMA SessionOfTurn == \A t \in Turns : t[1] \in Requests /\ SessionOf[t[1]] \in Sessions
  BY GatewayAssumption DEF Turns

LEMMA ChatsAreRequests == Chats \subseteq Requests
  BY DEF Requests

\* The two ways in which the catch blocks of processChatMessage end.
LEMMA RecoverCases ==
    ASSUME NEW r, NEW leg, NEW kind, NEW runs, Recover(r, leg, kind, runs)
    PROVE  \/ \E next \in {"fallback", "resume"} :
                 /\ Enter(r, next, runs)
                 /\ leg = "primary"
                 /\ next = "resume" => AutoResume(kind)
           \/ Return(r, "provider_error") /\ run' = runs
  BY DEF Recover

-----------------------------------------------------------------------------
(* Answers.                                                                *)

AnswerInv == DOMAIN reply = Requests /\ AnswersAreWritten

LEMMA OtherReplies ==
    ASSUME AnswerInv, written \subseteq written',
           \/ UNCHANGED reply
           \/ \E r \in Requests : \E kind : kind # "answer" /\ reply' = [reply EXCEPT ![r] = kind]
    PROVE  AnswerInv'
  BY ChatsAreRequests DEF AnswerInv, AnswersAreWritten

LEMMA ReturnKeeps ==
    ASSUME AnswerInv, UNCHANGED written, NEW r \in Requests, NEW kind, Return(r, kind),
           kind # "answer"
    PROVE  AnswerInv'
  BY OtherReplies DEF Return

\* An answer reaches its channel only when its turn has been written
\* (saveSessionMessages comes before the return of chatWithProvider).
THEOREM AnswersAreKept == Spec => []AnswersAreWritten
  <1>1. Init => AnswerInv
    BY ChatsAreRequests DEF Init, AnswerInv, AnswersAreWritten
  <1>2. AnswerInv /\ [Next]_vars => AnswerInv'
    <2> SUFFICES ASSUME AnswerInv, [Next]_vars PROVE AnswerInv'
      OBVIOUS
    <2> USE DEF history, handler
    <2>1. ASSUME NEW r \in Requests, Receive(r) \/ Inject(r) \/ StartPrimary(r) PROVE AnswerInv'
      BY <2>1, OtherReplies DEF Receive, Inject, StartPrimary, Enter
    <2>2. ASSUME NEW r \in Requests, Reset(r) \/ Erase(r) PROVE AnswerInv'
      BY <2>2, ReturnKeeps DEF Reset, Erase, Unlink
    <2>3. ASSUME NEW r \in Requests, SetupAnswers(r) \/ CannotRun(r) \/ InjectFails(r)
          PROVE  AnswerInv'
      BY <2>3, ReturnKeeps DEF SetupAnswers, CannotRun, InjectFails
    <2>4. ASSUME NEW r \in Requests, GatewayTimesOut(r) PROVE AnswerInv'
      BY <2>4, OtherReplies, Zenon DEF GatewayTimesOut
    <2>5. ASSUME NEW r \in Requests, NEW leg, NEW kind, NEW runs, Recover(r, leg, kind, runs),
                 UNCHANGED written
          PROVE  AnswerInv'
      BY <2>5, RecoverCases, ReturnKeeps, OtherReplies, Zenon DEF Enter
    <2>6. ASSUME NEW r \in Requests, NEW leg, LegTimesOut(r, leg) PROVE AnswerInv'
      BY <2>5, <2>6 DEF LegTimesOut
    <2>7. ASSUME NEW t \in Turns, Load(t) \/ BeginSave(t) PROVE AnswerInv'
      BY <2>7, OtherReplies DEF Load, BeginSave
    <2>8. ASSUME NEW t \in Turns, EndSave(t) PROVE AnswerInv'
      <3>1. t[1] \in Requests /\ t[2] \in Legs /\ t = <<t[1], t[2]>>
        BY DEF Turns
      <3>2. written' = written \cup {t}
        BY <2>8 DEF EndSave
      <3>3. UNCHANGED reply \/ \E kind : reply' = [reply EXCEPT ![t[1]] = kind]
        BY <2>8, ZenonT(60) DEF EndSave, Deliver, Return
      <3> QED
        BY <3>1, <3>2, <3>3, ChatsAreRequests, Zenon DEF AnswerInv, AnswersAreWritten
    <2>9. ASSUME NEW t \in Turns, Pause(t) PROVE AnswerInv'
      BY <2>9, SessionOfTurn, ReturnKeeps, OtherReplies DEF Pause, Deliver
    <2>10. ASSUME NEW t \in Turns, Fail(t) PROVE AnswerInv'
      BY <2>5, <2>10, SessionOfTurn, OtherReplies DEF Fail
    <2>11. CASE Crash
      BY <2>11, ChatsAreRequests DEF Crash, AnswerInv, AnswersAreWritten
    <2>12. CASE UNCHANGED vars
      BY <2>12, OtherReplies DEF vars
    <2> QED
      BY <2>1, <2>2, <2>3, <2>4, <2>6, <2>7, <2>8, <2>9, <2>10, <2>11, <2>12 DEF Next, HandlerStep
  <1>3. AnswerInv => AnswersAreWritten
    BY DEF AnswerInv
  <1> QED
    BY <1>1, <1>2, <1>3, PTL DEF Spec

-----------------------------------------------------------------------------
(* Auto-resume.                                                            *)

\* No run of a request has started before its handler goes on.
NotBegun ==
    \A r \in Requests :
        phase[r] \in {"idle", "received"} => \A leg \in Legs : run[<<r, leg>>] = "idle"

ResumeInv ==
    /\ DOMAIN phase = Requests /\ DOMAIN run = Turns
    /\ NotBegun
    /\ ResumeRunsAlone

\* Steps that start no run.
LEMMA NothingStarts ==
    ASSUME ResumeInv, DOMAIN phase' = Requests, DOMAIN run' = Turns,
           \A r \in Requests :
              phase'[r] \in {"idle", "received"} => phase[r] \in {"idle", "received"},
           \A t \in Turns : /\ run[t] = "idle" => run'[t] = "idle"
                            /\ run[t] \in {"failed", "killed"} => run'[t] = run[t]
    PROVE  ResumeInv'
  BY ChatsAreRequests DEF ResumeInv, NotBegun, ResumeRunsAlone, Turns, Legs

\* Steps that start one: a first run only when none has begun, and the resuming
\* run only when the first has failed.
LEMMA OneStarts ==
    ASSUME ResumeInv, NEW r \in Requests, NEW leg \in Legs, NEW runs,
           Enter(r, leg, runs), DOMAIN runs = Turns,
           \A t \in Turns : runs[t] = run[t] \/ (run[t] # "idle" /\ runs[t] = "failed"),
           leg = "primary" => phase[r] \in {"idle", "received"},
           leg = "resume" => runs[<<r, "primary">>] = "failed"
    PROVE  ResumeInv'
  <1> <<r, leg>> \in Turns
    BY DEF Turns
  <1>1. /\ DOMAIN phase' = Requests /\ DOMAIN run' = Turns
        /\ \A t \in Turns : run'[t] = IF t = <<r, leg>> THEN "starting" ELSE runs[t]
        /\ \A q \in Requests : phase'[q] = IF q = r THEN leg ELSE phase[q]
    BY DEF Enter, ResumeInv
  <1>2. NotBegun'
    <2> SUFFICES ASSUME NEW q \in Requests, phase'[q] \in {"idle", "received"}, NEW l \in Legs
                 PROVE  run'[<<q, l>>] = "idle"
      BY DEF NotBegun
    <2>1. q # r /\ <<q, l>> \in Turns /\ phase[q] \in {"idle", "received"}
      BY <1>1 DEF Turns, Legs
    <2> QED
      BY <1>1, <2>1 DEF ResumeInv, NotBegun
  <1>3. ASSUME NEW q \in Chats, run'[<<q, "resume">>] # "idle"
        PROVE  run'[<<q, "primary">>] \in {"failed", "killed"}
    <2> /\ q \in Requests /\ <<q, "resume">> \in Turns /\ <<q, "primary">> \in Turns
      BY ChatsAreRequests DEF Turns, Legs
    <2>1. CASE q = r /\ leg = "primary"
      BY <1>1, <1>3, <2>1, ZenonT(90) DEF ResumeInv, NotBegun, Legs
    <2>2. CASE q = r /\ leg = "resume"
      BY <1>1, <2>2
    <2>3. CASE q # r \/ leg \notin {"primary", "resume"}
      BY <1>1, <1>3, <2>3 DEF ResumeInv, ResumeRunsAlone
    <2> QED
      BY <2>1, <2>2, <2>3
  <1> QED
    BY <1>1, <1>2, <1>3 DEF ResumeInv, ResumeRunsAlone

\* An auto-resume never works beside the run it resumes: it starts only on an
\* error which that run itself threw (shouldAutoResumeAfterProviderError).
THEOREM ResumesAlone == Spec => []ResumeRunsAlone
  <1>1. Init => ResumeInv
    BY ChatsAreRequests DEF Init, ResumeInv, NotBegun, ResumeRunsAlone, Turns, Legs
  <1>2. ResumeInv /\ [Next]_vars => ResumeInv'
    <2> SUFFICES ASSUME ResumeInv, [Next]_vars PROVE ResumeInv'
      OBVIOUS
    <2> USE DEF handler
    <2>0. DOMAIN phase = Requests /\ DOMAIN run = Turns
      BY DEF ResumeInv
    <2>1. ASSUME NEW r \in Requests, Receive(r) \/ GatewayTimesOut(r) PROVE ResumeInv'
      BY <2>0, <2>1, NothingStarts DEF Receive, GatewayTimesOut
    <2>2. ASSUME NEW r \in Requests, Inject(r) \/ StartPrimary(r) PROVE ResumeInv'
      <3>1. \E leg \in {"inject", "primary"} : Enter(r, leg, run) /\ phase[r] \in {"idle", "received"}
        BY <2>2 DEF Inject, StartPrimary
      <3> QED
        BY <2>0, <3>1, OneStarts, Zenon DEF Legs
    <2>3. ASSUME NEW r \in Requests, Reset(r) \/ Erase(r) PROVE ResumeInv'
      <3>1. \E gone : Unlink(gone)
        BY <2>3 DEF Reset, Erase
      <3>2. DOMAIN run' = Turns /\ \A t \in Turns : run[t] \in {"idle", "failed", "killed"} => run'[t] = run[t]
        BY <3>1 DEF Unlink, Writers
      <3>3. DOMAIN phase' = Requests /\ \A q \in Requests : phase'[q] \in {"over", phase[q]}
        BY <2>0, <2>3 DEF Reset, Erase, Return
      <3> QED
        BY <3>2, <3>3, NothingStarts
    <2>4. ASSUME NEW r \in Requests, SetupAnswers(r) \/ CannotRun(r) \/ InjectFails(r)
          PROVE  ResumeInv'
      BY <2>0, <2>4, NothingStarts DEF SetupAnswers, CannotRun, InjectFails, Return, Saving
    <2>5. ASSUME NEW r \in Requests, NEW leg \in Legs, LegTimesOut(r, leg) PROVE ResumeInv'
      <3>1. ~ AutoResume("timeout")
        BY DEF AutoResume
      <3>2. CASE Enter(r, "fallback", run)
        BY <2>0, <3>2, OneStarts, Zenon DEF Legs
      <3>3. CASE Return(r, "provider_error") /\ run' = run
        BY <2>0, <3>3, NothingStarts DEF Return
      <3> QED
        BY <2>5, <3>1, <3>2, <3>3 DEF LegTimesOut, Recover
    <2>6. ASSUME NEW t \in Turns, Load(t) \/ EndSave(t) \/ Pause(t) PROVE ResumeInv'
      BY <2>0, <2>6, NothingStarts, Zenon DEF Load, EndSave, Pause, Deliver, Return, Saving
    <2>7. ASSUME NEW t \in Turns, BeginSave(t) PROVE ResumeInv'
      BY <2>0, <2>7, NothingStarts DEF BeginSave, Writers
    <2>8. ASSUME NEW t \in Turns, Fail(t) PROVE ResumeInv'
      <3> DEFINE runs == [run EXCEPT ![t] = "failed"]
      <3>1. /\ t[1] \in Requests /\ t = <<t[1], t[2]>>
            /\ run[t] \in {"starting", "loaded"} \cup Saving
            /\ DOMAIN runs = Turns
            /\ \A u \in Turns : runs[u] = IF u = t THEN "failed" ELSE run[u]
        BY <2>0, <2>8 DEF Fail, Turns
      <3>2. \/ \E kind : Recover(t[1], t[2], kind, runs)
            \/ run' = runs /\ UNCHANGED handler
        BY <2>8 DEF Fail
      <3> HIDE DEF runs
      <3>3. CASE \E next \in {"fallback", "resume"} :
                   t[2] = "primary" /\ Enter(t[1], next, runs)
        BY <3>1, <3>3, OneStarts DEF Legs, Saving
      <3>4. CASE run' = runs /\ (Return(t[1], "provider_error") \/ UNCHANGED handler)
        BY <2>0, <3>1, <3>4, NothingStarts DEF Return, Saving
      <3> QED
        BY <3>2, <3>3, <3>4, RecoverCases
    <2>9. CASE Crash
      BY <2>0, <2>9, NothingStarts DEF Crash, Saving
    <2>10. CASE UNCHANGED vars
      BY <2>0, <2>10, NothingStarts DEF vars
    <2> QED
      BY <2>1, <2>2, <2>3, <2>4, <2>5, <2>6, <2>7, <2>8, <2>9, <2>10
      DEF Next, HandlerStep, Legs
  <1>3. ResumeInv => ResumeRunsAlone
    BY DEF ResumeInv
  <1> QED
    BY <1>1, <1>2, <1>3, PTL DEF Spec

-----------------------------------------------------------------------------
(* Transcripts.                                                            *)

Held == {"loaded"} \cup Saving

\* In a session without overlap the file holds the log, damaged or not; one run
\* at most holds the transcript, nobody opened or unlinked the file under it,
\* and its copy is the log.
LoneHolder ==
    \A s \in Sessions \ overlap :
        /\ file[s].turns = log[s]
        /\ \A t, u \in Turns :
              SessionOf[t[1]] = s /\ SessionOf[u[1]] = s /\ run[t] \in Held /\ run[u] \in Held
                 => t = u
        /\ \A t \in Turns :
              SessionOf[t[1]] = s /\ run[t] \in Held
                 => run[t] \in {"loaded", "saving"} /\ copy[t] = log[s]

TurnsInv ==
    /\ DOMAIN run = Turns /\ DOMAIN copy = Turns
    /\ DOMAIN file = Sessions /\ DOMAIN log = Sessions
    /\ \A s \in Sessions : {"whole", "turns"} \subseteq DOMAIN file[s]
    /\ LoneHolder

\* Steps that touch no file and give nobody a transcript.
LEMMA NobodyLoads ==
    ASSUME TurnsInv, UNCHANGED <<file, log, overlap>>,
           DOMAIN run' = Turns, DOMAIN copy' = Turns,
           \A t \in Turns : run'[t] \in Held => run'[t] = run[t] /\ copy'[t] = copy[t]
    PROVE  TurnsInv'
  BY DEF TurnsInv, LoneHolder

\* The same when a handler goes on with another run.
LEMMA EnterKeepsTurns ==
    ASSUME TurnsInv, UNCHANGED <<file, log, overlap>>, DOMAIN copy' = Turns,
           NEW r, NEW leg, NEW runs, Enter(r, leg, runs), DOMAIN runs = Turns,
           \A t \in Turns : runs[t] \in Held => runs[t] = run[t] /\ copy'[t] = copy[t]
    PROVE  TurnsInv'
  <1>1. DOMAIN run' = Turns /\ \A t \in Turns : run'[t] \in {"starting", runs[t]}
    BY DEF Enter
  <1>2. "starting" \notin Held
    BY DEF Held, Saving
  <1> QED
    BY <1>1, <1>2, NobodyLoads

LEMMA LoadKeepsTurns == ASSUME TurnsInv, NEW t \in Turns, Load(t) PROVE TurnsInv'
  <1> DEFINE s == SessionOf[t[1]]
  <1>1. /\ UNCHANGED <<file, log>> /\ overlap \subseteq overlap'
        /\ DOMAIN run' = Turns /\ DOMAIN copy' = Turns
        /\ run'[t] = "loaded"
        /\ \A u \in Turns \ {t} : run'[u] = run[u] /\ copy'[u] = copy[u]
    BY DEF Load, TurnsInv
  <1>2. s \notin overlap' => /\ copy'[t] = file[s].turns
                             /\ \A u \in Turns : SessionOf[u[1]] = s => run[u] \notin Held
    BY SessionOfTurn DEF Load, TurnsInv, Holders, Held
  <1> HIDE DEF s
  <1>3. ASSUME NEW q \in Sessions \ overlap', q # s PROVE \A u \in Turns : SessionOf[u[1]] = q => u # t
    BY <1>3 DEF s
  <1>4. LoneHolder'
    BY <1>1, <1>2, <1>3 DEF TurnsInv, LoneHolder
  <1> QED
    BY <1>1, <1>4 DEF TurnsInv

LEMMA BeginSaveKeepsTurns == ASSUME TurnsInv, NEW t \in Turns, BeginSave(t) PROVE TurnsInv'
  <1> DEFINE s == SessionOf[t[1]]
  <1>0. s \in Sessions
    BY SessionOfTurn
  <1>1. /\ UNCHANGED <<log, overlap, copy>> /\ run[t] = "loaded"
        /\ DOMAIN run' = Turns /\ DOMAIN file' = Sessions
        /\ \A q \in Sessions : {"whole", "turns"} \subseteq DOMAIN file'[q]
        /\ \A q \in Sessions : file'[q].turns = file[q].turns
    BY <1>0 DEF BeginSave, TurnsInv, history
  <1>2. \A u \in Turns : (run'[u] \in Held <=> run[u] \in Held)
    BY <1>1 DEF BeginSave, Writers, Held, Saving
  <1>3. \A u \in Turns : SessionOf[u[1]] # s => run'[u] = run[u]
    BY ZenonT(60) DEF BeginSave, Writers
  <1>4. s \notin overlap => \A u \in Turns : SessionOf[u[1]] = s /\ run[u] \in Held => u = t
    BY <1>0, <1>1 DEF TurnsInv, LoneHolder, Held
  <1>5. s \notin overlap => Writers(s) = {}
    BY <1>1, <1>4 DEF Writers, Held, Saving
  <1>6. s \notin overlap => run'[t] = "saving"
    BY <1>5 DEF BeginSave
  <1> HIDE DEF s
  <1>7. LoneHolder'
    BY <1>1, <1>2, <1>3, <1>4, <1>6 DEF TurnsInv, LoneHolder
  <1> QED
    BY <1>1, <1>7 DEF TurnsInv

LEMMA EndSaveKeepsTurns == ASSUME TurnsInv, NEW t \in Turns, EndSave(t) PROVE TurnsInv'
  <1> DEFINE s == SessionOf[t[1]]
  <1>0. s \in Sessions
    BY SessionOfTurn
  <1>1. /\ UNCHANGED overlap /\ run[t] \in Held
        /\ DOMAIN run' = Turns /\ DOMAIN copy' = Turns /\ run'[t] = "done"
        /\ \A u \in Turns \ {t} : run'[u] = run[u] /\ copy'[u] = copy[u]
    BY DEF EndSave, TurnsInv, Held
  <1>2. CASE run[t] = "orphaned"
    BY <1>1, <1>2, NobodyLoads, ZenonT(60) DEF EndSave, Held, Saving
  <1>3. CASE run[t] # "orphaned"
    <2>1. /\ DOMAIN file' = Sessions /\ DOMAIN log' = Sessions
          /\ file'[s].turns = Append(copy[t], t) /\ log'[s] = Append(log[s], t)
          /\ {"whole", "turns"} \subseteq DOMAIN file'[s]
          /\ \A q \in Sessions \ {s} : file'[q] = file[q] /\ log'[q] = log[q]
      <3>1. PICK w : file' = [file EXCEPT ![s] = [whole |-> w, turns |-> Append(copy[t], t)]]
        BY <1>3, Zenon DEF EndSave
      <3>2. log' = [log EXCEPT ![s] = Append(@, t)]
        BY <1>3, Zenon DEF EndSave
      <3> HIDE DEF s
      <3> QED
        BY <1>0, <3>1, <3>2 DEF TurnsInv
    <2>2. s \notin overlap => /\ copy[t] = log[s]
                              /\ \A u \in Turns : SessionOf[u[1]] = s /\ run[u] \in Held => u = t
      BY <1>0, <1>1 DEF TurnsInv, LoneHolder
    <2>3. "done" \notin Held
      BY ZenonT(60) DEF Held, Saving
    <2> HIDE DEF s
    <2>4. LoneHolder'
      BY <1>1, <2>1, <2>2, <2>3, SMTT(60) DEF TurnsInv, LoneHolder
    <2> QED
      BY <1>1, <2>1, <2>4, ZenonT(60) DEF TurnsInv
  <1> QED
    BY <1>2, <1>3, ZenonT(60)

LEMMA UnlinkKeepsTurns ==
    ASSUME TurnsInv, NEW gone \in SUBSET Sessions, Unlink(gone) PROVE TurnsInv'
  <1>1. /\ UNCHANGED copy /\ overlap \subseteq overlap'
        /\ DOMAIN run' = Turns /\ DOMAIN file' = Sessions /\ DOMAIN log' = Sessions
        /\ \A s \in Sessions \ gone : file'[s] = file[s] /\ log'[s] = log[s]
        /\ \A s \in gone : /\ file'[s] = [whole |-> TRUE, turns |-> <<>>]
                            /\ log'[s] = <<>>
    BY DEF Unlink
  <1>2. \A u \in Turns : SessionOf[u[1]] \notin gone => run'[u] = run[u]
    BY DEF Unlink, Writers
  <1>3. \A u \in Turns : run'[u] \in Held => run[u] \in Held
    BY ZenonT(60) DEF Unlink, Writers, Held, Saving
  <1>4. \A s \in gone \ overlap' : \A u \in Turns : SessionOf[u[1]] = s => run[u] \notin Held
    BY ZenonT(60) DEF Unlink, Holders, Held
  <1>5. LoneHolder'
    BY <1>1, <1>2, <1>3, <1>4 DEF TurnsInv, LoneHolder
  <1> QED
    BY <1>1, <1>5 DEF TurnsInv

\* A session whose runs never overlapped keeps every turn written since its last
\* reset, in order, whatever times out, fails, is retried, is paused or crashes.
THEOREM TurnsAreKept == Spec => []SequentialTurnsAreKept
  <1>1. Init => TurnsInv
    BY DEF Init, TurnsInv, LoneHolder, Held, Saving
  <1>2. TurnsInv /\ [Next]_vars => TurnsInv'
    <2> SUFFICES ASSUME TurnsInv, [Next]_vars PROVE TurnsInv'
      OBVIOUS
    <2> USE DEF history
    <2>0. DOMAIN run = Turns /\ DOMAIN copy = Turns
      BY ZenonT(60) DEF TurnsInv
    <2>1. ASSUME NEW r \in Requests, Receive(r) \/ GatewayTimesOut(r) \/ SetupAnswers(r) \/ CannotRun(r)
          PROVE  TurnsInv'
      BY <2>0, <2>1, NobodyLoads, ZenonT(60) DEF Receive, GatewayTimesOut, SetupAnswers, CannotRun
    <2>2. ASSUME NEW r \in Requests, Inject(r) \/ StartPrimary(r) PROVE TurnsInv'
      BY <2>0, <2>2, EnterKeepsTurns DEF Inject, StartPrimary
    <2>3. ASSUME NEW r \in Requests, InjectFails(r) PROVE TurnsInv'
      <3> "failed" \notin Held
        BY DEF Held, Saving
      <3> QED
        BY <2>0, <2>3, NobodyLoads DEF InjectFails
    <2>4. ASSUME NEW r \in Requests, Reset(r) \/ Erase(r) PROVE TurnsInv'
      BY <2>4, UnlinkKeepsTurns, GatewayAssumption, ZenonT(60) DEF Reset, Erase
    <2>5. ASSUME NEW r, NEW leg, LegTimesOut(r, leg) PROVE TurnsInv'
      BY <2>0, <2>5, RecoverCases, EnterKeepsTurns, NobodyLoads, ZenonT(60) DEF LegTimesOut
    <2>6. ASSUME NEW t \in Turns, Pause(t) PROVE TurnsInv'
      <3> "done" \notin Held
        BY ZenonT(60) DEF Held, Saving
      <3> QED
        BY <2>0, <2>6, NobodyLoads, ZenonT(60) DEF Pause
    <2>7. ASSUME NEW t \in Turns, Fail(t) PROVE TurnsInv'
      <3> DEFINE runs == [run EXCEPT ![t] = "failed"]
      <3>1. "failed" \notin Held
        BY DEF Held, Saving
      <3>2. /\ DOMAIN copy' = Turns /\ DOMAIN runs = Turns /\ UNCHANGED <<file, log, overlap>>
            /\ \A u \in Turns : runs[u] \in Held => runs[u] = run[u] /\ copy'[u] = copy[u]
        BY <2>0, <2>7, <3>1, ZenonT(60) DEF Fail
      <3>3. run' = runs \/ \E r, leg : Enter(r, leg, runs)
        BY <2>7, RecoverCases, ZenonT(60) DEF Fail
      <3> HIDE DEF runs
      <3> QED
        BY <3>2, <3>3, NobodyLoads, EnterKeepsTurns, ZenonT(60)
    <2>8. CASE Crash
      <3> DOMAIN run' = Turns /\ DOMAIN copy' = Turns /\ \A t \in Turns : run'[t] \notin Held
        BY <2>8 DEF Crash, Held, Saving
      <3> QED
        BY <2>8, NobodyLoads DEF Crash
    <2>9. CASE UNCHANGED vars
      BY <2>0, <2>9, NobodyLoads DEF vars
    <2> QED
      BY <2>1, <2>2, <2>3, <2>4, <2>5, <2>6, <2>7, <2>8, <2>9,
         LoadKeepsTurns, BeginSaveKeepsTurns, EndSaveKeepsTurns DEF Next, HandlerStep
  <1>3. TurnsInv => SequentialTurnsAreKept
    BY DEF TurnsInv, LoneHolder, SequentialTurnsAreKept
  <1> QED
    BY <1>1, <1>2, <1>3, PTL DEF Spec

-----------------------------------------------------------------------------
(* The sign-in to a provider.                                              *)

\* What the proof needs of the types: the fields that the news travels in.
Fields ==
    /\ DOMAIN job = Jobs /\ DOMAIN poll = Jobs
    /\ \A j \in Jobs : "status" \in DOMAIN job[j] /\ {"at", "answer"} \subseteq DOMAIN poll[j]

\* The news of a sign-in travels from the job to a poll's answer to the page, and
\* may be overtaken at every stage; at none of them is it there before the
\* credentials are.
NewsIsTrue ==
    /\ \A j \in Jobs : job[j].status = "done" => saved
    /\ \A j \in Jobs : poll[j].answer = "done" => saved
    /\ DoneMeansSaved

SignInInv == Fields /\ NewsIsTrue

LEMMA SignInStarts == SignInInit => SignInInv
  BY SMTT(60) DEF SignInInit, SignInInv, Fields, NewsIsTrue, DoneMeansSaved, NoJob, NoPoll

\* The steps of the page move the news on, or forget it.
LEMMA PageKeeps ==
    ASSUME SignInInv,
           \/ StartSignIn \/ ResetForm \/ SubmitCode
           \/ \E j \in Jobs : StartAnswered(j) \/ PollWakes(j) \/ PollAnswered(j) \/ ReloadSetup(j)
    PROVE  SignInInv'
  <1> USE DEF SignInInv, Fields, NewsIsTrue, DoneMeansSaved
  <1>1. CASE StartSignIn
    BY <1>1, Zenon DEF StartSignIn
  <1>2. CASE ResetForm
    BY <1>2, Zenon DEF ResetForm
  <1>3. CASE SubmitCode
    BY <1>3, Zenon DEF SubmitCode
  <1>4. ASSUME NEW j \in Jobs, StartAnswered(j) PROVE SignInInv'
    BY <1>4, SMTT(60) DEF StartAnswered
  <1>5. ASSUME NEW j \in Jobs, PollWakes(j) PROVE SignInInv'
    BY <1>5, Zenon DEF PollWakes, NoPoll
  <1>6. ASSUME NEW j \in Jobs, PollAnswered(j) PROVE SignInInv'
    BY <1>6 DEF PollAnswered, NoPoll
  <1>7. ASSUME NEW j \in Jobs, ReloadSetup(j) PROVE SignInInv'
    BY <1>7, Zenon DEF ReloadSetup, NoPoll
  <1> QED
    BY <1>1, <1>2, <1>3, <1>4, <1>5, <1>6, <1>7, Zenon

\* The server makes it: only after the credentials are saved.
LEMMA ServerKeeps ==
    ASSUME SignInInv,
           \/ ServerLost
           \/ \E j \in Jobs : \/ AnswerStart(j) \/ AnswerPoll(j) \/ LoginHasUrl(j)
                              \/ LoginSucceeds(j) \/ LoginFails(j) \/ ForgetJob(j)
    PROVE  SignInInv'
  <1> USE DEF SignInInv, Fields, NewsIsTrue, DoneMeansSaved
  <1>1. CASE ServerLost
    BY <1>1, Zenon DEF ServerLost
  <1>2. ASSUME NEW j \in Jobs, AnswerStart(j) PROVE SignInInv'
    BY <1>2, Zenon DEF AnswerStart
  <1>3. ASSUME NEW j \in Jobs, AnswerPoll(j) PROVE SignInInv'
    BY <1>3, ZenonT(60) DEF AnswerPoll
  <1>4. ASSUME NEW j \in Jobs, LoginHasUrl(j) PROVE SignInInv'
    BY <1>4, Zenon DEF LoginHasUrl
  <1>5. ASSUME NEW j \in Jobs, LoginSucceeds(j) PROVE SignInInv'
    BY <1>5 DEF LoginSucceeds
  <1>6. ASSUME NEW j \in Jobs, LoginFails(j) PROVE SignInInv'
    BY <1>6, Zenon DEF LoginFails
  <1>7. ASSUME NEW j \in Jobs, ForgetJob(j) PROVE SignInInv'
    BY <1>7, Zenon DEF ForgetJob
  <1> QED
    BY <1>1, <1>2, <1>3, <1>4, <1>5, <1>6, <1>7, Zenon

\* The page shows a sign-in as done only if its credentials, or those of an
\* earlier attempt, were saved: pollCodexOAuthStatus applies every answer it
\* gets, however late, and handleStartCodexOAuth saves before it says "done".
THEOREM ReportedIsSaved == SignInSpec => []DoneMeansSaved
  <1>1. SignInInv /\ [SignInNext]_signInVars => SignInInv'
    <2> SUFFICES ASSUME SignInInv, [SignInNext]_signInVars PROVE SignInInv'
      BY Zenon
    <2>1. CASE SignInNext
      BY <2>1, PageKeeps, ServerKeeps, Zenon DEF SignInNext, PollStep
    <2>2. CASE UNCHANGED signInVars
      BY <2>2, Zenon DEF signInVars, SignInInv, Fields, NewsIsTrue, DoneMeansSaved
    <2> QED
      BY <2>1, <2>2, Zenon
  <1>2. SignInInv => DoneMeansSaved
    BY Zenon DEF SignInInv, NewsIsTrue
  <1> QED
    BY SignInStarts, <1>1, <1>2, PTL DEF SignInSpec

-----------------------------------------------------------------------------
(* Chat: the invariants.                                                   *)

\* The ids of the messages on their way to the server, and the numbers in a
\* sequence of messages.
IsSend(f) == f.method = "chat.send"
Sends(q) == {i \in 1 .. Len(q) : IsSend(q[i])}
SentIds(q) == {q[i].id : i \in Sends(q)}
Members(q) == {q[i] : i \in 1 .. Len(q)}
OneSend(q) == \A i, k \in Sends(q) : i = k
NoAbort(q) == \A i \in 1 .. Len(q) : q[i].method # "chat.abort"
NoTwice(q) == \A i, k \in Sends(q) : q[i].id = q[k].id => i = k
NoRepeat(q) == \A i, k \in 1 .. Len(q) : q[i] = q[k] => i = k
Rising(q) == \A i, k \in 1 .. Len(q) : i < k => q[i] < q[k]

\* A message waits in the queue, is on its way over one socket, or was started.
OnceInv ==
    /\ NoRepeat(chatQueue) /\ Members(chatQueue) \subseteq 1 .. typed
    /\ NoRepeat(started) /\ Members(started) \subseteq 1 .. typed
    /\ Members(chatQueue) \cap Members(started) = {}
    /\ \A s \in Sockets :
          /\ NoTwice(up[s]) /\ SentIds(up[s]) \subseteq 1 .. typed
          /\ SentIds(up[s]) \cap (Members(chatQueue) \cup Members(started)) = {}
    /\ \A s, t \in Sockets : s # t => SentIds(up[s]) \cap SentIds(up[t]) = {}

\* The events of a message's answer: chat.done comes last, and once.
IsDone(f) == f.type = "event" /\ f.method = "done"
IsSending(f) == f.type = "event" /\ f.method = "sending"
Dones(q) == {i \in 1 .. Len(q) : IsDone(q[i])}
Sendings(q) == {i \in 1 .. Len(q) : IsSending(q[i])}
Orderly(q) == \A i \in Dones(q), k \in Dones(q) \cup Sendings(q) : k <= i

\* One connection.
OneSocket ==
    /\ \A s \in Sockets : s # sock => link[s] = "unused" /\ up[s] = <<>> /\ down[s] = <<>>
    /\ sock # 0 => link[sock] \in {"opening", "open"}
    /\ sock # 0 /\ link[sock] = "opening" => up[sock] = <<>> /\ down[sock] = <<>>
    /\ Connected \/ (chatQueue = <<>> /\ ~ chatSending /\ jobs = {})
    /\ \A j \in jobs : j.sock = sock

\* One message at a time: on its way, being answered, or its chat.done on its way.
Idle == Sends(up[sock]) = {} /\ Runs = {} /\ Dones(down[sock]) = {} /\ Sendings(down[sock]) = {}
OneMessage ==
    /\ NoAbort(up[sock]) /\ OneSend(up[sock])
    /\ \A j, k \in Runs : j = k
    /\ Orderly(down[sock])
    /\ Sends(up[sock]) = {} \/ (Runs = {} /\ Dones(down[sock]) = {})
    /\ Runs = {} \/ Dones(down[sock]) = {}
    /\ chatSending \/ (Idle /\ chatQueue = <<>>)

\* In the order typed.
InOrder ==
    /\ Rising(started) /\ Rising(chatQueue)
    /\ \A m \in Members(started), n \in Members(chatQueue) : m < n
    /\ sock # 0 => \A n \in SentIds(up[sock]) :
                      /\ \A m \in Members(started) : m < n
                      /\ \A m \in Members(chatQueue) : n < m

CalmInv ==
    ~ disturbed => /\ OneSocket /\ InOrder
                   /\ sock # 0 => OneMessage

\* What a queue of frames or of messages keeps when one is taken or added.
LEMMA TailAt ==
  ASSUME NEW S, NEW q \in Seq(S), q # <<>>
  PROVE  /\ Tail(q) \in Seq(S) /\ Head(q) \in S /\ Head(q) = q[1] /\ Len(q) \in Nat \ {0}
         /\ Len(Tail(q)) = Len(q) - 1
         /\ \A i \in 1 .. Len(q) - 1 : Tail(q)[i] = q[i + 1]
OBVIOUS

\* Where the frames of a short queue are, and what is up to a number.
LEMMA NoIndex == 1 .. Len(<<>>) = {}
OBVIOUS

LEMMA OneIndex == \A f : 1 .. Len(<<f>>) = {1} /\ <<f>>[1] = f
OBVIOUS

LEMMA UpTo == ASSUME NEW a \in Nat, NEW b \in Nat, a <= b PROVE 1 .. a \subseteq 1 .. b
OBVIOUS

LEMMA SelfBound == \A n \in Nat : n <= n
OBVIOUS

LEMMA NoSocketZero == 0 \notin Sockets
BY SocketAssumption DEF Sockets

\* One is added at the end.
LEMMA AddAt ==
  ASSUME NEW S, NEW q \in Seq(S), NEW f \in S
  PROVE  /\ Append(q, f) \in Seq(S) /\ q \o <<f>> = Append(q, f)
         /\ Len(Append(q, f)) = Len(q) + 1
         /\ \A i \in 1 .. Len(q) : Append(q, f)[i] = q[i]
         /\ Append(q, f)[Len(q) + 1] = f
OBVIOUS

\* The first message is taken from a queue.
LEMMA TailMembers ==
  ASSUME NEW q \in Seq(Nat), q # <<>>
  PROVE  /\ Members(q) = Members(Tail(q)) \cup {Head(q)}
         /\ NoRepeat(q) => NoRepeat(Tail(q)) /\ Head(q) \notin Members(Tail(q))
         /\ Rising(q) => Rising(Tail(q)) /\ \A n \in Members(Tail(q)) : Head(q) < n
<1> DEFINE t == Tail(q)
<1>1. /\ t \in Seq(Nat) /\ Head(q) = q[1] /\ Len(q) \in Nat \ {0} /\ Len(t) = Len(q) - 1
      /\ \A i \in 1 .. Len(q) - 1 : t[i] = q[i + 1]
  BY TailAt, Zenon
<1> HIDE DEF t
<1>2. Members(q) = Members(t) \cup {Head(q)}
  <2>1. ASSUME NEW i \in 1 .. Len(q) PROVE q[i] \in Members(t) \cup {Head(q)}
    <3>1. CASE i = 1
      BY <1>1, <3>1, Zenon
    <3>2. CASE i # 1
      <4>1. i - 1 \in 1 .. Len(t) /\ t[i - 1] = q[i]
        BY <1>1, <3>2, SMTT(60)
      <4> QED BY <4>1, Zenon DEF Members
    <3> QED BY <3>1, <3>2, Zenon
  <2>2. ASSUME NEW i \in 1 .. Len(t) PROVE t[i] \in Members(q)
    <3>1. i + 1 \in 1 .. Len(q) /\ t[i] = q[i + 1]
      BY <1>1
    <3> QED BY <3>1, Zenon DEF Members
  <2>3. Members(q) \subseteq Members(t) \cup {Head(q)}
    BY <2>1, Zenon DEF Members
  <2>4. Members(t) \subseteq Members(q)
    BY <2>2, Zenon DEF Members
  <2>5. 1 \in 1 .. Len(q)
    BY <1>1
  <2>6. Head(q) \in Members(q)
    BY <1>1, <2>5, Zenon DEF Members
  <2> QED BY <2>3, <2>4, <2>6, Zenon
<1>a. \A i \in 1 .. Len(t) : i \in Nat /\ i + 1 \in 1 .. Len(q) /\ 1 < i + 1 /\ t[i] = q[i + 1]
  BY <1>1
<1>b. 1 \in 1 .. Len(q)
  BY <1>1
<1>3. NoRepeat(q) => NoRepeat(t) /\ Head(q) \notin Members(t)
  <2> SUFFICES ASSUME NoRepeat(q) PROVE NoRepeat(t) /\ Head(q) \notin Members(t)
    BY Zenon
  <2>1. ASSUME NEW i \in 1 .. Len(t), NEW k \in 1 .. Len(t), t[i] = t[k] PROVE i = k
    <3>1. i + 1 = k + 1
      BY <1>a, <2>1, Zenon DEF NoRepeat
    <3> QED BY <3>1
  <2>2. ASSUME NEW i \in 1 .. Len(t) PROVE t[i] # q[1]
    BY <1>a, <1>b DEF NoRepeat
  <2> QED BY <1>1, <2>1, <2>2, ZenonT(60) DEF NoRepeat, Members
<1>4. Rising(q) => Rising(t) /\ \A n \in Members(t) : Head(q) < n
  <2> SUFFICES ASSUME Rising(q) PROVE Rising(t) /\ \A n \in Members(t) : Head(q) < n
    BY Zenon
  <2>1. ASSUME NEW i \in 1 .. Len(t), NEW k \in 1 .. Len(t), i < k PROVE t[i] < t[k]
    <3>1. i + 1 < k + 1
      BY <2>1
    <3> QED BY <1>a, <3>1, Zenon DEF Rising
  <2>2. ASSUME NEW i \in 1 .. Len(t) PROVE q[1] < t[i]
    BY <1>a, <1>b, Zenon DEF Rising
  <2> QED BY <1>1, <2>1, <2>2, Zenon DEF Rising, Members
<1> QED BY <1>2, <1>3, <1>4, Zenon DEF t

\* A message is added to a queue.
LEMMA AddMembers ==
  ASSUME NEW q \in Seq(Nat), NEW n \in Nat
  PROVE  /\ Append(q, n) \in Seq(Nat)
         /\ Members(Append(q, n)) = Members(q) \cup {n}
         /\ NoRepeat(q) /\ n \notin Members(q) => NoRepeat(Append(q, n))
         /\ Rising(q) /\ (\A m \in Members(q) : m < n) => Rising(Append(q, n))
<1> DEFINE a == Append(q, n)
<1>1. /\ a \in Seq(Nat) /\ Len(q) \in Nat /\ Len(a) = Len(q) + 1
      /\ \A i \in 1 .. Len(q) : a[i] = q[i]
      /\ a[Len(q) + 1] = n
  BY AddAt
<1> HIDE DEF a
<1>2. Members(a) = Members(q) \cup {n}
  <2>1. \A i \in 1 .. Len(a) : i = Len(q) + 1 \/ i \in 1 .. Len(q)
    BY <1>1
  <2>2. \A i \in 1 .. Len(q) : i \in 1 .. Len(a) /\ q[i] \in Members(a)
    BY <1>1, SMTT(60) DEF Members
  <2>3. n \in Members(a)
    BY <1>1 DEF Members
  <2> QED BY <1>1, <2>1, <2>2, <2>3, Zenon DEF Members
<1>a. \A i \in 1 .. Len(a) : (i = Len(q) + 1 /\ a[i] = n) \/ (i \in 1 .. Len(q) /\ a[i] = q[i]
        /\ a[i] \in Members(q))
  BY <1>1, SMTT(60) DEF Members
<1>3. NoRepeat(q) /\ n \notin Members(q) => NoRepeat(a)
  BY <1>a, Zenon DEF NoRepeat
<1>4. Rising(q) /\ (\A m \in Members(q) : m < n) => Rising(a)
  <2> SUFFICES ASSUME Rising(q), \A m \in Members(q) : m < n,
                      NEW i \in 1 .. Len(a), NEW k \in 1 .. Len(a), i < k
               PROVE  a[i] < a[k]
    BY Zenon DEF Rising
  <2>1. i \in 1 .. Len(q)
    BY <1>1
  <2> QED BY <1>a, <2>1, SMTT(60) DEF Rising
<1> QED BY <1>1, <1>2, <1>3, <1>4, Zenon DEF a

\* The same of frames to the server.
LEMMA TailSends ==
  ASSUME NEW S, NEW q \in Seq(S), q # <<>>
  PROVE  /\ SentIds(Tail(q)) \subseteq SentIds(q)
         /\ NoTwice(q) => NoTwice(Tail(q))
         /\ IsSend(Head(q)) => Sends(q) # {} /\ Head(q).id \in SentIds(q)
         /\ NoTwice(q) /\ IsSend(Head(q)) => Head(q).id \notin SentIds(Tail(q))
         /\ OneSend(q) => OneSend(Tail(q))
         /\ OneSend(q) /\ IsSend(Head(q)) => Sends(Tail(q)) = {}
         /\ Sends(q) = {} => Sends(Tail(q)) = {}
         /\ NoAbort(q) => NoAbort(Tail(q)) /\ Head(q).method # "chat.abort"
<1> DEFINE t == Tail(q)
<1>1. /\ Head(q) = q[1] /\ Len(q) \in Nat \ {0} /\ Len(t) = Len(q) - 1
      /\ \A i \in 1 .. Len(q) - 1 : t[i] = q[i + 1]
  BY TailAt, Zenon
<1> HIDE DEF t
<1>2. \A i \in 1 .. Len(t) : i \in Nat /\ i + 1 \in 1 .. Len(q) /\ 1 # i + 1 /\ t[i] = q[i + 1]
  BY <1>1
<1>3. \A i \in Sends(t) : i \in Nat /\ i + 1 \in Sends(q) /\ 1 # i + 1 /\ t[i] = q[i + 1]
  BY <1>2, Zenon DEF Sends
<1>4. 1 \in 1 .. Len(q) /\ (IsSend(Head(q)) => 1 \in Sends(q))
  BY <1>1 DEF Sends
<1>5. SentIds(t) \subseteq SentIds(q)
  BY <1>3, Zenon DEF SentIds
<1>6. NoTwice(q) => NoTwice(t)
  <2> SUFFICES ASSUME NoTwice(q), NEW i \in Sends(t), NEW k \in Sends(t), t[i].id = t[k].id PROVE i = k
    BY Zenon DEF NoTwice
  <2>1. i + 1 = k + 1
    BY <1>3, ZenonT(60) DEF NoTwice
  <2> QED BY <1>3, <2>1
<1>7. IsSend(Head(q)) => Sends(q) # {} /\ Head(q).id \in SentIds(q)
  BY <1>1, <1>4, Zenon DEF SentIds
<1>8. NoTwice(q) /\ IsSend(Head(q)) => Head(q).id \notin SentIds(t)
  BY <1>1, <1>3, <1>4, SMTT(60) DEF NoTwice, SentIds
<1>9. OneSend(q) => OneSend(t)
  <2> SUFFICES ASSUME OneSend(q), NEW i \in Sends(t), NEW k \in Sends(t) PROVE i = k
    BY Zenon DEF OneSend
  <2>1. i + 1 = k + 1
    BY <1>3, Zenon DEF OneSend
  <2> QED BY <1>3, <2>1
<1>10. OneSend(q) /\ IsSend(Head(q)) => Sends(t) = {}
  BY <1>3, <1>4, Zenon DEF OneSend
<1>11. Sends(q) = {} => Sends(t) = {}
  BY <1>3, Zenon
<1>12. NoAbort(q) => NoAbort(t) /\ Head(q).method # "chat.abort"
  BY <1>1, <1>2, <1>4, Zenon DEF NoAbort
<1> QED BY <1>5, <1>6, <1>7, <1>8, <1>9, <1>10, <1>11, <1>12, Zenon DEF t

\* A frame is added: a message makes one more on its way.
LEMMA AddSends ==
  ASSUME NEW S, NEW q \in Seq(S), NEW f \in S
  PROVE  /\ Append(q, f) \in Seq(S)
         /\ ~ IsSend(f) => Sends(Append(q, f)) = Sends(q) /\ SentIds(Append(q, f)) = SentIds(q)
         /\ ~ IsSend(f) /\ NoTwice(q) => NoTwice(Append(q, f))
         /\ ~ IsSend(f) /\ OneSend(q) => OneSend(Append(q, f))
         /\ IsSend(f) => SentIds(Append(q, f)) = SentIds(q) \cup {f.id}
         /\ IsSend(f) /\ NoTwice(q) /\ f.id \notin SentIds(q) => NoTwice(Append(q, f))
         /\ Sends(q) = {} => OneSend(Append(q, f))
         /\ NoAbort(q) /\ f.method # "chat.abort" => NoAbort(Append(q, f))
<1> DEFINE a == Append(q, f)
<1>1. /\ a \in Seq(S) /\ Len(q) \in Nat /\ Len(a) = Len(q) + 1
      /\ \A i \in 1 .. Len(q) : a[i] = q[i]
      /\ a[Len(q) + 1] = f
  BY AddAt
<1> HIDE DEF a
<1>2. \A i \in 1 .. Len(a) : (i = Len(q) + 1 /\ a[i] = f) \/ (i \in 1 .. Len(q) /\ a[i] = q[i])
  BY <1>1
<1>3. /\ \A i \in 1 .. Len(q) : i \in 1 .. Len(a) /\ a[i] = q[i] /\ i # Len(q) + 1
      /\ Len(q) + 1 \in 1 .. Len(a)
  BY <1>1
<1>4. Sends(a) = IF IsSend(f) THEN Sends(q) \cup {Len(q) + 1} ELSE Sends(q)
  BY <1>1, <1>2, <1>3, Zenon DEF Sends
<1>5. \A i \in Sends(q) : a[i] = q[i] /\ i # Len(q) + 1
  BY <1>3, Zenon DEF Sends
<1>6. ~ IsSend(f) => SentIds(a) = SentIds(q)
  BY <1>4, <1>5, Zenon DEF SentIds
<1>7. IsSend(f) => SentIds(a) = SentIds(q) \cup {f.id}
  BY <1>1, <1>4, <1>5 DEF SentIds
<1>8. /\ ~ IsSend(f) /\ NoTwice(q) => NoTwice(a)
      /\ ~ IsSend(f) /\ OneSend(q) => OneSend(a)
      /\ Sends(q) = {} => OneSend(a)
  BY <1>4, <1>5, Zenon DEF NoTwice, OneSend
<1>9. IsSend(f) /\ NoTwice(q) /\ f.id \notin SentIds(q) => NoTwice(a)
  BY <1>1, <1>4, <1>5 DEF NoTwice, SentIds
<1>10. NoAbort(q) /\ f.method # "chat.abort" => NoAbort(a)
  BY <1>1, <1>2, Zenon DEF NoAbort
<1> QED BY <1>1, <1>4, <1>6, <1>7, <1>8, <1>9, <1>10, Zenon DEF a

\* A frame that carries no message, and one that does.
LEMMA AddPlain ==
  ASSUME NEW S, NEW q \in Seq(S), NEW f \in S, ~ IsSend(f)
  PROVE  /\ Sends(Append(q, f)) = Sends(q) /\ SentIds(Append(q, f)) = SentIds(q)
         /\ NoTwice(q) => NoTwice(Append(q, f))
         /\ NoAbort(q) /\ f.method # "chat.abort" => NoAbort(Append(q, f))
BY AddSends, Zenon

LEMMA AddMessage ==
  ASSUME NEW S, NEW q \in Seq(S), NEW f \in S, IsSend(f)
  PROVE  /\ SentIds(Append(q, f)) = SentIds(q) \cup {f.id}
         /\ NoTwice(q) /\ f.id \notin SentIds(q) => NoTwice(Append(q, f))
         /\ Sends(q) = {} => OneSend(Append(q, f))
         /\ NoAbort(q) /\ f.method # "chat.abort" => NoAbort(Append(q, f))
BY AddSends, ZenonT(60)

\* The same of frames to the page.
LEMMA TailEvents ==
  ASSUME NEW S, NEW q \in Seq(S), q # <<>>
  PROVE  /\ Dones(q) = {} => Dones(Tail(q)) = {} /\ ~ IsDone(Head(q))
         /\ Sendings(q) = {} => Sendings(Tail(q)) = {} /\ ~ IsSending(Head(q))
         /\ Orderly(q) => Orderly(Tail(q))
         /\ Orderly(q) /\ IsDone(Head(q)) => Dones(Tail(q)) = {} /\ Sendings(Tail(q)) = {}
<1> DEFINE t == Tail(q)
<1>1. /\ Head(q) = q[1] /\ Len(q) \in Nat \ {0} /\ Len(t) = Len(q) - 1
      /\ \A i \in 1 .. Len(q) - 1 : t[i] = q[i + 1]
  BY TailAt, Zenon
<1> HIDE DEF t
<1>2. \A i \in 1 .. Len(t) : i \in Nat /\ i + 1 \in 1 .. Len(q) /\ t[i] = q[i + 1]
  BY <1>1
<1>3. /\ \A i \in Dones(t) : i \in Nat \ {0} /\ i + 1 \in Dones(q)
      /\ \A i \in Sendings(t) : i \in Nat \ {0} /\ i + 1 \in Sendings(q)
  BY <1>2 DEF Dones, Sendings
<1>4. /\ IsDone(Head(q)) => 1 \in Dones(q)
      /\ IsSending(Head(q)) => 1 \in Sendings(q)
  BY <1>1 DEF Dones, Sendings
<1>5. Orderly(q) => Orderly(t)
  <2> SUFFICES ASSUME Orderly(q), NEW i \in Dones(t), NEW k \in Dones(t) \cup Sendings(t) PROVE k <= i
    BY Zenon DEF Orderly
  <2>1. k + 1 <= i + 1
    BY <1>3, Zenon DEF Orderly
  <2> QED BY <1>3, <2>1
<1>6. Orderly(q) /\ IsDone(Head(q)) => Dones(t) = {} /\ Sendings(t) = {}
  <2> SUFFICES ASSUME Orderly(q), IsDone(Head(q)), NEW k \in Dones(t) \cup Sendings(t) PROVE FALSE
    BY Zenon
  <2>1. k + 1 <= 1
    BY <1>3, <1>4, Zenon DEF Orderly
  <2> QED BY <1>3, <2>1
<1> QED BY <1>3, <1>4, <1>5, <1>6, Zenon DEF t

\* A frame is added; any may follow where no chat.done is.
LEMMA AddEvents ==
  ASSUME NEW S, NEW q \in Seq(S), NEW f \in S
  PROVE  /\ Append(q, f) \in Seq(S)
         /\ ~ IsDone(f) => Dones(Append(q, f)) = Dones(q)
         /\ ~ IsSending(f) => Sendings(Append(q, f)) = Sendings(q)
         /\ ~ IsDone(f) /\ ~ IsSending(f) /\ Orderly(q) => Orderly(Append(q, f))
         /\ Dones(q) = {} => Orderly(Append(q, f))
<1> DEFINE a == Append(q, f)
<1>1. /\ a \in Seq(S) /\ Len(q) \in Nat /\ Len(a) = Len(q) + 1
      /\ \A i \in 1 .. Len(q) : a[i] = q[i]
      /\ a[Len(q) + 1] = f
  BY AddAt
<1> HIDE DEF a
<1>2. \A i \in 1 .. Len(a) : (i = Len(q) + 1 /\ a[i] = f) \/ (i \in 1 .. Len(q) /\ a[i] = q[i])
  BY <1>1
<1>3. \A i \in 1 .. Len(q) : i \in 1 .. Len(a) /\ a[i] = q[i]
  BY <1>1
<1>4. /\ Dones(a) = IF IsDone(f) THEN Dones(q) \cup {Len(q) + 1} ELSE Dones(q)
      /\ Sendings(a) = IF IsSending(f) THEN Sendings(q) \cup {Len(q) + 1} ELSE Sendings(q)
  BY <1>1, <1>2, <1>3 DEF Dones, Sendings
<1>5. \A i \in Dones(a) \cup Sendings(a) : i <= Len(q) + 1
  BY <1>1 DEF Dones, Sendings
<1>6. Dones(q) = {} => Orderly(a)
  BY <1>4, <1>5, Zenon DEF Orderly
<1> QED BY <1>1, <1>4, <1>6, Zenon DEF a, Orderly

-----------------------------------------------------------------------------
(* Types.                                                                  *)

AnyKey == Nat \cup {FreshKey}
Methods == {"connect", "chat.send", "chat.history", "chat.inject", "chat.abort"}
UpFrames == [method : Methods, id : Nat, key : AnyKey]
DownFrames == [type : {"res", "event"}, method : Methods \cup {"sending", "done"}, id : Nat, key : AnyKey]
Handlers == [sock : Sockets, method : Methods, id : Nat, key : AnyKey]

ChatTypes ==
    /\ link \in [Sockets -> LinkStates]
    /\ up \in [Sockets -> Seq(UpFrames)] /\ down \in [Sockets -> Seq(DownFrames)]
    /\ sock \in Sockets \cup {0}
    /\ chatSending \in BOOLEAN /\ disturbed \in BOOLEAN
    /\ chatQueue \in Seq(Nat) /\ started \in Seq(Nat) /\ typed \in Nat
    /\ sessionKey \in AnyKey /\ savedKey \in AnyKey /\ keys \in Nat
    /\ clientKey \in [Sockets -> AnyKey] /\ jobs \subseteq Handlers

\* The fields of frames and of handlers.
LEMMA FrameTypes ==
  /\ \A f \in UpFrames : f.method \in Methods /\ f.id \in Nat /\ f.key \in AnyKey
  /\ \A f \in DownFrames : f.id \in Nat /\ f.key \in AnyKey
  /\ \A j \in Handlers : j.sock \in Sockets /\ j.method \in Methods /\ j.id \in Nat /\ j.key \in AnyKey
BY Zenon DEF UpFrames, DownFrames, Handlers

\* What the page asks is a frame of the method and id given.
LEMMA RequestType ==
  ASSUME ChatTypes, NEW method \in Methods, NEW id \in Nat
  PROVE  /\ Request(method, id) \in UpFrames
         /\ Request(method, id).method = method /\ Request(method, id).id = id
BY Zenon DEF Request, UpFrames, ChatTypes

\* What the server answers is a frame, and which of them are events.
LEMMA AnswerTypes ==
  /\ \A f \in UpFrames \cup Handlers, key \in AnyKey :
        /\ Response(f, key) \in DownFrames
        /\ ~ IsDone(Response(f, key)) /\ ~ IsSending(Response(f, key))
  /\ \A id \in Nat : /\ Event("sending", id) \in DownFrames /\ IsSending(Event("sending", id))
                     /\ ~ IsDone(Event("sending", id))
                     /\ Event("done", id) \in DownFrames /\ IsDone(Event("done", id))
                     /\ ~ IsSending(Event("done", id))
BY Zenon DEF Response, Event, UpFrames, Handlers, DownFrames, AnyKey, IsDone, IsSending

\* What a side sends is added to what is on its way, or is lost.
LEMMA PageSendsOne ==
  ASSUME ChatTypes, NEW s \in Sockets, NEW f \in UpFrames, PageSends(s, <<f>>)
  PROVE  /\ up' \in [Sockets -> Seq(UpFrames)]
         /\ \A t \in Sockets : t # s => up'[t] = up[t]
         /\ link[s] = "open" => up'[s] = Append(up[s], f)
         /\ link[s] # "open" => up'[s] = up[s]
<1>1. up[s] \in Seq(UpFrames) /\ up \in [Sockets -> Seq(UpFrames)]
  BY Zenon DEF ChatTypes
<1>2. Append(up[s], f) \in Seq(UpFrames) /\ up[s] \o <<f>> = Append(up[s], f)
  BY <1>1, AddAt
<1> QED BY <1>1, <1>2, Zenon DEF PageSends

\* One frame from the server.
LEMMA ServerSendsOne ==
  ASSUME ChatTypes, NEW s \in Sockets, NEW f \in DownFrames, ServerSends(s, <<f>>)
  PROVE  /\ down' \in [Sockets -> Seq(DownFrames)]
         /\ \A t \in Sockets : t # s => down'[t] = down[t]
         /\ link[s] = "open" => down'[s] = Append(down[s], f)
         /\ link[s] # "open" => down'[s] = down[s]
<1>1. down[s] \in Seq(DownFrames) /\ down \in [Sockets -> Seq(DownFrames)]
  BY Zenon DEF ChatTypes
<1>2. Append(down[s], f) \in Seq(DownFrames) /\ down[s] \o <<f>> = Append(down[s], f)
  BY <1>1, AddAt
<1> QED BY <1>1, <1>2, Zenon DEF ServerSends

\* Two frames from the server, in their order.
LEMMA ServerSendsTwo ==
  ASSUME ChatTypes, NEW s \in Sockets, NEW f \in DownFrames, NEW g \in DownFrames, ServerSends(s, <<f, g>>)
  PROVE  /\ down' \in [Sockets -> Seq(DownFrames)]
         /\ \A t \in Sockets : t # s => down'[t] = down[t]
         /\ link[s] = "open" => down'[s] = Append(Append(down[s], f), g)
         /\ link[s] # "open" => down'[s] = down[s]
<1>1. down[s] \in Seq(DownFrames) /\ down \in [Sockets -> Seq(DownFrames)]
  BY Zenon DEF ChatTypes
<1> DEFINE a == Append(down[s], f)
<1>2. a \in Seq(DownFrames) /\ Append(a, g) \in Seq(DownFrames)
  BY <1>1, AddAt, Zenon
<1>3. ASSUME NEW q \in Seq(DownFrames) PROVE q \o <<f, g>> = Append(Append(q, f), g)
  OBVIOUS
<1> QED BY <1>1, <1>2, <1>3, Zenon DEF ServerSends

\* The next socket is one that was not used.
LEMMA NextSocketUnused ==
  ASSUME CanConnect PROVE NextSocket \in Sockets /\ link[NextSocket] = "unused"
BY Zenon DEF CanConnect, NextSocket

\* Two queues, one after the other.
LEMMA JoinAt ==
  ASSUME NEW S, NEW c \in Seq(S), NEW d \in Seq(S)
  PROVE  /\ c \o d \in Seq(S) /\ Len(c \o d) = Len(c) + Len(d)
         /\ \A i \in 1 .. Len(c) + Len(d) : (c \o d)[i] = IF i <= Len(c) THEN c[i] ELSE d[i - Len(c)]
OBVIOUS

\* One message is taken out of the queue.
LEMMA CutMembers ==
  ASSUME NEW q \in Seq(Nat), NEW i \in 1 .. Len(q)
  PROVE  LET c == SubSeq(q, 1, i - 1) \o SubSeq(q, i + 1, Len(q)) IN
         /\ c \in Seq(Nat) /\ Members(c) \subseteq Members(q)
         /\ NoRepeat(q) => NoRepeat(c)
         /\ Rising(q) => Rising(c)
<1> DEFINE l == SubSeq(q, 1, i - 1)
           r == SubSeq(q, i + 1, Len(q))
           c == l \o r
           at(k) == IF k < i THEN k ELSE k + 1
<1>1. /\ l \in Seq(Nat) /\ Len(l) = i - 1 /\ \A k \in 1 .. i - 1 : l[k] = q[k]
  OBVIOUS
<1>2. /\ r \in Seq(Nat) /\ Len(r) = Len(q) - i /\ \A k \in 1 .. Len(q) - i : r[k] = q[k + i]
  <2>1. Len(q) \in Nat /\ i \in Nat /\ i <= Len(q) /\ 1 <= i
    OBVIOUS
  <2> QED BY <2>1
<1> HIDE DEF l, r
<1>3. /\ c \in Seq(Nat) /\ Len(c) = Len(l) + Len(r)
      /\ \A k \in 1 .. Len(l) + Len(r) : c[k] = IF k <= Len(l) THEN l[k] ELSE r[k - Len(l)]
  BY <1>1, <1>2, JoinAt, Zenon
<1> HIDE DEF c
<1>4. \A k \in 1 .. Len(c) : k \in Nat /\ at(k) \in 1 .. Len(q) /\ c[k] = q[at(k)]
  <2> SUFFICES ASSUME NEW k \in 1 .. Len(c) PROVE k \in Nat /\ at(k) \in 1 .. Len(q) /\ c[k] = q[at(k)]
    BY Zenon
  <2>1. Len(c) = Len(q) - 1 /\ Len(q) \in Nat /\ i \in Nat
    BY <1>1, <1>2, <1>3
  <2>2. CASE k < i
    <3>1. k \in Nat /\ k \in 1 .. i - 1 /\ k \in 1 .. Len(q) /\ k <= Len(l)
      BY <1>1, <2>1, <2>2
    <3>2. c[k] = l[k] /\ l[k] = q[k]
      BY <1>1, <1>3, <3>1, Zenon
    <3> QED BY <2>2, <3>1, <3>2, Zenon
  <2>3. CASE ~ (k < i)
    <3>1. k - Len(l) \in 1 .. Len(q) - i /\ (k - Len(l)) + i = k + 1
      BY <1>1, <2>1, <2>3
    <3>2. c[k] = r[k - Len(l)]
      BY <1>1, <1>3, <2>1, <2>3
    <3>3. r[k - Len(l)] = q[k + 1]
      BY <1>2, <3>1, Zenon
    <3>4. at(k) = k + 1 /\ k + 1 \in 1 .. Len(q)
      BY <2>1, <2>3
    <3> QED BY <3>2, <3>3, <3>4
  <2> QED BY <2>2, <2>3, Zenon
<1>5. \A k, m \in 1 .. Len(c) : (at(k) = at(m) => k = m) /\ (k < m => at(k) < at(m))
  OBVIOUS
<1> HIDE DEF at
<1>6. Members(c) \subseteq Members(q)
  BY <1>4, Zenon DEF Members
<1>7. NoRepeat(q) => NoRepeat(c)
  BY <1>4, <1>5, Zenon DEF NoRepeat
<1>8. Rising(q) => Rising(c)
  BY <1>4, <1>5, Zenon DEF Rising
<1> QED BY <1>3, <1>6, <1>7, <1>8, Zenon DEF c, l, r

\* A message typed is sent or waits: the types of what is then sent and waiting.
LEMMA SendMessageTypes ==
  ASSUME ChatTypes, NEW n \in Nat, NEW busy \in BOOLEAN, NEW q \in Seq(Nat), SendMessage(n, busy, q)
  PROVE  chatQueue' \in Seq(Nat) /\ chatSending' \in BOOLEAN /\ up' \in [Sockets -> Seq(UpFrames)]
<1>1. Append(q, n) \in Seq(Nat)
  OBVIOUS
<1>2. CASE ~ busy /\ Connected /\ Ask(Request("chat.send", n)) /\ chatQueue' = q /\ chatSending' = TRUE
  <2>1. sock \in Sockets /\ Request("chat.send", n) \in UpFrames
    BY <1>2, RequestType, Zenon DEF Connected, ChatTypes, Methods
  <2> QED BY <1>2, <2>1, PageSendsOne, Zenon DEF Ask
<1> QED BY <1>1, <1>2, Zenon DEF SendMessage, ChatTypes

\* A socket that one side leaves.
LEMMA LinkTypes ==
  ASSUME ChatTypes, NEW s \in Sockets
  PROVE  LinkWithoutPage(s) \in LinkStates /\ LinkWithoutServer(s) \in LinkStates
<1>1. link[s] \in LinkStates
  BY Zenon DEF ChatTypes
<1> QED BY <1>1, Zenon DEF LinkWithoutPage, LinkWithoutServer, LinkStates

\* A new socket takes the place of the old one.
LEMMA ReplaceTypes ==
  ASSUME ChatTypes, Replace
  PROVE  link' \in [Sockets -> LinkStates] /\ down' \in [Sockets -> Seq(DownFrames)] /\ sock' \in Sockets
<1>1. NextSocket \in Sockets /\ sock' = NextSocket
  BY NextSocketUnused, Zenon DEF Replace
<1>2. link' \in [Sockets -> LinkStates]
  <2>1. \A s \in Sockets : LinkWithoutPage(s) \in LinkStates /\ link[s] \in LinkStates
          /\ "opening" \in LinkStates
    BY LinkTypes, Zenon DEF ChatTypes, LinkStates
  <2> QED BY <2>1, Zenon DEF Replace
<1>3. down' \in [Sockets -> Seq(DownFrames)]
  <2>1. <<>> \in Seq(DownFrames) /\ \A s \in Sockets : down[s] \in Seq(DownFrames)
    BY DEF ChatTypes
  <2> QED BY <2>1, Zenon DEF Replace
<1> QED BY <1>1, <1>2, <1>3, Zenon

\* What the user does keeps the types.
LEMMA UserTypes == ASSUME ChatTypes, UserStep, UNCHANGED serverVars PROVE ChatTypes'
<1>0. UNCHANGED <<clientKey, jobs, started>>
  BY Zenon DEF serverVars
<1>1. CASE Type
  <2>1. typed + 1 \in Nat /\ SendMessage(typed + 1, chatSending, chatQueue)
    BY <1>1 DEF ChatTypes, Type
  <2> QED BY <1>0, <1>1, <2>1, SendMessageTypes, Zenon DEF Type, ChatTypes
<1>2. CASE NewChat \/ EraseMemory
  <2>1. keys + 1 \in Nat /\ keys + 1 \in AnyKey /\ <<>> \in Seq(Nat)
    BY DEF ChatTypes, AnyKey
  <2> QED BY <1>0, <1>2, <2>1, Zenon DEF NewChat, EraseMemory, ChatTypes, socketVars
<1>3. CASE Stop
  <2>1. sock \in Sockets /\ Request("chat.abort", 0) \in UpFrames
    BY <1>3, RequestType, Zenon DEF Stop, Connected, ChatTypes, Methods
  <2>2. up' \in [Sockets -> Seq(UpFrames)]
    BY <1>3, <2>1, PageSendsOne, Zenon DEF Stop
  <2> QED BY <1>0, <1>3, <2>2, Zenon DEF Stop, ChatTypes
<1>4. CASE EditQueue
  <2>1. chatQueue \in Seq(Nat) /\ <<>> \in Seq(Nat)
    BY DEF ChatTypes
  <2>2. \A i \in 1 .. Len(chatQueue) :
           SubSeq(chatQueue, 1, i - 1) \o SubSeq(chatQueue, i + 1, Len(chatQueue)) \in Seq(Nat)
    BY <2>1, CutMembers, Zenon
  <2>3. chatQueue' \in Seq(Nat)
    BY <1>4, <2>1, <2>2, Zenon DEF EditQueue
  <2> QED BY <1>0, <1>4, <2>3, Zenon DEF EditQueue, ChatTypes, socketVars
<1>5. CASE ReconnectByHand
  BY <1>0, <1>5, ReplaceTypes, Zenon DEF ReconnectByHand, ChatTypes
<1>6. CASE Reload
  BY <1>0, <1>6, ReplaceTypes, Zenon DEF Reload, ChatTypes
<1>7. ASSUME NEW method \in {"chat.history", "chat.inject"}, AskFor(method) PROVE ChatTypes'
  <2>1. sock \in Sockets /\ Request(method, 1) \in UpFrames
    BY <1>7, RequestType, Zenon DEF AskFor, Connected, ChatTypes, Methods
  <2>2. up' \in [Sockets -> Seq(UpFrames)]
    BY <1>7, <2>1, PageSendsOne, Zenon DEF AskFor, Ask
  <2> QED BY <1>0, <1>7, <2>2, Zenon DEF AskFor, ChatTypes
<1> QED BY <1>1, <1>2, <1>3, <1>4, <1>5, <1>6, <1>7, Zenon DEF UserStep

\* What the page does keeps the types.
LEMMA PageTypes == ASSUME ChatTypes, PageStep, UNCHANGED serverVars PROVE ChatTypes'
<1>0. UNCHANGED <<clientKey, jobs, started>>
  BY Zenon DEF serverVars
<1>1. CASE Reconnect
  BY <1>0, <1>1, ReplaceTypes, Zenon DEF Reconnect, ChatTypes
<1>2. CASE SocketLost
  <2>1. sock \in Sockets /\ LinkWithoutPage(sock) \in LinkStates /\ <<>> \in Seq(DownFrames)
    BY <1>2, LinkTypes DEF SocketLost, ChatTypes
  <2> QED BY <1>0, <1>2, <2>1, Zenon DEF SocketLost, ChatTypes
<1>3. CASE RequestTimesOut
  BY <1>0, <1>3, Zenon DEF RequestTimesOut, ChatTypes, socketVars
<1>4. CASE PageReceives
  <2> DEFINE f == Head(down[sock])
  <2>1. sock \in Sockets /\ down[sock] \in Seq(DownFrames) /\ down[sock] # <<>>
    BY <1>4, Zenon DEF PageReceives, Connected, ChatTypes
  <2>2. f \in DownFrames /\ Tail(down[sock]) \in Seq(DownFrames)
    BY <2>1, TailAt, Zenon
  <2>3. down' \in [Sockets -> Seq(DownFrames)]
    BY <1>4, <2>2, Zenon DEF PageReceives, ChatTypes
  <2>4. f.key \in AnyKey
    BY <2>2, FrameTypes, Zenon
  <2> HIDE DEF f
  <2>5. CASE HandleResponse(f)
    <3>1. Request("chat.history", 0) \in UpFrames
      BY RequestType, Zenon DEF Methods
    <3>2. up' \in [Sockets -> Seq(UpFrames)]
      BY <2>1, <2>5, <3>1, PageSendsOne, Zenon DEF HandleResponse, ChatTypes
    <3>3. sessionKey' \in AnyKey /\ UNCHANGED <<chatSending, chatQueue>>
      BY <2>4, <2>5, Zenon DEF HandleResponse, ChatTypes
    <3> QED BY <1>0, <1>4, <2>3, <3>2, <3>3, Zenon DEF PageReceives, ChatTypes
  <2>6. CASE HandleEvent(f)
    <3>1. chatQueue' \in Seq(Nat) /\ chatSending' \in BOOLEAN /\ up' \in [Sockets -> Seq(UpFrames)]
      <4>1. CASE Flush /\ chatQueue # <<>>
        <5>1. Head(chatQueue) \in Nat /\ Tail(chatQueue) \in Seq(Nat)
          BY <4>1, TailAt, Zenon DEF ChatTypes
        <5> QED BY <4>1, <5>1, SendMessageTypes, Zenon DEF Flush
      <4>2. CASE Flush /\ chatQueue = <<>>
        BY <4>2, Zenon DEF Flush, ChatTypes
      <4>3. CASE UNCHANGED <<pending, up, chatQueue>> /\ chatSending' = TRUE
        BY <4>3, Zenon DEF ChatTypes
      <4> QED BY <2>6, <4>1, <4>2, <4>3, Zenon DEF HandleEvent
    <3> QED BY <1>0, <1>4, <2>3, <2>6, <3>1, Zenon DEF PageReceives, HandleEvent, ChatTypes
  <2> QED BY <1>4, <2>5, <2>6, Zenon DEF PageReceives, f
<1> QED BY <1>1, <1>2, <1>3, <1>4, Zenon DEF PageStep

\* What the server does keeps the types.
LEMMA ServerTypes ==
  ASSUME ChatTypes, UNCHANGED pageVars,
         (\E s \in Sockets : ServerReceives(s)) \/ (\E j \in jobs : Finish(j))
  PROVE  ChatTypes'
<1>0. UNCHANGED <<sock, chatSending, disturbed, chatQueue, typed, sessionKey, savedKey, keys>>
  BY Zenon DEF pageVars
<1>1. ASSUME NEW s \in Sockets, ServerReceives(s) PROVE ChatTypes'
  <2> DEFINE f == Head(up[s])
  <2>1. up[s] \in Seq(UpFrames) /\ up[s] # <<>>
    BY <1>1, Zenon DEF ServerReceives, ChatTypes
  <2>2. f \in UpFrames /\ Tail(up[s]) \in Seq(UpFrames)
    BY <2>1, TailAt, Zenon
  <2>3. up' \in [Sockets -> Seq(UpFrames)] /\ UNCHANGED link /\ HandleFrame(s, f)
    BY <1>1, <2>2, Zenon DEF ServerReceives, ChatTypes
  <2>4. f.method \in Methods /\ f.id \in Nat /\ f.key \in AnyKey
    BY <2>2, FrameTypes, Zenon
  <2> HIDE DEF f
  <2>5. /\ Response(f, f.key) \in DownFrames /\ Event("sending", f.id) \in DownFrames
        /\ Event("done", f.id) \in DownFrames
    BY <2>2, <2>4, AnswerTypes, Zenon
  <2>6. [sock |-> s, method |-> f.method, id |-> f.id, key |-> f.key] \in Handlers
    BY <2>4, Zenon DEF Handlers
  <2>7. CASE f.method = "connect" /\ Begin(s, f) /\ UNCHANGED <<clientKey, listeners, down, started>>
    BY <1>0, <2>3, <2>6, <2>7, Zenon DEF Begin, ChatTypes
  <2>8. CASE /\ f.method = "chat.send" /\ Rebind(s, f.key) /\ Begin(s, f) /\ started' = Append(started, f.id)
             /\ ServerSends(s, <<Response(f, f.key), Event("sending", f.id)>>)
    <3>1. down' \in [Sockets -> Seq(DownFrames)]
      BY <2>5, <2>8, ServerSendsTwo, Zenon
    <3>2. Append(started, f.id) \in Seq(Nat)
      BY <2>4, AddAt, Zenon DEF ChatTypes
    <3> QED BY <1>0, <2>3, <2>4, <2>6, <2>8, <3>1, <3>2, Zenon DEF Begin, Rebind, ChatTypes
  <2>9. CASE f.method \in {"chat.history", "chat.inject"} /\ Rebind(s, f.key) /\ Begin(s, f)
          /\ UNCHANGED <<down, started>>
    BY <1>0, <2>3, <2>4, <2>6, <2>9, Zenon DEF Begin, Rebind, ChatTypes
  <2>10. CASE /\ f.method = "chat.abort" /\ ServerSends(s, <<Response(f, f.key), Event("done", f.id)>>)
              /\ UNCHANGED <<clientKey, listeners, jobs, started>>
    <3>1. down' \in [Sockets -> Seq(DownFrames)]
      BY <2>5, <2>10, ServerSendsTwo, Zenon
    <3> QED BY <1>0, <2>3, <2>10, <3>1, Zenon DEF ChatTypes
  <2> QED BY <2>3, <2>7, <2>8, <2>9, <2>10, Zenon DEF HandleFrame
<1>2. ASSUME NEW j \in jobs, Finish(j) PROVE ChatTypes'
  <2>1. j \in Handlers /\ j.sock \in Sockets /\ j.id \in Nat /\ j.key \in AnyKey
          /\ clientKey[j.sock] \in AnyKey /\ 0 \in AnyKey
    BY FrameTypes, Zenon DEF ChatTypes, AnyKey
  <2>2. PICK frames \in Outcome(j) : ServerSends(j.sock, frames)
    BY <1>2, Zenon DEF Finish
  <2>3. \E g \in DownFrames : frames = <<g>>
    BY <2>1, <2>2, AnswerTypes, Zenon DEF Outcome
  <2>4. down' \in [Sockets -> Seq(DownFrames)]
    BY <2>1, <2>2, <2>3, ServerSendsOne, Zenon
  <2> QED BY <1>0, <1>2, <2>4, Zenon DEF Finish, ChatTypes
<1> QED BY <1>1, <1>2, Zenon

\* What happens to the connection keeps the types.
LEMMA ConnectionTypes ==
  ASSUME ChatTypes, OpenSocket \/ (\E s \in Sockets : LoseClient(s)) \/ ServerRestarts PROVE ChatTypes'
<1>0. FreshKey \in AnyKey /\ 0 \in AnyKey /\ <<>> \in Seq(UpFrames)
  BY SMTT(60) DEF AnyKey
<1>1. CASE OpenSocket
  <2>1. sock \in Sockets /\ "open" \in LinkStates
    BY <1>1, Zenon DEF OpenSocket, ChatTypes, LinkStates
  <2>2. <<Request("connect", 0)>> \in Seq(UpFrames)
    <3>1. Request("connect", 0) \in UpFrames
      BY RequestType, Zenon DEF Methods
    <3> QED BY <3>1
  <2> QED BY <1>0, <1>1, <2>1, <2>2, Zenon DEF OpenSocket, Accept, ChatTypes
<1>2. ASSUME NEW s \in Sockets, LoseClient(s) PROVE ChatTypes'
  <2>1. LinkWithoutServer(s) \in LinkStates
    BY LinkTypes, Zenon
  <2> QED BY <1>0, <1>2, <2>1, Zenon DEF LoseClient, ClientGone, Close, ChatTypes
<1>3. CASE ServerRestarts
  <2>1. link' \in [Sockets -> LinkStates]
    BY <1>3, LinkTypes, Zenon DEF ServerRestarts, Restart
  <2> QED BY <1>0, <1>3, <2>1, Zenon DEF ServerRestarts, Restart, ChatTypes
<1> QED BY <1>1, <1>2, <1>3, Zenon

-----------------------------------------------------------------------------
(* A message runs once.                                                    *)

\* Frames and waiting messages get fewer.
LEMMA OnceLess ==
  ASSUME OnceInv, typed \in Nat, typed' \in Nat, typed <= typed', started' = started,
         Members(chatQueue') \subseteq Members(chatQueue), NoRepeat(chatQueue'),
         \A s \in Sockets : NoTwice(up'[s]) /\ SentIds(up'[s]) \subseteq SentIds(up[s])
  PROVE  OnceInv'
<1>1. 1 .. typed \subseteq 1 .. typed'
  BY UpTo, Zenon
<1> QED BY <1>1, Zenon DEF OnceInv

\* Nothing is typed.
LEMMA OnceStays ==
  ASSUME OnceInv, typed \in Nat, typed' = typed, started' = started,
         Members(chatQueue') \subseteq Members(chatQueue), NoRepeat(chatQueue'),
         \A s \in Sockets : NoTwice(up'[s]) /\ SentIds(up'[s]) \subseteq SentIds(up[s])
  PROVE  OnceInv'
BY OnceLess, SelfBound, Zenon

\* An empty queue.
LEMMA NoFrames == Sends(<<>>) = {} /\ SentIds(<<>>) = {} /\ NoTwice(<<>>) /\ Members(<<>>) = {}
          /\ NoRepeat(<<>>)
                  /\ Rising(<<>>) /\ OneSend(<<>>) /\ NoAbort(<<>>) /\ Dones(<<>>) = {}
                            /\ Sendings(<<>>) = {} /\ Orderly(<<>>)
BY NoIndex, Zenon DEF Sends, SentIds, NoTwice, Members, NoRepeat, Rising, OneSend, NoAbort, Dones, Sendings, Orderly

\* A request that is no message.
LEMMA OncePlain ==
  ASSUME ChatTypes, OnceInv, NEW method \in Methods \ {"chat.send"}, NEW id \in Nat, sock \in Sockets,
         PageSends(sock, <<Request(method, id)>>), UNCHANGED <<typed, started, chatQueue>>
  PROVE  OnceInv'
<1> DEFINE f == Request(method, id)
<1>1. f \in UpFrames /\ ~ IsSend(f)
  BY RequestType, Zenon DEF IsSend
<1> HIDE DEF f
<1>2. ASSUME NEW s \in Sockets PROVE NoTwice(up'[s]) /\ SentIds(up'[s]) \subseteq SentIds(up[s])
  <2>1. up'[s] = up[s] \/ up'[s] = Append(up[s], f)
    BY <1>1, PageSendsOne, Zenon DEF f
  <2>2. up[s] \in Seq(UpFrames) /\ NoTwice(up[s])
    BY Zenon DEF ChatTypes, OnceInv
  <2>3. NoTwice(Append(up[s], f)) /\ SentIds(Append(up[s], f)) = SentIds(up[s])
    BY <1>1, <2>2, AddPlain, Zenon
  <2> QED BY <2>1, <2>2, <2>3, Zenon
<1> QED BY <1>2, OnceLess, Zenon DEF ChatTypes, OnceInv

\* A message that is queued, sent or dropped, and is nowhere yet but at the head.
LEMMA OnceSent ==
  ASSUME ChatTypes, OnceInv, NEW n \in Nat, NEW busy \in BOOLEAN, NEW q \in Seq(Nat), SendMessage(n, busy, q),
         started' = started, typed' \in Nat, typed <= typed', n \in 1 .. typed',
         n \notin Members(q), n \notin Members(started), \A s \in Sockets : n \notin SentIds(up[s]),
         Members(q) \subseteq Members(chatQueue), NoRepeat(q)
  PROVE  OnceInv'
<1>0. 1 .. typed \subseteq 1 .. typed'
  BY UpTo, Zenon DEF ChatTypes
<1>1. CASE chatQueue' = Append(q, n) /\ up' = up
  <2>1. Members(chatQueue') = Members(q) \cup {n} /\ NoRepeat(chatQueue')
    BY <1>1, AddMembers, Zenon
  <2> QED BY <1>0, <1>1, <2>1, Zenon DEF OnceInv
<1>2. CASE chatQueue' = q /\ up' = up
  BY <1>0, <1>2, Zenon DEF OnceInv
<1>3. CASE chatQueue' = q /\ Connected /\ Ask(Request("chat.send", n))
  <2> DEFINE f == Request("chat.send", n)
  <2>1. f \in UpFrames /\ IsSend(f) /\ f.id = n /\ sock \in Sockets
    BY <1>3, RequestType, Zenon DEF IsSend, Connected, ChatTypes, Methods
  <2>2. /\ \A t \in Sockets : t # sock => up'[t] = up[t]
        /\ up'[sock] = up[sock] \/ up'[sock] = Append(up[sock], f)
    BY <1>3, <2>1, PageSendsOne, Zenon DEF Ask
  <2> HIDE DEF f
  <2>3. up[sock] \in Seq(UpFrames) /\ NoTwice(up[sock]) /\ n \notin SentIds(up[sock])
    BY <2>1, Zenon DEF ChatTypes, OnceInv
  <2>4. NoTwice(up'[sock]) /\ SentIds(up'[sock]) \subseteq SentIds(up[sock]) \cup {n}
    <3>1. NoTwice(Append(up[sock], f)) /\ SentIds(Append(up[sock], f)) = SentIds(up[sock]) \cup {n}
      BY <2>1, <2>3, AddMessage, ZenonT(60)
    <3> QED BY <2>2, <2>3, <3>1, Zenon
  <2>5. \A s \in Sockets : /\ NoTwice(up'[s])
                           /\ SentIds(up'[s]) \subseteq SentIds(up[s]) \cup (IF s = sock THEN {n} ELSE {})
    BY <2>2, <2>4, Zenon DEF OnceInv
  <2>6. /\ NoRepeat(chatQueue') /\ Members(chatQueue') \subseteq 1 .. typed'
        /\ NoRepeat(started') /\ Members(started') \subseteq 1 .. typed'
        /\ Members(chatQueue') \cap Members(started') = {}
    BY <1>0, <1>3, Zenon DEF OnceInv
  <2>7. ASSUME NEW s \in Sockets
        PROVE  /\ NoTwice(up'[s]) /\ SentIds(up'[s]) \subseteq 1 .. typed'
               /\ SentIds(up'[s]) \cap (Members(chatQueue') \cup Members(started')) = {}
    <3>1. /\ SentIds(up[s]) \subseteq 1 .. typed
          /\ SentIds(up[s]) \cap (Members(chatQueue) \cup Members(started)) = {}
      BY Zenon DEF OnceInv
    <3>2. NoTwice(up'[s]) /\ SentIds(up'[s]) \subseteq SentIds(up[s]) \cup {n}
      BY <2>5, Zenon
    <3>3. /\ chatQueue' = q /\ n \in 1 .. typed' /\ started' = started
          /\ n \notin Members(q) /\ n \notin Members(started) /\ Members(q) \subseteq Members(chatQueue)
      BY <1>3, Zenon
    <3>4. SentIds(up'[s]) \subseteq 1 .. typed'
      BY ONLY <1>0, <3>1, <3>2, <3>3, Zenon
    <3>5. SentIds(up'[s]) \cap (Members(chatQueue') \cup Members(started')) = {}
      BY ONLY <3>1, <3>2, <3>3, Zenon
    <3> QED BY <3>2, <3>4, <3>5, Zenon
  <2>8. ASSUME NEW s \in Sockets, NEW t \in Sockets, s # t PROVE SentIds(up'[s]) \cap SentIds(up'[t]) = {}
    <3> SUFFICES ASSUME NEW x, x \in SentIds(up'[s]), x \in SentIds(up'[t]) PROVE FALSE
      BY Zenon
    <3>1. /\ x \in SentIds(up[s]) \/ (s = sock /\ x = n)
          /\ x \in SentIds(up[t]) \/ (t = sock /\ x = n)
      BY <2>5, Zenon
    <3>2. ~ (x \in SentIds(up[s]) /\ x \in SentIds(up[t]))
      BY <2>8, Zenon DEF OnceInv
    <3> QED BY <2>8, <3>1, <3>2, Zenon
  <2> QED BY <2>6, <2>7, <2>8, Zenon DEF OnceInv
<1> QED BY <1>1, <1>2, <1>3, Zenon DEF SendMessage

\* What the user does sends no message twice.
LEMMA UserOnce == ASSUME ChatTypes, OnceInv, UserStep, UNCHANGED serverVars PROVE OnceInv'
<1>0. started' = started /\ typed \in Nat /\ \A s \in Sockets : NoTwice(up[s])
  BY Zenon DEF serverVars, ChatTypes, OnceInv
<1>1. CASE Type
  <2>1. /\ typed + 1 \in Nat /\ typed' = typed + 1 /\ typed + 1 \in 1 .. typed' /\ typed + 1 \notin 1 .. typed
        /\ SendMessage(typed + 1, chatSending, chatQueue) /\ chatSending \in BOOLEAN /\ chatQueue \in Seq(Nat)
    BY <1>0, <1>1 DEF Type, ChatTypes
  <2>2. /\ typed + 1 \notin Members(chatQueue) /\ typed + 1 \notin Members(started)
        /\ \A s \in Sockets : typed + 1 \notin SentIds(up[s])
        /\ NoRepeat(chatQueue)
    BY <2>1, Zenon DEF OnceInv
  <2> QED BY <1>0, <2>1, <2>2, OnceSent
<1>2. CASE NewChat \/ EraseMemory
  <2>1. chatQueue' = <<>> /\ up' = up /\ typed' = typed
    BY <1>2, Zenon DEF NewChat, EraseMemory, socketVars
  <2> QED BY <1>0, <2>1, NoFrames, OnceStays, Zenon
<1>3. CASE Stop
  <2>1. sock \in Sockets /\ "chat.abort" \in Methods \ {"chat.send"}
    BY <1>3, Zenon DEF Stop, Connected, ChatTypes, Methods
  <2> QED BY <1>0, <1>3, <2>1, OncePlain, Zenon DEF Stop
<1>4. CASE EditQueue
  <2>1. Members(chatQueue') \subseteq Members(chatQueue) /\ NoRepeat(chatQueue')
    <3>1. chatQueue \in Seq(Nat) /\ NoRepeat(chatQueue)
      BY Zenon DEF ChatTypes, OnceInv
    <3>2. \A i \in 1 .. Len(chatQueue) :
             LET c == SubSeq(chatQueue, 1, i - 1) \o SubSeq(chatQueue, i + 1, Len(chatQueue)) IN
             Members(c) \subseteq Members(chatQueue) /\ NoRepeat(c)
      BY <3>1, CutMembers, Zenon
    <3> QED BY <1>4, <3>2, NoFrames, Zenon DEF EditQueue
  <2>2. up' = up /\ typed' = typed
    BY <1>4, Zenon DEF EditQueue, socketVars
  <2> QED BY <1>0, <2>1, <2>2, OnceStays, Zenon
<1>5. CASE ReconnectByHand \/ Reload
  BY <1>0, <1>5, OnceLess, Zenon DEF ReconnectByHand, Reload, OnceInv
<1>6. ASSUME NEW method \in {"chat.history", "chat.inject"}, AskFor(method) PROVE OnceInv'
  <2>1. sock \in Sockets /\ method \in Methods \ {"chat.send"}
    BY <1>6, Zenon DEF AskFor, Connected, ChatTypes, Methods
  <2> QED BY <1>0, <1>6, <2>1, OncePlain, Zenon DEF AskFor, Ask
<1> QED BY <1>1, <1>2, <1>3, <1>4, <1>5, <1>6, Zenon DEF UserStep

\* What the page does sends no message twice: one that left the queue is on its way.
LEMMA PageOnce == ASSUME ChatTypes, OnceInv, PageStep, UNCHANGED serverVars PROVE OnceInv'
<1>0. started' = started /\ typed \in Nat /\ NoRepeat(chatQueue) /\ \A s \in Sockets : NoTwice(up[s])
  BY Zenon DEF serverVars, ChatTypes, OnceInv
<1>1. CASE Reconnect \/ SocketLost \/ RequestTimesOut
  <2>1. up' = up /\ chatQueue' = chatQueue /\ typed' = typed
    BY <1>1, Zenon DEF Reconnect, SocketLost, RequestTimesOut, socketVars
  <2> QED BY <1>0, <2>1, OnceStays, Zenon
<1>2. CASE PageReceives
  <2> DEFINE f == Head(down[sock])
  <2>1. sock \in Sockets /\ typed' = typed /\ (HandleResponse(f) \/ HandleEvent(f))
    BY <1>2, Zenon DEF PageReceives, Connected, ChatTypes
  <2> HIDE DEF f
  <2>2. CASE up' = up /\ chatQueue' = chatQueue
    BY <1>0, <2>1, <2>2, OnceStays, Zenon
  <2>3. CASE PageSends(sock, <<Request("chat.history", 0)>>) /\ chatQueue' = chatQueue
    <3>1. "chat.history" \in Methods \ {"chat.send"}
      BY Zenon DEF Methods
    <3> QED BY <1>0, <2>1, <2>3, <3>1, OncePlain, Zenon
  <2>4. CASE chatQueue # <<>> /\ SendMessage(Head(chatQueue), FALSE, Tail(chatQueue))
    <3> DEFINE n == Head(chatQueue)
               q == Tail(chatQueue)
    <3>1. n \in Nat /\ q \in Seq(Nat)
      BY <2>4, TailAt, Zenon DEF ChatTypes
    <3>2. Members(chatQueue) = Members(q) \cup {n} /\ NoRepeat(q) /\ n \notin Members(q)
      BY <1>0, <2>4, TailMembers, Zenon DEF ChatTypes
    <3>3. SendMessage(n, FALSE, q)
      BY <2>4, Zenon
    <3> HIDE DEF n, q
    <3>4. /\ n \in 1 .. typed' /\ n \notin Members(started) /\ \A s \in Sockets : n \notin SentIds(up[s])
          /\ typed <= typed' /\ typed' \in Nat
      BY <1>0, <2>1, <3>2 DEF OnceInv
    <3> QED BY <1>0, <3>1, <3>2, <3>3, <3>4, OnceSent, Zenon
  <2> QED BY <2>1, <2>2, <2>3, <2>4, Zenon DEF HandleResponse, HandleEvent, Flush
<1> QED BY <1>1, <1>2, Zenon DEF PageStep

\* What the server does starts no message twice.
LEMMA ServerOnce ==
  ASSUME ChatTypes, OnceInv, UNCHANGED pageVars,
         (\E s \in Sockets : ServerReceives(s)) \/ (\E j \in jobs : Finish(j))
  PROVE  OnceInv'
<1>0. chatQueue' = chatQueue /\ typed' = typed /\ typed \in Nat /\ typed <= typed' /\ NoRepeat(chatQueue)
        /\ \A s \in Sockets : NoTwice(up[s])
  BY SelfBound, Zenon DEF pageVars, ChatTypes, OnceInv
<1>1. ASSUME NEW j \in jobs, Finish(j) PROVE OnceInv'
  <2>1. up' = up /\ started' = started
    BY <1>1, Zenon DEF Finish
  <2> QED BY <1>0, <2>1, OnceLess, Zenon
<1>2. ASSUME NEW s \in Sockets, ServerReceives(s) PROVE OnceInv'
  <2> DEFINE f == Head(up[s])
             t == Tail(up[s])
  <2>1. up[s] \in Seq(UpFrames) /\ up[s] # <<>> /\ HandleFrame(s, f)
    BY <1>2, Zenon DEF ServerReceives, ChatTypes
  <2>2. up'[s] = t /\ \A r \in Sockets : r # s => up'[r] = up[r]
    BY <1>2, Zenon DEF ServerReceives, ChatTypes
  <2>3. /\ NoTwice(t) /\ SentIds(t) \subseteq SentIds(up[s])
        /\ IsSend(f) => f.id \in SentIds(up[s]) /\ f.id \notin SentIds(t)
    BY <1>0, <2>1, TailSends, Zenon
  <2>4. f.id \in Nat
    BY <2>1, TailAt, FrameTypes, Zenon
  <2> HIDE DEF f, t
  <2>5. \A r \in Sockets : NoTwice(up'[r]) /\ SentIds(up'[r]) \subseteq SentIds(up[r])
    BY <1>0, <2>2, <2>3, Zenon
  <2>6. CASE started' = started
    BY <1>0, <2>5, <2>6, OnceLess, Zenon
  <2>7. CASE IsSend(f) /\ started' = Append(started, f.id)
    <3>1. Members(started') = Members(started) \cup {f.id}
            /\ (f.id \notin Members(started) => NoRepeat(started'))
      BY <2>4, <2>7, AddMembers, Zenon DEF ChatTypes, OnceInv
    <3>2. f.id \notin Members(started) /\ f.id \notin Members(chatQueue) /\ f.id \in 1 .. typed
      BY <2>3, <2>7, Zenon DEF OnceInv
    <3>3. \A r \in Sockets : f.id \notin SentIds(up'[r])
      BY <2>2, <2>3, <2>7, Zenon DEF OnceInv
    <3>4. /\ NoRepeat(chatQueue') /\ Members(chatQueue') \subseteq 1 .. typed'
          /\ NoRepeat(started') /\ Members(started') \subseteq 1 .. typed'
          /\ Members(chatQueue') \cap Members(started') = {}
      BY <1>0, <3>1, <3>2, Zenon DEF OnceInv
    <3>5. \A r \in Sockets :
             /\ NoTwice(up'[r]) /\ SentIds(up'[r]) \subseteq 1 .. typed'
             /\ SentIds(up'[r]) \cap (Members(chatQueue') \cup Members(started')) = {}
      <4> SUFFICES ASSUME NEW r \in Sockets
          PROVE  /\ NoTwice(up'[r]) /\ SentIds(up'[r]) \subseteq 1 .. typed'
                 /\ SentIds(up'[r]) \cap (Members(chatQueue') \cup Members(started')) = {}
        BY Zenon
      <4>1. /\ SentIds(up[r]) \subseteq 1 .. typed
            /\ SentIds(up[r]) \cap (Members(chatQueue) \cup Members(started)) = {}
        BY Zenon DEF OnceInv
      <4>2. NoTwice(up'[r]) /\ SentIds(up'[r]) \subseteq SentIds(up[r]) /\ f.id \notin SentIds(up'[r])
        BY <2>5, <3>3, Zenon
      <4>3. SentIds(up'[r]) \subseteq 1 .. typed'
        BY ONLY <1>0, <4>1, <4>2, Zenon
      <4>4. SentIds(up'[r]) \cap (Members(chatQueue') \cup Members(started')) = {}
        BY ONLY <1>0, <3>1, <4>1, <4>2, Zenon
      <4> QED BY <4>2, <4>3, <4>4, Zenon
    <3>6. \A r, u \in Sockets : r # u => SentIds(up'[r]) \cap SentIds(up'[u]) = {}
      <4>1. \A r, u \in Sockets : r # u => SentIds(up[r]) \cap SentIds(up[u]) = {}
        BY Zenon DEF OnceInv
      <4> QED BY ONLY <2>5, <4>1, Zenon
    <3> QED BY <3>4, <3>5, <3>6, Zenon DEF OnceInv
  <2> QED BY <2>1, <2>6, <2>7, Zenon DEF HandleFrame, IsSend
<1> QED BY <1>1, <1>2, Zenon

\* What happens to the connection loses frames, and repeats none.
LEMMA ConnectionOnce ==
  ASSUME ChatTypes, OnceInv, OpenSocket \/ (\E s \in Sockets : LoseClient(s)) \/ ServerRestarts PROVE OnceInv'
<1>0. typed \in Nat /\ NoRepeat(chatQueue) /\ DOMAIN up = Sockets /\ \A s \in Sockets : NoTwice(up[s])
  BY Zenon DEF ChatTypes, OnceInv
<1>1. CASE OpenSocket
  <2> DEFINE f == Request("connect", 0)
  <2>1. f \in UpFrames /\ ~ IsSend(f)
    BY RequestType, Zenon DEF IsSend, Methods
  <2>2. /\ \A s \in Sockets : up'[s] = up[s] \/ up'[s] = <<f>>
        /\ UNCHANGED <<chatQueue, typed, started>>
    BY <1>0, <1>1, Zenon DEF OpenSocket, Accept
  <2> HIDE DEF f
  <2>3. SentIds(<<f>>) = {} /\ NoTwice(<<f>>)
    BY <2>1, OneIndex, Zenon DEF SentIds, Sends, NoTwice
  <2>4. chatQueue' = chatQueue /\ typed' = typed /\ started' = started
    BY <2>2, Zenon
  <2> QED BY <1>0, <2>2, <2>3, <2>4, OnceStays, Zenon
<1>2. ASSUME NEW s \in Sockets, LoseClient(s) PROVE OnceInv'
  <2>1. \A r \in Sockets : up'[r] = up[r] \/ up'[r] = <<>>
    BY <1>0, <1>2, Zenon DEF LoseClient, ClientGone
  <2>2. chatQueue' = chatQueue /\ typed' = typed /\ started' = started
    BY <1>2, Zenon DEF LoseClient, ClientGone
  <2> QED BY <1>0, <2>1, <2>2, NoFrames, OnceStays, Zenon
<1>3. CASE ServerRestarts
  <2>1. \A r \in Sockets : up'[r] = <<>>
    BY <1>3, Zenon DEF ServerRestarts, Restart
  <2>2. chatQueue' = chatQueue /\ typed' = typed /\ started' = started
    BY <1>3, Zenon DEF ServerRestarts, Restart
  <2> QED BY <1>0, <2>1, <2>2, NoFrames, OnceStays, Zenon
<1> QED BY <1>1, <1>2, <1>3, Zenon

-----------------------------------------------------------------------------
(* One message at a time, in the order typed, as long as nothing is lost.  *)

\* The page has its one connection; what the two sides have under way on it may
\* change.
LEMMA StaysConnected ==
  ASSUME OneSocket, Connected, UNCHANGED <<link, sock>>,
         \A s \in Sockets : s # sock => up'[s] = up[s] /\ down'[s] = down[s],
         \A j \in jobs' : j.sock = sock
  PROVE  OneSocket' /\ Connected' /\ sock # 0 /\ link[sock] = "open"
<1>1. sock # 0 /\ link[sock] = "open"
  BY Zenon DEF OneSocket, Connected, PageSeesOpen
<1>2. Connected'
  BY Zenon DEF Connected, PageSeesOpen
<1> QED BY <1>1, <1>2, Zenon DEF OneSocket

\* Frames that are no message go up, and any but chat.done come down.
LEMMA CalmGoesOn ==
  ASSUME ChatTypes, CalmInv, ~ disturbed, ~ disturbed', Connected,
         UNCHANGED <<link, sock, jobs, started, chatQueue, chatSending>>,
         \A s \in Sockets : s # sock => up'[s] = up[s] /\ down'[s] = down[s],
         Sends(up'[sock]) = Sends(up[sock]), SentIds(up'[sock]) = SentIds(up[sock]), NoAbort(up'[sock]),
         Dones(down[sock]) = {} => Dones(down'[sock]) = {},
         Sendings(down[sock]) = {} => Sendings(down'[sock]) = {}, Orderly(down'[sock])
  PROVE  CalmInv'
<1>1. OneSocket /\ InOrder /\ OneMessage /\ \A j \in jobs' : j.sock = sock
  BY Zenon DEF CalmInv, Connected, OneSocket
<1>2. OneSocket'
  BY <1>1, StaysConnected, Zenon
<1>3. InOrder'
  BY <1>1, Zenon DEF InOrder
<1>4. OneMessage'
  BY <1>1, Zenon DEF OneMessage, OneSend, Idle, Runs
<1> QED BY <1>2, <1>3, <1>4, Zenon DEF CalmInv

\* The next message goes up when none is under way.
LEMMA CalmSends ==
  ASSUME ChatTypes, OneSocket, Connected, UNCHANGED <<link, sock, jobs, started>>,
         Sends(up[sock]) = {}, NoAbort(up[sock]), Runs = {}, Dones(down'[sock]) = {},
         \A s \in Sockets : s # sock => down'[s] = down[s],
         NEW n \in Nat, NEW q \in Seq(Nat), Rising(q), Rising(started),
         \A m \in Members(started) : m < n /\ \A k \in Members(q) : m < k,
         \A k \in Members(q) : n < k,
         Ask(Request("chat.send", n)), chatQueue' = q, chatSending' = TRUE
  PROVE  CalmInv'
<1> DEFINE f == Request("chat.send", n)
<1>1. f \in UpFrames /\ IsSend(f) /\ f.id = n /\ f.method # "chat.abort" /\ sock \in Sockets
  BY RequestType, Zenon DEF IsSend, Connected, ChatTypes, Methods
<1>2. link[sock] = "open" /\ \A j \in jobs' : j.sock = sock
  BY Zenon DEF OneSocket, Connected, PageSeesOpen
<1>3. up'[sock] = Append(up[sock], f) /\ \A s \in Sockets : s # sock => up'[s] = up[s]
  BY <1>1, <1>2, PageSendsOne, Zenon DEF Ask
<1> HIDE DEF f
<1>4. OneSocket'
  BY <1>2, <1>3, StaysConnected, Zenon
<1>5. SentIds(up[sock]) = {} /\ up[sock] \in Seq(UpFrames)
  BY <1>1, Zenon DEF SentIds, ChatTypes
<1>6. OneSend(up'[sock]) /\ NoAbort(up'[sock]) /\ SentIds(up'[sock]) = {n}
  <2>1. LET a == Append(up[sock], f) IN OneSend(a) /\ NoAbort(a) /\ SentIds(a) = SentIds(up[sock]) \cup {n}
    <3>1. up[sock] \in Seq(UpFrames) /\ f \in UpFrames /\ IsSend(f) /\ f.id = n /\ f.method # "chat.abort"
      BY <1>1, <1>5, Zenon DEF IsSend
    <3>2. Sends(up[sock]) = {} /\ NoAbort(up[sock])
      BY <1>1, Zenon
    <3> QED BY ONLY <3>1, <3>2, AddMessage, Zenon
  <2> QED BY <1>3, <1>5, <2>1, Zenon
<1>7. Orderly(down'[sock])
  BY Zenon DEF Orderly
<1>8. OneMessage'
  BY <1>6, <1>7, Zenon DEF OneMessage, Runs
<1>9. InOrder'
  BY <1>6, Zenon DEF InOrder
<1> QED BY <1>4, <1>8, <1>9, Zenon DEF CalmInv

\* Messages leave the queue.
LEMMA CalmLess ==
  ASSUME CalmInv, UNCHANGED <<link, up, down, sock, jobs, started, chatSending, disturbed>>,
         Members(chatQueue') \subseteq Members(chatQueue), Rising(chatQueue) => Rising(chatQueue'),
         chatQueue = <<>> => chatQueue' = <<>>
  PROVE  CalmInv'
<1> SUFFICES ASSUME ~ disturbed PROVE CalmInv'
  BY Zenon DEF CalmInv
<1>1. OneSocket /\ InOrder /\ (sock # 0 => OneMessage)
  BY Zenon DEF CalmInv
<1>2. OneSocket'
  BY <1>1, Zenon DEF OneSocket, Connected, PageSeesOpen
<1>3. InOrder'
  BY <1>1, Zenon DEF InOrder
<1>4. sock # 0 => OneMessage'
  BY <1>1, Zenon DEF OneMessage, Idle, Runs
<1> QED BY <1>2, <1>3, <1>4, Zenon DEF CalmInv

\* A message typed while another is answered waits its turn.
LEMMA TypeCalm == ASSUME ChatTypes, OnceInv, CalmInv, Type, UNCHANGED serverVars PROVE CalmInv'
<1> SUFFICES ASSUME ~ disturbed PROVE CalmInv'
  BY Zenon DEF CalmInv, Type
<1> DEFINE n == typed + 1
<1>1. /\ SendMessage(n, chatSending, chatQueue) /\ UNCHANGED <<link, down, sock, disturbed, jobs, started>>
      /\ n \in Nat /\ chatQueue \in Seq(Nat) /\ \A m \in 1 .. typed : m < n
  BY DEF Type, serverVars, ChatTypes
<1>2. OneSocket /\ InOrder /\ (sock # 0 => OneMessage)
  BY Zenon DEF CalmInv
<1>3. /\ \A m \in Members(started) : m < n
      /\ \A m \in Members(chatQueue) : m < n
      /\ \A s \in Sockets : \A m \in SentIds(up[s]) : m < n
  BY <1>1, Zenon DEF OnceInv
<1> HIDE DEF n
<1>4. CASE chatSending /\ chatQueue' = Append(chatQueue, n) /\ chatSending' = chatSending /\ up' = up
  <2>1. Connected /\ sock # 0 /\ sock \in Sockets
    BY <1>2, <1>4, Zenon DEF OneSocket, Connected, ChatTypes
  <2>2. Members(chatQueue') = Members(chatQueue) \cup {n} /\ Rising(chatQueue')
    BY <1>1, <1>2, <1>3, <1>4, AddMembers, Zenon DEF InOrder
  <2>3. OneSocket'
    <3>1. \A j \in jobs' : j.sock = sock
      BY <1>1, <1>2, Zenon DEF OneSocket
    <3> QED BY <1>1, <1>2, <1>4, <2>1, <3>1, StaysConnected, Zenon
  <2>4. InOrder'
    BY <1>1, <1>2, <1>3, <1>4, <2>1, <2>2, Zenon DEF InOrder
  <2>5. OneMessage'
    BY <1>1, <1>2, <1>4, <2>1, Zenon DEF OneMessage, Runs
  <2> QED BY <2>3, <2>4, <2>5, Zenon DEF CalmInv
<1>5. CASE ~ chatSending /\ UNCHANGED <<chatQueue, chatSending, up>>
  <2>1. Members(chatQueue') \subseteq Members(chatQueue)
    BY <1>5, Zenon
  <2> QED BY <1>1, <1>5, <2>1, CalmLess, Zenon
<1>6. CASE ~ chatSending /\ Connected /\ chatQueue' = chatQueue /\ chatSending' = TRUE
        /\ Ask(Request("chat.send", n))
  <2>1. OneMessage /\ Idle /\ chatQueue = <<>>
    BY <1>2, <1>6, Zenon DEF Connected, OneMessage
  <2>2. /\ Sends(up[sock]) = {} /\ NoAbort(up[sock]) /\ Runs = {} /\ Dones(down'[sock]) = {}
          /\ Rising(started)
        /\ Members(chatQueue) = {} /\ Rising(chatQueue)
    BY <1>1, <1>2, <2>1, NoFrames, Zenon DEF OneMessage, Idle, InOrder
  <2> QED BY <1>1, <1>2, <1>3, <1>6, <2>2, CalmSends, Zenon
<1> QED BY <1>1, <1>4, <1>5, <1>6, Zenon DEF SendMessage

\* The page sends what is no message.
LEMMA PlainCalm ==
  ASSUME ChatTypes, CalmInv, ~ disturbed, ~ disturbed', Connected,
            NEW method \in Methods \ {"chat.send", "chat.abort"},
         NEW id \in Nat, PageSends(sock, <<Request(method, id)>>),
         UNCHANGED <<link, sock, jobs, started, chatQueue, chatSending>>,
         \A s \in Sockets : s # sock => down'[s] = down[s],
         Dones(down[sock]) = {} => Dones(down'[sock]) = {},
         Sendings(down[sock]) = {} => Sendings(down'[sock]) = {}, Orderly(down'[sock])
  PROVE  CalmInv'
<1> DEFINE f == Request(method, id)
<1>1. f \in UpFrames /\ ~ IsSend(f) /\ f.method # "chat.abort" /\ sock \in Sockets
  BY RequestType, Zenon DEF IsSend, Connected, ChatTypes
<1>2. link[sock] = "open" /\ NoAbort(up[sock]) /\ up[sock] \in Seq(UpFrames)
  BY <1>1, Zenon DEF CalmInv, OneSocket, OneMessage, Connected, PageSeesOpen, ChatTypes
<1>3. up'[sock] = Append(up[sock], f) /\ \A s \in Sockets : s # sock => up'[s] = up[s]
  BY <1>1, <1>2, PageSendsOne, Zenon
<1> HIDE DEF f
<1>4. Sends(up'[sock]) = Sends(up[sock]) /\ SentIds(up'[sock]) = SentIds(up[sock]) /\ NoAbort(up'[sock])
  <2>1. LET a == Append(up[sock], f) IN
        Sends(a) = Sends(up[sock]) /\ SentIds(a) = SentIds(up[sock]) /\ NoAbort(a)
    BY <1>1, <1>2, AddPlain, ZenonT(60)
  <2> QED BY <1>3, <2>1, Zenon
<1> QED BY <1>3, <1>4, CalmGoesOn, Zenon

\* What the user does keeps one message at a time, or disturbs the page.
LEMMA UserCalm == ASSUME ChatTypes, OnceInv, CalmInv, UserStep, UNCHANGED serverVars PROVE CalmInv'
<1>0. UNCHANGED <<jobs, started>>
  BY Zenon DEF serverVars
<1>1. CASE Type
  BY <1>1, TypeCalm, Zenon
<1>2. CASE NewChat \/ EraseMemory
  BY <1>0, <1>2, NoFrames, CalmLess, Zenon DEF NewChat, EraseMemory, socketVars
<1>3. CASE Stop \/ ReconnectByHand \/ Reload
  BY <1>3, Zenon DEF Stop, ReconnectByHand, Reload, CalmInv
<1>4. CASE EditQueue
  <2>1. Members(chatQueue') \subseteq Members(chatQueue) /\ (Rising(chatQueue) => Rising(chatQueue'))
    <3>1. chatQueue \in Seq(Nat)
      BY Zenon DEF ChatTypes
    <3>2. \A i \in 1 .. Len(chatQueue) :
             LET c == SubSeq(chatQueue, 1, i - 1) \o SubSeq(chatQueue, i + 1, Len(chatQueue)) IN
             Members(c) \subseteq Members(chatQueue) /\ (Rising(chatQueue) => Rising(c))
      BY <3>1, CutMembers, Zenon
    <3> QED BY <1>4, <3>2, NoFrames, Zenon DEF EditQueue
  <2> QED BY <1>0, <1>4, <2>1, CalmLess, Zenon DEF EditQueue, socketVars
<1>5. ASSUME NEW method \in {"chat.history", "chat.inject"}, AskFor(method) PROVE CalmInv'
  <2> SUFFICES ASSUME ~ disturbed PROVE CalmInv'
    BY <1>5, Zenon DEF CalmInv, AskFor
  <2>1. /\ method \in Methods \ {"chat.send", "chat.abort"} /\ Connected /\ sock \in Sockets
        /\ PageSends(sock, <<Request(method, 1)>>)
        /\ UNCHANGED <<link, down, sock, chatQueue, chatSending, disturbed>>
    BY <1>5, Zenon DEF AskFor, Ask, Methods, Connected, ChatTypes
  <2>2. Orderly(down'[sock])
    BY <2>1, Zenon DEF CalmInv, OneMessage, Connected
  <2> QED BY <1>0, <2>1, <2>2, PlainCalm, Zenon
<1> QED BY <1>1, <1>2, <1>3, <1>4, <1>5, Zenon DEF UserStep

\* The first connection, or a later one, which disturbs the page.
LEMMA ReconnectCalm == ASSUME ChatTypes, CalmInv, Reconnect, UNCHANGED serverVars PROVE CalmInv'
<1> SUFFICES ASSUME ~ disturbed PROVE CalmInv'
  BY Zenon DEF CalmInv, Reconnect
<1>1. /\ sock = 0 /\ Replace /\ UNCHANGED <<up, chatSending, chatQueue, jobs, started>>
      /\ OneSocket /\ InOrder
  BY Zenon DEF Reconnect, serverVars, CalmInv
<1>2. /\ \A s \in Sockets : s # 0 /\ up[s] = <<>> /\ down[s] = <<>> /\ link[s] = "unused"
      /\ chatQueue = <<>> /\ ~ chatSending /\ jobs = {}
  BY <1>1, NoSocketZero, Zenon DEF OneSocket, Connected
<1>3. sock' = NextSocket /\ NextSocket \in Sockets
  BY <1>1, NextSocketUnused, Zenon DEF Replace
<1>4. \A s \in Sockets : /\ link'[s] = (IF s = sock' THEN "opening" ELSE "unused")
                         /\ up'[s] = <<>> /\ down'[s] = <<>>
  BY <1>1, <1>2, <1>3, Zenon DEF Replace
<1>5. OneSocket'
  BY <1>1, <1>2, <1>3, <1>4, Zenon DEF OneSocket
<1>6. InOrder'
  BY <1>1, <1>3, <1>4, NoFrames, Zenon DEF InOrder
<1>7. OneMessage'
  BY <1>1, <1>2, <1>3, <1>4, NoFrames, Zenon DEF OneMessage, Idle, Runs
<1> QED BY <1>5, <1>6, <1>7, Zenon DEF CalmInv

\* The page takes a frame: after chat.done, and only then, the next message goes up.
LEMMA ReceiveCalm == ASSUME ChatTypes, CalmInv, PageReceives, UNCHANGED serverVars PROVE CalmInv'
<1> SUFFICES ASSUME ~ disturbed PROVE CalmInv'
  BY Zenon DEF CalmInv, PageReceives
<1> DEFINE f == Head(down[sock])
           t == Tail(down[sock])
<1>1. /\ UNCHANGED <<jobs, started, link, sock, disturbed>> /\ Connected /\ sock \in Sockets /\ sock # 0
      /\ down[sock] \in Seq(DownFrames) /\ down[sock] # <<>>
      /\ down'[sock] = t /\ \A s \in Sockets : s # sock => down'[s] = down[s]
      /\ IF f.type = "res" THEN HandleResponse(f) ELSE HandleEvent(f)
  BY Zenon DEF PageReceives, serverVars, Connected, ChatTypes
<1>2. OneSocket /\ InOrder /\ OneMessage
  BY <1>1, Zenon DEF CalmInv
<1>3. /\ Dones(down[sock]) = {} => Dones(t) = {} /\ ~ IsDone(f)
      /\ Sendings(down[sock]) = {} => Sendings(t) = {} /\ ~ IsSending(f)
      /\ Orderly(t)
      /\ IsDone(f) => Dones(t) = {} /\ Sendings(t) = {}
  BY <1>1, <1>2, TailEvents, Zenon DEF OneMessage
<1> HIDE DEF f, t
<1>4. CASE UNCHANGED <<chatQueue, chatSending, up>>
  <2>1. NoAbort(up'[sock])
    BY <1>2, <1>4, Zenon DEF OneMessage
  <2> QED BY <1>1, <1>3, <1>4, <2>1, CalmGoesOn, Zenon
<1>5. CASE HandleResponse(f)
  <2>1. UNCHANGED <<chatQueue, chatSending>> /\ (up' = up \/ PageSends(sock, <<Request("chat.history", 0)>>))
    BY <1>5, Zenon DEF HandleResponse
  <2>2. "chat.history" \in Methods \ {"chat.send", "chat.abort"}
    BY Zenon DEF Methods
  <2> QED BY <1>1, <1>3, <1>4, <2>1, <2>2, PlainCalm, Zenon
<1>6. CASE HandleEvent(f) /\ f.type # "res" /\ f.method = "sending"
  <2>1. f \in DownFrames
    BY <1>1, TailAt, Zenon DEF f
  <2>2. IsSending(f)
    BY <1>6, <2>1, Zenon DEF IsSending, DownFrames
  <2>3. chatSending
    BY <1>2, <1>3, <2>2, Zenon DEF OneMessage, Idle
  <2>4. UNCHANGED <<up, chatQueue>> /\ chatSending' = TRUE
    BY <1>6, Zenon DEF HandleEvent
  <2>5. chatSending' = chatSending
    BY <2>3, <2>4, Zenon DEF ChatTypes
  <2> QED BY <1>4, <2>4, <2>5, Zenon
<1>7. CASE Flush /\ f.type # "res" /\ f.method = "done"
  <2>1. f \in DownFrames
    BY <1>1, TailAt, Zenon DEF f
  <2>2. IsDone(f)
    BY <1>7, <2>1, Zenon DEF IsDone, DownFrames
  <2>3. /\ Sends(up[sock]) = {} /\ Runs = {} /\ NoAbort(up[sock])
        /\ Dones(t) = {} /\ Sendings(t) = {}
    BY <1>2, <1>3, <2>2, Zenon DEF OneMessage
  <2>4. CASE chatQueue = <<>>
    <3>1. chatSending' = FALSE /\ up' = up /\ chatQueue' = chatQueue
      BY <1>7, <2>4, Zenon DEF Flush
    <3>2. OneSocket'
      <4>1. \A j \in jobs' : j.sock = sock
        BY <1>1, <1>2, Zenon DEF OneSocket
      <4> QED BY <1>1, <1>2, <3>1, <4>1, StaysConnected, Zenon
    <3>3. InOrder'
      BY <1>1, <1>2, <3>1, Zenon DEF InOrder
    <3>4. OneMessage'
      BY <1>1, <1>2, <1>3, <2>3, <2>4, <3>1, Zenon DEF OneMessage, Idle, Runs
    <3> QED BY <3>2, <3>3, <3>4, Zenon DEF CalmInv
  <2>5. CASE chatQueue # <<>>
    <3> DEFINE n == Head(chatQueue)
               q == Tail(chatQueue)
    <3>1. SendMessage(n, FALSE, q)
      BY <1>7, <2>5, Zenon DEF Flush
    <3>2. /\ chatQueue \in Seq(Nat) /\ n \in Nat /\ q \in Seq(Nat)
          /\ Members(chatQueue) = Members(q) \cup {n}
          /\ Rising(chatQueue) => Rising(q) /\ \A k \in Members(q) : n < k
      BY <2>5, TailAt, TailMembers, Zenon DEF ChatTypes
    <3> HIDE DEF n, q
    <3>3. chatQueue' = q /\ chatSending' = TRUE /\ Ask(Request("chat.send", n))
      BY <1>1, <3>1, Zenon DEF SendMessage
    <3>4. /\ Rising(started) /\ Rising(q) /\ \A k \in Members(q) : n < k
          /\ \A m \in Members(started) : m < n /\ \A k \in Members(q) : m < k
      BY <1>2, <3>2, Zenon DEF InOrder
    <3> QED BY <1>1, <1>2, <2>3, <3>2, <3>3, <3>4, CalmSends, Zenon
  <2> QED BY <2>4, <2>5, Zenon
<1> QED BY <1>1, <1>5, <1>6, <1>7, Zenon DEF HandleEvent

\* What the page does by itself keeps one message at a time.
LEMMA PageCalm == ASSUME ChatTypes, CalmInv, PageStep, UNCHANGED serverVars PROVE CalmInv'
<1>0. UNCHANGED <<jobs, started>>
  BY Zenon DEF serverVars
<1>1. CASE SocketLost
  BY <1>1, Zenon DEF SocketLost, CalmInv
<1>2. CASE RequestTimesOut
  <2>1. PICK p \in pending : /\ chatSending' = (chatSending /\ p.method # "chat.send")
                             /\ disturbed' = (disturbed \/ p.method = "chat.send")
    BY <1>2, Zenon DEF RequestTimesOut
  <2>2. UNCHANGED <<link, up, down, sock, chatQueue>>
    BY <1>2, Zenon DEF RequestTimesOut, socketVars
  <2>3. CASE p.method = "chat.send" \/ disturbed
    BY <2>1, <2>3, Zenon DEF CalmInv
  <2>4. CASE p.method # "chat.send" /\ ~ disturbed
    <3>1. chatSending' = chatSending /\ disturbed' = disturbed
      BY <2>1, <2>4, Zenon DEF ChatTypes
    <3>2. Members(chatQueue') \subseteq Members(chatQueue)
      BY <2>2, Zenon
    <3> QED BY <1>0, <2>2, <3>1, <3>2, CalmLess, Zenon
  <2> QED BY <2>3, <2>4, Zenon
<1> QED BY <1>1, <1>2, ReconnectCalm, ReceiveCalm, Zenon DEF PageStep

\* The socket opens, with the handshake on its way.
LEMMA OpenCalm == ASSUME ChatTypes, CalmInv, OpenSocket PROVE CalmInv'
<1> SUFFICES ASSUME ~ disturbed PROVE CalmInv'
  BY Zenon DEF CalmInv, OpenSocket
<1> DEFINE f == Request("connect", 0)
<1>1. f \in UpFrames /\ ~ IsSend(f) /\ f.method # "chat.abort"
  BY RequestType, Zenon DEF IsSend, Methods
<1>2. /\ sock \in Sockets /\ sock # 0 /\ link[sock] = "opening"
      /\ link'[sock] = "open" /\ up'[sock] = <<f>>
      /\ \A s \in Sockets : s # sock => link'[s] = link[s] /\ up'[s] = up[s]
      /\ UNCHANGED <<down, sock, chatSending, chatQueue, jobs, started, disturbed>>
  BY Zenon DEF OpenSocket, Accept, ChatTypes
<1> HIDE DEF f
<1>3. OneSocket /\ InOrder /\ OneMessage
  BY <1>2, Zenon DEF CalmInv
<1>4. /\ up[sock] = <<>> /\ down[sock] = <<>> /\ jobs = {} /\ chatQueue = <<>> /\ ~ chatSending
  BY <1>2, <1>3, Zenon DEF OneSocket, Connected, PageSeesOpen
<1>5. Sends(<<f>>) = {} /\ SentIds(<<f>>) = {} /\ NoAbort(<<f>>) /\ OneSend(<<f>>)
  BY <1>1, OneIndex, Zenon DEF Sends, SentIds, NoAbort, OneSend
<1>6. OneSocket'
  BY <1>2, <1>3, <1>4, Zenon DEF OneSocket
<1>7. InOrder'
  BY <1>2, <1>3, <1>5, Zenon DEF InOrder
<1>8. OneMessage'
  BY <1>2, <1>4, <1>5, NoFrames, Zenon DEF OneMessage, Idle, Runs
<1> QED BY <1>6, <1>7, <1>8, Zenon DEF CalmInv

\* A handler ends; the end of a run is the chat.done that was not there before.
LEMMA FinishCalm == ASSUME ChatTypes, CalmInv, UNCHANGED pageVars, NEW j \in jobs, Finish(j) PROVE CalmInv'
<1> SUFFICES ASSUME ~ disturbed PROVE CalmInv'
  BY Zenon DEF CalmInv, pageVars
<1>1. /\ UNCHANGED <<link, up, sock, chatSending, chatQueue, started, disturbed>> /\ jobs' = jobs \ {j}
  BY Zenon DEF Finish, pageVars
<1>2. OneSocket /\ InOrder /\ Connected /\ sock # 0 /\ OneMessage /\ j.sock = sock /\ sock \in Sockets
  BY Zenon DEF CalmInv, OneSocket, Connected, ChatTypes
<1>3. link[sock] = "open" /\ down[sock] \in Seq(DownFrames)
  BY <1>2, Zenon DEF OneSocket, Connected, PageSeesOpen, ChatTypes
<1>4. j \in Handlers /\ j.id \in Nat /\ j.key \in AnyKey /\ clientKey[j.sock] \in AnyKey /\ 0 \in AnyKey
  BY <1>2, FrameTypes, Zenon DEF ChatTypes, AnyKey
<1>5. PICK g : ServerSends(sock, <<g>>) /\ g \in DownFrames /\ ~ IsSending(g)
        /\ (IsDone(g) => j.method = "chat.send")
  <2>1. PICK frames \in Outcome(j) : ServerSends(sock, frames)
    BY <1>2, Zenon DEF Finish
  <2> QED BY <1>4, <2>1, AnswerTypes, Zenon DEF Outcome
<1>6. down'[sock] = Append(down[sock], g) /\ \A s \in Sockets : s # sock => down'[s] = down[s]
  BY <1>2, <1>3, <1>5, ServerSendsOne, Zenon
<1>7. /\ Sendings(down'[sock]) = Sendings(down[sock])
      /\ ~ IsDone(g) => Dones(down'[sock]) = Dones(down[sock])
      /\ ~ IsDone(g) /\ Orderly(down[sock]) => Orderly(down'[sock])
      /\ Dones(down[sock]) = {} => Orderly(down'[sock])
  <2>1. LET a == Append(down[sock], g) IN
        /\ Sendings(a) = Sendings(down[sock])
        /\ ~ IsDone(g) => Dones(a) = Dones(down[sock])
        /\ ~ IsDone(g) /\ Orderly(down[sock]) => Orderly(a)
        /\ Dones(down[sock]) = {} => Orderly(a)
    BY <1>3, <1>5, AddEvents, ZenonT(60)
  <2> QED BY <1>6, <2>1, Zenon
<1>8. OneSocket'
  <2>1. \A k \in jobs' : k.sock = sock
    BY <1>1, <1>2, Zenon DEF OneSocket
  <2> QED BY <1>1, <1>2, <1>6, <2>1, StaysConnected, Zenon
<1>9. InOrder'
  BY <1>1, <1>2, Zenon DEF InOrder
<1>10. OneMessage'
  <2>1. CASE j.method = "chat.send"
    <3>1. j \in Runs
      BY <2>1, Zenon DEF Runs
    <3>2. Runs' = {} /\ Sends(up[sock]) = {} /\ Dones(down[sock]) = {} /\ chatSending
      BY <1>1, <1>2, <3>1, Zenon DEF OneMessage, Runs, Idle
    <3> QED BY <1>1, <1>2, <1>7, <3>2, Zenon DEF OneMessage
  <2>2. CASE j.method # "chat.send"
    <3>1. Runs' = Runs
      BY <1>1, <2>2, SMTT(60) DEF Runs
    <3> QED BY <1>1, <1>2, <1>5, <1>7, <2>2, <3>1, Zenon DEF OneMessage, Idle
  <2> QED BY <2>1, <2>2, Zenon
<1> QED BY <1>8, <1>9, <1>10, Zenon DEF CalmInv

\* The server takes a frame; a message it starts is the only one.
LEMMA ServeCalm ==
  ASSUME ChatTypes, OnceInv, CalmInv, UNCHANGED pageVars, NEW s \in Sockets, ServerReceives(s)
  PROVE CalmInv'
<1> SUFFICES ASSUME ~ disturbed PROVE CalmInv'
  BY Zenon DEF CalmInv, pageVars
<1>1. UNCHANGED <<link, sock, chatSending, chatQueue, disturbed>>
  BY Zenon DEF ServerReceives, pageVars
<1>2. OneSocket /\ InOrder /\ s = sock /\ sock # 0 /\ OneMessage /\ link[sock] = "open" /\ Connected
  <2>1. OneSocket /\ s = sock
    BY Zenon DEF CalmInv, OneSocket, ServerReceives, ServerSeesOpen
  <2>2. s # 0
    BY NoSocketZero, Zenon
  <2>3. link[sock] = "open"
    BY <2>1, <2>2, Zenon DEF OneSocket, ServerReceives, ServerSeesOpen
  <2> QED BY <2>1, <2>2, <2>3, Zenon DEF CalmInv, Connected, PageSeesOpen
<1> DEFINE f == Head(up[sock])
           t == Tail(up[sock])
<1>3. /\ up[sock] \in Seq(UpFrames) /\ up[sock] # <<>> /\ down[sock] \in Seq(DownFrames)
      /\ up'[sock] = t /\ \A r \in Sockets : r # sock => up'[r] = up[r]
      /\ HandleFrame(sock, f)
  BY <1>2, Zenon DEF ServerReceives, ChatTypes
<1>4. /\ f \in UpFrames /\ f.id \in Nat /\ f.key \in AnyKey /\ f.method # "chat.abort"
      /\ NoAbort(t) /\ OneSend(t) /\ SentIds(t) \subseteq SentIds(up[sock])
      /\ Sends(up[sock]) = {} => Sends(t) = {}
      /\ IsSend(f) => Sends(t) = {} /\ Sends(up[sock]) # {} /\ f.id \in SentIds(up[sock])
  <2>1. f \in UpFrames
    BY <1>3, TailAt, Zenon
  <2> QED BY <1>2, <1>3, <2>1, TailSends, FrameTypes, Zenon DEF OneMessage
<1> HIDE DEF f, t
<1> DEFINE j == [sock |-> sock, method |-> f.method, id |-> f.id, key |-> f.key]
<1>5. j.sock = sock /\ j.method = f.method
  BY Zenon
<1>6. CASE ~ IsSend(f) /\ jobs' = jobs \cup {j} /\ UNCHANGED <<down, started>>
  <2>1. Runs' = Runs /\ \A k \in jobs' : k.sock = sock
    BY <1>2, <1>5, <1>6, Zenon DEF Runs, IsSend, OneSocket
  <2> HIDE DEF j
  <2>2. OneSocket'
    BY <1>1, <1>2, <1>3, <1>6, <2>1, StaysConnected, Zenon
  <2>3. InOrder'
    BY <1>1, <1>2, <1>3, <1>4, <1>6, Zenon DEF InOrder
  <2>4. OneMessage'
    BY <1>1, <1>2, <1>3, <1>4, <1>6, <2>1, Zenon DEF OneMessage, Idle
  <2> QED BY <2>2, <2>3, <2>4, Zenon DEF CalmInv
<1>7. CASE /\ IsSend(f) /\ jobs' = jobs \cup {j} /\ started' = Append(started, f.id)
           /\ ServerSends(sock, <<Response(f, f.key), Event("sending", f.id)>>)
  <2>1. Runs = {} /\ Dones(down[sock]) = {} /\ chatSending
    BY <1>2, <1>4, <1>7, Zenon DEF OneMessage, Idle
  <2>2. Runs' = {j} /\ \A k \in jobs' : k.sock = sock
    BY <1>2, <1>5, <1>7, <2>1, Zenon DEF Runs, IsSend, OneSocket
  <2> HIDE DEF j
  <2> DEFINE g == Response(f, f.key)
             h == Event("sending", f.id)
  <2>3. g \in DownFrames /\ h \in DownFrames /\ ~ IsDone(g) /\ ~ IsDone(h)
    BY <1>4, AnswerTypes, Zenon
  <2>4. down'[sock] = Append(Append(down[sock], g), h) /\ \A r \in Sockets : r # sock => down'[r] = down[r]
    <3>1. sock \in Sockets
      BY <1>2, Zenon
    <3> QED BY <1>2, <1>7, <2>3, <3>1, ServerSendsTwo, Zenon
  <2> HIDE DEF g, h
  <2>5. Append(down[sock], g) \in Seq(DownFrames) /\ Dones(Append(down[sock], g)) = {}
    BY <1>3, <2>1, <2>3, AddEvents, Zenon
  <2>6. Dones(down'[sock]) = {} /\ Orderly(down'[sock])
    <3> DEFINE q == Append(down[sock], g)
    <3>1. q \in Seq(DownFrames) /\ Dones(q) = {} /\ down'[sock] = Append(q, h)
      BY <2>4, <2>5, Zenon
    <3> HIDE DEF q
    <3>2. Dones(Append(q, h)) = {} /\ Orderly(Append(q, h))
      BY <2>3, <3>1, AddEvents, Zenon
    <3> QED BY <3>1, <3>2, Zenon
  <2>7. OneSocket'
    BY <1>1, <1>2, <1>3, <2>2, <2>4, StaysConnected, Zenon
  <2>8. InOrder'
    <3>1. SentIds(t) = {}
      BY <1>4, <1>7, Zenon DEF SentIds
    <3>2. Members(started') = Members(started) \cup {f.id} /\ Rising(started')
      <4>1. started \in Seq(Nat) /\ Rising(started) /\ \A m \in Members(started) : m < f.id
        BY <1>2, <1>4, <1>7, Zenon DEF ChatTypes, InOrder
      <4> QED BY <1>4, <1>7, <4>1, AddMembers, Zenon
    <3> QED BY <1>1, <1>2, <1>3, <1>4, <1>7, <3>1, <3>2, Zenon DEF InOrder
  <2>9. OneMessage'
    BY <1>1, <1>2, <1>3, <1>4, <1>7, <2>1, <2>2, <2>6, Zenon DEF OneMessage
  <2> QED BY <2>7, <2>8, <2>9, Zenon DEF CalmInv
<1> QED BY <1>2, <1>3, <1>4, <1>6, <1>7, Zenon DEF HandleFrame, Begin, IsSend

-----------------------------------------------------------------------------

WebInv == ChatTypes /\ OnceInv /\ CalmInv

\* The page is loaded, and nothing is connected.
LEMMA WebStarts == WebInit => WebInv
<1> SUFFICES ASSUME WebInit PROVE WebInv
  BY Zenon
<1>1. ChatTypes
  <2>1. <<>> \in Seq(UpFrames) /\ <<>> \in Seq(DownFrames) /\ <<>> \in Seq(Nat)
    OBVIOUS
  <2>2. /\ link \in [Sockets -> LinkStates]
        /\ up \in [Sockets -> Seq(UpFrames)] /\ down \in [Sockets -> Seq(DownFrames)]
    BY <2>1, Zenon DEF WebInit, SocketInit, LinkStates
  <2>3. /\ sock \in Sockets \cup {0} /\ chatSending \in BOOLEAN /\ disturbed \in BOOLEAN
        /\ chatQueue \in Seq(Nat) /\ typed \in Nat
        /\ sessionKey \in AnyKey /\ savedKey \in AnyKey /\ keys \in Nat
    BY <2>1, Zenon DEF WebInit, PageInit, AnyKey
  <2>4. started \in Seq(Nat) /\ clientKey \in [Sockets -> AnyKey] /\ jobs \subseteq Handlers
    BY <2>1, Zenon DEF WebInit, ServerInit, AnyKey
  <2> QED BY <2>2, <2>3, <2>4, Zenon DEF ChatTypes
<1>2. OnceInv
  BY NoFrames, Zenon DEF WebInit, SocketInit, PageInit, ServerInit, OnceInv
<1>3. CalmInv
  BY NoFrames, Zenon DEF WebInit, SocketInit, PageInit, ServerInit, CalmInv, OneSocket, InOrder
<1> QED BY <1>1, <1>2, <1>3, Zenon DEF WebInv

\* Every step of the page, the user, the server and the connection keeps WebInv.
LEMMA WebStep == WebInv /\ [WebNext]_webVars => WebInv'
<1> SUFFICES ASSUME WebInv, [WebNext]_webVars PROVE WebInv'
  BY Zenon
<1>0. ChatTypes /\ OnceInv /\ CalmInv
  BY Zenon DEF WebInv
<1>1. CASE (PageStep \/ UserStep) /\ UNCHANGED serverVars
  BY <1>0, <1>1, PageTypes, UserTypes, PageOnce, UserOnce, PageCalm, UserCalm, Zenon DEF WebInv
<1>2. CASE OpenSocket
  BY <1>0, <1>2, ConnectionTypes, ConnectionOnce, OpenCalm, Zenon DEF WebInv
<1>3. ASSUME NEW s \in Sockets, LoseClient(s) \/ (ServerReceives(s) /\ UNCHANGED pageVars) PROVE WebInv'
  <2>1. CASE LoseClient(s)
    <3>1. CalmInv'
      BY <2>1, Zenon DEF LoseClient, CalmInv
    <3> QED BY <1>0, <2>1, <3>1, ConnectionTypes, ConnectionOnce, Zenon DEF WebInv
  <2>2. CASE ServerReceives(s) /\ UNCHANGED pageVars
    BY <1>0, <2>2, ServerTypes, ServerOnce, ServeCalm, Zenon DEF WebInv
  <2> QED BY <1>3, <2>1, <2>2, Zenon
<1>4. ASSUME NEW j \in jobs, Finish(j), UNCHANGED pageVars PROVE WebInv'
  BY <1>0, <1>4, ServerTypes, ServerOnce, FinishCalm, Zenon DEF WebInv
<1>5. CASE ServerRestarts
  <2>1. CalmInv'
    BY <1>5, Zenon DEF ServerRestarts, CalmInv
  <2> QED BY <1>0, <1>5, <2>1, ConnectionTypes, ConnectionOnce, Zenon DEF WebInv
<1>6. CASE UNCHANGED webVars
  <2>1. UNCHANGED <<link, up, down, sock, chatSending, chatQueue, sessionKey, savedKey, typed, keys,
          disturbed,
                    clientKey, jobs, started>>
    BY <1>6, Zenon DEF webVars, socketVars, pageVars, serverVars
  <2>2. ChatTypes'
    BY <1>0, <2>1, Zenon DEF ChatTypes
  <2>3. OnceInv'
    BY <1>0, <2>1, Zenon DEF OnceInv
  <2>4. CalmInv'
    BY <1>0, <2>1, CalmLess, Zenon
  <2> QED BY <2>2, <2>3, <2>4, Zenon DEF WebInv
<1> QED BY <1>1, <1>2, <1>3, <1>4, <1>5, <1>6, Zenon DEF WebNext

\* controllers/chat.ts and gateway: for any number of messages, sockets, losses,
\* reloads and restarts, a message that the user typed starts at most one run; the
\* page never sends again what may have arrived.
THEOREM EachMessageRunsOnce == WebSpec => []TypedRunsOnce
<1>1. WebInv => TypedRunsOnce
  <2> SUFFICES ASSUME WebInv PROVE TypedRunsOnce
    BY Zenon
  <2>1. started \in Seq(Nat) /\ NoRepeat(started)
    BY Zenon DEF WebInv, ChatTypes, OnceInv
  <2> QED BY <2>1 DEF NoRepeat, TypedRunsOnce
<1> QED BY <1>1, WebStarts, WebStep, PTL DEF WebSpec

\* app-chat.ts, the send queue: for any number of messages, until a loss, a reload, a
\* time-out or a stop disturbs the page, one run at a time answers it, and runs start
\* in the order in which their messages were typed.
THEOREM MessagesRunInTurn == WebSpec => []MessagesInTurn
<1>1. WebInv => MessagesInTurn
  <2> SUFFICES ASSUME WebInv, ~ disturbed
               PROVE  /\ \A j, k \in Runs : j = k
                      /\ \A m, n \in DOMAIN started : m < n => started[m] < started[n]
    BY Zenon DEF MessagesInTurn
  <2>1. started \in Seq(Nat) /\ Rising(started) /\ OneSocket /\ (sock # 0 => OneMessage)
    BY Zenon DEF WebInv, ChatTypes, CalmInv, InOrder
  <2>2. \A m, n \in DOMAIN started : m < n => started[m] < started[n]
    BY <2>1, SMTT(60) DEF Rising
  <2>3. CASE sock = 0
    BY <2>1, <2>2, <2>3, Zenon DEF OneSocket, Connected, Runs
  <2>4. CASE sock # 0
    BY <2>1, <2>2, <2>4, Zenon DEF OneMessage
  <2> QED BY <2>3, <2>4, Zenon
<1> QED BY <1>1, WebStarts, WebStep, PTL DEF WebSpec
=============================================================================
