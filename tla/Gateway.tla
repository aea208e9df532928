------------------------------- MODULE Gateway -------------------------------
(***************************************************************************)
(* The path of a message through the gateway: the channels hand it to      *)
(* handleMessage (gateway/runtime.ts), which races processChatMessage      *)
(* (agent/chat-service.ts) against a timer; processChatMessage starts runs *)
(* of chatWithProvider, each raced against a timer of its own, and may     *)
(* retry on another route or resume.  Losing a race stops nobody: the run, *)
(* and processChatMessage itself, go on and still write the transcript.    *)
(*                                                                         *)
(* A run is reduced to what it does to its session: it loads the           *)
(* transcript, works on its copy, and writes the copy back with its own    *)
(* turn appended (provider/session.ts).  A transcript is a sequence of     *)
(* turns, each named by the run that made it; transcripts stay below       *)
(* MAX_SESSION_MESSAGES here.  What happens inside a run is AgentTurn's.   *)
(***************************************************************************)
EXTENDS Naturals, Sequences, Functions

CONSTANTS
    Sessions,
    Chats,           \* messages sent to handleMessage
    Injections,      \* chat.inject requests of a webchat client
    Resets,          \* /new and /reset commands of telegram
    Erasures,        \* requests of the dashboard to erase all memory
    SessionOf,       \* request -> session
    Telegram,        \* the requests that come through telegram's polling loop
    Configs,         \* what the configuration may say when a message arrives
    MaxCrashes       \* bound on restarts of the process

Requests == Chats \cup Injections \cup Resets \cup Erasures
Legs == {"primary", "fallback", "resume", "inject"}
Turns == Requests \X Legs

Switches == {"onboarded", "routed", "local", "localFallback",
             "localTimeoutFallback", "crossSlot", "secondRoute"}

ASSUME GatewayAssumption ==
    /\ SessionOf \in [Requests -> Sessions]
    /\ Telegram \subseteq Requests
    /\ Resets \subseteq Telegram
    /\ Configs \subseteq SUBSET Switches
    /\ MaxCrashes \in Nat

VARIABLES
    phase,     \* where the handler of a request is
    reply,     \* what the channel has been given, or "none"
    config,    \* the status read when the message arrived: switches that are on
    run,       \* state of each run
    copy,      \* the run's messages: the transcript it loaded
    file,      \* session file: its turns, and whether it is whole
    crashes,
    \* History, for the properties.
    written,   \* runs whose turn was written
    log,       \* by session: turns in the order they were written since a reset
    overlap,   \* sessions in which two runs held the transcript at once, or
               \* whose file was damaged
    forgotten  \* by session: runs started before the last reset

vars == <<phase, reply, config, run, copy, file, crashes,
          written, log, overlap, forgotten>>
handler == <<phase, reply, config>>
history == <<written, log, overlap, forgotten>>

\* Replies: "none", "setup", "setup_error", "foundation", "routing_error",
\* "answer", "paused", "provider_error", "gateway_timeout", "injected",
\* "inject_failed", "fresh", "erased", "lost".

Errors == {"timeout", "network", "empty", "other"}

\* A run is "idle", "starting", "loaded", "done", "failed", "killed", or saving:
\* the file is open and truncated, opened by another run too before this one
\* wrote, or unlinked.
Saving == {"saving", "contended", "orphaned"}

Init ==
    /\ phase = [r \in Requests |-> "idle"]
    /\ reply = [r \in Requests |-> "none"]
    /\ config = [r \in Requests |-> {}]
    /\ run = [t \in Turns |-> "idle"]
    /\ copy = [t \in Turns |-> <<>>]
    /\ file = [s \in Sessions |-> [whole |-> TRUE, turns |-> <<>>]]
    /\ crashes = 0
    /\ written = {}
    /\ log = [s \in Sessions |-> <<>>]
    /\ overlap = {}
    /\ forgotten = [s \in Sessions |-> {}]

-----------------------------------------------------------------------------
(* Helpers.                                                                *)

\* telegram's loop handles one update at a time.
Turnstile(r) ==
    r \in Telegram => \A q \in Telegram : phase[q] # "idle" => reply[q] # "none"

\* The handler ends.  Its value reaches the channel unless the gateway's timer
\* has already answered.
Return(r, kind) ==
    /\ phase' = [phase EXCEPT ![r] = "over"]
    /\ reply' = IF reply[r] = "none" THEN [reply EXCEPT ![r] = kind] ELSE reply
    /\ config' = [config EXCEPT ![r] = {}]

\* The handler goes on with another run; the state of one run may change with it.
Enter(r, leg, runs) ==
    /\ phase' = [phase EXCEPT ![r] = leg]
    /\ run' = [runs EXCEPT ![<<r, leg>>] = "starting"]
    /\ UNCHANGED <<reply, config>>

Connectivity(kind) == kind \in {"timeout", "network"}

\* Whether processChatMessage tries another slot's route after an error.
FallbackAllowed(r, kind) ==
    LET on(switch) == switch \in config[r] IN
    /\ Connectivity(kind)
    /\ ~ (on("local") /\ kind = "timeout" /\ ~ on("localTimeoutFallback"))
    /\ ~ (on("local") /\ ~ on("localFallback"))
    /\ on("crossSlot")
    /\ on("secondRoute")

\* Mutant: a timeout is taken for a recoverable error.
ResumeAfterTimeout(kind) == kind \in {"empty", "timeout"}

\* shouldAutoResumeAfterProviderError: only the complaint that there was no
\* answer; everything else is non-recoverable or not recognised.
AutoResume(kind) == kind = "empty"

\* The catch blocks of processChatMessage.
Recover(r, leg, kind, runs) ==
    \/ /\ leg = "primary" /\ FallbackAllowed(r, kind)
       /\ Enter(r, "fallback", runs)
    \/ /\ leg = "primary" /\ ~ FallbackAllowed(r, kind) /\ AutoResume(kind)
       /\ Enter(r, "resume", runs)
    \/ /\ \/ leg # "primary"
          \/ ~ FallbackAllowed(r, kind) /\ ~ AutoResume(kind)
       /\ Return(r, "provider_error")
       /\ run' = runs

-----------------------------------------------------------------------------
(* The handler.                                                            *)

\* handleMessage: the message arrives, readOnboardingStatus is awaited.
Receive(r) ==
    /\ r \in Chats /\ phase[r] = "idle" /\ Turnstile(r)
    /\ phase' = [phase EXCEPT ![r] = "received"]
    /\ \E c \in Configs : config' = [config EXCEPT ![r] = c]
    /\ UNCHANGED <<reply, run, copy, file, crashes, history>>

\* handleSecureSetupFlow handles the message, or throws.
SetupAnswers(r) ==
    /\ phase[r] = "received"
    /\ \E kind \in {"setup", "setup_error"} : Return(r, kind)
    /\ UNCHANGED <<run, copy, file, crashes, history>>

\* It does not, and the message is answered for lack of a provider or a route.
CannotRun(r) ==
    /\ phase[r] = "received"
    /\ \/ "onboarded" \notin config[r] /\ Return(r, "foundation")
       \/ {"onboarded", "routed"} \cap config[r] = {"onboarded"}
          /\ Return(r, "routing_error")
    /\ UNCHANGED <<run, copy, file, crashes, history>>

StartPrimary(r) ==
    /\ phase[r] = "received"
    /\ {"onboarded", "routed"} \subseteq config[r]
    /\ Enter(r, "primary", run)
    /\ UNCHANGED <<copy, file, crashes, history>>

\* The timer of the leg's runWithTimeout wins: the run itself goes on.
LegTimesOut(r, leg) ==
    /\ r \in Chats /\ phase[r] = leg
    /\ Recover(r, leg, "timeout", run)
    /\ UNCHANGED <<copy, file, crashes, history>>

\* Mutant: the timer is stopped when the first run starts.
GatewayTimesOutEarly(r) ==
    /\ r \in Chats /\ phase[r] = "received" /\ reply[r] = "none"
    /\ reply' = [reply EXCEPT ![r] = "gateway_timeout"]
    /\ UNCHANGED <<phase, config, run, copy, file, crashes, history>>

\* The timer of handleMessage wins: the handler itself goes on.
GatewayTimesOut(r) ==
    /\ r \in Chats /\ phase[r] \notin {"idle", "over"} /\ reply[r] = "none"
    /\ reply' = [reply EXCEPT ![r] = "gateway_timeout"]
    /\ UNCHANGED <<phase, config, run, copy, file, crashes, history>>

-----------------------------------------------------------------------------
(* A run.                                                                  *)

\* Runs of a session that have loaded its transcript and not written it yet.
Holders(s) == {u \in Turns : SessionOf[u[1]] = s /\ run[u] \in {"loaded"} \cup Saving}

\* Runs of a session that have its file open.
Writers(s) == {u \in Turns : SessionOf[u[1]] = s /\ run[u] \in {"saving", "contended"}}

\* loadSessionMessages: a damaged file reads as an empty transcript.
Load(t) ==
    LET s == SessionOf[t[1]] IN
    /\ run[t] = "starting"
    /\ run' = [run EXCEPT ![t] = "loaded"]
    /\ copy' = [copy EXCEPT ![t] = IF file[s].whole THEN file[s].turns ELSE <<>>]
    /\ overlap' = IF file[s].whole /\ Holders(s) = {} THEN overlap ELSE overlap \cup {s}
    /\ UNCHANGED <<handler, file, crashes, written, log, forgotten>>

\* What the caller of a run does with its value, if it still waits for it.
Deliver(t, kind) ==
    IF phase[t[1]] = t[2] THEN Return(t[1], kind) ELSE UNCHANGED handler

\* Mutant: the answer is returned while the save is under way.
AnswerBeforeSave(t) ==
    LET s == SessionOf[t[1]] IN
    /\ run[t] = "loaded"
    /\ run' = [run EXCEPT ![t] = "saving"]
    /\ file' = [file EXCEPT ![s].whole = FALSE]
    /\ Deliver(t, "answer")
    /\ UNCHANGED <<copy, crashes, history>>

\* saveSessionMessages opens the file, which truncates it.
BeginSave(t) ==
    LET s == SessionOf[t[1]] IN
    /\ run[t] = "loaded"
    /\ run' = [u \in Turns |->
                  IF u \in Writers(s) \/ (u = t /\ Writers(s) # {}) THEN "contended"
                  ELSE IF u = t THEN "saving" ELSE run[u]]
    /\ file' = [file EXCEPT ![s].whole = FALSE]
    /\ UNCHANGED <<handler, copy, crashes, history>>

\* The transcript is written.  Two writers of one file may leave a mixture that
\* does not parse; what is written to an unlinked file is gone.
EndSave(t) ==
    LET s == SessionOf[t[1]] IN
    /\ run[t] \in Saving
    /\ run' = [run EXCEPT ![t] = "done"]
    /\ copy' = [copy EXCEPT ![t] = <<>>]
    /\ written' = written \cup {t}
    /\ \/ /\ run[t] # "orphaned"
          /\ \E w \in IF run[t] = "contended" THEN BOOLEAN ELSE {TRUE} :
                file' = [file EXCEPT ![s] = [whole |-> w, turns |-> Append(copy[t], t)]]
          /\ log' = [log EXCEPT ![s] = Append(@, t)]
       \/ run[t] = "orphaned" /\ UNCHANGED <<file, log>>
    /\ Deliver(t, IF t[2] = "inject" THEN "injected" ELSE "answer")
    /\ UNCHANGED <<crashes, overlap, forgotten>>

\* chatWithProvider answers "paused at MFA" without writing anything.
Pause(t) ==
    /\ run[t] = "loaded" /\ t[2] # "inject"
    /\ run' = [run EXCEPT ![t] = "done"]
    /\ copy' = [copy EXCEPT ![t] = <<>>]
    /\ Deliver(t, "paused")
    /\ UNCHANGED <<file, crashes, history>>

\* Mutant: what the run has done so far is written when it throws.
FailAndWrite(t) ==
    LET s == SessionOf[t[1]]
        runs == [run EXCEPT ![t] = "failed"] IN
    /\ run[t] = "loaded" /\ t[2] # "inject"
    /\ copy' = [copy EXCEPT ![t] = <<>>]
    /\ file' = [file EXCEPT ![s] = [whole |-> TRUE, turns |-> <<t>>]]
    /\ \E kind \in Errors :
          IF phase[t[1]] = t[2] THEN Recover(t[1], t[2], kind, runs)
                                ELSE run' = runs /\ UNCHANGED handler
    /\ UNCHANGED <<crashes, history>>

\* The run throws: before or after loading, or because the file cannot be
\* written, which leaves it damaged.  Nothing of its turn is kept.
Fail(t) ==
    LET runs == [run EXCEPT ![t] = "failed"] IN
    /\ run[t] \in {"starting", "loaded"} \cup Saving /\ t[2] # "inject"
    /\ copy' = [copy EXCEPT ![t] = <<>>]
    /\ \E kind \in IF run[t] = "loaded" THEN Errors ELSE {"other"} :
          IF phase[t[1]] = t[2] THEN Recover(t[1], t[2], kind, runs)
                                ELSE run' = runs /\ UNCHANGED handler
    /\ UNCHANGED <<file, crashes, history>>

-----------------------------------------------------------------------------
(* Other users of the session files.                                       *)

\* chat.inject: load, append, save, without a timer.
Inject(r) ==
    /\ r \in Injections /\ phase[r] = "idle"
    /\ Enter(r, "inject", run)
    /\ UNCHANGED <<copy, file, crashes, history>>

InjectFails(r) ==
    /\ r \in Injections /\ run[<<r, "inject">>] \in Saving
    /\ run' = [run EXCEPT ![<<r, "inject">>] = "failed"]
    /\ copy' = [copy EXCEPT ![<<r, "inject">>] = <<>>]
    /\ Return(r, "inject_failed")
    /\ UNCHANGED <<file, crashes, history>>

\* The files of some sessions are unlinked, under the runs that write them too.
Unlink(gone) ==
    /\ file' = [s \in Sessions |->
                   IF s \in gone THEN [whole |-> TRUE, turns |-> <<>>] ELSE file[s]]
    /\ run' = [t \in Turns |-> IF \E s \in gone : t \in Writers(s)
                               THEN "orphaned" ELSE run[t]]
    /\ log' = [s \in Sessions |-> IF s \in gone THEN <<>> ELSE log[s]]
    /\ overlap' = overlap \cup {s \in gone : Holders(s) # {}}
    /\ forgotten' = [s \in Sessions |->
                        IF s \in gone
                        THEN {t \in Turns : SessionOf[t[1]] = s /\ run[t] # "idle"}
                        ELSE forgotten[s]]
    /\ UNCHANGED <<copy, crashes, written>>

\* /new and /reset: clearSessionMessages, then the confirmation.
Reset(r) ==
    /\ r \in Resets /\ phase[r] = "idle" /\ Turnstile(r)
    /\ Unlink({SessionOf[r]})
    /\ Return(r, "fresh")

\* handleDeleteMemoryStore removes the directory of the session files.
Erase(r) ==
    /\ r \in Erasures /\ phase[r] = "idle"
    /\ Unlink(Sessions)
    /\ Return(r, "erased")

\* The process dies: what was under way is lost, files stay as they are.
Crash ==
    /\ crashes < MaxCrashes
    /\ crashes' = crashes + 1
    /\ phase' = [r \in Requests |-> IF phase[r] = "idle" THEN "idle" ELSE "over"]
    /\ reply' = [r \in Requests |-> IF phase[r] # "idle" /\ reply[r] = "none"
                                    THEN "lost" ELSE reply[r]]
    /\ run' = [t \in Turns |-> IF run[t] \in {"starting", "loaded"} \cup Saving
                               THEN "killed" ELSE run[t]]
    /\ copy' = [t \in Turns |-> <<>>]
    /\ config' = [r \in Requests |-> {}]
    /\ UNCHANGED <<file, history>>

-----------------------------------------------------------------------------
HandlerStep(r) ==
    \/ SetupAnswers(r) \/ CannotRun(r) \/ StartPrimary(r)
    \/ GatewayTimesOut(r) \/ InjectFails(r)
    \/ \E leg \in {"primary", "fallback", "resume"} : LegTimesOut(r, leg)

Next ==
    \/ \E r \in Requests : \/ Receive(r) \/ Inject(r) \/ Reset(r) \/ Erase(r)
                          \/ HandlerStep(r)
    \/ \E t \in Turns : Load(t) \/ BeginSave(t) \/ EndSave(t) \/ Pause(t) \/ Fail(t)
    \/ Crash

Spec == Init /\ [][Next]_vars

\* Timers fire, and file operations end; a provider need never answer.
Fairness ==
    /\ \A r \in Requests :
          /\ WF_vars(GatewayTimesOut(r))
          /\ WF_vars(Receive(r) \/ Reset(r))
    /\ \A r \in Injections :
          WF_vars(\/ Load(<<r, "inject">>) \/ BeginSave(<<r, "inject">>)
                  \/ EndSave(<<r, "inject">>))

FairSpec == Spec /\ Fairness

-----------------------------------------------------------------------------
(* Properties.                                                             *)

\* When an auto-resume works on a session, the run it resumes has ended: an
\* error is resumed only if it came from the run itself, never if a timer fired
\* (isNonRecoverableProviderError lists "timed out").
ResumeRunsAlone ==
    \A r \in Chats :
        run[<<r, "resume">>] # "idle" => run[<<r, "primary">>] \in {"failed", "killed"}

\* In a session whose runs did not overlap the file is whole between saves and
\* holds exactly the turns written since the last reset, in order: timeouts,
\* failed runs, retries and pauses lose and duplicate nothing by themselves.
SequentialTurnsAreKept ==
    \A s \in Sessions :
        \/ s \in overlap
        \/ ~ file[s].whole
        \/ file[s].turns = log[s]

\* An answer is handed to the channel only after its turn is in the transcript;
\* the reply of a run whose save failed is an error.
AnswersAreWritten ==
    \A r \in Chats :
        reply[r] = "answer" =>
            \E leg \in Legs : <<r, leg>> \in written

\* Every message that reaches the gateway is answered even if no provider ever
\* answers, and telegram's one-at-a-time loop is never stuck behind a message:
\* each of its messages gets its turn.  Only a crash silences a request.
EveryRequestAnswered ==
    \A r \in Requests :
        [](<>(reply[r] # "none" \/ (phase[r] = "idle" /\ r \notin Telegram)))

\* The resume message says "Continue from the current session state and finish
\* the user's previous request": the transcript it is sent with has the request.
ResumeSeesRequest ==
    \A r \in Chats :
        run[<<r, "resume">>] = "loaded" =>
            <<r, "primary">> \in Range(copy[<<r, "resume">>])

\* After /new, "Started a fresh chat session for this conversation.", the
\* transcript has nothing that was begun before.
ResetIsFresh ==
    \A s \in Sessions : Range(file[s].turns) \cap forgotten[s] = {}
=============================================================================
