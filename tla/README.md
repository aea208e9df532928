# A TLA+ model of t560

t560 is a local agent: one Node process in which a terminal, a web chat and a
telegram bot share a gateway, a provider loop that lets a language model call
tools, and a handful of files under `~/.t560`.  This directory holds models of
the parts of it whose correctness depends on the order of steps, the TLC runs
that check them on small instances, and TLAPS proofs of the central results.

## The system and its parts

| part | code (under `src/src/`) | modules |
|---|---|---|
| provider loop | `provider/run.ts` | `AgentTurn`; `AgentProofs` |
| checkout workflow | `agents/checkout-workflow.ts` | `CheckoutGate`, `CheckoutWorkflow`; `ToolsProofs` |
| session transcript | `provider/session.ts`, `agents/session-transcript-repair.ts`, `agents/tool-call-id.ts` | `SessionTranscript`, `ArrayFilter`; `TranscriptProofs` |
| gateway and chat service | `gateway/runtime.ts`, `gateway/router.ts`, `agent/chat-service.ts`, parts of `channels/telegram.ts` and `web/dashboard.ts` | `Gateway`; `GatewayProofs` |
| telegram bridge | `channels/telegram.ts` | `TelegramBridge`, with `ProgressRelay` and `PairingStore`; `ChannelProofs` |
| pairing | `channels/pairing.ts`, `cli/pairing-cli.ts` | `PairingStore` |
| credential vault | `security/credentials-vault.ts` | `CredentialVault` |
| setup dialogue, vault page | `security/setup-flow.ts`, `web/dashboard.ts` | `SetupFlow`; `ChannelProofs` |
| durable memory | `agents/tools/memory-tools.ts`, the automatic saves of `provider/run.ts` | `MemoryStore`, `ArrayFilter`; `MemoryProofs` |
| email tool | `agents/tools/email-tool.ts` | `MailTool`; `ToolsProofs` |
| browser tool | `agents/tools/browser-tool.ts` | `BrowserTabs`, `Browser`; `BrowserProofs`, `BrowserSerialProofs`; `BrowserLogin`; `ToolsProofs` |
| web chat | `web/dashboard.ts`, and under `src/ui/src/ui/`: `app-chat.ts`, `app-gateway.ts`, `gateway.ts`, `chat-storage.ts` | `ChatSocket`, `ChatPage`, `ChatServer`, `WebChat`; `GatewayProofs` |
| sign-in from the dashboard | `web/dashboard.ts`, `src/ui/src/ui/app-setup.ts` | `CodexSignIn`; `GatewayProofs` |
| configuration | `config/state.ts`, `onboarding/onboard.ts`, `web/dashboard.ts`, `tui/tui.ts`, `src/ui/src/ui/app-setup.ts`, `app-config.ts` | `Configuration`, `ConfigStore`; `AgentProofs` |

A message arrives at a channel.  The telegram bridge asks the pairing store
whether the sender is known.  `handleMessage` passes the message to
`processChatMessage`, where the setup dialogue may take it (and use the vault);
otherwise a run of `chatWithProvider` loads the session's transcript, works
through rounds of provider requests and tool calls, which may read and write
the memory, drive the browser, log in with the vault's credentials, read and
send mail or ask for a purchase, and writes the transcript back.  Everything is one thread: steps
of two activities interleave where the code awaits, and nowhere else; the
command line is a second process that shares the pairing file and the
configuration, and the page in the browser is a third, which talks to the
dashboard over a WebSocket and HTTP.

Four things make this hard to test.  A race against a timer stops nobody:
the run that lost goes on and still writes.  The files are read, changed and
rewritten across awaits without a lock.  The tools keep their state in module
globals that every session shares.  The page and the remote servers learn
late, or never, what became of a request.

`PROJECT.json` lists every part, the ones that are not modelled included, the
source lines behind each definition, and the hazards the properties are aimed
at.

## How the modules correspond to the code

An action is what the program does between two awaits.  A guard is an early
return or a condition of the code; where a value depends on text (what a
message asks for, which entry is similar, where a redirect leads) it is chosen
with `\E`.  An await that can reject has an action for it.

**`AgentTurn`** is `chatWithProvider` for one session, turn after turn.  `pc`
names the await the turn stands at: the five steps of the automatic login, a
provider request, a tool call of the current batch, the end.  A message is the
set of intents the classifiers find in it; a call is its kind, the class of
calls the loop's tests tell apart; an answer is its calls and the class of its
text.  The flags of the loop (`needed` and `satisfied` for
`completionVerification...`, `asked` for the prompts sent, `streak` for
`compactFailureStreak`, `forceWait`, `blocked` and others) keep their roles;
`ComposeReply` is the ladder of overrides that decides the reply.  `pendingMfa`
and the checkout authorization outlive the turn, as the module-level maps do.
`unverified` and `owed` are history variables: what really happened, to be
compared with what the flags say.

**`CheckoutWorkflow`** is the authorization of purchases per session, a
deadline compared with a clock.  **`CheckoutGate`** is what it promises, one
bit per session, and what `AgentTurn` uses.

**`SessionTranscript`** has the pure functions that prepare a transcript for
saving as operators over sequences of messages: removal of error stubs, repair
of malformed calls, pairing of results with calls, the limit.  `Rounds` is the
loop of `repairToolUseResultPairing`, what its variables are after each message,
and a recursive function.  The module's one action adds a message, so that TLC
visits every transcript up to the bound.  **`ArrayFilter`** has the filter method
of arrays by the positions of what it keeps, a form that proofs can use.

**`Gateway`** follows one request through `handleMessage`, `processChatMessage`
and up to three runs (primary, fallback, resume), each raced against its timer.
A run loads the transcript, holds a copy, and writes it in two steps
(truncate, write); chat injections, resets and erasures touch the same file; a
crash may come between any two steps.

**`TelegramBridge`** is the polling loop.  It instantiates `PairingStore` (the
file, and the copy each process holds) and `ProgressRelay` (queue, timers and
the chain of sends of one message) and joins their actions to the places of
the loop that call them.

**`CredentialVault`** has one action per file operation of `setCredential`,
`getCredential` and `deleteCredential`; **`SetupFlow`** extends it with the
dialogue of a session and the vault page of the dashboard.

**`MemoryStore`** is the append-only file of entries and delete markers, with
one action per file operation of each memory tool and of the saves that
`run.ts` makes from a message, the quota, compaction and the erasure of the
dashboard.  A compaction keeps the live lines in their order (`ArrayFilter`).

**`MailTool`** is one call of the email tool: the mailbox is resolved from the
vault, the provider from the mailbox, and the call walks through its script of
IMAP or SMTP commands.  Each command is sent, carried out by the server, and
answered, refused, timed out or cut off; the mailbox changes meanwhile.

**`BrowserTabs`** is the tab list: every tab object ever built is kept, because
a call goes on using its object after the list has dropped it.  The list itself
is a set of these objects: the code only appends to it and filters it, so its
order is the order of building.  **`Browser`**
adds the live browser (process, context, pages) and the calls: each action of
the tool begins a call, and the actions `Launched`, `ContextReady`,
`PageReady`, `Arrived`, `Acted`, `Settled`, `Read`, `Fetched`, `Dropped`,
`Fails` and others settle the await it stands at.

**`BrowserLogin`** looks at `login` and `mfa` again, from the side of the page:
what `Browser` takes as one await is here every look for an input, every key
and every attempt to submit, on a site that answers late or moves by itself.
The view of a page is what the tool's selectors tell apart.

**`ChatSocket`** is a socket as two FIFO channels whose ends learn separately
that it is gone.  **`ChatPage`** has the page's variables by name
(`chatSending`, `chatQueue`, `sessionKey`, the pending requests of its client)
and one action per click, frame and timer; **`ChatServer`** the clients,
subscriptions and handlers of the dashboard; **`WebChat`** composes the three.
**`CodexSignIn`** is the sign-in form, its polling loops and the login job that
outlives them.

**`Configuration`** has the pure functions of `config/state.ts` (routes,
presets and the onboarding status) as operators; **`ConfigStore`** everyone who
reads, changes and rewrites `config.json`, in the same two steps of a write as
`Gateway`.

Abstractions of `Browser` worth knowing: a browser context is identified with
its process; a request may end at any address (redirects), and a popup always
has one; the reading of a title and the cookie syncs that follow a live
snapshot belong to the step that writes it; the second snapshot of a challenge
counts as a later snapshot.  Page contents, cookies and the lists of console
lines, dialogs and downloads are left out (so is the cutting of these lists).

## Runs and what they show

States are distinct states of a complete search; the three violations stop at
the counterexample.

| run | states | what it shows |
|---|---|---|
| `agent_work` | 59 K | No outcome is reported with a change left unverified (`VerifiedBeforeClaim`); a refused purchase ends tool use (`BlockedEndsToolUse`); every turn ends (`TurnEnds`). |
| `agent_login` | 32 K | A code that was asked for will be recognised (`AskedCodeIsAwaited`) and continues its challenge (`CodeContinuesChallenge`). |
| `tools` | 262 K | Memory: what was saved is found and what was removed stays away (`StoreFollowsCalls`), and quotas hold (`QuotaHolds`), through overlapping calls, compaction and a crash.  Checkout: a risky action passes exactly while the session's own user has authorized it (`DecisionsFollowTheUser`), and the deadlines implement `CheckoutGate` (`ImplementsGate`).  Mail: a call that reports success has sent one mail, accepted for every recipient (`SentIsAccepted`); what a successful call marked as seen is in its result (`MarkedWasShown`).  Login: unless a click or key took effect though its await failed, the report of a login or a code is true of the site and a form is submitted at most once (`LoginReportIsTrue`). |
| `gateway` | 209 K | A resumed run is alone with its request (`ResumeRunsAlone`); runs that did not overlap lose and duplicate nothing (`SequentialTurnsAreKept`); an answer is in the transcript before it is sent (`AnswersAreWritten`); every message is answered though no provider may be (`EveryRequestAnswered`). |
| `gateway_resume` | violated | `ResumeSeesRequest`, see *Findings*. |
| `gateway_reset` | violated | `ResetIsFresh`, see *Findings*. |
| `telegram` | 329 K | Updates are taken once and in order through failures (`UpdatesTakenOnce`), and all of them in the end (`LoopCatchesUp`); nobody passes unapproved (`OnlyApprovedPass`); a store used by one process at a time is exact (`SerialStoreIsExact`); progress is bounded, in order (`RelayKeepsOrderAndLimit`) and never stalls but for one known reason (`ATimerIsArmedUnlessStale`). |
| `transcript` | 66 K | What is saved is paired (`SavedIsPaired`), stable under reloading (`SavedIsStable`) and keeps all talk within the limit (`TalkIsKept`). |
| `setup` | 711 K | Vault: a credential holds what was typed for its service (`StoredForItsService`); a dialogue takes no value meant for another (`NoFlowStealsInput`); serial use is exact (`SerialVaultIsExact`).  Configuration: changes one after the other keep each other (`SavesKeepEachOther`); routes lead to providers that are there (`RoutesNameProviders`); an onboarding from scratch completes (`FreshOnboardingCompletes`). |
| `browser` | 989 K | Tab ids stay unique across resets (`TabIdsAreUnique`); address, history and snapshot of a tab agree if no live page was ever attached under its id (`FetchTabAgrees`); calls that do not overlap leave the tool in order (`SerialUseIsClean`); a reset that runs alone cleans up after any overlap (`LoneResetCleans`). |
| `web` | 197 K | Unless an answer is stopped or a connection lost, the server works on one message at a time and in the order typed (`MessagesInTurn`), and the queue empties (`QueueDrains`); no message ever runs twice (`TypedRunsOnce`).  The sign-in is reported only if it was saved (`DoneMeansSaved`) and always comes to an end on the page (`SignInSettles`). |
| `web_signin` | violated | `SignedInIsActive`, see *Findings*. |

`tools`, `setup` and `web` each check several parts that share no state: the
variable `part` says which one moves, the others stay where they began.

Several properties are conditional ("as long as no two calls overlapped").  The
condition is a history variable that the model keeps, and it is as weak as the
code allows: without it the property fails, in the ways listed under
*Observations*.

Each property has a mutant in `PROJECT.json`: an operator, beside the one it
replaces, with a slip that a programmer could make there, for which TLC reports
the property violated.

## Bounds, and why they are enough

- `agent_work`: one turn, three rounds of at most two calls, compact mode,
  telegram.  Two calls in a batch put a change and a verification on either
  side of each other and of a failure; three rounds leave one after a prompt.
  `agent_login`: two turns (what is pending outlives a turn), two rounds of one
  call.
- `tools`: two memory calls at once out of three, two namespaces, a quota of two
  entries and three bytes, one crash; two sessions, a lifetime of 2 and a clock
  to 6, so that deadlines are renewed; two mailboxes, three mails of which a
  call may ask for two, two recipients; two codes, one move of the page by
  itself and two login calls.
- `gateway`: one session; one chat message under every configuration of
  routes, one injection, one reset, one erasure, one crash.  The legs of one
  message already overlap one another; sessions share no file.
- `telegram`: two users and two codes, one approval, two updates, one failure,
  two progress batches of one line for three texts, all four policies.
- `transcript`: five messages out of nine kinds with two call ids, saved under
  a limit of four, so that the cut falls inside pairs.
- `setup`: one session, two services, two dialogues, three vault calls of which
  two at once, one crash; three providers (one without a key, one the catalog
  does not know), two slots, one page beside the terminal and the wizard, two
  changes, one crash, from an empty, an old and a complete configuration.
- `browser`: two call slots, three calls or losses, two tabs, two pages, two
  launches, five objects in all.
- `web`: two sockets, three typed messages, two session keys, two incidents
  (losses, reloads, timeouts) and three events; two sign-in jobs, two polls, one
  restart, with a callback that cannot be reached, so that codes are typed.

Two of everything is enough for one actor to overtake another; a third call or
event is there where something must come after the race.  Call slots,
namespaces, services and addresses are interchangeable in `tools`, `setup` and
`browser`, which use symmetry; none of these runs checks liveness.  Deadlock is
not checked: every one of these systems may rest, with nothing left to do or a
bound exhausted.

## Fairness

Four runs check liveness.

- `AgentTurn`: weak fairness of the turn's own steps.  Every await of a turn
  settles: requests and tool calls are raced against timers.
- `Gateway`: weak fairness of the gateway's timer, of the start of a waiting
  message or reset, and of the file operations of an injection.  A provider is
  not assumed to answer.
- `TelegramBridge`: weak fairness of the loop's steps and of the relay's sends
  and its draining.  Calls of telegram's API fail or return.
- `MCWeb`: frames on an open socket are handled, runs end (the gateway's timer
  sees to that), HTTP requests are answered or fail and the page's timers fire.
  Nobody need sign in, and no socket need be opened again.

## Proofs

TLAPS proves every safety property that a passing run checks, for all values of
the constants (any number of sessions, calls, tabs, messages, crashes and so
on), from the assumptions named here, which give the constants their types.  `PROJECT.json` names for each theorem the property it is about.  Below
are, for each part, the theorems and the inductive invariant they come from.

### The agent's turn and the configuration: `AgentProofs`

The turn, from `BoundsAssumption` and `InputsAssumption`:

- `TypeCorrect`.  `TypeInv` adds to `TypeOK` that the loop stays below its
  limits while it runs and that a batch being executed is not empty.
- `ClaimsAreVerified`.  `VerifiedBeforeClaim` is not inductive: the reply is
  decided by the flags.  `ClaimInv` adds `ChangeRecorded`: while a change is
  unverified the flags say that a verification is needed and not satisfied.
- `CodeIsAwaited`, `BlockedStops`, `ResponseExists` (a turn always has a reply
  to send).  `WaitInv` has them together with `WaitsForChallenge` (the loop
  waits for a code only while a challenge is registered) and `AnswerKept` (past
  the first request there is an answer, or a reason for having none).
- `CodeIsTaken`: `CodeContinuesChallenge`, an action property: the message with
  the code can only be taken by the continuation of the challenge.

The configuration, from `ConfigurationAssumption`, `ProfileAssumption` and
`StoreAssumption`, which asks that the first configuration has no route to a
provider that is not there:

- `SavesAreKept`, `RoutesLeadSomewhere` and `OnboardingCompletes` from one
  invariant, `StoreInv`.  `OneByOne`: without overlap there is one change at
  most, the file says what was told unless it is open, and the change says what
  will be told, where `Says` is stronger than the property: a route that was
  told is the slot's own, so that later changes of `provider` cannot move it.
  `RoutesInv` adds that a page which lists providers drafts routes to them
  only; `WizardInv` that nothing is missing in what the wizard is about to
  write.  Each operation on a configuration has a lemma of its own.

### The gateway, the web chat and the sign-in: `GatewayProofs`

The gateway, from `GatewayAssumption`:

- `AnswersAreKept`: `AnswersAreWritten` is nearly inductive; the only reply
  "answer" comes from the step that writes.
- `ResumesAlone`.  `ResumeInv` adds `NotBegun`: a request whose handler has not
  gone on has no run, so that a first run cannot start a second time under the
  resuming one.
- `TurnsAreKept`.  `LoneHolder`: in a session without overlap the file holds
  the log also while it is truncated, at most one run holds the transcript,
  nobody opened or unlinked the file under it, and its copy is the log.

The web chat, from `SocketAssumption` and `PageAssumption`:

- `EachMessageRunsOnce`: `TypedRunsOnce`.  `OnceInv`: a message waits in the
  queue, is on its way over one socket, or was started, and never two of these.
- `MessagesRunInTurn`: `MessagesInTurn`.  `CalmInv`, until the first
  disturbance: there is one socket; at most one message is on its way up, being
  answered, or has its `chat.done` on the way down, behind its `chat.sending`;
  and what was started, what is on its way and what waits follow one another in
  the order typed.  When `chatSending` is unset all of it is empty.

The sign-in: `ReportedIsSaved`.  `NewsIsTrue` says it of the job, of the answer
under way to a poll and of the page.

### Telegram, the setup dialogue and the vault: `ChannelProofs`

The bridge, from `BridgeAssumption`:

- `TakenOnce`.  `OffsetInv` adds that the batch in hand continues at the offset.
- `OnlyTheApprovedPass`.  `PassInv` says of every copy of the pairing store, in
  either process and on disk, that whoever is in it was approved or is being
  approved, and that the loop decides on the sender of the update in hand.
- `StoreInTurnsIsExact`.  `TakesTurns`: without overlap one process at most has
  the store in hand, its copy and the file lack no approval and no code, and
  the file is whole unless it is being written or nothing was told yet.
- `RelayKeepsItsOrder` and `QueuedIsServed`.  `RelayInv` speaks of the chat, the
  chain of sends and the queue together: one after the other they are in order
  (`OrderIsKept`); the sends of the chain can be numbered so that none is beyond
  `sentCount` and those delivered come first (`CountIsKept`); the timer that
  `flushTimer` names is armed or has fired (`HandleIsArmed`); and what waits
  below the limit is waited for by a timer or by the end of a send
  (`QueueIsServed`).

The dialogue and the vault, from `SetupAssumption` and `VaultAssumption`:

- `StoredIsTyped`.  `StoreInv` carries the property through every place where a
  credential rests: the dialogue, the arguments and the copies of vault calls,
  and the look-ups of the dashboard.
- `InputIsForTheDialogue`.
- `SerialUseIsExact`: `SerialVaultIsExact` for `FlowSpec`.  `Alone`: unless calls
  raced, one call at most is under way, and what it has in hand is the vault as
  it is, no vault, or what was saved with its own change; unless the file is open
  it is missing or sealed with the key that is there.

### Checkout, mail and login: `ToolsProofs`

- Checkout, from `WorkflowAssumption`: `TypeCorrect` and `DecisionsAreTheUsers`.
  The code decides by comparing a deadline with the clock, the property speaks of
  what the user said; `IInv` links them with `DeadlineIsSaid`.
- `Refinement`: every session implements `CheckoutGate`.  Confirming and
  cancelling map to their namesakes, a tick that passes the deadline to the
  gate's expiry, everything else to a stutter.
- Mail, from `MailAssumption`: `SentMailIsAccepted` and `MarkedMailWasShown`.
  `MailInv` says for each place in the dialogue what the server has done by then:
  so many recipients accepted, a copy sent only at the end; and that each picked
  mail that is still there has its own headers in the rows before `STORE`.
- Login, from `LoginAssumption`: `LoginReportsTruly`.  `LoginInv`: before it
  reports, a call has submitted nothing (unless an effect was lost), and then at
  most once and it says so; a site that asks for a code has sent one.

### The memory: `MemoryProofs`

From `MemoryAssumption`:

- `StoreFollows`: `StoreFollowsCalls`.  `StoreInv` adds what each call has in
  hand: a rewrite says all that the entry it read said, a compaction holds the
  live entries it read, and the id of an entry still to be appended is known to
  no one else.  That a compaction keeps what the store has, and that an appended
  line replaces only what has its id, are lemmas about `Loaded`.
- `QuotaIsKept`: `QuotaHolds`.  `QuotaOK`: when the saves of a namespace have come
  to their evictions, what will be left after all of these fits.  The evictions
  of two calls may be decided on different states of the file; the last to read
  has seen the entries of both.

### The transcript: `TranscriptProofs`

From `TranscriptAssumption`, for transcripts of any length:

- `SavedPairs`, `SavedStands` and `TalkStays`.  What the loop of
  `repairToolUseResultPairing` computes is shown by an induction on the messages
  it has passed, written out from the least number at which it would fail
  (`LeastNat`).  `RoundsReach` turns it from one assistant message to the next.
  `Repaired`: what came out so far is `Settled`, that is, each assistant message is
  directly followed by the results of its calls, in the order of the calls, and no
  call is answered twice.  `Same`: a settled transcript comes out as it went in.
  `Says`: the talk that came out is the talk that went in.  `Carries`: if all was
  paired with distinct ids, as many messages came out, and the same.  Filtering
  rests on `Filtered`: `InOrder` lists the positions kept in rising order, and
  there is one way to do so (`OneList`).
- `NothingLeads`: what the pairing returns never begins with a result, so that
  the loop which drops leading results has nothing to drop.

### The browser: `BrowserProofs`, `BrowserSerialProofs`

From `BrowserAssumption`:

- `FetchTabsAgree`: `FetchTabAgrees`.  `BrowserInv` adds that a call at work on a
  page or a popup belongs to a tab under whose id a page was attached, so that
  whoever writes a tab without care has a page; that attached pages exist; that
  two calls never hold the same new popup; and that ids stay within the tabs
  built, although a reset starts the numbering anew.  Each operation on a tab,
  each way a call goes on and each action has a lemma.
- `TabsAreTold`: `TabIdsAreUnique`.  Every action keeps the ids of the tabs and at
  most drops tabs from the list, empties it, or adds one under the next id
  (`Numbered`).
- `LoneResetIsClean`: `LoneResetCleans`, an action property.  `LoneInv`: beside a
  stop or reset that ran alone so far there is no call, the pages still attached
  are those it has still to drop, and what it closed stays closed.
- `SerialUse`: `SerialUseIsClean`.  `SerialInv`: until calls overlap, the tool is
  `Clean` up to what the one call under way is about to put in order, which
  `StandOK` says for each await: a page that is being closed may be open and
  attached to nothing, a launch finds no browser, a new page a tab without one.

### Only model-checked

Liveness under fairness is out of the prover's reach: `TurnEnds`,
`EveryRequestAnswered`, `LoopCatchesUp`, `QueueDrains` and `SignInSettles` stay
with TLC, as do the three violations under *Findings*.

## Findings

1. `gateway_resume`: the auto-resume tells the model to finish the user's
   previous request, but a run that threw has not saved it, so the transcript
   does not contain it.
2. `gateway_reset`: `/new` announces a fresh session, and a run abandoned by a
   timer writes the old transcript back afterwards.
3. `web_signin`: the page says "The openai-codex provider is now active", but
   the dashboard's sign-in only saves credentials in a file that nothing else
   reads; the configuration has no such provider.

## Observations

Behaviours of the code met while modelling it that no run is about.  Most are
steps of the models, and are why some properties are conditional.

- Provider loop: "Tell me to continue and I will run verification before
  finalizing." (`provider/run.ts:4236`) is left to the language model: the
  flags that would enforce it are locals of the turn.
- Pairing: an approval from the command line is overwritten by a store the
  gateway read earlier.
- Vault: two first calls may each create a key, and concurrent calls lose a
  record; a crash while the file is truncated loses it.  A dialogue cancelled
  while its credential is being stored is stored all the same.  A value typed
  for a dialogue that a late call has ended goes to the provider.
- Memory: a compaction drops lines appended since it read; a rewrite of a stale
  copy revives a deleted entry.
- Progress relay: `flushTimer` may keep the handle of a timer that has fired,
  and then nothing is sent until the relay closes; a timer may be left armed
  after the reply.
- Configuration: the editor and the wizard overwrite what was changed while
  they were open; a crash between truncation and write empties the file.
  `/provider` for one slot also changes `provider`, and with it the route of a
  slot that names a bare model.  The routing handler takes any provider; the
  provider handler drops `headers` and `compat`.  With `local-openai` alone and
  no key the program never counts as onboarded, although the catalog calls the
  key optional.
- Web chat: a connection lost after the acknowledgement leaves `chatSending`
  set, so that later messages queue until `/stop` or a reload; a queue that
  survived a reload waits for a later `chat.done`.  A late `chat.history`
  answer undoes `/new`, and the session key that an erasure stored in the
  settings wins at every reload.  Stopping does not end the run, whose late
  `chat.sending` sets `chatSending` again.
- Sign-in: the answer to a stale poll overwrites a newer attempt; abandoned
  jobs are never deleted, and their logins go on.
- Mail: a timeout after the body was sent reports a failure though the mail is
  delivered; one after `STORE` leaves mails marked that were not shown.
  Unsolicited `FETCH` responses become rows.  A service without a credential
  falls back to another mailbox.  A failure while connecting leaves the socket
  open.
- Login: a form in a child frame whose code is asked for on the main page, or
  the reverse, is not recognised as a challenge; the snapshot after a submission
  may throw, and the call then reports a failure; an attempt to submit that
  fails after it took effect is followed by another.
- Browser: a page opened for a tab that was closed meanwhile stays open until a
  stop or reset; of two overlapping launches the first browser is forgotten;
  the late close of an earlier page also clears the new page's console, dialog
  and download lists; after a live click the snapshot overwrites the current
  history entry, so that the entry to be appended is found there already.  A call
  that began before a reset may attach its page under the id of a tab that was
  opened after it, because the reset starts the numbering of tabs anew.

## Not modelled

- The classifiers that read the user's words, scoring and similarity of
  memories, prompts, skills, formatting and wording: functions of text.  Their
  results are inputs of the models; what they compute would have to be
  transcribed word by word.
- Tool policy and self-protection: stateless tests on names, paths and command
  text.
- The file and web tools: they keep no state between calls, and appear as calls
  of `AgentTurn` that change, verify, fail or time out.
- exec and process: exec is synchronous in this build, and nothing enters a
  session into the process registry.
- What a page contains, cookies, and the lists of console lines, dialogs and
  downloads; MIME encoding and the parsing of headers; mail servers and the
  provider's side beyond what they may answer.
- Static files, rendering, themes, attachments and drafts of the two user
  interfaces; starting and stopping the servers.

`PROJECT.json` has the reason for each part.

## Where to go on

1. Look at two chat pages of one session: replies carry no session filter, and
   the server's subscriptions are by client.
2. Model the lists of console lines, dialogs and downloads of the browser tool
   with their limits, once something depends on their contents.
3. Show with a refinement what a serial user sees of the browser tool: one list
   of tabs, and at most one page for each.
