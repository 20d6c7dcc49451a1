# Pyttechat in TLA+

TLA+ models of Pyttechat, a server-rendered LLM chat: from the page in the
browser over the web server, its sessions and turns to the store, the provider
and the processes on one database file; what TLC checks of them and what TLAPS
proves. Paths are relative to the repository (`src/` is its root).

## 1. The system

```
browser (app.js) --HTTP/SSE--> web.Server --chat.Session--> llm.Client --> provider
CLI (ask, chat) ----------------------------^     |
                                                  +--> SQLite store
```

| component | state it keeps | operations | talks to |
|---|---|---|---|
| chat session (`internal/chat/service.go`) | `messages` cached, `inFlight`; per turn a `TurnStream` (`keepMessages`, `replaceTail`, parts, `completed`, `finalized`, `recorded`) | `Send`, `Next`, `CommitPartial`, `Close`, `CommitStopped`, `ValidateReplaceFrom` | store (write under `Session.mu`), provider stream, telemetry |
| turn jobs (`internal/web/server.go`) | `browserSession.turns`; per job `terminal`, `abortRequested`, `done`, its context | create, run (a goroutine), abort | session; abort handlers wait on `done` |
| event log of a turn (same file) | `events`, `nextEventID`, `subscribers` (channels of 128) | `emit`, `emitTerminal`, `subscribe`, `unsubscribe`, `finish` | SSE handlers, one per connected page |
| browser sessions and auth (same file, `internal/auth`) | `Server.sessions`; rows of `web_sessions`, `users` | login, register, logout, session lookup | store |
| SQLite store (`internal/storage`) | users, sessions, conversations, messages | append a turn, replace a tail, rotate a session, migrate | one transaction at a time |
| OpenResponses client (`internal/llm/openresponses`) | buffered `data:` lines, `done`, `textSeen` | `Next`, `Close` | provider over HTTP |
| CLI (`internal/cli`) | its session | ask, chat, serve | session, store, signals |
| browser script (`assets/app.js`) | `currentTurn`, `creatingTurn`, `nextMessageIndex`, the messages shown | submit, edit, stop, reconnect | web server |
| Markdown (`internal/markdown`) | block buffer of the streamer; the renderer has none | append, finish, render | |
| observability, build info, fakes | counters | | |

What makes it hard:

* **interleaving**: request handlers, turn goroutines and abort handlers share
  `browserSession.mu`, `turnJob.mu` and `Session.mu`, and read a flag under one
  lock to act on it under another;
* **ordering**: the terminal event of a turn is published before its stream is
  closed and before `done`; the error of `Next` finalizes the stream before the
  caller judges that error;
* **partial failure**: the store may refuse a turn after the model answered;
* **stale state**: `replace_from` is validated, then used after other commits;
  the kept prefix is computed at `Send` and used at the commit;
* **cancellation**: an abort may meet the completed event, the end of the
  provider stream, the connection, or a commit that fails.

What makes each component correct:

* *session*: cache and store agree; the conversation is whole exchanges; each
  turn is written at most once, after exactly the messages the model saw; the
  in-flight flag is held by somebody who will release it; telemetry counts a
  turn once, and as completed only when it was written;
* *turn jobs*: one turn runs at a time; every turn publishes one terminal event
  and it tells the truth; an abort ends and what it answers is final;
* *event log*: a subscriber reads the events in order, without a gap or a
  duplicate across reconnects; a channel is closed once;
* *browser sessions*: one gate and one cache per cookie; a rotated or deleted
  session is not usable; logout and running turns;
* *store*: sequence numbers are dense; one default conversation per user;
* *OpenResponses client*: each piece of text once, one end;
* *browser script*: its message indices are the server's.

## 2. Modules

| module | models | role |
|---|---|---|
| `Transcript` | messages, `replaceFromIndex`, what a commit leaves in the store | constants and operators |
| `ConversationLog` | nothing of the code: a conversation written by whole turns, each once | abstract specification |
| `ChatSession` | `chat.Session`, `TurnStream`, the store's two write transactions | implements `ConversationLog` |
| `TurnJobs` | create handler, `turnJob.run`, abort handler | composes goroutines and handlers with `ChatSession`, as one caller of the session |
| `EventFeed` | nothing of the code: readers get the events in order, and all of them | abstract specification |
| `TurnEvents` | `emit`, `subscribe`, `handleTurnEvents`, the reconnecting EventSource | implements `EventFeed`, liveness included |
| `BrowserSessions` | cookies, `web_sessions`, the server's map, login, register, logout, restart | one browser, many requests |
| `SharedConversation` | several sessions and processes over one conversation, statement by statement | implements `ConversationLog` |
| `ResponseStream` | request body, provider events, client stream, the parts both readers build | client, provider, session |
| `Lifecycle` | Open, Migrate, serve, Shutdown, crash, the ask command | processes over one file |
| `Composer` | the page's script beside the server's conversation | page, requests, answers, stream |
| `MC...` | constants of the runs | model checking |
| `TranscriptProofs` | lemmas on messages, kept prefixes and sequences | used by the next three |
| `TurnJobsProofs` | theorems on `ChatSession` and on `TurnJobs` | proofs |
| `SharedConversationProofs`, `ComposerProofs` | theorems on the module each is named for | proofs |
| `TurnEventsProofs`, `LifecycleProofs`, `BrowserSessionsProofs`, `ResponseStreamProofs` | theorems on the module each is named for | proofs |

In every module a commented *mutant* stands beside a definition: the form that
definition would have after a plausible slip. Mutants are not part of the
specifications; replacing a definition by its mutant shows that a property
notices it.

**ChatSession.** `messages`, `inFlight` and `stored` are the fields of one
`Session` and the rows of its conversation. `phase[t]` is where the caller of
turn `t` is in the protocol (`Send`, then `Next` ..., `CommitPartial`, `Close`;
or `CommitStopped` after a failed `Send`), `stream[t]` the fields of its
`TurnStream`. An action is one critical section of `Session.mu` with the local
steps around it. The write of the store happens inside that section, so it is
part of the action. A message is the turn that produced it, the number of
pieces of output and whether it has a completion time. `finalize` on a completed
event is `NextCompletes` or, when the store refuses, `NextCompletesUnsaved`;
`abort()` is the falling of `inFlight` together with `finalized`. Any number of
callers run at once: the CLI and the web server are two of them.

**TurnJobs.** `job[t]` follows a create request from `ValidateReplaceFrom`
through the gate to the end of `turnJob.run`; `abort[a]` follows an abort
request. Each check of `abortRequested` is a step of its own (`RunJudge`, then
`RunFail`), since another handler may come between. `RunSend`, `RunOpen`,
`RunNext`, `RunStop` and `RunClose` take the step of `ChatSession` they cause.
The errors of a provider are `canceled` (only after the context was cancelled)
and `other` (io.EOF, transport errors, error events, refusals of `Send`).

**TurnEvents.** `events`, `terminal` and `subscribers` are the fields of one
`turnJob`. `conn[<<r, s>>]` is one request of `handleTurnEvents`: its handler,
what it still has to replay, its channel (`buf`, `closes` counts the calls of
`close`) and what the connection carries (`wire`). An event's ID is its
position, so all of these hold IDs. A reader remembers the last ID it received
and sends it with the next request; its old handler may still be running, hence
two `Slots` per reader. `Emit`, `EmitTerminal`, `Subscribe` and `Unsubscribe`
are critical sections of `turnJob.mu`.

**BrowserSessions.** `request[r]` walks through the middleware and its handler;
each call of the store, of the server's map (`s.mu`) and the answer is a step of
its own, because `browserSessionForStoredSession` holds no lock while it loads.
Identifiers are named for the request that makes them, which is what freshness
of random values comes to. `Restart` empties the map and loses the requests in
flight, `Expire` lets a stored session's time pass, `StoreFails` fails one
statement.

**SharedConversation.** Each session has the copy of the messages it loaded
(`cache`), each process one connection (`SetMaxOpenConns(1)`); `Begin`, `Read`,
`Write`, `Commit` are the statements of `AppendTurn` and
`ReplaceTailAndAppendTurn`. `readers` and `writer` are SQLite's SHARED and
RESERVED locks: a transaction that has read and finds another writer fails at
once, a commit waits for readers or times out. The rows keep their sequence
numbers, so a gap or a clash of numbers is visible. `since` is a history
variable: for each session, the turns committed since it loaded its copy.

**ResponseStream.** A text is a sequence of named chunks. `buildStreamEvents`
gives the events of a response, `MapPayload` what the client makes of one,
`appendDelta`/`mergeCompletedPart` what the session keeps and
`appendOutputDelta`/`mergeCompletedOutputPart` what the web server shows. A
completed reply becomes, with `openResponsesInput`, part of the next request.
The body may be cut between two events, behind the data line of one or inside
it; the service may fail, refuse or go silent.

**Lifecycle.** `schema` is what the file is; each statement of `Migrate` is a
step, of any number of processes at once. A process runs from `Open` to `exited`
and may crash anywhere; a restart is another process. `Shutdown` waits for
handlers (readers), not for turns; `Return` closes the store while turns go on,
so `BeginCommit` needs the store open and `Commit` does not.

**Composer.** `page` holds the script's variables and the articles it shows,
`job` and `stored` the server's side as the page can see it. An action is one
callback up to its next `await`. The articles are a set, since the script finds
them by their index and not by their place in the document. A POST or its
answer may be lost; a POST may also be served after the page gave it up or was
loaded again, since its handler does not need the page (`Load`, `AnswerLost`).
The stream may break, the ten-second timer may fire beside the Stop button.
`inStep` is a history variable that becomes FALSE where the page loses count.

## 3. Runs

| run | instance | states |
|---|---|---|
| `session_callers` | 3 callers, no gate, indices nil, -1, 0, 1, 2, failing store, symmetry | 333 386 |
| `turn_jobs` | 2 creates, 2 aborts, indices nil, 0, 1, 2, failing store, symmetry | 822 637 |
| `abort_ends` | 2 creates, 1 abort, failing store, fairness | 101 585 |
| `aborted_is_lost` | 2 creates, 1 abort; ends in a violation (section 5) | |
| `event_readers` | 1 reader with 2 requests, 4 events, channels of 2, 2 broken connections, fairness | 291 151 |
| `sign_in` | 3 requests of every kind, 1 user, 1 fault (a failing statement, an expiry or a restart), symmetry | 2 754 448 |
| `shared_conversation` | 3 turns, 2 cookies in the server and the CLI, indices nil, 0, 2, 4, fairness | 247 243 |
| `response_stream` | 1 turn, 2 chunks per text, buffer of 2, every way to send a text, alone and after another item | 609 317 |
| `requests_of_a_conversation` | 3 turns, 2 chunks, the fake provider's response, fairness | 250 537 |
| `processes` | 2 servers and the ask command, 2 turns, file new, of version 1, or current, fairness | 330 108 |
| `one_page` | 2 turns, 1 part per reply, 1 fault (a broken stream or a reload), fairness | 840 676 |
| `edit_replaces_another` | 3 turns, no fault; ends in a violation (section 5) | |

What each property says, in a line (the comments in the modules say more):

* `session_callers`: `CacheIsStored`, a write changes cache and store or
  neither; `StoredIsTranscript`, the store holds prompt and reply in turn;
  `InFlightIsHeld`, no path that ended leaves the flag behind;
  `CompletedIsWritten`, a turn is counted completed in the step that writes it;
  `WritesEachTurnOnce`, refinement of `ConversationLog`.
* `turn_jobs`: `OneTurnRuns`, `EveryTurnReports`, `AnsweredIsSettled` (gate,
  terminal event, abort); `ReplyFollowsItsContext`, a reply is written right
  after the messages its model was given; `EventMatchesStore`, `done` means
  written, `stream-error` means absent; `AdmittedFindsSessionFree`, with its one
  exception; `OnlyRunningTurnWrites`, the conversation changes only by the one
  turn the gate admitted, before its terminal event is published.
* `abort_ends`: `AbortIsAnswered`, `AbortFreesSession`.
* `event_readers`: `ChannelsAreClosedOnce`, though four places close one;
  `ReplayMeetsChannel`, no gap and no duplicate between replay and channel;
  `ImplementsFeed`, order across reconnects and, under fairness, all events.
* `sign_in`: `ServedAsStored`, nobody is served with another user's
  browserSession; `EndsWhenRetired`, a stored session ends exactly when a
  request that came with it ends it; `RunningTurnIsReachable` and
  `OneTurnPerSession`, unless two first requests raced.
* `shared_conversation`: `TableIsTranscript`, sequence numbers dense, turns
  whole; `OnlyReplacementsRemove`, an append loses nobody's turn;
  `CopyLacksOnlyOthers`, a session that has written alone since it loaded shows
  the table, and a stale copy lacks the turns of others and nothing else, while
  nobody replaces; `SharedLog`, refinement of `ConversationLog`; `TurnsSettle`,
  no deadlock of locks.
* `response_stream`: `TextArrivesOnce`, `CompleteIsWhole`, `ShownIsRecorded`
  (both readers build the same parts), `SpanTellsOutcome`.
* `requests_of_a_conversation`: `PriorReasoningIsSent`, `TurnsEnd`.
* `processes`: `VersionTellsSchema`, `VerdictIsTrue`, `CleanExitAnswersReaders`,
  `StopsWhenTold`.
* `one_page`: `PageIsConversation` (indices of the page are the server's, unless
  the page fell out of step in one of the three ways its comment names),
  `StreamingIsFollowed`, `VerdictIsFinal`, `ComposerIsFreed`.

Types are checked as the first conjunct of one invariant of a run
(`ReplayMeetsChannel`, `EndsWhenRetired`, `TableIsTranscript`,
`CompleteIsWhole`, `PageIsConversation`), and proved for every module with a
state.

**Bounds.** Two turns are enough for one to disturb another; three are used
where a third must meet the leftovers of two (`session_callers`,
`shared_conversation`, `edit_replaces_another`). The history is one exchange, so
that an index may name a prompt, a reply, or the end, and a commit may replace
or append. `MaxParts = 1`: a reply is empty or not. A channel of 2 stands for
128: four events overflow it and leave a rest to be replayed, and two breaks let
a reader return while its former handler still runs. In `sign_in` one fault,
anywhere, meets three requests, of which two race and the third sees the result;
two independent faults are not covered. Two chunks tell a text from its
beginning and its repetition; the shapes of `MCResponseStream` put each way of
sending a text before, after and around another item. Two servers and a command
are one process that migrates, one that races it, and one that follows. One
fault in `one_page` is a broken stream or a reload; requests and answers that
are lost, or requests served late, are not bounded by it. Names without meaning
are taken in one order (`SharedConversation`, `Composer`) or are symmetric
(`session_callers`, `turn_jobs`, `sign_in`); symmetry is used only without
liveness, and no property names one.

Deadlock is not checked: turns and requests are finite, and a system with none
left rests. Waiting on one another is what the liveness properties rule out.

**Fairness.** Goroutines, handlers and callbacks are scheduled; users,
providers and connections owe nothing.

* `TurnJobs`: weak fairness of the server's steps of a turn and of an abort's
  cancel and answer. `Next` and `client.Stream` may block for ever until the
  context is cancelled; then the HTTP client returns, with an error or with what
  had arrived, so a provider's step of a cancelled turn is weakly fair.
* `TurnEvents`: handlers, and a reader that connects again and receives what its
  connection carries. The turn need not end; connections break `MaxBreaks` times.
* `SharedConversation`: strong fairness of the statements of a turn, since the
  one connection of a process is handed out in order (`database/sql`).
* `ResponseStream`: the client's reader and `http.Client.Timeout`; of the
  service nothing, it may be silent for ever.
* `Lifecycle`: the main goroutine and the timer of `Shutdown`; turns and readers
  need not end.
* `Composer`: the server serves requests, answers are handled or fail, the timer
  fires; a stream need never open.

## 4. Proofs

All theorems hold for any values of the constants that satisfy the assumptions
named in the modules.

**The session** (`TurnJobsProofs`, part I; `TranscriptAssumption`,
`SessionAssumption`). The inductive invariant `SessionInv` is `SessionTypeOK /\
CacheIsStored /\ StoredIsTranscript /\ KeepsWholeTurns`. The last conjunct is
the strengthening: a stream that replaces keeps an even number of messages. It
follows at `Send` from `ValidReplaceFrom` because in a transcript a message of
the user stands at an odd place (`TranscriptProofs`); it is needed at the
commit, when the conversation may have become another one. From it:
`SessionTypeCorrect`, `CacheIsAlwaysStored`, `StoredIsAlwaysTranscript`;
`InFlightIsAlwaysHeld` (a step that leaves the flag up leaves a holder) and
`CompletedIsAlwaysWritten`, two properties of steps; and
`SessionImplementsLog`, the refinement, which also uses that a stream that is
being opened is not finalized.

**The turns of the server** (`TurnJobsProofs`, part II, in the same module since
each of its steps is shown to be a step of the session). `JobInv` adds, per
turn, that the place of the goroutine fixes the phase of its stream (`InStep`),
what it published (`Reported`) and how it was counted (`Counted`), and that an
answered abort names a finished job. `StepIsSessionStep` lets `SessionInv` come
along (the lemma `ServerIsCaller`, which holds by the way the module is put
together and is no result of its own). From it: `TypeCorrect`,
`OneTurnAlwaysRuns`, `EveryTurnAlwaysReports`, `AnsweredIsAlwaysSettled` and
`ServerImplementsLog`. What the page is told needs more: `OutcomeInv` says that
the messages the model of the running turn was sent are the beginning of the
store while it runs (`Asked`; it rests on the gate, without which another commit
might come between), that a published verdict tells what the store holds
(`Told`), that a stream is left open only by `context.Canceled` (`Stops`), and
that such a cancellation was asked for (`CancelIsAsked`). From it:
`EventAlwaysMatchesStore`, `ReplyAlwaysFollowsItsContext`,
`OnlyRunningTurnEverWrites` and `AdmittedAlwaysFindsSessionFree`.

**Several sessions** (`SharedConversationProofs`; `TranscriptAssumption`,
`ProcessAssumption`, `FromsAssumption`, any number of processes and sessions).
`SharedInv` is `Stored /\ Cached /\ Counted /\ Followed /\ Turned /\ OneTurnEach
/\ Locked`: table and copies are transcripts; a turn in `since`, and the
turn of every row, has committed (`Counted`); a session that
has seen only appends since it loaded follows the rows it shows, in the order of
the table (`Followed`; an order-preserving map between the two, which an append
extends by two places, where the set of rows alone would not be inductive); the
prefix a turn keeps is even and inside its session's copy; the number of rows a
transaction has read is still the number of rows when it writes. The last holds
because a committer needs every other reader gone, and is what makes the
sequence numbers dense. From it: `TableStaysTranscript`,
`StaleCopyLacksOnlyOthers`, `AppendsRemoveNothing`, and the refinement
`SharedTableIsLog`.

**Browser sessions** (`BrowserSessionsProofs`; `BoundsAssumption`, with a finite
set of requests, and `NamesAssumption`). `SessionsInv` has three parts:
`Staged`, what a request at each place of its handler has found and holds;
`Identity`, a name of a session belongs to one cookie and one user for ever;
`Mapped`, which entry of the map a request was given, and when two first
requests raced. From it: `SessionsTypeCorrect`, `AlwaysServedAsStored`,
`SessionEndsWhenRetired`, `RunningTurnStaysReachable` and `SessionRunsOneTurn`.

**The page** (`ComposerProofs`; `TranscriptAssumption`, `ComposerAssumption`).
`ComposerInv` is `Typed /\ Followed /\ Verdicts /\ Known /\ Submitted /\
InPlace`. `Followed`: a reply that streams is followed, and none hides in the
snapshot an edit keeps. `Verdicts`: a mark says how its turn ended, also on the
articles an edit took away, and an answered abort names an ended turn.
`Known`: a turn the page counts was created, or is the one it posted.
`Submitted`: the turn the page awaits is shown, one turn runs, at an index inside
the conversation, and it need not be a turn of this page: a prompt that was given
up, or posted by the document before, may be served at any time. `InPlace`: a
page that is in step agrees, place by place, with what the server has promised it
(the stored messages and, if the page counts it, the running turn: `Promised`),
with the turn that was posted, and with what a refusal would restore; the
property speaks of a page at rest only, and its steps go through pages that are
not. From it: `ComposerInvHolds`, `PageIsAlwaysConversation`,
`StreamingIsAlwaysFollowed`, `VerdictIsAlwaysFinal`.

**The stream of a response** (`ResponseStreamProofs`; `ServiceAssumption`: any
number of items and contents, the text of each message sent in at least one
way). The first half is about `buildStreamEvents` and the lists it is put
together from. A finite set of numbers has a least element (the library has it
from well-foundedness), which gives induction on sets of numbers and with it
what `FlattenSeq` yields for every input. `Runs` relates a run of events to the
text it delivers and the contents it marks; `ResponseRun` shows that a response
read from its beginning delivers its whole text once. `StreamInv` is `Typed /\
Fresh /\ ReadsOn /\ TextArrivesOnce /\ BothReaders /\ SpanFollows /\ Asked
/\ Answered`. `ReadsOn` is the strengthening: what is on its way is a beginning
of the rest of the response's events, perhaps with a failure behind it, and the
text put together with what that rest delivers is the whole text; of a response
with one reasoning item, that item is named by the reply or its end is in the
rest. From it: `StreamInvHolds`, `TextAlwaysArrivesOnce`,
`CompleteIsAlwaysWhole`, `ShownIsAlwaysRecorded`, `SpanAlwaysTellsOutcome`. What
a request sends depends on every turn before it, so `PriorReasoningIsAlwaysSent`
has a second invariant over `StreamInv`: `SentInv` says that each prompt is in
the conversation once, that behind it stands a reply that names reasoning of its
own turn only, and that a complete reply names all of that of a response. The
theorem assumes that no response has two reasoning items; with two it is false
(section 5).

**Processes** (`LifecycleProofs`; `ProcessesAssumption`, `ReplyAssumption`,
`SchemasAssumption`). `LifecycleInv` has a part per kind of state. `SchemaInv`:
the file only moves towards the current schema, and a process past a statement
of `Migrate` has seen its effect, which no other process takes back; without it
"version 2 means the column is there" is not inductive. `TurnInv`: the place of a
turn tells whether it has rows, and only a settled turn was shown a verdict.
`ExitInv`: a server that returns with code 0 has no reader left, and none can
come. From it: `TypeCorrect`, `VersionAlwaysTellsSchema`, `VerdictIsAlwaysTrue`,
`CleanExitAlwaysAnswersReaders`.

**The event log** (`TurnEventsProofs`; `SlotAssumption`, no bound on the
capacity). `EventsInv`: the wire, the replay and the channel of a reader's
request are three windows of the log, one behind the other, that begin behind
the last event it received (`FollowInv`), and reach the end of the log while the
request is subscribed; a channel is registered exactly while it is open
(`ConnInv`); the log has no terminal event before `terminal` is set (`LogInv`).
`ReplayMeetsChannel` alone is not inductive: the window of the concatenation
does not tell how its parts lie. From it: `TypeCorrect`,
`ChannelsAreAlwaysClosedOnce`, `ReplayAlwaysMeetsChannel` and
`TurnEventsImplementFeed`, the safety part of `ImplementsFeed`.

Model-checked only: the liveness properties and the fairness part of
`ImplementsFeed`, which are out of the prover's reach (fairness, ENABLED), and
the two runs that end in a violation.

## 5. Where code and tests disagree

Two runs end in a violation, each a schedule in which the program contradicts
one of its own tests:

* `aborted_is_lost`: an abort meets the end of the provider's stream. `Next`
  has finalized the stream, `CommitPartial` writes nothing, and `aborted` is
  published: the partial output is not in the conversation.
* `edit_replaces_another`: a page whose prompt was not accepted, or whose turn
  failed, keeps the two indices it had taken for it (`restoreTruncatedMessages`
  returns without a snapshot). The next prompt's index is two too high, and an
  edit of it replaces another message or appends.

Other limits are named as exceptions in the properties, so that the property
holds of everything else:

* a stopped turn whose partial reply the store refuses holds the session from
  its `stream-error` to `Close`, and the turn admitted meanwhile is refused
  (`AdmittedFindsSessionFree`; `server_test.go:1746` tests the healthy case). When
  that refused turn is aborted, `CommitStopped` releases the session the first
  stream still holds;
* two first requests of one cookie, neither of which finds an entry in the map,
  get a browserSession each; the later one replaces the other, with its gate and
  its turns (`Raced` in `BrowserSessions`);
* a session over a conversation that another session writes shows its own copy,
  without the other's turns (`CopyLacksOnlyOthers`), and replaces by positions in that copy
  (`OnlyReplacementsRemove`);
* a prompt that is served after its answer was lost, or after the page that
  posted it was loaded again, becomes a turn that the page does not show: once it
  is written, the page's indices are behind the server's. So they are when a page
  is loaded beside a running turn. Both, with the indices a failed or unaccepted
  prompt keeps, are what `inStep` of `PageIsConversation` leaves out;
* `mergeCompletedPart` merges all reasoning items of a response into one part,
  so a request brings back all reasoning of a reply only if there was one item
  (`PriorReasoningIsSent` is checked for such a service);
* a reply cut off by io.EOF ends the ask command with code 0
  (`Lifecycle!PrintCut`), and a cancellation while `client.Stream` connects is
  counted as failed (`ChatSession!StreamRefused`).

## 6. Not modelled, and why

* Markdown: the renderer and `supersub` are pure functions from text to HTML on
  top of two libraries; the block streamer is called by its tests only. Neither
  has state that two actors reach or an order that could be wrong.
* Text, HTML, JSON and the framing of SSE lines: abstracted to the message,
  event or error they give; no property speaks of them.
* Password hashing, tokens, CSRF and normalisation of user names: abstracted to
  their verdict in `BrowserSessions`. Routing, empty prompts and JSON errors are
  refused before any state changes.
* Telemetry set-up and export (`Init`, exporters, metric names): run once, or
  I/O. Which counter a turn raises and what its span tells is modelled.
* The loop of the chat command over its input lines; its session is one of
  `SharedConversation`.
* Of the page: layout, focus, scrolling, copying, themes, diagrams, the text of
  an unsent draft.
* A transaction whose `Commit` reports an error although it took effect: SQLite
  reports it for a lost disk only; the store here takes a turn or leaves it.
* A `Session` without a store (no account) behaves as one whose store never fails.
* The dummy client, the command around the fake provider, build information:
  test doubles and constants.

## 7. Plan

Every safety property that a run checks is now a theorem. What is left is to
keep the proofs readable: lemmas that two proof modules have in common
(`TranscriptProofs` holds those on messages) and shorter leaves.
