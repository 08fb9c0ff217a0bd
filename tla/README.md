# Formal models of MMCS

MMCS lets several language models discuss a topic under the control of a user.
A *session* has a topic, a *paradigm* (round robin, court, free chat,
evaluation), roles that are played by models, materials, messages, minutes and
tasks. A Go server (`cmd/api-server`, HTTP and SSE) or a desktop program
(`cmd/desktop`, Wails) hosts it; a React page shows it. State is in PostgreSQL,
in caches in front of it, and in goroutines that talk over channels.

This directory holds TLA+ modules of the parts of that system that are hard to
test, TLC configurations that check them on small instances, and TLAPS proofs
for instances of any size. `PROJECT.json` lists the components, the runs, the
mutants that show that a property can fail, the source lines each definition
stands for, the findings, the hazards and the theorems.

To check a run: `tlc -config <run>.cfg <MC module>`; to check the proofs:
`tlapm <module>_proofs.tla`, for each of the eight.

## 1. The system

| Component | State | Operations | Interacts with |
|---|---|---|---|
| Session service (`internal/session/service.go`, `state.go`, `repository.go`) | the row of `sessions`; `runtimeChans`, a map from the session's id to its interrupt and resume channels (each buffers one signal) | Create, Start, Pause, Resume, Terminate, Archive, Delete, Restart, role bindings, minutes | called by both hosts; signals orchestrators over the channels |
| Hosts (`internal/api/handler_session.go`, `cmd/desktop/app.go`) | one goroutine per request and one per orchestrator | start an orchestrator after each Start, set it up, recover its panics, end its session | service, orchestrators, event stream |
| Orchestrators (`internal/orchestrator`) | one run: history, messages of the last round, last speech per role, user input, round, minutes | Execute, per paradigm; CheckInterrupt; ExpertSpeak; panels of one goroutine per role | models, message store, progress channel |
| Event stream (`internal/stream`, `useSSE.ts`) | a registry with a hub per session, which has a bounded channel per subscriber; a bridge goroutine per run with a buffer of its own | Subscribe, Unsubscribe, Broadcast, Push, Close, Cleanup | orchestrators to pages; the shutdown |
| Page of a session (`SessionDetail.tsx`, `SessionControls.tsx`) | the status shown, the last status heard, the answer and the row it awaits | the buttons for the status shown; loading the row | service and stream |
| Materials (`pg_material_store.go`, `material.go`) | a cache with its own ids; the table `session_materials`; goroutines that write behind | Add, Delete, ListBySession, CopyToSession | Restart; the hosts |
| Messages (`pg_message_store.go`) | cache and table, written behind | Add, ListBySession, GetByID | orchestrators, page, minutes |
| Role bindings (`service.go`, `session_roles`) | the roles of each session with their places | Create, Restart, AddSessionRole, RemoveSessionRole, Delete | order of speech in a discussion |
| Tasks (`internal/task`) | one record per task in a store that hands out copies: status, agent, description, validation result | Create, UpdateStatus, Update, Assign, AddValidationResult | extraction from a session; validation |
| Validation (`internal/validation`) | a goroutine per validation | ValidateTask, HandleRetry | task service; validator model |
| Model gateway (`internal/model_gateway`) | a model per provider, made on first use; the store of providers; an LRU cache of models | GetChatModel; Create, Update, Delete, ToggleEnabled; GetOrCreate, Get, Set, Delete, Clear | orchestrators, validators; the LRU cache is made in `main.go` and used by nobody |
| Evaluation (`evaluation.go`) | one run: experts' scores, the critic's feedback, adjustments, a weighted matrix | Execute | models, channels, progress channel |
| Conversation context (`internal/context`) | the messages handed to a model | Compress: drop, slide, summarise | not called by the orchestrators |
| Minutes (`service.go`, `internal/minutes`) | none; computed from messages and materials | GetMinutes, GetMergedMinutes | page |
| Audit log (`internal/audit`) | a ring of entries; the table `audit_logs` | Record, Flush | meant for every part, called by none; flushed at shutdown |
| Users, roles, workspaces, middleware | rows, or nothing | one query each | the HTTP API |

What makes it hard:

* A service operation reads the row, validates the transition, signals and
  writes in **separate steps without a lock**; requests and the end of an
  orchestrator interleave between them.
* Pausing is a signal in a buffer of one to a goroutine that may be in a round,
  waiting, not yet set up, or gone. **Signals can be left behind**, and the
  channel map is removed by whoever ends first.
* Orchestrators fail, panic, or outlive their session; **the two hosts end them
  differently**.
* A panel asks all models at once and **gives up after 30 seconds**; late
  answers race the placeholder that stands in for them, and what a role is
  shown depends on who was faster.
* Caches are **written behind by goroutines and filled from the table on a
  miss**, under new ids, and the server may restart in between.
* A page learns its status from the row it loads, from answers to its calls and from a
  stream, which **overtake one another**.
* Tasks are **read, changed as copies and written back whole**, by users and by
  validations that think for seconds in between.
* Buffers, rings and caches are **small and lossy on purpose**: a hub skips slow
  pages, a bridge gives up after a second, the audit ring overwrites, the model
  cache evicts what another caller has just found.
* Creating a session, restarting it, or revising a task is **several statements
  without a transaction**, each of which may fail.

What would make each part correct:

* session control: writes follow the state table, as far as unlocked requests
  can; every orchestrator that can be paused can be reached; what is removed is
  removed with its owner; requests return; orchestrators end; the page offers
  what is possible;
* discussions: everybody speaks once per phase, phases do not overlap, prompts
  are built from what a role may know, nothing a user says is dropped, the
  minutes show the last round, discussions end;
* materials: what was accepted stays, what was deleted goes, and the two
  representations never disagree about more than what is under way;
* tasks: every version follows from a version by one legal call, completed
  tasks stay completed, an edit made in peace survives a review, a revision
  returns the task, validations end;
* event stream: nobody sends to or closes a closed channel, pages hear in order,
  once, and without gaps but those of a full buffer, streams end at shutdown;
* messages: listings have no gaps, the table is neither doubled nor wrong about
  ids; roles: a session has who it was asked for, in that order; minutes: they
  repeat what was said, and of decisions and files only those of one key give way;
* gateway and cache: nothing is made twice, map and list agree; audit: no entry
  disappears but from a full ring; context: the last message and the prompt are always there;
* evaluation: those who failed do not count, phases do not overlap, a cancelled one ends.

## 2. The modules

| Module | Models |
|---|---|
| `SessionState` | the statuses and the transition table of `state.go`; the CHECK constraint of the table |
| `SessionLedger` | *abstract*: what the service promises about the status of a session |
| `SessionControl` | service operations, both hosts, the control skeleton of orchestrators, the page's status |
| `MCSessionControl` | its instances for TLC |
| `SessionControl_proofs` | the theorems about both |
| `Transcript` | *abstract*: what orchestrators promise about who speaks when |
| `Discussion` | one discussion in each paradigm: phases, panels, prompts, history, minutes |
| `MCDiscussion` | its instances for TLC |
| `Discussion_proofs` | the theorems about both |
| `Materials` | the material store: cache, table, write-behind, reload, copy, restart |
| `MCMaterials` | its instances for TLC |
| `Materials_proofs` | the theorems about it |
| `TaskState` | a task, its state table, the service's operations as functions |
| `TaskLedger` | *abstract*: what the service promises about a task under concurrent calls |
| `TaskLifecycle` | users, handlers and validations of one task |
| `MCTasks` | its instance for TLC |
| `TaskLifecycle_proofs` | the theorems about tasks |
| `EventStream` | registry, hub, bridges and stream handlers of one session up to the shutdown |
| `MessageLog` | the message store: cache, table, write-behind, reload, restart |
| `SessionRoles` | Create, Restart, AddSessionRole, RemoveSessionRole, Delete over sessions and their roles |
| `MinutesView` | the minutes of a session, and merged with those of the session it restarted |
| `ModelGateway` | models made on first use; the provider store |
| `ModelCache` | the LRU cache of models |
| `ContextWindow` | a conversation compressed again and again by each strategy |
| `AuditLog` | the ring, Record, Flush and its failure |
| `Evaluation` | Execute of the weighted evaluation |
| `Platform` | the nine modules above side by side |
| `MCPlatform` | its instance for TLC |
| `Records_proofs` | the theorems about the audit log, the messages, the minutes and the roles |
| `Models_proofs` | the theorems about the gateway, the cache, the evaluation and the window |
| `EventStream_proofs` | the theorems about the stream |
| `Platform_proofs` | that what is proved of a part holds of `Platform` |

`SessionControl` and `Discussion` describe the same goroutine from two sides.
`SessionControl` keeps what a run shares with others (channels, row, page) and
has one step per round; `Discussion` keeps what happens in a round and leaves
the outside world to `Interrupted` and `Resumed`. Sessions share no state with
one another (row, channels, hub and caches are keyed by the session), so each
module has one session, except `Materials`, whose copies need two.

### SessionControl

Every client and every orchestrator is an actor; an actor is in at most one
service call (`req`), cut where another actor can step in:

| In the code | In the model |
|---|---|
| `GetByID` and `ValidateTransition` at the head of an operation | `Accept`, by `Call` (users) or `AutoTerminate` (an orchestrator) |
| `UpdateStatus` (an UPDATE by id, whatever the row holds by then) | `Write`, `WriteFails` |
| `GetChannels`, then the send with five seconds' patience | `Lookup`, `Send`, `SendTimeout` |
| Terminate's `graphPool.Remove` (finds nothing, no code fills the pool) and `RemoveChannels` | `Remove` |
| `go startOrchestration` | `Launch`; then `Load`, `LoadFails`, `InitChannels` |
| `CheckInterrupt` before each round | `NotInterrupted`, `Interrupted`, `Resumed` |
| a round; `ShouldContinue`; the return of Execute | `Continue`, `Conclude`, `ExecuteFails`, `Panic` |
| the hosts' epilogues: Terminate, deferred `RemoveChannels`, `recover` | `AutoTerminate`, `CloseTwice`, `Exit`, `Unwind` |
| `Bridge.Push`/`Hub.Broadcast`; `useSSE` and the effect on `sseStatus` | `Publish`; `Subscribe`, `Deliver` |
| the answer to a button's call, and `handleAction` going on with it | `Answer` (by `Succeed` and `Fail`), `ShowAnswer` |
| the page opened; `fetchSession`, up to the status it sets | `Refresh`; `ReadRow`, `ShowRow` |

`pc` of an orchestrator follows `startOrchestration`; `Holding` are the points
between `InitChannels` and the deferred `RemoveChannels`. `past` is a history
variable. The two channels of a pair are counters up to their capacity of one,
named after the run that made the pair. `MaxRounds` stands for the rounds of a
round robin or a free chat and for the phases of a court: between two checks
for an interrupt it makes no difference here.

A page awaits three things that reach it independently: the answer to its call
(`answer`), the row it asked for (`read`) and the events of its stream (`feed`, once
the server has subscribed it). It goes on with each when it comes, whatever it has
heard since, and so may show a status that an event has overtaken. `late` remembers
that: it is set when an event is published while an answer or a row is on its way, and
reset when that is shown before the event or the page is loaded again. Pages are those
of a browser: on the HTTP host the service's own broadcasts reach nobody (no code calls
`SetHubRegistry` there). The desktop program forwards the events of its hub to its one
window, those of the service among them (`app.go:430-457`), and the page listens to them
there (`useSSE.ts:118-126`); that window is left out, which `TabsAreBrowsers` states.

### Discussion

`phase` counts rounds (or the phases of a court), `history` is `state.History`
by who spoke in which phase, `speaker[r]` is where the goroutine (or the call)
of a role stands. Texts are left out: `prompt[r]` is the set of messages a model is
given, which is what the properties talk about. A panel (`InPanel`) begins a
goroutine per role; `Ask` is the moment a goroutine reads the state, which in
the first round depends on who was faster. `Expire` is the panel's 30-second
context; a role that has no answer by then speaks a placeholder (`AnswerLate`),
and one whose call failed speaks an error text (`AnswerFails`). Moderated turns
are `SpeakAlone` and `SpeakAloneFails`. `HistoryLimit` is the
length of a history after which the code ends a discussion, 100 there.

`Transcript` is what is left when prompts, panels, failures and pauses are forgotten:
the roles that must speak in each phase (`due`) and the speeches so far. A role speaks
once per phase, and only when nobody due in an earlier one is missing (`Speak`); the
moderator and the user are guests, who may speak at any time (`Say`). `Discussion`
implements it with its history for the transcript and `Due(n)` for the roles of phase
n: everyone in a round robin, the author or the reviewers in a court, nobody in a free
chat, where the moderator chooses.

### Materials

`cache` is `MaterialStore`, `rows` the table. `Add` and `Delete` change the
cache and leave `inserts` and `erases` to goroutines (`Insert`, `InsertFails`,
`Erase`). A listing that finds the cache empty, and every copy, go through `Query` and
then `Fill`, one material at a time, each under a new id, as `loadFromDB` does. A query
that fails gives nothing; one whose rows cannot be read or whose connection breaks gives
some of them, and the code takes those for all (`QueryFails`).
`Reboot` forgets the cache and all goroutines; ids are
never given out twice. `Sessions` are a
session and its restart.

### Tasks

`MemoryStore` copies a task out under its lock (`Read`) and takes it back under
its lock (`Write`); between the two stands one call of the service, which
`TaskState!Apply` describes. An actor, a user's request or a validation's goroutine,
has a list of calls to make (`todo`), and drops the rest when one is refused
(`ReadRefused`):

| In the code | In the model |
|---|---|
| UpdateTask, AssignTask, AutoAssignTask | `Call`, then `Write` |
| TriggerValidation, then `go ValidateTask` | `TriggerValidation`, then `Validate`, `Judge` or `AgentFails` |
| UpdateStatus by the verdict; HandleRetry with its three calls | the calls `Judge` and `Reconsider` put into `todo` |
| RetryValidation | `RetryValidation` |

A description is the set of texts in it, so that appending, overwriting and losing
one can be told apart; of the other fields of an update only the agent matters to
anything that follows (`Reassign`). Which agent AutoAssign finds is a choice.
`AddValidationResult` belongs to the service and is called by no handler; it is
offered to users here because only a recorded result lets RetryValidation get past
its first check. A task starts as it is created, pending with or without an agent
(`Create` does not start one that comes with an agent), or as an assignment leaves it.

`TaskLedger` is what is left of the promises of a store without transactions: a
write need not follow from the version it replaces, but it follows by one legal
call from **some** version the task has had.

### The parts of Platform

These share no state and never wait for one another, so `Platform` runs one of them
per behaviour (`part`) and all invariants are checked in one run; composing their
interleavings would multiply states and add no behaviour.

* `EventStream`. A run pushes numbered events into its bridge's buffer (`Push`,
  `PushTimesOut`), the bridge's goroutine takes one (`TakeEvent`), broadcasts it
  (`Forward`) and stops at once with its context (`BridgeStops`). A handler
  subscribes in two steps (the registry's hub, then `Subscribe`), which a cleanup
  may come between. `Shutdown` lets the server drain, `Cleanup` closes the hubs and
  empties the registry; who asks afterwards gets a new hub.
* `MessageLog`. `AddMessage` changes the cache and leaves the INSERT to a goroutine;
  a listing that finds the cache empty queries, then fills the cache one message at a
  time. An INSERT may fail, of which nobody is told, and so may the query, or break
  off in the middle of its rows.
* `SessionRoles`. An editor is one request, cut at each statement. `neat` and
  `edited` are histories that say of which sessions the properties speak.
* `MinutesView`. A message has any round number: each Start launches an orchestrator
  that counts from 1 again, and the minutes group by the number. `Rounds`, `Decisions`, `Together` and the two merges are the functions
  of GetMinutes and GetMergedMinutes; speech and uploads only enumerate inputs. Grouping,
  sorting and filtering choose some places of a sequence and read it there in order (`At`).
* `ModelGateway` and `ModelCache`. A call that missed under the read lock looks again
  under the lock (`SecondLook`; `HitAfterAll`); the factory works inside the lock.
* `ContextWindow`. A conversation goes on and is compressed by one of the strategies
  whenever the manager might; a summary remembers what it stands for (`covers`).
  `Only` keeps of a sequence what is in a set, `OfKind` what is of some kinds.
* `AuditLog`. `Take` empties the ring under its lock by moving its position and its
  count to 0 (the slots keep their entries), `InsertEntry` writes without it,
  `FlushFails` puts everything back behind what was recorded meanwhile. `columns` says
  whether `audit_logs` has the columns that the INSERT names: with the repository's
  migrations it has not, and every flush fails. `over` and `bumped` are histories of the
  entries that lost their place in a full ring. The host flushes once, at shutdown, and
  nothing calls Record; two callers of Flush are what the type allows.
* `Evaluation`. `Begin` is the step between phases, where Execute looks for a pause;
  `Answers` and `Fails` are the goroutines of a panel, `EndPanel` its join. Every
  answer is parsed into the same score (`ParsedScore`), as `parseScoresFromResponse`
  does. What the adjustment phase returns carries no option and no criterion, so it
  replaces no score: the model keeps who adjusted and leaves the matrix to the first
  scores. Results are looked up by the name of the expert, and two experts of the
  instance share one.

## 3. What the runs show

| Run | Instance | Shows |
|---|---|---|
| `control_api` | 2 API clients, 2 orchestrators, 1 round, panics, HTTP host | `DraftIsQuiet`, `NoOrphanChannels` |
| `control_faults` | 2 clients, 1 orchestrator, 2 rounds, both hosts, failing queries, panics, deletion, archiving | `TypeOK`, `InReach`, `LedgerSpec` (refinement), `RequestsReturn` (liveness) |
| `control_tab` | 1 page with its stream, 1 orchestrator, 3 rounds, faults | `WaiterIsShown`, `RunsEndOrWait` (liveness) |
| `discussion` | 3 roles, limits of 1 and 4 rounds, round robin, court and free chat | `PromptsLookBackOneRound`, `UserIsHeard`, `ReviewsAreAnswered`, `MinutesShowLastRound`, `TranscriptSpec` (refinement), `DiscussionEnds` (liveness) |
| `materials` | 2 files, 2 sessions, 2 readers, 2 uploads, 1 restart, queries that fail or break off | `UploadsAreKept`, `ListingsStoreNothing`, `CopyIsComplete` |
| `tasks` | 2 users, 2 validations, 1 agent, 3 calls by users | `CompletedIsFinal`, `EditsSurviveReview`, `LedgerSpec` (refinement), `RevisionReturnsTask` (of steps), `ValidationsEnd` (liveness) |
| `platform` | see below | one or two properties of each part, `StreamsEnd` and `CancelledEvaluationsEnd` (liveness), all types (`PlatformTypeOK`) |

Some of these are subtle. A session's status is *not* always changed along the
state table, since nothing is locked; `SessionLedger` says what is left: every
write is legal for **some** status the session has had, which still orders its
life (`LedgerIsOrdered`). A second Pause leaves a signal that stops the
orchestrator after the row went back to `running`; `WaiterIsShown` says that a
page which follows its stream offers to resume it nevertheless. It does not hold of
every page: when the answer to a Resume is shown after the next `session.paused` was
heard, the page says `running` while the orchestrator waits, until another event comes
or it is loaded again. The run `control_tab` reaches such pages, and the property
leaves out exactly them (`late`): whatever else overlaps, the page is right.

Of tasks, what does *not* hold shaped what does. A user's edit can be lost to another
call that had read the task before; `EditsSurviveReview` therefore speaks of an edit
that was written while nobody was half through a change, and says that validations,
which read, think for long and append to what they read, still never lose it, because
HandleRetry is given the task read anew. A completed task can be brought back by a call that read it
before; `CompletedIsFinal` speaks of a completion during which nobody held a copy.
`RevisionReturnsTask` speaks of a validation that has the task to itself, and leaves open
whether its result is recorded.

Likewise `EntriesAreAccounted` allows an entry to be in the table twice (a flush that
failed half way puts all of its entries back), and once a flush has failed it allows a
newer entry to be lost to an older one: what comes back goes behind what was recorded
meanwhile, over the oldest of it when the ring is full. `ListingsStoreNothing` and
`CopyIsComplete` say of materials what is left of a store whose copies reach the cache
only, under new ids and some of them twice: loading writes nothing, and a copy lacks no
file unless its read failed or somebody deleted something. `ListingsHaveNoGaps` allows a listing
to leave out everything from before a restart (the first new message hides it) but
nothing in the middle, `NewcomersSpeakLast` speaks of sessions whose roles were asked for
once each and edited one at a time (a role asked for twice leaves a gap in the
places, and counting ignores gaps), and `PagesHearInOrder` allows gaps only for a page
whose own buffer was full.

Bounds, and why they are enough:

* *clients and orchestrators* (2 and 2, or 2 and 1): each hazard needs one actor
  between two steps of another; the second orchestrator is the one that shares
  channels, the map has room for one pair. The safety results that hold for
  several orchestrators are proved without these bounds (section 5). `InReach` and
  `WaiterIsShown` are claims about one orchestrator, however many clients and pages
  there are, and `WaiterIsShown` about a stream that has room for its events: a second
  orchestrator, which the code can start, breaks both (the map then holds the channels
  of one of the two, and the page hears of both).
* *rounds*: 1 suffices where only the ends of a run matter; 3 lets two signals
  be left behind and consumed. `discussion` has 4 rounds because a topic counts
  as solved after the third (`ShouldContinue`), and 1, the smallest value the
  schema allows. `HistoryLimit = 7` stands for the code's 100: three rounds of
  three roles reach it, two do not.
* `FeedCap = 7` exceeds what a run of three rounds can publish.
* *roles* (3): an author and two reviewers, or a panel in which one is late while
  one has failed.
* *materials*: ids up to 4 with two uploads let each be reloaded or copied.
  `MaxUploads`, `MaxId` and `MaxReboots` are bounds of the model, not of the code.
* *tasks*: two validations and an edit, or three edits, or an assignment, a
  validation and a completion; a fourth call repeats a race of the first three. The
  theorems of section 5 have no such bound.
* *stream*: buffers of one and three pushes fill each buffer and leave events for a
  page that was skipped; two pages, one of which may be slow, leave or come late; one
  run, since the order is stated per run.
* *messages*: three messages and one restart put one before, one after and one in
  between; two listings race. *Roles*: a session and its restart, two requests, two
  edits, lists with a role twice and a blank. *Minutes*: three messages a session in
  rounds 0 and 1 in any order (`MaxRound`), with two decisions at most (5 in the code),
  one file each of two names.
* *gateway*: two bindings, two callers, three providers. *Cache*: three keys, capacity
  two, three models, so that the third evicts while a caller holds the element it
  found. *Audit*: a ring of three, five entries, two flushes, two failures: it wraps
  and overwrites, also while a failed flush is put back.
* *context*: five messages and three compressions, so that each strategy meets its own
  leavings; a window of two rounds. *Evaluation*: three experts, two options, two
  criteria, with and without a critic, two pauses: one consumed and one left behind.

Deadlock is not checked: a session that is over, a discussion with its minutes
a store nobody uses any more and a server that was shut down all stop rightly; that nothing stops too early
is what the liveness properties say.

### Findings

Each is a run that TLC finds violated, against a statement of the repository:

| Run | What happens |
|---|---|
| `finding_resurrected` | A Pause that read the row before the discussion ended writes `paused` after it: the ended session is back. The design promises a mutex per session; there is none. |
| `finding_terminate_paused` | Terminate of a paused session removes the channels and leaves the orchestrator waiting for ever: it is not stopped and no minutes are made. |
| `finding_false_alarm` | On the desktop host each discussion that ends well closes its progress channel a second time, panics, and is reported as an error. |
| `finding_unrecorded` | A free chat ends with none of its speeches in the message store. |
| `finding_undeleted` | A listing between the two halves of a deletion brings the material back into the cache, under a new id. |

Other statements of the repository that the code does not keep have no run of their own,
because nothing but the presence of a call decides them. The models follow the code, no
property asserts what it does instead, and they should be read with this list:

* `pg_material_store.go:72`: CopyToSession copies into memory **and database**. It adds
  to the cache only; the copies of a restarted session are gone when the server restarts,
  and what was both cached and stored is copied twice.
* `validation/service.go:70`: ValidateTask creates a ValidationResult **and links it to the
  task**. It only returns it; nothing calls `AddValidationResult`. So
  `GetValidationResult` (`handler_validation.go:68`) always answers null and
  `RetryValidation` (`:116`) always refuses.
* `evaluation.go:108`, `:616`, `:803`: scores are parsed from the answers, adjusted, and
  the adjusted ones used. The parser gives every answer 75, and an adjustment carries no
  option and no criterion and so replaces nothing. `OnlyAnswersCount` speaks of bounds
  that an average keeps, and would hold of parsed and adjusted scores as well.
* `001_init.up.sql:218-226` has no column `time`, `event`, `node_name`, `input` or
  `output` in `audit_logs`, which `main.go:226` and `callback.go:181` insert; no later
  migration adds them, so no entry could reach the table. Nothing calls Record either.
* `cache.go:30`: a size of 0 or less means **no limit**; the code takes 1000. `main.go:135`
  makes a cache of 100 that nothing uses.
* GetMergedMinutes takes the decisions of one number in both sessions for the same one:
  the original's stays and the new session's is dropped. Starting a paused or running
  session again numbers its rounds from 1 again, so rounds of two orchestrators share a
  record of the minutes.
* Each host cancels an orchestrator's context only when Execute has returned, so
  `CancelledEvaluationsEnd` says what Execute promises a caller, not what happens to a
  user's evaluation.

## 4. Fairness

* *Goroutines* that can take a step take it: weak fairness of `Serve` and
  `Orchestrate` in `SessionControl`, of `Orchestrator` and of
  each role's `Ask` and `AnswerLate` in `Discussion`. Nothing is strong: no step competes for a lock.
* *A send of a signal* ends by its timeout of five seconds, or before. The model
  lets it time out only when no orchestrator stands at the matching receive:
  one that does takes the signal long before.
* *Models* are network calls that need not answer. In a panel `Expire` is fair,
  as it is a timer of 30 seconds (`nodes.go`), and roles speak a placeholder
  after it. A moderated turn has no timer of its own; it is fair because the
  providers' HTTP clients give up after 60 (openai) or 120 seconds (claude,
  ollama), which is `SpeakAloneFails`.
* *Users and their pages* owe nothing: no `Call`, `Refresh`, step of a page (`Follow`) or
  deletion is fair. In
  `SessionControl` a paused run may wait for ever (`RunsEndOrWait` says so), and
  `Discussion` states `DiscussionEnds` up to such a wait.
* *A validation* is one goroutine: weak fairness of everything it does. Its model
  answers or the HTTP client gives up (`AgentFails`). `ValidationsEnd` needs nothing of users.
* *Streams*: handlers and the shutdown go on by themselves (`StreamFairness`); pages
  need not read, leave or come.
* *An evaluation* that is not paused goes on and its model calls return; nobody has to
  resume it, so only a cancelled one is sure to end.
* `Materials` and the other parts of `Platform` have safety properties only.

## 5. What is proved

Every safety and action property that a passing run checks, and the three refinements,
for all values of the constants: any number of clients, tabs, orchestrators, users,
validations, readers, callers, experts, subscribers; any capacity, limit and bound; both
hosts, with or without faults. The assumptions are the ones the modules name, and TLC
evaluates them in the runs:

* `ConstantsAssumption`, `TabsAreBrowsers`, `NoneIsNoRun` (session control);
  `DiscussionAssumption`, `SpeakersAreDistinct`; `MaterialsAssumption`; `TaskAssumption`;
* `AuditAssumption`, `MessageAssumption`, `MinutesAssumption`, `RolesAssumption`,
  `StreamAssumption`, `GatewayAssumption`, `CacheAssumption`, `EvaluationAssumption`,
  `WindowAssumption`. They say that bounds are numbers, buffers, rings and caches hold at
  least one entry, and names that must be told apart are different. `Compress` sets a
  window that is not positive to ten (`sliding.go`), so windows are positive.

Two theorems have a premise more. `LoneRunIsInReach` and `WaitersAreShown` are about a
session with one orchestrator (`SingleRun`), and the second also needs a stream with room
for the two events a round can publish (`EventsFit`, `2 * MaxRounds <= FeedCap`). Without
either the properties do not hold.

| Theorem | Statement |
|---|---|
| *Session control* | |
| `TypeCorrect`, `DraftsAreQuiet`, `NoChannelsAreOrphaned` | `Spec => []TypeOK`, `[]DraftIsQuiet`, `[]NoOrphanChannels` |
| `LoneRunIsInReach`, `WaitersAreShown` | with one orchestrator: `Spec => []InReach`, `[]WaiterIsShown` |
| `ServiceKeepsLedger` | `Spec => LedgerSpec`: `SessionControl` implements `SessionLedger` |
| `LedgerIsOrdered`, `StatusesAreOrdered` | whatever implements `SessionLedger`, so `SessionControl`: a session was running before it was paused or failed, and over before it was archived |
| *Discussions* | |
| `TypeIsKept`, `PromptsAreOfLastRound`, `UserWordsReachPrompts`, `AuthorReadsReviews`, `MinutesAreOfLastRound` | `Spec => []TypeOK`, `[]PromptsLookBackOneRound`, `[]UserIsHeard`, `[]ReviewsAreAnswered`, `[]MinutesShowLastRound` |
| `EveryoneIsHeardInTurn` | `Spec => TranscriptSpec`: `Discussion` implements `Transcript` |
| *Tasks* | |
| `CallsWriteWhatTheyRead` | `Spec => [](TypeOK /\ CopiesArePast)`: each call about to write holds a version the task has had, for which it is legal |
| `ServiceKeepsTaskLedger` | `Spec => LedgerSpec`: `TaskLifecycle` implements `TaskLedger` |
| `LedgerIsReviewed`, `TasksAreReviewed` | whatever implements `TaskLedger`, so `TaskLifecycle`: nothing is completed or rejected before it was under review, and a task is dated exactly when it is completed |
| `CompletionIsFinal`, `EditsAreNotLost` | `Spec => []CompletedIsFinal`, `[]EditsSurviveReview` |
| `RevisionsReturnTheTask` | `Spec => RevisionReturnsTask`, a property of steps |
| *Materials* | |
| `MaterialsAreTyped`, `UploadsStay`, `ListingsLeaveTheTable`, `CopiesAreComplete` | `Spec => []TypeOK`, `[]UploadsAreKept`, `[]ListingsStoreNothing`, `[]CopyIsComplete` |
| *Records* | |
| `RingStaysRecent`, `EntriesStayAccounted` | `AuditSpec => []RingIsRecent`, `[]EntriesAreAccounted` |
| `ListingsAreWhole`, `MessagesAreStoredOnce` | `MessageSpec => []ListingsHaveNoGaps`, `[]TableIsTruthful` |
| `MinutesMissNothing` | `MinutesSpec => []MergedMinutesAreComplete` |
| `RolesAreThoseAsked`, `PlacesAreUnique` | `RolesSpec => []RolesSpeakAsAsked`, `[]NewcomersSpeakLast` |
| *Models* | |
| `ModelsAreMadeOnce`, `CacheIsConsistent` | `GatewaySpec => []NothingIsMadeTwice`, `CacheSpec => []MapMatchesList` |
| `PhasesDoNotOverlap`, `FailuresDoNotCount` | `EvaluationSpec => []SpeechesKeepToTheirPhase`, `[]OnlyAnswersCount` |
| `WhatIsRecentIsKept` | `WindowSpec => []NothingRecentIsLost` |
| *Event stream* | |
| `ChannelsCloseOnce`, `StreamsAreInOrder` | `StreamSpec => []NothingPanics`, `[]PagesHearInOrder` |
| *The parts together* | |
| `PartsKeepTheirSpecs`, `PlatformIsTyped` | `PlatformSpec` implies the specification of every part, and `[]PlatformTypeOK` |

Hardly one of the properties is inductive; each proof names what has to be added.

*Session control.* A draft could stop being
quiet if a request were past a Start's write while the row still says `draft`;
the channel map could outlive its owner if a run were at a point where it has
no channels; a write could be illegal if it had been validated against a status
the session never had. `IInv` therefore adds

* `RequestsMakeSense`: which steps belong to which operation, that a sender has
  channels, and that the row is no draft once a Start is about to launch;
* `RunsMakeSense`: a run between `InitChannels` and its end has channels, and
  one that is about to begin a round has a round left (which bounds `round`);
* `WritesAreValidated`: `past` has some status for which the write of each
  request under way is legal, and has the present one.

`NextInvariant` shows that each action preserves `IInv`, one lemma per conjunct.
Two facts about the whole module are lemmas of their own: no operation writes
`draft` (`NeverDraftAgain`), and the row changes only by `Write` and `Delete`
(`RowWrites`), which also gives the refinement: such a step is a `Change` or a
`Delete` of the ledger, any other one a stutter.

For a single orchestrator two things come on top. Its channels leave the map only by its
own end or by a Terminate that has written the row before (`RemovalsFollowEnd`), which
is why `InReach` holds until somebody ends the session. And what a page shows follows the
orchestrator because every event differs from the one before (`Changing`): React runs an
effect only when `sseStatus` changes, so an event that repeated the last one would go
unseen. `TabsFollow` adds that the last event published says whether the run waits
(`Told`), that a page awaits an answer or a row but not both (`InOrder`), that to a page
told of a waiting orchestrator and not late nothing is on its way that says otherwise
(`ShowsPause`), and it counts the events against the room there is.

*Discussions.* `Staged` says where each role stands at each point of the orchestrator,
`InOrder` that the history has everyone who was due in the phases before and those who
have spoken in this one, and nothing later; the refinement of `Transcript` is then one
lemma per way to speak. `Remembered` says of which round the last messages are, which
differs between a role that has spoken in this round and one that has not; `UserKept`
that what the user said is where the prompts take it from.

*Tasks.* The first lemmas of the module say what each operation makes of a task.
`CopiesArePast` is what makes the refinement inductive: between its read and its write a
call carries a copy that is in `past` and a call that is legal for it, whatever others
write in the meantime. `CompletedIsFinal` needs in addition that once it applies every
copy under way is of a completed task (`CopiesStayCompleted`), and `EditsSurviveReview`
that every copy, and every description still to be written, has the settled edit in it
(`EditsKept`). `RevisionReturnsTask` is about a validation that has the task to itself
from its first read on: `Undisturbed` says at each of its steps how far the task has come
and which calls are still to be made (`OnCourse`), since only its own steps leave such a
validation alone.

*Materials.* `IInv` adds to the types that ids are unique over all that is cached, was
uploaded or was removed (`IdsAreUnique`), that DELETEs under way are for removed
materials (`ErasesAreOfRemoved`) and that a reader that fills the cache has something
to fill it with. What is written is an upload (`WrittenAreUploads`), from which
`ListingsStoreNothing` follows. Reloading picks the rows in an order of their ids: `RanksAreDistinct`
and `FirstIsOneOfThem` are the facts about it. `CopyIsComplete` follows from
`CopiesProgress`: what a copy is owed (`Owed`), the files its parent had in the cache and,
unless its read failed, in the table, is in the new session, was deleted, is still in the
table before it is read, or is still to be added.

*Audit log.* `SlotsAreRecent` says which entry each slot holds on both sides of the ring's
position. For entries that come back from a failed flush, `AuditInv` says that the ring
holds no entry twice (`RingIsSound`), that no two flushes and no flush and the ring share
one (`BatchesAreApart`), that failures bound what is in the table (`RowsAreBounded`), and
that none is lost (`NoneIsLost`). What a failed flush puts back is a fold: `FoldIsPath`
turns it into a sequence of rings, along which `FoldIsSound` goes.

*Messages.* What is new since the start is in the cache and what is stored was said once
(`SaidOnce`); a listing in the middle of its query or of filling the cache shows a
beginning of what was stored (`NoGap`, `ListingIsSound`).

*Minutes.* The state is simple (`SaidInOrder`), what is computed from it is not.
`NthGoesThrough` says that counting the smaller ones numbers a finite set of places
from one without a gap, `AtIsInOrder` that reading a sequence there gives a sequence with
every chosen entry once and in order. Records come in the order of
their numbers and messages of one number in the order said (`RoundsRepeatAll`), whatever
the numbers are. `FirstsMerge` says what is left of two lists when each key's
first entry stays.

*Roles.* A request that binds the roles of a new session has bound, of those before its
place in the list, each at its first mention (`BoundAsAsked`), and is the only one to do so
(`BinderIsInPlace`). For `NewcomersSpeakLast` the places are the numbers below the count
(`Numbered`) wherever one request at a time worked on roles that were asked for once.

*Gateway and cache.* `EachIsMadeOnce` counts the bindings that have a model. The map of
the cache has exactly the elements of the list, which has none twice, and at most its
capacity of them (`CacheInv`). A caller that found an element under the first lock may
find it gone under the second, which is why nothing is assumed of it.

*Evaluation.* `PhasesAreInOrder` says who stands where in each phase,
`HistoryIsOrdered` that what was said is in the order of the phases, `MatrixIsOfScores`
that the matrix is computed once, at the end, of the scores of those who answered. Weighted sums go over sets
of criteria and experts: `SumOfEqual` says that a sum of equal scores is their number
times the score.

*Window.* `Compressed` is what all three strategies do to a conversation: what they drop
lies before what they keep, but for messages of the system, and a summary or a notice
takes its place. `IsSound` says that an end of the talk without gaps is there
(`EndIsWhole`), the last message (`LastIsThere`) and the prompt (`PromptIsFirst`), and is
kept by whatever is `Compressed`; `IsCovered` that while no summary fails nothing is lost.

*Event stream.* The events of a run are numbered: those that its bridge has accepted are
forwarded, in its hand, or the last ones in its buffer (`RunIsNumbered`). A page whose
buffer was never full has everything that was forwarded since its first event
(`KeepsUp`), which closes the gaps (`Gapless`).

Folds and recursive functions over sets and sequences (`FoldIsSound`, `SumOfEqual`,
`OnlyIsInOrder`, `LeastExists`) are reasoned about with the least counterexample: `WFMin`
of `WellFoundedInduction` is about a set and needs no operator as a parameter.

Only model-checked: liveness, since fairness and ENABLED are beyond the prover
(`RequestsReturn`, `RunsEndOrWait`, `DiscussionEnds`, `ValidationsEnd`, `StreamsEnd`,
`CancelledEvaluationsEnd`). The findings are counterexamples of TLC.

## 6. What is not modelled, and why

* *Timestamps* of sessions and tasks (every Resume overwrites `started_at`; nothing
  reads it back but a page), and a role's model override.
* *Evaluation's configuration*: neither host sets options, criteria or a critic, so in
  the program as it stands the matrix is empty; the module covers the others as well.
* *The 60-second limit of ExpertSpeak* (`nodes.go`): after the panel's 30 seconds
  each goroutine only takes locks and pushes with a limit of a second, so it is
  never reached. *Panics of role goroutines*: the providers return an error or an
  answer. *Simulated mode* (no model configured) is the case in which every call
  answers.
* *Reconnection of the stream* and its `error` events, beyond `Refresh`.
* *ON DELETE CASCADE* from sessions to materials, and the desktop host's
  memory-only material store, which has no table to disagree with.
* *Text*: the scoring by which AutoAssign picks an agent, the extraction of tasks from
  minutes, the minutes' builder and exports, prompts, the retriever, token counts. They
  compute a value from a value and keep no state.
* *Operations without a caller* outside tests: ClearBySession, RefreshFromDB, the
  registry's Remove and RemoveWithCheck, BroadcastExcept, the stream merger.
* *The end of the process at shutdown*: entries that a failed flush puts back into the
  ring go with it, and the flush uses the context with which open streams were drained.
* *The desktop host's event forwarder*; *broadcasts of task events* (the events of
  `EventStream` are those of runs).
* *Graph pool*: never filled. *Users, roles, workspaces, metrics, logging*: one query or
  one format each, without shared state. *Rate limiter*: a library's limiter per
  address. *Agents and worker*: loops around model calls without state of their own.

## 7. What is left

1. `SessionControl` and `EventStream` composed, so that a page's status depends on a
   stream that really drops events; today `SessionControl` gives its page room for all,
   and `WaitersAreShown` says how much room that takes.
2. Two roles of one name in `Discussion` (last speeches are kept by name).
3. What two orchestrators of one session still guarantee a page, beyond
   `NoChannelsAreOrphaned`.
