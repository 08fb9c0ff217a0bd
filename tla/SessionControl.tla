--------------------------- MODULE SessionControl ---------------------------
(***************************************************************************)
(* One session under the control of its users: the session service         *)
(* (internal/session/service.go), the HTTP and desktop hosts that call it  *)
(* and start orchestrators (internal/api/handler_session.go,               *)
(* cmd/desktop/app.go), and the orchestrators as far as pausing, resuming  *)
(* and ending go (internal/orchestrator).                                  *)
(*                                                                         *)
(* Every request runs in a goroutine of its own, and so does every         *)
(* orchestrator, so an operation is cut at each point where another one    *)
(* can step in: after the row is read, after it is written, after the      *)
(* channel map is read, while a signal is being sent.  Sessions share no   *)
(* state with one another: the row and the channel map are keyed by the    *)
(* session's id.                                                           *)
(***************************************************************************)
EXTENDS SessionState, Naturals, FiniteSets, Sequences

CONSTANTS
  Clients,      \* requests that can be in progress at the same time
  Tabs,         \* the clients that are browser tabs: they offer only the buttons
                \* for the status they show, and none while they wait
  Runs,         \* orchestrator goroutines, one per successful Start (bound)
  Ops,          \* the operations the clients use
  Hosts,        \* the programs that may serve the session: "api", the HTTP
                \* server, and "desktop", the Wails application
  MaxRounds,    \* max_rounds of the session
  FeedCap,      \* events that can be on their way to a tab (bound); 0 when its
                \* event stream is not connected
  DBMayFail,    \* may a query fail?
  MayPanic      \* may an orchestrator panic?

ChanCap == 1    \* capacity of InterruptCh and of ResumeCh

Operations == {"start", "pause", "resume", "terminate", "archive", "delete"}

ASSUME ConstantsAssumption ==
  /\ Tabs \subseteq Clients
  /\ Clients \cap Runs = {}
  /\ Ops \subseteq Operations
  /\ Hosts \subseteq {"api", "desktop"}
  /\ MaxRounds \in Nat \ {0}
  /\ FeedCap \in Nat
  /\ DBMayFail \in BOOLEAN
  /\ MayPanic \in BOOLEAN

\* Pages are modelled on the HTTP host, where the service broadcasts nothing itself
\* (SetHubRegistry is never called there): a tab hears the orchestrator only.  The
\* window of the desktop host, to which app.go:430-457 forwards the hub's events, the
\* service's among them, is left out.
ASSUME TabsAreBrowsers == Hosts = {"api"} \/ Tabs = {}

None == "none"

\* NoneIsNoRun keeps the absent channel apart from the channels, which are
\* named after the run that made them.
ASSUME NoneIsNoRun == None \notin Runs

VARIABLES
  host,         \* the program that serves the session
  status,       \* sessions.status in the database, or Deleted
  past,         \* history: every status the row has had
  chans,        \* Service.runtimeChans[id]: the channels in the map, or None
  interruptCh,  \* signals buffered in InterruptCh, per pair of channels
  resumeCh,     \* signals buffered in ResumeCh, per pair of channels
  req,          \* the service call each client or run is in
  page,         \* what each tab shows, and what is on its way to it (Pages)
  pc,           \* where each orchestrator goroutine is
  ch,           \* the channels each orchestrator was given
  round,        \* rounds (or phases) each orchestrator has begun
  progressCh,   \* is each orchestrator's progress channel open?
  outcome,      \* how Execute ended
  alarm         \* runs for which the desktop host showed session.error

row   == <<host, status, past>>
sigs  == <<interruptCh, resumeCh>>
goros == <<pc, ch, round, progressCh, outcome, alarm>>
vars  == <<row, chans, sigs, req, page, goros>>

Actors == Clients \cup Runs

Idle == [op |-> None, step |-> "idle", ch |-> None]

Steps == {"idle", "write", "launch", "lookup", "send", "remove"}

Requests == [op : Operations \cup {None}, step : Steps, ch : Runs \cup {None}]

\* A page shows a status once the row was read.  heard is the last status its event
\* stream brought, feed the ones on their way, stream whether the server has
\* subscribed it; answer is the button's call: awaited, or succeeded with a status;
\* read is the row it asked for, or the status in it.  late is a history: when the
\* last event was published an answer or a row was on its way, and it was not shown
\* before that event.
Pages ==
  [status : Statuses \cup {None}, heard : Statuses \cup {None}, feed : Seq(Statuses),
   stream : BOOLEAN, answer : Statuses \cup {None, "awaited"},
   read : Statuses \cup {None, "asked"}, late : BOOLEAN]

\* A page that was just opened, or loaded again.
Loading ==
  [status |-> None, heard |-> None, feed |-> <<>>, stream |-> FALSE,
   answer |-> None, read |-> "asked", late |-> FALSE]

PCs == {"unborn", "launched", "loaded", "active", "waiting", "speaking",
        "returned", "terminating", "exiting", "done", "panicked"}

\* A run holds channels between InitChannels and its deferred RemoveChannels.
Holding == {"active", "waiting", "speaking", "returned", "terminating", "exiting"}

\* A goroutine that was started and has not ended.
Live == Holding \cup {"launched", "loaded"}

\* The status an operation validates and writes.
Target(op) ==
  CASE op \in {"start", "resume"} -> "running"
    [] op = "pause" -> "paused"
    [] op = "terminate" -> "ended"
    [] op = "archive" -> "archived"

-----------------------------------------------------------------------------
Init ==
  /\ host \in Hosts
  /\ status = "draft"
  /\ past = {"draft"}
  /\ chans = None
  /\ interruptCh = [r \in Runs |-> 0]
  /\ resumeCh = [r \in Runs |-> 0]
  /\ req = [a \in Actors |-> Idle]
  /\ page = [t \in Tabs |-> Loading]
  /\ pc = [r \in Runs |-> "unborn"]
  /\ ch = [r \in Runs |-> None]
  /\ round = [r \in Runs |-> 0]
  /\ progressCh = [r \in Runs |-> "none"]
  /\ outcome = [r \in Runs |-> None]
  /\ alarm = {}

-----------------------------------------------------------------------------
(* Requests.                                                               *)

\* The buttons of SessionControls.tsx for the status the tab shows.  They are disabled
\* while an answer is awaited and not shown while the row is.
Buttons(shown) ==
  CASE shown = "draft" -> {"start"}
    [] shown = "running" -> {"pause", "terminate"}
    [] shown = "paused" -> {"resume", "terminate"}
    [] OTHER -> {}

MayCall(c, op) ==
  /\ req[c] = Idle
  /\ op \in Ops
  /\ op = "archive" => host = "desktop"         \* no HTTP route archives
  /\ c \in Tabs =>
       /\ op \in Buttons(page[c].status)
       /\ page[c].answer = None /\ page[c].read = None

Return(a) == req' = [req EXCEPT ![a] = Idle]

\* The page that made the call, unless it was loaded again, is sent the answer.
Answer(a, answer) ==
  page' = IF a \in Tabs /\ page[a].answer = "awaited"
          THEN [page EXCEPT ![a].answer = answer] ELSE page

\* The call returns: its answer leaves for the page.  One that failed changes nothing
\* there.
Succeed(a) == Return(a) /\ Answer(a, Target(req[a].op))

Fail(a) == Return(a) /\ Answer(a, None)

Goto(a, step) == req' = [req EXCEPT ![a].step = step] /\ UNCHANGED page

\* Mutants of Accept: the status is not validated; the orchestrator is started
\* before the row is written.
AcceptUnchecked(a, op) ==
  /\ status # Deleted
  /\ req' = [req EXCEPT ![a] =
       [op |-> op, step |-> IF op = "pause" THEN "lookup" ELSE "write", ch |-> None]]

AcceptLaunchFirst(a, op) ==
  /\ status # Deleted
  /\ ValidateTransition(status, Target(op))
  /\ req' = [req EXCEPT ![a] =
       [op |-> op, step |-> CASE op = "pause" -> "lookup"
                              [] op = "start" -> "launch"
                              [] OTHER -> "write", ch |-> None]]

\* GetByID and ValidateTransition, with which every operation but Delete
\* begins.  A refused call changes nothing.  Pause signals the orchestrator
\* before it writes the row, the other operations write the row first.
Accept(a, op) ==
  /\ status # Deleted
  /\ ValidateTransition(status, Target(op))
  /\ req' = [req EXCEPT ![a] =
       [op |-> op, step |-> IF op = "pause" THEN "lookup" ELSE "write", ch |-> None]]

\* The bound on orchestrators: every Start under way will find a run.
RoomToStart ==
  Cardinality({a \in Actors : req[a].op = "start"})
    < Cardinality({r \in Runs : pc[r] = "unborn"})

Call(c) ==
  /\ \E op \in Operations \ {"delete"} :
       /\ MayCall(c, op)
       /\ op = "start" => RoomToStart
       /\ Accept(c, op)
  /\ page' = IF c \in Tabs THEN [page EXCEPT ![c].answer = "awaited"] ELSE page
  /\ UNCHANGED <<row, chans, sigs, goros>>

\* Delete removes the row and nothing else.
Delete(c) ==
  /\ MayCall(c, "delete")
  /\ status # Deleted
  /\ status' = Deleted
  /\ UNCHANGED <<host, past, chans, sigs, req, page, goros>>

\* The page is loaded again: it asks for the row and for a new event stream.  (It
\* also asks for the row after it has changed the roles of a draft.)
Refresh(t) ==
  /\ page' = [page EXCEPT ![t] = Loading]
  /\ UNCHANGED <<row, chans, sigs, req, goros>>

\* The server subscribes the page to the hub.
Subscribe(t) ==
  /\ ~page[t].stream
  /\ page' = [page EXCEPT ![t].stream = TRUE]
  /\ UNCHANGED <<row, chans, sigs, req, goros>>

\* GetByID for the page; a read that fails is tried again.
ReadRow(t) ==
  /\ page[t].read = "asked"
  /\ status \in Statuses
  /\ page' = [page EXCEPT ![t].read = status]
  /\ UNCHANGED <<row, chans, sigs, req, goros>>

\* fetchSession goes on with the row it awaited, whatever was heard since.
ShowRow(t) ==
  /\ page[t].read \in Statuses
  /\ page' = [page EXCEPT ![t].status = page[t].read, ![t].read = None,
                          ![t].late = @ /\ page[t].feed = <<>>]
  /\ UNCHANGED <<row, chans, sigs, req, goros>>

\* handleAction goes on after the answer it awaited, whatever was heard since; the
\* page of an ended session then asks for the row.
ShowAnswer(t) ==
  LET ended == page[t].answer = "ended" IN
  /\ page[t].answer \in Statuses
  /\ page' = [page EXCEPT ![t].status = page[t].answer, ![t].answer = None,
                          ![t].read = IF ended THEN "asked" ELSE @,
                          ![t].late = @ /\ (ended \/ page[t].feed = <<>>)]
  /\ UNCHANGED <<row, chans, sigs, req, goros>>

\* Bridge.Push, and Hub.Broadcast, which skips a subscriber whose buffer is full.
Publish(event) ==
  page' = [t \in Tabs |->
    [page[t] EXCEPT !.feed = IF page[t].stream /\ Len(@) < FeedCap THEN Append(@, event) ELSE @,
                    !.late = page[t].answer \in Statuses \/ page[t].read # None]]

\* An event arrives at the page, which takes the status over when it differs
\* from the one it heard last (the effect depends on sseStatus).
Deliver(t) ==
  /\ page[t].feed # <<>>
  /\ LET event == Head(page[t].feed) IN
       page' = [page EXCEPT ![t].status = IF event = page[t].heard THEN @ ELSE event,
                            ![t].heard = event, ![t].feed = Tail(@)]
  /\ UNCHANGED <<row, chans, sigs, req, goros>>

Follow(t) == Subscribe(t) \/ ReadRow(t) \/ ShowRow(t) \/ ShowAnswer(t) \/ Deliver(t)

\* UpdateStatus: UPDATE ... WHERE id = $1, whatever the row holds by now.
UpdateStatus(op) ==
  IF status = Deleted
  THEN UNCHANGED row
  ELSE /\ Target(op) \in StorableStatuses
       /\ status' = Target(op)
       /\ past' = past \cup {Target(op)}
       /\ UNCHANGED host

\* What each operation does once the row is written.
Write(a) ==
  LET op == req[a].op IN
  /\ req[a].step = "write"
  /\ UpdateStatus(op)
  /\ CASE op = "start" -> Goto(a, "launch")
       [] op = "resume" -> Goto(a, "lookup")
       [] op = "terminate" -> Goto(a, "remove")
       [] OTHER -> Succeed(a)
  /\ UNCHANGED <<chans, sigs, goros>>

\* Mutant of WriteFails: Terminate goes on after a failed UPDATE.
WriteErrorIgnored(a) ==
  /\ req[a].step = "write"
  /\ DBMayFail
  /\ IF req[a].op = "terminate" THEN Goto(a, "remove") ELSE Fail(a)
  /\ UNCHANGED <<row, chans, sigs, goros>>

\* The UPDATE fails, or the table's CHECK constraint refuses the status.
WriteFails(a) ==
  /\ req[a].step = "write"
  /\ \/ DBMayFail
     \/ status # Deleted /\ Target(req[a].op) \notin StorableStatuses
  /\ Fail(a)
  /\ UNCHANGED <<row, chans, sigs, goros>>

\* The host starts an orchestrator after every Start that succeeds, also one
\* that found the session running or paused.
Launch(a) ==
  /\ req[a].step = "launch"
  /\ \E r \in Runs :
       /\ pc[r] = "unborn"
       /\ pc' = [pc EXCEPT ![r] = "launched"]
  /\ Succeed(a)
  /\ UNCHANGED <<row, chans, sigs, ch, round, progressCh, outcome, alarm>>

\* GetChannels.  Without channels there is nobody to signal.
Lookup(a) ==
  /\ req[a].step = "lookup"
  /\ IF chans # None
     THEN req' = [req EXCEPT ![a].step = "send", ![a].ch = chans] /\ UNCHANGED page
     ELSE IF req[a].op = "pause" THEN Goto(a, "write") ELSE Succeed(a)
  /\ UNCHANGED <<row, chans, sigs, goros>>

Send(a) ==
  LET c == req[a].ch IN
  /\ req[a].step = "send"
  /\ \/ /\ req[a].op = "pause"
        /\ interruptCh[c] < ChanCap
        /\ interruptCh' = [interruptCh EXCEPT ![c] = @ + 1]
        /\ UNCHANGED resumeCh
        /\ Goto(a, "write")
     \/ /\ req[a].op = "resume"
        /\ resumeCh[c] < ChanCap
        /\ resumeCh' = [resumeCh EXCEPT ![c] = @ + 1]
        /\ UNCHANGED interruptCh
        /\ Succeed(a)
  /\ UNCHANGED <<row, chans, goros>>

\* Mutant of SendTimeout: the send has no timeout.
SendBlocks(a) == req[a].step = "send" /\ FALSE

\* time.After(5s): the buffer was full and nobody was about to take from it.
\* An orchestrator that stands at the receive takes the signal long before
\* five seconds are over; one that is in a round may not come back in time.
\* The call fails; a Resume has already written the row.
SendTimeout(a) ==
  LET c == req[a].ch
      Receiving(at) == \E r \in Runs : ch[r] = c /\ pc[r] = at
  IN
  /\ req[a].step = "send"
  /\ \/ req[a].op = "pause" /\ interruptCh[c] = ChanCap /\ ~Receiving("active")
     \/ req[a].op = "resume" /\ resumeCh[c] = ChanCap /\ ~Receiving("waiting")
  /\ Fail(a)
  /\ UNCHANGED <<row, chans, sigs, goros>>

\* Terminate ends with graphPool.Remove, which finds nothing because no code
\* adds to the pool, and RemoveChannels.
Remove(a) ==
  /\ req[a].step = "remove"
  /\ chans' = None
  /\ Succeed(a)
  /\ UNCHANGED <<row, sigs, goros>>

Serve(a) ==
  \/ Write(a) \/ WriteFails(a) \/ Launch(a)
  \/ Lookup(a) \/ Send(a) \/ SendTimeout(a) \/ Remove(a)

-----------------------------------------------------------------------------
(* Orchestrators.  The context given to a run is cancelled only by the run *)
(* itself when it is over, so no branch on ctx.Done() is taken before.     *)

Move(r, from, to) == pc[r] = from /\ pc' = [pc EXCEPT ![r] = to]

\* The desktop host reports an error or a panic of the goroutine.
Report(r) == alarm' = IF host = "desktop" THEN alarm \cup {r} ELSE alarm

\* GetWithRoles.
Load(r) ==
  /\ status # Deleted
  /\ Move(r, "launched", "loaded")
  /\ UNCHANGED <<row, chans, sigs, req, page, ch, round, progressCh, outcome, alarm>>

\* startOrchestration returns before anything is set up: no Terminate.
LoadFails(r) ==
  /\ status = Deleted \/ DBMayFail
  /\ Move(r, "launched", "done")
  /\ Report(r)
  /\ UNCHANGED <<row, chans, sigs, req, page, ch, round, progressCh, outcome>>

\* InitChannels returns the channels in the map, or makes a pair.
InitChannels(r) ==
  /\ Move(r, "loaded", "active")
  /\ IF chans = None
     THEN chans' = r /\ ch' = [ch EXCEPT ![r] = r]
     ELSE ch' = [ch EXCEPT ![r] = chans] /\ UNCHANGED chans
  /\ progressCh' = [progressCh EXCEPT ![r] = "open"]
  /\ UNCHANGED <<row, sigs, req, page, round, outcome, alarm>>

\* Mutant of Interrupted: CheckInterrupt does not push session.paused.
InterruptedSilently(r) ==
  /\ Move(r, "active", "waiting")
  /\ interruptCh[ch[r]] > 0
  /\ interruptCh' = [interruptCh EXCEPT ![ch[r]] = @ - 1]
  /\ UNCHANGED <<row, chans, resumeCh, req, page, ch, round, progressCh, outcome, alarm>>

\* CheckInterrupt finds a signal and waits for the one that resumes it.
Interrupted(r) ==
  /\ Move(r, "active", "waiting")
  /\ interruptCh[ch[r]] > 0
  /\ interruptCh' = [interruptCh EXCEPT ![ch[r]] = @ - 1]
  /\ Publish("paused")
  /\ UNCHANGED <<row, chans, resumeCh, req, ch, round, progressCh, outcome, alarm>>

\* Mutant of BeginRound: the round is not counted.
RoundNotCounted(r) == r \in Runs /\ UNCHANGED round

\* IncrementRound, and the round (or the phase) begins.
BeginRound(r) == round' = [round EXCEPT ![r] = @ + 1]

\* CheckInterrupt finds no signal.
NotInterrupted(r) ==
  /\ Move(r, "active", "speaking")
  /\ interruptCh[ch[r]] = 0
  /\ BeginRound(r)
  /\ UNCHANGED <<row, chans, sigs, req, page, ch, progressCh, outcome, alarm>>

Resumed(r) ==
  /\ Move(r, "waiting", "speaking")
  /\ resumeCh[ch[r]] > 0
  /\ resumeCh' = [resumeCh EXCEPT ![ch[r]] = @ - 1]
  /\ BeginRound(r)
  /\ Publish("running")
  /\ UNCHANGED <<row, chans, interruptCh, req, ch, progressCh, outcome, alarm>>

\* Mutant of Continue: one round more than max_rounds.
ContinueOneMore(r) ==
  /\ round[r] <= MaxRounds
  /\ Move(r, "speaking", "active")
  /\ UNCHANGED <<row, chans, sigs, req, page, ch, round, progressCh, outcome, alarm>>

\* The round ends and the discussion goes on.
Continue(r) ==
  /\ round[r] < MaxRounds
  /\ Move(r, "speaking", "active")
  /\ UNCHANGED <<row, chans, sigs, req, page, ch, round, progressCh, outcome, alarm>>

\* The discussion is over: Execute pushes "done", closes progressCh and
\* returns.  The bridge stops with the run, so "done" may not get through.
Conclude(r) ==
  /\ Move(r, "speaking", "returned")
  /\ progressCh' = [progressCh EXCEPT ![r] = "closed"]
  /\ outcome' = [outcome EXCEPT ![r] = "ok"]
  /\ Publish("ended") \/ UNCHANGED page
  /\ UNCHANGED <<row, chans, sigs, req, ch, round, alarm>>

\* Execute returns an error, from InitRoleContexts before the first round or
\* from a round; progressCh stays open.
ExecuteFails(r) ==
  /\ pc[r] = "speaking" \/ (pc[r] = "active" /\ round[r] = 0)
  /\ pc' = [pc EXCEPT ![r] = "returned"]
  /\ outcome' = [outcome EXCEPT ![r] = "error"]
  /\ UNCHANGED <<row, chans, sigs, req, page, ch, round, progressCh, alarm>>

\* Mutant of Unwind: RemoveChannels is called at the end instead of deferred.
UnwindKeepsChannels(r) ==
  /\ pc' = [pc EXCEPT ![r] = "panicked"]
  /\ Report(r)
  /\ UNCHANGED chans

\* A panic unwinds startOrchestration: RemoveChannels is deferred, Terminate
\* is not, and the goroutine's recover only logs.
Unwind(r) ==
  /\ pc' = [pc EXCEPT ![r] = "panicked"]
  /\ chans' = None
  /\ Report(r)

Panic(r) ==
  /\ MayPanic
  /\ pc[r] = "speaking"
  /\ Unwind(r)
  /\ outcome' = [outcome EXCEPT ![r] = "panic"]
  /\ UNCHANGED <<row, sigs, req, page, ch, round, progressCh>>

\* The desktop host closes progressCh itself, and closing it twice panics.
CloseTwice(r) ==
  /\ host = "desktop"
  /\ pc[r] = "returned"
  /\ progressCh[r] = "closed"
  /\ Unwind(r)
  /\ UNCHANGED <<row, sigs, req, page, ch, round, progressCh, outcome>>

\* The HTTP host ends the session however Execute ended; the desktop host
\* only after an error.  The call goes through the same service operation as
\* a user's Terminate.
AutoTerminate(r) ==
  /\ pc[r] = "returned"
  /\ \/ host = "api" /\ UNCHANGED progressCh
     \/ /\ host = "desktop"
        /\ progressCh[r] = "open"
        /\ progressCh' = [progressCh EXCEPT ![r] = "closed"]
  /\ \/ /\ Accept(r, "terminate")
        /\ pc' = [pc EXCEPT ![r] = "terminating"]
     \/ /\ status = Deleted \/ ~ValidateTransition(status, "ended") \/ DBMayFail
        /\ pc' = [pc EXCEPT ![r] = "exiting"]
        /\ UNCHANGED req
  /\ UNCHANGED <<row, chans, sigs, page, ch, round, outcome, alarm>>

\* startOrchestration returns: the deferred RemoveChannels deletes whatever
\* channels the session has in the map.
Exit(r) ==
  /\ pc[r] = "exiting" \/ (pc[r] = "terminating" /\ req[r] = Idle)
  /\ pc' = [pc EXCEPT ![r] = "done"]
  /\ chans' = None
  /\ IF outcome[r] = "error" THEN Report(r) ELSE UNCHANGED alarm
  /\ UNCHANGED <<row, sigs, req, page, ch, round, progressCh, outcome>>

Orchestrate(r) ==
  \/ Load(r) \/ LoadFails(r) \/ InitChannels(r)
  \/ Interrupted(r) \/ NotInterrupted(r) \/ Resumed(r)
  \/ Continue(r) \/ Conclude(r) \/ ExecuteFails(r) \/ Panic(r)
  \/ CloseTwice(r) \/ AutoTerminate(r) \/ Exit(r)

-----------------------------------------------------------------------------
Next ==
  \/ \E c \in Clients : Call(c) \/ Delete(c)
  \/ \E t \in Tabs : Refresh(t) \/ Follow(t)
  \/ \E a \in Actors : Serve(a)
  \/ \E r \in Runs : Orchestrate(r)

Spec == Init /\ [][Next]_vars

\* The scheduler runs every goroutine that can run, so a request that was
\* accepted and an orchestrator that was started take their next step.  Users
\* owe nothing.
Fairness ==
  /\ \A a \in Actors : WF_vars(Serve(a))
  /\ \A r \in Runs : WF_vars(Orchestrate(r))

FairSpec == Spec /\ Fairness

-----------------------------------------------------------------------------
(* Properties.                                                             *)

TypeOK ==
  /\ host \in Hosts
  /\ status \in Statuses \cup {Deleted}
  /\ past \subseteq Statuses
  /\ chans \in Runs \cup {None}
  /\ interruptCh \in [Runs -> 0..ChanCap]
  /\ resumeCh \in [Runs -> 0..ChanCap]
  /\ req \in [Actors -> Requests]
  /\ page \in [Tabs -> Pages]
  /\ pc \in [Runs -> PCs]
  /\ ch \in [Runs -> Runs \cup {None}]
  /\ round \in [Runs -> 0..MaxRounds]
  /\ progressCh \in [Runs -> {"none", "open", "closed"}]
  /\ outcome \in [Runs -> {None, "ok", "error", "panic"}]
  /\ alarm \subseteq Runs

\* While a session is a draft nothing runs on its behalf, nobody can signal
\* it and no Start is past its write: a client that sees "draft" may change
\* roles and materials without an orchestrator reading them meanwhile.
DraftIsQuiet ==
  status = "draft" =>
    /\ chans = None
    /\ \A r \in Runs : pc[r] = "unborn"
    /\ \A c \in Clients : req[c].step # "launch"

\* The channel map never keeps the channels of an orchestrator that is gone,
\* however its goroutine ended and whoever else shared or removed them: a
\* later Pause would signal nobody and later runs would inherit its signals.
NoOrphanChannels == chans # None => pc[chans] \in Holding

\* Whatever the interleaving, a status is written only if some status the
\* session had before allows it.
Ledger == INSTANCE SessionLedger
LedgerSpec == Ledger!Spec

\* Only a Terminate, or the row's deletion, puts an orchestrator out of reach:
\* while the session can still be paused or resumed, the channels in the map are
\* the ones its orchestrator listens to.  (For a single orchestrator.)
InReach ==
  \A r \in Runs :
    pc[r] \in {"active", "waiting", "speaking"} /\ chans # ch[r]
      => "ended" \in past \/ status = Deleted

\* A page that follows its event stream never hides a waiting orchestrator behind
\* the wrong buttons: once every event has arrived, it shows "paused", and offers
\* to resume, whenever an orchestrator it can reach waits for a Resume that
\* nobody has sent.  The row may say otherwise: a second Pause leaves a signal
\* behind that stops the orchestrator after the row went back to "running".
\* Not so a page that shows an answer or a row which the event overtook (late): the
\* answer to a Resume, shown after the next pause was heard, leaves it on "running".
\* (For a single orchestrator and a stream that drops nothing; a page whose stream
\* was opened after the orchestrator stopped has heard nothing.)
WaiterIsShown ==
  \A t \in Tabs, r \in Runs :
    /\ pc[r] = "waiting" /\ ch[r] = chans /\ resumeCh[ch[r]] = 0
    /\ page[t].feed = <<>> /\ page[t].heard # None /\ ~page[t].late
    => page[t].status = "paused"

\* Every request is answered, even when the orchestrator it signals is dead,
\* stuck or was never started.
RequestsReturn == \A c \in Clients : req[c] # Idle ~> req[c] = Idle

\* An orchestrator ends unless somebody paused it and nobody resumed it.
RunsEndOrWait ==
  \A r \in Runs : pc[r] \in Live ~> pc[r] \in {"waiting", "done", "panicked"}

-----------------------------------------------------------------------------
(* What the documents and comments of the project say of a session.  The    *)
(* code does otherwise in the runs named finding_*.                         *)

\* The state table lets an ended session become archived and nothing else.  A
\* Pause or Resume that read the row before the session ended still writes it.
EndedIsFinal ==
  [][status = "ended" => status' \in {"ended", "archived", Deleted}]_status

\* Terminating a session stops its orchestrator.  One that waits for a Resume
\* keeps waiting: the channels are no longer in the map.
TerminatedRunsStop ==
  status = "ended" ~> \A r \in Runs : pc[r] \notin Live

\* The desktop host reports no error for a discussion that ended well.
NoFalseAlarm == \A r \in alarm : outcome[r] # "ok"
=============================================================================
