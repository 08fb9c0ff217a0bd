---------------------------- MODULE EventStream -----------------------------
(***************************************************************************)
(* The events of one session on the HTTP host: from orchestrators through  *)
(* their bridges (internal/stream/bridge.go) and the session's hub         *)
(* (internal/stream/hub.go) to the streams of its pages                    *)
(* (SessionHandler.Stream), until the server shuts down.                   *)
(*                                                                         *)
(* Every buffer is bounded and nobody waits long for room in one: a push   *)
(* gives up after a second, a broadcast at once.  Runs may share the hub.  *)
(* The registry forgets the hub when it is cleaned up, so that whoever     *)
(* asks afterwards gets a new one, while others still hold the old.        *)
(***************************************************************************)
EXTENDS Naturals, Sequences

CONSTANTS
  Tabs,         \* connections to the stream of the session
  Runs,         \* orchestrators of the session
  Pushes,       \* events each of them pushes (bound)
  BridgeCap,    \* buffer of a bridge (128)
  StreamCap     \* buffer of a subscriber (64)

ASSUME StreamAssumption ==
  /\ Pushes \in Nat
  /\ BridgeCap \in Nat \ {0}
  /\ StreamCap \in Nat \ {0}

\* The hub that the server starts with, and one made after the cleanup.
Hubs == {"first", "second"}

VARIABLES
  stage,        \* the server: up, draining its connections, cleaned up
  registered,   \* the hubs in the registry: none or one
  closedHubs,   \* Hub.closed
  tab,          \* each SessionHandler.Stream
  closing,      \* how often each tab's CloseCh was closed
  run,          \* each orchestrator and its bridge
  panicked      \* was a channel closed twice, or a closed one sent to?

streamVars == <<stage, registered, closedHubs, tab, closing, run, panicked>>

\* buffer and heard are the events in the channel and those written to the
\* client; ended: the channel of events is closed; full is a history: has the
\* buffer ever been full when an event came?
NoTab == [step |-> "none", hub |-> "first", buffer |-> <<>>, heard |-> <<>>,
          ended |-> FALSE, full |-> FALSE]

\* buffer, and the event the bridge's goroutine is about to broadcast; events of a
\* run are numbered as the buffer accepts them.
NoRun == [step |-> "none", hub |-> "first", buffer |-> <<>>, hand |-> <<>>,
          bridge |-> "off", pushed |-> 0, accepted |-> 0]

StreamInit ==
  /\ stage = "up"
  /\ registered = {}
  /\ closedHubs = {}
  /\ tab = [t \in Tabs |-> NoTab]
  /\ closing = [t \in Tabs |-> 0]
  /\ run = [r \in Runs |-> NoRun]
  /\ panicked = FALSE

\* GetOrCreate
Hub == IF registered # {} THEN CHOOSE h \in registered : TRUE
       ELSE IF "first" \in closedHubs THEN "second" ELSE "first"

Subscribers(h) == {t \in Tabs : tab[t].step = "open" /\ tab[t].hub = h}

-----------------------------------------------------------------------------
(* SessionHandler.Stream.                                                  *)

\* A page connects: its handler gets the hub, and subscribes in a second step.
Connect(t) ==
  /\ stage = "up"
  /\ tab[t].step = "none"
  /\ registered' = {Hub}
  /\ tab' = [tab EXCEPT ![t].step = "joining", ![t].hub = Hub]
  /\ UNCHANGED <<stage, closedHubs, closing, run, panicked>>

Subscribe(t) ==
  /\ tab[t].step = "joining"
  /\ tab' = [tab EXCEPT ![t].step = "open"]
  /\ UNCHANGED <<stage, registered, closedHubs, closing, run, panicked>>

\* writeSSEEvent: also of what is left in a closed channel.
WriteEvent(t) ==
  /\ tab[t].step \in {"open", "closed"}
  /\ tab[t].buffer # <<>>
  /\ tab' = [tab EXCEPT ![t].buffer = Tail(@), ![t].heard = Append(@, Head(tab[t].buffer))]
  /\ UNCHANGED <<stage, registered, closedHubs, closing, run, panicked>>

\* The handler returns because the page is gone.  Unsubscribe closes CloseCh and
\* forgets the subscriber, if the hub still knows it.
Disconnect(t) ==
  /\ tab[t].step = "open"
  /\ closing' = [closing EXCEPT ![t] = @ + 1]
  /\ panicked' = (panicked \/ closing[t] > 0)
  /\ tab' = [tab EXCEPT ![t].step = "left"]
  /\ UNCHANGED <<stage, registered, closedHubs, run>>

\* It returns because CloseCh or the channel of events is closed, or since the
\* page is gone; the hub knows the subscriber no more.
Leave(t) ==
  /\ tab[t].step = "closed"
  /\ tab' = [tab EXCEPT ![t].step = "left"]
  /\ UNCHANGED <<stage, registered, closedHubs, closing, run, panicked>>

-----------------------------------------------------------------------------
(* Orchestrators and their bridges.                                        *)

StartRun(r) ==
  /\ run[r].step = "none"
  /\ registered' = {Hub}
  /\ run' = [run EXCEPT ![r].step = "running", ![r].hub = Hub, ![r].bridge = "on"]
  /\ UNCHANGED <<stage, closedHubs, tab, closing, panicked>>

Push(r) ==
  /\ run[r].step = "running"
  /\ run[r].pushed < Pushes
  /\ Len(run[r].buffer) < BridgeCap
  /\ run' = [run EXCEPT ![r].pushed = @ + 1, ![r].accepted = @ + 1,
                        ![r].buffer = Append(@, [run |-> r, no |-> run[r].accepted + 1])]
  /\ UNCHANGED <<stage, registered, closedHubs, tab, closing, panicked>>

\* After a second without room the event is dropped.
PushTimesOut(r) ==
  /\ run[r].step = "running"
  /\ run[r].pushed < Pushes
  /\ Len(run[r].buffer) = BridgeCap
  /\ run' = [run EXCEPT ![r].pushed = @ + 1]
  /\ UNCHANGED <<stage, registered, closedHubs, tab, closing, panicked>>

\* The orchestrator returns, and its context is cancelled.
EndRun(r) ==
  /\ run[r].step = "running"
  /\ run' = [run EXCEPT ![r].step = "over"]
  /\ UNCHANGED <<stage, registered, closedHubs, tab, closing, panicked>>

TakeEvent(r) ==
  /\ run[r].bridge = "on"
  /\ run[r].hand = <<>>
  /\ run[r].buffer # <<>>
  /\ run' = [run EXCEPT ![r].hand = <<Head(run[r].buffer)>>, ![r].buffer = Tail(@)]
  /\ UNCHANGED <<stage, registered, closedHubs, tab, closing, panicked>>

\* Mutant of Reached: an event for which there is no room takes the place of the
\* last one.
ReachedReplacing(t, event) ==
  [tab[t] EXCEPT
     !.buffer = IF Len(@) < StreamCap THEN Append(@, event)
                ELSE Append(SubSeq(@, 1, Len(@) - 1), event)]

\* A subscriber whose buffer is full does not get the event.
Reached(t, event) ==
  IF Len(tab[t].buffer) < StreamCap
  THEN [tab[t] EXCEPT !.buffer = Append(@, event)]
  ELSE [tab[t] EXCEPT !.full = TRUE]

\* forward: Broadcast to all subscribers of the hub, under its lock.
Forward(r) ==
  LET to == Subscribers(run[r].hub) IN
  /\ run[r].hand # <<>>
  /\ tab' = [t \in Tabs |-> IF t \in to THEN Reached(t, Head(run[r].hand)) ELSE tab[t]]
  /\ panicked' = (panicked \/ \E t \in to : tab[t].ended)
  /\ run' = [run EXCEPT ![r].hand = <<>>]
  /\ UNCHANGED <<stage, registered, closedHubs, closing>>

\* The goroutine sees that the context is cancelled and drops what is buffered.
BridgeStops(r) ==
  /\ run[r].bridge = "on"
  /\ run[r].hand = <<>>
  /\ run[r].step = "over"
  /\ run' = [run EXCEPT ![r].bridge = "off", ![r].buffer = <<>>]
  /\ UNCHANGED <<stage, registered, closedHubs, tab, closing, panicked>>

-----------------------------------------------------------------------------
(* Shutdown of the server (cmd/api-server/main.go).                        *)

\* No new connections; those that are open may go on, for ten seconds at most.
Shutdown ==
  /\ stage = "up"
  /\ stage' = "draining"
  /\ UNCHANGED <<registered, closedHubs, tab, closing, run, panicked>>

\* Mutant of Dropped: the hub keeps its subscribers.
DroppedNot(t) == [tab[t] EXCEPT !.ended = TRUE]

\* A subscriber of a hub that is closed: both its channels are closed, and the hub
\* forgets it.
Dropped(t) == [tab[t] EXCEPT !.ended = TRUE, !.step = "closed"]

\* Cleanup closes the hub and takes it from the registry.
Cleanup ==
  LET gone == UNION {Subscribers(h) : h \in registered} IN
  /\ stage = "draining"
  /\ stage' = "clean"
  /\ closedHubs' = closedHubs \cup registered
  /\ registered' = {}
  /\ tab' = [t \in Tabs |-> IF t \in gone THEN Dropped(t) ELSE tab[t]]
  /\ closing' = [t \in Tabs |-> IF t \in gone THEN closing[t] + 1 ELSE closing[t]]
  /\ panicked' = (panicked \/ \E t \in gone : closing[t] > 0)
  /\ UNCHANGED run

-----------------------------------------------------------------------------
Serving(t) == Subscribe(t) \/ WriteEvent(t) \/ Leave(t)

Bridging(r) == TakeEvent(r) \/ Forward(r) \/ BridgeStops(r)

StreamNext ==
  \/ \E t \in Tabs : Connect(t) \/ Disconnect(t) \/ Serving(t)
  \/ \E r \in Runs : StartRun(r) \/ Push(r) \/ PushTimesOut(r) \/ EndRun(r) \/ Bridging(r)
  \/ Shutdown \/ Cleanup

StreamSpec == StreamInit /\ [][StreamNext]_streamVars

-----------------------------------------------------------------------------
(* Properties.                                                             *)

Event == [run : Runs, no : 1..Pushes]

StreamTypeOK ==
  /\ stage \in {"up", "draining", "clean"}
  /\ registered \subseteq Hubs /\ closedHubs \subseteq Hubs
  /\ tab \in [Tabs -> [step : {"none", "joining", "open", "closed", "left"}, hub : Hubs,
                       buffer : Seq(Event), heard : Seq(Event), ended : BOOLEAN,
                       full : BOOLEAN]]
  /\ run \in [Runs -> [step : {"none", "running", "over"}, hub : Hubs,
                       buffer : Seq(Event), hand : Seq(Event), bridge : {"on", "off"},
                       pushed : 0..Pushes, accepted : 0..Pushes]]
  /\ \A t \in Tabs : Len(tab[t].buffer) <= StreamCap
  /\ \A r \in Runs : Len(run[r].buffer) <= BridgeCap /\ Len(run[r].hand) <= 1

\* No channel is closed twice or sent to after it was closed, however the end of a
\* connection, the cleanup and broadcasts overlap.
NothingPanics == ~panicked

\* The events that have reached a page, whether or not it has them yet.
Events(t) == tab[t].heard \o tab[t].buffer

\* A page hears the events of each run in the order in which they were pushed, and
\* none twice; unless its own buffer was full it misses none between two that it
\* hears, whatever other runs, pages and time-outs do.
PagesHearInOrder ==
  \A t \in Tabs :
    LET events == Events(t) IN
    \A i, j \in DOMAIN events : i < j /\ events[i].run = events[j].run =>
      /\ events[i].no < events[j].no
      /\ ~tab[t].full => \A n \in events[i].no..events[j].no : \E k \in DOMAIN events :
           events[k].run = events[i].run /\ events[k].no = n

\* Every connection that is open when the server drains them ends.
StreamsEnd ==
  \A t \in Tabs : (stage = "draining" /\ tab[t].step = "open") ~> tab[t].step = "left"

\* Handlers and the shutdown go on by themselves.
StreamFairness == WF_streamVars(Cleanup) /\ \A t \in Tabs : WF_streamVars(Serving(t))
=============================================================================
