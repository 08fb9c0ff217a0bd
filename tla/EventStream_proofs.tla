-------------------------- MODULE EventStream_proofs --------------------------
(***************************************************************************)
(* Proofs about EventStream, for every number of pages, runs and events    *)
(* and every size of the buffers.                                          *)
(***************************************************************************)
EXTENDS EventStream, SequenceTheorems, TLAPS

TabType ==
  [step : {"none", "joining", "open", "closed", "left"}, hub : Hubs,
   buffer : Seq(Event), heard : Seq(Event), ended : BOOLEAN, full : BOOLEAN]

RunType ==
  [step : {"none", "running", "over"}, hub : Hubs, buffer : Seq(Event), hand : Seq(Event),
   bridge : {"on", "off"}, pushed : 0..Pushes, accepted : 0..Pushes]

\* Whose channels are closed is no subscriber any more.
ChannelsAreOpen ==
  /\ NothingPanics
  /\ \A t \in Tabs :
       /\ closing[t] \in Nat
       /\ closing[t] > 0 => tab[t].step \in {"closed", "left"}
       /\ tab[t].ended => tab[t].step \in {"closed", "left"}

\* How many events of a run its bridge has forwarded: those accepted, but for the
\* ones in its buffer and the one in its hand.
Passed(r) == run[r].accepted - Len(run[r].buffer) - Len(run[r].hand)

RunIsNumbered(r) ==
  LET own == run[r] IN
  /\ own.accepted <= own.pushed
  /\ Len(own.buffer) + Len(own.hand) <= own.accepted
  /\ \A i \in 1..Len(own.buffer) :
       own.buffer[i].run = r /\ own.buffer[i].no = own.accepted - Len(own.buffer) + i
  /\ own.hand # <<>> =>
       /\ own.hand[1].run = r /\ own.hand[1].no = own.accepted - Len(own.buffer)
       /\ own.bridge = "on"
  /\ own.step = "none" => own.accepted = 0 /\ own.bridge = "off"

Ordered(events) ==
  \A i, j \in DOMAIN events : i < j /\ events[i].run = events[j].run =>
    events[i].no < events[j].no

Has(events, r, n) == \E k \in DOMAIN events : events[k].run = r /\ events[k].no = n

\* Between two events of a run there are all others.
Gapless(events) ==
  \A i, j \in DOMAIN events : i < j /\ events[i].run = events[j].run =>
    \A n \in events[i].no..events[j].no : Has(events, events[i].run, n)

\* A subscriber whose buffer was never full has all that was forwarded since the
\* first event it got.
KeepsUp(t, r) ==
  LET events == Events(t) IN
  tab[t].step = "open" /\ ~tab[t].full /\ tab[t].hub = run[r].hub /\ run[r].bridge = "on" =>
    \A i \in DOMAIN events : events[i].run = r =>
      \A n \in events[i].no..Passed(r) : Has(events, r, n)

TabIsOrdered(t) ==
  LET events == Events(t) IN
  /\ \A i \in DOMAIN events : events[i].no <= Passed(events[i].run)
  /\ Ordered(events)
  /\ ~tab[t].full => Gapless(events)
  /\ tab[t].step \in {"none", "joining"} => events = <<>>
  /\ \A r \in Runs : KeepsUp(t, r)

StreamInv ==
  /\ StreamTypeOK
  /\ \A r \in Runs : RunIsNumbered(r)
  /\ \A t \in Tabs : TabIsOrdered(t)

-----------------------------------------------------------------------------
(* No channel is closed twice.                                             *)

LEMMA TypeInitHolds == StreamInit => StreamTypeOK
<1> SUFFICES ASSUME StreamInit PROVE StreamTypeOK
  OBVIOUS
<1>1. <<>> \in Seq(Event) /\ Len(<<>>) = 0 /\ "first" \in Hubs /\ 0 \in 0..Pushes
  BY StreamAssumption DEF Hubs
<1> QED
  BY <1>1, StreamAssumption DEF StreamInit, StreamTypeOK, NoTab, NoRun

LEMMA HubIsTyped == StreamTypeOK => Hub \in Hubs
BY DEF StreamTypeOK, Hub, Hubs

LEMMA ChannelsInitHolds == StreamInit => ChannelsAreOpen
BY DEF StreamInit, ChannelsAreOpen, NothingPanics, NoTab

\* The first event of a buffer, and the rest.
LEMMA FirstAndRest ==
  ASSUME NEW b \in Seq(Event), b # <<>>
  PROVE  /\ Head(b) \in Event /\ Head(b) = b[1]
         /\ Tail(b) \in Seq(Event) /\ Len(Tail(b)) = Len(b) - 1
         /\ \A i \in 1..Len(b) - 1 : Tail(b)[i] = b[i + 1]
         /\ Len(b) \in Nat \ {0}
<1>1. Len(b) \in Nat \ {0}
  BY EmptySeq
<1>2. Head(b) = b[1] /\ 1 \in 1..Len(b)
  BY <1>1
<1>3. Tail(b) \in Seq(Event) /\ Len(Tail(b)) = Len(b) - 1
  BY <1>1
<1>4. \A i \in 1..Len(b) - 1 : Tail(b)[i] = b[i + 1]
  BY <1>1
<1> QED
  BY <1>1, <1>2, <1>3, <1>4

LEMMA OneMoreEvent ==
  ASSUME NEW b \in Seq(Event), NEW e \in Event
  PROVE  /\ Append(b, e) \in Seq(Event) /\ Len(Append(b, e)) = Len(b) + 1
         /\ \A i \in 1..Len(b) : Append(b, e)[i] = b[i]
         /\ Append(b, e)[Len(b) + 1] = e /\ Len(b) \in Nat
OBVIOUS

\* What a subscriber's record becomes when an event is broadcast.
LEMMA ReachedIsTyped ==
  ASSUME NEW t \in Tabs, tab[t] \in TabType, NEW e \in Event
  PROVE  /\ Reached(t, e) \in TabType
         /\ Reached(t, e).step = tab[t].step /\ Reached(t, e).hub = tab[t].hub
         /\ Reached(t, e).heard = tab[t].heard /\ Reached(t, e).ended = tab[t].ended
         /\ IF Len(tab[t].buffer) < StreamCap
            THEN /\ Reached(t, e).buffer = Append(tab[t].buffer, e)
                 /\ Reached(t, e).full = tab[t].full
            ELSE Reached(t, e).buffer = tab[t].buffer /\ Reached(t, e).full = TRUE
<1>1. Append(tab[t].buffer, e) \in Seq(Event)
  BY DEF TabType
<1> QED
  BY <1>1 DEF Reached, TabType

LEMMA DroppedIsTyped ==
  ASSUME NEW t \in Tabs, tab[t] \in TabType
  PROVE  /\ Dropped(t) \in TabType /\ Dropped(t).step = "closed" /\ Dropped(t).hub = tab[t].hub
         /\ Dropped(t).heard = tab[t].heard /\ Dropped(t).buffer = tab[t].buffer
         /\ Dropped(t).full = tab[t].full
BY DEF Dropped, TabType

\* A page's handler takes a step.
LEMMA TabStepsAreTyped ==
  ASSUME StreamTypeOK, NEW t \in Tabs, Connect(t) \/ Disconnect(t) \/ Serving(t)
  PROVE  /\ StreamTypeOK' /\ run' = run
         /\ \A o \in Tabs \ {t} : tab'[o] = tab[o]
         /\ tab'[t].full = tab[t].full /\ tab'[t].ended = tab[t].ended
         /\ \/ tab'[t].step = tab[t].step
            \/ tab[t].step = "none" /\ tab'[t].step = "joining"
            \/ tab[t].step = "joining" /\ tab'[t].step = "open"
            \/ tab[t].step \in {"open", "closed"} /\ tab'[t].step = "left"
         /\ tab[t].step # "none" => tab'[t].hub = tab[t].hub
         /\ \/ tab'[t].heard = tab[t].heard /\ tab'[t].buffer = tab[t].buffer
            \/ /\ tab[t].buffer # <<>> /\ tab'[t].buffer = Tail(tab[t].buffer)
               /\ tab'[t].heard = Append(tab[t].heard, Head(tab[t].buffer))
<1>1. /\ tab \in [Tabs -> TabType] /\ tab[t] \in TabType /\ Hub \in Hubs
      /\ tab[t].buffer \in Seq(Event) /\ tab[t].heard \in Seq(Event)
  BY HubIsTyped DEF StreamTypeOK, TabType
<1>2. CASE Connect(t)
  <2>1. PICK h \in Hubs : tab' = [tab EXCEPT ![t].step = "joining", ![t].hub = h]
    BY <1>1, <1>2 DEF Connect
  <2>2. /\ tab' \in [Tabs -> TabType] /\ \A o \in Tabs \ {t} : tab'[o] = tab[o]
        /\ tab'[t].buffer = tab[t].buffer /\ tab'[t].heard = tab[t].heard
        /\ tab'[t].step = "joining" /\ tab'[t].full = tab[t].full
        /\ tab'[t].ended = tab[t].ended
    BY <1>1, <2>1 DEF TabType
  <2>3. /\ tab[t].step = "none" /\ registered' \subseteq Hubs
        /\ UNCHANGED <<stage, closedHubs, run>>
    BY <1>1, <1>2 DEF Connect
  <2>4. StreamTypeOK'
    BY <2>2, <2>3 DEF StreamTypeOK, TabType
  <2> QED
    BY <2>2, <2>3, <2>4
<1>3. CASE Disconnect(t)
  BY <1>1, <1>3 DEF Disconnect, StreamTypeOK, TabType
<1>4. CASE Subscribe(t)
  BY <1>1, <1>4 DEF Subscribe, StreamTypeOK, TabType
<1>5. CASE WriteEvent(t)
  <2>1. /\ Tail(tab[t].buffer) \in Seq(Event) /\ Head(tab[t].buffer) \in Event
        /\ Len(Tail(tab[t].buffer)) = Len(tab[t].buffer) - 1
        /\ Len(tab[t].buffer) \in Nat \ {0}
    BY <1>1, <1>5, FirstAndRest DEF WriteEvent
  <2>2. Append(tab[t].heard, Head(tab[t].buffer)) \in Seq(Event)
    BY <1>1, <2>1, OneMoreEvent
  <2>3. Len(Tail(tab[t].buffer)) <= StreamCap
    BY <1>1, <2>1, StreamAssumption DEF StreamTypeOK
  <2>4. tab' = [tab EXCEPT ![t].buffer = Tail(tab[t].buffer),
                          ![t].heard = Append(tab[t].heard, Head(tab[t].buffer))]
    BY <1>5 DEF WriteEvent
  <2>5. /\ tab' \in [Tabs -> TabType] /\ \A o \in Tabs \ {t} : tab'[o] = tab[o]
        /\ tab'[t].buffer = Tail(tab[t].buffer)
        /\ tab'[t].heard = Append(tab[t].heard, Head(tab[t].buffer))
        /\ tab'[t].step = tab[t].step /\ tab'[t].hub = tab[t].hub
        /\ tab'[t].full = tab[t].full /\ tab'[t].ended = tab[t].ended
    BY <1>1, <2>1, <2>2, <2>4 DEF TabType
  <2>6. StreamTypeOK'
    BY <1>5, <2>3, <2>5 DEF WriteEvent, StreamTypeOK, TabType
  <2> QED
    BY <1>5, <2>5, <2>6 DEF WriteEvent
<1>6. CASE Leave(t)
  BY <1>1, <1>6 DEF Leave, StreamTypeOK, TabType
<1> QED
  BY <1>2, <1>3, <1>4, <1>5, <1>6 DEF Serving

\* A run or its bridge takes a step other than Forward.
RunSteps(r) ==
  StartRun(r) \/ Push(r) \/ PushTimesOut(r) \/ EndRun(r) \/ TakeEvent(r) \/ BridgeStops(r)

LEMMA RunStepsAreTyped ==
  ASSUME StreamTypeOK, NEW r \in Runs, RunIsNumbered(r), RunSteps(r)
  PROVE  /\ StreamTypeOK' /\ tab' = tab /\ closing' = closing /\ panicked' = panicked
         /\ \A o \in Runs \ {r} : run'[o] = run[o]
<1>1. /\ run \in [Runs -> RunType] /\ run[r] \in RunType /\ Hub \in Hubs
      /\ run[r].buffer \in Seq(Event) /\ run[r].hand \in Seq(Event)
      /\ run[r].pushed \in 0..Pushes /\ run[r].accepted \in 0..Pushes
      /\ run[r].accepted <= run[r].pushed
      /\ Len(run[r].buffer) <= BridgeCap /\ Len(run[r].hand) <= 1
  BY HubIsTyped DEF StreamTypeOK, RunType, RunIsNumbered
<1> DEFINE Goal == /\ run' \in [Runs -> RunType] /\ \A o \in Runs \ {r} : run'[o] = run[o]
                   /\ Len(run'[r].buffer) <= BridgeCap /\ Len(run'[r].hand) <= 1
<1>2. ASSUME Goal, registered' \subseteq Hubs, UNCHANGED <<stage, closedHubs, tab, closing, panicked>>
      PROVE  /\ StreamTypeOK' /\ tab' = tab /\ closing' = closing /\ panicked' = panicked
             /\ \A o \in Runs \ {r} : run'[o] = run[o]
  BY <1>2 DEF StreamTypeOK, RunType
<1>3. CASE StartRun(r)
  <2>1. PICK h \in Hubs :
          run' = [run EXCEPT ![r].step = "running", ![r].hub = h, ![r].bridge = "on"]
    BY <1>1, <1>3 DEF StartRun
  <2>2. Goal
    BY <1>1, <2>1 DEF RunType
  <2> QED
    BY <1>1, <1>2, <1>3, <2>2 DEF StartRun
<1>4. CASE Push(r)
  <2>1. PICK e : e = [run |-> r, no |-> run[r].accepted + 1]
    OBVIOUS
  <2>2. run[r].pushed + 1 \in 0..Pushes /\ run[r].accepted + 1 \in 1..Pushes
    BY <1>1, <1>4, StreamAssumption DEF Push
  <2>3. e \in Event
    BY <2>1, <2>2 DEF Event
  <2>4. /\ Append(run[r].buffer, e) \in Seq(Event)
        /\ Len(Append(run[r].buffer, e)) <= BridgeCap
    <3>1. Len(run[r].buffer) < BridgeCap
      BY <1>4 DEF Push
    <3> QED
      BY <1>1, <2>3, <3>1, OneMoreEvent, StreamAssumption
  <2>5. run' = [run EXCEPT ![r].pushed = run[r].pushed + 1, ![r].accepted = run[r].accepted + 1,
                          ![r].buffer = Append(run[r].buffer, e)]
    BY <1>4, <2>1 DEF Push
  <2>6. Goal
    BY <1>1, <2>2, <2>4, <2>5 DEF RunType
  <2>7. registered' \subseteq Hubs /\ UNCHANGED <<stage, closedHubs, tab, closing, panicked>>
    BY <1>4 DEF Push, StreamTypeOK
  <2> QED
    BY <1>2, <2>6, <2>7
<1>5. CASE PushTimesOut(r)
  <2>1. run[r].pushed + 1 \in 0..Pushes
    BY <1>1, <1>5, StreamAssumption DEF PushTimesOut
  <2>2. Goal
    BY <1>1, <1>5, <2>1 DEF RunType, PushTimesOut
  <2> QED
    BY <1>2, <1>5, <2>2 DEF PushTimesOut, StreamTypeOK
<1>6. CASE EndRun(r)
  <2>1. Goal
    BY <1>1, <1>6 DEF RunType, EndRun
  <2> QED
    BY <1>2, <1>6, <2>1 DEF EndRun, StreamTypeOK
<1>7. CASE TakeEvent(r)
  <2>1. PICK e, rest, hand :
          e = Head(run[r].buffer) /\ rest = Tail(run[r].buffer) /\ hand = <<e>>
    OBVIOUS
  <2>2. e \in Event /\ rest \in Seq(Event) /\ Len(rest) = Len(run[r].buffer) - 1
    BY <1>1, <1>7, <2>1, FirstAndRest DEF TakeEvent
  <2>3. hand \in Seq(Event) /\ Len(hand) <= 1 /\ Len(rest) <= BridgeCap
    BY <1>1, <2>1, <2>2, StreamAssumption
  <2>4. run' = [run EXCEPT ![r].hand = hand, ![r].buffer = rest]
    BY <1>7, <2>1 DEF TakeEvent
  <2>5. Goal
    BY <1>1, <2>2, <2>3, <2>4 DEF RunType
  <2> QED
    BY <1>2, <1>7, <2>5 DEF TakeEvent, StreamTypeOK
<1>8. CASE BridgeStops(r)
  <2>1. <<>> \in Seq(Event) /\ Len(<<>>) <= BridgeCap
    BY StreamAssumption
  <2>2. run' = [run EXCEPT ![r].bridge = "off", ![r].buffer = <<>>]
    BY <1>8 DEF BridgeStops
  <2>3. Goal
    BY <1>1, <2>1, <2>2 DEF RunType
  <2> QED
    BY <1>2, <1>8, <2>3 DEF BridgeStops, StreamTypeOK
<1> QED
  BY <1>3, <1>4, <1>5, <1>6, <1>7, <1>8 DEF RunSteps

LEMMA ForwardIsTyped ==
  ASSUME StreamTypeOK, NEW r \in Runs, Forward(r)
  PROVE  /\ StreamTypeOK' /\ closing' = closing
         /\ run[r].hand # <<>> /\ Head(run[r].hand) \in Event /\ Len(run[r].hand) = 1
         /\ \A o \in Runs \ {r} : run'[o] = run[o]
         /\ run'[r].hand = <<>> /\ run'[r].buffer = run[r].buffer
         /\ run'[r].step = run[r].step /\ run'[r].bridge = run[r].bridge
         /\ run'[r].hub = run[r].hub /\ run'[r].pushed = run[r].pushed
         /\ run'[r].accepted = run[r].accepted
         /\ \A t \in Tabs :
              tab'[t] = IF t \in Subscribers(run[r].hub) THEN Reached(t, Head(run[r].hand)) ELSE tab[t]
<1>1. /\ run \in [Runs -> RunType] /\ run[r] \in RunType /\ tab \in [Tabs -> TabType]
      /\ run[r].hand \in Seq(Event) /\ Len(run[r].hand) <= 1
      /\ \A t \in Tabs : Len(tab[t].buffer) <= StreamCap /\ tab[t].buffer \in Seq(Event)
  BY DEF StreamTypeOK, RunType, TabType
<1>2. PICK e : e = Head(run[r].hand)
  OBVIOUS
<1>3. /\ run[r].hand # <<>> /\ run' = [run EXCEPT ![r].hand = <<>>]
      /\ tab' = [t \in Tabs |-> IF t \in Subscribers(run[r].hub) THEN Reached(t, e) ELSE tab[t]]
      /\ UNCHANGED <<stage, registered, closedHubs, closing>>
  BY <1>2 DEF Forward
<1>4. e \in Event /\ Len(run[r].hand) = 1
  <2>1. run[r].hand # <<>> /\ run[r].hand \in Seq(Event)
    BY <1>1, <1>3
  <2>2. Head(run[r].hand) \in Event /\ Len(run[r].hand) \in Nat \ {0}
    BY <2>1, FirstAndRest
  <2>3. \A k \in Nat \ {0} : k <= 1 => k = 1
    OBVIOUS
  <2>4. Len(run[r].hand) <= 1
    BY <1>1
  <2> QED
    BY <1>2, <2>2, <2>3, <2>4
<1>5. /\ run' \in [Runs -> RunType] /\ \A o \in Runs \ {r} : run'[o] = run[o]
      /\ run'[r].hand = <<>> /\ run'[r].buffer = run[r].buffer
      /\ run'[r].step = run[r].step /\ run'[r].bridge = run[r].bridge
      /\ run'[r].hub = run[r].hub /\ run'[r].pushed = run[r].pushed
      /\ run'[r].accepted = run[r].accepted
  <2>1. <<>> \in Seq(Event)
    OBVIOUS
  <2> QED
    BY <1>1, <1>3, <2>1 DEF RunType
<1>6. \A t \in Tabs : tab'[t] \in TabType /\ Len(tab'[t].buffer) <= StreamCap
  <2> SUFFICES ASSUME NEW t \in Tabs PROVE tab'[t] \in TabType /\ Len(tab'[t].buffer) <= StreamCap
    OBVIOUS
  <2>1. tab'[t] \in {Reached(t, e), tab[t]}
    BY <1>3
  <2>2. Reached(t, e) \in TabType /\ Len(Reached(t, e).buffer) <= StreamCap
    <3>1. tab[t] \in TabType /\ Len(tab[t].buffer) <= StreamCap /\ tab[t].buffer \in Seq(Event)
      BY <1>1
    <3>2. /\ Reached(t, e) \in TabType
          /\ IF Len(tab[t].buffer) < StreamCap
             THEN Reached(t, e).buffer = Append(tab[t].buffer, e)
             ELSE Reached(t, e).buffer = tab[t].buffer
      BY <1>4, <3>1, ReachedIsTyped
    <3>3. Len(Append(tab[t].buffer, e)) = Len(tab[t].buffer) + 1 /\ Len(tab[t].buffer) \in Nat
      BY <1>4, <3>1, OneMoreEvent
    <3> QED
      BY <3>1, <3>2, <3>3, StreamAssumption
  <2> QED
    BY <1>1, <2>1, <2>2
<1>7. tab' \in [Tabs -> TabType]
  BY <1>3, <1>6
<1>8. Len(run'[r].buffer) <= BridgeCap /\ Len(run'[r].hand) <= 1
  BY <1>5 DEF StreamTypeOK
<1>9. StreamTypeOK'
  BY <1>3, <1>5, <1>6, <1>7, <1>8 DEF StreamTypeOK, RunType, TabType
<1> QED
  BY <1>2, <1>3, <1>4, <1>5, <1>9

LEMMA CleanupIsTyped ==
  ASSUME StreamTypeOK, Cleanup
  PROVE  /\ StreamTypeOK' /\ run' = run
         /\ \A t \in Tabs :
              \/ tab'[t] = tab[t] /\ closing'[t] = closing[t]
              \/ /\ tab[t].step = "open" /\ tab'[t] = Dropped(t) /\ closing'[t] = closing[t] + 1
<1> DEFINE gone == UNION {Subscribers(h) : h \in registered}
<1>1. /\ stage' = "clean" /\ closedHubs' = closedHubs \cup registered /\ registered' = {}
      /\ tab' = [t \in Tabs |-> IF t \in gone THEN Dropped(t) ELSE tab[t]]
      /\ closing' = [t \in Tabs |-> IF t \in gone THEN closing[t] + 1 ELSE closing[t]]
      /\ run' = run
  BY DEF Cleanup
<1>2. \A t \in gone : tab[t].step = "open"
  BY DEF Subscribers
<1> HIDE DEF gone
<1>3. \A t \in Tabs : tab[t] \in TabType /\ Len(tab[t].buffer) <= StreamCap
  BY DEF StreamTypeOK, TabType
<1>4. \A t \in Tabs : tab'[t] \in TabType /\ Len(tab'[t].buffer) <= StreamCap
  BY <1>1, <1>3, DroppedIsTyped
<1>5. tab' \in [Tabs -> TabType]
  BY <1>1, <1>4
<1>6. StreamTypeOK'
  BY <1>1, <1>4, <1>5 DEF StreamTypeOK, TabType
<1> QED
  BY <1>1, <1>2, <1>6

LEMMA ChannelsStayOpen ==
  ASSUME StreamTypeOK, \A r \in Runs : RunIsNumbered(r), ChannelsAreOpen, [StreamNext]_streamVars
  PROVE  ChannelsAreOpen'
<1>1. ASSUME NEW t \in Tabs, Connect(t) \/ Disconnect(t) \/ Serving(t)
      PROVE  ChannelsAreOpen'
  <2>1. /\ \A o \in Tabs \ {t} : tab'[o] = tab[o]
        /\ tab'[t].ended = tab[t].ended
        /\ tab[t].step \in {"closed", "left"} => tab'[t].step \in {"closed", "left"}
    BY <1>1, TabStepsAreTyped
  <2>2. CASE Disconnect(t)
    <3>1. tab[t].step = "open" /\ closing[t] = 0
      BY <2>2 DEF Disconnect, ChannelsAreOpen
    <3>2. tab'[t].step = "left" /\ ~panicked'
      BY <2>2, <3>1 DEF Disconnect, ChannelsAreOpen, NothingPanics, StreamTypeOK
    <3>3. closing'[t] \in Nat /\ \A o \in Tabs \ {t} : closing'[o] = closing[o]
      BY <2>2, <3>1 DEF Disconnect, ChannelsAreOpen
    <3> QED
      BY <2>1, <3>2, <3>3 DEF ChannelsAreOpen, NothingPanics
  <2>3. CASE ~Disconnect(t)
    <3>1. closing' = closing /\ panicked' = panicked
      BY <1>1, <2>3 DEF Connect, Serving, Subscribe, WriteEvent, Leave
    <3> QED
      BY <2>1, <3>1 DEF ChannelsAreOpen, NothingPanics
  <2> QED
    BY <2>2, <2>3
<1>2. ASSUME NEW r \in Runs, RunSteps(r)
      PROVE  ChannelsAreOpen'
  BY <1>2, RunStepsAreTyped DEF ChannelsAreOpen, NothingPanics
<1>3. ASSUME NEW r \in Runs, Forward(r)
      PROVE  ChannelsAreOpen'
  <2>1. \A t \in Tabs : tab[t] \in TabType
    BY DEF StreamTypeOK, TabType
  <2>2. \A t \in Tabs : tab'[t].step = tab[t].step /\ tab'[t].ended = tab[t].ended
    <3> SUFFICES ASSUME NEW t \in Tabs
                 PROVE  tab'[t].step = tab[t].step /\ tab'[t].ended = tab[t].ended
      OBVIOUS
    <3>1. tab'[t] \in {Reached(t, Head(run[r].hand)), tab[t]} /\ Head(run[r].hand) \in Event
      BY <1>3, ForwardIsTyped
    <3> QED
      BY <2>1, <3>1, ReachedIsTyped
  <2>3. ~panicked' /\ closing' = closing
    BY <1>3 DEF Forward, Subscribers, ChannelsAreOpen, NothingPanics
  <2> QED
    BY <2>2, <2>3 DEF ChannelsAreOpen, NothingPanics
<1>4. CASE Shutdown
  BY <1>4 DEF Shutdown, ChannelsAreOpen, NothingPanics
<1>5. CASE Cleanup
  <2>1. \A t \in Tabs :
          \/ tab'[t] = tab[t] /\ closing'[t] = closing[t]
          \/ tab[t].step = "open" /\ tab'[t].step = "closed" /\ closing'[t] = closing[t] + 1
    BY <1>5, CleanupIsTyped, DroppedIsTyped DEF StreamTypeOK, TabType
  <2>2. ~panicked'
    BY <1>5 DEF Cleanup, Subscribers, ChannelsAreOpen, NothingPanics
  <2> QED
    BY <2>1, <2>2 DEF ChannelsAreOpen, NothingPanics
<1>6. CASE UNCHANGED streamVars
  BY <1>6 DEF streamVars, ChannelsAreOpen, NothingPanics
<1> QED
  BY <1>1, <1>2, <1>3, <1>4, <1>5, <1>6 DEF StreamNext, Bridging, RunSteps

-----------------------------------------------------------------------------
(* Pages hear in order.                                                    *)

LEMMA RunFieldsAreTyped ==
  ASSUME StreamTypeOK, NEW r \in Runs
  PROVE  /\ run \in [Runs -> RunType] /\ run[r] \in RunType
         /\ run[r].buffer \in Seq(Event) /\ run[r].hand \in Seq(Event)
         /\ run[r].pushed \in Nat /\ run[r].accepted \in Nat
         /\ Len(run[r].buffer) \in Nat /\ Len(run[r].hand) \in Nat /\ Passed(r) \in Int
<1>1. /\ run \in [Runs -> RunType] /\ run[r] \in RunType
      /\ run[r].buffer \in Seq(Event) /\ run[r].hand \in Seq(Event)
      /\ run[r].pushed \in Nat /\ run[r].accepted \in Nat
  BY StreamAssumption DEF StreamTypeOK, RunType
<1>2. Len(run[r].buffer) \in Nat /\ Len(run[r].hand) \in Nat
  BY <1>1
<1> QED
  BY <1>1, <1>2 DEF Passed

\* The events of a run stay numbered; what its bridge has forwarded changes only when
\* the bridge stops.
LEMMA RunStaysNumbered ==
  ASSUME StreamTypeOK, NEW r \in Runs, RunIsNumbered(r), RunSteps(r)
  PROVE  /\ RunIsNumbered(r)' /\ Passed(r)' >= Passed(r)
         /\ run'[r].bridge = "on" => Passed(r)' = Passed(r)
         /\ \/ run'[r].bridge # "on"
            \/ run'[r].bridge = run[r].bridge /\ run'[r].hub = run[r].hub
            \/ Passed(r)' = 0
<1>1. /\ run \in [Runs -> RunType] /\ run[r] \in RunType
      /\ run[r].buffer \in Seq(Event) /\ run[r].hand \in Seq(Event)
      /\ run[r].pushed \in Nat /\ run[r].accepted \in Nat
      /\ Len(run[r].buffer) \in Nat /\ Len(run[r].hand) \in Nat /\ Passed(r) \in Int
  BY RunFieldsAreTyped
<1>10. PICK n, m, h :
         n = run[r].accepted /\ m = Len(run[r].buffer) /\ h = Len(run[r].hand)
  OBVIOUS
<1>11. n \in Nat /\ m \in Nat /\ h \in Nat
  BY <1>1, <1>10
<1>12. Passed(r) = n - m - h /\ m + h <= n
  BY <1>10 DEF Passed, RunIsNumbered
<1>2. CASE StartRun(r)
  <2>1. /\ run'[r].accepted = run[r].accepted /\ run'[r].pushed = run[r].pushed
        /\ run'[r].buffer = run[r].buffer /\ run'[r].hand = run[r].hand
        /\ run'[r].step = "running" /\ run[r].step = "none" /\ run'[r].bridge = "on"
    BY <1>1, <1>2 DEF StartRun, RunType
  <2>2. Passed(r)' = Passed(r) /\ Passed(r) = 0
    <3>1. n = 0
      BY <1>10, <2>1 DEF RunIsNumbered
    <3>2. n - m - h = 0
      BY <1>11, <1>12, <3>1
    <3> QED
      BY <1>12, <2>1, <3>2 DEF Passed
  <2>3. RunIsNumbered(r)'
    BY <2>1 DEF RunIsNumbered
  <2> QED
    BY <1>1, <2>2, <2>3
<1>3. CASE Push(r)
  <2>1. PICK e : e = [run |-> r, no |-> run[r].accepted + 1]
    OBVIOUS
  <2>2. /\ run'[r].accepted = run[r].accepted + 1 /\ run'[r].pushed = run[r].pushed + 1
        /\ run'[r].buffer = Append(run[r].buffer, e) /\ run'[r].hand = run[r].hand
        /\ run'[r].step = "running" /\ run'[r].bridge = run[r].bridge
        /\ run'[r].hub = run[r].hub /\ run[r].pushed < Pushes
    BY <1>1, <1>3, <2>1 DEF Push, RunType
  <2>3. e \in Event /\ e.run = r /\ e.no = run[r].accepted + 1
    <3>1. run[r].accepted + 1 \in 1..Pushes
      BY <1>1, <2>2, StreamAssumption DEF RunIsNumbered
    <3> QED
      BY <2>1, <3>1 DEF Event
  <2>4. /\ Len(run'[r].buffer) = Len(run[r].buffer) + 1
        /\ \A i \in 1..Len(run[r].buffer) : run'[r].buffer[i] = run[r].buffer[i]
        /\ run'[r].buffer[Len(run[r].buffer) + 1] = e
    BY <1>1, <2>2, <2>3, OneMoreEvent
  <2>5. Passed(r)' = Passed(r)
    <3>1. Passed(r)' = (n + 1) - (m + 1) - h
      BY <1>10, <2>2, <2>4 DEF Passed
    <3> QED
      BY <1>11, <1>12, <3>1
  <2>6. \A i \in 1..Len(run'[r].buffer) :
          /\ run'[r].buffer[i].run = r
          /\ run'[r].buffer[i].no = run'[r].accepted - Len(run'[r].buffer) + i
    <3> SUFFICES ASSUME NEW i \in 1..Len(run'[r].buffer)
                 PROVE  /\ run'[r].buffer[i].run = r
                        /\ run'[r].buffer[i].no = run'[r].accepted - Len(run'[r].buffer) + i
      OBVIOUS
    <3>1. i \in 1..m \/ i = m + 1
      BY <1>10, <1>11, <2>4
    <3>2. run'[r].accepted - Len(run'[r].buffer) = n - m
      <4>1. run'[r].accepted = n + 1 /\ Len(run'[r].buffer) = m + 1
        BY <1>10, <2>2, <2>4
      <4> QED
        BY <1>11, <4>1
    <3>3. CASE i \in 1..m
      BY <1>10, <2>4, <3>2, <3>3 DEF RunIsNumbered
    <3>4. CASE i = m + 1
      <4>1. run'[r].buffer[i].run = r /\ run'[r].buffer[i].no = n + 1
        BY <1>10, <2>3, <2>4, <3>4
      <4>2. n - m + i = n + 1
        BY <1>11, <3>4
      <4> QED
        BY <3>2, <4>1, <4>2
    <3> QED
      BY <3>1, <3>3, <3>4
  <2>7. /\ run'[r].accepted <= run'[r].pushed
        /\ Len(run'[r].buffer) + Len(run'[r].hand) <= run'[r].accepted
        /\ run'[r].accepted - Len(run'[r].buffer) = run[r].accepted - Len(run[r].buffer)
    <3>1. /\ run'[r].accepted = n + 1 /\ Len(run'[r].buffer) = m + 1 /\ Len(run'[r].hand) = h
          /\ run'[r].pushed = run[r].pushed + 1 /\ n <= run[r].pushed
      BY <1>10, <2>2, <2>4 DEF RunIsNumbered
    <3>2. (n + 1) - (m + 1) = n - m /\ (m + 1) + h <= n + 1
      BY <1>11, <1>12
    <3>3. n + 1 <= run[r].pushed + 1
      BY <1>1, <1>11, <3>1
    <3> QED
      BY <1>10, <3>1, <3>2, <3>3
  <2>8. RunIsNumbered(r)'
    BY <2>2, <2>6, <2>7 DEF RunIsNumbered
  <2> QED
    BY <1>1, <2>2, <2>5, <2>8
<1>4. CASE PushTimesOut(r) \/ EndRun(r)
  <2>1. /\ run'[r].accepted = run[r].accepted /\ run'[r].pushed \in {run[r].pushed, run[r].pushed + 1}
        /\ run'[r].buffer = run[r].buffer /\ run'[r].hand = run[r].hand
        /\ run'[r].step # "none" /\ run'[r].bridge = run[r].bridge
        /\ run'[r].hub = run[r].hub
    BY <1>1, <1>4 DEF PushTimesOut, EndRun, RunType
  <2>2. Passed(r)' = Passed(r)
    BY <2>1 DEF Passed
  <2>3. run'[r].accepted <= run'[r].pushed
    BY <1>1, <2>1 DEF RunIsNumbered
  <2>4. RunIsNumbered(r)'
    BY <2>1, <2>3 DEF RunIsNumbered
  <2> QED
    BY <1>1, <2>1, <2>2, <2>4
<1>5. CASE TakeEvent(r)
  <2>1. PICK e, rest, hand :
          e = Head(run[r].buffer) /\ rest = Tail(run[r].buffer) /\ hand = <<e>>
    OBVIOUS
  <2>2. /\ e = run[r].buffer[1] /\ Len(rest) = Len(run[r].buffer) - 1
        /\ \A i \in 1..Len(run[r].buffer) - 1 : rest[i] = run[r].buffer[i + 1]
        /\ Len(run[r].buffer) \in Nat \ {0}
    BY <1>1, <1>5, <2>1, FirstAndRest DEF TakeEvent
  <2>3. Len(hand) = 1 /\ hand[1] = e /\ Len(run[r].hand) = 0
    BY <1>5, <2>1 DEF TakeEvent
  <2>4. run' = [run EXCEPT ![r].hand = hand, ![r].buffer = rest] /\ run[r].bridge = "on"
    BY <1>5, <2>1 DEF TakeEvent
  <2>5. /\ run'[r].accepted = run[r].accepted /\ run'[r].pushed = run[r].pushed
        /\ run'[r].buffer = rest /\ run'[r].hand = hand
        /\ run'[r].step = run[r].step /\ run'[r].bridge = "on" /\ run'[r].hub = run[r].hub
    BY <1>1, <2>4 DEF RunType
  <2>6. Passed(r)' = Passed(r)
    <3>1. Passed(r)' = n - (m - 1) - 1 /\ h = 0
      BY <1>10, <2>2, <2>3, <2>5 DEF Passed
    <3> QED
      BY <1>11, <1>12, <3>1
  <2>7. run[r].accepted - Len(rest) = run[r].accepted - Len(run[r].buffer) + 1
    <3>1. n - (m - 1) = n - m + 1
      BY <1>11
    <3> QED
      BY <1>10, <2>2, <3>1
  <2>8. e.run = r /\ e.no = run[r].accepted - Len(rest)
    BY <1>1, <2>2, <2>7 DEF RunIsNumbered
  <2>9. \A i \in 1..Len(rest) : rest[i].run = r /\ rest[i].no = run[r].accepted - Len(rest) + i
    <3> SUFFICES ASSUME NEW i \in 1..Len(rest)
                 PROVE  rest[i].run = r /\ rest[i].no = run[r].accepted - Len(rest) + i
      OBVIOUS
    <3>1. i + 1 \in 1..Len(run[r].buffer) /\ i \in 1..Len(run[r].buffer) - 1
      BY <1>1, <2>2
    <3>2. rest[i].run = r /\ rest[i].no = run[r].accepted - Len(run[r].buffer) + (i + 1)
      BY <2>2, <3>1 DEF RunIsNumbered
    <3>3. n - m + (i + 1) = (n - m + 1) + i
      BY <1>11
    <3> QED
      BY <1>10, <2>7, <3>2, <3>3
  <2>10. /\ Len(rest) + Len(hand) <= run[r].accepted
         /\ run[r].step # "none"
    <3>1. Len(run[r].buffer) + Len(run[r].hand) <= run[r].accepted
      BY DEF RunIsNumbered
    <3> QED
      BY <1>1, <2>2, <2>3, <2>4, <3>1 DEF RunIsNumbered
  <2>11. RunIsNumbered(r)'
    BY <2>3, <2>5, <2>8, <2>9, <2>10 DEF RunIsNumbered
  <2> QED
    BY <1>1, <2>4, <2>5, <2>6, <2>11
<1>6. CASE BridgeStops(r)
  <2>1. /\ run'[r].accepted = run[r].accepted /\ run'[r].pushed = run[r].pushed
        /\ run'[r].buffer = <<>> /\ run'[r].hand = run[r].hand /\ run[r].hand = <<>>
        /\ run'[r].step = "over" /\ run'[r].bridge = "off"
    BY <1>1, <1>6 DEF BridgeStops, RunType
  <2>2. Len(run'[r].buffer) = 0 /\ Len(run'[r].hand) = 0
    BY <2>1
  <2>3. Passed(r)' >= Passed(r)
    BY <1>1, <2>1, <2>2 DEF Passed
  <2>4. RunIsNumbered(r)'
    BY <1>1, <2>1, <2>2 DEF RunIsNumbered
  <2> QED
    BY <2>1, <2>3, <2>4
<1> QED
  BY <1>2, <1>3, <1>4, <1>5, <1>6 DEF RunSteps

\* When its bridge forwards an event, this is the next one.
LEMMA ForwardPassesOne ==
  ASSUME StreamTypeOK, NEW r \in Runs, RunIsNumbered(r), Forward(r)
  PROVE  /\ RunIsNumbered(r)' /\ Passed(r)' = Passed(r) + 1
         /\ Head(run[r].hand) \in Event /\ Head(run[r].hand).run = r
         /\ Head(run[r].hand).no = Passed(r) + 1
         /\ run'[r].bridge = run[r].bridge /\ run'[r].hub = run[r].hub
<1>1. /\ run[r].buffer \in Seq(Event) /\ run[r].hand \in Seq(Event)
      /\ run[r].accepted \in Nat /\ Len(run[r].buffer) \in Nat
  BY RunFieldsAreTyped
<1>2. /\ run[r].hand # <<>> /\ Head(run[r].hand) \in Event /\ Len(run[r].hand) = 1
      /\ run'[r].hand = <<>> /\ run'[r].buffer = run[r].buffer
      /\ run'[r].step = run[r].step /\ run'[r].bridge = run[r].bridge
      /\ run'[r].hub = run[r].hub /\ run'[r].pushed = run[r].pushed
      /\ run'[r].accepted = run[r].accepted
  BY ForwardIsTyped
<1>3. PICK n, m : n = run[r].accepted /\ m = Len(run[r].buffer)
  OBVIOUS
<1>4. n \in Nat /\ m \in Nat
  BY <1>1, <1>3
<1>5. Len(run'[r].hand) = 0
  BY <1>2
<1>6. Passed(r) = n - m - 1 /\ Passed(r)' = n - m - 0
  BY <1>2, <1>3, <1>5 DEF Passed
<1>7. n - m = (n - m - 1) + 1 /\ n - m - 0 = n - m
  BY <1>4
<1>8. Head(run[r].hand) = run[r].hand[1]
  BY <1>1, <1>2
<1>9. Head(run[r].hand).run = r /\ Head(run[r].hand).no = n - m
  BY <1>2, <1>3, <1>8 DEF RunIsNumbered
<1>10. m + 0 <= n
  <2>1. m + 1 <= n
    BY <1>2, <1>3 DEF RunIsNumbered
  <2> QED
    BY <1>4, <2>1
<1>11. RunIsNumbered(r)'
  BY <1>2, <1>3, <1>5, <1>10 DEF RunIsNumbered
<1> QED
  BY <1>2, <1>6, <1>7, <1>9, <1>11

LEMMA StreamInitHolds == StreamInit => StreamInv
<1> SUFFICES ASSUME StreamInit PROVE StreamInv
  OBVIOUS
<1>1. \A r \in Runs : RunIsNumbered(r)
  BY DEF StreamInit, NoRun, RunIsNumbered
<1>2. ASSUME NEW t \in Tabs PROVE TabIsOrdered(t)
  <2>1. Events(t) = <<>>
    BY DEF StreamInit, NoTab, Events
  <2>2. DOMAIN Events(t) = {}
    BY <2>1
  <2> QED
    BY <2>1, <2>2 DEF TabIsOrdered, Ordered, Gapless, KeepsUp
<1> QED
  BY <1>1, <1>2, TypeInitHolds DEF StreamInv

LEMMA PassedIsNumber ==
  ASSUME NEW r \in Runs
  PROVE  /\ StreamTypeOK => Passed(r) \in Int
         /\ StreamTypeOK' => Passed(r)' \in Int
<1>1. ASSUME StreamTypeOK PROVE Passed(r) \in Int
  BY <1>1, RunFieldsAreTyped
<1>2. ASSUME StreamTypeOK' PROVE Passed(r)' \in Int
  <2>1. /\ run'[r].buffer \in Seq(Event) /\ run'[r].hand \in Seq(Event)
        /\ run'[r].accepted \in Nat
    BY <1>2, StreamAssumption DEF StreamTypeOK
  <2>2. Len(run'[r].buffer) \in Nat /\ Len(run'[r].hand) \in Nat
    BY <2>1
  <2> QED
    BY <2>1, <2>2 DEF Passed
<1> QED
  BY <1>1, <1>2

LEMMA EventsAreTyped ==
  ASSUME StreamTypeOK, NEW t \in Tabs
  PROVE  /\ tab[t].heard \in Seq(Event) /\ tab[t].buffer \in Seq(Event)
         /\ Events(t) \in Seq(Event)
         /\ \A i \in DOMAIN Events(t) : Events(t)[i].run \in Runs /\ Events(t)[i].no \in Nat \ {0}
<1>1. tab[t].heard \in Seq(Event) /\ tab[t].buffer \in Seq(Event)
  BY DEF StreamTypeOK
<1>2. Events(t) \in Seq(Event)
  BY <1>1 DEF Events
<1>3. \A i \in DOMAIN Events(t) : Events(t)[i] \in Event
  BY <1>2
<1> QED
  BY <1>1, <1>2, <1>3, StreamAssumption DEF Event

\* What has been forwarded, of a run, may grow when nothing more can reach a page; a
\* bridge at work has forwarded as much as before, or nothing at all.
PassedIsKept(r) ==
  /\ Passed(r)' >= Passed(r)
  /\ run'[r].bridge = "on" => Passed(r)' = Passed(r)
  /\ \/ run'[r].bridge # "on"
     \/ run'[r].bridge = run[r].bridge /\ run'[r].hub = run[r].hub
     \/ Passed(r)' = 0

LEMMA EventsKept ==
  ASSUME StreamTypeOK, StreamTypeOK', NEW t \in Tabs, TabIsOrdered(t),
         Events(t)' = Events(t), tab'[t].full = tab[t].full,
         tab'[t].step \in {"none", "joining"} => Events(t) = <<>>,
         \/ Events(t) = <<>>
         \/ tab'[t].hub = tab[t].hub /\ (tab'[t].step = "open" => tab[t].step = "open"),
         \A r \in Runs : PassedIsKept(r)
  PROVE  TabIsOrdered(t)'
<1>1. PICK events : events = Events(t)
  OBVIOUS
<1>2. /\ Events(t)' = events /\ events \in Seq(Event)
      /\ \A i \in DOMAIN events : events[i].run \in Runs /\ events[i].no \in Nat \ {0}
  BY <1>1, EventsAreTyped
<1>3. \A r \in Runs : Passed(r) \in Int /\ Passed(r)' \in Int /\ Passed(r)' >= Passed(r)
  BY PassedIsNumber DEF PassedIsKept
<1>4. \A i \in DOMAIN events : events[i].no <= Passed(events[i].run)
  BY <1>1 DEF TabIsOrdered
<1>5. \A i \in DOMAIN events : events[i].no <= Passed(events[i].run)'
  <2> SUFFICES ASSUME NEW i \in DOMAIN events PROVE events[i].no <= Passed(events[i].run)'
    OBVIOUS
  <2>1. PICK r \in Runs : r = events[i].run
    BY <1>2
  <2>2. events[i].no <= Passed(r) /\ events[i].no \in Nat
    BY <1>2, <1>4, <2>1
  <2>3. events[i].no <= Passed(r)'
    BY <1>3, <2>2
  <2> QED
    BY <2>1, <2>3
<1>6. Ordered(events) /\ (~tab'[t].full => Gapless(events))
  BY <1>1 DEF TabIsOrdered
<1>7. ASSUME NEW r \in Runs PROVE KeepsUp(t, r)'
  <2> SUFFICES ASSUME tab'[t].step = "open", ~tab'[t].full, tab'[t].hub = run'[r].hub,
                      run'[r].bridge = "on",
                      NEW i \in DOMAIN events, events[i].run = r,
                      NEW n \in events[i].no..Passed(r)'
               PROVE  Has(events, r, n)
    BY <1>2 DEF KeepsUp
  <2>1. events[i].no \in Nat \ {0} /\ events # <<>>
    BY <1>2
  <2>2. events[i].no <= Passed(r)'
    BY <1>5
  <2>3. Passed(r)' # 0
    BY <1>3, <2>1, <2>2
  <2>4. run[r].bridge = "on" /\ run'[r].hub = run[r].hub /\ Passed(r)' = Passed(r)
    BY <2>3 DEF PassedIsKept
  <2>5. tab[t].step = "open" /\ tab[t].hub = run[r].hub /\ ~tab[t].full
    BY <1>1, <2>1, <2>4
  <2>6. KeepsUp(t, r)
    BY DEF TabIsOrdered
  <2> QED
    BY <1>1, <2>4, <2>5, <2>6 DEF KeepsUp
<1> QED
  BY <1>1, <1>2, <1>5, <1>6, <1>7 DEF TabIsOrdered, Ordered, Gapless, Has

\* One event more.
LEMMA AppendKeepsOrder ==
  ASSUME NEW events \in Seq(Event), NEW e \in Event, Ordered(events),
         \A i \in DOMAIN events : events[i].run = e.run => events[i].no < e.no
  PROVE  Ordered(Append(events, e))
<1>1. PICK more : more = Append(events, e)
  OBVIOUS
<1>2. PICK m \in Nat : m = Len(events)
  OBVIOUS
<1>3. /\ DOMAIN more = 1..m + 1 /\ DOMAIN events = 1..m
      /\ \A i \in 1..m : more[i] = events[i]
      /\ more[m + 1] = e
  BY <1>1, <1>2
<1>4. ASSUME NEW i \in 1..m + 1, NEW j \in 1..m + 1, i < j, more[i].run = more[j].run
      PROVE  more[i].no < more[j].no
  <2>1. i \in 1..m /\ (j \in 1..m \/ j = m + 1)
    BY <1>4
  <2> QED
    BY <1>3, <1>4, <2>1 DEF Ordered
<1> QED
  BY <1>1, <1>3, <1>4 DEF Ordered

LEMMA AppendKeepsHas ==
  ASSUME NEW events \in Seq(Event), NEW e \in Event
  PROVE  /\ \A r, n : Has(events, r, n) => Has(Append(events, e), r, n)
         /\ Has(Append(events, e), e.run, e.no)
<1>1. PICK m \in Nat : m = Len(events)
  OBVIOUS
<1>2. /\ DOMAIN Append(events, e) = 1..m + 1 /\ DOMAIN events = 1..m
      /\ \A i \in 1..m : Append(events, e)[i] = events[i] /\ i \in 1..m + 1
      /\ Append(events, e)[m + 1] = e /\ m + 1 \in 1..m + 1
  BY <1>1
<1> QED
  BY <1>2 DEF Has

LEMMA AppendKeepsGapless ==
  ASSUME NEW events \in Seq(Event), NEW e \in Event, Gapless(events),
         \A i \in DOMAIN events : events[i].run = e.run =>
           \A n \in events[i].no..(e.no - 1) : Has(events, e.run, n)
  PROVE  Gapless(Append(events, e))
<1>1. PICK more : more = Append(events, e)
  OBVIOUS
<1>2. PICK m \in Nat : m = Len(events)
  OBVIOUS
<1>3. /\ DOMAIN more = 1..m + 1 /\ DOMAIN events = 1..m
      /\ \A i \in 1..m : more[i] = events[i]
      /\ more[m + 1] = e
  BY <1>1, <1>2
<1>4. /\ \A r, n : Has(events, r, n) => Has(more, r, n)
      /\ Has(more, e.run, e.no)
  BY <1>1, AppendKeepsHas
<1>5. ASSUME NEW i \in 1..m + 1, NEW j \in 1..m + 1, i < j, more[i].run = more[j].run,
             NEW n \in more[i].no..more[j].no
      PROVE  Has(more, more[i].run, n)
  <2>1. i \in 1..m /\ (j \in 1..m \/ j = m + 1)
    BY <1>5
  <2>2. CASE j \in 1..m
    BY <1>3, <1>4, <1>5, <2>1, <2>2 DEF Gapless
  <2>3. CASE j = m + 1
    <3>1. more[i] = events[i] /\ i \in DOMAIN events /\ events[i].run = e.run
      BY <1>3, <1>5, <2>1, <2>3
    <3>2. events[i].no \in Nat /\ e.no \in Nat
      <4>1. events[i] \in Event
        BY <3>1
      <4> QED
        BY <4>1, StreamAssumption DEF Event
    <3>3. n \in events[i].no..e.no
      BY <1>3, <1>5, <2>3, <3>1
    <3>4. n = e.no \/ n \in events[i].no..(e.no - 1)
      BY <3>2, <3>3
    <3> QED
      BY <1>4, <3>1, <3>4
  <2> QED
    BY <2>1, <2>2, <2>3
<1> QED
  BY <1>1, <1>3, <1>5 DEF Gapless

LEMMA AppendingLast ==
  ASSUME NEW k \in Seq(Event), NEW b \in Seq(Event), NEW e \in Event
  PROVE  k \o Append(b, e) = Append(k \o b, e)
OBVIOUS

\* A broadcast reaches a page.
LEMMA ForwardKeepsOrder ==
  ASSUME StreamInv, NEW r \in Runs, Forward(r), NEW t \in Tabs
  PROVE  TabIsOrdered(t)'
<1> USE DEF StreamInv
<1>1. /\ StreamTypeOK' /\ \A o \in Runs \ {r} : run'[o] = run[o]
      /\ tab'[t] = IF t \in Subscribers(run[r].hub) THEN Reached(t, Head(run[r].hand)) ELSE tab[t]
  BY ForwardIsTyped
<1>2. PICK e, p, events :
        /\ e = Head(run[r].hand) /\ p = Passed(r) /\ events = Events(t)
        /\ e \in Event /\ p \in Int
  BY ForwardPassesOne, PassedIsNumber
<1>3. /\ e \in Event /\ p \in Int
      /\ Passed(r)' = p + 1 /\ e.run = r /\ e.no = p + 1
      /\ run'[r].bridge = run[r].bridge /\ run'[r].hub = run[r].hub
  BY <1>2, ForwardPassesOne
<1>4. \A o \in Runs \ {r} : Passed(o)' = Passed(o)
  BY <1>1 DEF Passed
<1>5. /\ events \in Seq(Event) /\ tab[t].heard \in Seq(Event) /\ tab[t].buffer \in Seq(Event)
      /\ \A i \in DOMAIN events : events[i].run \in Runs /\ events[i].no \in Nat \ {0}
  BY <1>2, EventsAreTyped
<1>6. /\ \A i \in DOMAIN events : events[i].no <= Passed(events[i].run)
      /\ Ordered(events) /\ (~tab[t].full => Gapless(events))
      /\ (tab[t].step \in {"none", "joining"} => events = <<>>)
      /\ \A o \in Runs : KeepsUp(t, o)
  BY <1>2 DEF TabIsOrdered
<1>7. \A i \in DOMAIN events : events[i].no <= Passed(events[i].run)'
  <2> SUFFICES ASSUME NEW i \in DOMAIN events PROVE events[i].no <= Passed(events[i].run)'
    OBVIOUS
  <2>1. PICK o \in Runs : o = events[i].run
    BY <1>5
  <2>2. events[i].no <= Passed(o) /\ events[i].no \in Nat
    BY <1>5, <1>6, <2>1
  <2>3. events[i].no <= Passed(o)'
    BY <1>2, <1>3, <1>4, <2>2
  <2> QED
    BY <2>1, <2>3
<1>8. tab[t] \in TabType
  BY DEF StreamTypeOK, TabType
\* For whom the event comes too late.
<1>9. ASSUME tab'[t].step = tab[t].step, tab'[t].hub = tab[t].hub, Events(t)' = events,
             \/ tab'[t].full = tab[t].full /\ t \notin Subscribers(run[r].hub)
             \/ tab'[t].full = TRUE
      PROVE  TabIsOrdered(t)'
  <2>1. ASSUME NEW o \in Runs PROVE KeepsUp(t, o)'
    <3>1. CASE o = r
      BY <1>3, <1>9, <3>1 DEF KeepsUp, Subscribers
    <3>2. CASE o # r
      <4>1. Passed(o)' = Passed(o) /\ run'[o] = run[o]
        BY <1>1, <1>4, <3>2
      <4> QED
        BY <1>2, <1>6, <1>9, <4>1 DEF KeepsUp
    <3> QED
      BY <3>1, <3>2
  <2> QED
    BY <1>6, <1>7, <1>9, <2>1 DEF TabIsOrdered, Ordered, Gapless, Has
<1>10. CASE t \notin Subscribers(run[r].hub)
  BY <1>1, <1>2, <1>9, <1>10 DEF Events
<1>11. CASE t \in Subscribers(run[r].hub) /\ ~(Len(tab[t].buffer) < StreamCap)
  <2>1. tab'[t] = Reached(t, e)
    BY <1>1, <1>2, <1>11
  <2>2. e \in Event /\ ~(Len(tab[t].buffer) < StreamCap)
    BY <1>3, <1>11
  <2>3. /\ Reached(t, e).step = tab[t].step /\ Reached(t, e).hub = tab[t].hub
        /\ Reached(t, e).heard = tab[t].heard /\ Reached(t, e).buffer = tab[t].buffer
        /\ Reached(t, e).full = TRUE
    BY <1>8, <2>2, ReachedIsTyped
  <2>4. Events(t)' = events
    BY <1>2, <2>1, <2>3 DEF Events
  <2> QED
    BY <1>9, <2>1, <2>3, <2>4
<1>12. CASE t \in Subscribers(run[r].hub) /\ Len(tab[t].buffer) < StreamCap
  <2>1. /\ tab'[t].step = tab[t].step /\ tab'[t].hub = tab[t].hub
        /\ tab'[t].heard = tab[t].heard /\ tab'[t].buffer = Append(tab[t].buffer, e)
        /\ tab'[t].full = tab[t].full
    <3>1. tab'[t] = Reached(t, e)
      BY <1>1, <1>2, <1>12
    <3>2. e \in Event /\ Len(tab[t].buffer) < StreamCap
      BY <1>3, <1>12
    <3>3. /\ Reached(t, e).step = tab[t].step /\ Reached(t, e).hub = tab[t].hub
          /\ Reached(t, e).heard = tab[t].heard
          /\ Reached(t, e).buffer = Append(tab[t].buffer, e)
          /\ Reached(t, e).full = tab[t].full
      BY <1>8, <3>2, ReachedIsTyped
    <3> QED
      BY <3>1, <3>3
  <2>2. PICK more : more = Append(events, e)
    OBVIOUS
  <2>3. Events(t)' = more
    <3>1. tab[t].heard \o Append(tab[t].buffer, e) = Append(tab[t].heard \o tab[t].buffer, e)
      BY <1>3, <1>5, AppendingLast
    <3> QED
      BY <1>2, <2>1, <2>2, <3>1 DEF Events
  <2>4. tab[t].step = "open" /\ tab[t].hub = run[r].hub
    BY <1>12 DEF Subscribers
  <2>5. \A i \in DOMAIN events : events[i].run = e.run => events[i].no < e.no
    <3> SUFFICES ASSUME NEW i \in DOMAIN events, events[i].run = e.run
                 PROVE  events[i].no < e.no
      OBVIOUS
    <3>1. events[i].no <= p /\ events[i].no \in Nat
      BY <1>2, <1>3, <1>5, <1>6
    <3> QED
      BY <1>3, <3>1
  <2>6. run[r].bridge = "on"
    <3>1. run[r].hand # <<>>
      BY ForwardIsTyped
    <3> QED
      BY <3>1 DEF RunIsNumbered
  <2>7. ASSUME ~tab[t].full, NEW i \in DOMAIN events, events[i].run = r,
               NEW n \in events[i].no..p
        PROVE  Has(events, r, n)
    BY <1>2, <1>6, <2>4, <2>6, <2>7 DEF KeepsUp
  <2>8. (e.no - 1) = p
    BY <1>3
  <2>9. ~tab[t].full => Gapless(more)
    BY <1>3, <1>5, <1>6, <2>2, <2>7, <2>8, AppendKeepsGapless
  <2>10. Ordered(more)
    BY <1>3, <1>5, <1>6, <2>2, <2>5, AppendKeepsOrder
  <2>11. PICK m \in Nat : m = Len(events)
    BY <1>5
  <2>12. /\ DOMAIN more = 1..m + 1 /\ DOMAIN events = 1..m
         /\ \A i \in 1..m : more[i] = events[i]
         /\ more[m + 1] = e
    BY <1>5, <2>2, <2>11
  <2>13. ASSUME NEW i \in DOMAIN more PROVE more[i].no <= Passed(more[i].run)'
    <3>1. i \in 1..m \/ i = m + 1
      BY <2>12
    <3>2. CASE i \in 1..m
      BY <1>7, <2>12, <3>2
    <3>3. CASE i = m + 1
      BY <1>2, <1>3, <2>12, <3>3
    <3> QED
      BY <3>1, <3>2, <3>3
  <2>14. /\ \A q, n : Has(events, q, n) => Has(more, q, n)
         /\ Has(more, r, p + 1)
    BY <1>3, <1>5, <2>2, AppendKeepsHas
  <2>15. ASSUME NEW o \in Runs PROVE KeepsUp(t, o)'
    <3> SUFFICES ASSUME ~tab[t].full, tab[t].hub = run'[o].hub, run'[o].bridge = "on",
                        NEW i \in DOMAIN more, more[i].run = o,
                        NEW n \in more[i].no..Passed(o)'
                 PROVE  Has(more, o, n)
      BY <2>1, <2>3 DEF KeepsUp
    <3>1. i \in 1..m \/ i = m + 1
      BY <2>12
    <3>2. CASE o # r
      <4>1. Passed(o)' = Passed(o) /\ run'[o] = run[o] /\ i \in 1..m
        BY <1>1, <1>3, <1>4, <2>12, <3>1, <3>2
      <4>2. Has(events, o, n)
        BY <1>2, <1>6, <2>4, <2>12, <4>1 DEF KeepsUp
      <4> QED
        BY <2>14, <4>2
    <3>3. CASE o = r /\ i \in 1..m
      <4>1. events[i].run = r /\ more[i] = events[i] /\ i \in DOMAIN events
        BY <2>12, <3>3
      <4>2. n \in events[i].no..(p + 1) /\ events[i].no \in Nat
        BY <1>3, <1>5, <3>3, <4>1
      <4>3. n \in events[i].no..p \/ n = p + 1
        BY <1>3, <4>2
      <4> QED
        BY <2>7, <2>14, <3>3, <4>1, <4>3
    <3>4. CASE o = r /\ i = m + 1
      <4>1. n \in (p + 1)..(p + 1)
        BY <1>3, <2>12, <3>4
      <4>2. n = p + 1
        BY <4>1
      <4> QED
        BY <2>14, <3>4, <4>2
    <3> QED
      BY <3>1, <3>2, <3>3, <3>4
  <2> QED
    BY <2>1, <2>3, <2>4, <2>9, <2>10, <2>13, <2>15 DEF TabIsOrdered, Ordered, Gapless, Has
<1> QED
  BY <1>10, <1>11, <1>12

\* A run that takes no step.
LEMMA RunIsKept ==
  ASSUME StreamInv, NEW r \in Runs, run'[r] = run[r]
  PROVE  RunIsNumbered(r)' /\ PassedIsKept(r)
<1>1. Passed(r)' = Passed(r) /\ Passed(r) \in Int /\ RunIsNumbered(r)
  BY PassedIsNumber DEF Passed, StreamInv
<1>2. PassedIsKept(r)
  BY <1>1 DEF PassedIsKept
<1>3. RunIsNumbered(r)'
  BY <1>1 DEF RunIsNumbered
<1> QED
  BY <1>2, <1>3

\* Writing the first event of the buffer to the client.
LEMMA MovingTheFirst ==
  ASSUME NEW k \in Seq(Event), NEW b \in Seq(Event), b # <<>>
  PROVE  Append(k, Head(b)) \o Tail(b) = k \o b
<1>1. Len(b) \in Nat \ {0} /\ Head(b) \in Event /\ Tail(b) \in Seq(Event)
  BY FirstAndRest
<1>2. /\ Append(k, Head(b)) \o Tail(b) \in Seq(Event) /\ k \o b \in Seq(Event)
      /\ Len(Append(k, Head(b)) \o Tail(b)) = Len(k \o b)
  BY <1>1
<1>3. ASSUME NEW i \in 1..Len(k \o b)
      PROVE  (Append(k, Head(b)) \o Tail(b))[i] = (k \o b)[i]
  BY <1>1
<1> QED
  BY <1>2, <1>3, SeqEqual

LEMMA StreamInvIsKept == StreamInv /\ [StreamNext]_streamVars => StreamInv'
<1> SUFFICES ASSUME StreamInv, [StreamNext]_streamVars PROVE StreamInv'
  OBVIOUS
<1> USE DEF StreamInv
<1>1. ASSUME NEW t \in Tabs, Connect(t) \/ Disconnect(t) \/ Serving(t)
      PROVE  StreamInv'
  <2>1. /\ StreamTypeOK' /\ run' = run
        /\ \A o \in Tabs \ {t} : tab'[o] = tab[o]
        /\ tab'[t].full = tab[t].full
        /\ \/ tab'[t].step = tab[t].step
           \/ tab[t].step = "none" /\ tab'[t].step = "joining"
           \/ tab[t].step = "joining" /\ tab'[t].step = "open"
           \/ tab[t].step \in {"open", "closed"} /\ tab'[t].step = "left"
        /\ tab[t].step # "none" => tab'[t].hub = tab[t].hub
        /\ \/ tab'[t].heard = tab[t].heard /\ tab'[t].buffer = tab[t].buffer
           \/ /\ tab[t].buffer # <<>> /\ tab'[t].buffer = Tail(tab[t].buffer)
              /\ tab'[t].heard = Append(tab[t].heard, Head(tab[t].buffer))
    BY <1>1, TabStepsAreTyped
  <2>2. /\ \A r \in Runs : RunIsNumbered(r)'
        /\ \A r \in Runs : PassedIsKept(r)
    BY <2>1, RunIsKept
  <2>3. ASSUME NEW o \in Tabs \ {t} PROVE TabIsOrdered(o)'
    <3>1. tab'[o] = tab[o] /\ Events(o)' = Events(o)
      BY <2>1 DEF Events
    <3>2. tab[o].step \in {"none", "joining"} => Events(o) = <<>>
      BY DEF TabIsOrdered
    <3> QED
      BY <2>1, <2>2, <3>1, <3>2, EventsKept
  <2>4. Events(t)' = Events(t)
    <3>1. CASE tab'[t].heard = tab[t].heard /\ tab'[t].buffer = tab[t].buffer
      BY <3>1 DEF Events
    <3>2. CASE /\ tab[t].buffer # <<>> /\ tab'[t].buffer = Tail(tab[t].buffer)
               /\ tab'[t].heard = Append(tab[t].heard, Head(tab[t].buffer))
      <4>1. tab[t].heard \in Seq(Event) /\ tab[t].buffer \in Seq(Event)
        BY EventsAreTyped
      <4>2. PICK b \in Seq(Event), k \in Seq(Event) : b = tab[t].buffer /\ k = tab[t].heard
        BY <4>1
      <4>3. Append(k, Head(b)) \o Tail(b) = k \o b
        BY <3>2, <4>2, MovingTheFirst
      <4> QED
        BY <3>2, <4>2, <4>3 DEF Events
    <3> QED
      BY <2>1, <3>1, <3>2
  <2>5. tab[t].step \in {"none", "joining"} => Events(t) = <<>>
    BY DEF TabIsOrdered
  <2>6. /\ tab'[t].step \in {"none", "joining"} => Events(t) = <<>>
        /\ \/ Events(t) = <<>>
           \/ tab'[t].hub = tab[t].hub /\ (tab'[t].step = "open" => tab[t].step = "open")
    BY <2>1, <2>5
  <2>7. TabIsOrdered(t)'
    BY <2>1, <2>2, <2>4, <2>6, EventsKept
  <2> QED
    BY <2>1, <2>2, <2>3, <2>7
<1>2. ASSUME NEW r \in Runs, RunSteps(r)
      PROVE  StreamInv'
  <2>1. StreamTypeOK' /\ tab' = tab /\ \A o \in Runs \ {r} : run'[o] = run[o]
    BY <1>2, RunStepsAreTyped
  <2>2. RunIsNumbered(r)' /\ PassedIsKept(r)
    BY <1>2, RunStaysNumbered DEF PassedIsKept
  <2>3. ASSUME NEW o \in Runs \ {r} PROVE RunIsNumbered(o)' /\ PassedIsKept(o)
    BY <2>1, RunIsKept
  <2>4. ASSUME NEW t \in Tabs PROVE TabIsOrdered(t)'
    <3>1. tab'[t] = tab[t] /\ Events(t)' = Events(t)
      BY <2>1 DEF Events
    <3>2. tab[t].step \in {"none", "joining"} => Events(t) = <<>>
      BY DEF TabIsOrdered
    <3> QED
      BY <2>1, <2>2, <2>3, <3>1, <3>2, EventsKept
  <2> QED
    BY <2>1, <2>2, <2>3, <2>4
<1>3. ASSUME NEW r \in Runs, Forward(r)
      PROVE  StreamInv'
  <2>1. StreamTypeOK' /\ \A o \in Runs \ {r} : run'[o] = run[o]
    BY <1>3, ForwardIsTyped
  <2>2. \A o \in Runs : RunIsNumbered(o)'
    BY <1>3, <2>1, ForwardPassesOne, RunIsKept
  <2> QED
    BY <1>3, <2>1, <2>2, ForwardKeepsOrder
<1>4. ASSUME StreamTypeOK', run' = run,
             \A t \in Tabs : \/ tab'[t] = tab[t]
                             \/ tab[t].step = "open" /\ tab'[t] = Dropped(t)
      PROVE  StreamInv'
  <2>1. \A r \in Runs : RunIsNumbered(r)' /\ PassedIsKept(r)
    BY <1>4, RunIsKept
  <2>2. ASSUME NEW t \in Tabs PROVE TabIsOrdered(t)'
    <3>1. tab[t] \in TabType
      BY DEF StreamTypeOK, TabType
    <3>2. /\ Events(t)' = Events(t) /\ tab'[t].full = tab[t].full /\ tab'[t].hub = tab[t].hub
          /\ tab'[t].step \in {tab[t].step, "closed"}
      <4>1. CASE tab'[t] = tab[t]
        BY <4>1 DEF Events
      <4>2. CASE tab'[t] = Dropped(t)
        BY <3>1, <4>2, DroppedIsTyped DEF Events
      <4> QED
        BY <1>4, <4>1, <4>2
    <3>3. tab[t].step \in {"none", "joining"} => Events(t) = <<>>
      BY DEF TabIsOrdered
    <3> QED
      BY <1>4, <2>1, <3>2, <3>3, EventsKept
  <2> QED
    BY <1>4, <2>1, <2>2
<1>5. CASE Shutdown
  <2>1. StreamTypeOK'
    BY <1>5 DEF Shutdown, StreamTypeOK
  <2> QED
    BY <1>4, <1>5, <2>1 DEF Shutdown
<1>6. CASE Cleanup
  BY <1>4, <1>6, CleanupIsTyped
<1>7. CASE UNCHANGED streamVars
  <2>1. StreamTypeOK'
    BY <1>7 DEF streamVars, StreamTypeOK
  <2> QED
    BY <1>4, <1>7, <2>1 DEF streamVars
<1> QED
  BY <1>1, <1>2, <1>3, <1>5, <1>6, <1>7 DEF StreamNext, Bridging, RunSteps

LEMMA StreamInvIsInvariant == StreamSpec => []StreamInv
<1>1. StreamInit => StreamInv
  BY StreamInitHolds
<1>2. StreamInv /\ [StreamNext]_streamVars => StreamInv'
  BY StreamInvIsKept
<1> QED
  BY <1>1, <1>2, PTL DEF StreamSpec

\* However the end of a connection, the cleanup of the hub and broadcasts overlap, no
\* channel of a subscriber is closed twice, or sent to when it is closed
\* (hub.go Unsubscribe, CloseHub, Broadcast).
THEOREM ChannelsCloseOnce == StreamSpec => []NothingPanics
<1>1. StreamInit => ChannelsAreOpen
  BY ChannelsInitHolds
<1>2. StreamInv /\ ChannelsAreOpen /\ [StreamNext]_streamVars => ChannelsAreOpen'
  BY ChannelsStayOpen DEF StreamInv
<1>3. ChannelsAreOpen => NothingPanics
  BY DEF ChannelsAreOpen
<1>4. StreamSpec => []StreamInv
  BY StreamInvIsInvariant
<1> QED
  BY <1>1, <1>2, <1>3, <1>4, PTL DEF StreamSpec

\* A page hears the events of every run in the order of their pushes, none twice, and
\* without a gap for as long as its own buffer was never full; and buffers never hold
\* more than their size (bridge.go Push, forward; hub.go Broadcast).
THEOREM StreamsAreInOrder == StreamSpec => [](StreamTypeOK /\ PagesHearInOrder)
<1>1. StreamInv => StreamTypeOK /\ PagesHearInOrder
  BY DEF StreamInv, TabIsOrdered, Ordered, Gapless, Has, PagesHearInOrder
<1> QED
  BY <1>1, StreamInvIsInvariant, PTL
=============================================================================
