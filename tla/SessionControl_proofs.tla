----------------------- MODULE SessionControl_proofs ------------------------
(***************************************************************************)
(* Safety of SessionControl for every number of clients, tabs and          *)
(* orchestrators, every bound on the rounds and the event stream, on both  *)
(* hosts, with or without faults.                                          *)
(*                                                                         *)
(* The inductive invariant IInv adds to the properties what keeps them:    *)
(* where a request can be in its operation (RequestsMakeSense), what an    *)
(* orchestrator has at each point (RunsMakeSense), and that a request      *)
(* validated its write against a status the session really had             *)
(* (WritesAreValidated).                                                   *)
(***************************************************************************)
EXTENDS SessionControl, SequenceTheorems, TLAPS

ServiceOps == Operations \ {"delete"}

\* A request is idle or in one of the service's operations; it sends on
\* channels it found in the map, and only Start launches an orchestrator.
RequestsMakeSense ==
  \A a \in Actors :
    /\ req[a].step # "idle" => req[a].op \in ServiceOps
    /\ req[a].step \in {"lookup", "send"} => req[a].op \in {"pause", "resume"}
    /\ req[a].step = "send" => req[a].ch \in Runs
    /\ req[a].step = "launch" => status # "draft"

\* An orchestrator past InitChannels has channels, and one that is about to
\* begin a round has a round left.
RunsMakeSense ==
  \A r \in Runs :
    /\ pc[r] \in Holding => ch[r] \in Runs
    /\ pc[r] \in {"unborn", "launched", "loaded", "active", "waiting"}
         => round[r] < MaxRounds

\* The status a request is about to write was legal for an earlier status.
WritesAreValidated ==
  /\ status \in past \cup {Deleted}
  /\ \A a \in Actors : req[a].step # "idle" =>
       \E seen \in past : ValidateTransition(seen, Target(req[a].op))

IInv ==
  /\ TypeOK
  /\ RequestsMakeSense
  /\ RunsMakeSense
  /\ WritesAreValidated
  /\ DraftIsQuiet
  /\ NoOrphanChannels

-----------------------------------------------------------------------------
(* Typing.                                                                 *)

\* Every operation of the service writes one of four statuses, never "draft".
LEMMA TargetIsStatus ==
  \A op \in ServiceOps : Target(op) \in {"running", "paused", "ended", "archived"}
BY DEF Target, ServiceOps, Operations

\* An answer leaves the pages well typed.
LEMMA AnswerType ==
  ASSUME TypeOK, NEW a \in Actors, NEW answer \in Statuses \cup {None}, Answer(a, answer)
  PROVE  page' \in [Tabs -> Pages]
<1>1. CASE a \in Tabs /\ page[a].answer = "awaited"
  <2>1. page[a] \in Pages
    BY <1>1 DEF TypeOK
  <2>2. [page[a] EXCEPT !.answer = answer] \in Pages
    BY <2>1 DEF Pages
  <2>3. page' = [page EXCEPT ![a] = [page[a] EXCEPT !.answer = answer]]
    BY <1>1 DEF Answer
  <2> QED
    BY <2>2, <2>3 DEF TypeOK
<1>2. CASE ~(a \in Tabs /\ page[a].answer = "awaited")
  BY <1>2 DEF Answer, TypeOK
<1> QED
  BY <1>1, <1>2

\* The end of a service call leaves the requests and the pages well typed.
LEMMA ReturnType ==
  ASSUME TypeOK, RequestsMakeSense, NEW a \in Actors,
         req[a].step # "idle", Succeed(a) \/ Fail(a)
  PROVE  /\ req' \in [Actors -> Requests]
         /\ page' \in [Tabs -> Pages]
<1>1. req' = [req EXCEPT ![a] = Idle]
  BY DEF Succeed, Fail, Return
<1>2. Target(req[a].op) \in Statuses
  BY TargetIsStatus DEF RequestsMakeSense, Statuses
<1>3. req' \in [Actors -> Requests]
  BY <1>1 DEF TypeOK, Requests, Idle, Steps
<1>4. PICK answer \in Statuses \cup {None} : Answer(a, answer)
  BY <1>2 DEF Succeed, Fail
<1>5. page' \in [Tabs -> Pages]
  BY <1>4, AnswerType
<1> QED
  BY <1>3, <1>5

\* Moving to the next step of an operation does so as well.
LEMMA GotoType ==
  ASSUME TypeOK, NEW a \in Actors, NEW step \in Steps, Goto(a, step)
  PROVE  /\ req' \in [Actors -> Requests]
         /\ page' = page
BY DEF Goto, TypeOK, Requests

\* An event reaches the feeds that have room.
LEMMA PublishType ==
  ASSUME TypeOK, NEW event \in Statuses, Publish(event)
  PROVE  page' \in [Tabs -> Pages]
<1> SUFFICES ASSUME NEW t \in Tabs PROVE page'[t] \in Pages
  BY DEF Publish
<1>1. page[t] \in Pages
  BY DEF TypeOK
<1> DEFINE feed == IF page[t].stream /\ Len(page[t].feed) < FeedCap
                   THEN Append(page[t].feed, event) ELSE page[t].feed
           late == page[t].answer \in Statuses \/ page[t].read # None
<1>2. feed \in Seq(Statuses) /\ late \in BOOLEAN
  BY <1>1 DEF Pages
<1>3. page'[t] = [page[t] EXCEPT !.feed = feed, !.late = late]
  BY DEF Publish
<1> HIDE DEF feed, late
<1> QED
  BY <1>1, <1>2, <1>3 DEF Pages

\* A service operation that is accepted begins with a step of its own.
LEMMA AcceptType ==
  ASSUME TypeOK, NEW a \in Actors, NEW op \in ServiceOps, Accept(a, op)
  PROVE  req' \in [Actors -> Requests]
BY DEF Accept, TypeOK, Requests, Steps, ServiceOps

-----------------------------------------------------------------------------
\* TypeOK is preserved by the steps of a request.
LEMMA ServeType ==
  ASSUME TypeOK, RequestsMakeSense, NEW a \in Actors, Serve(a)
  PROVE  TypeOK'
<1> USE DEF row, sigs, goros
<1>1. CASE Write(a)
  <2> DEFINE op == req[a].op
  <2>1. op \in ServiceOps /\ Target(op) \in Statuses
    BY <1>1, TargetIsStatus DEF Write, RequestsMakeSense, Statuses
  <2>2. /\ host' \in Hosts
        /\ status' \in Statuses \cup {Deleted}
        /\ past' \subseteq Statuses
    BY <1>1, <2>1 DEF Write, UpdateStatus, TypeOK
  <2>3. \/ \E step \in Steps : Goto(a, step)
        \/ Succeed(a)
    BY <1>1 DEF Write, Steps
  <2>4. /\ req' \in [Actors -> Requests]
        /\ page' \in [Tabs -> Pages]
    <3>1. CASE Succeed(a)
      BY <1>1, <3>1, ReturnType DEF Write
    <3>2. CASE \E step \in Steps : Goto(a, step)
      BY <3>2, GotoType DEF TypeOK
    <3> QED
      BY <2>3, <3>1, <3>2
  <2> QED
    BY <1>1, <2>2, <2>4 DEF Write, TypeOK
<1>2. CASE WriteFails(a)
  BY <1>2, ReturnType DEF WriteFails, TypeOK
<1>3. CASE Launch(a)
  BY <1>3, ReturnType DEF Launch, TypeOK, PCs
<1>4. CASE Lookup(a)
  <2>1. CASE chans # None
    BY <1>4, <2>1 DEF Lookup, TypeOK, Requests, Steps
  <2>2. CASE chans = None /\ req[a].op = "pause"
    BY <1>4, <2>2, GotoType DEF Lookup, TypeOK, Steps
  <2>3. CASE chans = None /\ req[a].op # "pause"
    BY <1>4, <2>3, ReturnType DEF Lookup, TypeOK
  <2> QED
    BY <2>1, <2>2, <2>3
<1>5. CASE Send(a)
  <2> DEFINE c == req[a].ch
  <2>1. c \in Runs
    BY <1>5 DEF Send, RequestsMakeSense
  <2>2. interruptCh' \in [Runs -> 0..ChanCap] /\ resumeCh' \in [Runs -> 0..ChanCap]
    BY <1>5, <2>1 DEF Send, TypeOK, ChanCap
  <2>3. \/ Goto(a, "write")
        \/ Succeed(a)
    BY <1>5 DEF Send
  <2>4. CASE Goto(a, "write")
    BY <1>5, <2>2, <2>4, GotoType DEF Send, TypeOK, Steps
  <2>5. CASE Succeed(a)
    BY <1>5, <2>2, <2>5, ReturnType DEF Send, TypeOK
  <2> QED
    BY <2>3, <2>4, <2>5
<1>6. CASE SendTimeout(a)
  BY <1>6, ReturnType DEF SendTimeout, TypeOK
<1>7. CASE Remove(a)
  BY <1>7, ReturnType DEF Remove, TypeOK
<1> QED
  BY <1>1, <1>2, <1>3, <1>4, <1>5, <1>6, <1>7 DEF Serve

\* TypeOK is preserved by the steps of an orchestrator.
LEMMA OrchestrateType ==
  ASSUME TypeOK, RunsMakeSense, NEW r \in Runs, Orchestrate(r)
  PROVE  TypeOK'
<1> USE DEF row, sigs, goros
<1>a. r \in Actors
  BY DEF Actors
<1>1. CASE Load(r)
  BY <1>1 DEF Load, Move, TypeOK, PCs
<1>2. CASE LoadFails(r)
  BY <1>2 DEF LoadFails, Move, Report, TypeOK, PCs
<1>3. CASE InitChannels(r)
  BY <1>3 DEF InitChannels, Move, TypeOK, PCs
<1>4. CASE Interrupted(r)
  <2>1. ch[r] \in Runs
    BY <1>4 DEF Interrupted, Move, RunsMakeSense, Holding
  <2>2. interruptCh' \in [Runs -> 0..ChanCap]
    BY <1>4, <2>1 DEF Interrupted, TypeOK, ChanCap
  <2>3. page' \in [Tabs -> Pages]
    BY <1>4, PublishType DEF Interrupted, Statuses
  <2> QED
    BY <1>4, <2>2, <2>3 DEF Interrupted, Move, TypeOK, PCs
<1>5. CASE NotInterrupted(r)
  <2>1. round' \in [Runs -> 0..MaxRounds]
    BY <1>5, ConstantsAssumption
    DEF NotInterrupted, Move, BeginRound, RunsMakeSense, TypeOK
  <2> QED
    BY <1>5, <2>1 DEF NotInterrupted, Move, TypeOK, PCs
<1>6. CASE Resumed(r)
  <2>1. ch[r] \in Runs /\ round[r] < MaxRounds
    BY <1>6 DEF Resumed, Move, RunsMakeSense, Holding
  <2>2. resumeCh' \in [Runs -> 0..ChanCap]
    BY <1>6, <2>1 DEF Resumed, TypeOK, ChanCap
  <2>3. round' \in [Runs -> 0..MaxRounds]
    BY <1>6, <2>1, ConstantsAssumption DEF Resumed, BeginRound, TypeOK
  <2>4. page' \in [Tabs -> Pages]
    BY <1>6, PublishType DEF Resumed, Statuses
  <2> QED
    BY <1>6, <2>2, <2>3, <2>4 DEF Resumed, Move, TypeOK, PCs
<1>7. CASE Continue(r)
  BY <1>7 DEF Continue, Move, TypeOK, PCs
<1>8. CASE Conclude(r)
  <2>1. page' \in [Tabs -> Pages]
    BY <1>8, PublishType DEF Conclude, Statuses, TypeOK
  <2> QED
    BY <1>8, <2>1 DEF Conclude, Move, TypeOK, PCs
<1>9. CASE ExecuteFails(r)
  BY <1>9 DEF ExecuteFails, TypeOK, PCs
<1>10. CASE Panic(r)
  BY <1>10 DEF Panic, Unwind, Report, TypeOK, PCs
<1>11. CASE CloseTwice(r)
  BY <1>11 DEF CloseTwice, Unwind, Report, TypeOK, PCs
<1>12. CASE AutoTerminate(r)
  <2>1. req' \in [Actors -> Requests]
    BY <1>12, <1>a, AcceptType DEF AutoTerminate, ServiceOps, Operations, TypeOK
  <2> QED
    BY <1>12, <2>1 DEF AutoTerminate, TypeOK, PCs
<1>13. CASE Exit(r)
  BY <1>13 DEF Exit, Report, TypeOK, PCs
<1> QED
  BY <1>1, <1>2, <1>3, <1>4, <1>5, <1>6, <1>7, <1>8, <1>9, <1>10, <1>11, <1>12, <1>13
  DEF Orchestrate

LEMMA LoadingIsPage == Loading \in Pages
<1>1. <<>> \in Seq(Statuses)
  OBVIOUS
<1> QED
  BY <1>1 DEF Loading, Pages

\* What a page does to itself leaves everything else alone.
LEMMA PageStep ==
  ASSUME NEW t \in Tabs, Refresh(t) \/ Follow(t)
  PROVE  /\ UNCHANGED <<row, chans, sigs, req, goros>>
         /\ \E p : page' = [page EXCEPT ![t] = p]
<1>1. UNCHANGED <<row, chans, sigs, req, goros>>
  BY DEF Refresh, Follow, Subscribe, ReadRow, ShowRow, ShowAnswer, Deliver
<1>2. \E p : page' = [page EXCEPT ![t] = p]
  <2>1. CASE Refresh(t) \/ Subscribe(t) \/ ReadRow(t)
    BY <2>1 DEF Refresh, Subscribe, ReadRow
  <2>2. CASE ShowRow(t)
    BY <2>2 DEF ShowRow
  <2>3. CASE ShowAnswer(t)
    BY <2>3 DEF ShowAnswer
  <2>4. CASE Deliver(t)
    BY <2>4 DEF Deliver
  <2> QED
    BY <2>1, <2>2, <2>3, <2>4 DEF Follow
<1> QED
  BY <1>1, <1>2

\* TypeOK is preserved by what reaches a page.
LEMMA FollowType ==
  ASSUME TypeOK, NEW t \in Tabs, Follow(t)
  PROVE  TypeOK'
<1>0. page[t] \in Pages
  BY DEF TypeOK
<1>1. UNCHANGED <<row, chans, sigs, req, goros>>
  BY PageStep
<1>2. page' \in [Tabs -> Pages]
  <2>1. CASE Subscribe(t)
    BY <1>0, <2>1 DEF Subscribe, TypeOK, Pages
  <2>2. CASE ReadRow(t)
    BY <1>0, <2>2 DEF ReadRow, TypeOK, Pages
  <2>3. CASE ShowRow(t)
    BY <1>0, <2>3 DEF ShowRow, TypeOK, Pages
  <2>4. CASE ShowAnswer(t)
    BY <1>0, <2>4 DEF ShowAnswer, TypeOK, Pages
  <2>5. CASE Deliver(t)
    <3>1. Head(page[t].feed) \in Statuses /\ Tail(page[t].feed) \in Seq(Statuses)
      BY <1>0, <2>5 DEF Deliver, Pages
    <3> QED
      BY <1>0, <2>5, <3>1 DEF Deliver, TypeOK, Pages
  <2> QED
    BY <2>1, <2>2, <2>3, <2>4, <2>5 DEF Follow
<1> QED
  BY <1>1, <1>2 DEF TypeOK, row, sigs, goros

\* TypeOK is preserved by every step.
LEMMA NextType ==
  ASSUME TypeOK, RequestsMakeSense, RunsMakeSense, [Next]_vars
  PROVE  TypeOK'
<1>1. ASSUME NEW c \in Clients, Call(c)
      PROVE  TypeOK'
  <2>1. PICK op \in ServiceOps : Accept(c, op)
    BY <1>1 DEF Call, ServiceOps
  <2>2. req' \in [Actors -> Requests]
    BY <2>1, AcceptType DEF Actors
  <2>3. page' \in [Tabs -> Pages]
    <3>1. CASE c \in Tabs
      <4>1. page[c] \in Pages
        BY <3>1 DEF TypeOK
      <4>2. [page[c] EXCEPT !.answer = "awaited"] \in Pages
        BY <4>1 DEF Pages
      <4>3. page' = [page EXCEPT ![c] = [page[c] EXCEPT !.answer = "awaited"]]
        BY <1>1, <3>1 DEF Call
      <4> QED
        BY <4>2, <4>3 DEF TypeOK
    <3>2. CASE c \notin Tabs
      BY <1>1, <3>2 DEF Call, TypeOK
    <3> QED
      BY <3>1, <3>2
  <2> QED
    BY <1>1, <2>2, <2>3 DEF Call, TypeOK, row, sigs, goros
<1>2. ASSUME NEW c \in Clients, Delete(c)
      PROVE  TypeOK'
  BY <1>2 DEF Delete, TypeOK, sigs, goros
<1>3. ASSUME NEW t \in Tabs, Refresh(t)
      PROVE  TypeOK'
  <2>1. page' \in [Tabs -> Pages]
    BY <1>3, LoadingIsPage DEF Refresh, TypeOK
  <2> QED
    BY <1>3, <2>1 DEF Refresh, TypeOK, row, sigs, goros
<1>4. ASSUME NEW t \in Tabs, Follow(t)
      PROVE  TypeOK'
  BY <1>4, FollowType
<1>5. CASE UNCHANGED vars
  BY <1>5 DEF vars, row, sigs, goros, TypeOK
<1> QED
  BY <1>1, <1>2, <1>3, <1>4, <1>5, ServeType, OrchestrateType DEF Next

-----------------------------------------------------------------------------
(* What single steps do to the row and to the requests.                    *)

\* A call that returns leaves its actor idle and the others alone.
LEMMA ReturnRequest ==
  ASSUME TypeOK, NEW a \in Actors, Succeed(a) \/ Fail(a)
  PROVE  req'[a].step = "idle" /\ \A b \in Actors \ {a} : req'[b] = req[b]
BY DEF Succeed, Fail, Return, TypeOK, Idle

\* A call that moves on stays in its operation.
LEMMA GotoRequest ==
  ASSUME TypeOK, NEW a \in Actors, NEW step \in Steps, Goto(a, step)
  PROVE  /\ req'[a].step = step /\ req'[a].op = req[a].op
         /\ \A b \in Actors \ {a} : req'[b] = req[b]
BY DEF Goto, TypeOK, Requests

\* A Pause or Resume that found channels stays in its operation, and sends.
LEMMA LookupRequest ==
  ASSUME TypeOK, NEW a \in Actors, Lookup(a), chans # None
  PROVE  /\ req'[a].step = "send" /\ req'[a].op = req[a].op
         /\ req'[a].ch \in Runs
         /\ \A b \in Actors \ {a} : req'[b] = req[b]
BY DEF Lookup, TypeOK, Requests

\* Only a service call and Delete write the row: an orchestrator never does,
\* and all it does to the requests is to make a Terminate of its own.
LEMMA OrchestrateRow ==
  ASSUME NEW r \in Runs, Orchestrate(r)
  PROVE  UNCHANGED row /\ (UNCHANGED req \/ Accept(r, "terminate"))
BY DEF Orchestrate, Load, LoadFails, InitChannels, Interrupted, NotInterrupted,
       Resumed, Continue, Conclude, ExecuteFails, Panic, CloseTwice,
       AutoTerminate, Exit

\* A step of a service call writes the row only at its "write" step, and leaves
\* the other requests alone.
LEMMA ServeRow ==
  ASSUME TypeOK, NEW a \in Actors, Serve(a)
  PROVE  /\ UNCHANGED row \/ (req[a].step = "write" /\ UpdateStatus(req[a].op))
         /\ req[a].step # "idle"
         /\ \A b \in Actors \ {a} : req'[b] = req[b]
         /\ req'[a].step # "idle" => req'[a].op = req[a].op
<1>1. CASE Write(a)
  BY <1>1, ReturnRequest, GotoRequest DEF Write, Steps
<1>2. CASE WriteFails(a)
  BY <1>2, ReturnRequest DEF WriteFails
<1>3. CASE Launch(a)
  BY <1>3, ReturnRequest DEF Launch
<1>4. CASE Lookup(a)
  <2>1. CASE chans # None
    BY <1>4, <2>1, LookupRequest DEF Lookup
  <2>2. CASE chans = None
    BY <1>4, <2>2, ReturnRequest, GotoRequest DEF Lookup, Steps
  <2> QED
    BY <2>1, <2>2
<1>5. CASE Send(a)
  BY <1>5, ReturnRequest, GotoRequest DEF Send, Steps
<1>6. CASE SendTimeout(a)
  BY <1>6, ReturnRequest DEF SendTimeout
<1>7. CASE Remove(a)
  BY <1>7, ReturnRequest DEF Remove
<1> QED
  BY <1>1, <1>2, <1>3, <1>4, <1>5, <1>6, <1>7 DEF Serve

\* The row is written by Delete or with the status of a service operation.
LEMMA RowWrites ==
  ASSUME TypeOK, RequestsMakeSense, [Next]_vars
  PROVE  \/ UNCHANGED row
         \/ status' = Deleted /\ UNCHANGED <<past, req>>
         \/ \E a \in Actors :
              /\ req[a].step = "write" /\ status # Deleted
              /\ status' = Target(req[a].op)
              /\ past' = past \cup {Target(req[a].op)}
<1>1. ASSUME NEW c \in Clients, Call(c) \/ Delete(c)
      PROVE  UNCHANGED row \/ (status' = Deleted /\ UNCHANGED <<past, req>>)
  BY <1>1 DEF Call, Delete
<1>2. ASSUME NEW t \in Tabs, Refresh(t) \/ Follow(t)
      PROVE  UNCHANGED row
  BY <1>2, PageStep DEF row, sigs, goros
<1>3. ASSUME NEW a \in Actors, Serve(a)
      PROVE  \/ UNCHANGED row
             \/ /\ req[a].step = "write" /\ status # Deleted
                /\ status' = Target(req[a].op)
                /\ past' = past \cup {Target(req[a].op)}
  BY <1>3, ServeRow DEF UpdateStatus
<1>4. ASSUME NEW r \in Runs, Orchestrate(r)
      PROVE  UNCHANGED row
  BY <1>4, OrchestrateRow
<1>5. CASE UNCHANGED vars
  BY <1>5 DEF vars
<1> QED
  BY <1>1, <1>2, <1>3, <1>4, <1>5 DEF Next

\* A session that is not a draft never becomes one again.
LEMMA NeverDraftAgain ==
  ASSUME TypeOK, RequestsMakeSense, [Next]_vars, status # "draft"
  PROVE  status' # "draft"
<1>1. \A a \in Actors : req[a].step = "write" => Target(req[a].op) # "draft"
  BY TargetIsStatus DEF RequestsMakeSense
<1> QED
  BY <1>1, RowWrites DEF row, Deleted

-----------------------------------------------------------------------------
(* The rest of the invariant.                                              *)

\* How the request of one actor can change: it is accepted, it moves on, or it
\* stays as it is.
LEMMA RequestSteps ==
  ASSUME TypeOK, [Next]_vars, NEW b \in Actors
  PROVE  \/ req'[b] = req[b]
         \/ \E op \in ServiceOps : Accept(b, op) /\ UNCHANGED row
         \/ Serve(b)
<1>1. ASSUME NEW c \in Clients, Call(c)
      PROVE  req'[b] = req[b] \/ \E op \in ServiceOps : Accept(b, op) /\ UNCHANGED row
  BY <1>1 DEF Call, Accept, ServiceOps, TypeOK
<1>2. ASSUME NEW c \in Clients, Delete(c)
      PROVE  req'[b] = req[b]
  BY <1>2 DEF Delete
<1>3. ASSUME NEW t \in Tabs, Refresh(t) \/ Follow(t)
      PROVE  req'[b] = req[b]
  BY <1>3, PageStep DEF row, sigs, goros
<1>4. ASSUME NEW a \in Actors, Serve(a)
      PROVE  req'[b] = req[b] \/ Serve(b)
  BY <1>4, ServeRow
<1>5. ASSUME NEW r \in Runs, Orchestrate(r)
      PROVE  req'[b] = req[b] \/ \E op \in ServiceOps : Accept(b, op) /\ UNCHANGED row
  BY <1>5, OrchestrateRow DEF Accept, ServiceOps, Operations, TypeOK
<1>6. CASE UNCHANGED vars
  BY <1>6 DEF vars
<1> QED
  BY <1>1, <1>2, <1>3, <1>4, <1>5, <1>6 DEF Next

LEMMA NextRequests ==
  ASSUME TypeOK, RequestsMakeSense, [Next]_vars
  PROVE  RequestsMakeSense'
<1> SUFFICES ASSUME NEW b \in Actors
             PROVE  /\ req'[b].step # "idle" => req'[b].op \in ServiceOps
                    /\ req'[b].step \in {"lookup", "send"}
                         => req'[b].op \in {"pause", "resume"}
                    /\ req'[b].step = "send" => req'[b].ch \in Runs
                    /\ req'[b].step = "launch" => status' # "draft"
  BY DEF RequestsMakeSense, Actors
<1>1. CASE req'[b] = req[b]
  BY <1>1, NeverDraftAgain DEF RequestsMakeSense
<1>2. CASE \E op \in ServiceOps : Accept(b, op)
  BY <1>2 DEF Accept, TypeOK, ServiceOps
<1>3. CASE Serve(b)
  <2>1. /\ req[b].op \in ServiceOps
        /\ req'[b].step # "idle" => req'[b].op = req[b].op
    BY <1>3, ServeRow DEF RequestsMakeSense
  <2>2. CASE Write(b)
    <3>1. req[b].op = "start" => status' # "draft"
      BY <2>2, <2>1, TargetIsStatus DEF Write, UpdateStatus, row, Deleted
    <3>2. \/ Succeed(b)
          \/ Goto(b, "launch") /\ req[b].op = "start"
          \/ Goto(b, "lookup") /\ req[b].op = "resume"
          \/ Goto(b, "remove")
      BY <2>2 DEF Write
    <3> QED
      BY <2>1, <3>1, <3>2, ReturnRequest, GotoRequest DEF Steps
  <2>3. CASE Lookup(b)
    <3>1. req[b].op \in {"pause", "resume"}
      BY <2>3 DEF Lookup, RequestsMakeSense
    <3>2. CASE chans # None
      BY <2>1, <2>3, <3>1, <3>2, LookupRequest
    <3>3. CASE chans = None
      BY <2>1, <2>3, <3>3, ReturnRequest, GotoRequest DEF Lookup, Steps
    <3> QED
      BY <3>2, <3>3
  <2>4. CASE Send(b)
    BY <2>1, <2>4, ReturnRequest, GotoRequest DEF Send, Steps
  <2>5. CASE WriteFails(b) \/ Launch(b) \/ SendTimeout(b) \/ Remove(b)
    BY <2>5, ReturnRequest DEF WriteFails, Launch, SendTimeout, Remove
  <2> QED
    BY <1>3, <2>2, <2>3, <2>4, <2>5 DEF Serve
<1> QED
  BY <1>1, <1>2, <1>3, RequestSteps

LEMMA NextRuns ==
  ASSUME TypeOK, RunsMakeSense, [Next]_vars
  PROVE  RunsMakeSense'
<1>1. ASSUME NEW r \in Runs, Orchestrate(r)
      PROVE  RunsMakeSense'
  <2> USE DEF RunsMakeSense, TypeOK, Holding, Move
  <2>1. CASE Load(r) \/ LoadFails(r)
    BY <2>1 DEF Load, LoadFails
  <2>2. CASE InitChannels(r)
    BY <2>2 DEF InitChannels
  <2>3. CASE Interrupted(r)
    BY <2>3 DEF Interrupted
  <2>4. CASE NotInterrupted(r) \/ Resumed(r)
    BY <2>4 DEF NotInterrupted, Resumed, BeginRound
  <2>5. CASE Continue(r)
    BY <2>5 DEF Continue
  <2>6. CASE Conclude(r) \/ ExecuteFails(r)
    BY <2>6 DEF Conclude, ExecuteFails
  <2>7. CASE Panic(r) \/ CloseTwice(r)
    BY <2>7 DEF Panic, CloseTwice, Unwind
  <2>8. CASE AutoTerminate(r) \/ Exit(r)
    BY <2>8 DEF AutoTerminate, Exit
  <2> QED
    BY <1>1, <2>1, <2>2, <2>3, <2>4, <2>5, <2>6, <2>7, <2>8 DEF Orchestrate
<1>2. ASSUME NEW a \in Actors, Launch(a)
      PROVE  RunsMakeSense'
  BY <1>2 DEF Launch, RunsMakeSense, TypeOK, Holding
<1>3. ASSUME NEW a \in Actors, Serve(a), ~Launch(a)
      PROVE  UNCHANGED goros
  BY <1>3 DEF Serve, Write, WriteFails, Lookup, Send, SendTimeout, Remove
<1>4. ASSUME NEW c \in Clients, Call(c) \/ Delete(c)
      PROVE  UNCHANGED goros
  BY <1>4 DEF Call, Delete
<1>5. ASSUME NEW t \in Tabs, Refresh(t) \/ Follow(t)
      PROVE  UNCHANGED goros
  BY <1>5, PageStep DEF row, sigs, goros
<1>6. CASE UNCHANGED goros
  BY <1>6 DEF goros, RunsMakeSense
<1> QED
  BY <1>1, <1>2, <1>3, <1>4, <1>5, <1>6 DEF Next, vars

LEMMA NextValidated ==
  ASSUME TypeOK, RequestsMakeSense, WritesAreValidated, [Next]_vars
  PROVE  WritesAreValidated'
<1>1. past \subseteq past' /\ status' \in past' \cup {Deleted}
  BY RowWrites DEF row, WritesAreValidated
<1>2. ASSUME NEW b \in Actors, req'[b].step # "idle"
      PROVE  \E seen \in past : ValidateTransition(seen, Target(req'[b].op))
  <2>1. CASE req'[b] = req[b]
    BY <1>2, <2>1 DEF WritesAreValidated
  <2>2. CASE \E op \in ServiceOps : Accept(b, op)
    BY <2>2 DEF Accept, TypeOK, WritesAreValidated
  <2>3. CASE Serve(b)
    BY <1>2, <2>3, ServeRow DEF WritesAreValidated
  <2> QED
    BY <2>1, <2>2, <2>3, RequestSteps
<1> QED
  BY <1>1, <1>2 DEF WritesAreValidated, Target, Actors

\* A step that takes a run out of "unborn" or puts channels into the map needs
\* a Start that has written the row, or a run that was launched.
LEMMA NextDraft ==
  ASSUME TypeOK, RequestsMakeSense, DraftIsQuiet, [Next]_vars
  PROVE  DraftIsQuiet'
<1> SUFFICES ASSUME status' = "draft"
             PROVE  /\ chans' = None
                    /\ \A r \in Runs : pc'[r] = "unborn"
                    /\ \A c \in Clients : req'[c].step # "launch"
  BY DEF DraftIsQuiet
<1>1. status = "draft"
  BY NeverDraftAgain
<1>2. chans = None /\ \A r \in Runs : pc[r] = "unborn"
  BY <1>1 DEF DraftIsQuiet
<1>3. \A c \in Clients : req'[c].step # "launch"
  BY NextRequests DEF RequestsMakeSense, Actors
<1>4. ASSUME NEW r \in Runs, Orchestrate(r)
      PROVE  FALSE
  BY <1>2, <1>4
  DEF Orchestrate, Load, LoadFails, InitChannels, Interrupted, NotInterrupted,
      Resumed, Continue, Conclude, ExecuteFails, Panic, CloseTwice,
      AutoTerminate, Exit, Move
<1>5. ASSUME NEW a \in Actors, Serve(a)
      PROVE  chans' = None /\ UNCHANGED pc
  <2>1. ~Launch(a)
    BY <1>1 DEF Launch, RequestsMakeSense
  <2> QED
    BY <1>2, <1>5, <2>1
    DEF Serve, Write, WriteFails, Lookup, Send, SendTimeout, Remove, goros
<1>6. ASSUME NEW c \in Clients, Call(c) \/ Delete(c)
      PROVE  UNCHANGED <<chans, pc>>
  BY <1>6 DEF Call, Delete, goros
<1>7. ASSUME NEW t \in Tabs, Refresh(t) \/ Follow(t)
      PROVE  UNCHANGED <<chans, pc>>
  BY <1>7, PageStep DEF row, goros
<1>8. CASE UNCHANGED vars
  BY <1>2, <1>3, <1>8 DEF vars, goros
<1> QED
  BY <1>2, <1>3, <1>4, <1>5, <1>6, <1>7, <1>8 DEF Next

\* The run that made the channels of the map leaves Holding only by a step that
\* removes them.
LEMMA NextChannels ==
  ASSUME TypeOK, NoOrphanChannels, [Next]_vars
  PROVE  NoOrphanChannels'
<1>1. ASSUME NEW r \in Runs, Orchestrate(r)
      PROVE  NoOrphanChannels'
  <2> USE NoneIsNoRun DEF NoOrphanChannels, TypeOK, Holding, Move
  <2>1. CASE Load(r) \/ LoadFails(r)
    BY <2>1 DEF Load, LoadFails
  <2>2. CASE InitChannels(r)
    BY <2>2 DEF InitChannels
  <2>3. CASE Interrupted(r) \/ NotInterrupted(r) \/ Resumed(r)
    BY <2>3 DEF Interrupted, NotInterrupted, Resumed
  <2>4. CASE Continue(r) \/ Conclude(r) \/ ExecuteFails(r)
    BY <2>4 DEF Continue, Conclude, ExecuteFails
  <2>5. CASE Panic(r) \/ CloseTwice(r) \/ Exit(r)
    BY <2>5 DEF Panic, CloseTwice, Unwind, Exit
  <2>6. CASE AutoTerminate(r)
    BY <2>6 DEF AutoTerminate
  <2> QED
    BY <1>1, <2>1, <2>2, <2>3, <2>4, <2>5, <2>6 DEF Orchestrate
<1>2. ASSUME NEW a \in Actors, Serve(a)
      PROVE  NoOrphanChannels'
  <2>1. CASE Launch(a)
    BY <2>1, NoneIsNoRun DEF Launch, NoOrphanChannels, TypeOK, Holding
  <2>2. CASE Remove(a)
    BY <2>2 DEF Remove, NoOrphanChannels
  <2>3. CASE Write(a) \/ WriteFails(a) \/ Lookup(a) \/ Send(a) \/ SendTimeout(a)
    BY <2>3 DEF Write, WriteFails, Lookup, Send, SendTimeout, NoOrphanChannels, goros
  <2> QED
    BY <1>2, <2>1, <2>2, <2>3 DEF Serve
<1>3. ASSUME NEW c \in Clients, Call(c) \/ Delete(c)
      PROVE  NoOrphanChannels'
  BY <1>3 DEF Call, Delete, NoOrphanChannels, goros
<1>4. ASSUME NEW t \in Tabs, Refresh(t) \/ Follow(t)
      PROVE  NoOrphanChannels'
  BY <1>4, PageStep DEF NoOrphanChannels, goros
<1>5. CASE UNCHANGED vars
  BY <1>5 DEF vars, goros, NoOrphanChannels
<1> QED
  BY <1>1, <1>2, <1>3, <1>4, <1>5 DEF Next

-----------------------------------------------------------------------------
(* The theorems.                                                           *)

LEMMA InitInvariant == Init => IInv
<1> SUFFICES ASSUME Init PROVE IInv
  OBVIOUS
<1>1. Idle \in Requests
  BY DEF Idle, Requests, Steps
<1>2. Loading \in Pages
  BY LoadingIsPage
<1>3. TypeOK
  BY <1>1, <1>2, ConstantsAssumption DEF Init, TypeOK, Statuses, PCs, ChanCap
<1>4. RequestsMakeSense /\ WritesAreValidated
  BY DEF Init, Idle, RequestsMakeSense, WritesAreValidated
<1>5. RunsMakeSense
  BY ConstantsAssumption DEF Init, RunsMakeSense, Holding
<1>6. DraftIsQuiet /\ NoOrphanChannels
  BY DEF Init, Idle, DraftIsQuiet, NoOrphanChannels, Actors
<1> QED
  BY <1>3, <1>4, <1>5, <1>6 DEF IInv

LEMMA NextInvariant == IInv /\ [Next]_vars => IInv'
BY NextType, NextRequests, NextRuns, NextValidated, NextDraft, NextChannels DEF IInv

\* IInv is an invariant: it is inductive as it stands.
THEOREM Invariance == Spec => []IInv
BY InitInvariant, NextInvariant, PTL DEF Spec

\* Every variable keeps its type; in particular no buffer holds more than its
\* capacity and no discussion begins more than max_rounds rounds.
THEOREM TypeCorrect == Spec => []TypeOK
<1>1. IInv => TypeOK
  BY DEF IInv
<1> QED
  BY <1>1, Invariance, PTL

\* However requests interleave, a draft has no channels, no orchestrator and no
\* Start about to launch one (Service.Start writes the row before its caller
\* starts the goroutine).
THEOREM DraftsAreQuiet == Spec => []DraftIsQuiet
<1>1. IInv => DraftIsQuiet
  BY DEF IInv
<1> QED
  BY <1>1, Invariance, PTL

\* The channel map never outlives the orchestrator that made its channels,
\* however many orchestrators share the session and however they end
\* (the deferred RemoveChannels of startOrchestration).
THEOREM NoChannelsAreOrphaned == Spec => []NoOrphanChannels
<1>1. IInv => NoOrphanChannels
  BY DEF IInv
<1> QED
  BY <1>1, Invariance, PTL

\* The session service keeps the promise of SessionLedger: every write of the
\* status is legal for a status the session has had.
THEOREM ServiceKeepsLedger == Spec => LedgerSpec
<1>1. Init => Ledger!Init
  BY DEF Init, Ledger!Init
<1>2. IInv /\ [Next]_vars => [Ledger!Next]_(Ledger!ledger)
  <2> SUFFICES ASSUME IInv, [Next]_vars
               PROVE  Ledger!Next \/ UNCHANGED <<status, past>>
    BY DEF Ledger!ledger
  <2>1. CASE UNCHANGED row
    BY <2>1 DEF row
  <2>2. CASE status' = Deleted /\ UNCHANGED past
    BY <2>2 DEF Ledger!Next, Ledger!Delete, Ledger!Deleted, Deleted
  <2>3. ASSUME NEW a \in Actors, req[a].step = "write", status # Deleted,
               status' = Target(req[a].op), past' = past \cup {Target(req[a].op)}
        PROVE  Ledger!Next
    <3>1. Target(req[a].op) \in Statuses
      BY <2>3, TargetIsStatus DEF IInv, RequestsMakeSense, Statuses
    <3>2. \E seen \in past : ValidateTransition(seen, Target(req[a].op))
      BY <2>3 DEF IInv, WritesAreValidated
    <3>3. Ledger!Change(Target(req[a].op))
      BY <2>3, <3>2
      DEF Ledger!Change, Ledger!Deleted, Deleted, Ledger!ValidateTransition,
          ValidateTransition, Ledger!validTransitions, validTransitions
    <3> QED
      BY <3>1, <3>3 DEF Ledger!Next, Ledger!Statuses, Statuses
  <2> QED
    BY <2>1, <2>2, <2>3, RowWrites DEF IInv
<1> QED
  BY <1>1, <1>2, Invariance, PTL DEF Spec, LedgerSpec, Ledger!Spec

\* Whoever keeps the promise of SessionLedger: a session was running before it
\* was paused or failed, and it was over before it was archived, as long as every
\* write of the status column is legal for some status the session already had
\* (session/state.go).
THEOREM LedgerIsOrdered == LedgerSpec => [](Ledger!TypeOK /\ Ledger!PastIsOrdered)
<1> DEFINE Ordered == Ledger!TypeOK /\ Ledger!PastIsOrdered
<1>1. Ledger!Init => Ordered
  BY DEF Ledger!Init, Ledger!TypeOK, Ledger!PastIsOrdered, Ledger!Statuses, Ledger!Deleted
<1>2. Ordered /\ [Ledger!Next]_(Ledger!ledger) => Ordered'
  <2> SUFFICES ASSUME Ordered, [Ledger!Next]_(Ledger!ledger)
               PROVE  Ordered'
    OBVIOUS
  <2>1. CASE Ledger!Delete
    BY <2>1 DEF Ledger!Delete, Ledger!TypeOK, Ledger!PastIsOrdered
  <2>2. ASSUME NEW next \in Ledger!Statuses, Ledger!Change(next)
        PROVE  Ordered'
    <3>1. PICK seen \in past : Ledger!ValidateTransition(seen, next)
      BY <2>2 DEF Ledger!Change
    <3>2. next \in {"paused", "failed"} => "running" \in past
      BY <3>1 DEF Ledger!ValidateTransition, Ledger!validTransitions, Ledger!PastIsOrdered
    <3>3. next = "archived" => past \cap {"ended", "failed", "archived"} # {}
      BY <3>1 DEF Ledger!ValidateTransition, Ledger!validTransitions
    <3>4. status' = next /\ past' = past \cup {next}
      BY <2>2 DEF Ledger!Change
    <3> QED
      BY <3>2, <3>3, <3>4 DEF Ledger!TypeOK, Ledger!PastIsOrdered, Ledger!Statuses
  <2>3. CASE UNCHANGED <<status, past>>
    BY <2>3 DEF Ledger!TypeOK, Ledger!PastIsOrdered
  <2> QED
    BY <2>1, <2>2, <2>3 DEF Ledger!Next, Ledger!ledger
<1> QED
  BY <1>1, <1>2, PTL DEF LedgerSpec, Ledger!Spec

\* So the session service never shows a paused session that never ran, nor an
\* archived one that was not over, however requests interleave.
THEOREM StatusesAreOrdered == Spec => []Ledger!PastIsOrdered
BY ServiceKeepsLedger, LedgerIsOrdered, PTL

-----------------------------------------------------------------------------
(* A session with one orchestrator.                                        *)

SingleRun == \A p, q \in Runs : p = q

\* A Terminate is about to remove the channels only once it has written the row,
\* unless there was no row left to write.
RemovalsFollowEnd ==
  \A a \in Actors : req[a].step = "remove" => "ended" \in past \/ status = Deleted

\* What has been, has been; and a deleted row does not come back.
LEMMA HistoryGrows ==
  ASSUME TypeOK, RequestsMakeSense, [Next]_vars
  PROVE  /\ past \subseteq past'
         /\ status = Deleted => status' = Deleted
BY RowWrites DEF row

LEMMA NextRemovals ==
  ASSUME TypeOK, RequestsMakeSense, RemovalsFollowEnd, [Next]_vars
  PROVE  RemovalsFollowEnd'
<1> SUFFICES ASSUME NEW b \in Actors, req'[b].step = "remove"
             PROVE  "ended" \in past' \/ status' = Deleted
  BY DEF RemovalsFollowEnd, Actors
<1>1. CASE req[b].step = "remove"
  BY <1>1, HistoryGrows DEF RemovalsFollowEnd
<1>2. CASE req[b].step # "remove"
  <2>1. ~ \E op \in ServiceOps : Accept(b, op)
    BY DEF Accept, TypeOK
  <2>2. Serve(b)
    BY <1>2, <2>1, RequestSteps
  <2>3. Write(b) /\ req[b].op = "terminate"
    <3>1. ~Lookup(b)
      BY LookupRequest, ReturnRequest, GotoRequest DEF Lookup, Steps
    <3>2. ~WriteFails(b) /\ ~Launch(b) /\ ~Send(b) /\ ~SendTimeout(b) /\ ~Remove(b)
      BY ReturnRequest, GotoRequest DEF WriteFails, Launch, Send, SendTimeout, Remove, Steps
    <3>3. Write(b)
      BY <2>2, <3>1, <3>2 DEF Serve
    <3>4. CASE req[b].op # "terminate"
      BY <3>3, <3>4, ReturnRequest, GotoRequest DEF Write, Steps
    <3> QED
      BY <3>3, <3>4
  <2> QED
    BY <2>3 DEF Write, UpdateStatus, Target, row
<1> QED
  BY <1>1, <1>2

\* The only orchestrator takes its channels from the map, or puts them there, and
\* takes them out when it is over; else only the end of a Terminate does so.
LEMMA NextReach ==
  ASSUME TypeOK, RequestsMakeSense, RemovalsFollowEnd, SingleRun, InReach, [Next]_vars
  PROVE  InReach'
<1> SUFFICES ASSUME NEW r \in Runs, pc'[r] \in {"active", "waiting", "speaking"},
                    chans' # ch'[r]
             PROVE  "ended" \in past' \/ status' = Deleted
  BY DEF InReach
<1>0. InReach => pc[r] \notin {"active", "waiting", "speaking"} \/ chans = ch[r]
                   \/ "ended" \in past' \/ status' = Deleted
  BY HistoryGrows DEF InReach
<1>1. ASSUME NEW s \in Runs, Orchestrate(s)
      PROVE  "ended" \in past' \/ status' = Deleted
  <2>0. s = r
    BY DEF SingleRun
  <2>1. CASE InitChannels(s)
    BY <2>0, <2>1 DEF InitChannels, TypeOK
  <2>2. CASE Load(s) \/ LoadFails(s) \/ ExecuteFails(s) \/ Conclude(s)
    BY <2>0, <2>2 DEF Load, LoadFails, ExecuteFails, Conclude, Move, TypeOK
  <2>3. CASE Interrupted(s) \/ NotInterrupted(s) \/ Resumed(s) \/ Continue(s)
    BY <1>0, <2>0, <2>3 DEF Interrupted, NotInterrupted, Resumed, Continue, Move
  <2>4. CASE Panic(s) \/ CloseTwice(s) \/ AutoTerminate(s) \/ Exit(s)
    BY <2>0, <2>4 DEF Panic, CloseTwice, AutoTerminate, Exit, Unwind, TypeOK
  <2> QED
    BY <1>1, <2>1, <2>2, <2>3, <2>4 DEF Orchestrate
<1>2. ASSUME NEW a \in Actors, Serve(a)
      PROVE  "ended" \in past' \/ status' = Deleted
  <2>1. CASE Launch(a)
    BY <1>0, <2>1 DEF Launch, TypeOK
  <2>2. CASE Remove(a)
    BY <2>2, HistoryGrows DEF Remove, RemovalsFollowEnd
  <2>3. CASE Write(a) \/ WriteFails(a) \/ Lookup(a) \/ Send(a) \/ SendTimeout(a)
    BY <1>0, <2>3 DEF Write, WriteFails, Lookup, Send, SendTimeout, goros
  <2> QED
    BY <1>2, <2>1, <2>2, <2>3 DEF Serve
<1>3. ASSUME NEW c \in Clients, Call(c) \/ Delete(c)
      PROVE  "ended" \in past' \/ status' = Deleted
  BY <1>0, <1>3 DEF Call, Delete, goros
<1>4. ASSUME NEW t \in Tabs, Refresh(t) \/ Follow(t)
      PROVE  "ended" \in past' \/ status' = Deleted
  BY <1>0, <1>4, PageStep DEF row, goros
<1>5. CASE UNCHANGED vars
  BY <1>0, <1>5 DEF vars, goros
<1> QED
  BY <1>1, <1>2, <1>3, <1>4, <1>5 DEF Next

\* As long as nobody ended or deleted the session, the only orchestrator listens
\* to the channels a Pause or a Resume will find in the map, however requests,
\* failures and the orchestrator's own end interleave (GetChannels and
\* InitChannels, session/service.go).
THEOREM LoneRunIsInReach ==
  ASSUME SingleRun
  PROVE  Spec => []InReach
<1>1. Init => RemovalsFollowEnd /\ InReach
  BY DEF Init, RemovalsFollowEnd, InReach, Idle
<1>2. IInv /\ RemovalsFollowEnd /\ InReach /\ [Next]_vars => RemovalsFollowEnd' /\ InReach'
  BY NextRemovals, NextReach DEF IInv
<1> QED
  BY <1>1, <1>2, Invariance, PTL DEF Spec

-----------------------------------------------------------------------------
(* What a tab hears of the only orchestrator, and what it shows.           *)

\* The event stream of a tab holds every event of one orchestrator: one when it
\* stops in a round, one when it goes on.
EventsFit == 2 * MaxRounds <= FeedCap

\* The last event that was published to the page p since it was loaded.
LatestOf(p) == IF p.feed = <<>> THEN p.heard ELSE p.feed[Len(p.feed)]

Latest(t) == LatestOf(page[t])

\* No event repeats the one before it, so the page takes every one of them over.
ChangingOf(p) ==
  \A i \in 1..Len(p.feed) : p.feed[i] # IF i = 1 THEN p.heard ELSE p.feed[i - 1]

Changing(t) == ChangingOf(page[t])

\* A page awaits one thing at a time, and hears nothing before it is subscribed.
InOrder(p) ==
  /\ p.answer # None => p.read = None
  /\ ~p.stream => p.heard = None /\ p.feed = <<>>

Early == {"unborn", "launched", "loaded", "active", "waiting", "speaking"}

\* What was published last says whether the orchestrator waits, and there is room
\* for what it may still publish.
Told(t, r) ==
  /\ pc[r] = "waiting" => Latest(t) \in {None, "paused"}
  /\ pc[r] # "waiting" => Latest(t) # "paused"
  /\ pc[r] \in Early =>
       /\ Latest(t) # "ended"
       /\ Len(page[t].feed) <= 2 * round[r] + (IF pc[r] = "waiting" THEN 1 ELSE 0)

\* An orchestrator in reach waits for a Resume that nobody has sent.
Waits(r) == pc[r] = "waiting" /\ ch[r] = chans /\ resumeCh[ch[r]] = 0

\* The page p, told of a waiting orchestrator and not late, shows "paused" or will
\* when its events have arrived, and nothing on its way to it says otherwise.
ShowsPause(p) ==
  LatestOf(p) # None /\ ~p.late =>
    /\ p.read = None
    /\ p.answer \in {None, "awaited", "paused"}
    /\ p.feed = <<>> => p.status = "paused"

\* No button of the page archives.
ButtonsOnly == \A t \in Tabs : req[t].op # "archive"

Followed(t, r) ==
  Changing(t) /\ InOrder(page[t]) /\ Told(t, r) /\ (Waits(r) => ShowsPause(page[t]))

TabsFollow == ButtonsOnly /\ \A t \in Tabs, r \in Runs : Followed(t, r)

\* The page of a tab, in the parts the types give it.
LEMMA PageType ==
  ASSUME TypeOK, NEW t \in Tabs
  PROVE  /\ page[t] \in Pages
         /\ page[t].feed \in Seq(Statuses)
         /\ page[t].heard \in Statuses \cup {None}
BY DEF TypeOK, Pages

\* What a page does with an answer or a row: it hears nothing, and still shows the pause
\* unless the answer says otherwise.
PageMoves(p, q) ==
  \/ q = [p EXCEPT !.stream = TRUE]
  \/ p.read = "asked" /\ \E seen \in Statuses : q = [p EXCEPT !.read = seen]
  \/ /\ p.read \in Statuses
     /\ q = [p EXCEPT !.status = p.read, !.read = None, !.late = p.late /\ p.feed = <<>>]
  \/ /\ p.answer \in Statuses
     /\ q = [p EXCEPT !.status = p.answer, !.answer = None,
                      !.read = IF p.answer = "ended" THEN "asked" ELSE p.read,
                      !.late = p.late /\ (p.answer = "ended" \/ p.feed = <<>>)]
  \/ p.answer = None /\ p.read = None /\ q = [p EXCEPT !.answer = "awaited"]
  \/ p.answer = "awaited" /\ \E answer \in Statuses \cup {None} : q = [p EXCEPT !.answer = answer]

LEMMA MovesKeepThePause ==
  ASSUME NEW p \in Pages, NEW q, PageMoves(p, q), InOrder(p)
  PROVE  /\ q.heard = p.heard /\ q.feed = p.feed /\ InOrder(q)
         /\ LatestOf(q) = LatestOf(p) /\ (ChangingOf(p) => ChangingOf(q))
         /\ ShowsPause(p) /\ (p.answer = "awaited" => q.answer \in {None, "awaited", "paused"})
              => ShowsPause(q)
<1>0. "paused" \in Statuses /\ "ended" \in Statuses /\ None \notin Statuses /\ "awaited" \notin Statuses
      /\ "asked" \notin Statuses /\ "asked" # None /\ "awaited" # None
  BY DEF Statuses, None
<1>1. CASE q = [p EXCEPT !.stream = TRUE]
  BY <1>1 DEF Pages, InOrder, ShowsPause, LatestOf, ChangingOf
<1>2. CASE p.read = "asked" /\ \E seen \in Statuses : q = [p EXCEPT !.read = seen]
  BY <1>0, <1>2 DEF Pages, InOrder, ShowsPause, LatestOf, ChangingOf
<1>3. CASE /\ p.read \in Statuses
           /\ q = [p EXCEPT !.status = p.read, !.read = None, !.late = p.late /\ p.feed = <<>>]
  <2>1. /\ q.heard = p.heard /\ q.feed = p.feed /\ q.stream = p.stream /\ q.answer = p.answer
        /\ q.read = None /\ q.late = (p.late /\ p.feed = <<>>)
    BY <1>3 DEF Pages
  <2>2. p.read # None /\ p.answer = None
    BY <1>0, <1>3 DEF InOrder
  <2> QED
    BY <2>1, <2>2 DEF InOrder, ShowsPause, LatestOf, ChangingOf
<1>4. CASE /\ p.answer \in Statuses
           /\ q = [p EXCEPT !.status = p.answer, !.answer = None,
                            !.read = IF p.answer = "ended" THEN "asked" ELSE p.read,
                            !.late = p.late /\ (p.answer = "ended" \/ p.feed = <<>>)]
  <2>1. /\ q.heard = p.heard /\ q.feed = p.feed /\ q.stream = p.stream /\ q.answer = None
        /\ q.status = p.answer
        /\ q.read = IF p.answer = "ended" THEN "asked" ELSE p.read
        /\ q.late = (p.late /\ (p.answer = "ended" \/ p.feed = <<>>))
    BY <1>4 DEF Pages
  <2>2. p.answer # None /\ p.answer # "awaited" /\ p.read = None
    BY <1>0, <1>4 DEF InOrder
  <2> QED
    BY <2>1, <2>2 DEF InOrder, ShowsPause, LatestOf, ChangingOf
<1>5. CASE p.answer = None /\ p.read = None /\ q = [p EXCEPT !.answer = "awaited"]
  BY <1>5 DEF Pages, InOrder, ShowsPause, LatestOf, ChangingOf
<1>6. CASE p.answer = "awaited" /\ \E answer \in Statuses \cup {None} : q = [p EXCEPT !.answer = answer]
  BY <1>0, <1>6 DEF Pages, InOrder, ShowsPause, LatestOf, ChangingOf
<1> QED
  BY <1>1, <1>2, <1>3, <1>4, <1>5, <1>6 DEF PageMoves

\* The page p is sent an event and becomes q.
Published(p, event, q) ==
  q = [p EXCEPT !.feed = IF p.stream /\ Len(p.feed) < FeedCap THEN Append(p.feed, event) ELSE p.feed,
                !.late = p.answer \in Statuses \/ p.read # None]

\* An event that is new to a page goes to the end of its feed when there is room.
LEMMA EventIsLast ==
  ASSUME NEW p \in Pages, NEW event \in Statuses, NEW q, Published(p, event, q),
         ChangingOf(p), InOrder(p), LatestOf(p) # event
  PROVE  /\ ChangingOf(q) /\ InOrder(q) /\ LatestOf(q) \in {LatestOf(p), event}
         /\ ~p.stream => LatestOf(q) = None /\ Len(q.feed) = 0
         /\ p.stream /\ Len(p.feed) < FeedCap =>
              LatestOf(q) = event /\ q.feed # <<>> /\ Len(q.feed) = Len(p.feed) + 1
         /\ (p.stream => Len(p.feed) < FeedCap) => ShowsPause(q)
<1> DEFINE feed == p.feed
<1>0. feed \in Seq(Statuses) /\ None \notin Statuses
  BY DEF Pages, Statuses, None
<1>1. /\ q.heard = p.heard /\ q.stream = p.stream /\ q.answer = p.answer /\ q.read = p.read
      /\ q.late = (p.answer \in Statuses \/ p.read # None)
      /\ q.feed = IF p.stream /\ Len(feed) < FeedCap THEN Append(feed, event) ELSE feed
  BY DEF Published, Pages
<1>2. CASE p.stream /\ Len(feed) < FeedCap
  <2>2. q.feed = Append(feed, event)
    BY <1>1, <1>2
  <2>3. /\ Len(Append(feed, event)) = Len(feed) + 1
        /\ Append(feed, event)[Len(feed) + 1] = event
        /\ \A i \in 1..Len(feed) : Append(feed, event)[i] = feed[i]
        /\ Append(feed, event) # <<>>
    BY <1>0
  <2>4. LatestOf(q) = event
    BY <1>0, <2>2, <2>3 DEF LatestOf
  <2>5. ChangingOf(q)
    <3> SUFFICES ASSUME NEW i \in 1..Len(Append(feed, event))
                 PROVE  Append(feed, event)[i] #
                          IF i = 1 THEN p.heard ELSE Append(feed, event)[i - 1]
      BY <1>1, <2>2 DEF ChangingOf
    <3>1. CASE i \in 1..Len(feed)
      <4>1. i = 1 \/ i - 1 \in 1..Len(feed)
        BY <1>0, <3>1
      <4> QED
        BY <2>3, <3>1, <4>1 DEF ChangingOf
    <3>2. CASE i = Len(feed) + 1
      <4>1. CASE feed = <<>>
        BY <1>0, <2>3, <3>2, <4>1 DEF LatestOf
      <4>2. CASE feed # <<>>
        <5>1. Len(feed) \in 1..Len(feed) /\ i # 1 /\ i - 1 = Len(feed)
          BY <1>0, <3>2, <4>2
        <5> QED
          BY <2>3, <3>2, <4>2, <5>1 DEF LatestOf
      <4> QED
        BY <4>1, <4>2
    <3> QED
      BY <1>0, <2>3, <3>1, <3>2
  <2>6. InOrder(q)
    BY <1>1, <1>2 DEF InOrder
  <2>7. ShowsPause(q)
    <3>1. ~q.late => q.read = None /\ q.answer \notin Statuses
      BY <1>1
    <3>2. p.answer \in Statuses \cup {None, "awaited"}
      BY DEF Pages
    <3>3. q.feed # <<>>
      BY <2>2, <2>3
    <3> QED
      BY <1>1, <3>1, <3>2, <3>3 DEF ShowsPause
  <2> QED
    BY <1>2, <2>2, <2>3, <2>4, <2>5, <2>6, <2>7
<1>3. CASE ~(p.stream /\ Len(feed) < FeedCap)
  <2>1. q.feed = feed
    BY <1>1, <1>3
  <2>2. ChangingOf(q) /\ InOrder(q) /\ LatestOf(q) = LatestOf(p)
    BY <1>1, <2>1 DEF ChangingOf, InOrder, LatestOf
  <2>3. ~p.stream => LatestOf(p) = None /\ feed = <<>>
    BY DEF InOrder, LatestOf
  <2>4. ~p.stream => ShowsPause(q)
    BY <2>2, <2>3 DEF ShowsPause
  <2> QED
    BY <1>3, <2>1, <2>2, <2>3, <2>4
<1> QED
  BY <1>2, <1>3

\* The latest status a page was told, from its two parts.
LEMMA LatestIs ==
  ASSUME NEW q, NEW feed, NEW heard, q.feed = feed, q.heard = heard
  PROVE  LatestOf(q) = IF feed = <<>> THEN heard ELSE feed[Len(feed)]
BY DEF LatestOf

\* An event that arrives is new to the page, which shows it.
LEMMA EventIsTaken ==
  ASSUME NEW p \in Pages, NEW q, p.feed # <<>>, ChangingOf(p), InOrder(p),
         q = [p EXCEPT !.status = IF Head(p.feed) = p.heard THEN p.status ELSE Head(p.feed),
                       !.heard = Head(p.feed), !.feed = Tail(p.feed)]
  PROVE  /\ ChangingOf(q) /\ InOrder(q) /\ LatestOf(q) = LatestOf(p)
         /\ Len(q.feed) < Len(p.feed)
         /\ LatestOf(p) \in {None, "paused"} /\ ShowsPause(p) => ShowsPause(q)
<1> DEFINE feed == p.feed
<1>0. feed \in Seq(Statuses) /\ feed # <<>>
  BY DEF Pages
<1>1. /\ q.status = IF Head(feed) = p.heard THEN p.status ELSE Head(feed)
      /\ q.heard = Head(feed) /\ q.feed = Tail(feed)
      /\ q.stream = p.stream /\ q.answer = p.answer /\ q.read = p.read /\ q.late = p.late
  BY DEF Pages
<1>2. /\ Len(Tail(feed)) = Len(feed) - 1 /\ Len(feed) \in Nat \ {0}
      /\ \A i \in 1..Len(Tail(feed)) : Tail(feed)[i] = feed[i + 1]
      /\ Head(feed) = feed[1]
      /\ Tail(feed) = <<>> <=> Len(feed) = 1
      /\ 1 \in 1..Len(feed)
  <2>1. /\ Len(Tail(feed)) = Len(feed) - 1 /\ Len(feed) \in Nat \ {0}
        /\ Head(feed) = feed[1] /\ Tail(feed) \in Seq(Statuses)
    BY <1>0
  <2>2. \A i \in 1..Len(Tail(feed)) : Tail(feed)[i] = feed[i + 1]
    BY <1>0
  <2>3. Tail(feed) = <<>> <=> Len(Tail(feed)) = 0
    BY <2>1, EmptySeq
  <2> QED
    BY <2>1, <2>2, <2>3
<1>3. feed[1] # p.heard
  BY <1>2 DEF ChangingOf
<1>4. ChangingOf(q)
  <2>1. ASSUME NEW i \in 1..Len(Tail(feed))
        PROVE  Tail(feed)[i] # IF i = 1 THEN feed[1] ELSE Tail(feed)[i - 1]
    <3>1. i + 1 \in 1..Len(feed) /\ i + 1 # 1 /\ (i = 1 \/ i - 1 \in 1..Len(Tail(feed)))
      BY <1>2
    <3>2. \A j \in 1..Len(feed) : j # 1 => feed[j] # feed[j - 1]
      BY DEF ChangingOf
    <3>3. (i + 1) - 1 = i
      BY <1>2
    <3>4. feed[i + 1] # feed[i]
      BY <3>1, <3>2, <3>3
    <3> QED
      BY <1>2, <3>1, <3>4
  <2>2. \A i \in 1..Len(q.feed) : q.feed[i] # IF i = 1 THEN q.heard ELSE q.feed[i - 1]
    <3>1. q.feed = Tail(feed) /\ q.heard = feed[1]
      BY <1>1, <1>2
    <3> HIDE DEF feed
    <3> QED
      BY <2>1, <3>1
  <2> QED
    BY <2>2 DEF ChangingOf
<1>5. LatestOf(q) = LatestOf(p)
  <2>0. q.feed = Tail(feed) /\ q.heard = feed[1]
    BY <1>1, <1>2
  <2>1. /\ LatestOf(q) = IF Tail(feed) = <<>> THEN feed[1] ELSE Tail(feed)[Len(Tail(feed))]
        /\ LatestOf(p) = feed[Len(feed)]
    <3>1. LatestOf(p) = feed[Len(feed)]
      BY DEF LatestOf
    <3>2. LatestOf(q) = IF Tail(feed) = <<>> THEN feed[1] ELSE Tail(feed)[Len(Tail(feed))]
      BY <2>0, LatestIs
    <3> QED
      BY <3>1, <3>2
  <2>2. CASE Len(feed) = 1
    BY <1>2, <2>1, <2>2
  <2>3. CASE Len(feed) # 1
    <3>1. Len(feed) - 1 \in 1..Len(Tail(feed))
      BY <1>2, <2>3
    <3>2. Tail(feed)[Len(feed) - 1] = feed[(Len(feed) - 1) + 1]
      BY <1>2, <3>1
    <3>3. (Len(feed) - 1) + 1 = Len(feed)
      BY <1>2
    <3> QED
      BY <1>2, <2>1, <2>3, <3>2, <3>3
  <2> QED
    BY <2>2, <2>3
<1>6. q.feed = <<>> => q.status = LatestOf(p)
  BY <1>0, <1>1, <1>2, <1>3 DEF LatestOf
<1>7. InOrder(q)
  BY <1>0, <1>1 DEF InOrder
<1>8. LatestOf(p) \in {None, "paused"} /\ ShowsPause(p) => ShowsPause(q)
  BY <1>1, <1>5, <1>6 DEF ShowsPause
<1>9. Len(q.feed) < Len(feed)
  BY <1>1, <1>2
<1> QED
  BY <1>4, <1>5, <1>7, <1>8, <1>9

\* Whatever leaves a tab's feed alone, and the orchestrator waiting or not, leaves
\* it told.
LEMMA StillTold ==
  ASSUME NEW t \in Tabs, NEW r \in Runs, Told(t, r),
         Latest(t)' = Latest(t), Len(page'[t].feed) <= Len(page[t].feed),
         Len(page'[t].feed) \in Nat, Len(page[t].feed) \in Nat, round[r] \in Nat,
         pc'[r] \in Early => pc[r] \in Early /\ round'[r] = round[r],
         pc'[r] = "waiting" <=> pc[r] = "waiting"
  PROVE  Told(t, r)'
<1>1. CASE pc[r] = "waiting"
  <2>1. pc'[r] = "waiting" /\ round'[r] = round[r]
    BY <1>1 DEF Early
  <2>2. Latest(t) \in {None, "paused"} /\ Latest(t) # "ended"
    BY <1>1 DEF Told, Early
  <2>3. Len(page[t].feed) <= 2 * round[r] + 1
    BY <1>1 DEF Told, Early
  <2> QED
    BY <2>1, <2>2, <2>3 DEF Told
<1>2. CASE pc[r] # "waiting"
  <2>1. pc'[r] # "waiting" /\ Latest(t)' # "paused"
    BY <1>2 DEF Told
  <2>2. ASSUME pc'[r] \in Early
        PROVE  /\ Latest(t)' # "ended"
               /\ Len(page'[t].feed) <= 2 * round'[r] + (IF pc'[r] = "waiting" THEN 1 ELSE 0)
    <3>1. Latest(t)' # "ended" /\ round'[r] = round[r] /\ pc[r] \in Early
      BY <2>2 DEF Told
    <3>2. Len(page[t].feed) <= 2 * round[r]
      BY <1>2, <3>1 DEF Told
    <3>3. Len(page'[t].feed) <= 2 * round[r]
      BY <3>2
    <3> QED
      BY <2>1, <3>1, <3>3
  <2> QED
    BY <2>1, <2>2, Zenon DEF Told
<1> QED
  BY <1>1, <1>2

\* The orchestrator's own steps.
LEMMA OrchestratorTells ==
  ASSUME TypeOK, RunsMakeSense, SingleRun, EventsFit, TabsFollow,
         NEW t \in Tabs, NEW r \in Runs, Orchestrate(r)
  PROVE  Followed(t, r)'
<1> DEFINE p == page[t]
           q == page'[t]
<1>0. /\ Changing(t) /\ InOrder(p) /\ Told(t, r)
      /\ p \in Pages /\ Len(p.feed) \in Nat
      /\ round[r] \in 0..MaxRounds /\ MaxRounds \in Nat /\ FeedCap \in Nat
      /\ pc \in [Runs -> PCs] /\ round \in [Runs -> 0..MaxRounds]
  BY PageType, ConstantsAssumption DEF TabsFollow, Followed, TypeOK
<1>a. \A event : Publish(event) => Published(p, event, q)
  BY DEF Publish, Published
<1>b. ChangingOf(p) /\ Latest(t) = LatestOf(p)
  BY <1>0 DEF Changing, Latest
<1>c. Told(t, r) <=> /\ pc[r] = "waiting" => LatestOf(p) \in {None, "paused"}
                     /\ pc[r] # "waiting" => LatestOf(p) # "paused"
                     /\ pc[r] \in Early =>
                          /\ LatestOf(p) # "ended"
                          /\ Len(p.feed) <= 2 * round[r] + (IF pc[r] = "waiting" THEN 1 ELSE 0)
  BY DEF Told, Latest
<1>d. /\ pc'[r] = "waiting" => LatestOf(q) \in {None, "paused"}
      /\ pc'[r] # "waiting" => LatestOf(q) # "paused"
      /\ pc'[r] \in Early =>
           /\ LatestOf(q) # "ended"
           /\ Len(q.feed) <= 2 * round'[r] + (IF pc'[r] = "waiting" THEN 1 ELSE 0)
      => Told(t, r)'
  BY DEF Told, Latest
<1> HIDE DEF p, q
<1>1. CASE Interrupted(r)
  <2>1. /\ pc[r] = "active" /\ pc'[r] = "waiting" /\ round' = round
        /\ round[r] < MaxRounds /\ Publish("paused")
    BY <1>0, <1>1 DEF Interrupted, Move, RunsMakeSense
  <2>2. LatestOf(p) # "paused" /\ Len(p.feed) <= 2 * round[r]
    BY <1>0, <1>c, <2>1 DEF Early
  <2>3. Len(p.feed) < FeedCap
    BY <1>0, <2>1, <2>2 DEF EventsFit
  <2>4. Published(p, "paused", q) /\ "paused" \in Statuses
    BY <1>a, <2>1 DEF Statuses
  <2>5. /\ ChangingOf(q) /\ InOrder(q) /\ ShowsPause(q)
        /\ ~p.stream => LatestOf(q) = None /\ Len(q.feed) = 0
        /\ p.stream => LatestOf(q) = "paused" /\ Len(q.feed) = Len(p.feed) + 1
    BY <1>0, <1>b, <2>2, <2>3, <2>4, EventIsLast
  <2>6. LatestOf(q) \in {None, "paused"} /\ Len(q.feed) <= 2 * round[r] + 1
    BY <1>0, <2>2, <2>5
  <2>7. Told(t, r)'
    BY <1>d, <2>1, <2>6 DEF None
  <2> QED
    BY <2>5, <2>7 DEF Followed, Changing, q
<1>2. CASE Resumed(r)
  <2>1. /\ pc[r] = "waiting" /\ pc'[r] = "speaking" /\ round'[r] = round[r] + 1
        /\ round[r] < MaxRounds /\ Publish("running")
    BY <1>0, <1>2 DEF Resumed, Move, BeginRound, RunsMakeSense
  <2>2. LatestOf(p) \in {None, "paused"} /\ Len(p.feed) <= 2 * round[r] + 1
    BY <1>0, <1>c, <2>1 DEF Early
  <2>3. Len(p.feed) < FeedCap
    BY <1>0, <2>1, <2>2 DEF EventsFit
  <2>4. Published(p, "running", q) /\ "running" \in Statuses /\ LatestOf(p) # "running"
    BY <1>a, <2>1, <2>2 DEF Statuses, None
  <2>5. /\ ChangingOf(q) /\ InOrder(q)
        /\ ~p.stream => LatestOf(q) = None /\ Len(q.feed) = 0
        /\ p.stream => LatestOf(q) = "running" /\ Len(q.feed) = Len(p.feed) + 1
    BY <1>0, <1>b, <2>3, <2>4, EventIsLast
  <2>6. LatestOf(q) \in {None, "running"} /\ Len(q.feed) <= 2 * round'[r]
    BY <1>0, <2>1, <2>2, <2>5
  <2>7. Len(q.feed) <= 2 * round'[r] + (IF pc'[r] = "waiting" THEN 1 ELSE 0)
    BY <1>0, <2>1, <2>6
  <2>8. LatestOf(q) \notin {"paused", "ended"}
    BY <2>6 DEF None
  <2>9. Told(t, r)'
    BY <1>d, <2>1, <2>7, <2>8
  <2> QED
    BY <2>1, <2>5, <2>9 DEF Followed, Changing, Waits, q
<1>3. CASE Conclude(r)
  <2>1. /\ pc[r] = "speaking" /\ pc'[r] = "returned"
        /\ Publish("ended") \/ UNCHANGED page
    BY <1>0, <1>3 DEF Conclude, Move
  <2>2. LatestOf(p) \notin {"paused", "ended"}
    BY <1>0, <1>c, <2>1 DEF Early
  <2>3. ChangingOf(q) /\ InOrder(q) /\ LatestOf(q) # "paused"
    <3>1. CASE UNCHANGED page
      BY <1>0, <1>b, <2>2, <3>1 DEF p, q
    <3>2. CASE Publish("ended")
      <4>1. ChangingOf(q) /\ InOrder(q) /\ LatestOf(q) \in {LatestOf(p), "ended"}
        BY <1>0, <1>a, <1>b, <2>2, <3>2, EventIsLast DEF Statuses
      <4> QED
        BY <2>2, <4>1
    <3> QED
      BY <2>1, <3>1, <3>2
  <2>4. Told(t, r)'
    BY <1>d, <2>1, <2>3 DEF Early
  <2> QED
    BY <2>1, <2>3, <2>4 DEF Followed, Changing, Waits, q
<1>4. CASE NotInterrupted(r)
  <2>1. pc[r] = "active" /\ pc'[r] = "speaking" /\ round'[r] = round[r] + 1 /\ page' = page
    BY <1>0, <1>4 DEF NotInterrupted, Move, BeginRound
  <2>2. q = p
    BY <2>1 DEF p, q
  <2>3. LatestOf(p) \notin {"paused", "ended"} /\ Len(p.feed) <= 2 * round[r]
    BY <1>0, <1>c, <2>1 DEF Early
  <2>4. Len(q.feed) <= 2 * round'[r]
    BY <1>0, <2>1, <2>2, <2>3
  <2>5. Len(q.feed) <= 2 * round'[r] + (IF pc'[r] = "waiting" THEN 1 ELSE 0)
    BY <1>0, <2>1, <2>4
  <2>6. Told(t, r)'
    BY <1>d, <2>1, <2>2, <2>3, <2>5
  <2> QED
    BY <1>0, <1>b, <2>1, <2>2, <2>6 DEF Followed, Changing, Waits, q
<1>5. CASE \/ Load(r) \/ LoadFails(r) \/ InitChannels(r) \/ Continue(r) \/ ExecuteFails(r)
           \/ Panic(r) \/ CloseTwice(r) \/ AutoTerminate(r) \/ Exit(r)
  <2>1. page' = page
    BY <1>5 DEF Load, LoadFails, InitChannels, Continue, ExecuteFails, Panic, CloseTwice,
                AutoTerminate, Exit
  <2>2. /\ pc'[r] \in Early => pc[r] \in Early /\ round'[r] = round[r]
        /\ pc[r] # "waiting" /\ pc'[r] # "waiting"
    BY <1>0, <1>5 DEF Load, LoadFails, InitChannels, Continue, ExecuteFails, Panic,
                      CloseTwice, Unwind, AutoTerminate, Exit, Move, Early
  <2>3. q = p
    BY <2>1 DEF p, q
  <2>4. Told(t, r)'
    BY <1>0, <1>c, <1>d, <2>2, <2>3
  <2> QED
    BY <1>0, <1>b, <2>2, <2>3, <2>4 DEF Followed, Changing, Waits, q
<1> QED
  BY <1>1, <1>2, <1>3, <1>4, <1>5 DEF Orchestrate

\* A step in which a page moves, or nothing happens to it, and the orchestrator does not.
LEMMA StillFollowed ==
  ASSUME TypeOK, NEW t \in Tabs, NEW r \in Runs, Followed(t, r),
         page'[t] = page[t] \/ PageMoves(page[t], page'[t]),
         pc'[r] \in Early => pc[r] \in Early /\ round'[r] = round[r],
         pc'[r] = "waiting" <=> pc[r] = "waiting",
         Waits(r)' => /\ Waits(r)
                      /\ page[t].answer = "awaited" =>
                           page'[t].answer \in {None, "awaited", "paused"}
  PROVE  Followed(t, r)'
<1> DEFINE p == page[t]
           q == page'[t]
<1>0. /\ p \in Pages /\ Len(p.feed) \in Nat /\ round[r] \in Nat
      /\ ChangingOf(p) /\ InOrder(p) /\ (Waits(r) => ShowsPause(p))
  BY PageType, ConstantsAssumption DEF TypeOK, Followed, Changing
<1>1. /\ q.feed = p.feed /\ LatestOf(q) = LatestOf(p) /\ ChangingOf(q) /\ InOrder(q)
      /\ ShowsPause(p) /\ (p.answer = "awaited" => q.answer \in {None, "awaited", "paused"})
           => ShowsPause(q)
  <2>1. CASE q = p
    BY <1>0, <2>1
  <2>2. CASE PageMoves(p, q)
    <3> HIDE DEF p, q
    <3> QED
      BY <1>0, <2>2, MovesKeepThePause
  <2> QED
    BY <2>1, <2>2
<1>2. Told(t, r)'
  <2>1. Latest(t)' = Latest(t)
    BY <1>1 DEF Latest
  <2>2. Len(page'[t].feed) <= Len(page[t].feed) /\ Len(page'[t].feed) \in Nat
        /\ Len(page[t].feed) \in Nat
    BY <1>0, <1>1
  <2>3. Told(t, r)
    BY DEF Followed
  <2> QED
    BY <1>0, <2>1, <2>2, <2>3, StillTold
<1>3. Waits(r)' => ShowsPause(q)
  BY <1>0, <1>1
<1>4. Changing(t)'
  BY <1>1 DEF Changing
<1> QED
  BY <1>1, <1>2, <1>3, <1>4 DEF Followed

\* An answer reaches the page that awaits it.
LEMMA AnswerMoves ==
  ASSUME TypeOK, RequestsMakeSense, NEW t \in Tabs, NEW a \in Actors, req[a].step # "idle",
         Succeed(a) \/ Fail(a)
  PROVE  /\ page'[t] = page[t] \/ PageMoves(page[t], page'[t])
         /\ page'[t] # page[t] =>
              a = t /\ (page'[t].answer = None \/ (Succeed(t) /\ page'[t].answer = Target(req[t].op)))
<1>1. PICK answer \in Statuses \cup {None} :
             Answer(a, answer) /\ (answer = None \/ (Succeed(a) /\ answer = Target(req[a].op)))
  <2>1. Target(req[a].op) \in Statuses
    BY TargetIsStatus DEF RequestsMakeSense, Statuses
  <2> QED
    BY <2>1 DEF Succeed, Fail
<1>2. CASE a = t /\ page[t].answer = "awaited"
  <2>1. page[t] \in Pages
    BY PageType
  <2>2. page'[t] = [page[t] EXCEPT !.answer = answer]
    BY <1>1, <1>2 DEF Answer, TypeOK
  <2>3. PageMoves(page[t], page'[t])
    BY <1>2, <2>2 DEF PageMoves
  <2>4. page'[t].answer = answer
    BY <2>1, <2>2 DEF Pages
  <2> QED
    BY <1>1, <1>2, <2>3, <2>4
<1>3. CASE ~(a = t /\ page[t].answer = "awaited")
  BY <1>1, <1>3 DEF Answer, TypeOK
<1> QED
  BY <1>2, <1>3

\* The steps of the requests.
LEMMA AnswersTell ==
  ASSUME TypeOK, RequestsMakeSense, RunsMakeSense, SingleRun, TabsFollow,
         NEW t \in Tabs, NEW r \in Runs, NEW a \in Actors, Serve(a)
  PROVE  Followed(t, r)'
<1>0. /\ Followed(t, r) /\ pc \in [Runs -> PCs]
      /\ t \in Actors /\ req[t].op # "archive"
  BY ConstantsAssumption DEF TabsFollow, ButtonsOnly, TypeOK, Actors
<1>1. req[a].step # "idle"
  BY DEF Serve, Write, WriteFails, Launch, Lookup, Send, SendTimeout, Remove
<1>2. Succeed(a) \/ Fail(a) \/ page' = page
  BY DEF Serve, Write, WriteFails, Launch, Lookup, Send, SendTimeout, Remove, Goto
<1>3. /\ page'[t] = page[t] \/ PageMoves(page[t], page'[t])
      /\ page'[t] # page[t] =>
           a = t /\ (page'[t].answer = None \/ (Succeed(t) /\ page'[t].answer = Target(req[t].op)))
  BY <1>1, <1>2, AnswerMoves
<1>4. /\ pc'[r] \in Early => pc[r] \in Early /\ round'[r] = round[r]
      /\ pc'[r] = "waiting" <=> pc[r] = "waiting"
      /\ ch' = ch
      /\ chans' \in {chans, None}
  BY <1>0 DEF Serve, Write, WriteFails, Launch, Lookup, Send, SendTimeout, Remove, goros, Early
<1>5. ASSUME Waits(r)'
      PROVE  Waits(r) /\ (page[t].answer = "awaited" => page'[t].answer \in {None, "awaited", "paused"})
  <2>0. pc[r] = "waiting" /\ ch[r] = chans' /\ resumeCh'[ch[r]] = 0
    BY <1>4, <1>5 DEF Waits
  <2>1. ch[r] \in Runs /\ chans' = chans /\ chans # None
    BY <1>4, <2>0, NoneIsNoRun DEF RunsMakeSense, Holding
  <2>2. resumeCh[ch[r]] = 0
    <3>1. CASE Send(a)
      BY <2>0, <2>1, <3>1 DEF Send, TypeOK, RequestsMakeSense
    <3>2. CASE ~Send(a)
      BY <2>0, <3>2 DEF Serve, Write, WriteFails, Launch, Lookup, SendTimeout, Remove, sigs
    <3> QED
      BY <3>1, <3>2
  <2>3. ASSUME page'[t] # page[t], page'[t].answer # None, req[t].op # "pause"
        PROVE  FALSE
    <3>0. a = t /\ Succeed(t)
      BY <1>3, <2>3
    <3>1. req[t].op \in {"start", "resume", "terminate"}
      BY <1>0, <1>1, <2>3, <3>0 DEF RequestsMakeSense, ServiceOps, Operations
    <3>2. ~Goto(t, "launch") /\ ~Goto(t, "lookup") /\ ~Goto(t, "remove") /\ ~Goto(t, "write")
      BY <1>0, <3>0, ReturnRequest, GotoRequest DEF Steps
    <3>3. ~Write(t)
      BY <3>1, <3>2 DEF Write
    <3>4. ~Launch(t)
      BY <1>0, <2>0 DEF Launch, SingleRun
    <3>5. ~WriteFails(t) /\ ~SendTimeout(t)
      <4>1. ~Fail(t)
        <5> SUFFICES ASSUME Fail(t) PROVE FALSE
          OBVIOUS
        <5>1. page[t] \in Pages
          BY PageType
        <5>2. page[t].answer = "awaited" /\ page'[t] = [page[t] EXCEPT !.answer = None]
          BY <2>3 DEF Fail, Answer, TypeOK
        <5>3. page'[t].answer = None
          BY <5>1, <5>2 DEF Pages
        <5> QED
          BY <2>3, <5>3
      <4> QED
        BY <4>1 DEF WriteFails, SendTimeout
    <3>6. ~Lookup(t) /\ ~Remove(t)
      BY <2>1, <2>3, NoneIsNoRun DEF Lookup, Remove
    <3>7. Send(t) /\ req[t].op = "resume"
      BY <3>0, <3>1, <3>2, <3>3, <3>4, <3>5, <3>6 DEF Serve, Send
    <3>8. resumeCh'[req[t].ch] = resumeCh[req[t].ch] + 1 /\ req[t].ch = ch[r]
      BY <1>0, <2>1, <3>7 DEF Send, TypeOK, RequestsMakeSense, SingleRun
    <3> QED
      BY <2>0, <2>1, <3>8 DEF TypeOK, ChanCap
  <2>4. page'[t] = page[t] \/ page'[t].answer \in {None, "paused"}
    BY <1>3, <2>3 DEF Target
  <2> QED
    BY <2>0, <2>1, <2>2, <2>4 DEF Waits
<1> QED
  BY <1>0, <1>3, <1>4, <1>5, StillFollowed

\* No call and no answer makes a tab archive.
LEMMA NextButtons ==
  ASSUME TypeOK, ButtonsOnly, [Next]_vars
  PROVE  ButtonsOnly'
<1> SUFFICES ASSUME NEW t \in Tabs PROVE req'[t].op # "archive"
  BY DEF ButtonsOnly
<1>0. t \in Actors /\ t \in Clients /\ req[t].op # "archive" /\ t \notin Runs
  BY ConstantsAssumption DEF Actors, ButtonsOnly
<1>1. ASSUME NEW c \in Clients, Call(c)
      PROVE  req'[t].op # "archive"
  <2>1. PICK op \in Operations : MayCall(c, op) /\ Accept(c, op)
    BY <1>1 DEF Call
  <2>2. c = t => op # "archive"
    BY <2>1 DEF MayCall, Buttons
  <2> QED
    BY <1>0, <2>1, <2>2 DEF Accept, TypeOK, Actors
<1>2. ASSUME NEW c \in Clients, Delete(c)
      PROVE  req'[t].op # "archive"
  BY <1>0, <1>2 DEF Delete
<1>3. ASSUME NEW u \in Tabs, Refresh(u) \/ Follow(u)
      PROVE  req'[t].op # "archive"
  BY <1>0, <1>3, PageStep
<1>4. ASSUME NEW a \in Actors, Serve(a)
      PROVE  req'[t].op # "archive"
  <2>1. req'[t] = Idle \/ req'[t].op = req[t].op
    <3>1. CASE a = t
      BY <1>0, <1>4, <3>1
      DEF Serve, Write, WriteFails, Launch, Lookup, Send, SendTimeout, Remove, Succeed, Fail,
          Return, Goto, TypeOK, Requests
    <3>2. CASE a # t
      BY <1>0, <1>4, <3>2, ServeRow
    <3> QED
      BY <3>1, <3>2
  <2> QED
    BY <1>0, <2>1 DEF Idle, None
<1>5. ASSUME NEW r \in Runs, Orchestrate(r)
      PROVE  req'[t].op # "archive"
  BY <1>0, <1>5, OrchestrateRow DEF Accept, TypeOK
<1>6. CASE UNCHANGED vars
  BY <1>0, <1>6 DEF vars
<1> QED
  BY <1>1, <1>2, <1>3, <1>4, <1>5, <1>6 DEF Next

\* What a page does but for hearing an event.
LEMMA PageMovesOn ==
  ASSUME TypeOK, NEW t \in Tabs, Subscribe(t) \/ ReadRow(t) \/ ShowRow(t) \/ ShowAnswer(t)
  PROVE  PageMoves(page[t], page'[t])
<1>0. page[t] \in Pages
  BY PageType
<1>1. CASE Subscribe(t)
  BY <1>1 DEF Subscribe, PageMoves, TypeOK
<1>2. CASE ReadRow(t)
  BY <1>2 DEF ReadRow, PageMoves, TypeOK
<1>3. CASE ShowRow(t)
  <2>1. page'[t] = [page[t] EXCEPT !.status = page[t].read, !.read = None,
                                   !.late = page[t].late /\ page[t].feed = <<>>]
    BY <1>3 DEF ShowRow, TypeOK
  <2> QED
    BY <1>3, <2>1 DEF ShowRow, PageMoves
<1>4. CASE ShowAnswer(t)
  <2>1. page'[t] = [page[t] EXCEPT !.status = page[t].answer, !.answer = None,
                      !.read = IF page[t].answer = "ended" THEN "asked" ELSE page[t].read,
                      !.late = page[t].late /\ (page[t].answer = "ended" \/ page[t].feed = <<>>)]
    BY <1>4 DEF ShowAnswer, TypeOK
  <2> QED
    BY <1>4, <2>1 DEF ShowAnswer, PageMoves
<1> QED
  BY <1>1, <1>2, <1>3, <1>4

LEMMA NextFollow ==
  ASSUME TypeOK, RequestsMakeSense, RunsMakeSense, SingleRun, EventsFit, TabsFollow, [Next]_vars
  PROVE  TabsFollow'
<1> SUFFICES ASSUME NEW t \in Tabs, NEW r \in Runs
             PROVE  Followed(t, r)'
  <2>1. ButtonsOnly'
    BY NextButtons DEF TabsFollow
  <2> QED
    BY <2>1 DEF TabsFollow
<1>0. Followed(t, r) /\ page[t] \in Pages /\ round[r] \in Nat
  BY PageType DEF TabsFollow, TypeOK
<1>1. ASSUME NEW u \in Tabs, Refresh(u), u = t
      PROVE  Followed(t, r)'
  <2>1. page'[t] = Loading /\ UNCHANGED <<pc, round>>
    BY <1>1 DEF Refresh, TypeOK, goros
  <2>2. LatestOf(page'[t]) = None /\ page'[t].feed = <<>> /\ Len(page'[t].feed) = 0
    BY <2>1 DEF LatestOf, Loading
  <2>3. ChangingOf(page'[t]) /\ InOrder(page'[t]) /\ ShowsPause(page'[t])
    BY <2>1, <2>2 DEF ChangingOf, InOrder, ShowsPause, Loading
  <2>4. Told(t, r)'
    BY <1>0, <2>1, <2>2 DEF Told, Latest, None
  <2> QED
    BY <2>3, <2>4 DEF Followed, Changing
<1>2. ASSUME NEW u \in Tabs, Deliver(u), u = t
      PROVE  Followed(t, r)'
  <2>0. /\ ChangingOf(page[t]) /\ InOrder(page[t]) /\ Told(t, r) /\ page[t].feed # <<>>
        /\ Waits(r) => ShowsPause(page[t])
    BY <1>0, <1>2 DEF Followed, Changing, Deliver
  <2>1. page'[t] = [page[t] EXCEPT
          !.status = IF Head(page[t].feed) = page[t].heard THEN page[t].status ELSE Head(page[t].feed),
          !.heard = Head(page[t].feed), !.feed = Tail(page[t].feed)]
    BY <1>2 DEF Deliver, TypeOK
  <2>2. /\ ChangingOf(page'[t]) /\ InOrder(page'[t]) /\ LatestOf(page'[t]) = LatestOf(page[t])
        /\ Len(page'[t].feed) < Len(page[t].feed)
        /\ LatestOf(page[t]) \in {None, "paused"} /\ ShowsPause(page[t]) => ShowsPause(page'[t])
    <3> DEFINE p == page[t]
               q == page'[t]
    <3>1. /\ p \in Pages /\ p.feed # <<>> /\ ChangingOf(p) /\ InOrder(p)
          /\ q = [p EXCEPT !.status = IF Head(p.feed) = p.heard THEN p.status ELSE Head(p.feed),
                           !.heard = Head(p.feed), !.feed = Tail(p.feed)]
      BY <1>0, <2>0, <2>1
    <3> HIDE DEF p, q
    <3>2. /\ ChangingOf(q) /\ InOrder(q) /\ LatestOf(q) = LatestOf(p)
          /\ Len(q.feed) < Len(p.feed)
          /\ LatestOf(p) \in {None, "paused"} /\ ShowsPause(p) => ShowsPause(q)
      BY <3>1, EventIsTaken
    <3> QED
      BY <3>2 DEF p, q
  <2>3. UNCHANGED <<pc, ch, round, chans, resumeCh>>
    BY <1>2 DEF Deliver, goros, sigs
  <2>4. Told(t, r)'
    <3>1. Latest(t)' = Latest(t)
      BY <2>2 DEF Latest
    <3>2. page'[t].feed \in Seq(Statuses) /\ page[t].feed \in Seq(Statuses)
      <4>1. TypeOK'
        BY NextType
      <4> QED
        BY <1>0, <4>1 DEF TypeOK, Pages
    <3>3. Len(page'[t].feed) \in Nat /\ Len(page[t].feed) \in Nat
          /\ Len(page'[t].feed) <= Len(page[t].feed)
      BY <2>2, <3>2
    <3> QED
      BY <1>0, <2>0, <2>3, <3>1, <3>3, StillTold
  <2>5. Waits(r)' => ShowsPause(page'[t])
    <3>1. Waits(r)' => Waits(r) /\ pc[r] = "waiting"
      BY <2>3 DEF Waits
    <3>2. pc[r] = "waiting" => LatestOf(page[t]) \in {None, "paused"}
      BY <2>0 DEF Told, Latest
    <3> QED
      BY <2>0, <2>2, <3>1, <3>2
  <2> QED
    BY <2>2, <2>4, <2>5 DEF Followed, Changing
<1>3. ASSUME NEW a \in Actors, Serve(a)
      PROVE  Followed(t, r)'
  BY <1>3, AnswersTell
<1>4. ASSUME NEW s \in Runs, Orchestrate(s)
      PROVE  Followed(t, r)'
  BY <1>4, OrchestratorTells DEF SingleRun
<1>5. ASSUME \/ page'[t] = page[t]
             \/ /\ PageMoves(page[t], page'[t])
                /\ page[t].answer = "awaited" => page'[t].answer = "awaited",
             UNCHANGED <<pc, ch, round, chans, resumeCh>>
      PROVE  Followed(t, r)'
  BY <1>0, <1>5, StillFollowed DEF Waits
<1>6. ASSUME NEW u \in Tabs, Refresh(u) \/ Follow(u), u # t
      PROVE  page'[t] = page[t] /\ UNCHANGED <<pc, ch, round, chans, resumeCh>>
  BY <1>6, PageStep DEF TypeOK, goros, sigs
<1>7. ASSUME NEW u \in Tabs, Follow(u), ~Deliver(u), u = t
      PROVE  Followed(t, r)'
  <2>1. Subscribe(t) \/ ReadRow(t) \/ ShowRow(t) \/ ShowAnswer(t)
    BY <1>7 DEF Follow
  <2>2. page[t].answer = "awaited" => page'[t].answer = "awaited"
    <3>1. ~(page[t].answer = "awaited" /\ ShowAnswer(t))
      BY DEF ShowAnswer, Statuses
    <3> QED
      BY <1>0, <2>1, <3>1 DEF Subscribe, ReadRow, ShowRow, TypeOK, Pages
  <2>3. UNCHANGED <<pc, ch, round, chans, resumeCh>>
    BY <1>7, PageStep DEF goros, sigs
  <2> QED
    BY <1>5, <2>1, <2>2, <2>3, PageMovesOn
<1>8. ASSUME NEW c \in Clients, Delete(c)
      PROVE  page'[t] = page[t] /\ UNCHANGED <<pc, ch, round, chans, resumeCh>>
  BY <1>8 DEF Delete, goros, sigs
<1>9. ASSUME NEW c \in Clients, Call(c)
      PROVE  Followed(t, r)'
  <2>1. UNCHANGED <<pc, ch, round, chans, resumeCh>>
    BY <1>9 DEF Call, goros, sigs
  <2>2. CASE c = t
    <3>1. page[t].answer = None /\ page[t].read = None
      BY <1>9, <2>2 DEF Call, MayCall
    <3>2. page'[t] = [page[t] EXCEPT !.answer = "awaited"]
      BY <1>9, <2>2 DEF Call, TypeOK
    <3>3. PageMoves(page[t], page'[t])
      BY <3>1, <3>2 DEF PageMoves
    <3>4. page[t].answer # "awaited"
      BY <3>1 DEF None
    <3> QED
      BY <1>5, <2>1, <3>3, <3>4
  <2>3. CASE c # t
    <3>1. page'[t] = page[t]
      BY <1>9, <2>3 DEF Call, TypeOK
    <3> QED
      BY <1>5, <2>1, <3>1
  <2> QED
    BY <2>2, <2>3
<1>10. CASE UNCHANGED vars
  BY <1>5, <1>10 DEF vars, goros, sigs
<1> QED
  BY <1>1, <1>2, <1>3, <1>4, <1>5, <1>6, <1>7, <1>8, <1>9, <1>10 DEF Next

\* Any tab that has heard an event since it was loaded, has received all that were
\* published, and shows no answer or row that an event overtook, offers to resume
\* whenever the only orchestrator waits within its reach for a signal that nobody has
\* sent: however many clients and tabs pause and resume it at once, because each event
\* that reaches the page differs from the one before (the effect of SessionDetail.tsx
\* on sseStatus), and as long as the buffers hold the two events a round can publish.
THEOREM WaitersAreShown ==
  ASSUME SingleRun, EventsFit
  PROVE  Spec => []WaiterIsShown
<1>1. Init => TabsFollow
  <2> SUFFICES ASSUME Init PROVE TabsFollow
    OBVIOUS
  <2>1. ButtonsOnly
    BY ConstantsAssumption DEF Init, ButtonsOnly, Idle, None, Actors
  <2>2. ASSUME NEW t \in Tabs, NEW r \in Runs
        PROVE  Followed(t, r)
    <3>1. page[t] = Loading /\ pc[r] = "unborn" /\ round[r] = 0
      BY DEF Init
    <3>2. LatestOf(page[t]) = None /\ Len(page[t].feed) = 0
      BY <3>1 DEF LatestOf, Loading
    <3>3. ChangingOf(page[t]) /\ InOrder(page[t]) /\ ~Waits(r)
      BY <3>1 DEF ChangingOf, InOrder, Waits, Loading
    <3>4. Told(t, r)
      BY <3>1, <3>2 DEF Told, Latest, None
    <3> QED
      BY <3>3, <3>4 DEF Followed, Changing
  <2> QED
    BY <2>1, <2>2 DEF TabsFollow
<1>2. IInv /\ TabsFollow /\ [Next]_vars => TabsFollow'
  BY NextFollow DEF IInv
<1>3. TabsFollow => WaiterIsShown
  BY DEF TabsFollow, Followed, ShowsPause, LatestOf, Waits, WaiterIsShown
<1> QED
  BY <1>1, <1>2, <1>3, Invariance, PTL DEF Spec
=============================================================================
