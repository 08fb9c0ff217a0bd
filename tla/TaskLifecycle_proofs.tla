------------------------ MODULE TaskLifecycle_proofs -------------------------
(***************************************************************************)
(* Every version of a task follows by one legal call from a version it     *)
(* has had: the task service, its handlers and the validations implement   *)
(* TaskLedger for any number of users, validations, agents and calls.      *)
(* What that leaves in the task: a completion, a user's last edit, and the *)
(* return of a task that a validation had to itself.                       *)
(***************************************************************************)
EXTENDS TaskLifecycle, SequenceTheorems, TLAPS

-----------------------------------------------------------------------------
(* What each call makes of a task.                                         *)

\* What a change of the status makes of a task, and that it is one.
LEMMA RestatedIsTask ==
  ASSUME NEW t \in Tasks, NEW s \in TaskStatuses
  PROVE  /\ Restated(t, s) \in Tasks
         /\ Restated(t, s).status = s
         /\ Restated(t, s).dated <=> t.dated \/ s = "completed"
<1> DEFINE d == t.dated \/ s = "completed"
<1>1. d \in BOOLEAN
  OBVIOUS
<1>2. Restated(t, s) = [t EXCEPT !.status = s, !.dated = d]
  BY Zenon DEF Restated
<1>3. d <=> t.dated \/ s = "completed"
  OBVIOUS
<1> HIDE DEF d
<1> QED
  BY <1>1, <1>2, <1>3 DEF Tasks

\* What each call makes of a task.
LEMMA WhatCallsDo ==
  ASSUME NEW c \in Calls, NEW t \in Tasks
  PROVE  \/ \E s \in TaskStatuses : c = UpdateStatus(s) /\ Apply(c, t) = Restated(t, s)
         \/ \E w \in SUBSET Words : Apply(c, t) = [t EXCEPT !.words = w]
         \/ \E a \in Agents \cup {NoAgent} : Apply(c, t) = [t EXCEPT !.agent = a]
         \/ \E a \in Agents : Apply(c, t) = Given(a, t)
         \/ \E v \in Verdicts : Apply(c, t) = [Judged(v, t) EXCEPT !.result = v]
<1>1. ASSUME NEW s \in TaskStatuses, c = UpdateStatus(s)
      PROVE  Apply(c, t) = Restated(t, s)
  BY <1>1 DEF UpdateStatus, Apply
<1>2. ASSUME NEW w \in SUBSET Words, c = Update(w)
      PROVE  Apply(c, t) = [t EXCEPT !.words = w]
  BY <1>2 DEF Update, Apply
<1>3. ASSUME NEW a \in Agents, c = Assign(a)
      PROVE  Apply(c, t) = Given(a, t)
  BY <1>3 DEF Assign, Apply
<1>4. ASSUME NEW v \in Verdicts, c = AddValidationResult(v)
      PROVE  Apply(c, t) = [Judged(v, t) EXCEPT !.result = v]
  BY <1>4 DEF AddValidationResult, Apply
<1>5. ASSUME NEW a \in Agents \cup {NoAgent}, c = Reassign(a)
      PROVE  Apply(c, t) = [t EXCEPT !.agent = a]
  BY <1>5 DEF Reassign, Apply
<1> QED
  BY <1>1, <1>2, <1>3, <1>4, <1>5, Zenon DEF Calls

\* A verdict leaves a task, and one whose date fits its status if it did.
LEMMA JudgedIsTask ==
  ASSUME NEW v \in Verdicts, NEW t \in Tasks
  PROVE  /\ Judged(v, t) \in Tasks
         /\ (t.dated <=> t.status = "completed") =>
              (Judged(v, t).dated <=> Judged(v, t).status = "completed")
         /\ Judged(v, t).status \in {"completed", "rejected"} =>
              t.status \in {"reviewing", "completed", "rejected"}
<1> DEFINE s == IF v = "passed" THEN "completed" ELSE "rejected"
<1>1. s \in TaskStatuses
  BY DEF TaskStatuses
<1>2. Judged(v, t) = IF ValidateTransition(t.status, s) THEN Restated(t, s) ELSE t
  BY Zenon DEF Judged
<1>3. CASE ~ValidateTransition(t.status, s)
  BY <1>2, <1>3
<1>4. CASE ValidateTransition(t.status, s)
  <2>1. t.status = "reviewing"
    BY <1>4 DEF ValidateTransition
  <2> QED
    BY <1>1, <1>2, <1>4, <2>1, RestatedIsTask
<1> QED
  BY <1>3, <1>4

\* The operations keep the type of a task; legal ones complete or reject only what
\* is under review, and date what they complete.
LEMMA CallsMakeTasks ==
  ASSUME NEW c \in Calls, NEW t \in Tasks
  PROVE  /\ Apply(c, t) \in Tasks
         /\ Legal(c, t) /\ (t.dated <=> t.status = "completed") =>
              /\ Apply(c, t).dated <=> Apply(c, t).status = "completed"
              /\ Apply(c, t).status \in {"completed", "rejected"} =>
                   t.status \in {"reviewing", "completed", "rejected"}
<1> DEFINE Fits(x) == x.dated <=> x.status = "completed"
           P(u) == /\ u \in Tasks
                   /\ Legal(c, t) /\ Fits(t) =>
                        /\ Fits(u)
                        /\ u.status \in {"completed", "rejected"} =>
                             t.status \in {"reviewing", "completed", "rejected"}
<1>1. ASSUME NEW s \in TaskStatuses, c = UpdateStatus(s)
      PROVE  P(Restated(t, s))
  <2>1. Legal(c, t) => ValidateTransition(t.status, s)
    BY <1>1 DEF UpdateStatus, Legal
  <2>2. ValidateTransition(t.status, s) /\ s \in {"completed", "rejected"} =>
          t.status = "reviewing"
    BY DEF ValidateTransition
  <2>3. ValidateTransition(t.status, s) => t.status # "completed"
    BY DEF ValidateTransition
  <2> QED
    BY <2>1, <2>2, <2>3, RestatedIsTask
<1>2. ASSUME NEW w \in SUBSET Words
      PROVE  P([t EXCEPT !.words = w])
  BY DEF Tasks
<1>3. ASSUME NEW a \in Agents
      PROVE  P(Given(a, t))
  BY DEF Given, Tasks, TaskStatuses
<1>4. ASSUME NEW v \in Verdicts
      PROVE  P([Judged(v, t) EXCEPT !.result = v])
  <2> DEFINE u == Judged(v, t)
             w == [u EXCEPT !.result = v]
  <2>1. u \in Tasks /\ w \in Tasks /\ w.status = u.status /\ w.dated = u.dated
    BY JudgedIsTask DEF Tasks
  <2>2. P(u)
    BY JudgedIsTask
  <2> HIDE DEF u, w
  <2>3. P(w)
    BY <2>1, <2>2
  <2> QED
    BY <2>3 DEF u, w
<1>5. ASSUME NEW a \in Agents \cup {NoAgent}
      PROVE  P([t EXCEPT !.agent = a])
  BY DEF Tasks
<1>6. P(Apply(c, t))
  <2> HIDE DEF P
  <2> QED
    BY <1>1, <1>2, <1>3, <1>4, <1>5, WhatCallsDo, Zenon
<1> QED
  BY <1>6

\* What is created is a task, also once it was given to an agent.
LEMMA NewTasksAreTasks ==
  /\ \A agent \in Agents \cup {NoAgent} : NewTask(agent) \in Tasks
  /\ \A t \in NewTasks : t \in Tasks /\ t.status \in {"pending", "in_progress"} /\ ~t.dated
<1>1. ASSUME NEW agent \in Agents \cup {NoAgent}
      PROVE  /\ NewTask(agent) \in Tasks
             /\ NewTask(agent).status = "pending" /\ ~NewTask(agent).dated
  BY DEF NewTask, Tasks, TaskStatuses
<1>2. ASSUME NEW agent \in Agents, NEW t \in Tasks, t.status = "pending", ~t.dated
      PROVE  /\ Given(agent, t) \in Tasks
             /\ Given(agent, t).status = "in_progress" /\ ~Given(agent, t).dated
  BY <1>2 DEF Given, Tasks, TaskStatuses
<1> QED
  BY <1>1, <1>2 DEF NewTasks

-----------------------------------------------------------------------------
(* Calls that overlap.                                                     *)

\* A call about to write has read a version of the task that the store has held,
\* and one it is legal for.
CopiesArePast ==
  /\ task \in past
  /\ \A a \in Actors :
       /\ pc[a] \in {"read", "write"} => todo[a] # <<>>
       /\ pc[a] = "write" => copy[a] \in past /\ Legal(Head(todo[a]), copy[a])

IInv == TypeOK /\ CopiesArePast

LEMMA BlankIsTask == Blank \in Tasks
  BY NewTasksAreTasks DEF Blank

LEMMA RetryCallsAreCalls ==
  ASSUME NEW t \in Tasks, NEW reason \in Words
  PROVE  RetryCalls(t, reason) \in Seq(Calls) /\ RetryCalls(t, reason) # <<>>
<1> DEFINE content == Update(t.words \cup {reason})
           status == UpdateStatus("in_progress")
           rest == IF t.agent = NoAgent THEN <<>> ELSE <<Assign(t.agent)>>
<1>1. content \in Calls
  BY DEF Tasks, Calls
<1>2. status \in Calls
  BY DEF TaskStatuses, Calls
<1>3. rest \in Seq(Calls)
  <2>1. CASE t.agent = NoAgent
    BY <2>1
  <2>2. CASE t.agent # NoAgent
    <3>1. Assign(t.agent) \in Calls
      BY <2>2 DEF Tasks, Calls
    <3> QED
      BY <2>2, <3>1
  <2> QED
    BY <2>1, <2>2
<1>4. RetryCalls(t, reason) = <<content, status>> \o rest
  BY DEF RetryCalls
<1> HIDE DEF content, status, rest
<1>5. <<content, status>> \in Seq(Calls) /\ Len(<<content, status>>) = 2
  BY <1>1, <1>2
<1> QED
  BY <1>3, <1>4, <1>5

LEMMA RequestsAreCalls == \A u \in Users : Requests(u) \subseteq Calls
<1> SUFFICES ASSUME NEW u \in Users
             PROVE  Requests(u) \subseteq Calls
  OBVIOUS
<1>1. {u} \subseteq Words
  BY TaskAssumption
<1> QED
  BY <1>1 DEF Requests, Calls

LEMMA InitHolds == Init => IInv
<1> SUFFICES ASSUME Init
             PROVE  IInv
  OBVIOUS
<1>1. task \in Tasks
  BY NewTasksAreTasks DEF Init
<1>2. CopiesArePast
  BY DEF Init, CopiesArePast
<1>3. todo \in [Actors -> Seq(Calls)]
  BY DEF Init
<1>4. copy \in [Actors -> Tasks] /\ seen \in [Validations -> Tasks]
  BY BlankIsTask DEF Init
<1>5. TypeOK
  <2>1. past \subseteq Tasks /\ pc \in [Actors -> PCs] /\ calls \in 0..MaxCalls
    BY <1>1, TaskAssumption DEF Init, PCs
  <2>2. verdict \in [Validations -> Verdicts \cup {"none"}]
    BY DEF Init
  <2>3. alone \subseteq Validations /\ settled \subseteq Users /\ final \in BOOLEAN
    BY DEF Init
  <2> QED
    BY <1>1, <1>3, <1>4, <2>1, <2>2, <2>3 DEF TypeOK
<1> QED
  BY <1>2, <1>5 DEF IInv

\* Nobody but a gets anywhere.
OnlyMoves(a) ==
  \A b \in Actors \ {a} : pc'[b] = pc[b] /\ todo'[b] = todo[b] /\ copy'[b] = copy[b]

\* The ledger has the calls of the task service and judges them as it does.
LEMMA LedgerServes ==
  /\ Ledger!Calls = Calls
  /\ \A c \in Calls, t \in Tasks :
       Ledger!Legal(c, t) = Legal(c, t) /\ Ledger!Apply(c, t) = Apply(c, t)
  /\ Ledger!NewTasks = NewTasks
<1>1. Ledger!Calls = Calls
  BY DEF Ledger!Calls, Calls, Ledger!UpdateStatus, UpdateStatus, Ledger!Update, Update,
         Ledger!Reassign, Reassign, Ledger!Assign, Assign,
         Ledger!AddValidationResult, AddValidationResult,
         Ledger!TaskStatuses, TaskStatuses, Ledger!Verdicts, Verdicts
<1>2. \A from, to : Ledger!ValidateTransition(from, to) = ValidateTransition(from, to)
  BY DEF Ledger!ValidateTransition, ValidateTransition
<1>3. \A t, status : Ledger!Restated(t, status) = Restated(t, status)
  BY DEF Ledger!Restated, Restated
<1>4. \A c, t : Ledger!Legal(c, t) = Legal(c, t)
  BY <1>2 DEF Ledger!Legal, Legal
<1>5. \A w, t : Ledger!Judged(w, t) = Judged(w, t)
  BY <1>2, <1>3 DEF Ledger!Judged, Judged
<1>6. \A agent, t : Ledger!Given(agent, t) = Given(agent, t)
  BY DEF Ledger!Given, Given
<1>7. \A c, t : Ledger!Apply(c, t) = Apply(c, t)
  BY <1>3, <1>5, <1>6 DEF Ledger!Apply, Apply
<1>8. \A agent : Ledger!NewTask(agent) = NewTask(agent)
  BY DEF Ledger!NewTask, NewTask
<1>9. Ledger!NewTasks = NewTasks
  BY <1>6, <1>8 DEF Ledger!NewTasks, NewTasks
<1> QED
  BY <1>1, <1>4, <1>7, <1>9

\* A step that leaves the stored task alone, and whose actor a holds afterwards,
\* if it is about to write, the stored task and a call legal for it.
LEMMA QuietSteps ==
  ASSUME IInv, NEW a \in Actors, UNCHANGED <<task, past>>, OnlyMoves(a),
         pc'[a] \in {"read", "write"} => todo'[a] # <<>>,
         pc'[a] = "write" => copy'[a] = task /\ Legal(Head(todo'[a]), task)
  PROVE  CopiesArePast'
<1> SUFFICES ASSUME NEW b \in Actors
             PROVE  /\ pc'[b] \in {"read", "write"} => todo'[b] # <<>>
                    /\ pc'[b] = "write" => copy'[b] \in past /\ Legal(Head(todo'[b]), copy'[b])
  BY DEF IInv, CopiesArePast
<1>1. CASE b = a
  BY <1>1 DEF IInv, CopiesArePast
<1>2. CASE b # a
  <2>1. pc'[b] = pc[b] /\ todo'[b] = todo[b] /\ copy'[b] = copy[b]
    BY <1>2 DEF OnlyMoves
  <2> QED
    BY <2>1 DEF IInv, CopiesArePast
<1> QED
  BY <1>1, <1>2

\* Giving up or going on, an actor is somewhere.
LEMMA AfterIsSomewhere ==
  ASSUME NEW a \in Actors, NEW rest
  PROVE  /\ After(a, rest) \in PCs
         /\ After(a, rest) # "write"
         /\ After(a, rest) = "read" => rest # <<>>
  BY DEF After, PCs

LEMMA ForgetKeepsTypes ==
  ASSUME IInv, NEW a \in Actors, Forget(a)
  PROVE  /\ verdict' \in [Validations -> Verdicts \cup {"none"}]
         /\ seen' \in [Validations -> Tasks]
  BY BlankIsTask DEF Forget, IInv, TypeOK

-----------------------------------------------------------------------------
(* The steps.                                                              *)

LEMMA CallStep ==
  ASSUME IInv, NEW u \in Users, Call(u)
  PROVE  IInv' /\ UNCHANGED <<task, past>>
<1>1. PICK c \in Requests(u) : Legal(c, task) /\ todo' = [todo EXCEPT ![u] = <<c>>]
  BY DEF Call
<1>2. c \in Calls /\ u \in Actors
  BY RequestsAreCalls DEF Actors
<1>3. TypeOK'
  <2>1. todo' \in [Actors -> Seq(Calls)]
    <3>1. <<c>> \in Seq(Calls)
      BY <1>2
    <3> QED
      BY <1>1, <3>1 DEF IInv, TypeOK
  <2>2. calls' \in 0..MaxCalls
    BY TaskAssumption DEF Call, IInv, TypeOK
  <2> QED
    BY <2>1, <2>2 DEF Call, IInv, TypeOK, PCs
<1>4. CopiesArePast'
  <2>1. todo'[u] = <<c>> /\ pc'[u] = "write" /\ copy'[u] = task
    BY <1>1, <1>2 DEF Call, IInv, TypeOK
  <2>2. OnlyMoves(u)
    BY <1>1 DEF OnlyMoves, Call, IInv, TypeOK
  <2>3. UNCHANGED <<task, past>>
    BY DEF Call
  <2> QED
    BY <1>1, <1>2, <2>1, <2>2, <2>3, QuietSteps
<1> QED
  BY <1>3, <1>4 DEF IInv, Call

LEMMA RetryValidationStep ==
  ASSUME IInv, NEW u \in Users, RetryValidation(u)
  PROVE  IInv' /\ UNCHANGED <<task, past>>
<1>1. u \in Actors /\ Reason \in Words
  BY TaskAssumption DEF Actors
<1>2. RetryCalls(task, Reason) \in Seq(Calls) /\ RetryCalls(task, Reason) # <<>>
  BY <1>1, RetryCallsAreCalls DEF IInv, TypeOK
<1>3. TypeOK'
  <2>1. calls' \in 0..MaxCalls
    BY TaskAssumption DEF RetryValidation, IInv, TypeOK
  <2> QED
    BY <1>2, <2>1 DEF RetryValidation, IInv, TypeOK, PCs
<1>4. CopiesArePast'
  <2>1. todo'[u] = RetryCalls(task, Reason) /\ pc'[u] = "read"
    BY <1>1 DEF RetryValidation, IInv, TypeOK
  <2>2. OnlyMoves(u)
    BY DEF OnlyMoves, RetryValidation, IInv, TypeOK
  <2>3. UNCHANGED <<task, past>>
    BY DEF RetryValidation
  <2> QED
    BY <1>1, <1>2, <2>1, <2>2, <2>3, QuietSteps
<1> QED
  BY <1>3, <1>4 DEF IInv, RetryValidation

LEMMA TriggerValidationStep ==
  ASSUME IInv, NEW u \in Users, NEW v \in Validations, TriggerValidation(u, v)
  PROVE  IInv' /\ UNCHANGED <<task, past>>
<1>1. v \in Actors
  BY DEF Actors
<1>2. TypeOK'
  <2>1. calls' \in 0..MaxCalls
    BY TaskAssumption DEF TriggerValidation, IInv, TypeOK
  <2> QED
    BY <2>1 DEF TriggerValidation, IInv, TypeOK, PCs
<1>3. CopiesArePast'
  <2>1. pc'[v] = "begin"
    BY <1>1 DEF TriggerValidation, IInv, TypeOK
  <2>2. OnlyMoves(v)
    BY DEF OnlyMoves, TriggerValidation, IInv, TypeOK
  <2>3. UNCHANGED <<task, past>>
    BY DEF TriggerValidation
  <2> QED
    BY <1>1, <2>1, <2>2, <2>3, QuietSteps
<1> QED
  BY <1>2, <1>3 DEF IInv, TriggerValidation

LEMMA ReadStep ==
  ASSUME IInv, NEW a \in Actors, Read(a)
  PROVE  IInv' /\ UNCHANGED <<task, past>>
<1>1. TypeOK'
  BY DEF Read, IInv, TypeOK, PCs
<1>2. CopiesArePast'
  <2>1. pc'[a] = "write" /\ copy'[a] = task /\ todo'[a] = todo[a]
    BY DEF Read, IInv, TypeOK
  <2>2. todo[a] # <<>> /\ Legal(Head(todo[a]), task)
    BY DEF Read, IInv, CopiesArePast
  <2>3. OnlyMoves(a)
    BY DEF OnlyMoves, Read, IInv, TypeOK
  <2>4. UNCHANGED <<task, past>>
    BY DEF Read
  <2> QED
    BY <2>1, <2>2, <2>3, <2>4, QuietSteps
<1> QED
  BY <1>1, <1>2 DEF IInv, Read

LEMMA ReadRefusedStep ==
  ASSUME IInv, NEW a \in Actors, ReadRefused(a)
  PROVE  IInv' /\ UNCHANGED <<task, past>>
<1>1. todo' = [todo EXCEPT ![a] = <<>>] /\ pc' = [pc EXCEPT ![a] = After(a, <<>>)]
  BY DEF ReadRefused, Refused
<1>2. After(a, <<>>) \in PCs \ {"read", "write"}
  BY AfterIsSomewhere
<1>3. TypeOK'
  <2>1. todo' \in [Actors -> Seq(Calls)]
    BY <1>1 DEF IInv, TypeOK
  <2>2. verdict' \in [Validations -> Verdicts \cup {"none"}] /\ seen' \in [Validations -> Tasks]
    BY ForgetKeepsTypes DEF ReadRefused
  <2> QED
    BY <1>1, <1>2, <2>1, <2>2 DEF ReadRefused, IInv, TypeOK
<1>4. CopiesArePast'
  <2>1. pc'[a] = After(a, <<>>)
    BY <1>1 DEF IInv, TypeOK
  <2>2. OnlyMoves(a)
    BY <1>1 DEF OnlyMoves, ReadRefused, IInv, TypeOK
  <2>3. UNCHANGED <<task, past>>
    BY DEF ReadRefused
  <2> QED
    BY <1>2, <2>1, <2>2, <2>3, QuietSteps
<1> QED
  BY <1>3, <1>4 DEF IInv, ReadRefused

\* The one step that changes the task.
LEMMA WriteStep ==
  ASSUME IInv, NEW a \in Actors, Write(a)
  PROVE  IInv' /\ \E c \in Calls : Ledger!Serve(c)
<1> DEFINE c == Head(todo[a])
           t == Apply(c, copy[a])
<1>1. todo[a] \in Seq(Calls) /\ todo[a] # <<>>
  BY DEF Write, IInv, TypeOK, CopiesArePast
<1>2. c \in Calls /\ Tail(todo[a]) \in Seq(Calls)
  BY <1>1
<1>3. copy[a] \in past /\ Legal(c, copy[a]) /\ copy[a] \in Tasks
  BY DEF Write, IInv, TypeOK, CopiesArePast
<1>4. task' = t /\ past' = past \cup {t}
  BY DEF Write, Stored
<1>5. t \in Tasks
  BY <1>2, <1>3, CallsMakeTasks
<1>6. Ledger!Serve(c)
  BY <1>2, <1>3, <1>4, LedgerServes DEF Ledger!Serve
<1> HIDE DEF c, t
<1>7. TypeOK'
  <2>1. task' \in Tasks /\ past' \subseteq Tasks
    BY <1>4, <1>5 DEF IInv, TypeOK
  <2>2. todo' \in [Actors -> Seq(Calls)]
    BY <1>2 DEF Write, IInv, TypeOK
  <2>3. copy' \in [Actors -> Tasks]
    BY BlankIsTask DEF Write, IInv, TypeOK
  <2>4. pc' \in [Actors -> PCs]
    BY AfterIsSomewhere DEF Write, IInv, TypeOK
  <2>5. verdict' \in [Validations -> Verdicts \cup {"none"}] /\ seen' \in [Validations -> Tasks]
    BY ForgetKeepsTypes DEF Write
  <2>6. calls' \in 0..MaxCalls /\ alone' \subseteq Validations
    BY DEF Write, IInv, TypeOK
  <2>7. settled' \subseteq Users
    BY DEF Write, IInv, TypeOK
  <2>8. final' \in BOOLEAN
    BY Zenon DEF Write
  <2> QED
    BY <2>1, <2>2, <2>3, <2>4, <2>5, <2>6, <2>7, <2>8 DEF TypeOK
<1>8. CopiesArePast'
  <2> SUFFICES ASSUME NEW b \in Actors
               PROVE  /\ pc'[b] \in {"read", "write"} => todo'[b] # <<>>
                      /\ pc'[b] = "write" => copy'[b] \in past' /\ Legal(Head(todo'[b]), copy'[b])
    BY <1>4 DEF CopiesArePast
  <2>1. CASE b = a
    <3>1. pc'[a] = After(a, Tail(todo[a])) /\ todo'[a] = Tail(todo[a])
      BY DEF Write, IInv, TypeOK
    <3> QED
      BY <2>1, <3>1, AfterIsSomewhere
  <2>2. CASE b # a
    <3>1. pc'[b] = pc[b] /\ todo'[b] = todo[b] /\ copy'[b] = copy[b]
      BY <2>2 DEF Write, IInv, TypeOK
    <3> QED
      BY <1>4, <3>1 DEF IInv, CopiesArePast
  <2> QED
    BY <2>1, <2>2
<1> QED
  BY <1>2, <1>6, <1>7, <1>8 DEF IInv

LEMMA WorkStep ==
  ASSUME IInv, NEW v \in Validations, Work(v)
  PROVE  IInv' /\ UNCHANGED <<task, past>>
<1>1. v \in Actors /\ v \in Words
  BY TaskAssumption DEF Actors
<1>2. CASE Validate(v)
  <2>1. pc'[v] \in {"thinking", "idle"} /\ pc' \in [Actors -> PCs]
    BY <1>1, <1>2 DEF Validate, IInv, TypeOK, PCs
  <2>2. TypeOK'
    BY <1>2, <2>1, BlankIsTask DEF Validate, IInv, TypeOK
  <2>3. CopiesArePast'
    <3>1. OnlyMoves(v)
      BY <1>2 DEF OnlyMoves, Validate, IInv, TypeOK
    <3>2. UNCHANGED <<task, past>>
      BY <1>2 DEF Validate
    <3> QED
      BY <1>1, <2>1, <3>1, <3>2, QuietSteps
  <2> QED
    BY <1>2, <2>2, <2>3 DEF IInv, Validate
<1>3. CASE AgentFails(v)
  <2>1. pc'[v] = "idle" /\ pc' \in [Actors -> PCs]
    BY <1>1, <1>3 DEF AgentFails, IInv, TypeOK, PCs
  <2>2. TypeOK'
    BY <1>1, <1>3, <2>1, ForgetKeepsTypes DEF AgentFails, IInv, TypeOK
  <2>3. CopiesArePast'
    <3>1. OnlyMoves(v)
      BY <1>3 DEF OnlyMoves, AgentFails, IInv, TypeOK
    <3>2. UNCHANGED <<task, past>>
      BY <1>3 DEF AgentFails
    <3> QED
      BY <1>1, <2>1, <3>1, <3>2, QuietSteps
  <2> QED
    BY <1>3, <2>2, <2>3 DEF IInv, AgentFails
<1>4. ASSUME NEW w \in Verdicts, Judge(v, w)
      PROVE  IInv' /\ UNCHANGED <<task, past>>
  <2>1. UpdateStatus(StatusFor(w)) \in Calls
    BY DEF StatusFor, Verdicts, TaskStatuses, Calls
  <2>2. <<UpdateStatus(StatusFor(w))>> \in Seq(Calls)
    BY <2>1
  <2>3. TypeOK'
    BY <1>4, <2>2 DEF Judge, IInv, TypeOK, PCs
  <2>4. pc'[v] = "read" /\ todo'[v] = <<UpdateStatus(StatusFor(w))>>
    BY <1>1, <1>4 DEF Judge, IInv, TypeOK
  <2>5. CopiesArePast'
    <3>1. OnlyMoves(v)
      BY <1>4 DEF OnlyMoves, Judge, IInv, TypeOK
    <3>2. UNCHANGED <<task, past>>
      BY <1>4 DEF Judge
    <3> QED
      BY <1>1, <2>4, <3>1, <3>2, QuietSteps
  <2> QED
    BY <1>4, <2>3, <2>5 DEF IInv, Judge
<1>5. CASE Reconsider(v)
  <2>1. RetryCalls(task, v) \in Seq(Calls) /\ RetryCalls(task, v) # <<>>
    BY <1>1, RetryCallsAreCalls DEF IInv, TypeOK
  <2>2. CASE task.status = "completed"
    <3>1. pc'[v] = "idle" /\ pc' \in [Actors -> PCs]
      BY <1>1, <1>5, <2>2 DEF Reconsider, IInv, TypeOK, PCs
    <3>2. TypeOK'
      BY <1>5, <2>2, <3>1, BlankIsTask DEF Reconsider, IInv, TypeOK
    <3>3. CopiesArePast'
      <4>1. OnlyMoves(v)
        BY <1>5, <2>2 DEF OnlyMoves, Reconsider, IInv, TypeOK
      <4>2. UNCHANGED <<task, past>>
        BY <1>5 DEF Reconsider
      <4> QED
        BY <1>1, <3>1, <4>1, <4>2, QuietSteps
    <3> QED
      BY <1>5, <3>2, <3>3 DEF IInv, Reconsider
  <2>3. CASE task.status # "completed"
    <3>1. pc'[v] = "read" /\ todo'[v] = RetryCalls(task, v) /\ pc' \in [Actors -> PCs]
      BY <1>1, <1>5, <2>3 DEF Reconsider, Considered, IInv, TypeOK, PCs
    <3>2. TypeOK'
      BY <1>5, <2>1, <2>3, <3>1 DEF Reconsider, Considered, IInv, TypeOK
    <3>3. CopiesArePast'
      <4>1. OnlyMoves(v)
        BY <1>5, <2>3 DEF OnlyMoves, Reconsider, IInv, TypeOK
      <4>2. UNCHANGED <<task, past>>
        BY <1>5 DEF Reconsider
      <4> QED
        BY <1>1, <2>1, <3>1, <4>1, <4>2, QuietSteps
    <3> QED
      BY <1>5, <3>2, <3>3 DEF IInv, Reconsider
  <2> QED
    BY <2>2, <2>3
<1> QED
  BY <1>2, <1>3, <1>4, <1>5 DEF Work

-----------------------------------------------------------------------------
LEMMA StepsKeepLedger ==
  ASSUME IInv, [Next]_vars
  PROVE  IInv' /\ [Ledger!Next]_<<task, past>>
<1>1. ASSUME NEW u \in Users, Call(u) \/ RetryValidation(u)
      PROVE  IInv' /\ UNCHANGED <<task, past>>
  BY <1>1, CallStep, RetryValidationStep
<1>2. ASSUME NEW u \in Users, NEW v \in Validations, TriggerValidation(u, v)
      PROVE  IInv' /\ UNCHANGED <<task, past>>
  BY <1>2, TriggerValidationStep
<1>3. ASSUME NEW a \in Actors, Serve(a)
      PROVE  IInv' /\ (UNCHANGED <<task, past>> \/ Ledger!Next)
  <2>1. CASE Write(a)
    BY <2>1, WriteStep, LedgerServes DEF Ledger!Next
  <2> QED
    BY <1>3, <2>1, ReadStep, ReadRefusedStep DEF Serve
<1>4. ASSUME NEW v \in Validations, Work(v)
      PROVE  IInv' /\ UNCHANGED <<task, past>>
  BY <1>4, WorkStep
<1>5. CASE UNCHANGED vars
  BY <1>5 DEF vars, history, IInv, TypeOK, CopiesArePast
<1> QED
  BY <1>1, <1>2, <1>3, <1>4, <1>5 DEF Next

\* Variables keep their types, and a call that is about to write holds a version
\* the task has had, for which it is legal: whatever other calls did between its
\* read and its write (store.go hands out copies and takes them back whole).
THEOREM CallsWriteWhatTheyRead == Spec => [](TypeOK /\ CopiesArePast)
<1>1. IInv /\ [Next]_vars => IInv'
  BY StepsKeepLedger
<1> QED
  BY <1>1, InitHolds, PTL DEF Spec, IInv

\* The service, its handlers and the validations keep the promise of TaskLedger
\* (internal/task/service.go, internal/validation/service.go).
THEOREM ServiceKeepsTaskLedger == Spec => LedgerSpec
<1>1. Init => Ledger!Init
  BY LedgerServes DEF Init, Ledger!Init
<1>2. IInv /\ [Next]_vars => IInv' /\ [Ledger!Next]_(Ledger!ledger)
  BY StepsKeepLedger DEF Ledger!ledger
<1> QED
  BY <1>1, <1>2, InitHolds, PTL DEF Spec, LedgerSpec, Ledger!Spec

\* Whoever keeps the promise of TaskLedger: a task is completed or rejected only
\* after a review, and has a date of completion exactly while it is completed, as
\* long as every write follows by one legal call from some version of the task
\* (internal/task/service.go).
THEOREM LedgerIsReviewed == LedgerSpec => [](Ledger!TypeOK /\ Ledger!PastIsReviewed)
<1> DEFINE Reviewed == Ledger!TypeOK /\ Ledger!PastIsReviewed
<1>0. Ledger!Tasks = Tasks
  BY DEF Ledger!Tasks, Tasks, Ledger!TaskStatuses, TaskStatuses, Ledger!Verdicts, Verdicts
<1>1. Ledger!Init => Reviewed
  BY <1>0, NewTasksAreTasks, LedgerServes
  DEF Ledger!Init, Ledger!TypeOK, Ledger!PastIsReviewed
<1>2. Reviewed /\ [Ledger!Next]_(Ledger!ledger) => Reviewed'
  <2> SUFFICES ASSUME Reviewed, [Ledger!Next]_(Ledger!ledger)
               PROVE  Reviewed'
    OBVIOUS
  <2>0. task \in Tasks /\ past \subseteq Tasks /\ task \in past
    BY <1>0 DEF Ledger!TypeOK
  <2>1. ASSUME NEW c \in Calls, Ledger!Serve(c)
        PROVE  Reviewed'
    <3>1. PICK read \in past :
            Legal(c, read) /\ task' = Apply(c, read) /\ past' = past \cup {Apply(c, read)}
      BY <2>0, <2>1, LedgerServes DEF Ledger!Serve
    <3>2. Apply(c, read) \in Tasks
      BY <2>0, CallsMakeTasks
    <3>3. /\ Apply(c, read).dated <=> Apply(c, read).status = "completed"
          /\ Apply(c, read).status \in {"completed", "rejected"} =>
               read.status \in {"reviewing", "completed", "rejected"}
      BY <2>0, <3>1, CallsMakeTasks DEF Ledger!PastIsReviewed
    <3> QED
      BY <1>0, <2>0, <3>1, <3>2, <3>3 DEF Ledger!TypeOK, Ledger!PastIsReviewed
  <2>2. CASE UNCHANGED <<task, past>>
    BY <2>2 DEF Ledger!TypeOK, Ledger!PastIsReviewed
  <2> QED
    BY <2>1, <2>2, LedgerServes DEF Ledger!Next, Ledger!ledger
<1> QED
  BY <1>1, <1>2, PTL DEF LedgerSpec, Ledger!Spec

\* So in the task service nothing is completed or rejected that was never under
\* review, however calls overlap.
THEOREM TasksAreReviewed == Spec => []Ledger!PastIsReviewed
BY ServiceKeepsTaskLedger, LedgerIsReviewed, PTL

-----------------------------------------------------------------------------
(* What stays in the task.                                                 *)

\* A call that is half done once a completed task is final has read it completed.
CopiesStayCompleted ==
  final => /\ task.status = "completed"
           /\ \A a \in Actors : pc[a] = "write" => copy[a].status = "completed"

\* No legal call takes a task out of "completed".
LEMMA CompletedStays ==
  ASSUME NEW c \in Calls, NEW t \in Tasks, t.status = "completed", Legal(c, t)
  PROVE  Apply(c, t).status = "completed"
<1>1. \A to : ~ValidateTransition(t.status, to)
  BY DEF ValidateTransition
<1>2. c.op # "status"
  BY <1>1 DEF Legal
<1>3. CASE c.op = "content"
  BY <1>3 DEF Apply, Tasks
<1>4. CASE c.op = "assign"
  BY <1>4 DEF Apply, Given, Tasks
<1>5. CASE c.op = "result"
  <2>1. Judged(c.verdict, t) = t
    BY <1>1 DEF Judged
  <2> QED
    BY <1>5, <2>1 DEF Apply, Tasks
<1>6. CASE c.op = "agent"
  BY <1>6 DEF Apply, Tasks
<1>7. c.op \in {"status", "content", "agent", "assign", "result"}
  BY DEF Calls, UpdateStatus, Update, Reassign, Assign, AddValidationResult
<1> QED
  BY <1>2, <1>3, <1>4, <1>5, <1>6, <1>7

\* What a write stores, and what it leaves alone.
LEMMA WhatWriteDoes ==
  ASSUME IInv, NEW a \in Actors, Write(a)
  PROVE  /\ Head(todo[a]) \in Calls
         /\ copy[a] \in Tasks
         /\ Legal(Head(todo[a]), copy[a])
         /\ task' = Apply(Head(todo[a]), copy[a])
         /\ pc'[a] # "write"
         /\ pc[a] = "write"
         /\ todo[a] \in Seq(Calls) \ {<<>>}
         /\ todo'[a] = Tail(todo[a])
         /\ OnlyMoves(a)
<1>1. todo[a] \in Seq(Calls) /\ todo[a] # <<>> /\ pc[a] = "write"
  BY DEF Write, IInv, TypeOK, CopiesArePast
<1>2. copy[a] \in Tasks /\ Legal(Head(todo[a]), copy[a])
  BY DEF Write, IInv, TypeOK, CopiesArePast
<1>3. task' = Apply(Head(todo[a]), copy[a])
  BY DEF Write, Stored
<1>4. pc'[a] = After(a, Tail(todo[a])) /\ todo'[a] = Tail(todo[a])
  BY DEF Write, IInv, TypeOK
<1>5. OnlyMoves(a)
  BY DEF OnlyMoves, Write, IInv, TypeOK
<1> QED
  BY <1>1, <1>2, <1>3, <1>4, <1>5, AfterIsSomewhere

\* In every step but a write whoever comes to hold a copy holds the task as it is.
LEMMA OthersCopyTheTask ==
  ASSUME IInv, [Next]_vars, \A a \in Actors : ~Write(a)
  PROVE  /\ UNCHANGED <<task, settled, final>>
         /\ \A a \in Actors : pc'[a] = "write" =>
              copy'[a] = task \/ (pc[a] = "write" /\ copy'[a] = copy[a])
<1>1. ASSUME NEW u \in Users, Call(u)
      PROVE  UNCHANGED <<task, settled, final>>
             /\ \A a \in Actors : pc'[a] = "write" =>
                  copy'[a] = task \/ (pc[a] = "write" /\ copy'[a] = copy[a])
  BY <1>1 DEF Call, IInv, TypeOK
<1>2. ASSUME NEW u \in Users, RetryValidation(u)
      PROVE  UNCHANGED <<task, settled, final>>
             /\ \A a \in Actors : pc'[a] = "write" => pc[a] = "write" /\ copy'[a] = copy[a]
  BY <1>2 DEF RetryValidation, IInv, TypeOK
<1>3. ASSUME NEW u \in Users, NEW v \in Validations, TriggerValidation(u, v)
      PROVE  UNCHANGED <<task, settled, final>>
             /\ \A a \in Actors : pc'[a] = "write" => pc[a] = "write" /\ copy'[a] = copy[a]
  BY <1>3 DEF TriggerValidation, IInv, TypeOK
<1>4. ASSUME NEW b \in Actors, Read(b)
      PROVE  UNCHANGED <<task, settled, final>>
             /\ \A a \in Actors : pc'[a] = "write" =>
                  copy'[a] = task \/ (pc[a] = "write" /\ copy'[a] = copy[a])
  BY <1>4 DEF Read, IInv, TypeOK
<1>5. ASSUME NEW b \in Actors, ReadRefused(b)
      PROVE  UNCHANGED <<task, settled, final>>
             /\ \A a \in Actors : pc'[a] = "write" => pc[a] = "write" /\ copy'[a] = copy[a]
  <2>1. pc' = [pc EXCEPT ![b] = After(b, <<>>)] /\ UNCHANGED <<task, copy, settled, final>>
    BY <1>5 DEF ReadRefused, Refused
  <2> QED
    BY <2>1, AfterIsSomewhere DEF IInv, TypeOK
<1>6. ASSUME NEW v \in Validations, Work(v)
      PROVE  UNCHANGED <<task, settled, final>>
             /\ \A a \in Actors : pc'[a] = "write" => pc[a] = "write" /\ copy'[a] = copy[a]
  <2>1. CASE Validate(v)
    BY <2>1 DEF Validate, IInv, TypeOK
  <2>2. CASE Reconsider(v)
    BY <2>2 DEF Reconsider, IInv, TypeOK
  <2>3. CASE AgentFails(v)
    BY <2>3 DEF AgentFails, IInv, TypeOK
  <2>4. ASSUME NEW w \in Verdicts, Judge(v, w)
        PROVE  UNCHANGED <<task, settled, final>>
               /\ \A a \in Actors : pc'[a] = "write" => pc[a] = "write" /\ copy'[a] = copy[a]
    BY <2>4 DEF Judge, IInv, TypeOK
  <2> QED
    BY <1>6, <2>1, <2>2, <2>3, <2>4 DEF Work
<1>7. CASE UNCHANGED vars
  BY <1>7 DEF vars, history
<1> QED
  BY <1>1, <1>2, <1>3, <1>4, <1>5, <1>6, <1>7 DEF Next, Serve

\* A task completed while no call was half done stays completed, for any number of
\* users, validations and calls (ValidateTransition, types.go; the read and the
\* write of each call, service.go).
THEOREM CompletionIsFinal == Spec => []CompletedIsFinal
<1>1. Init => CopiesStayCompleted
  BY DEF Init, CopiesStayCompleted
<1>2. IInv /\ CopiesStayCompleted /\ [Next]_vars => CopiesStayCompleted'
  <2> SUFFICES ASSUME IInv, CopiesStayCompleted, [Next]_vars, final'
               PROVE  /\ task'.status = "completed"
                      /\ \A a \in Actors : pc'[a] = "write" => copy'[a].status = "completed"
    BY DEF CopiesStayCompleted
  <2>1. CASE \A a \in Actors : ~Write(a)
    BY <2>1, OthersCopyTheTask DEF CopiesStayCompleted
  <2>2. ASSUME NEW a \in Actors, Write(a)
        PROVE  /\ task'.status = "completed"
               /\ \A b \in Actors : pc'[b] = "write" => copy'[b].status = "completed"
    <3>1. CASE final
      BY <2>2, <3>1, WhatWriteDoes, CompletedStays DEF CopiesStayCompleted, OnlyMoves
    <3>2. CASE ~final
      <4>1. task'.status = "completed" /\ \A b \in Actors \ {a} : pc[b] # "write"
        BY <2>2, <3>2 DEF Write
      <4> QED
        BY <2>2, <4>1, WhatWriteDoes DEF OnlyMoves
    <3> QED
      BY <3>1, <3>2
  <2> QED
    BY <2>1, <2>2
<1>3. IInv /\ [Next]_vars => IInv'
  BY StepsKeepLedger
<1> QED
  BY <1>1, <1>2, <1>3, InitHolds, PTL DEF Spec, CopiesStayCompleted, CompletedIsFinal

-----------------------------------------------------------------------------
(* Edits.                                                                  *)

\* A description that an actor is going to write is the first thing it writes, and is
\* its own or has the settled edit in it.
EditsInTodo ==
  \A a \in Actors : \A i \in DOMAIN todo[a] :
    todo[a][i].op = "content" =>
      /\ i = 1
      /\ (a \in Users /\ todo[a][i] = Update({a})) \/ settled \subseteq todo[a][i].words

EditsKept ==
  /\ settled \subseteq task.words
  /\ \A a \in Actors : pc[a] = "write" => settled \subseteq copy[a].words
  /\ EditsInTodo

LEMMA RetryWritesOnce ==
  ASSUME NEW t \in Tasks, NEW reason \in Words, NEW i \in DOMAIN RetryCalls(t, reason),
         RetryCalls(t, reason)[i].op = "content"
  PROVE  i = 1 /\ RetryCalls(t, reason)[i].words = t.words \cup {reason}
<1> DEFINE first == Update(t.words \cup {reason})
           second == UpdateStatus("in_progress")
<1>0. first.op = "content" /\ first.words = t.words \cup {reason} /\ second.op = "status"
  BY DEF Update, UpdateStatus
<1>1. CASE t.agent = NoAgent
  <2>1. RetryCalls(t, reason) = <<first, second>>
    BY <1>1 DEF RetryCalls
  <2> HIDE DEF first, second
  <2> QED
    BY <1>0, <2>1
<1>2. CASE t.agent # NoAgent
  <2> DEFINE third == Assign(t.agent)
  <2>1. RetryCalls(t, reason) = <<first, second>> \o <<third>>
    BY <1>2 DEF RetryCalls
  <2>2. third.op = "assign"
    BY DEF Assign
  <2> HIDE DEF first, second, third
  <2> DEFINE two == <<first, second>>
             one == <<third>>
  <2>3. /\ two \in Seq({first, second, third}) /\ Len(two) = 2 /\ two[1] = first /\ two[2] = second
        /\ one \in Seq({first, second, third}) /\ Len(one) = 1 /\ one[1] = third
    OBVIOUS
  <2> HIDE DEF two, one
  <2>4. /\ DOMAIN (two \o one) = 1..3
        /\ (two \o one)[1] = first /\ (two \o one)[2] = second /\ (two \o one)[3] = third
    <3> DEFINE S == {first, second, third}
    <3>1. two \in Seq(S) /\ one \in Seq(S)
      BY <2>3
    <3> HIDE DEF S
    <3>2. /\ two \o one \in Seq(S) /\ Len(two \o one) = Len(two) + Len(one)
          /\ \A k \in 1 .. Len(two) + Len(one) :
               (two \o one)[k] = IF k <= Len(two) THEN two[k] ELSE one[k - Len(two)]
      BY <3>1, ConcatProperties, Zenon
    <3>3. /\ two \o one \in Seq(S) /\ Len(two \o one) = 2 + 1
          /\ \A k \in 1..(2 + 1) : (two \o one)[k] = IF k <= 2 THEN two[k] ELSE one[k - 2]
      BY <2>3, <3>2
    <3>4. DOMAIN (two \o one) = 1..3
      BY <3>3
    <3>5. (two \o one)[1] = first /\ (two \o one)[2] = second
      BY <2>3, <3>3
    <3>6. (two \o one)[3] = third
      BY <2>3, <3>3
    <3> QED
      BY <3>4, <3>5, <3>6
  <2> QED
    BY <1>0, <2>1, <2>2, <2>4 DEF two, one
<1> QED
  BY <1>1, <1>2

\* In every step but a write what is left to do shrinks or is made from the task as it is.
LEMMA OthersPlanOnTheTask ==
  ASSUME IInv, EditsKept, [Next]_vars, \A a \in Actors : ~Write(a)
  PROVE  EditsInTodo'
<1>0. UNCHANGED <<task, settled, final>>
  BY OthersCopyTheTask
<1>1. CASE UNCHANGED todo
  BY <1>0, <1>1 DEF EditsKept, EditsInTodo
<1>2. ASSUME NEW a \in Actors, NEW calls_ \in Seq(Calls), todo' = [todo EXCEPT ![a] = calls_],
             \A i \in DOMAIN calls_ : calls_[i].op = "content" =>
               /\ i = 1
               /\ (a \in Users /\ calls_[i] = Update({a})) \/ settled \subseteq calls_[i].words
      PROVE  EditsInTodo'
  <2> SUFFICES ASSUME NEW b \in Actors, NEW i \in DOMAIN todo'[b], todo'[b][i].op = "content"
               PROVE  /\ i = 1
                      /\ \/ b \in Users /\ todo'[b][i] = Update({b})
                         \/ settled \subseteq todo'[b][i].words
    BY <1>0 DEF EditsInTodo
  <2>1. CASE b = a
    BY <1>2, <2>1 DEF IInv, TypeOK
  <2>2. CASE b # a
    BY <1>2, <2>2 DEF IInv, TypeOK, EditsKept, EditsInTodo
  <2> QED
    BY <2>1, <2>2
<1>3. ASSUME NEW u \in Users, Call(u)
      PROVE  EditsInTodo'
  <2>1. PICK c \in Requests(u) : todo' = [todo EXCEPT ![u] = <<c>>]
    BY <1>3 DEF Call
  <2>2. u \in Actors /\ <<c>> \in Seq(Calls)
    BY RequestsAreCalls DEF Actors
  <2>3. c.op = "content" => c = Update({u})
    BY DEF Requests, UpdateStatus, Update, Reassign, Assign, AddValidationResult
  <2>4. \A i \in DOMAIN <<c>> : i = 1 /\ <<c>>[i] = c
    OBVIOUS
  <2> QED
    BY <1>2, <2>1, <2>2, <2>3, <2>4
<1>4. ASSUME NEW a \in Actors, NEW reason \in Words, todo' = [todo EXCEPT ![a] = RetryCalls(task, reason)]
      PROVE  EditsInTodo'
  <2>1. RetryCalls(task, reason) \in Seq(Calls) /\ task \in Tasks
    BY RetryCallsAreCalls DEF IInv, TypeOK
  <2>2. \A i \in DOMAIN RetryCalls(task, reason) : RetryCalls(task, reason)[i].op = "content" =>
          i = 1 /\ settled \subseteq RetryCalls(task, reason)[i].words
    BY <2>1, RetryWritesOnce DEF EditsKept
  <2> QED
    BY <1>2, <1>4, <2>1, <2>2
<1>5. ASSUME NEW u \in Users, RetryValidation(u)
      PROVE  EditsInTodo'
  BY <1>4, <1>5, TaskAssumption DEF RetryValidation, Actors
<1>6. ASSUME NEW a \in Actors, ReadRefused(a)
      PROVE  EditsInTodo'
  <2>1. todo' = [todo EXCEPT ![a] = <<>>]
    BY <1>6 DEF ReadRefused, Refused
  <2>2. <<>> \in Seq(Calls) /\ DOMAIN <<>> = {}
    OBVIOUS
  <2> QED
    BY <1>2, <2>1, <2>2
<1>7. ASSUME NEW v \in Validations, Work(v)
      PROVE  EditsInTodo'
  <2>1. v \in Actors /\ v \in Words
    BY TaskAssumption DEF Actors
  <2>2. CASE Validate(v) \/ AgentFails(v)
    BY <1>1, <2>2 DEF Validate, AgentFails
  <2>3. CASE Reconsider(v)
    BY <1>1, <1>4, <2>1, <2>3 DEF Reconsider, Considered
  <2>4. ASSUME NEW w \in Verdicts, Judge(v, w)
        PROVE  EditsInTodo'
    <3>1. UpdateStatus(StatusFor(w)) \in Calls /\ UpdateStatus(StatusFor(w)).op = "status"
      BY DEF StatusFor, Verdicts, TaskStatuses, Calls, UpdateStatus
    <3>2. todo' = [todo EXCEPT ![v] = <<UpdateStatus(StatusFor(w))>>]
      BY <2>4 DEF Judge
    <3> DEFINE c == UpdateStatus(StatusFor(w))
    <3> HIDE DEF c
    <3>3. <<c>> \in Seq(Calls) /\ \A i \in DOMAIN <<c>> : <<c>>[i].op # "content"
      BY <3>1 DEF c
    <3> QED
      BY <1>2, <2>1, <3>2, <3>3 DEF c
  <2> QED
    BY <1>7, <2>2, <2>3, <2>4 DEF Work
<1> QED
  BY <1>1, <1>3, <1>5, <1>6, <1>7 DEF Next, Serve, TriggerValidation, Read, vars

\* What a call other than an edit makes of the description.
LEMMA OnlyEditsChangeWords ==
  ASSUME NEW c \in Calls, NEW t \in Tasks
  PROVE  Apply(c, t).words = IF c.op = "content" THEN c.words ELSE t.words
<1>1. CASE c.op = "content"
  BY <1>1 DEF Apply, Tasks
<1>2. CASE c.op = "status"
  BY <1>2 DEF Apply, Restated, Tasks
<1>3. CASE c.op = "assign"
  BY <1>3 DEF Apply, Given, Tasks
<1>4. CASE c.op = "result"
  <2>1. Judged(c.verdict, t) \in Tasks /\ Judged(c.verdict, t).words = t.words
    <3>1. c.verdict \in Verdicts
      BY <1>4 DEF Calls, UpdateStatus, Update, Reassign, Assign, AddValidationResult
    <3>2. \A status : Restated(t, status).words = t.words
      BY DEF Restated, Tasks
    <3>3. Judged(c.verdict, t).words = t.words
      BY <3>2 DEF Judged
    <3> QED
      BY <3>1, <3>3, JudgedIsTask
  <2> QED
    BY <1>4, <2>1 DEF Apply, Tasks
<1>5. CASE c.op = "agent"
  BY <1>5 DEF Apply, Tasks
<1>6. c.op \in {"status", "content", "agent", "assign", "result"}
  BY DEF Calls, UpdateStatus, Update, Reassign, Assign, AddValidationResult
<1> QED
  BY <1>1, <1>2, <1>3, <1>4, <1>5, <1>6

LEMMA WritesKeepEdits ==
  ASSUME IInv, EditsKept, NEW a \in Actors, Write(a)
  PROVE  EditsKept'
<1> DEFINE c == Head(todo[a])
<1>1. /\ c \in Calls /\ copy[a] \in Tasks /\ pc[a] = "write" /\ pc'[a] # "write"
      /\ task'.words = IF c.op = "content" THEN c.words ELSE copy[a].words
      /\ c = todo[a][1] /\ 1 \in DOMAIN todo[a]
  BY WhatWriteDoes, OnlyEditsChangeWords
<1>2. \A i \in DOMAIN todo'[a] : todo'[a][i].op # "content"
  <2>1. todo[a] \in Seq(Calls) /\ todo[a] # <<>> /\ todo'[a] = Tail(todo[a])
    BY WhatWriteDoes
  <2>2. \A i \in DOMAIN todo'[a] :
          i + 1 \in DOMAIN todo[a] /\ i + 1 # 1 /\ todo'[a][i] = todo[a][i + 1]
    BY <2>1
  <2> QED
    BY <2>2 DEF EditsKept, EditsInTodo
<1>3. \A b \in Actors \ {a} : pc'[b] = pc[b] /\ todo'[b] = todo[b] /\ copy'[b] = copy[b]
  BY WhatWriteDoes DEF OnlyMoves
<1>4. settled' = IF a \in Users /\ c = Update({a}) THEN IF Quiet(a) THEN {a} ELSE {} ELSE settled
  BY DEF Write
<1> HIDE DEF c
<1>5. CASE ~(a \in Users /\ c = Update({a}))
  <2>1. settled' = settled
    BY <1>4, <1>5
  <2>2. settled \subseteq task'.words
    BY <1>1, <1>5 DEF EditsKept, EditsInTodo
  <2> QED
    BY <1>1, <1>2, <1>3, <2>1, <2>2 DEF EditsKept, EditsInTodo
<1>6. CASE a \in Users /\ c = Update({a}) /\ ~Quiet(a)
  <2>1. settled' = {}
    BY <1>4, <1>6
  <2>2. EditsInTodo'
    BY <1>2, <1>3, <2>1 DEF EditsKept, EditsInTodo
  <2> QED
    BY <2>1, <2>2 DEF EditsKept
<1>7. CASE a \in Users /\ c = Update({a}) /\ Quiet(a)
  <2>1. settled' = {a} /\ task'.words = {a}
    BY <1>1, <1>4, <1>7 DEF Update
  <2>2. \A b \in Actors : pc'[b] # "write" /\ \A i \in DOMAIN todo'[b] : todo'[b][i].op # "content"
    BY <1>1, <1>2, <1>3, <1>7 DEF Quiet
  <2> QED
    BY <2>1, <2>2 DEF EditsKept, EditsInTodo
<1> QED
  BY <1>5, <1>6, <1>7

\* A description a user wrote while nobody was half through changing it is in the task
\* until a user writes another, whatever validations do with the copies they hold
\* (UpdateTask, handler_task.go; HandleRetry, validation/service.go).
THEOREM EditsAreNotLost == Spec => []EditsSurviveReview
<1>1. Init => EditsKept
  BY DEF Init, EditsKept, EditsInTodo
<1>2. IInv /\ EditsKept /\ [Next]_vars => EditsKept'
  <2> SUFFICES ASSUME IInv, EditsKept, [Next]_vars
               PROVE  EditsKept'
    OBVIOUS
  <2>1. CASE \A a \in Actors : ~Write(a)
    <3>1. EditsInTodo'
      BY <2>1, OthersPlanOnTheTask
    <3> QED
      BY <2>1, <3>1, OthersCopyTheTask DEF EditsKept
  <2> QED
    BY <2>1, WritesKeepEdits
<1>3. IInv /\ [Next]_vars => IInv'
  BY StepsKeepLedger
<1> QED
  BY <1>1, <1>2, <1>3, InitHolds, PTL DEF Spec, EditsKept, EditsSurviveReview

-----------------------------------------------------------------------------
(* What a validation does that has the task to itself.                     *)

\* Who is idle, or has not judged yet, has no verdict.
VerdictsAreForgotten ==
  \A v \in Validations : pc[v] \in {"idle", "begin", "thinking"} => verdict[v] = "none"

\* t is s but for the status, and for the texts of its description.
SameTask(t, s) == t.agent = s.agent /\ t.result = s.result /\ t.dated = s.dated

\* The calls td of a retry of the task t, for reason v: all of them, all but the
\* change of the description, and the assignment alone.
More(t) == IF t.agent = NoAgent THEN 0 ELSE 1

AllCalls(td, t, v) ==
  /\ Len(td) = 2 + More(t)
  /\ td[1] = Update(t.words \cup {v}) /\ td[2] = UpdateStatus("in_progress")
  /\ t.agent # NoAgent => td[3] = Assign(t.agent)

LaterCalls(td, t) ==
  /\ Len(td) = 1 + More(t)
  /\ td[1] = UpdateStatus("in_progress")
  /\ t.agent # NoAgent => td[2] = Assign(t.agent)

LastCall(td, t) == t.agent # NoAgent /\ Len(td) = 1 /\ td[1] = Assign(t.agent)

\* How far the return of the task has come: t is the task, s as the validation v
\* found it, td what v has still to do.
Returning(v, td, t, s) ==
  /\ SameTask(t, s)
  /\ \/ AllCalls(td, t, v) /\ t.status = "reviewing" /\ t.words = s.words
     \/ LaterCalls(td, t) /\ t.status = "reviewing" /\ t.words = s.words \cup {v}
     \/ LastCall(td, t) /\ t.status = "in_progress" /\ t.words = s.words \cup {v}

IsBack(v, t, s) == SameTask(t, s) /\ t.status = "in_progress" /\ t.words = s.words \cup {v}

\* A validation v at p, with the verdict w and the copy c: as long as nobody else
\* does anything the task is as it left it.
OnCourse(v, p, w, td, c, t, s) ==
  /\ p = "write" => c = t
  /\ p = "thinking" \/ (p \in {"read", "write"} /\ w # "none") =>
       t = s /\ s.status \in {"in_progress", "reviewing"}
  /\ p \in {"read", "write"} /\ w # "none" => Len(td) = 1 /\ td[1] = UpdateStatus(StatusFor(w))
  /\ p = "reconsider" => t.status = "reviewing" /\ t.words = s.words /\ SameTask(t, s)
  /\ p \in {"read", "write"} /\ w = "none" => Returning(v, td, t, s)

Undisturbed ==
  \A v \in alone : OnCourse(v, pc[v], verdict[v], todo[v], copy[v], task, seen[v])

ReturnInv == IInv /\ VerdictsAreForgotten /\ Undisturbed

LEMMA RetryCallsInOrder ==
  ASSUME NEW t \in Tasks, NEW v
  PROVE  AllCalls(RetryCalls(t, v), t, v)
<1> DEFINE first == Update(t.words \cup {v})
           second == UpdateStatus("in_progress")
           third == Assign(t.agent)
<1>1. CASE t.agent = NoAgent
  <2>1. RetryCalls(t, v) = <<first, second>>
    BY <1>1 DEF RetryCalls
  <2> HIDE DEF first, second
  <2> QED
    BY <1>1, <2>1 DEF AllCalls, More, first, second
<1>2. CASE t.agent # NoAgent
  <2>1. RetryCalls(t, v) = <<first, second>> \o <<third>>
    BY <1>2 DEF RetryCalls
  <2> HIDE DEF first, second, third
  <2> DEFINE S == {first, second, third}
  <2>2. PICK two, one : two = <<first, second>> /\ one = <<third>>
    OBVIOUS
  <2>3. /\ two \in Seq(S) /\ Len(two) = 2 /\ two[1] = first /\ two[2] = second
        /\ one \in Seq(S) /\ Len(one) = 1 /\ one[1] = third
    BY <2>2
  <2>4. RetryCalls(t, v) = two \o one
    BY <2>1, <2>2
  <2> HIDE DEF S
  <2>5. /\ Len(two \o one) = 2 + 1
        /\ \A k \in 1..(2 + 1) : (two \o one)[k] = IF k <= 2 THEN two[k] ELSE one[k - 2]
    <3>1. /\ two \o one \in Seq(S) /\ Len(two \o one) = Len(two) + Len(one)
          /\ \A k \in 1 .. Len(two) + Len(one) :
               (two \o one)[k] = IF k <= Len(two) THEN two[k] ELSE one[k - Len(two)]
      BY <2>3, ConcatProperties, Zenon
    <3> QED
      BY <2>3, <3>1
  <2>6. (two \o one)[1] = first /\ (two \o one)[2] = second
    BY <2>3, <2>5
  <2>7. (two \o one)[3] = third
    BY <2>3, <2>5
  <2> QED
    BY <1>2, <2>4, <2>5, <2>6, <2>7 DEF AllCalls, More, first, second, third
<1> QED
  BY <1>1, <1>2

\* Tasks with the same fields are the same.
LEMMA TasksByFields ==
  ASSUME NEW t \in Tasks, NEW s \in Tasks, t.status = s.status, t.words = s.words, SameTask(t, s)
  PROVE  t = s
BY DEF Tasks, SameTask

\* Only what a validation does itself leaves it alone with the task.
LEMMA OnlyItsOwnSteps ==
  ASSUME IInv, [Next]_vars, NEW v \in Validations, v \in alone'
  PROVE  UNCHANGED vars \/ Validate(v) \/ (v \in alone /\ (Serve(v) \/ Work(v)))
<1>1. ASSUME NEW u \in Users, Call(u) \/ RetryValidation(u) PROVE FALSE
  BY <1>1 DEF Call, RetryValidation
<1>2. ASSUME NEW u \in Users, NEW x \in Validations, TriggerValidation(u, x) PROVE FALSE
  BY <1>2 DEF TriggerValidation
<1>3. ASSUME NEW a \in Actors, Serve(a) PROVE v \in alone /\ a = v
  BY <1>3 DEF Serve, Read, ReadRefused, Write
<1>4. ASSUME NEW x \in Validations, Work(x) PROVE Validate(v) \/ (v \in alone /\ x = v)
  <2>1. CASE Validate(x)
    <3>1. x = v
      BY <2>1 DEF Validate
    <3> QED
      BY <2>1, <3>1
  <2>2. CASE ~Validate(x)
    <3>1. alone' = alone \cap {x}
      BY <1>4, <2>2 DEF Work, Reconsider, AgentFails, Judge
    <3> QED
      BY <3>1
  <2> QED
    BY <2>1, <2>2
<1> QED
  BY <1>1, <1>2, <1>3, <1>4 DEF Next

\* The first of the calls, and what is left without it.
LEMMA FirstAndRest ==
  ASSUME NEW td \in Seq(Calls), td # <<>>
  PROVE  /\ Head(td) = td[1] /\ Tail(td) \in Seq(Calls) /\ Len(Tail(td)) = Len(td) - 1
         /\ Len(td) \in Nat \ {0}
         /\ Tail(td) = <<>> <=> Len(td) = 1
         /\ \A i \in 1..Len(td) - 1 : Tail(td)[i] = td[i + 1]
<1>1. PICK n \in Nat : n = Len(td) /\ n # 0
  OBVIOUS
<1>2. Tail(td) \in Seq(Calls) /\ Len(Tail(td)) = n - 1 /\ Head(td) = td[1]
  BY <1>1
<1>3. \A i \in 1..n - 1 : Tail(td)[i] = td[i + 1]
  BY <1>1
<1>4. Tail(td) = <<>> <=> Len(Tail(td)) = 0
  <2>1. PICK rest \in Seq(Calls) : rest = Tail(td)
    BY <1>2
  <2>2. rest = <<>> <=> Len(rest) = 0
    OBVIOUS
  <2> QED
    BY <2>1, <2>2
<1> QED
  BY <1>1, <1>2, <1>3, <1>4

\* No call of a retry is refused while nobody else writes, and each brings the task
\* nearer to its return.
LEMMA ReturnGoesOn ==
  ASSUME NEW v, NEW td \in Seq(Calls), td # <<>>, NEW t \in Tasks, NEW s, Returning(v, td, t, s),
         NEW u, u = Apply(Head(td), t)
  PROVE  /\ Legal(Head(td), t)
         /\ Tail(td) # <<>> => Returning(v, Tail(td), u, s)
         /\ Tail(td) = <<>> => IsBack(v, u, s)
<1>1. /\ Head(td) = td[1] /\ Len(Tail(td)) = Len(td) - 1 /\ Len(td) \in Nat
      /\ Tail(td) = <<>> <=> Len(td) = 1
      /\ \A i \in 1..Len(td) - 1 : Tail(td)[i] = td[i + 1]
  BY FirstAndRest
<1>2. PICK n, rest, c : n = Len(td) /\ rest = Tail(td) /\ c = Head(td) /\ n \in Nat
  BY <1>1
<1>3. CASE AllCalls(td, t, v) /\ t.status = "reviewing" /\ t.words = s.words
  <2>1. n = 2 + More(t) /\ Head(td) = Update(t.words \cup {v})
    BY <1>1, <1>2, <1>3 DEF AllCalls
  <2>2. Legal(Head(td), t) /\ u = [t EXCEPT !.words = t.words \cup {v}]
    <3>1. c = Update(t.words \cup {v})
      BY <1>2, <2>1
    <3>2. c.op = "content" /\ c.words = t.words \cup {v}
      BY <3>1 DEF Update
    <3>3. Legal(c, t)
      BY <3>2 DEF Legal
    <3>4. Apply(c, t) = [t EXCEPT !.words = c.words]
      BY <3>2 DEF Apply
    <3> QED
      BY <1>2, <3>2, <3>3, <3>4
  <2>3. /\ u.words = s.words \cup {v} /\ u.status = "reviewing" /\ u.agent = t.agent
        /\ SameTask(u, t)
    BY <1>3, <2>2 DEF Tasks, SameTask
  <2>4. LaterCalls(rest, u)
    <3>1. More(u) = More(t) /\ More(t) \in {0, 1} /\ (t.agent # NoAgent => More(t) = 1)
      BY <2>3 DEF More
    <3>2. Len(rest) = 1 + More(u) /\ Len(rest) = n - 1
      BY <1>1, <1>2, <2>1, <3>1
    <3>3. 1 \in 1..n - 1 /\ (t.agent # NoAgent => 2 \in 1..n - 1)
      BY <2>1, <3>1
    <3>4. rest[1] = td[2] /\ (t.agent # NoAgent => rest[2] = td[3])
      BY <1>1, <1>2, <3>3
    <3> QED
      BY <1>3, <2>3, <3>2, <3>4 DEF LaterCalls, AllCalls
  <2>5. Tail(td) # <<>>
    BY <1>1, <1>2, <2>1 DEF More
  <2>6. SameTask(u, s)
    BY <2>3 DEF Returning, SameTask
  <2> QED
    BY <1>2, <2>2, <2>3, <2>4, <2>5, <2>6 DEF Returning
<1>4. CASE LaterCalls(td, t) /\ t.status = "reviewing" /\ t.words = s.words \cup {v}
  <2>1. n = 1 + More(t) /\ Head(td) = UpdateStatus("in_progress")
    BY <1>1, <1>2, <1>4 DEF LaterCalls
  <2>2. Legal(Head(td), t)
    BY <1>4, <2>1 DEF Legal, UpdateStatus, ValidateTransition
  <2>3. u = Restated(t, "in_progress")
    BY <2>1 DEF UpdateStatus, Apply
  <2>4. /\ u.status = "in_progress" /\ u.words = t.words /\ u.agent = t.agent
        /\ u.result = t.result
    BY <2>3 DEF Restated, Tasks
  <2>5. u.dated = t.dated
    <3>1. "in_progress" \in TaskStatuses
      BY DEF TaskStatuses
    <3>2. u \in Tasks /\ (u.dated <=> t.dated \/ "in_progress" = "completed")
      BY <2>3, <3>1, RestatedIsTask
    <3>3. u.dated \in BOOLEAN /\ t.dated \in BOOLEAN
      BY <3>2 DEF Tasks
    <3> QED
      BY <3>2, <3>3
  <2>6. SameTask(u, s)
    BY <2>4, <2>5 DEF Returning, SameTask
  <2>7. Tail(td) # <<>> => LastCall(rest, u)
    <3>1. Tail(td) # <<>> => t.agent # NoAgent
      BY <1>1, <1>2, <2>1 DEF More
    <3>2. t.agent # NoAgent => n = 2 /\ Len(rest) = 1 /\ rest[1] = td[2]
      BY <1>1, <1>2, <2>1 DEF More
    <3> QED
      BY <1>4, <2>4, <3>1, <3>2 DEF LastCall, LaterCalls
  <2> QED
    BY <1>2, <1>4, <2>2, <2>4, <2>6, <2>7 DEF Returning, IsBack
<1>5. CASE LastCall(td, t) /\ t.status = "in_progress" /\ t.words = s.words \cup {v}
  <2>1. Head(td) = Assign(t.agent) /\ Tail(td) = <<>>
    BY <1>1, <1>5 DEF LastCall
  <2>2. Legal(Head(td), t) /\ u = Given(t.agent, t)
    BY <2>1 DEF Legal, Assign, Apply
  <2>3. u.status = t.status /\ u.words = t.words /\ SameTask(u, t)
    BY <1>5, <2>2 DEF Given, Tasks, SameTask
  <2>4. SameTask(u, s)
    BY <2>3 DEF Returning, SameTask
  <2> QED
    BY <1>5, <2>1, <2>2, <2>3, <2>4 DEF IsBack
<1> QED
  BY <1>3, <1>4, <1>5 DEF Returning

Returned(v) == [seen[v] EXCEPT !.status = "in_progress", !.words = @ \cup {v}]

LEMMA ReturnedByFields ==
  ASSUME NEW v \in Validations, seen[v] \in Tasks, NEW u \in Tasks, SameTask(u, seen[v]),
         u.status = "in_progress", u.words = seen[v].words \cup {v}
  PROVE  u = Returned(v)
<1>1. PICK s \in Tasks : s = seen[v]
  OBVIOUS
<1>2. Returned(v) = [s EXCEPT !.status = "in_progress", !.words = s.words \cup {v}]
  BY <1>1 DEF Returned, Tasks
<1>3. v \in Words
  BY TaskAssumption
<1>4. PICK r : r = [s EXCEPT !.status = "in_progress", !.words = s.words \cup {v}]
  OBVIOUS
<1>5. /\ r \in Tasks /\ r.status = "in_progress" /\ r.words = s.words \cup {v}
      /\ SameTask(r, s)
  BY <1>3, <1>4 DEF Tasks, TaskStatuses, SameTask
<1>6. SameTask(u, r)
  BY <1>1, <1>5 DEF SameTask
<1>7. u = r
  BY <1>1, <1>5, <1>6, TasksByFields
<1> QED
  BY <1>2, <1>4, <1>7

\* A task that is handed back in this way has what the property asks for.
IsHandedBack(v, u) ==
  u.status = "in_progress" /\ u.agent = seen[v].agent /\ seen[v].words \cup {v} \subseteq u.words

LEMMA ReturnedIsHandedBack ==
  ASSUME NEW v \in Validations, seen[v] \in Tasks
  PROVE  IsHandedBack(v, Returned(v))
<1>1. PICK s \in Tasks : s = seen[v]
  OBVIOUS
<1>2. PICK r : r = [s EXCEPT !.status = "in_progress", !.words = s.words \cup {v}]
  OBVIOUS
<1>3. r.status = "in_progress" /\ r.agent = s.agent /\ r.words = s.words \cup {v}
  BY <1>2 DEF Tasks
<1>4. Returned(v) = r
  BY <1>1, <1>2 DEF Returned
<1> QED
  BY <1>1, <1>3, <1>4 DEF IsHandedBack

LEMMA VerdictsStayForgotten ==
  ASSUME IInv, VerdictsAreForgotten, [Next]_vars
  PROVE  VerdictsAreForgotten'
<1> SUFFICES ASSUME NEW v \in Validations, pc'[v] \in {"idle", "begin", "thinking"}
             PROVE  verdict'[v] = "none"
  BY DEF VerdictsAreForgotten
<1>0. v \in Actors /\ (\A u \in Users : u # v)
      /\ (pc[v] \in {"idle", "begin", "thinking"} => verdict[v] = "none")
  BY TaskAssumption DEF Actors, VerdictsAreForgotten
<1>1. ASSUME NEW u \in Users, Call(u) \/ RetryValidation(u) PROVE verdict'[v] = "none"
  BY <1>0, <1>1 DEF Call, RetryValidation, IInv, TypeOK
<1>2. ASSUME NEW u \in Users, NEW x \in Validations, TriggerValidation(u, x)
      PROVE  verdict'[v] = "none"
  BY <1>0, <1>2 DEF TriggerValidation, IInv, TypeOK
<1>3. ASSUME NEW a \in Actors, Forget(a), a # v => pc'[v] = pc[v], a = v => pc'[v] \notin {"begin", "thinking"}
      PROVE  verdict'[v] = "none"
  BY <1>0, <1>3 DEF Forget, IInv, TypeOK
<1>4. ASSUME NEW a \in Actors, Serve(a) PROVE verdict'[v] = "none"
  <2>1. CASE Read(a)
    BY <1>0, <2>1 DEF Read, IInv, TypeOK
  <2>2. \A rest : After(a, rest) \in {"read", "reconsider", "idle"}
    BY DEF After
  <2>3. CASE ReadRefused(a)
    <3>1. Forget(a) /\ pc' = [pc EXCEPT ![a] = After(a, <<>>)]
      BY <2>3 DEF ReadRefused, Refused
    <3>2. PICK p : p = After(a, <<>>) /\ p \in {"read", "reconsider", "idle"}
      BY <2>2
    <3>3. (a # v => pc'[v] = pc[v]) /\ (a = v => pc'[v] = p)
      BY <1>0, <3>1, <3>2 DEF IInv, TypeOK
    <3>4. a = v => pc'[v] \notin {"begin", "thinking"}
      BY <3>2, <3>3
    <3> QED
      BY <1>3, <3>1, <3>3, <3>4
  <2>4. CASE Write(a)
    <3>1. Forget(a) /\ pc' = [pc EXCEPT ![a] = After(a, Tail(todo[a]))]
      BY <2>4 DEF Write
    <3>2. PICK p : p = After(a, Tail(todo[a])) /\ p \in {"read", "reconsider", "idle"}
      BY <2>2
    <3>3. (a # v => pc'[v] = pc[v]) /\ (a = v => pc'[v] = p)
      BY <1>0, <3>1, <3>2 DEF IInv, TypeOK
    <3>4. a = v => pc'[v] \notin {"begin", "thinking"}
      BY <3>2, <3>3
    <3> QED
      BY <1>3, <3>1, <3>3, <3>4
  <2> QED
    BY <1>4, <2>1, <2>3, <2>4 DEF Serve
<1>5. ASSUME NEW x \in Validations, Work(x) PROVE verdict'[v] = "none"
  <2>0. x \in Actors
    BY DEF Actors
  <2>1. CASE Validate(x)
    BY <1>0, <2>0, <2>1 DEF Validate, IInv, TypeOK
  <2>2. CASE Reconsider(x)
    BY <1>0, <2>0, <2>2 DEF Reconsider, IInv, TypeOK
  <2>3. CASE AgentFails(x)
    <3>1. Forget(x) /\ pc' = [pc EXCEPT ![x] = "idle"]
      BY <2>3 DEF AgentFails
    <3> QED
      BY <1>3, <2>0, <3>1 DEF IInv, TypeOK
  <2>4. ASSUME NEW w \in Verdicts, Judge(x, w) PROVE verdict'[v] = "none"
    BY <1>0, <2>0, <2>4 DEF Judge, IInv, TypeOK
  <2> QED
    BY <1>5, <2>1, <2>2, <2>3, <2>4 DEF Work
<1>6. CASE UNCHANGED vars
  BY <1>0, <1>6 DEF vars
<1> QED
  BY <1>1, <1>2, <1>4, <1>5, <1>6 DEF Next

\* A validation that has the task to itself stays on its course, and when it ends
\* without a verdict of its own left it has returned the task.
StaysOnCourse(v) ==
  /\ OnCourse(v, pc[v], verdict[v], todo[v], copy[v], task, seen[v])'
  /\ verdict[v] = "none" /\ pc[v] \in {"read", "write"} /\ pc'[v] = "idle" => task' = Returned(v)

LEMMA WriteStaysOnCourse ==
  ASSUME ReturnInv, NEW v \in Validations, v \in alone, Write(v)
  PROVE  StaysOnCourse(v)
<1>0. v \in Actors
  BY DEF Actors
<1>1. PICK w, td, t, s :
        w = verdict[v] /\ td = todo[v] /\ t = task /\ s = seen[v]
  OBVIOUS
<1>2. /\ OnCourse(v, "write", w, td, copy[v], t, s) /\ copy[v] = t
      /\ td \in Seq(Calls) /\ td # <<>> /\ t \in Tasks /\ s \in Tasks
      /\ w \in Verdicts \cup {"none"}
  BY <1>0, <1>1 DEF ReturnInv, Undisturbed, OnCourse, IInv, TypeOK, CopiesArePast, Write
<1>3. /\ task' = Apply(Head(td), t) /\ todo'[v] = Tail(td) /\ pc'[v] = After(v, Tail(td))
      /\ pc[v] = "write"
  BY <1>0, <1>1, <1>2, WhatWriteDoes DEF ReturnInv, Write, IInv, TypeOK
<1>4. pc'[v] # "idle" => verdict'[v] = w /\ seen'[v] = s
  BY <1>1 DEF Write, Forget
<1>5. PICK u : u = task' /\ u \in Tasks
  <2>1. Head(td) \in Calls
    BY <1>2
  <2> QED
    BY <1>2, <1>3, <2>1, CallsMakeTasks
<1>6. CASE w = "none"
  <2>1. Returning(v, td, t, s)
    BY <1>2, <1>6 DEF OnCourse
  <2>2. u = Apply(Head(td), t)
    BY <1>3, <1>5
  <2>3. CASE Tail(td) = <<>>
    <3>1. pc'[v] = "idle"
      BY <1>1, <1>3, <1>6, <2>3 DEF After
    <3>2. IsBack(v, u, s)
      BY <1>2, <2>1, <2>2, <2>3, ReturnGoesOn
    <3>3. u = Returned(v)
      BY <1>1, <1>2, <1>5, <3>2, ReturnedByFields DEF IsBack
    <3> QED
      BY <1>5, <3>1, <3>3 DEF StaysOnCourse, OnCourse
  <2>4. CASE Tail(td) # <<>>
    <3>1. pc'[v] = "read"
      BY <1>3, <2>4 DEF After
    <3>2. Returning(v, Tail(td), u, s)
      BY <1>2, <2>1, <2>2, <2>4, ReturnGoesOn
    <3>3. verdict'[v] = "none" /\ seen'[v] = s /\ todo'[v] = Tail(td) /\ task' = u
      BY <1>3, <1>4, <1>5, <1>6, <3>1
    <3> QED
      BY <3>1, <3>2, <3>3 DEF StaysOnCourse, OnCourse
  <2> QED
    BY <2>3, <2>4
<1>7. CASE w # "none"
  <2>1. /\ t = s /\ s.status \in {"in_progress", "reviewing"}
        /\ Len(td) = 1 /\ td[1] = UpdateStatus(StatusFor(w))
    BY <1>2, <1>7 DEF OnCourse
  <2>2. Head(td) = UpdateStatus(StatusFor(w)) /\ Tail(td) = <<>>
    BY <1>2, <2>1, FirstAndRest
  <2>3. CASE w = "needs_revision"
    <3>1. pc'[v] = "reconsider"
      BY <1>1, <1>3, <2>2, <2>3 DEF After
    <3>2. u = Restated(t, "reviewing")
      BY <1>3, <1>5, <2>2, <2>3 DEF StatusFor, UpdateStatus, Apply
    <3>3. /\ u.status = "reviewing" /\ u.words = t.words /\ u.agent = t.agent
          /\ u.result = t.result
      BY <1>2, <3>2 DEF Restated, Tasks
    <3>4. u.dated = t.dated
      <4>1. "reviewing" \in TaskStatuses
        BY DEF TaskStatuses
      <4>2. u.dated <=> t.dated \/ "reviewing" = "completed"
        BY <1>2, <3>2, <4>1, RestatedIsTask
      <4>3. u.dated \in BOOLEAN /\ t.dated \in BOOLEAN
        BY <1>2, <1>5 DEF Tasks
      <4> QED
        BY <4>2, <4>3
    <3>5. u.words = s.words /\ SameTask(u, s)
      BY <2>1, <3>3, <3>4 DEF SameTask
    <3>6. seen'[v] = s /\ task' = u
      BY <1>4, <1>5, <3>1
    <3> QED
      BY <1>1, <1>7, <3>1, <3>3, <3>5, <3>6 DEF StaysOnCourse, OnCourse
  <2>4. CASE w # "needs_revision"
    <3>1. pc'[v] = "idle"
      BY <1>1, <1>3, <2>2, <2>4 DEF After
    <3> QED
      BY <1>1, <1>7, <3>1 DEF StaysOnCourse, OnCourse
  <2> QED
    BY <2>3, <2>4
<1> QED
  BY <1>6, <1>7

LEMMA RefusedStaysOnCourse ==
  ASSUME ReturnInv, NEW v \in Validations, v \in alone, ReadRefused(v)
  PROVE  StaysOnCourse(v)
<1>0. v \in Actors
  BY DEF Actors
<1>1. PICK w, td, t, s :
        w = verdict[v] /\ td = todo[v] /\ t = task /\ s = seen[v]
  OBVIOUS
<1>2. /\ OnCourse(v, "read", w, td, copy[v], t, s)
      /\ td \in Seq(Calls) /\ td # <<>> /\ t \in Tasks
      /\ ~Legal(Head(td), t)
  BY <1>0, <1>1 DEF ReturnInv, Undisturbed, IInv, TypeOK, CopiesArePast, ReadRefused
<1>3. w # "none"
  <2> SUFFICES ASSUME w = "none" PROVE FALSE
    OBVIOUS
  <2>1. Returning(v, td, t, s)
    BY <1>2 DEF OnCourse
  <2> QED
    BY <1>2, <2>1, ReturnGoesOn
<1>4. /\ task' = t /\ pc'[v] = After(v, <<>>)
      /\ pc'[v] # "idle" => seen'[v] = s
  BY <1>0, <1>1 DEF ReadRefused, Refused, Forget, ReturnInv, IInv, TypeOK
<1>5. /\ t = s /\ s.status \in {"in_progress", "reviewing"}
      /\ Len(td) = 1 /\ td[1] = UpdateStatus(StatusFor(w))
  BY <1>2, <1>3 DEF OnCourse
<1>6. CASE w = "needs_revision"
  <2>1. pc'[v] = "reconsider"
    BY <1>1, <1>4, <1>6 DEF After
  <2>2. Head(td) = UpdateStatus("reviewing")
    BY <1>2, <1>5, <1>6, FirstAndRest DEF StatusFor
  <2>3. t.status = "reviewing"
    BY <1>2, <1>5, <2>2 DEF Legal, UpdateStatus, ValidateTransition
  <2> QED
    BY <1>1, <1>3, <1>4, <1>5, <2>1, <2>3 DEF StaysOnCourse, OnCourse, SameTask
<1>7. CASE w # "needs_revision"
  <2>1. pc'[v] = "idle"
    BY <1>1, <1>4, <1>7 DEF After
  <2> QED
    BY <1>1, <1>3, <2>1 DEF StaysOnCourse, OnCourse
<1> QED
  BY <1>6, <1>7

LEMMA ValidationStaysOnCourse ==
  ASSUME ReturnInv, NEW v \in Validations, Validate(v) \/ (v \in alone /\ (Serve(v) \/ Work(v)))
  PROVE  StaysOnCourse(v)
<1>0. v \in Actors
  BY DEF Actors
<1>1. task \in Tasks /\ (pc[v] \in {"idle", "begin", "thinking"} => verdict[v] = "none")
  BY DEF ReturnInv, IInv, TypeOK, VerdictsAreForgotten
<1>2. v \in alone => OnCourse(v, pc[v], verdict[v], todo[v], copy[v], task, seen[v])
  BY DEF ReturnInv, Undisturbed
<1>3. CASE Validate(v)
  <2>1. /\ pc'[v] = IF task.status \in {"in_progress", "reviewing"} THEN "thinking" ELSE "idle"
        /\ pc'[v] # "idle" => seen'[v] = task
        /\ task' = task /\ verdict' = verdict /\ pc[v] = "begin"
    BY <1>0, <1>3 DEF Validate, ReturnInv, IInv, TypeOK
  <2> QED
    BY <1>1, <2>1 DEF StaysOnCourse, OnCourse
<1>4. CASE v \in alone /\ Read(v)
  <2>1. /\ pc[v] = "read" /\ pc'[v] = "write" /\ copy'[v] = task
        /\ UNCHANGED <<task, todo, verdict, seen>>
    BY <1>0, <1>4 DEF Read, ReturnInv, IInv, TypeOK
  <2> QED
    BY <1>2, <1>4, <2>1 DEF StaysOnCourse, OnCourse
<1>5. CASE v \in alone /\ Reconsider(v)
  <2>1. task.status = "reviewing" /\ task.words = seen[v].words /\ SameTask(task, seen[v])
    BY <1>2, <1>5 DEF OnCourse, Reconsider
  <2>2. /\ pc[v] = "reconsider" /\ pc'[v] = "read" /\ verdict'[v] = "none"
        /\ todo'[v] = RetryCalls(task, v) /\ UNCHANGED <<task, seen>>
    BY <1>0, <1>5, <2>1 DEF Reconsider, Considered, ReturnInv, IInv, TypeOK
  <2>3. AllCalls(RetryCalls(task, v), task, v)
    BY <1>1, RetryCallsInOrder
  <2> QED
    BY <2>1, <2>2, <2>3 DEF StaysOnCourse, OnCourse, Returning
<1>6. CASE AgentFails(v)
  <2>1. pc[v] = "thinking" /\ pc'[v] = "idle"
    BY <1>0, <1>6 DEF AgentFails, ReturnInv, IInv, TypeOK
  <2> QED
    BY <2>1 DEF StaysOnCourse, OnCourse
<1>7. ASSUME v \in alone, NEW w \in Verdicts, Judge(v, w) PROVE StaysOnCourse(v)
  <2>1. PICK c : c = UpdateStatus(StatusFor(w))
    OBVIOUS
  <2>2. /\ pc[v] = "thinking" /\ pc'[v] = "read" /\ verdict'[v] = w /\ todo'[v] = <<c>>
        /\ UNCHANGED <<task, seen>>
    BY <1>0, <1>7, <2>1 DEF Judge, ReturnInv, IInv, TypeOK
  <2>3. w # "none" /\ Len(<<c>>) = 1 /\ <<c>>[1] = c
    BY DEF Verdicts
  <2>4. task = seen[v] /\ seen[v].status \in {"in_progress", "reviewing"}
    BY <1>2, <1>7, <2>2 DEF OnCourse
  <2> QED
    BY <2>1, <2>2, <2>3, <2>4 DEF StaysOnCourse, OnCourse
<1> QED
  BY <1>3, <1>4, <1>5, <1>6, <1>7, WriteStaysOnCourse, RefusedStaysOnCourse DEF Serve, Work

\* A validation that has the task to itself and finds that it must be revised returns
\* it in work and to its agent with its reason appended, for any number of users and validations that
\* were there before or come later (ValidateTask and HandleRetry, validation/service.go;
\* the state table, types.go).
THEOREM RevisionsReturnTheTask == Spec => RevisionReturnsTask
<1> DEFINE Returns ==
      \A v \in Validations :
        v \in alone' /\ verdict[v] = "none" /\ pc[v] \in {"read", "write"} /\ pc'[v] = "idle"
          => /\ task'.status = "in_progress"
             /\ task'.agent = seen[v].agent
             /\ seen[v].words \cup {v} \subseteq task'.words
<1>1. Init => VerdictsAreForgotten /\ Undisturbed
  BY DEF Init, VerdictsAreForgotten, Undisturbed
<1>2. ReturnInv /\ [Next]_vars => ReturnInv' /\ [Returns]_vars
  <2> SUFFICES ASSUME ReturnInv, [Next]_vars PROVE ReturnInv' /\ [Returns]_vars
    OBVIOUS
  <2>1. IInv' /\ VerdictsAreForgotten'
    BY StepsKeepLedger, VerdictsStayForgotten DEF ReturnInv
  <2>2. CASE UNCHANGED vars
    <3>1. Undisturbed'
      BY <2>2 DEF ReturnInv, Undisturbed, vars, history
    <3> QED
      BY <2>1, <2>2, <3>1 DEF ReturnInv
  <2>3. CASE ~UNCHANGED vars
    <3>1. ASSUME NEW v \in Validations, v \in alone' PROVE StaysOnCourse(v)
      BY <2>3, <3>1, OnlyItsOwnSteps, ValidationStaysOnCourse DEF ReturnInv
    <3>2. alone' \subseteq Validations
      BY <2>1 DEF IInv, TypeOK
    <3>3. Undisturbed'
      BY <3>1, <3>2 DEF Undisturbed, StaysOnCourse
    <3>4. seen \in [Validations -> Tasks]
      BY DEF ReturnInv, IInv, TypeOK
    <3>5. Returns
      BY <3>1, <3>4, ReturnedIsHandedBack DEF StaysOnCourse, IsHandedBack
    <3> QED
      BY <2>1, <3>3, <3>5 DEF ReturnInv
  <2> QED
    BY <2>2, <2>3
<1>3. Spec => [][Returns]_vars
  BY <1>1, <1>2, InitHolds, PTL DEF Spec, ReturnInv
<1> QED
  BY <1>3 DEF RevisionReturnsTask
=============================================================================
