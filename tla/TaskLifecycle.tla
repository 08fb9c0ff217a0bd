--------------------------- MODULE TaskLifecycle ----------------------------
(***************************************************************************)
(* One task, its users and its validations: the task service and its store *)
(* (internal/task), the handlers in internal/api/handler_task.go and       *)
(* handler_validation.go, and the validation service                       *)
(* (internal/validation/service.go).                                       *)
(*                                                                         *)
(* The store hands out copies and takes them back whole, each under its    *)
(* lock; a call of the service is one Read and one Write.  A validation is *)
(* a goroutine that reads the task, asks a model, writes the status its    *)
(* verdict asks for and, when the task must be revised, makes three calls  *)
(* more.                                                                   *)
(***************************************************************************)
EXTENDS TaskState

CONSTANTS
  Users,        \* clients of the API; each writes a text of its own
  Validations,  \* goroutines of ValidateTaskAsync; each has a reason of its own
  Reason,       \* the reason in a recorded ValidationResult
  MaxCalls      \* calls users make (bound)

ASSUME TaskAssumption ==
  /\ MaxCalls \in Nat
  /\ Words = Users \cup Validations \cup {Reason}
  /\ Users \cap Validations = {}
  /\ Reason \notin Users \cup Validations
  /\ NoAgent \notin Agents

Actors == Users \cup Validations

VARIABLES
  task,     \* the stored task
  pc,       \* where each actor stands
  todo,     \* calls of the service it has still to make
  copy,     \* the task as the present call has read it
  verdict,  \* what a validation's model said
  calls,    \* calls made by users so far
  past,     \* history: every version the store has held
  seen,     \* history: the task as each validation found it
  alone,    \* history: validations during which nobody else did anything
  settled,  \* history: the text of the last edit, if nobody was half through a change
  final     \* history: was the task completed while nobody held a copy?

history == <<past, seen, alone, settled, final>>
vars == <<task, pc, todo, copy, verdict, calls, history>>

\* What nobody holds a copy of.
Blank == NewTask(NoAgent)

PCs == {"idle", "read", "write", "begin", "thinking", "reconsider"}

Init ==
  /\ task \in NewTasks
  /\ pc = [a \in Actors |-> "idle"]
  /\ todo = [a \in Actors |-> <<>>]
  /\ copy = [a \in Actors |-> Blank]
  /\ verdict = [v \in Validations |-> "none"]
  /\ calls = 0
  /\ past = {task}
  /\ seen = [v \in Validations |-> Blank]
  /\ alone = {}
  /\ settled = {}
  /\ final = FALSE

-----------------------------------------------------------------------------
(* Requests.                                                               *)

\* Mutant of RetryCalls: the status is left to the assignment.
RetryCallsKeepStatus(t, reason) ==
  <<Update(t.words \cup {reason})>>
    \o (IF t.agent = NoAgent THEN <<>> ELSE <<Assign(t.agent)>>)

\* HandleRetry of the task t that was read: the reason is appended to the
\* description, the task is back in work and its agent is assigned anew.
RetryCalls(t, reason) ==
  <<Update(t.words \cup {reason}), UpdateStatus("in_progress")>>
    \o (IF t.agent = NoAgent THEN <<>> ELSE <<Assign(t.agent)>>)

\* What the handlers ask of the service: a status other than reviewing, a new
\* description or agent among the fields of an update, an agent that was named
\* or found; and a recorded result, which no handler writes.
Requests(u) ==
  {UpdateStatus(s) : s \in TaskStatuses \ {"reviewing"}} \cup {Update({u})}
    \cup {Reassign(a) : a \in Agents \cup {NoAgent}} \cup {Assign(a) : a \in Agents}
    \cup {AddValidationResult(v) : v \in Verdicts}

\* UpdateTask, AssignTask, AutoAssignTask: the service reads the task at once.
\* A request that is refused changes nothing.
Call(u) ==
  /\ calls < MaxCalls
  /\ pc[u] = "idle"
  /\ \E c \in Requests(u) :
       /\ Legal(c, task)
       /\ todo' = [todo EXCEPT ![u] = <<c>>]
  /\ calls' = calls + 1
  /\ copy' = [copy EXCEPT ![u] = task]
  /\ pc' = [pc EXCEPT ![u] = "write"]
  /\ alone' = {}
  /\ UNCHANGED <<task, verdict, past, seen, settled, final>>

\* RetryValidation: the recorded verdict must be needs_revision (rejected is let
\* through by the handler and refused by HandleRetry), the task not completed.
RetryValidation(u) ==
  /\ calls < MaxCalls
  /\ pc[u] = "idle"
  /\ task.result = "needs_revision"
  /\ task.status # "completed"
  /\ calls' = calls + 1
  /\ pc' = [pc EXCEPT ![u] = "read"]
  /\ todo' = [todo EXCEPT ![u] = RetryCalls(task, Reason)]
  /\ alone' = {}
  /\ UNCHANGED <<task, copy, verdict, past, seen, settled, final>>

\* TriggerValidation answers "reviewing" and leaves the task to a goroutine.
TriggerValidation(u, v) ==
  /\ calls < MaxCalls
  /\ pc[u] = "idle"
  /\ pc[v] = "idle"
  /\ task.status \in {"in_progress", "reviewing"}
  /\ calls' = calls + 1
  /\ pc' = [pc EXCEPT ![v] = "begin"]
  /\ alone' = {}
  /\ UNCHANGED <<task, todo, copy, verdict, past, seen, settled, final>>

-----------------------------------------------------------------------------
(* Calls of the task service.                                              *)

\* Where an actor stands after the first call in its list, or after giving up.
After(a, rest) ==
  IF rest # <<>> THEN "read"
  ELSE IF a \in Validations /\ verdict[a] = "needs_revision" THEN "reconsider"
  ELSE "idle"

\* What is left of a validation that has returned.
Forget(a) ==
  IF a \in Validations /\ pc'[a] = "idle"
  THEN /\ verdict' = [verdict EXCEPT ![a] = "none"]
       /\ seen' = [seen EXCEPT ![a] = Blank]
  ELSE UNCHANGED <<verdict, seen>>

Read(a) ==
  /\ pc[a] = "read"
  /\ Legal(Head(todo[a]), task)
  /\ copy' = [copy EXCEPT ![a] = task]
  /\ pc' = [pc EXCEPT ![a] = "write"]
  /\ alone' = alone \cap {a}
  /\ UNCHANGED <<task, todo, verdict, calls, past, seen, settled, final>>

\* Mutant of Refused: whoever is refused tries again.
RefusedRetries(a) ==
  /\ UNCHANGED <<todo, pc>>

\* The caller drops what it still wanted to do.
Refused(a) ==
  /\ todo' = [todo EXCEPT ![a] = <<>>]
  /\ pc' = [pc EXCEPT ![a] = After(a, <<>>)]

ReadRefused(a) ==
  /\ pc[a] = "read"
  /\ ~Legal(Head(todo[a]), task)
  /\ Refused(a)
  /\ Forget(a)
  /\ alone' = alone \cap {a}
  /\ UNCHANGED <<task, copy, calls, past, settled, final>>

\* Nobody but a is half through a call, or about to write a description it has
\* made from one it read before.
Quiet(a) ==
  \A b \in Actors \ {a} :
    /\ pc[b] # "write"
    /\ \A i \in DOMAIN todo[b] : todo[b][i].op # "content"

\* Mutant of Stored: what is written is made from the task as it is by now.
StoredMerged(c, t) == [Apply(c, task) EXCEPT !.words = @ \cup t.words]

\* store.Update: the copy replaces the task.
Stored(c, t) == Apply(c, t)

Write(a) ==
  LET c == Head(todo[a]) IN
  /\ pc[a] = "write"
  /\ task' = Stored(c, copy[a])
  /\ copy' = [copy EXCEPT ![a] = Blank]
  /\ past' = past \cup {task'}
  /\ todo' = [todo EXCEPT ![a] = Tail(@)]
  /\ pc' = [pc EXCEPT ![a] = After(a, Tail(todo[a]))]
  /\ settled' = IF a \in Users /\ c = Update({a})
                THEN IF Quiet(a) THEN {a} ELSE {}
                ELSE settled
  /\ final' = \/ final
              \/ /\ task'.status = "completed"
                 /\ \A b \in Actors \ {a} : pc[b] # "write"
  /\ Forget(a)
  /\ alone' = alone \cap {a}
  /\ UNCHANGED calls

-----------------------------------------------------------------------------
(* ValidateTask.                                                           *)

\* The goroutine reads the task; one that may no longer be validated is left.
Validate(v) ==
  /\ pc[v] = "begin"
  /\ pc' = [pc EXCEPT ![v] =
       IF task.status \in {"in_progress", "reviewing"} THEN "thinking" ELSE "idle"]
  /\ seen' = [seen EXCEPT ![v] = IF pc'[v] = "idle" THEN Blank ELSE task]
  /\ alone' = (alone \cap {v})
       \cup (IF \A b \in Actors \ {v} : pc[b] = "idle" THEN {v} ELSE {})
  /\ UNCHANGED <<task, todo, copy, verdict, calls, past, settled, final>>

\* An answer that cannot be parsed counts as needs_revision.
StatusFor(w) ==
  CASE w = "passed" -> "completed" [] w = "needs_revision" -> "reviewing"
    [] w = "rejected" -> "rejected"

Judge(v, w) ==
  /\ pc[v] = "thinking"
  /\ verdict' = [verdict EXCEPT ![v] = w]
  /\ todo' = [todo EXCEPT ![v] = <<UpdateStatus(StatusFor(w))>>]
  /\ pc' = [pc EXCEPT ![v] = "read"]
  /\ alone' = alone \cap {v}
  /\ UNCHANGED <<task, copy, calls, past, seen, settled, final>>

AgentFails(v) ==
  /\ pc[v] = "thinking"
  /\ pc' = [pc EXCEPT ![v] = "idle"]
  /\ Forget(v)
  /\ alone' = alone \cap {v}
  /\ UNCHANGED <<task, todo, copy, calls, past, settled, final>>

\* Mutant of Considered: the description is the one the model was shown.
ConsideredBefore(v) == [task EXCEPT !.words = seen[v].words]

\* The task HandleRetry is given, read anew after the verdict.
Considered(v) == task

\* HandleRetry, unless the task has been completed in the meantime.
Reconsider(v) ==
  /\ pc[v] = "reconsider"
  /\ verdict' = [verdict EXCEPT ![v] = "none"]
  /\ IF task.status = "completed"
     THEN /\ pc' = [pc EXCEPT ![v] = "idle"]
          /\ seen' = [seen EXCEPT ![v] = Blank]
          /\ UNCHANGED todo
     ELSE /\ pc' = [pc EXCEPT ![v] = "read"]
          /\ todo' = [todo EXCEPT ![v] = RetryCalls(Considered(v), v)]
          /\ UNCHANGED seen
  /\ alone' = alone \cap {v}
  /\ UNCHANGED <<task, copy, calls, past, settled, final>>

-----------------------------------------------------------------------------
Serve(a) == Read(a) \/ ReadRefused(a) \/ Write(a)

Work(v) ==
  \/ Validate(v) \/ Reconsider(v) \/ AgentFails(v)
  \/ \E w \in Verdicts : Judge(v, w)

Next ==
  \/ \E u \in Users : Call(u) \/ RetryValidation(u)
  \/ \E u \in Users, v \in Validations : TriggerValidation(u, v)
  \/ \E a \in Actors : Serve(a)
  \/ \E v \in Validations : Work(v)

Spec == Init /\ [][Next]_vars

\* The goroutine of a validation keeps running, and the validator's model answers
\* or its HTTP client gives up.
Fairness == \A v \in Validations : WF_vars(Serve(v) \/ Work(v))

FairSpec == Spec /\ Fairness

-----------------------------------------------------------------------------
(* Properties.                                                             *)

TypeOK ==
  /\ task \in Tasks
  /\ past \subseteq Tasks
  /\ pc \in [Actors -> PCs]
  /\ todo \in [Actors -> Seq(Calls)]
  /\ copy \in [Actors -> Tasks]
  /\ verdict \in [Validations -> Verdicts \cup {"none"}]
  /\ calls \in 0..MaxCalls
  /\ seen \in [Validations -> Tasks]
  /\ alone \subseteq Validations
  /\ settled \subseteq Users
  /\ final \in BOOLEAN

\* The service, its handlers and the validations keep the promise of TaskLedger:
\* each version of the task follows from one version by one legal call.
Ledger == INSTANCE TaskLedger
LedgerSpec == Ledger!Spec

\* A task that was completed while no call was half done stays completed,
\* whatever users, retries and late verdicts still want to do with it.
CompletedIsFinal == final => task.status = "completed"

\* The description a user writes while nobody is half through a change of it is
\* in the task until a user writes another one: in particular, what is written
\* while a validation's model thinks is there after the retry it asks for.
EditsSurviveReview == settled \subseteq task.words

\* A validation that has the task to itself and finds that it must be revised
\* hands it back: in work, still with its agent, with the reason and every word it
\* had before, whether the task was under review or in work when it began. The
\* property leaves the recorded result open: ValidateTask's comment
\* (validation/service.go:70) has the verdict linked to the task, no code does it,
\* and the README says what that means for the two handlers that ask for it.
RevisionReturnsTask ==
  [][\A v \in Validations :
       v \in alone' /\ verdict[v] = "none" /\ pc[v] \in {"read", "write"} /\ pc'[v] = "idle"
         => /\ task'.status = "in_progress"
            /\ task'.agent = seen[v].agent
            /\ seen[v].words \cup {v} \subseteq task'.words]_vars

\* Every validation comes to an end, whatever is refused to it.
ValidationsEnd == \A v \in Validations : pc[v] # "idle" ~> pc[v] = "idle"
=============================================================================
