----------------------------- MODULE TaskState ------------------------------
(***************************************************************************)
(* One task: its record and state table (internal/task/types.go) and what  *)
(* each operation of the task service (internal/task/service.go) makes of  *)
(* the copy it has read.                                                   *)
(***************************************************************************)
EXTENDS Naturals, Sequences

CONSTANTS
  Agents,     \* agents a task can be given to
  Words,      \* the texts a description can be made of
  NoAgent     \* AssignedAgent = ""

TaskStatuses == {"pending", "in_progress", "reviewing", "completed", "rejected"}

Verdicts == {"passed", "needs_revision", "rejected"}

\* A description is the set of texts in it; dated stands for CompletedAt, which
\* is set once; result for the verdict of ValidationResult.
Tasks ==
  [status : TaskStatuses, agent : Agents \cup {NoAgent}, words : SUBSET Words,
   result : Verdicts \cup {"none"}, dated : BOOLEAN]

\* Create leaves a task pending, also one that comes with an agent.
NewTask(agent) ==
  [status |-> "pending", agent |-> agent, words |-> {}, result |-> "none", dated |-> FALSE]

\* No status may be set to itself, and nothing follows "completed".
ValidateTransition(from, to) ==
  <<from, to>> \in
    {<<"pending", "in_progress">>, <<"in_progress", "reviewing">>,
     <<"reviewing", "completed">>, <<"reviewing", "rejected">>,
     <<"reviewing", "in_progress">>, <<"rejected", "in_progress">>}

-----------------------------------------------------------------------------
(* Calls of the service, and what each makes of the task it has read.      *)
(* Update and Reassign are the two fields of Service.Update that matter.   *)

UpdateStatus(to) == [op |-> "status", to |-> to]
Update(words) == [op |-> "content", words |-> words]
Reassign(agent) == [op |-> "agent", agent |-> agent]
Assign(agent) == [op |-> "assign", agent |-> agent]
AddValidationResult(verdict) == [op |-> "result", verdict |-> verdict]

Calls ==
  {UpdateStatus(s) : s \in TaskStatuses} \cup {Update(w) : w \in SUBSET Words}
    \cup {Reassign(a) : a \in Agents \cup {NoAgent}} \cup {Assign(a) : a \in Agents}
    \cup {AddValidationResult(v) : v \in Verdicts}

\* Only UpdateStatus can be refused.
Legal(c, t) == c.op = "status" => ValidateTransition(t.status, c.to)

Restated(t, status) ==
  [t EXCEPT !.status = status, !.dated = @ \/ status = "completed"]

\* The status that follows a verdict, when the state table allows it.
Judged(verdict, t) ==
  LET status == IF verdict = "passed" THEN "completed" ELSE "rejected" IN
  IF ValidateTransition(t.status, status) THEN Restated(t, status) ELSE t

\* Mutant of Given: whoever is given a task has it to do.
GivenAgain(agent, t) == [t EXCEPT !.agent = agent, !.status = "in_progress"]

\* Assigning a pending task starts it.
Given(agent, t) ==
  [t EXCEPT !.agent = agent, !.status = IF @ = "pending" THEN "in_progress" ELSE @]

\* Tasks as they are created, and as they are once they were given to an agent.
NewTasks ==
  {NewTask(a) : a \in Agents \cup {NoAgent}} \cup {Given(a, NewTask(NoAgent)) : a \in Agents}

Apply(c, t) ==
  CASE c.op = "status"  -> Restated(t, c.to)
    [] c.op = "content" -> [t EXCEPT !.words = c.words]
    [] c.op = "agent"   -> [t EXCEPT !.agent = c.agent]
    [] c.op = "assign"  -> Given(c.agent, t)
    [] c.op = "result"  -> [Judged(c.verdict, t) EXCEPT !.result = c.verdict]
=============================================================================
