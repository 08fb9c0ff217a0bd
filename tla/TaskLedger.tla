----------------------------- MODULE TaskLedger -----------------------------
(***************************************************************************)
(* What the task service promises about one task when its calls run        *)
(* concurrently.                                                           *)
(*                                                                         *)
(* Each call reads the task, changes its copy and writes the copy back, in *)
(* two steps of the store with nothing in between to stop others.  A write *)
(* therefore need not follow from the task it replaces: updates get lost.  *)
(* What holds is that it follows, by ONE legal call, from SOME version the *)
(* task has had: no version is a mixture, and none appears from nowhere.   *)
(***************************************************************************)
EXTENDS TaskState

VARIABLES
  task,     \* the stored task
  past      \* every version the store has held

ledger == <<task, past>>

Init ==
  /\ task \in NewTasks
  /\ past = {task}

Serve(c) ==
  \E read \in past :
    /\ Legal(c, read)
    /\ task' = Apply(c, read)
    /\ past' = past \cup {Apply(c, read)}

Next == \E c \in Calls : Serve(c)

Spec == Init /\ [][Next]_ledger

-----------------------------------------------------------------------------
TypeOK ==
  /\ task \in Tasks
  /\ past \subseteq Tasks
  /\ task \in past

\* The consequences of the promise, however calls overlap: nothing is completed
\* or rejected that was never under review, a task has the date of its
\* completion if and only if it is completed.
PastIsReviewed ==
  \A t \in past :
    /\ t.status \in {"completed", "rejected"} => \E r \in past : r.status = "reviewing"
    /\ t.dated <=> t.status = "completed"
=============================================================================
