---------------------------- MODULE SessionState ----------------------------
(***************************************************************************)
(* The status of a session: the states and the transition table of         *)
(* internal/session/state.go, and the statuses the sessions table accepts. *)
(*                                                                         *)
(* Every mutating operation of the session service asks ValidateTransition *)
(* whether the status it has READ may become the one it is about to write. *)
(***************************************************************************)

Statuses == {"draft", "running", "paused", "ended", "failed", "archived"}

\* A hard-deleted row: GetByID fails and every UPDATE matches no row.
Deleted == "deleted"

validTransitions ==
  {<<"draft", "running">>, <<"draft", "ended">>,
   <<"running", "paused">>, <<"running", "ended">>, <<"running", "failed">>,
   <<"paused", "running">>, <<"paused", "ended">>, <<"paused", "failed">>,
   <<"ended", "archived">>, <<"failed", "archived">>}

\* A status may always be set to itself; "archived" has no row in the table
\* of transitions, so nothing else may follow it.
ValidateTransition(current, next) ==
  \/ current = next
  \/ <<current, next>> \in validTransitions

\* The CHECK constraint of the sessions table.  An UPDATE of an existing row
\* to any other status is refused by the database.
StorableStatuses == {"draft", "running", "paused", "ended", "failed"}
=============================================================================
