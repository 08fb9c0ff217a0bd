--------------------------- MODULE SessionLedger ----------------------------
(***************************************************************************)
(* What the session service promises about the status of one session when  *)
(* its requests and its orchestrators run concurrently.                    *)
(*                                                                         *)
(* GetByID, ValidateTransition and UpdateStatus are three separate steps,  *)
(* so a write is not always legal for the status it overwrites.  What does *)
(* hold is weaker: every write is legal for SOME status the session has    *)
(* already had.  past is the set of those statuses.                        *)
(***************************************************************************)
EXTENDS SessionState

VARIABLES
  status,   \* the status column, or Deleted
  past      \* every status the row has had

ledger == <<status, past>>

Init ==
  /\ status = "draft"
  /\ past = {"draft"}

\* UpdateStatus by a request that validated next against an earlier status.
Change(next) ==
  /\ status # Deleted
  /\ \E seen \in past : ValidateTransition(seen, next)
  /\ status' = next
  /\ past' = past \cup {next}

Delete ==
  /\ status' = Deleted
  /\ UNCHANGED past

Next == Delete \/ \E next \in Statuses : Change(next)

Spec == Init /\ [][Next]_ledger

-----------------------------------------------------------------------------
TypeOK ==
  /\ status \in Statuses \cup {Deleted}
  /\ past \subseteq Statuses

\* The consequences of the promise.  A session was running before it was
\* paused or failed, and over before it was archived, whatever the order in
\* which concurrent requests are served.
PastIsOrdered ==
  /\ "draft" \in past
  /\ status \in past \cup {Deleted}
  /\ past \cap {"paused", "failed"} # {} => "running" \in past
  /\ "archived" \in past => past \cap {"ended", "failed"} # {}
=============================================================================
