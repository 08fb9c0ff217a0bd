\* Two users and two validations of one task, with a recorded result that can be
\* retried.
SPECIFICATION FairSpec
CONSTANTS
  Agents = {a1}
  NoAgent = none
  Users = {u1, u2}
  Validations = {v1, v2}
  Reason = reason
  Words = {u1, u2, v1, v2, reason}
  MaxCalls = 3
INVARIANTS CompletedIsFinal EditsSurviveReview
PROPERTIES LedgerSpec RevisionReturnsTask ValidationsEnd
CHECK_DEADLOCK FALSE
