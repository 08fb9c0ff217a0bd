\* A free chat of two roles.
SPECIFICATION Spec
CONSTANTS
  Roles = {a, b}
  Author = a
  Paradigms = {"free_chat"}
  RoundLimits = {3}
  HistoryLimit = 100
INVARIANT EverythingIsRecorded
CHECK_DEADLOCK FALSE
