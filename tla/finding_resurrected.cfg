\* One tab that pauses while the discussion comes to its end.
SPECIFICATION Spec
CONSTANTS
  Clients = {t1}
  Tabs = {t1}
  Runs = {r1}
  Ops = {"start", "pause", "resume", "terminate"}
  Hosts = {"api"}
  MaxRounds = 1
  FeedCap = 0
  DBMayFail = FALSE
  MayPanic = FALSE
PROPERTY EndedIsFinal
CHECK_DEADLOCK FALSE
