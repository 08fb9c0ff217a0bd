\* One tab that pauses a discussion and terminates it.
SPECIFICATION FairSpec
CONSTANTS
  Clients = {t1}
  Tabs = {t1}
  Runs = {r1}
  Ops = {"start", "pause", "resume", "terminate"}
  Hosts = {"api"}
  MaxRounds = 2
  FeedCap = 0
  DBMayFail = FALSE
  MayPanic = FALSE
PROPERTY TerminatedRunsStop
CHECK_DEADLOCK FALSE
