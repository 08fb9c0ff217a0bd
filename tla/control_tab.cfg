\* One tab of the web page, which waits for every answer and follows its event
\* stream, and one orchestrator on the HTTP host.
SPECIFICATION FairSpec
CONSTANTS
  Clients = {t1}
  Tabs = {t1}
  Runs = {r1}
  Ops = {"start", "pause", "resume", "terminate"}
  Hosts = {"api"}
  MaxRounds = 3
  FeedCap = 7
  DBMayFail = TRUE
  MayPanic = TRUE
INVARIANT WaiterIsShown
PROPERTY RunsEndOrWait
CHECK_DEADLOCK FALSE
