\* Two clients and one orchestrator, on either host, with a database that fails,
\* an orchestrator that fails or panics and a row that may be deleted.
SPECIFICATION FairSpec
CONSTANTS
  Clients = {c1, c2}
  Tabs = {}
  Runs = {r1}
  Ops = {"start", "pause", "resume", "terminate", "archive", "delete"}
  Hosts = {"api", "desktop"}
  MaxRounds = 2
  FeedCap = 0
  DBMayFail = TRUE
  MayPanic = TRUE
INVARIANTS TypeOK InReach
PROPERTIES LedgerSpec RequestsReturn
CHECK_DEADLOCK FALSE
