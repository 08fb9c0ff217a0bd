\* A discussion that ends well on the desktop host.
SPECIFICATION Spec
CONSTANTS
  Clients = {c1}
  Tabs = {}
  Runs = {r1}
  Ops = {"start", "pause", "resume", "terminate"}
  Hosts = {"desktop"}
  MaxRounds = 1
  FeedCap = 0
  DBMayFail = FALSE
  MayPanic = FALSE
INVARIANT NoFalseAlarm
CHECK_DEADLOCK FALSE
