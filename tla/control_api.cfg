\* Two API clients that call anything at any time, and two orchestrators that
\* share the session's channels, on the HTTP host.
SPECIFICATION Spec
CONSTANTS
  Clients = {c1, c2}
  Tabs = {}
  Runs = {r1, r2}
  Ops = {"start", "pause", "resume", "terminate"}
  Hosts = {"api"}
  MaxRounds = 1
  FeedCap = 0
  DBMayFail = FALSE
  MayPanic = TRUE
SYMMETRY Symmetry
INVARIANTS DraftIsQuiet NoOrphanChannels
CHECK_DEADLOCK FALSE
