SPECIFICATION PlatformSpec

CONSTANTS
  MaxSize = 3
  MaxEntries = 5
  MaxFailures = 2
  Flushers = {f1, f2}
  Keys = {k1, k2, k3}
  Capacity = 2
  Callers = {t1, t2}
  MaxModels = 3
  Bindings = {openai, ollama}
  Requesters = {g1, g2}
  ProviderIDs = {p1, p2, p3}
  NoProvider = none
  MaxInstances = 3
  Listers = {q1, q2}
  MaxSaid = 3
  MaxMsgId = 7
  MaxBoots = 1
  MaxSpeeches = 3
  MaxRound = 1
  MaxDecisions = 2
  FileNames = {plan, chart}
  MaxFiles = 1
  Originals = {s1}
  Sequels = {s2}
  ann = ann
  ben = ben
  Roles = {ann, ben}
  NoRole = norole
  Asks <- MCAsks
  MaxEdits = 2
  Editors = {e1, e2}
  Tabs = {w1, w2}
  Runs = {r1}
  Pushes = 3
  BridgeCap = 1
  StreamCap = 1
  WindowSize = 2
  MaxMessages = 5
  MaxRefusals = 1
  MaxCompressions = 3
  Options = {o1, o2}
  Weight <- MCWeight
  ExpertNames <- MCExpertNames
  MaxPauses = 2

INVARIANTS
  PlatformTypeOK
  RingIsRecent
  EntriesAreAccounted
  MapMatchesList
  NothingIsMadeTwice
  ListingsHaveNoGaps
  TableIsTruthful
  MergedMinutesAreComplete
  RolesSpeakAsAsked
  NewcomersSpeakLast
  NothingPanics
  PagesHearInOrder
  NothingRecentIsLost
  OnlyAnswersCount
  SpeechesKeepToTheirPhase

PROPERTIES
  StreamsEnd
  CancelledEvaluationsEnd

CHECK_DEADLOCK FALSE
