\* Three roles; one is the author of the court.
SPECIFICATION FairSpec
CONSTANTS
  Roles = {a, b, c}
  Author = a
  Paradigms = {"round_robin", "court", "free_chat"}
  RoundLimits = {1, 4}
  HistoryLimit = 7
INVARIANTS TypeOK PromptsLookBackOneRound UserIsHeard ReviewsAreAnswered MinutesShowLastRound
PROPERTIES TranscriptSpec DiscussionEnds
CHECK_DEADLOCK FALSE
