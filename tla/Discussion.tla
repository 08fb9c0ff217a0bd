----------------------------- MODULE Discussion -----------------------------
(***************************************************************************)
(* One discussion from the inside: what Execute of the round-robin, the    *)
(* court and the free-chat orchestrator does between its first message and *)
(* its minutes (internal/orchestrator).                                    *)
(*                                                                         *)
(* A discussion is a sequence of phases: the rounds of a round robin or of *)
(* a free chat, or the statement, the review, the response and the summary *)
(* of a court.  In a round and in a review every role speaks in a          *)
(* goroutine of its own (ExpertSpeakNode); in the other phases one role    *)
(* speaks in the orchestrator's goroutine.  A model may be slow, fail or,  *)
(* in a panel, never answer.                                               *)
(***************************************************************************)
EXTENDS Naturals, FiniteSets, Sequences

CONSTANTS
  Roles,            \* the roles of the session
  Author,           \* the author of a court: author_role_id or the first role
  Paradigms,        \* the paradigms a run covers
  RoundLimits,      \* the values of max_rounds a run covers
  HistoryLimit      \* 100 in the code: a longer history ends the discussion

SolvedAt == 3       \* the round after which the topic counts as solved

CourtPhases == 4

ASSUME DiscussionAssumption ==
  /\ Author \in Roles
  /\ Paradigms \subseteq {"round_robin", "court", "free_chat"}
  /\ RoundLimits \subseteq Nat \ {0}
  /\ HistoryLimit \in Nat

None == "none"
Moderator == "moderator"
User == "user"

ASSUME SpeakersAreDistinct == Roles \cap {None, Moderator, User} = {}

VARIABLES
  paradigm,          \* the session's paradigm
  MaxRounds,         \* its max_rounds
  at,                \* where the orchestrator is
  phase,             \* phases begun
  history,           \* state.History
  store,             \* what was given to the MessageStore
  PauseUserInput,    \* state.PauseUserInput, as a set of at most one message
  said,              \* history: what the user said last, as such a set
  LastRoundSummary,  \* the speeches state.LastRoundSummary repeats
  roleLastMessages,  \* each role's last speech, as such a set
  modelCtx,          \* the context of a panel's model calls
  speaker,           \* where each speaking role is
  prompt,            \* what the model of a speaking role was given
  results            \* how each role's speech ended

state   == <<history, store, PauseUserInput, said, LastRoundSummary, roleLastMessages>>
panel   == <<modelCtx, speaker, prompt, results>>
vars    == <<paradigm, MaxRounds, at, phase, state, panel>>

\* A message of the history: who said it in which phase.
Message(who, n) == [who |-> who, phase |-> n]

Said(messages) == {messages[i] : i \in DOMAIN messages}

IsCourt == paradigm = "court"

\* state.CurrentRound: a court counts its statement as the only round.
CurrentRound == IF IsCourt /\ phase > 1 THEN 1 ELSE phase

\* The roles that speak in phase n of a round robin or a court.
Due(n) ==
  CASE paradigm = "round_robin" -> Roles
    [] IsCourt /\ n \in {1, 3} -> {Author}
    [] IsCourt /\ n = 2 -> Roles \ {Author}
    [] OTHER -> {}

\* ExpertSpeakNode runs the phase.
InPanel == paradigm = "round_robin" \/ (IsCourt /\ phase = 2)

Speaking == {r \in Roles : speaker[r] # "silent"}

-----------------------------------------------------------------------------
\* A round robin opens with the moderator's speech.
Init ==
  /\ paradigm \in Paradigms
  /\ MaxRounds \in RoundLimits
  /\ at = IF paradigm = "round_robin" THEN "opening" ELSE "check"
  /\ phase = 0
  /\ history = <<>>
  /\ store = <<>>
  /\ PauseUserInput = {}
  /\ said = {}
  /\ LastRoundSummary = {}
  /\ roleLastMessages = [r \in Roles |-> {}]
  /\ modelCtx = "open"
  /\ speaker = [r \in Roles |-> "silent"]
  /\ prompt = [r \in Roles |-> {}]
  /\ results = [r \in Roles |-> None]

\* The moderator's opening, simulated when its model fails.
Open ==
  /\ at = "opening"
  /\ at' = "check"
  /\ history' = Append(history, Message(Moderator, 0))
  /\ store' = Append(store, Message(Moderator, 0))
  /\ UNCHANGED <<paradigm, MaxRounds, phase, PauseUserInput, said,
                 LastRoundSummary, roleLastMessages, panel>>

-----------------------------------------------------------------------------
(* Between two phases.                                                     *)

\* The choices of the roles that get to speak in a phase.  The moderator of a
\* free chat picks one; a pick that fails or names no role skips the round.
Invited(n) ==
  IF paradigm = "free_chat" THEN {{r} : r \in Roles} \cup {{}} ELSE {Due(n)}

\* Mutant of AfterSkipped: the loop of the free chat runs once more.
AfterSkippedOnceMore(n) == IF n > MaxRounds THEN "over" ELSE "check"

\* A round of a free chat without a speech: the loop goes on or ends.
AfterSkipped(n) == IF n = MaxRounds THEN "over" ELSE "check"

\* A court without reviewers goes from the statement to the response.
NextPhase == IF IsCourt /\ phase = 1 /\ Due(2) = {} THEN 3 ELSE phase + 1

\* IncrementRound and the beginning of the phase.  The last phase of a court is
\* the summary, in which no role speaks.
Begin ==
  /\ phase' = NextPhase
  /\ \E invited \in Invited(phase') :
       /\ at' = IF invited # {} THEN "speaking"
                ELSE IF IsCourt THEN "over" ELSE AfterSkipped(phase')
       /\ speaker' = [r \in Roles |-> IF r \in invited THEN "invited" ELSE "silent"]
  /\ modelCtx' = "open"
  /\ prompt' = [r \in Roles |-> {}]
  /\ results' = [r \in Roles |-> None]

\* CheckInterrupt finds no signal.
NotInterrupted ==
  /\ at = "check"
  /\ Begin
  /\ UNCHANGED <<paradigm, MaxRounds, state>>

\* CheckInterrupt finds a signal and waits for the user.
Interrupted ==
  /\ at = "check"
  /\ at' = "waiting"
  /\ UNCHANGED <<paradigm, MaxRounds, phase, state, panel>>

\* The user resumes without a message, or with one: the rounds keep it, a
\* court drops it.
Resumed ==
  /\ at = "waiting"
  /\ Begin
  /\ \/ UNCHANGED <<history, PauseUserInput, said>>
     \/ LET message == Message(User, phase) IN
          /\ said' = {message}
          /\ IF IsCourt
             THEN UNCHANGED <<history, PauseUserInput>>
             ELSE /\ PauseUserInput' = {message}
                  /\ history' = Append(history, message)
  /\ UNCHANGED <<paradigm, MaxRounds, store, LastRoundSummary, roleLastMessages>>

-----------------------------------------------------------------------------
(* Speeches.                                                               *)

\* Mutants of PanelMessages: the history is still read in the second round; the
\* user's input is left out.
PanelMessagesTooLong(r) ==
  (IF CurrentRound <= 2
   THEN Said(history)
   ELSE roleLastMessages[r] \cup LastRoundSummary)
  \cup PauseUserInput

PanelMessagesWithoutInput(r) ==
  IF CurrentRound <= 1
  THEN Said(history)
  ELSE roleLastMessages[r] \cup LastRoundSummary

\* What the model of r is given, apart from its own prompt and the topic.  The
\* panel reads the history in the first round and, from the second round on,
\* r's last speech and the summary of the last round; the user's input comes
\* in every round from then on.
PanelMessages(r) ==
  (IF CurrentRound <= 1
   THEN Said(history)
   ELSE roleLastMessages[r] \cup LastRoundSummary)
  \cup PauseUserInput

\* Mutant of SoloMessages: the author answers from its own speeches.
SoloMessagesOwn(r) == {m \in Said(history) : IsCourt => m.who = r}

\* The author's statement is made without the history; the others read it.
SoloMessages(r) == IF IsCourt /\ phase = 1 THEN {} ELSE Said(history)

Messages(r) == IF InPanel THEN PanelMessages(r) ELSE SoloMessages(r)

Ask(r) ==
  /\ speaker[r] = "invited"
  /\ speaker' = [speaker EXCEPT ![r] = "asked"]
  /\ prompt' = [prompt EXCEPT ![r] = Messages(r)]
  /\ UNCHANGED <<paradigm, MaxRounds, at, phase, state, modelCtx, results>>

\* Mutant of Record: only an answer is remembered.
RecordForgets(r, result) ==
  LET speech == Message(r, phase) IN
  /\ speaker' = [speaker EXCEPT ![r] = "spoken"]
  /\ results' = [results EXCEPT ![r] = result]
  /\ history' = Append(history, speech)
  /\ store' = Append(store, Message(r, CurrentRound))
  /\ roleLastMessages' =
       IF result = "ok" THEN [roleLastMessages EXCEPT ![r] = {speech}] ELSE roleLastMessages

\* SetRoleLastMessage, AddHistory and MessageStore.Add, in the goroutine of r.
\* The store is told the round, which is the same for all phases of a court.
Record(r, result) ==
  LET speech == Message(r, phase) IN
  /\ speaker' = [speaker EXCEPT ![r] = "spoken"]
  /\ results' = [results EXCEPT ![r] = result]
  /\ history' = Append(history, speech)
  /\ store' = Append(store, Message(r, CurrentRound))
  /\ roleLastMessages' = [roleLastMessages EXCEPT ![r] = {speech}]

\* The model answers.
Answer(r) ==
  /\ InPanel
  /\ speaker[r] = "asked"
  /\ Record(r, "ok")
  /\ UNCHANGED <<paradigm, MaxRounds, at, phase, PauseUserInput, said,
                 LastRoundSummary, modelCtx, prompt>>

\* The model fails: a simulated speech takes its place, marked as an error.
AnswerFails(r) ==
  /\ InPanel
  /\ speaker[r] = "asked"
  /\ Record(r, "error")
  /\ UNCHANGED <<paradigm, MaxRounds, at, phase, PauseUserInput, said,
                 LastRoundSummary, modelCtx, prompt>>

\* Thirty seconds have passed since the panel began.
Expire ==
  /\ at = "speaking"
  /\ InPanel
  /\ modelCtx = "open"
  /\ modelCtx' = "expired"
  /\ UNCHANGED <<paradigm, MaxRounds, at, phase, state, speaker, prompt, results>>

\* Mutant of AnswerLate: the call has no timeout of its own.
NeverLate(r) == r \in Roles /\ FALSE

\* The call is given up for a simulated speech, which is no error.
AnswerLate(r) ==
  /\ InPanel
  /\ modelCtx = "expired"
  /\ speaker[r] = "asked"
  /\ Record(r, "ok")
  /\ UNCHANGED <<paradigm, MaxRounds, at, phase, PauseUserInput, said,
                 LastRoundSummary, modelCtx, prompt>>

\* Evaluate.
ShouldContinue(n, messages) ==
  /\ n < MaxRounds
  /\ n < SolvedAt
  /\ Len(messages) <= HistoryLimit

AfterPhase(messages) ==
  IF IsCourt \/ ShouldContinue(phase, messages) THEN "check" ELSE "over"

\* A role speaks in the orchestrator's goroutine.  The speech goes into the
\* history only: not to the store, nor into roleLastMessages.
SpeakAlone(r) ==
  /\ ~InPanel
  /\ speaker[r] = "asked"
  /\ speaker' = [speaker EXCEPT ![r] = "silent"]
  /\ history' = Append(history, Message(r, phase))
  /\ at' = AfterPhase(history')
  /\ UNCHANGED <<paradigm, MaxRounds, phase, store, PauseUserInput, said,
                 LastRoundSummary, roleLastMessages, modelCtx, prompt, results>>

\* A free chat goes on with its next round, without an evaluation; a court ends
\* with an error.
SpeakAloneFails(r) ==
  /\ ~InPanel
  /\ speaker[r] = "asked"
  /\ speaker' = [speaker EXCEPT ![r] = "silent"]
  /\ at' = IF IsCourt THEN "failed" ELSE AfterSkipped(phase)
  /\ UNCHANGED <<paradigm, MaxRounds, phase, state, modelCtx, prompt, results>>

\* Mutant of EndPanel: it does not wait for everyone.
EndPanelEarly ==
  /\ at = "speaking"
  /\ InPanel
  /\ \E r \in Speaking : speaker[r] = "spoken"
  /\ speaker' = [r \in Roles |-> "silent"]
  /\ LastRoundSummary' = IF IsCourt THEN LastRoundSummary
                         ELSE {Message(r, phase) : r \in {s \in Roles : results[s] = "ok"}}
  /\ at' = AfterPhase(history)
  /\ UNCHANGED <<paradigm, MaxRounds, phase, history, store, PauseUserInput, said,
                 roleLastMessages, modelCtx, prompt, results>>

\* wg.Wait is over: every goroutine of the panel has returned.  The round robin
\* sums up the speeches that are no errors and asks the moderator whether to go
\* on.
EndPanel ==
  /\ at = "speaking"
  /\ InPanel
  /\ \A r \in Speaking : speaker[r] = "spoken"
  /\ speaker' = [r \in Roles |-> "silent"]
  /\ LastRoundSummary' = IF IsCourt THEN LastRoundSummary
                         ELSE {Message(r, phase) : r \in {s \in Roles : results[s] = "ok"}}
  /\ at' = AfterPhase(history)
  /\ UNCHANGED <<paradigm, MaxRounds, phase, history, store, PauseUserInput, said,
                 roleLastMessages, modelCtx, prompt, results>>

\* The minutes: rounds, messages and each role's last speech.
Minutes ==
  [rounds |-> CurrentRound, messages |-> Len(history),
   viewpoints |-> UNION {roleLastMessages[r] : r \in Roles}]

-----------------------------------------------------------------------------
Orchestrator ==
  \/ Open \/ NotInterrupted \/ Interrupted \/ EndPanel
  \/ \E r \in Roles : SpeakAlone(r) \/ SpeakAloneFails(r)

Role(r) == Ask(r) \/ Answer(r) \/ AnswerFails(r) \/ AnswerLate(r)

Next == Orchestrator \/ Resumed \/ Expire \/ \E r \in Roles : Role(r)

Spec == Init /\ [][Next]_vars

\* The orchestrator's goroutine and the roles' goroutines keep running, and time
\* passes.  A panel's model need not answer; a single speaker's call returns
\* because the provider's HTTP client has a timeout.  Users owe nothing.
Fairness ==
  /\ WF_vars(Orchestrator)
  /\ WF_vars(Expire)
  /\ \A r \in Roles : WF_vars(Ask(r)) /\ WF_vars(AnswerLate(r))

FairSpec == Spec /\ Fairness

-----------------------------------------------------------------------------
(* Properties.                                                             *)

SpeakerIds == Roles \cup {Moderator, User}

MessageIds == [who : SpeakerIds, phase : Nat]

LastPhase == IF IsCourt THEN CourtPhases ELSE MaxRounds

TypeOK ==
  /\ paradigm \in Paradigms
  /\ MaxRounds \in RoundLimits
  /\ at \in {"opening", "check", "waiting", "speaking", "over", "failed"}
  /\ phase \in 0..LastPhase
  /\ history \in Seq(MessageIds)
  /\ store \in Seq(MessageIds)
  /\ PauseUserInput \subseteq MessageIds
  /\ said \subseteq MessageIds
  /\ LastRoundSummary \subseteq MessageIds
  /\ roleLastMessages \in [Roles -> SUBSET MessageIds]
  /\ modelCtx \in {"open", "expired"}
  /\ speaker \in [Roles -> {"silent", "invited", "asked", "spoken"}]
  /\ prompt \in [Roles -> SUBSET MessageIds]
  /\ results \in [Roles -> {None, "ok", "error"}]

\* Every phase hears everyone who is due exactly once before the next one begins,
\* in whatever order the models answer and however many of them fail.  The
\* moderator and the user are guests: the rounds keep what they say among the
\* speeches.
Speeches == INSTANCE Transcript WITH
  Guests <- {Moderator, User},
  due <- [n \in 1..LastPhase |-> Due(n)],
  transcript <- history
TranscriptSpec == Speeches!Spec

\* From the second round of a round robin on, a role is given its own last speech
\* and speeches of the round before: nothing older, and nothing from the round
\* that is under way, so the order in which the others answer does not matter.
\* (In the first round it does: whoever is asked late reads who spoke early.)
PromptsLookBackOneRound ==
  paradigm = "round_robin" /\ phase > 1 =>
    \A r \in Roles : speaker[r] \in {"asked", "spoken"} =>
      LET heard == {m \in prompt[r] : m.who \in Roles} IN
      /\ Message(r, phase - 1) \in heard
      /\ \A m \in heard : m.phase = phase - 1

\* What the user said last at a pause is in everything the models of a round
\* robin or a free chat are given from then on.  (A court ignores it.)
UserIsHeard ==
  ~IsCourt =>
    \A r \in Roles : speaker[r] \in {"asked", "spoken"} => said \subseteq prompt[r]

\* The author of a court answers its own statement and every review, also those
\* that came late or replace an answer that failed.
ReviewsAreAnswered ==
  IsCourt /\ phase = 3 /\ speaker[Author] = "asked" =>
    Message(Author, 1) \in prompt[Author]
      /\ \A r \in Due(2) : Message(r, 2) \in prompt[Author]

\* The minutes of a round robin show what every role said in the last round.
MinutesShowLastRound ==
  paradigm = "round_robin" /\ at = "over" =>
    Minutes.viewpoints = {Message(r, Minutes.rounds) : r \in Roles}

\* A discussion comes to an end unless it waits for its user, even when the
\* models of a panel never answer.
DiscussionEnds ==
  at \in {"opening", "check", "speaking"} ~> at \in {"waiting", "over", "failed"}

-----------------------------------------------------------------------------
(* What the documents say of a discussion; the code does otherwise in the   *)
(* run named finding_unrecorded.                                           *)

\* Everything the roles said is in the message store when the discussion ends.
EverythingIsRecorded ==
  at = "over" =>
    \A m \in Said(history) : m.who \in Roles =>
      \E s \in Said(store) : s.who = m.who
=============================================================================
