----------------------------- MODULE Evaluation -----------------------------
(***************************************************************************)
(* The weighted evaluation (internal/orchestrator/evaluation.go): the      *)
(* experts score every option by every criterion, a critic challenges the  *)
(* scores, the experts answer the challenge, and the scores become a       *)
(* weighted matrix.                                                        *)
(*                                                                         *)
(* The two panels run one goroutine per expert; between the phases Execute *)
(* looks for a pause and for the end of its context.  A model answers,     *)
(* fails, or is cut short when the context ends.                           *)
(***************************************************************************)
EXTENDS Naturals, Sequences, FiniteSets, Functions

CONSTANTS
  Options,       \* the options a session may put to the vote
  Weight,        \* the weight of each criterion, in percent
  ExpertNames,   \* the name of each expert's role, in order
  MaxPauses      \* pauses (bound)

Experts == DOMAIN ExpertNames

\* parseScoresFromResponse gives every option by every criterion this score,
\* whatever the expert said (its comment speaks of numbers extracted from the answer).
ParsedScore == 75

ASSUME EvaluationAssumption ==
  /\ Weight \in [DOMAIN Weight -> Nat]
  /\ ExpertNames \in Seq(Range(ExpertNames))
  /\ MaxPauses \in Nat

VARIABLES
  options, criteria, critic,   \* the configuration; critic: is there one?
  at,                          \* where Execute is
  phase,                       \* the phase that is run or comes next
  interrupt,                   \* a signal waits in InterruptCh
  pauses,                      \* signals so far
  cancelled,                   \* the context has ended
  expert,                      \* each expert's goroutine
  scored,                      \* experts with a ScoringResult
  adjusted,                    \* experts with an AdjustedScoringResult
  feedback,                    \* the critic has answered
  history,                     \* state.History: in which phase each speech was made
  matrix,                      \* the weighted scores, as a set of at most one
  ranking                      \* FinalRanking

config == <<options, criteria, critic>>
evaluationVars ==
  <<config, at, phase, interrupt, pauses, cancelled, expert, scored, adjusted, feedback,
    history, matrix, ranking>>

Phases == <<"scoring", "challenge", "adjustment", "matrix">>

EvaluationInit ==
  /\ options \in SUBSET Options
  /\ criteria \in SUBSET (DOMAIN Weight)
  /\ critic \in BOOLEAN
  /\ at = "opening" /\ phase = "scoring"
  /\ interrupt = FALSE /\ pauses = 0 /\ cancelled = FALSE
  /\ expert = [e \in Experts |-> "idle"]
  /\ scored = {} /\ adjusted = {} /\ feedback = FALSE
  /\ history = <<>> /\ matrix = {} /\ ranking = <<>>

-----------------------------------------------------------------------------
(* The user and the host.                                                  *)

Pause ==
  /\ at # "ended" /\ ~interrupt
  /\ pauses < MaxPauses
  /\ interrupt' = TRUE
  /\ pauses' = pauses + 1
  /\ UNCHANGED <<config, at, phase, cancelled, expert, scored, adjusted, feedback,
                 history, matrix, ranking>>

Cancel ==
  /\ at # "ended" /\ ~cancelled
  /\ cancelled' = TRUE
  /\ UNCHANGED <<config, at, phase, interrupt, pauses, expert, scored, adjusted, feedback,
                 history, matrix, ranking>>

-----------------------------------------------------------------------------
(* The orchestrator.                                                       *)

outcome == <<scored, adjusted, feedback, history, matrix, ranking>>

\* InitRoleContexts builds every role's prompt and model, or fails.
Open ==
  /\ at = "opening"
  /\ at' \in {"gate", "ended"}
  /\ UNCHANGED <<config, phase, interrupt, pauses, cancelled, expert, outcome>>

\* The first result under an expert's name has scores: there is one to find, and
\* it has as many scores as there are options by criteria.
HasScores(e) ==
  /\ \E d \in scored : ExpertNames[d] = ExpertNames[e]
  /\ options # {} /\ criteria # {}

\* The experts a panel asks.
Asked == IF phase = "scoring" THEN Experts ELSE {e \in Experts : HasScores(e)}

\* The phase behind the gate begins.
Begin ==
  /\ at' = CASE phase \in {"scoring", "adjustment"} -> "panel"
             [] phase = "challenge"                 -> "asking"
             [] phase = "matrix"                    -> "computing"
  /\ expert' = [e \in Experts |-> IF at' = "panel" /\ e \in Asked THEN "asked" ELSE "idle"]
  /\ UNCHANGED <<config, phase, pauses, cancelled, outcome>>

\* CheckInterrupt finds nothing.
GoThrough ==
  /\ at = "gate"
  /\ ~interrupt /\ ~cancelled
  /\ Begin
  /\ UNCHANGED interrupt

\* CheckInterrupt finds a signal, and waits for the user.
Interrupted ==
  /\ at = "gate"
  /\ interrupt
  /\ interrupt' = FALSE
  /\ at' = "paused"
  /\ UNCHANGED <<config, phase, pauses, cancelled, expert, outcome>>

\* What the user says on resuming is not used.
Resume ==
  /\ at = "paused"
  /\ Begin
  /\ UNCHANGED interrupt

\* Mutant of EndsWait: a pause does not watch the context.
EndsWaitAtGate == at = "gate" /\ cancelled

\* ctx.Done at the gate or in a pause; of a signal and the end of the context
\* select takes either.
EndsWait == at \in {"gate", "paused"} /\ cancelled

\* CheckInterrupt reports the end of the context: Execute returns the error, but
\* before the matrix it does not look at the answer.
Refused ==
  /\ EndsWait
  /\ IF phase = "matrix" THEN Begin
     ELSE /\ at' = "ended"
          /\ UNCHANGED <<config, phase, pauses, cancelled, expert, outcome>>
  /\ UNCHANGED interrupt

\* An expert's model answers.
Answers(e) ==
  /\ at = "panel"
  /\ expert[e] = "asked"
  /\ expert' = [expert EXCEPT ![e] = "done"]
  /\ history' = Append(history, phase)
  /\ IF phase = "scoring" THEN scored' = scored \cup {e} /\ UNCHANGED adjusted
     ELSE adjusted' = adjusted \cup {e} /\ UNCHANGED scored
  /\ UNCHANGED <<config, at, phase, interrupt, pauses, cancelled, feedback, matrix, ranking>>

\* It fails, or the context ends; the expert's result stays empty, without a name.
Fails(e) ==
  /\ at = "panel"
  /\ expert[e] = "asked"
  /\ expert' = [expert EXCEPT ![e] = "done"]
  /\ UNCHANGED <<config, at, phase, interrupt, pauses, cancelled, outcome>>

\* Mutant of Joined: one that is done is enough.
JoinedAny == \E e \in Asked : expert[e] = "done"

\* wg.Wait
Joined == \A e \in Experts : expert[e] # "asked"

EndPanel ==
  /\ at = "panel"
  /\ Joined
  /\ at' = "gate"
  /\ phase' = IF phase = "scoring" /\ critic THEN "challenge" ELSE "matrix"
  /\ UNCHANGED <<config, interrupt, pauses, cancelled, expert, outcome>>

CriticAnswers ==
  /\ at = "asking"
  /\ feedback' = TRUE
  /\ history' = Append(history, phase)
  /\ at' = "gate"
  /\ phase' = "adjustment"
  /\ UNCHANGED <<config, interrupt, pauses, cancelled, expert, scored, adjusted, matrix, ranking>>

\* Without a feedback there is nothing to answer.
CriticFails ==
  /\ at = "asking"
  /\ at' = "gate"
  /\ phase' = "matrix"
  /\ UNCHANGED <<config, interrupt, pauses, cancelled, expert, outcome>>

-----------------------------------------------------------------------------
(* The matrix.                                                             *)

\* The scores after the adjustments.  An adjustment is recorded without an option and
\* a criterion, finds no score of its expert, and so replaces none, though the matrix
\* is made to use the adjusted ones where there are any.
EffectiveScores == [e \in scored |-> ParsedScore]

\* Mutant of Average: of all experts.
AverageOfAll == SumFunction(EffectiveScores) \div Cardinality(Experts)

\* The average of those who scored.
Average == SumFunction(EffectiveScores) \div Cardinality(scored)

\* The entries an option has; those of a criterion nobody scored are missing.
CriterionScores == [c \in (IF scored = {} THEN {} ELSE criteria) |-> Average * Weight[c]]

Matrix == [o \in options |-> [scores |-> CriterionScores, total |-> SumFunction(CriterionScores)]]

\* sort.Slice by total; equal ones in any order.
Rankings(m) ==
  {r \in [1..Cardinality(options) -> options] :
     /\ {r[i] : i \in DOMAIN r} = options
     /\ \A i, j \in DOMAIN r : i < j => m[r[i]].total >= m[r[j]].total}

MakeMatrix ==
  /\ at = "computing"
  /\ matrix' = {Matrix}
  /\ ranking' \in Rankings(Matrix)
  /\ at' = "ended"
  /\ UNCHANGED <<config, phase, interrupt, pauses, cancelled, expert, scored, adjusted,
                 feedback, history>>

Orchestrate ==
  \/ Open \/ GoThrough \/ Interrupted \/ Refused \/ EndPanel
  \/ CriticAnswers \/ CriticFails \/ MakeMatrix
  \/ \E e \in Experts : Answers(e) \/ Fails(e)

EvaluationNext == Orchestrate \/ Resume \/ Pause \/ Cancel

EvaluationSpec == EvaluationInit /\ [][EvaluationNext]_evaluationVars

-----------------------------------------------------------------------------
(* Properties.                                                             *)

EvaluationTypeOK ==
  /\ options \subseteq Options /\ criteria \subseteq DOMAIN Weight /\ critic \in BOOLEAN
  /\ at \in {"opening", "gate", "paused", "panel", "asking", "computing", "ended"}
  /\ phase \in {Phases[i] : i \in DOMAIN Phases}
  /\ interrupt \in BOOLEAN /\ pauses \in 0..MaxPauses /\ cancelled \in BOOLEAN
  /\ expert \in [Experts -> {"idle", "asked", "done"}]
  /\ scored \subseteq Experts /\ adjusted \subseteq Experts /\ feedback \in BOOLEAN
  /\ \A i \in DOMAIN history : history[i] \in {"scoring", "challenge", "adjustment"}
  /\ Cardinality(matrix) <= 1
  /\ \A i \in DOMAIN ranking : ranking[i] \in options

\* What stands in the matrix is an average of what the experts who scored gave: it
\* is no less than the lowest and no more than the highest of their scores, by the
\* criterion's weight, so that one whose model failed or was cut short draws no
\* option down; and an option is scored by all criteria or, when nobody scored, by
\* none.  What a score is, is not asserted: that the parser gives every answer the
\* same one, and that an adjustment changes none, is what the code does at present.
OnlyAnswersCount ==
  \A m \in matrix : \A o \in options :
    /\ DOMAIN m[o].scores = (IF scored = {} THEN {} ELSE criteria)
    /\ \A c \in DOMAIN m[o].scores : \E low, high \in scored :
         /\ Weight[c] * EffectiveScores[low] <= m[o].scores[c]
         /\ m[o].scores[c] <= Weight[c] * EffectiveScores[high]

\* What is said in a phase is said before anything of the next one: no expert is
\* still scoring while the critic answers or the matrix is made, and nobody is
\* heard once Execute has returned.
SpeechesKeepToTheirPhase ==
  LET Rank(p) == CHOOSE i \in DOMAIN Phases : Phases[i] = p IN
  /\ \A i, j \in DOMAIN history : i < j => Rank(history[i]) <= Rank(history[j])
  /\ at # "panel" => \A e \in Experts : expert[e] # "asked"
  /\ adjusted # {} => feedback

\* An evaluation whose context ends comes to its end, paused or not, whether or
\* not anyone resumes it.
CancelledEvaluationsEnd == cancelled ~> at = "ended"
=============================================================================
