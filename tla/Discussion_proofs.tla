------------------------- MODULE Discussion_proofs -------------------------
(***************************************************************************)
(* The properties of Discussion, for any roles, round limits and paradigms *)
(* of the code.                                                            *)
(***************************************************************************)
EXTENDS Discussion, TLAPS

Heard(r, n) == Message(r, n) \in Said(history)

Begun == at = "speaking"

\* Where the orchestrator is agrees with who speaks: before and between phases
\* nobody does, in a phase everyone who is due, in a free chat one role.
Staged ==
  /\ at = "opening" => paradigm = "round_robin" /\ phase = 0
  /\ at \in {"check", "waiting"} => phase < LastPhase
  /\ at \in {"speaking", "over", "failed"} => phase > 0
  /\ Begun /\ IsCourt => phase < CourtPhases
  /\ at = "failed" => IsCourt
  /\ ~Begun => Speaking = {}
  /\ Begun /\ paradigm # "free_chat" => Speaking = Due(phase)
  /\ Begun /\ ~InPanel => \E r \in Roles : Speaking = {r}
  /\ Begun /\ ~InPanel => \A r \in Roles : speaker[r] # "spoken"

\* The history is in the order of the phases and lacks nobody who has spoken or
\* was due.
InOrder ==
  /\ \A m \in Said(history) : m.phase <= phase
  /\ Begun => \A r \in Roles : Heard(r, phase) <=> speaker[r] = "spoken"
  /\ \A n \in 1..phase : n < phase \/ at \notin {"speaking", "failed"} =>
       \A r \in Due(n) : Heard(r, n)

\* What a round robin keeps of the round before.
Remembered ==
  paradigm = "round_robin" =>
    /\ \A m \in LastRoundSummary :
         m.who \in Roles /\ m.phase = IF Begun THEN phase - 1 ELSE phase
    /\ \A r \in Roles :
         LET last == IF Begun /\ speaker[r] # "spoken" THEN phase - 1 ELSE phase IN
         last > 0 => roleLastMessages[r] = {Message(r, last)}

\* What the user said last, where the rounds keep it.
UserKept ==
  /\ \A m \in PauseUserInput : m.who = User
  /\ ~IsCourt => PauseUserInput = said /\ said \subseteq Said(history)

IInv ==
  /\ TypeOK
  /\ Staged
  /\ InOrder
  /\ Remembered
  /\ UserKept
  /\ PromptsLookBackOneRound
  /\ UserIsHeard
  /\ ReviewsAreAnswered

-----------------------------------------------------------------------------
(* Facts about messages and histories.                                     *)

LEMMA MessageFacts ==
  ASSUME NEW w, NEW n
  PROVE  /\ Message(w, n).who = w
         /\ Message(w, n).phase = n
         /\ w \in SpeakerIds /\ n \in Nat => Message(w, n) \in MessageIds
BY DEF Message, MessageIds

LEMMA MessagesDiffer ==
  ASSUME NEW w, NEW n, NEW v, NEW k, Message(w, n) = Message(v, k)
  PROVE  w = v /\ n = k
BY MessageFacts

LEMMA SaidOfNothing == Said(<<>>) = {}
BY DEF Said

\* A message more in the history is one that was said, and nothing is lost.
LEMMA SaidOfAppend ==
  ASSUME NEW S, NEW h \in Seq(S), NEW m \in S
  PROVE  /\ Append(h, m) \in Seq(S)
         /\ Said(Append(h, m)) = Said(h) \cup {m}
<1>1. Append(h, m) \in Seq(S)
  OBVIOUS
<1>2. ASSUME NEW x \in Said(h) \cup {m} PROVE x \in Said(Append(h, m))
  <2>1. CASE x = m
    <3>1. Append(h, m)[Len(h) + 1] = m /\ Len(h) + 1 \in DOMAIN Append(h, m)
      OBVIOUS
    <3> QED BY <2>1, <3>1 DEF Said
  <2>2. CASE x \in Said(h)
    <3>1. PICK i \in DOMAIN h : x = h[i]
      BY <2>2 DEF Said
    <3>2. i \in DOMAIN Append(h, m) /\ Append(h, m)[i] = h[i]
      BY <3>1
    <3> QED BY <3>1, <3>2 DEF Said
  <2> QED BY <1>2, <2>1, <2>2
<1>3. ASSUME NEW x \in Said(Append(h, m)) PROVE x \in Said(h) \cup {m}
  <2>1. PICK i \in DOMAIN Append(h, m) : x = Append(h, m)[i]
    BY <1>3 DEF Said
  <2>2. CASE i = Len(h) + 1
    BY <2>1, <2>2
  <2>3. CASE i \in DOMAIN h
    BY <2>1, <2>3 DEF Said
  <2> QED BY <2>1, <2>2, <2>3
<1> QED BY <1>1, <1>2, <1>3

LEMMA SaidIsTyped ==
  ASSUME NEW S, NEW h \in Seq(S)
  PROVE  Said(h) \subseteq S
BY DEF Said

\* The paradigms differ, and who is due in a phase is a set of roles.
LEMMA DueFacts ==
  ASSUME NEW n
  PROVE  /\ Due(n) \subseteq Roles
         /\ paradigm = "round_robin" => Due(n) = Roles /\ Due(n) # {}
         /\ IsCourt /\ n \in {1, 3} => Due(n) = {Author}
         /\ IsCourt /\ n = 2 => Due(n) = Roles \ {Author}
         /\ IsCourt /\ n \notin {1, 2, 3} => Due(n) = {}
         /\ paradigm = "free_chat" => Due(n) = {}
BY DiscussionAssumption DEF Due, IsCourt

-----------------------------------------------------------------------------
(* The invariant holds at first.                                           *)

LEMMA InitInv == Init => IInv
<1> SUFFICES ASSUME Init PROVE IInv
  OBVIOUS
<1> USE DiscussionAssumption, SaidOfNothing DEF Init
<1>1. TypeOK
  BY DEF TypeOK, LastPhase, CourtPhases
<1>2. Staged
  BY DEF Staged, LastPhase, CourtPhases, Begun, Speaking
<1>3. InOrder
  BY DEF InOrder, Begun
<1>4. Remembered
  BY DEF Remembered, Begun
<1>5. UserKept /\ PromptsLookBackOneRound /\ UserIsHeard /\ ReviewsAreAnswered
  BY DEF UserKept, PromptsLookBackOneRound, UserIsHeard, ReviewsAreAnswered
<1> QED
  BY <1>1, <1>2, <1>3, <1>4, <1>5 DEF IInv

-----------------------------------------------------------------------------
(* The invariant is kept, one operation after the other.                   *)

LEMMA DueIsFixed ==
  ASSUME paradigm' = paradigm, NEW n
  PROVE  Due(n)' = Due(n)
BY DEF Due, IsCourt

\* A step on which the paradigm, the phase and the place stay leaves these alone.
LEMMA FrameFacts ==
  ASSUME UNCHANGED <<paradigm, MaxRounds>>
  PROVE  /\ IsCourt' = IsCourt
         /\ LastPhase' = LastPhase
         /\ phase' = phase => (InPanel' = InPanel /\ CurrentRound' = CurrentRound)
BY DEF IsCourt, LastPhase, InPanel, CurrentRound

LEMMA OpenKeepsInv == IInv /\ Open => IInv'
<1> SUFFICES ASSUME IInv, Open PROVE IInv'
  OBVIOUS
<1> DEFINE m == Message(Moderator, 0)
<1>1. m \in MessageIds
  BY MessageFacts DEF SpeakerIds
<1>2. history' \in Seq(MessageIds) /\ store' \in Seq(MessageIds)
        /\ Said(history') = Said(history) \cup {m}
  BY <1>1, SaidOfAppend DEF Open, IInv, TypeOK
<1>3. paradigm = "round_robin" /\ phase = 0 /\ Speaking = {}
  BY DEF Open, IInv, Staged, Begun
<1>4. UNCHANGED <<paradigm, MaxRounds, phase, speaker>> /\ at' = "check"
  BY DEF Open, panel
<1>5. TypeOK'
  BY <1>2, <1>4, FrameFacts DEF Open, IInv, TypeOK, panel
<1>6. Staged'
  BY <1>3, <1>4, FrameFacts, DiscussionAssumption
  DEF Staged, Begun, Speaking, LastPhase, IsCourt, IInv, TypeOK
<1>7. InOrder'
  BY <1>2, <1>3, <1>4, MessageFacts DEF InOrder, Begun, IInv
<1>8. Remembered'
  BY <1>3, <1>4 DEF Remembered, Begun, IInv, Open
<1>9. UserKept'
  BY <1>2, <1>4, FrameFacts DEF UserKept, IInv, Open
<1>10. PromptsLookBackOneRound' /\ UserIsHeard' /\ ReviewsAreAnswered'
  BY <1>3, <1>4 DEF PromptsLookBackOneRound, UserIsHeard, ReviewsAreAnswered, Speaking
<1> QED
  BY <1>5, <1>6, <1>7, <1>8, <1>9, <1>10 DEF IInv

\* What begins a phase finds nobody speaking and leaves nobody asked.
LEMMA NextPhaseFacts ==
  ASSUME TypeOK, phase < LastPhase
  PROVE  /\ NextPhase \in 1..LastPhase
         /\ phase < NextPhase
         /\ ~IsCourt => NextPhase = phase + 1
         /\ IsCourt => \A n \in 1..NextPhase : n > phase /\ n < NextPhase => Due(n) = {}
BY DiscussionAssumption DEF TypeOK, LastPhase, NextPhase, CourtPhases, IsCourt

LEMMA BeginKeepsInv ==
  ASSUME IInv, at \in {"check", "waiting"}, Begin,
         UNCHANGED <<paradigm, MaxRounds, store, LastRoundSummary, roleLastMessages>>,
         \/ UNCHANGED <<history, PauseUserInput, said>>
         \/ /\ said' = {Message(User, phase)}
            /\ IF IsCourt
               THEN UNCHANGED <<history, PauseUserInput>>
               ELSE /\ PauseUserInput' = {Message(User, phase)}
                    /\ history' = Append(history, Message(User, phase))
  PROVE  IInv'
<1> DEFINE word == Message(User, phase)
<1>1. /\ TypeOK /\ Staged /\ InOrder /\ Remembered /\ UserKept
      /\ phase \in Nat /\ phase < LastPhase /\ ~Begun
  BY DEF IInv, TypeOK, Staged, Begun
<1>2. PICK invited \in Invited(phase') :
        /\ at' = IF invited # {} THEN "speaking"
                 ELSE IF IsCourt THEN "over" ELSE AfterSkipped(phase')
        /\ speaker' = [r \in Roles |-> IF r \in invited THEN "invited" ELSE "silent"]
  BY DEF Begin
<1>3. /\ phase' = NextPhase /\ modelCtx' = "open"
      /\ prompt' = [r \in Roles |-> {}] /\ results' = [r \in Roles |-> None]
  BY DEF Begin
<1>4. /\ phase' \in 1..LastPhase /\ phase < phase' /\ phase' \in Nat
      /\ IsCourt => \A n \in 1..phase' : n > phase /\ n < phase' => Due(n) = {}
      /\ LastPhase \in Nat
  BY <1>1, <1>3, NextPhaseFacts, DiscussionAssumption DEF TypeOK, LastPhase, CourtPhases
<1>5. /\ invited \subseteq Roles
      /\ paradigm # "free_chat" => invited = Due(phase')
      /\ paradigm = "free_chat" => invited = {} \/ \E r \in Roles : invited = {r}
  BY DueFacts DEF Invited
<1>6. /\ IsCourt' = IsCourt /\ LastPhase' = LastPhase
      /\ \A n : Due(n)' = Due(n)
  BY FrameFacts, DueIsFixed
<1>7. /\ Speaking' = invited
      /\ \A r \in Roles : speaker'[r] \in {"invited", "silent"}
      /\ at' \in {"speaking", "over", "check"}
      /\ Begun' <=> invited # {}
  BY <1>2, <1>5 DEF Speaking, AfterSkipped, Begun
<1>8. /\ word \in MessageIds
      /\ word.who = User /\ word.phase = phase
  BY <1>1, MessageFacts DEF SpeakerIds
<1>9. /\ history' \in Seq(MessageIds)
      /\ Said(history) \subseteq Said(history')
      /\ Said(history') \subseteq Said(history) \cup {word}
      /\ said' \subseteq MessageIds /\ PauseUserInput' \subseteq MessageIds
      /\ \/ said' = said
         \/ said' = {word} /\ (~IsCourt => word \in Said(history'))
      /\ PauseUserInput' = PauseUserInput \/ PauseUserInput' = {word}
      /\ ~IsCourt /\ PauseUserInput = said => PauseUserInput' = said'
  <2>1. /\ history \in Seq(MessageIds)
        /\ said \subseteq MessageIds /\ PauseUserInput \subseteq MessageIds
    BY <1>1 DEF TypeOK
  <2>2. /\ Append(history, word) \in Seq(MessageIds)
        /\ Said(Append(history, word)) = Said(history) \cup {word}
    BY <2>1, <1>8, SaidOfAppend
  <2>3. CASE UNCHANGED <<history, PauseUserInput, said>>
    BY <2>1, <2>3
  <2>4. CASE IsCourt /\ said' = {word} /\ UNCHANGED <<history, PauseUserInput>>
    BY <2>1, <2>4, <1>8
  <2>5. CASE /\ ~IsCourt /\ said' = {word} /\ PauseUserInput' = {word}
             /\ history' = Append(history, word)
    BY <2>1, <2>2, <2>5, <1>8
  <2> QED
    BY <2>3, <2>4, <2>5
<1>10. TypeOK'
  BY <1>1, <1>2, <1>3, <1>4, <1>6, <1>7, <1>9 DEF TypeOK
<1>11. Staged'
  <2>1. at' = "check" => phase' < LastPhase
    BY <1>2, <1>4 DEF AfterSkipped, LastPhase
  <2>2. at' \notin {"opening", "waiting", "failed"}
    BY <1>7
  <2>3. Begun' /\ IsCourt => phase' < CourtPhases
    BY <1>4, <1>5, <1>7, DueFacts DEF LastPhase, CourtPhases, IsCourt
  <2>4. ~Begun' => Speaking' = {}
    BY <1>7
  <2>5. Begun' /\ paradigm # "free_chat" => Speaking' = Due(phase')
    BY <1>5, <1>7
  <2>6. Begun' /\ ~InPanel' => \E r \in Roles : Speaking' = {r}
    <3>1. CASE paradigm = "free_chat"
      BY <3>1, <1>5, <1>7
    <3>2. CASE IsCourt
      <4>1. ~InPanel' /\ Begun' => phase' \in {1, 3}
        BY <3>2, <1>4, <1>6, <2>3 DEF InPanel, CourtPhases
      <4> QED BY <4>1, <3>2, <1>5, <1>7, DueFacts, DiscussionAssumption DEF IsCourt
    <3>3. CASE paradigm = "round_robin"
      BY <3>3 DEF InPanel
    <3> QED
      BY <3>1, <3>2, <3>3, <1>1, DiscussionAssumption DEF TypeOK, IsCourt
  <2> QED
    BY <2>1, <2>2, <2>3, <2>4, <2>5, <2>6, <1>4, <1>6, <1>7 DEF Staged
<1>12. InOrder'
  <2>1. ASSUME NEW m \in Said(history')
        PROVE  m.phase \in Nat /\ m.phase < phase' /\ m.phase <= phase
    <3>1. CASE m \in Said(history)
      <4>1. m \in MessageIds
        BY <3>1, <1>1, SaidIsTyped DEF TypeOK
      <4> QED BY <3>1, <4>1, <1>1, <1>4 DEF InOrder, MessageIds
    <3>2. CASE m = word
      BY <3>2, <1>1, <1>4, <1>8
    <3> QED BY <3>1, <3>2, <1>9
  <2>2. ASSUME NEW r \in Roles PROVE Heard(r, phase)' <=> speaker'[r] = "spoken"
    BY <2>1, <1>4, <1>7, MessageFacts DEF Heard
  <2>3. ASSUME NEW n \in 1..phase', n < phase' \/ at' \notin {"speaking", "failed"},
               NEW r \in Due(n)
        PROVE  Heard(r, n)'
    <3>1. CASE n <= phase
      BY <3>1, <2>3, <1>1, <1>9, DiscussionAssumption DEF InOrder, Heard, Begun, Staged
    <3>2. CASE n > phase /\ n < phase'
      BY <3>2, <2>3, <1>1, <1>3, <1>4, NextPhaseFacts
    <3>3. CASE n = phase'
      BY <3>3, <2>3, <1>5, <1>7, DueFacts DEF Begun
    <3> QED
      BY <3>1, <3>2, <3>3, <1>1, <1>4
  <2>4. \A m \in Said(history') : m.phase <= phase'
    BY <2>1, <1>4
  <2> QED
    BY <2>2, <2>3, <2>4, <1>6 DEF InOrder
<1>13. Remembered'
  <2>1. paradigm = "round_robin" => phase' = phase + 1 /\ Begun'
    BY <1>1, <1>3, <1>5, <1>7, NextPhaseFacts, DueFacts DEF IsCourt
  <2> QED
    BY <2>1, <1>1, <1>7 DEF Remembered
<1>14. UserKept'
  <2> HIDE DEF word
  <2>1. \A m \in PauseUserInput' : m.who = User
    BY <1>1, <1>8, <1>9 DEF UserKept
  <2>2. ~IsCourt => PauseUserInput' = said' /\ said' \subseteq Said(history')
    BY <1>1, <1>9 DEF UserKept
  <2> QED BY <2>1, <2>2, <1>6 DEF UserKept
<1>15. PromptsLookBackOneRound' /\ UserIsHeard' /\ ReviewsAreAnswered'
  BY <1>7, DiscussionAssumption DEF PromptsLookBackOneRound, UserIsHeard, ReviewsAreAnswered
<1> QED
  BY <1>10, <1>11, <1>12, <1>13, <1>14, <1>15 DEF IInv

LEMMA NotInterruptedKeepsInv == IInv /\ NotInterrupted => IInv'
BY BeginKeepsInv DEF NotInterrupted, state

LEMMA ResumedKeepsInv == IInv /\ Resumed => IInv'
BY BeginKeepsInv DEF Resumed

LEMMA InterruptedKeepsInv == IInv /\ Interrupted => IInv'
<1> SUFFICES ASSUME IInv, Interrupted PROVE IInv'
  OBVIOUS
<1>1. /\ at = "check" /\ at' = "waiting"
      /\ UNCHANGED <<paradigm, MaxRounds, phase, history, store, PauseUserInput, said,
                     LastRoundSummary, roleLastMessages, modelCtx, speaker, prompt, results>>
  BY DEF Interrupted, state, panel
<1>2. IsCourt' = IsCourt /\ LastPhase' = LastPhase /\ \A n : Due(n)' = Due(n)
  BY <1>1, FrameFacts, DueIsFixed
<1>3. TypeOK'
  BY <1>1, <1>2 DEF IInv, TypeOK
<1>4. Staged'
  BY <1>1, <1>2 DEF IInv, Staged, Begun, Speaking
<1>5. InOrder' /\ Remembered' /\ UserKept'
  BY <1>1, <1>2 DEF IInv, InOrder, Remembered, UserKept, Begun, Heard
<1>6. PromptsLookBackOneRound' /\ UserIsHeard' /\ ReviewsAreAnswered'
  BY <1>1, <1>2
  DEF IInv, PromptsLookBackOneRound, UserIsHeard, ReviewsAreAnswered
<1> QED
  BY <1>3, <1>4, <1>5, <1>6 DEF IInv

\* Who is asked is given what the code gives it: the prompt is the one thing a
\* role reads of the others.
LEMMA AskKeepsInv == ASSUME IInv, NEW r \in Roles, Ask(r) PROVE IInv'
<1>1. /\ speaker[r] = "invited"
      /\ speaker' = [speaker EXCEPT ![r] = "asked"]
      /\ prompt' = [prompt EXCEPT ![r] = Messages(r)]
      /\ UNCHANGED <<paradigm, MaxRounds, at, phase, history, store, PauseUserInput, said,
                     LastRoundSummary, roleLastMessages, modelCtx, results>>
  BY DEF Ask, state
<1>2. /\ IsCourt' = IsCourt /\ LastPhase' = LastPhase /\ \A n : Due(n)' = Due(n)
      /\ InPanel' = InPanel
  BY <1>1, FrameFacts, DueIsFixed
<1>3. TypeOK /\ Staged /\ InOrder /\ Remembered /\ UserKept /\ Said(history) \subseteq MessageIds
  BY SaidIsTyped DEF IInv, TypeOK
<1>4. Begun /\ phase > 0 /\ phase \in Nat
  BY <1>1, <1>3, DiscussionAssumption DEF Staged, Speaking, Begun, TypeOK, LastPhase, CourtPhases
<1>5. Speaking' = Speaking
  BY <1>1, <1>3 DEF TypeOK, Speaking
<1>6. TypeOK'
  <2>1. Messages(r) \subseteq MessageIds
    BY <1>3 DEF Messages, PanelMessages, SoloMessages, TypeOK
  <2> QED
    BY <2>1, <1>1, <1>2, <1>3 DEF TypeOK
<1>7. Staged'
  BY <1>1, <1>2, <1>3, <1>5 DEF Staged, Begun, TypeOK
<1>8. InOrder' /\ Remembered' /\ UserKept'
  BY <1>1, <1>2, <1>3 DEF InOrder, Remembered, UserKept, Begun, Heard, TypeOK
<1>9. PromptsLookBackOneRound'
  <2> SUFFICES ASSUME paradigm = "round_robin", phase > 1, NEW q \in Roles,
                      speaker'[q] \in {"asked", "spoken"}
               PROVE  /\ Message(q, phase - 1) \in prompt'[q]
                      /\ \A m \in prompt'[q] : m.who \in Roles => m.phase = phase - 1
    BY <1>1, MessageFacts DEF PromptsLookBackOneRound
  <2>1. CASE q # r
    BY <2>1, <1>1, <1>3 DEF PromptsLookBackOneRound, TypeOK, IInv
  <2>2. CASE q = r
    <3>1. prompt'[q] = roleLastMessages[r] \cup LastRoundSummary \cup PauseUserInput
      BY <2>2, <1>1, <1>3, <1>4
      DEF Messages, InPanel, PanelMessages, CurrentRound, IsCourt, TypeOK
    <3>2. roleLastMessages[r] = {Message(r, phase - 1)}
      BY <1>1, <1>3, <1>4 DEF Remembered
    <3>3. \A m \in LastRoundSummary : m.phase = phase - 1
      BY <1>3, <1>4 DEF Remembered
    <3>4. \A m \in PauseUserInput : m.who \notin Roles
      BY <1>3, SpeakersAreDistinct DEF UserKept
    <3> QED
      BY <2>2, <3>1, <3>2, <3>3, <3>4, MessageFacts
  <2> QED
    BY <2>1, <2>2
<1>10. UserIsHeard'
  <2>1. ~IsCourt => said \subseteq Messages(r)
    BY <1>3 DEF Messages, PanelMessages, SoloMessages, UserKept
  <2> QED
    BY <2>1, <1>1, <1>2, <1>3 DEF UserIsHeard, TypeOK, IInv
<1>11. ReviewsAreAnswered'
  <2>1. CASE r # Author
    BY <2>1, <1>1, <1>2, <1>3, DiscussionAssumption DEF ReviewsAreAnswered, TypeOK, IInv
  <2>2. CASE r = Author /\ IsCourt /\ phase = 3
    <3>1. Messages(r) = Said(history)
      BY <2>2 DEF Messages, SoloMessages, InPanel, IsCourt
    <3>2. Message(Author, 1) \in Said(history)
      BY <2>2, <1>3, <1>4, DueFacts DEF InOrder, Heard
    <3>3. \A q \in Due(2) : Message(q, 2) \in Said(history)
      BY <2>2, <1>3, <1>4 DEF InOrder, Heard
    <3> QED
      BY <2>2, <3>1, <3>2, <3>3, <1>1, <1>2, <1>3 DEF ReviewsAreAnswered, TypeOK
  <2> QED
    BY <2>1, <2>2, <1>1, <1>2 DEF ReviewsAreAnswered
<1> QED
  BY <1>6, <1>7, <1>8, <1>9, <1>10, <1>11 DEF IInv

\* However a role of a panel ends, its speech is the last of the phase.
LEMMA RecordKeepsInv ==
  ASSUME IInv, NEW r \in Roles, InPanel, speaker[r] = "asked",
         NEW result \in {"ok", "error"}, Record(r, result),
         UNCHANGED <<paradigm, MaxRounds, at, phase, PauseUserInput, said,
                     LastRoundSummary, modelCtx, prompt>>
  PROVE  IInv'
<1> DEFINE speech == Message(r, phase)
<1>1. /\ speaker' = [speaker EXCEPT ![r] = "spoken"]
      /\ results' = [results EXCEPT ![r] = result]
      /\ history' = Append(history, speech)
      /\ store' = Append(store, Message(r, CurrentRound))
      /\ roleLastMessages' = [roleLastMessages EXCEPT ![r] = {speech}]
  BY DEF Record
<1>2. /\ IsCourt' = IsCourt /\ LastPhase' = LastPhase /\ \A n : Due(n)' = Due(n)
      /\ InPanel' = InPanel
  BY FrameFacts, DueIsFixed
<1>3. TypeOK /\ Staged /\ InOrder /\ Remembered /\ UserKept
  BY DEF IInv
<1>4. Begun /\ phase > 0 /\ phase \in Nat /\ CurrentRound \in Nat
  BY <1>3, DiscussionAssumption
  DEF Staged, Speaking, Begun, TypeOK, LastPhase, CourtPhases, CurrentRound
<1>5. Speaking' = Speaking
  BY <1>1, <1>3 DEF TypeOK, Speaking
<1>6. speech \in MessageIds /\ Message(r, CurrentRound) \in MessageIds
  BY <1>4, MessageFacts DEF SpeakerIds
<1>7. /\ history' \in Seq(MessageIds) /\ store' \in Seq(MessageIds)
      /\ Said(history') = Said(history) \cup {speech}
  BY <1>1, <1>3, <1>6, SaidOfAppend DEF TypeOK
<1>8. TypeOK'
  BY <1>1, <1>2, <1>3, <1>6, <1>7 DEF TypeOK
<1>9. Staged'
  BY <1>1, <1>2, <1>3, <1>4, <1>5 DEF Staged, Begun, TypeOK
<1>10. InOrder'
  <2>1. \A m \in Said(history') : m.phase <= phase
    BY <1>3, <1>4, <1>7, MessageFacts DEF InOrder
  <2>2. ASSUME NEW q \in Roles PROVE Heard(q, phase)' <=> speaker'[q] = "spoken"
    <3>1. CASE q = r
      BY <3>1, <1>1, <1>3, <1>7 DEF Heard, TypeOK
    <3>2. CASE q # r
      <4>1. Message(q, phase) # speech
        BY <3>2, MessagesDiffer
      <4> QED
        BY <3>2, <4>1, <1>1, <1>3, <1>4, <1>7 DEF Heard, InOrder, TypeOK
    <3> QED
      BY <3>1, <3>2
  <2>3. \A n \in 1..phase : n < phase => \A q \in Due(n) : Heard(q, n)'
    BY <1>3, <1>4, <1>7 DEF InOrder, Heard
  <2> QED
    BY <2>1, <2>2, <2>3, <1>2, <1>4 DEF InOrder, Begun
<1>11. Remembered'
  <2> SUFFICES ASSUME paradigm = "round_robin" PROVE Remembered'
    BY DEF Remembered
  <2>1. \A m \in LastRoundSummary : m.who \in Roles /\ m.phase = phase - 1
    BY <1>3, <1>4 DEF Remembered
  <2>2. ASSUME NEW q \in Roles,
               NEW last, last = IF speaker'[q] # "spoken" THEN phase - 1 ELSE phase,
               last > 0
        PROVE  roleLastMessages'[q] = {Message(q, last)}
    BY <2>2, <1>1, <1>3, <1>4 DEF Remembered, TypeOK
  <2> QED
    BY <2>1, <2>2, <1>4 DEF Remembered, Begun
<1>12. UserKept'
  BY <1>2, <1>3, <1>7 DEF UserKept
<1>13. PromptsLookBackOneRound' /\ UserIsHeard' /\ ReviewsAreAnswered'
  BY <1>1, <1>2, <1>3, DiscussionAssumption
  DEF IInv, PromptsLookBackOneRound, UserIsHeard, ReviewsAreAnswered, TypeOK
<1> QED
  BY <1>8, <1>9, <1>10, <1>11, <1>12, <1>13 DEF IInv

LEMMA ExpireKeepsInv == IInv /\ Expire => IInv'
<1> SUFFICES ASSUME IInv, Expire PROVE IInv'
  OBVIOUS
<1>1. /\ modelCtx' = "expired"
      /\ UNCHANGED <<paradigm, MaxRounds, at, phase, history, store, PauseUserInput, said,
                     LastRoundSummary, roleLastMessages, speaker, prompt, results>>
  BY DEF Expire, state
<1>2. /\ IsCourt' = IsCourt /\ LastPhase' = LastPhase /\ \A n : Due(n)' = Due(n)
      /\ InPanel' = InPanel
  BY <1>1, FrameFacts, DueIsFixed
<1>3. TypeOK' /\ Staged'
  BY <1>1, <1>2 DEF IInv, TypeOK, Staged, Begun, Speaking
<1>4. InOrder' /\ Remembered' /\ UserKept'
  BY <1>1, <1>2 DEF IInv, InOrder, Remembered, UserKept, Begun, Heard
<1>5. PromptsLookBackOneRound' /\ UserIsHeard' /\ ReviewsAreAnswered'
  BY <1>1, <1>2
  DEF IInv, PromptsLookBackOneRound, UserIsHeard, ReviewsAreAnswered
<1> QED
  BY <1>3, <1>4, <1>5 DEF IInv

LEMMA SpeakAloneKeepsInv == ASSUME IInv, NEW r \in Roles, SpeakAlone(r) PROVE IInv'
<1> DEFINE speech == Message(r, phase)
<1>1. /\ ~InPanel /\ speaker[r] = "asked"
      /\ speaker' = [speaker EXCEPT ![r] = "silent"]
      /\ history' = Append(history, speech)
      /\ at' = AfterPhase(history')
      /\ UNCHANGED <<paradigm, MaxRounds, phase, store, PauseUserInput, said,
                     LastRoundSummary, roleLastMessages, modelCtx, prompt, results>>
  BY DEF SpeakAlone
<1>2. /\ IsCourt' = IsCourt /\ LastPhase' = LastPhase /\ \A n : Due(n)' = Due(n)
      /\ InPanel' = InPanel
  BY <1>1, FrameFacts, DueIsFixed
<1>3. TypeOK /\ Staged /\ InOrder /\ Remembered /\ UserKept
  BY DEF IInv
<1>4. Begun /\ phase > 0 /\ phase \in Nat /\ LastPhase \in Nat /\ phase <= LastPhase
  BY <1>1, <1>3, DiscussionAssumption
  DEF Staged, Speaking, Begun, TypeOK, LastPhase, CourtPhases
<1>5. Speaking = {r} /\ Speaking' = {}
  <2>1. r \in Speaking
    BY <1>1 DEF Speaking
  <2>2. Speaking = {r}
    BY <2>1, <1>1, <1>3, <1>4 DEF Staged
  <2> QED
    BY <2>2, <1>1, <1>3 DEF TypeOK, Speaking
<1>6. paradigm # "round_robin" /\ speech \in MessageIds
  BY <1>1, <1>4, MessageFacts DEF SpeakerIds, InPanel
<1>7. /\ history' \in Seq(MessageIds)
      /\ Said(history') = Said(history) \cup {speech}
  BY <1>1, <1>3, <1>6, SaidOfAppend DEF TypeOK
<1>8. /\ at' \in {"check", "over"} /\ ~Begun'
      /\ at' = "check" => phase < LastPhase
  BY <1>1, <1>3, <1>4
  DEF AfterPhase, ShouldContinue, Begun, Staged, LastPhase, CourtPhases
<1>9. TypeOK'
  BY <1>1, <1>2, <1>3, <1>7, <1>8 DEF TypeOK
<1>10. Staged'
  BY <1>1, <1>2, <1>3, <1>4, <1>5, <1>8 DEF Staged
<1>11. InOrder'
  <2>1. \A m \in Said(history') : m.phase <= phase
    BY <1>3, <1>4, <1>7, MessageFacts DEF InOrder
  <2>2. ASSUME NEW n \in 1..phase, NEW q \in Due(n) PROVE Heard(q, n)'
    <3>1. CASE n < phase
      BY <3>1, <2>2, <1>3, <1>7 DEF InOrder, Heard
    <3>2. CASE n = phase
      <4>1. IsCourt
        BY <2>2, <1>3, <1>6, DueFacts, DiscussionAssumption DEF TypeOK, IsCourt
      <4>2. Speaking = Due(phase)
        BY <4>1, <1>3, <1>4 DEF IsCourt, Staged
      <4> QED
        BY <4>2, <3>2, <2>2, <1>5, <1>7, <1>1 DEF Heard
    <3> QED
      BY <3>1, <3>2, <2>2, <1>4
  <2> QED
    BY <2>1, <2>2, <1>1, <1>2, <1>8 DEF InOrder
<1>12. Remembered' /\ PromptsLookBackOneRound'
  BY <1>1, <1>6 DEF Remembered, PromptsLookBackOneRound
<1>13. UserKept'
  BY <1>1, <1>2, <1>3, <1>7 DEF UserKept
<1>14. UserIsHeard' /\ ReviewsAreAnswered'
  BY <1>1, <1>5, DiscussionAssumption DEF UserIsHeard, ReviewsAreAnswered, Speaking
<1> QED
  BY <1>9, <1>10, <1>11, <1>12, <1>13, <1>14 DEF IInv

LEMMA SpeakAloneFailsKeepsInv ==
  ASSUME IInv, NEW r \in Roles, SpeakAloneFails(r) PROVE IInv'
<1>1. /\ ~InPanel /\ speaker[r] = "asked"
      /\ speaker' = [speaker EXCEPT ![r] = "silent"]
      /\ at' = IF IsCourt THEN "failed" ELSE AfterSkipped(phase)
      /\ UNCHANGED <<paradigm, MaxRounds, phase, history, store, PauseUserInput, said,
                     LastRoundSummary, roleLastMessages, modelCtx, prompt, results>>
  BY DEF SpeakAloneFails, state
<1>2. /\ IsCourt' = IsCourt /\ LastPhase' = LastPhase /\ \A n : Due(n)' = Due(n)
      /\ InPanel' = InPanel
  BY <1>1, FrameFacts, DueIsFixed
<1>3. TypeOK /\ Staged /\ InOrder /\ Remembered /\ UserKept
  BY DEF IInv
<1>4. Begun /\ phase > 0 /\ phase \in Nat /\ LastPhase \in Nat /\ phase <= LastPhase
  BY <1>1, <1>3, DiscussionAssumption
  DEF Staged, Speaking, Begun, TypeOK, LastPhase, CourtPhases
<1>5. Speaking' = {}
  BY <1>1, <1>3, <1>4 DEF TypeOK, Speaking, Staged
<1>6. paradigm # "round_robin"
  BY <1>1 DEF InPanel
<1>7. /\ at' \in {"check", "over", "failed"} /\ ~Begun'
      /\ at' = "check" => phase < LastPhase
      /\ at' = "failed" <=> IsCourt
  BY <1>1, <1>4 DEF AfterSkipped, Begun, LastPhase
<1>8. TypeOK'
  BY <1>1, <1>2, <1>3, <1>7 DEF TypeOK
<1>9. Staged'
  BY <1>1, <1>2, <1>3, <1>4, <1>5, <1>7 DEF Staged
<1>10. InOrder'
  <2>1. ASSUME NEW n \in 1..phase, n < phase \/ at' \notin {"speaking", "failed"},
               NEW q \in Due(n)
        PROVE  Heard(q, n)'
    <3>1. CASE n < phase
      BY <3>1, <2>1, <1>1, <1>3 DEF InOrder, Heard
    <3>2. CASE ~IsCourt
      BY <3>2, <2>1, <1>3, <1>6, DueFacts, DiscussionAssumption DEF TypeOK, IsCourt
    <3> QED
      BY <3>1, <3>2, <2>1, <1>7
  <2> QED
    BY <2>1, <1>1, <1>2, <1>3, <1>7 DEF InOrder
<1>11. Remembered' /\ PromptsLookBackOneRound'
  BY <1>1, <1>6 DEF Remembered, PromptsLookBackOneRound
<1>12. UserKept'
  BY <1>1, <1>2, <1>3 DEF UserKept
<1>13. UserIsHeard' /\ ReviewsAreAnswered'
  BY <1>1, <1>5, DiscussionAssumption DEF UserIsHeard, ReviewsAreAnswered, Speaking
<1> QED
  BY <1>8, <1>9, <1>10, <1>11, <1>12, <1>13 DEF IInv

\* A panel ends when everyone who was due has spoken.
LEMMA EndPanelKeepsInv == IInv /\ EndPanel => IInv'
<1> SUFFICES ASSUME IInv, EndPanel PROVE IInv'
  OBVIOUS
<1>1. /\ Begun /\ InPanel /\ \A r \in Speaking : speaker[r] = "spoken"
      /\ speaker' = [r \in Roles |-> "silent"]
      /\ LastRoundSummary' =
           IF IsCourt THEN LastRoundSummary
           ELSE {Message(r, phase) : r \in {s \in Roles : results[s] = "ok"}}
      /\ at' = AfterPhase(history)
      /\ UNCHANGED <<paradigm, MaxRounds, phase, history, store, PauseUserInput, said,
                     roleLastMessages, modelCtx, prompt, results>>
  BY DEF EndPanel, Begun
<1>2. /\ IsCourt' = IsCourt /\ LastPhase' = LastPhase /\ \A n : Due(n)' = Due(n)
      /\ InPanel' = InPanel
  BY <1>1, FrameFacts, DueIsFixed
<1>3. TypeOK /\ Staged /\ InOrder /\ Remembered /\ UserKept
  BY DEF IInv
<1>4. /\ phase > 0 /\ phase \in Nat /\ LastPhase \in Nat /\ phase <= LastPhase
      /\ Speaking = Due(phase)
  BY <1>1, <1>3, DiscussionAssumption
  DEF Staged, Begun, TypeOK, LastPhase, CourtPhases, InPanel, IsCourt
<1>5. Speaking' = {}
  BY <1>1 DEF Speaking
<1>6. \A r \in Due(phase) : speaker[r] = "spoken" /\ Heard(r, phase)
  BY <1>1, <1>3, <1>4, DueFacts DEF InOrder
<1>7. /\ at' \in {"check", "over"} /\ ~Begun'
      /\ at' = "check" => phase < LastPhase
  BY <1>1, <1>3, <1>4
  DEF AfterPhase, ShouldContinue, Begun, Staged, LastPhase, CourtPhases
<1>8. LastRoundSummary' \subseteq MessageIds
  BY <1>1, <1>3, <1>4, MessageFacts DEF TypeOK, SpeakerIds
<1>9. TypeOK'
  BY <1>1, <1>2, <1>3, <1>7, <1>8 DEF TypeOK
<1>10. Staged'
  BY <1>1, <1>2, <1>3, <1>4, <1>5, <1>7 DEF Staged
<1>11. InOrder'
  <2>1. ASSUME NEW n \in 1..phase, NEW q \in Due(n) PROVE Heard(q, n)'
    BY <2>1, <1>1, <1>3, <1>4, <1>6 DEF InOrder, Heard
  <2> QED
    BY <2>1, <1>1, <1>2, <1>3, <1>7 DEF InOrder
<1>12. Remembered'
  <2> SUFFICES ASSUME paradigm = "round_robin" PROVE Remembered'
    BY <1>1 DEF Remembered
  <2>1. \A r \in Roles : speaker[r] = "spoken"
    BY <1>6, DueFacts
  <2>2. \A m \in LastRoundSummary' : m.who \in Roles /\ m.phase = phase
    BY <1>1, MessageFacts DEF IsCourt
  <2>3. \A r \in Roles : roleLastMessages[r] = {Message(r, phase)}
    BY <2>1, <1>3, <1>4 DEF Remembered
  <2> QED
    BY <2>2, <2>3, <1>1, <1>7 DEF Remembered
<1>13. UserKept'
  BY <1>1, <1>2, <1>3 DEF UserKept
<1>14. PromptsLookBackOneRound' /\ UserIsHeard' /\ ReviewsAreAnswered'
  BY <1>1, DiscussionAssumption
  DEF PromptsLookBackOneRound, UserIsHeard, ReviewsAreAnswered
<1> QED
  BY <1>9, <1>10, <1>11, <1>12, <1>13, <1>14 DEF IInv

LEMMA StutterKeepsInv == IInv /\ UNCHANGED vars => IInv'
<1> SUFFICES ASSUME IInv, UNCHANGED vars PROVE IInv'
  OBVIOUS
<1>1. UNCHANGED <<paradigm, MaxRounds, at, phase, history, store, PauseUserInput, said,
                  LastRoundSummary, roleLastMessages, modelCtx, speaker, prompt, results>>
  BY DEF vars, state, panel
<1>2. /\ IsCourt' = IsCourt /\ LastPhase' = LastPhase /\ \A n : Due(n)' = Due(n)
      /\ InPanel' = InPanel
  BY <1>1, FrameFacts, DueIsFixed
<1>3. TypeOK' /\ Staged'
  BY <1>1, <1>2 DEF IInv, TypeOK, Staged, Begun, Speaking
<1>4. InOrder' /\ Remembered' /\ UserKept'
  BY <1>1, <1>2 DEF IInv, InOrder, Remembered, UserKept, Begun, Heard
<1>5. PromptsLookBackOneRound' /\ UserIsHeard' /\ ReviewsAreAnswered'
  BY <1>1, <1>2
  DEF IInv, PromptsLookBackOneRound, UserIsHeard, ReviewsAreAnswered
<1> QED
  BY <1>3, <1>4, <1>5 DEF IInv

LEMMA StepKeepsInv == IInv /\ [Next]_vars => IInv'
<1> SUFFICES ASSUME IInv, [Next]_vars PROVE IInv'
  OBVIOUS
<1>1. ASSUME NEW r \in Roles, Answer(r) \/ AnswerFails(r) \/ AnswerLate(r)
      PROVE  IInv'
  BY <1>1, RecordKeepsInv DEF Answer, AnswerFails, AnswerLate
<1>2. ASSUME NEW r \in Roles, SpeakAlone(r) \/ SpeakAloneFails(r) \/ Ask(r)
      PROVE  IInv'
  BY <1>2, AskKeepsInv, SpeakAloneKeepsInv, SpeakAloneFailsKeepsInv
<1> QED
  BY <1>1, <1>2, OpenKeepsInv, NotInterruptedKeepsInv, InterruptedKeepsInv,
     ResumedKeepsInv, ExpireKeepsInv, EndPanelKeepsInv, StutterKeepsInv
  DEF Next, Orchestrator, Role

LEMMA InductiveInvariant == Spec => []IInv
BY InitInv, StepKeepsInv, PTL DEF Spec

-----------------------------------------------------------------------------
(* What a run checks for three roles.                                      *)

\* The variables keep their types; in particular no discussion begins a phase
\* more than its paradigm or its max_rounds allows.
THEOREM TypeIsKept == Spec => []TypeOK
<1>1. IInv => TypeOK
  BY DEF IInv
<1> QED BY <1>1, InductiveInvariant, PTL

\* From the second round on a prompt of a round robin is made of the round before.
THEOREM PromptsAreOfLastRound == Spec => []PromptsLookBackOneRound
<1>1. IInv => PromptsLookBackOneRound
  BY DEF IInv
<1> QED BY <1>1, InductiveInvariant, PTL

\* What the user said last at a pause is in every later prompt.
THEOREM UserWordsReachPrompts == Spec => []UserIsHeard
<1>1. IInv => UserIsHeard
  BY DEF IInv
<1> QED BY <1>1, InductiveInvariant, PTL

\* The author of a court answers with all reviews before it.
THEOREM AuthorReadsReviews == Spec => []ReviewsAreAnswered
<1>1. IInv => ReviewsAreAnswered
  BY DEF IInv
<1> QED BY <1>1, InductiveInvariant, PTL

\* The minutes of a round robin have the last round's speech of every role.
THEOREM MinutesAreOfLastRound == Spec => []MinutesShowLastRound
<1>1. IInv => MinutesShowLastRound
  <2> SUFFICES ASSUME IInv, paradigm = "round_robin", at = "over"
               PROVE  Minutes.viewpoints = {Message(r, Minutes.rounds) : r \in Roles}
    BY DEF MinutesShowLastRound
  <2>1. phase > 0 /\ ~Begun /\ CurrentRound = phase
    BY DEF IInv, Staged, Begun, CurrentRound, IsCourt
  <2>2. \A r \in Roles : roleLastMessages[r] = {Message(r, phase)}
    BY <2>1 DEF IInv, Remembered
  <2>3. UNION {roleLastMessages[r] : r \in Roles} = {Message(r, phase) : r \in Roles}
    BY <2>2
  <2> QED
    BY <2>1, <2>3 DEF Minutes
<1> QED BY <1>1, InductiveInvariant, PTL

-----------------------------------------------------------------------------
(* A discussion keeps the promise of Transcript.                           *)

Schedule == [n \in 1..LastPhase |-> Due(n)]

LEMMA ScheduleIsFixed ==
  ASSUME UNCHANGED <<paradigm, MaxRounds>>
  PROVE  Schedule' = Schedule
<1>1. LastPhase' = LastPhase /\ \A n : Due(n)' = Due(n)
  BY FrameFacts, DueIsFixed
<1> QED
  BY <1>1 DEF Schedule

LEMMA ScheduleIsTyped ==
  ASSUME TypeOK
  PROVE  /\ Schedule \in Seq(SUBSET Roles)
         /\ DOMAIN Schedule = 1..LastPhase
         /\ \A n \in 1..LastPhase : Schedule[n] = Due(n)
<1>1. LastPhase \in Nat
  BY DiscussionAssumption DEF TypeOK, LastPhase, CourtPhases
<1>2. \A n : Due(n) \in SUBSET Roles
  BY DueFacts
<1>3. Schedule \in [1..LastPhase -> SUBSET Roles]
  BY <1>2 DEF Schedule
<1> QED
  BY <1>1, <1>3 DEF Schedule

\* Who has spoken in a phase, as Transcript sees it.
LEMMA SpeakersAreHeard ==
  ASSUME NEW r \in Roles, NEW n
  PROVE  r \in Speeches!Speakers(n) <=> Heard(r, n)
BY DEF Speeches!Speakers, Speeches!Speech, Heard, Said, Message

\* A word more, by a role or a guest, is a step of Transcript.
LEMMA WordIsStep ==
  ASSUME IInv, UNCHANGED <<paradigm, MaxRounds>>,
         NEW who \in Roles \cup {Moderator, User},
         who \in Roles => Begun /\ speaker[who] # "spoken",
         history' = Append(history, Message(who, phase))
  PROVE  Speeches!Next
<1>1. TypeOK /\ Staged /\ InOrder
  BY DEF IInv
<1>2. phase \in 0..LastPhase /\ LastPhase \in Nat
  BY <1>1, DiscussionAssumption DEF TypeOK, LastPhase, CourtPhases
<1>3. Speeches!Say(who, phase)
  <2>1. \A i \in DOMAIN history : history[i].phase <= phase
    BY <1>1 DEF InOrder, Said
  <2> QED
    BY <2>1, ScheduleIsFixed DEF Speeches!Say, Speeches!Speech, Message, Schedule
<1>4. CASE who \notin Roles
  <2>1. phase \in DOMAIN Schedule \cup {0}
    BY <1>1, <1>2, ScheduleIsTyped
  <2> QED
    BY <1>3, <1>4, <2>1 DEF Speeches!Next, Schedule
<1>5. CASE who \in Roles
  <2>1. phase \in DOMAIN Schedule
    BY <1>1, <1>2, <1>5, ScheduleIsTyped DEF Staged, Begun
  <2>2. who \notin Speeches!Speakers(phase)
    BY <1>1, <1>5, SpeakersAreHeard DEF InOrder
  <2>3. ASSUME NEW m \in 1..(phase - 1), NEW r \in Due(m)
        PROVE  r \in Speeches!Speakers(m)
    BY <2>3, <1>1, <1>2, DueFacts, SpeakersAreHeard DEF InOrder
  <2>4. \A m \in 1..(phase - 1) : Schedule[m] \subseteq Speeches!Speakers(m)
    BY <2>3, <1>1, <1>2, ScheduleIsTyped
  <2>5. Speeches!Speak(who, phase)
    BY <2>2, <2>4, <1>3 DEF Speeches!Speak, Schedule
  <2> QED
    BY <1>5, <2>1, <2>5 DEF Speeches!Next, Schedule
<1> QED
  BY <1>4, <1>5

LEMMA StepIsTranscriptStep == IInv /\ [Next]_vars => [Speeches!Next]_Speeches!speeches
<1> SUFFICES ASSUME IInv, [Next]_vars PROVE [Speeches!Next]_Speeches!speeches
  OBVIOUS
<1>1. UNCHANGED <<paradigm, MaxRounds>>
  BY DEF Next, Orchestrator, Role, Open, NotInterrupted, Interrupted, Resumed, EndPanel,
         SpeakAlone, SpeakAloneFails, Ask, Answer, AnswerFails, AnswerLate, Expire, vars
<1>2. ASSUME UNCHANGED history PROVE UNCHANGED Speeches!speeches
  BY <1>1, <1>2, ScheduleIsFixed DEF Speeches!speeches, Schedule
<1>3. CASE Open
  BY <1>1, <1>3, WordIsStep, SpeakersAreDistinct DEF Open, IInv, Staged
<1>4. CASE Resumed
  BY <1>1, <1>2, <1>4, WordIsStep, SpeakersAreDistinct DEF Resumed
<1>5. ASSUME NEW r \in Roles, SpeakAlone(r) \/ Answer(r) \/ AnswerFails(r) \/ AnswerLate(r)
      PROVE  Speeches!Next
  <2>1. /\ speaker[r] = "asked"
        /\ history' = Append(history, Message(r, phase))
    BY <1>5 DEF SpeakAlone, Answer, AnswerFails, AnswerLate, Record
  <2>2. Begun
    BY <2>1 DEF IInv, Staged, Speaking
  <2> QED
    BY <1>1, <2>1, <2>2, WordIsStep
<1>6. CASE \/ NotInterrupted \/ Interrupted \/ EndPanel \/ Expire \/ UNCHANGED vars
           \/ \E r \in Roles : SpeakAloneFails(r) \/ Ask(r)
  BY <1>2, <1>6
  DEF NotInterrupted, Interrupted, EndPanel, Expire, SpeakAloneFails, Ask, vars, state
<1> QED
  BY <1>3, <1>4, <1>5, <1>6 DEF Next, Orchestrator, Role

\* Every paradigm hears everyone who is due once, and before the next phase.
THEOREM EveryoneIsHeardInTurn == Spec => TranscriptSpec
<1>1. Init => Speeches!Init
  BY InitInv, ScheduleIsTyped DEF Init, IInv, Speeches!Init, Schedule
<1> QED
  BY <1>1, StepIsTranscriptStep, InductiveInvariant, PTL
  DEF Spec, TranscriptSpec, Speeches!Spec

=============================================================================
