---------------------------- MODULE MinutesView -----------------------------
(***************************************************************************)
(* The minutes of a session and the minutes of a session merged with those *)
(* of the one it restarted (GetMinutes and GetMergedMinutes of             *)
(* internal/session/service.go).                                           *)
(*                                                                         *)
(* Both are computed from the stored messages and materials whenever       *)
(* someone asks.  The merged view keeps one decision per title and one     *)
(* material per file name, and a decision's title is only its round's      *)
(* number: of two decisions of one number, in one session or in both, the  *)
(* first one stays.  The numbers do not tell rounds apart: a session that  *)
(* is started again while it is paused or running has two orchestrators    *)
(* that count from the beginning, and one record for both in its minutes.  *)
(***************************************************************************)
EXTENDS Naturals, Sequences, FiniteSets, SequencesExt

CONSTANTS
  MaxSpeeches,     \* messages of a session (bound)
  MaxRound,        \* max_rounds: rounds of an orchestrator
  MaxDecisions,    \* 5 in the code: decisions of a session's minutes
  FileNames,       \* names of materials
  MaxFiles         \* materials of a session (bound)

Talks == {"original", "new"}

ASSUME MinutesAssumption ==
  /\ MaxSpeeches \in Nat
  /\ MaxRound \in Nat
  /\ MaxDecisions \in Nat
  /\ MaxFiles \in Nat

VARIABLES
  speeches,        \* the messages of both sessions
  files            \* their materials

minutesVars == <<speeches, files>>

MinutesInit ==
  /\ speeches = [t \in Talks |-> <<>>]
  /\ files = [t \in Talks |-> <<>>]

\* A message in whatever round its orchestrator is in: the numbers of one orchestrator
\* grow, but each Start launches another whose numbers begin anew, beside those that
\* still run.  decisive: it holds one of the words that make it a decision.
Speak(t) ==
  /\ Len(speeches[t]) < MaxSpeeches
  /\ \E r \in 0..MaxRound, decisive \in BOOLEAN :
       speeches' = [speeches EXCEPT ![t] =
         Append(@, [talk |-> t, n |-> Len(@) + 1, round |-> r, decisive |-> decisive])]
  /\ UNCHANGED files

Attach(t) ==
  /\ Len(files[t]) < MaxFiles
  /\ \E name \in FileNames :
       files' = [files EXCEPT ![t] = Append(@, [talk |-> t, n |-> Len(@) + 1, name |-> name])]
  /\ UNCHANGED speeches

MinutesNext == \E t \in Talks : Speak(t) \/ Attach(t)

MinutesSpec == MinutesInit /\ [][MinutesNext]_minutesVars

-----------------------------------------------------------------------------
(* GetMinutes.                                                             *)

\* The k-th smallest of the numbers in P.
Nth(P, k) == CHOOSE i \in P : Cardinality({j \in P : j <= i}) = k

\* The entries of s at the places in P, in their order.
At(s, P) == [k \in 1..Cardinality(P) |-> s[Nth(P, k)]]

RoundNumbers(t) == {speeches[t][i].round : i \in DOMAIN speeches[t]}

\* The records of the rounds, in the order of their numbers.
Rounds(t) ==
  [k \in 1..Cardinality(RoundNumbers(t)) |->
     At(speeches[t], {i \in DOMAIN speeches[t] : speeches[t][i].round = Nth(RoundNumbers(t), k)})]

\* The last message, as a sequence of at most one.
Conclusion(t) == IF speeches[t] = <<>> THEN <<>> ELSE <<Last(speeches[t])>>

AtMost(k, s) == SubSeq(s, 1, IF Len(s) < k THEN Len(s) ELSE k)

Decisions(t) ==
  AtMost(MaxDecisions, At(speeches[t], {i \in DOMAIN speeches[t] : speeches[t][i].decisive}))

-----------------------------------------------------------------------------
(* GetMergedMinutes.                                                       *)

\* Mutant of Together: the new session's come first.
TogetherNewFirst(of) == of["new"] \o of["original"]

Together(of) == of["original"] \o of["new"]

\* The first entry of each key; key has the entries' keys.
FirstOfEach(s, key) == At(s, {i \in DOMAIN s : \A j \in 1..(i - 1) : key[j] # key[i]})

MergedDecisions ==
  LET all == Together([t \in Talks |-> Decisions(t)]) IN
  FirstOfEach(all, [i \in DOMAIN all |-> all[i].round])

MergedMaterials ==
  LET all == Together(files) IN FirstOfEach(all, [i \in DOMAIN all |-> all[i].name])

MergedConclusion == Together([t \in Talks |-> Conclusion(t)])

-----------------------------------------------------------------------------
(* Properties.                                                             *)

MinutesTypeOK ==
  /\ speeches \in [Talks -> Seq([talk : Talks, n : 1..MaxSpeeches, round : Nat,
                                 decisive : BOOLEAN])]
  /\ files \in [Talks -> Seq([talk : Talks, n : 1..MaxFiles, name : FileNames])]

\* Each session's minutes repeat its messages, every one once, in records of ascending
\* numbers, and within a record in the order said (across records the order is not
\* kept when an orchestrator began again).  The merged minutes have a decision for
\* each number that one of a session's first MaxDecisions decisive messages has, and
\* only one: the original session's where it has one, so that the new session's of
\* that number is left out.  Likewise for the files by name.  They conclude with the
\* last word of each session that has one, the new session's last.
MergedMinutesAreComplete ==
  LET early(t)   == {i \in DOMAIN speeches[t] :
                       /\ speeches[t][i].decisive
                       /\ Cardinality({j \in DOMAIN speeches[t] : j <= i /\ speeches[t][j].decisive})
                            <= MaxDecisions}
      decided(t) == {speeches[t][i].round : i \in early(t)}
      named(t)   == {files[t][i].name : i \in DOMAIN files[t]}
      Lists(merged, key, original, new) ==
        /\ {key[i] : i \in DOMAIN merged} = original \cup new
        /\ \A i, j \in DOMAIN merged : key[i] = key[j] => i = j
        /\ \A i \in DOMAIN merged : key[i] \in original => merged[i].talk = "original"
      Repeats(rounds, said) ==
        /\ \A i \in DOMAIN said :
             \E k \in DOMAIN rounds : \E l \in DOMAIN rounds[k] : rounds[k][l] = said[i]
        /\ \A k \in DOMAIN rounds : \A l \in DOMAIN rounds[k] :
             \E i \in DOMAIN said : rounds[k][l] = said[i]
        /\ \A k, h \in DOMAIN rounds : \A l \in DOMAIN rounds[k], m \in DOMAIN rounds[h] :
             /\ k < h => rounds[k][l].round < rounds[h][m].round
             /\ k = h => rounds[k][l].round = rounds[h][m].round
             /\ k = h /\ l < m => rounds[k][l].n < rounds[h][m].n
  IN /\ \A t \in Talks : Repeats(Rounds(t), speeches[t])
     /\ Lists(MergedDecisions, [i \in DOMAIN MergedDecisions |-> MergedDecisions[i].round],
              decided("original"), decided("new"))
     /\ Lists(MergedMaterials, [i \in DOMAIN MergedMaterials |-> MergedMaterials[i].name],
              named("original"), named("new"))
     /\ speeches["original"] # <<>> => Head(MergedConclusion) = Last(speeches["original"])
     /\ speeches["new"] # <<>> => Last(MergedConclusion) = Last(speeches["new"])
=============================================================================
