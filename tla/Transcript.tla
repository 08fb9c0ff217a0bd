----------------------------- MODULE Transcript -----------------------------
(***************************************************************************)
(* What the orchestrators promise about who speaks when, whatever the      *)
(* order in which the models answer, and whether they answer at all: a     *)
(* discussion is a sequence of phases, nobody speaks twice in a phase, and *)
(* a phase begins only after everyone who was due in the earlier ones has  *)
(* spoken.  Guests, who play no role, may put in a word at any time.       *)
(***************************************************************************)
EXTENDS Naturals, Sequences

CONSTANTS Roles, Guests

VARIABLES
  due,          \* the roles that must speak in each phase
  transcript    \* what was said so far

speeches == <<due, transcript>>

Speech(who, n) == [who |-> who, phase |-> n]

Speakers(n) == {r \in Roles : \E i \in DOMAIN transcript : transcript[i] = Speech(r, n)}

Init ==
  /\ due \in Seq(SUBSET Roles)
  /\ transcript = <<>>

\* What is said last belongs to phase n, and nothing before it to a later one.
Say(who, n) ==
  /\ \A i \in DOMAIN transcript : transcript[i].phase <= n
  /\ transcript' = Append(transcript, Speech(who, n))
  /\ UNCHANGED due

Speak(who, n) ==
  /\ who \notin Speakers(n)
  /\ \A m \in 1..(n - 1) : due[m] \subseteq Speakers(m)
  /\ Say(who, n)

Next ==
  \/ \E who \in Roles, n \in DOMAIN due : Speak(who, n)
  \/ \E who \in Guests, n \in DOMAIN due \cup {0} : Say(who, n)

Spec == Init /\ [][Next]_speeches
=============================================================================
