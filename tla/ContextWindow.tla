--------------------------- MODULE ContextWindow ----------------------------
(***************************************************************************)
(* Compressing a conversation that outgrew the model's context             *)
(* (internal/context): drop the oldest half, keep a window of rounds, or   *)
(* have a model summarise the oldest half, falling back to dropping it.    *)
(*                                                                         *)
(* A conversation is compressed again and again as it grows, so each       *)
(* strategy meets the summaries and notices it has left itself.            *)
(***************************************************************************)
EXTENDS Naturals, Sequences, FiniteSets, SequencesExt

CONSTANTS
  WindowSize,     \* rounds a sliding window keeps
  MaxMessages,    \* messages of a conversation (bound)
  MaxRefusals,    \* summaries that fail (bound)
  MaxCompressions \* compressions (bound): each slide leaves one more notice

\* A manager whose window is not positive takes one of ten rounds.
ASSUME WindowAssumption ==
  /\ WindowSize \in Nat \ {0}
  /\ MaxMessages \in Nat /\ MaxRefusals \in Nat /\ MaxCompressions \in Nat

VARIABLES
  strategy,       \* the manager's strategy
  conversation,   \* the messages handed to the models
  spoken,         \* messages so far
  instructions,   \* those of them that are system messages
  round,          \* the round of the last one
  refusals,       \* summaries that failed
  compressions    \* compressions so far

windowVars == <<strategy, conversation, spoken, instructions, round, refusals, compressions>>

\* A summary stands for the messages in covers; 0 numbers what a manager wrote.
Spoken(kind, n, r) == [kind |-> kind, n |-> n, round |-> r, covers |-> {}]
Summary(covers) == [kind |-> "summary", n |-> 0, round |-> 0, covers |-> covers]
TruncatedNotice == [kind |-> "notice", n |-> 0, round |-> 0, covers |-> {}]

\* A manager that is to summarise and has no model drops the oldest.
WindowInit ==
  /\ strategy \in {"summarize", "sliding_window", "drop_oldest"}
  /\ conversation = <<>>
  /\ spoken = 0
  /\ instructions = {}
  /\ round = 1
  /\ refusals = 0
  /\ compressions = 0

\* The conversation goes on, in this round or the next; or the host adds a system
\* message, which belongs to no round.
Continue ==
  /\ spoken < MaxMessages
  /\ spoken' = spoken + 1
  /\ \/ /\ round' \in {round, round + 1}
        /\ conversation' = Append(conversation, Spoken("chat", spoken', round'))
        /\ UNCHANGED instructions
     \/ /\ conversation' = Append(conversation, Spoken("system", spoken', 0))
        /\ instructions' = instructions \cup {spoken'}
        /\ UNCHANGED round
  /\ UNCHANGED <<strategy, refusals, compressions>>

-----------------------------------------------------------------------------
\* Those of the messages s that are in keep, in their order.
Only(s, keep) ==
  LET upTo[i \in 0..Len(s)] ==
        IF i = 0 THEN <<>>
        ELSE IF s[i] \in keep THEN Append(upTo[i - 1], s[i]) ELSE upTo[i - 1]
  IN upTo[Len(s)]

OfKind(s, kinds) == Only(s, {m \in Range(s) : m.kind \in kinds})

Newest(s, k) == SubSeq(s, Len(s) - k + 1, Len(s))

\* Mutant of KeptHalf: half of one is none.
KeptHalfOfOne(s) == Newest(s, Len(s) \div 2)

KeptHalf(s) == Newest(s, IF Len(s) < 2 THEN 1 ELSE Len(s) \div 2)

\* The first message with the role of the system stays; all others, later system
\* messages too, are dropped by age.
DropOldest(s) ==
  LET system == {i \in DOMAIN s : s[i].kind # "chat"}
      first  == CHOOSE i \in system : \A j \in system : i <= j
  IN IF system = {} THEN KeptHalf(s)
     ELSE <<s[first]>> \o KeptHalf(RemoveAt(s, first))

\* Whole rounds are kept; system messages are, an earlier notice too.  While the
\* chat has no more messages than the window has rounds nothing happens.
SlidingWindow(s) ==
  LET system == OfKind(s, {"system", "notice"})
      chat   == OfKind(s, {"chat"})
      rounds == {m.round : m \in Range(chat)}
      kept   == {r \in rounds : Cardinality({l \in rounds : l > r}) < WindowSize}
  IN IF Len(chat) <= WindowSize THEN s
     ELSE system \o <<TruncatedNotice>> \o Only(chat, {m \in Range(chat) : m.round \in kept})

\* The older half of the chat becomes a summary, behind the system messages,
\* earlier summaries among them.
Summarize(s) ==
  LET system == OfKind(s, {"system", "summary", "notice"})
      chat   == OfKind(s, {"chat"})
      half   == Len(chat) \div 2
  IN IF Len(chat) < 2 THEN s
     ELSE system \o <<Summary({chat[i].n : i \in 1..half})>>
                 \o SubSeq(chat, half + 1, Len(chat))

\* One that has too few messages to compress is an error.
Compress ==
  /\ compressions < MaxCompressions
  /\ compressions' = compressions + 1
  /\ Len(conversation) > IF strategy = "summarize" THEN 2 ELSE 1
  /\ conversation' =
       CASE strategy = "summarize"      -> Summarize(conversation)
         [] strategy = "sliding_window" -> SlidingWindow(conversation)
         [] strategy = "drop_oldest"    -> DropOldest(conversation)
  /\ UNCHANGED <<strategy, spoken, instructions, round, refusals>>

\* The model that is to summarise fails.
SummarizeFails ==
  /\ strategy = "summarize"
  /\ compressions < MaxCompressions
  /\ compressions' = compressions + 1
  /\ refusals < MaxRefusals
  /\ Len(conversation) > 2
  /\ refusals' = refusals + 1
  /\ conversation' = DropOldest(conversation)
  /\ UNCHANGED <<strategy, spoken, instructions, round>>

WindowNext == Continue \/ Compress \/ SummarizeFails

WindowSpec == WindowInit /\ [][WindowNext]_windowVars

-----------------------------------------------------------------------------
(* Properties.                                                             *)

WindowTypeOK ==
  /\ strategy \in {"summarize", "sliding_window", "drop_oldest"}
  /\ conversation \in Seq([kind : {"system", "chat", "summary", "notice"},
                           n : 0..MaxMessages, round : Nat, covers : SUBSET (1..MaxMessages)])
  /\ spoken \in 0..MaxMessages /\ instructions \subseteq 1..MaxMessages
  /\ round \in Nat /\ refusals \in 0..MaxRefusals /\ compressions \in 0..MaxCompressions

\* However often a conversation is compressed, the message said last is in it,
\* unless a system message; so is the system message that opens it, the prompt;
\* the chat in it is the end of the talk, without a gap and in order; and with a
\* model that never fails to summarise, every message is there or in a summary
\* that is.
NothingRecentIsLost ==
  LET here  == {conversation[i].n : i \in DOMAIN conversation}
      chats == (1..spoken) \ instructions
  IN /\ spoken \in chats => spoken \in here
     /\ 1 \in instructions => 1 \in here
     /\ \A m, n \in chats : m < n /\ m \in here => n \in here
     /\ \A i, j \in DOMAIN conversation :
          i < j /\ conversation[i].n \in chats /\ conversation[j].n \in chats
            => conversation[i].n < conversation[j].n
     /\ strategy = "summarize" /\ refusals = 0 =>
          \A n \in 1..spoken : \E i \in DOMAIN conversation :
            n \in conversation[i].covers \cup {conversation[i].n}
=============================================================================
