----------------------------- MODULE MessageLog -----------------------------
(***************************************************************************)
(* The messages of one session: PGMessageStore                             *)
(* (internal/session/pg_message_store.go), a cache in the server's memory  *)
(* (internal/session/message_store.go) in front of session_messages.       *)
(*                                                                         *)
(* An orchestrator adds to the cache and leaves the INSERT to a goroutine. *)
(* A listing that finds the cache empty, after a restart, answers with the *)
(* table's rows and adds them to the cache one by one, under new ids,      *)
(* behind whatever was said meanwhile; one that finds anything there       *)
(* answers with that.  A message is the number of its being said.          *)
(***************************************************************************)
EXTENDS Naturals, Sequences

CONSTANTS
  Listers,      \* requests for the messages in progress at the same time
  MaxSaid,      \* messages said (bound)
  MaxMsgId,     \* ids given out (bound)
  MaxBoots      \* restarts of the server (bound)

ASSUME MessageAssumption ==
  /\ MaxSaid \in Nat
  /\ MaxMsgId \in Nat
  /\ MaxBoots \in Nat

VARIABLES
  cached,       \* messages[session]
  stored,       \* the table
  pending,      \* messages with an INSERT under way
  said,         \* messages said so far
  lastMsgId,    \* ids given out so far
  boots,        \* restarts so far
  lister,       \* each request
  before,       \* history: messages said before the server's last start
  asSaid        \* history: every message under the id it was said under

messageVars == <<cached, stored, pending, said, lastMsgId, boots, lister, before, asSaid>>

Message(id, n) == [id |-> id, text |-> n]

Messages == [id : 1..MaxMsgId, text : 1..MaxSaid]

\* A request: the rows it has still to add to the cache, and what it answers with;
\* since is a history: what had been said when it began.
NoListing == [step |-> "idle", todo |-> {}, shown |-> {}, since |-> 0]

MessageInit ==
  /\ cached = <<>>
  /\ stored = {}
  /\ pending = {}
  /\ said = 0
  /\ lastMsgId = 0
  /\ boots = 0
  /\ lister = [q \in Listers |-> NoListing]
  /\ before = 0
  /\ asSaid = {}

Cached == {cached[i] : i \in DOMAIN cached}

-----------------------------------------------------------------------------
\* An orchestrator says something.
AddMessage ==
  LET m == Message(lastMsgId + 1, said + 1) IN
  /\ said < MaxSaid
  /\ lastMsgId < MaxMsgId
  /\ said' = said + 1
  /\ lastMsgId' = lastMsgId + 1
  /\ cached' = Append(cached, m)
  /\ pending' = pending \cup {m}
  /\ asSaid' = asSaid \cup {m}
  /\ UNCHANGED <<stored, boots, lister, before>>

\* The goroutine of AddMessage; a failure is not reported.
InsertMessage(m) ==
  /\ m \in pending
  /\ pending' = pending \ {m}
  /\ \/ stored' = stored \cup {m}
     \/ UNCHANGED stored
  /\ UNCHANGED <<cached, said, lastMsgId, boots, lister, before, asSaid>>

\* ListBySession: the cache answers unless it is empty.
ListMessages(q) ==
  /\ lister[q].step = "idle"
  /\ lister' = [lister EXCEPT ![q] =
       IF cached = <<>> THEN [NoListing EXCEPT !.step = "query", !.since = said]
       ELSE [NoListing EXCEPT !.shown = Cached, !.since = said]]
  /\ UNCHANGED <<cached, stored, pending, said, lastMsgId, boots, before, asSaid>>

\* loadFromDB, ORDER BY created_at, the time at which a message was said: a
\* connection that breaks ends the rows early, since rows.Err is not asked for.
QueryMessages(q) ==
  /\ lister[q].step = "query"
  /\ \E last \in 0..said :
       LET rows == {m \in stored : m.text <= last} IN
       lister' = [lister EXCEPT
         ![q].todo = rows, ![q].shown = rows, ![q].step = IF rows = {} THEN "idle" ELSE "fill"]
  /\ UNCHANGED <<cached, stored, pending, said, lastMsgId, boots, before, asSaid>>

\* A query that fails is answered with an empty list.
QueryMessagesFails(q) ==
  /\ lister[q].step = "query"
  /\ lister' = [lister EXCEPT ![q] = NoListing]
  /\ UNCHANGED <<cached, stored, pending, said, lastMsgId, boots, before, asSaid>>

\* Mutant of Refilled: what is loaded replaces what is cached.
RefilledAnew(q, m) ==
  IF lister[q].todo = lister[q].shown THEN <<m>> ELSE Append(cached, m)

\* The cache with the next row in it.
Refilled(q, m) == Append(cached, m)

\* Mutant of Saved: what is loaded is saved like any other message.
SavedAgain(m) == pending \cup {m}

\* A loaded row is not saved again.
Saved(m) == pending

\* The oldest row that is left goes into the cache.
FillMessage(q) ==
  LET todo == lister[q].todo IN
  /\ lister[q].step = "fill"
  /\ lastMsgId < MaxMsgId
  /\ lastMsgId' = lastMsgId + 1
  /\ \E row \in todo :
       LET m == Message(lastMsgId + 1, row.text) IN
       /\ \A other \in todo : row.text <= other.text
       /\ cached' = Refilled(q, m)
       /\ pending' = Saved(m)
       /\ lister' = [lister EXCEPT ![q].todo = todo \ {row},
                                   ![q].step = IF todo = {row} THEN "idle" ELSE "fill"]
  /\ UNCHANGED <<stored, said, boots, before, asSaid>>

\* The server stops with everything it has in memory, and starts again.
RebootMessages ==
  /\ boots < MaxBoots
  /\ boots' = boots + 1
  /\ cached' = <<>>
  /\ pending' = {}
  /\ lister' = [q \in Listers |-> NoListing]
  /\ before' = said
  /\ UNCHANGED <<stored, said, lastMsgId, asSaid>>

MessageNext ==
  \/ AddMessage
  \/ \E m \in pending : InsertMessage(m)
  \/ \E q \in Listers : ListMessages(q) \/ QueryMessages(q) \/ QueryMessagesFails(q)
                        \/ FillMessage(q)
  \/ RebootMessages

MessageSpec == MessageInit /\ [][MessageNext]_messageVars

-----------------------------------------------------------------------------
(* Properties.                                                             *)

MessageTypeOK ==
  /\ cached \in Seq(Messages)
  /\ stored \subseteq Messages
  /\ pending \subseteq Messages
  /\ asSaid \subseteq Messages
  /\ said \in 0..MaxSaid
  /\ lastMsgId \in 0..MaxMsgId
  /\ \A q \in Listers :
       /\ lister[q].step \in {"idle", "query", "fill"}
       /\ lister[q].todo \subseteq Messages
       /\ lister[q].shown \subseteq Messages

Texts(messages) == {m.text : m \in messages}

\* Once a listing has answered, it shows all that was said between the start of
\* the server and the request, and of what was kept from earlier it leaves out
\* only an end (which may be all of it: the first message after a restart hides
\* everything older): there is no gap before a message that it shows.
ListingsHaveNoGaps ==
  \A q \in Listers :
    LET shown == Texts(lister[q].shown) IN
    lister[q].step = "idle" =>
      /\ (before + 1)..lister[q].since \subseteq shown
      /\ \A t \in shown \cap (1..before) : \A n \in Texts(stored) : n < t => n \in shown

\* The table has a message only under the id it was said under, and so never twice,
\* however often and however concurrently it is loaded into the cache, where it gets
\* another id each time; and every id in a listing can be looked up by GetByID, in
\* the cache or in the table, until the next restart: the ids that a load gives out
\* end with the server's memory.
TableIsTruthful ==
  /\ stored \subseteq asSaid
  /\ \A m, n \in stored : m.text = n.text => m = n
  /\ \A q \in Listers : \A m \in lister[q].shown : m \in Cached \cup stored
=============================================================================
