------------------------------ MODULE AuditLog ------------------------------
(***************************************************************************)
(* The audit log in memory (internal/audit/callback.go): a ring of the     *)
(* newest entries, which Flush takes out and writes to the table           *)
(* audit_logs, one INSERT after the other and without the lock.  The       *)
(* INSERT names columns that the table of 001_init.up.sql does not have:   *)
(* on that schema every flush fails.                                       *)
(*                                                                         *)
(* Entries recorded in the meantime go to the emptied ring; when an INSERT *)
(* fails, all entries of the flush are put back BEHIND them, those that    *)
(* are in the table already included.  An entry is its number.             *)
(***************************************************************************)
EXTENDS Naturals, Sequences, SequencesExt

CONSTANTS
  MaxSize,      \* capacity of the ring
  MaxEntries,   \* entries recorded (bound)
  MaxFailures,  \* flushes that fail (bound)
  Flushers      \* callers of Flush

ASSUME AuditAssumption ==
  /\ MaxSize \in Nat \ {0}
  /\ MaxEntries \in Nat
  /\ MaxFailures \in Nat

VARIABLES
  ring,         \* the entries, the next slot and how many count
  recorded,     \* entries recorded so far
  batch,        \* what each Flush has still to insert, and what it has taken
  columns,      \* does audit_logs have the columns that the INSERT names?
  rows,         \* how often each entry is in the table
  failures      \* flushes that failed

auditVars == <<ring, recorded, batch, columns, rows, failures>>

Slots == 0..(MaxSize - 1)

NoBatch == [taken |-> <<>>, todo |-> <<>>]

\* over and bumped are histories: the entries whose place in a full ring a newer one
\* took, and those whose place an older one took that was put back.
AuditInit ==
  /\ ring = [slots |-> [i \in Slots |-> 0], pos |-> 0, count |-> 0,
             over |-> {}, bumped |-> {}]
  /\ recorded = 0
  /\ batch = [f \in Flushers |-> NoBatch]
  /\ columns \in BOOLEAN
  /\ rows = [e \in 1..MaxEntries |-> 0]
  /\ failures = 0

\* Mutant of NextSlot: the ring does not wrap.
NextSlotRunsOn(i) == i + 1

\* (i + 1) % maxSize
NextSlot(i) == IF i + 1 = MaxSize THEN 0 ELSE i + 1

\* The entry whose place the next one takes, if the ring is full.
Displaced(r) == IF r.count < MaxSize THEN {} ELSE {r.slots[r.pos]}

\* The entry e goes to the next slot.
Put(r, e) ==
  [slots  |-> [r.slots EXCEPT ![r.pos] = e],
   pos    |-> NextSlot(r.pos),
   count  |-> IF r.count < MaxSize THEN r.count + 1 ELSE r.count,
   over   |-> r.over \cup {d \in Displaced(r) : d < e},
   bumped |-> r.bumped \cup {d \in Displaced(r) : d > e}]

\* What snapshot copies: up to count while the ring is not full, which relies on
\* pos = count; from pos round to pos once it is.
Snapshot ==
  [i \in 1..ring.count |->
     IF ring.count < MaxSize THEN ring.slots[i - 1]
     ELSE IF i <= MaxSize - ring.pos THEN ring.slots[ring.pos + i - 1]
     ELSE ring.slots[i - 1 - (MaxSize - ring.pos)]]

Record ==
  /\ recorded < MaxEntries
  /\ recorded' = recorded + 1
  /\ ring' = Put(ring, recorded + 1)
  /\ UNCHANGED <<batch, columns, rows, failures>>

\* Mutant of Emptied: the next entry goes where it would have gone.
EmptiedInPlace(r) == [r EXCEPT !.count = 0]

\* The old entries stay in their slots.
Emptied(r) == [r EXCEPT !.count = 0, !.pos = 0]

\* Flush takes the entries and empties the ring under one lock.
Take(f) ==
  /\ batch[f] = NoBatch
  /\ ring.count > 0
  /\ batch' = [batch EXCEPT ![f] = [taken |-> Snapshot, todo |-> Snapshot]]
  /\ ring' = Emptied(ring)
  /\ UNCHANGED <<recorded, columns, rows, failures>>

\* FlushToDB inserts the next entry, if the table has a place for it; after the last
\* one Flush is done.
InsertEntry(f) ==
  LET todo == batch[f].todo IN
  /\ todo # <<>> /\ columns
  /\ rows' = [rows EXCEPT ![Head(todo)] = @ + 1]
  /\ batch' = [batch EXCEPT ![f] =
                 IF Tail(todo) = <<>> THEN NoBatch ELSE [@ EXCEPT !.todo = Tail(todo)]]
  /\ UNCHANGED <<ring, recorded, columns, failures>>

\* Mutant of Returned: what has been inserted stays out, and so does the entry
\* whose INSERT failed.
ReturnedAfterFailed(f) == Tail(batch[f].todo)

\* What a failed flush puts back.
Returned(f) == batch[f].taken

\* An INSERT fails; Flush records its entries once more, under one lock.
FlushFails(f) ==
  /\ failures < MaxFailures
  /\ batch[f] # NoBatch
  /\ failures' = failures + 1
  /\ ring' = FoldLeft(Put, ring, Returned(f))
  /\ batch' = [batch EXCEPT ![f] = NoBatch]
  /\ UNCHANGED <<recorded, columns, rows>>

AuditNext ==
  \/ Record
  \/ \E f \in Flushers : Take(f) \/ InsertEntry(f) \/ FlushFails(f)

AuditSpec == AuditInit /\ [][AuditNext]_auditVars

-----------------------------------------------------------------------------
(* Properties.                                                             *)

AuditTypeOK ==
  /\ ring \in [slots : [Slots -> 0..MaxEntries], pos : Slots, count : 0..MaxSize,
               over : SUBSET (1..MaxEntries), bumped : SUBSET (1..MaxEntries)]
  /\ recorded \in 0..MaxEntries
  /\ batch \in [Flushers -> [taken : Seq(1..MaxEntries), todo : Seq(1..MaxEntries)]]
  /\ columns \in BOOLEAN
  /\ rows \in [1..MaxEntries -> 0..(1 + MaxFailures)]
  /\ failures \in 0..MaxFailures

\* Until a flush fails the ring holds the newest entries, oldest first, none
\* missing and none twice: across wrap-around, emptying and concurrent flushes,
\* and although emptying leaves old entries in the slots.
RingIsRecent ==
  failures = 0 =>
    \A i \in 1..ring.count : Snapshot[i] = recorded - ring.count + i

Entries(s) == {s[i] : i \in DOMAIN s}

\* Every entry that was recorded is in the table, in the ring or on its way to the
\* table, unless it lost its place in a full ring: to a newer one, or, once a flush
\* has failed, to one of the OLDER ones that the flush puts back behind those that
\* were recorded meanwhile.  A flush loses none in any other way, and each failure
\* puts an entry into the table at most once more.
EntriesAreAccounted ==
  \A e \in 1..recorded :
    /\ \/ rows[e] > 0
       \/ e \in Entries(Snapshot)
       \/ \E f \in Flushers : e \in Entries(batch[f].todo)
       \/ e \in ring.over
       \/ e \in ring.bumped /\ failures > 0
    /\ rows[e] <= 1 + failures
=============================================================================
