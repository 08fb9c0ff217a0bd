--------------------------- MODULE Records_proofs ----------------------------
(***************************************************************************)
(* What is kept of a session beside its status: the entries of the audit   *)
(* log, the messages, the minutes made of them and the roles, for any      *)
(* number of concurrent callers, of messages, of restarts, of materials    *)
(* and of sessions, and for every list of roles asked for.                 *)
(*                                                                         *)
(* What a failed flush of the audit log puts back is a fold over its       *)
(* entries: FoldIsPath turns it into a walk through the states of the      *)
(* ring, along which FoldIsSound goes by induction.  The minutes choose    *)
(* entries of a sequence, by their places: NthGoesThrough counts places,   *)
(* and FirstsMerge says what is left when each key's first entry is kept.  *)
(***************************************************************************)
EXTENDS AuditLog, MessageLog, MinutesView, SessionRoles, FiniteSetTheorems, SequenceTheorems,
        WellFoundedInduction, TLAPS

-----------------------------------------------------------------------------
(* The audit log.                                                          *)

RingIsTyped ==
  /\ ring \in [slots : [Slots -> Nat], pos : Slots, count : 0..MaxSize,
              over : SUBSET Nat, bumped : SUBSET Nat]
  /\ recorded \in Nat

\* The slots before pos hold the last pos entries; those from pos on, once the ring
\* is full, the ones before these.  A ring that is not full has never wrapped.
SlotsAreRecent ==
  /\ ring.count < MaxSize => ring.pos = ring.count
  /\ \A i \in Slots :
       /\ i < ring.pos => ring.slots[i] = recorded - ring.pos + i + 1
       /\ i >= ring.pos /\ ring.count = MaxSize =>
            ring.slots[i] = recorded - MaxSize - ring.pos + i + 1

RingInv ==
  /\ failures \in Nat
  /\ failures = 0 => RingIsTyped /\ SlotsAreRecent

LEMMA RingBounds ==
  ASSUME RingIsTyped
  PROVE  /\ MaxSize \in Nat /\ MaxSize > 0 /\ recorded \in Nat
         /\ ring.pos \in Nat /\ ring.pos < MaxSize
         /\ ring.count \in Nat /\ ring.count <= MaxSize
         /\ ring.slots \in [Slots -> Nat]
         /\ ring.over \subseteq Nat /\ ring.bumped \subseteq Nat
         /\ \A i : i \in Slots <=> i \in Nat /\ i < MaxSize
  BY AuditAssumption DEF RingIsTyped, Slots

LEMMA RingInitHolds == AuditInit => RingInv
  BY AuditAssumption DEF AuditInit, RingInv, RingIsTyped, SlotsAreRecent, Slots

LEMMA RingInvIsRecent == RingInv => RingIsRecent
<1> SUFFICES ASSUME RingIsTyped, SlotsAreRecent, NEW i \in 1..ring.count
             PROVE  Snapshot[i] = recorded - ring.count + i
  BY DEF RingInv, RingIsRecent
<1> USE RingBounds DEF SlotsAreRecent
<1>1. CASE ring.count < MaxSize
  <2>1. i - 1 \in Slots /\ i - 1 < ring.pos
    BY <1>1
  <2> QED
    BY <1>1, <2>1 DEF Snapshot
<1>2. CASE ring.count = MaxSize /\ i <= MaxSize - ring.pos
  <2>1. ring.pos + i - 1 \in Slots /\ ring.pos + i - 1 >= ring.pos
    BY <1>2
  <2> QED
    BY <1>2, <2>1 DEF Snapshot
<1>3. CASE ring.count = MaxSize /\ ~(i <= MaxSize - ring.pos)
  <2> DEFINE j == i - 1 - (MaxSize - ring.pos)
  <2>1. j \in Slots /\ j < ring.pos
    BY <1>3
  <2>2. Snapshot[i] = ring.slots[j]
    BY <1>3 DEF Snapshot
  <2> QED
    BY <1>3, <2>1, <2>2
<1> QED
  BY <1>1, <1>2, <1>3

\* A new entry takes the place of the oldest.
LEMMA RecordHolds ==
  ASSUME RingIsTyped, SlotsAreRecent, Record
  PROVE  RingIsTyped' /\ SlotsAreRecent'
<1> USE RingBounds
<1>1. /\ ring'.slots = [ring.slots EXCEPT ![ring.pos] = recorded + 1]
      /\ ring'.pos = NextSlot(ring.pos)
      /\ ring'.count = IF ring.count < MaxSize THEN ring.count + 1 ELSE ring.count
      /\ recorded' = recorded + 1
  BY DEF Record, Put
<1>2. RingIsTyped'
  <2>1. ring'.pos \in Slots /\ ring'.count \in 0..MaxSize /\ ring'.slots \in [Slots -> Nat]
    BY <1>1 DEF NextSlot
  <2>2. Displaced(ring) \subseteq Nat
    BY DEF Displaced, RingIsTyped
  <2>3. /\ ring.over \cup {d \in Displaced(ring) : d < recorded + 1} \in SUBSET Nat
        /\ ring.bumped \cup {d \in Displaced(ring) : d > recorded + 1} \in SUBSET Nat
    BY <2>2
  <2> QED
    BY <1>1, <2>1, <2>3 DEF Record, Put, RingIsTyped
<1>3. ring'.count < MaxSize => ring'.pos = ring'.count
  BY <1>1 DEF NextSlot, SlotsAreRecent
<1>4. ASSUME NEW i \in Slots
      PROVE  /\ i < ring'.pos => ring'.slots[i] = recorded' - ring'.pos + i + 1
             /\ i >= ring'.pos /\ ring'.count = MaxSize =>
                  ring'.slots[i] = recorded' - MaxSize - ring'.pos + i + 1
  <2>1. CASE i = ring.pos
    BY <1>1, <2>1 DEF NextSlot
  <2>2. CASE i # ring.pos
    <3>1. ring'.slots[i] = ring.slots[i]
      BY <1>1, <2>2
    <3> QED
      BY <1>1, <2>2, <3>1 DEF NextSlot, SlotsAreRecent
  <2> QED
    BY <2>1, <2>2
<1> QED
  BY <1>2, <1>3, <1>4 DEF SlotsAreRecent

LEMMA RingNextHolds == RingInv /\ [AuditNext]_auditVars => RingInv'
<1> SUFFICES ASSUME RingInv, [AuditNext]_auditVars
             PROVE  RingInv'
  OBVIOUS
<1>1. CASE Record
  BY <1>1, RecordHolds DEF RingInv, Record
<1>2. ASSUME NEW f \in Flushers, Take(f)
      PROVE  RingInv'
  <2> SUFFICES ASSUME RingIsTyped, SlotsAreRecent
               PROVE  RingIsTyped' /\ SlotsAreRecent'
    BY <1>2 DEF RingInv, Take
  <2>1. /\ ring' = [ring EXCEPT !.count = 0, !.pos = 0]
        /\ recorded' = recorded
    BY <1>2 DEF Take, Emptied
  <2>2. 0 \in Slots /\ 0 \in 0..MaxSize
    BY RingBounds
  <2>3. RingIsTyped'
    BY <2>1, <2>2 DEF RingIsTyped
  <2>4. ring'.count = 0 /\ ring'.pos = 0
    BY <2>1 DEF RingIsTyped
  <2> QED
    BY <2>3, <2>4, RingBounds DEF SlotsAreRecent
<1>3. ASSUME NEW f \in Flushers, InsertEntry(f)
      PROVE  RingInv'
  BY <1>3 DEF RingInv, InsertEntry, RingIsTyped, SlotsAreRecent
<1>4. ASSUME NEW f \in Flushers, FlushFails(f)
      PROVE  RingInv'
  <2>1. failures' \in Nat /\ failures' # 0
    BY <1>4 DEF RingInv, FlushFails
  <2> QED
    BY <2>1 DEF RingInv
<1>5. CASE UNCHANGED auditVars
  BY <1>5 DEF auditVars, RingInv, RingIsTyped, SlotsAreRecent
<1> QED
  BY <1>1, <1>2, <1>3, <1>4, <1>5 DEF AuditNext

\* Until a flush fails the ring holds the newest entries, oldest first, none missing
\* and none twice (Record, snapshot and Flush of audit/callback.go).
THEOREM RingStaysRecent == AuditSpec => []RingIsRecent
<1> QED
  BY RingInitHolds, RingInvIsRecent, RingNextHolds, PTL DEF AuditSpec

-----------------------------------------------------------------------------
(* The audit log, when flushes fail.                                       *)

LEMMA LengthAndElements ==
  ASSUME NEW S, NEW s \in Seq(S)
  PROVE  Len(s) \in Nat /\ DOMAIN s = 1..Len(s) /\ \A i \in 1..Len(s) : s[i] \in S
OBVIOUS

\* What a failed flush does with the ring.
PutAll(r, s) == FoldLeft(Put, r, s)

\* iter puts the elements of s with the numbers in t, in their order.
Puts(iter, r, s, n) ==
  iter = [t \in SUBSET (1..n) |->
            IF t = {} THEN r ELSE Put(iter[t \ {Max(t)}], s[Max(t)])]

LEMMA FoldIsOfSubsets ==
  ASSUME NEW r, NEW s, NEW n \in Nat, DOMAIN s = 1..n
  PROVE  PutAll(r, s) = (CHOOSE iter : Puts(iter, r, s, n))[1..n]
BY DEF PutAll, FoldLeft, MapThenFoldSet, Puts

LEMMA MaxOfInterval ==
  ASSUME NEW n \in Nat, NEW t \in SUBSET (1..n + 1), n + 1 \in t
  PROVE  Max(t) = n + 1
<1>1. \A x \in t : x \in Int /\ x <= n + 1
  OBVIOUS
<1>2. PICK m \in t : m = n + 1
  OBVIOUS
<1>3. \A y \in t : m >= y
  BY <1>1, <1>2
<1>4. \A x \in t : (\A y \in t : x >= y) => x = m
  BY <1>1, <1>3
<1>5. Max(t) = m
  BY <1>3, <1>4 DEF Max
<1> QED
  BY <1>2, <1>5

LEMMA PutsExist ==
  ASSUME NEW r, NEW s, NEW n \in Nat
  PROVE  \E iter : Puts(iter, r, s, n)
<1> DEFINE wrong == {k \in Nat : ~ \E iter : Puts(iter, r, s, k)}
<1> SUFFICES ASSUME wrong # {} PROVE FALSE
  OBVIOUS
<1>1. IsWellFoundedOn(OpToRel(<, Nat), Nat)
  BY NatLessThanWellFounded
<1>2. PICK k \in wrong : \A l \in wrong : ~(<<l, k>> \in OpToRel(<, Nat))
  <2>1. wrong \subseteq Nat
    OBVIOUS
  <2> HIDE DEF wrong
  <2> QED
    BY <1>1, <2>1, WFMin
<1>3. CASE k = 0
  <2> DEFINE only == [t \in SUBSET (1..0) |-> r]
  <2>1. \A t \in SUBSET (1..0) : t = {}
    OBVIOUS
  <2>2. Puts(only, r, s, 0)
    BY <2>1 DEF Puts
  <2> QED
    BY <1>2, <1>3, <2>2
<1>4. CASE k # 0
  <2>1. PICK l \in Nat : k = l + 1
    <3>1. k - 1 \in Nat /\ k = (k - 1) + 1
      BY <1>4
    <3> QED
      BY <3>1
  <2>2. PICK iter : Puts(iter, r, s, l)
    <3>1. <<l, k>> \in OpToRel(<, Nat)
      BY <2>1 DEF OpToRel
    <3> QED
      BY <1>2, <3>1
  <2> DEFINE value(t) == IF t = {} THEN r ELSE Put(iter[t \ {Max(t)}], s[Max(t)])
             more == [t \in SUBSET (1..k) |-> value(t)]
  <2>3. ASSUME NEW t \in SUBSET (1..l)
        PROVE  t \in SUBSET (1..k) /\ iter[t] = value(t)
    <3>1. 1..l \subseteq 1..k
      BY <2>1
    <3>2. iter[t] = value(t)
      BY <2>2 DEF Puts
    <3> QED
      BY <3>1, <3>2
  <2>4. \A t \in SUBSET (1..l) : more[t] = iter[t]
    BY <2>3
  <2>5. ASSUME NEW t \in SUBSET (1..k), t # {}
        PROVE  t \ {Max(t)} \in SUBSET (1..l)
    <3>1. \A x \in t : x = k \/ x \in 1..l
      BY <2>1
    <3>2. CASE k \in t
      <4>1. Max(t) = k
        BY <2>1, <3>2, MaxOfInterval
      <4> QED
        BY <3>1, <4>1
    <3>3. CASE k \notin t
      BY <3>1, <3>3
    <3> QED
      BY <3>2, <3>3
  <2>6. ASSUME NEW t \in SUBSET (1..k)
        PROVE  more[t] = IF t = {} THEN r ELSE Put(more[t \ {Max(t)}], s[Max(t)])
    BY <2>4, <2>5
  <2> HIDE DEF value
  <2>7. Puts(more, r, s, k)
    BY <2>6 DEF Puts
  <2> QED
    BY <1>2, <2>7
<1> QED
  BY <1>3, <1>4

\* The fold is a walk through s.
LEMMA FoldIsPath ==
  ASSUME NEW r, NEW s, NEW n \in Nat, DOMAIN s = 1..n
  PROVE  \E path : /\ path[0] = r
                   /\ \A k \in 1..n : path[k] = Put(path[k - 1], s[k])
                   /\ PutAll(r, s) = path[n]
<1> DEFINE iter == CHOOSE i : Puts(i, r, s, n)
           path == [k \in 0..n |-> iter[1..k]]
<1>1. Puts(iter, r, s, n)
  BY PutsExist
<1>2. PutAll(r, s) = iter[1..n]
  BY FoldIsOfSubsets
<1> HIDE DEF iter
<1>3. \A t \in SUBSET (1..n) :
        iter[t] = IF t = {} THEN r ELSE Put(iter[t \ {Max(t)}], s[Max(t)])
  BY <1>1 DEF Puts
<1>4. path[0] = r
  <2>1. 1..0 = {} /\ {} \in SUBSET (1..n) /\ 0 \in 0..n
    OBVIOUS
  <2>2. iter[{}] = r
    BY <1>3, <2>1
  <2>3. path[0] = iter[1..0]
    BY <2>1
  <2> QED
    BY <2>1, <2>2, <2>3
<1>5. ASSUME NEW k \in 1..n PROVE path[k] = Put(path[k - 1], s[k])
  <2>1. /\ k - 1 \in Nat /\ k = (k - 1) + 1 /\ k \in 1..k
        /\ 1..k \in SUBSET (1..n) /\ (1..k) \ {k} = 1..(k - 1)
    OBVIOUS
  <2>2. Max(1..k) = k
    BY <2>1, MaxOfInterval
  <2>3. iter[1..k] = Put(iter[1..(k - 1)], s[k])
    BY <1>3, <2>1, <2>2
  <2>4. path[k] = iter[1..k] /\ path[k - 1] = iter[1..(k - 1)]
    OBVIOUS
  <2> QED
    BY <2>3, <2>4
<1>6. path[n] = iter[1..n]
  OBVIOUS
<1> HIDE DEF path
<1> QED
  BY <1>2, <1>4, <1>5, <1>6

\* The slots whose entries count, and these entries.
LiveIn(r) == IF r.count < MaxSize THEN {i \in Slots : i < r.count} ELSE Slots

HeldIn(r) == {r.slots[i] : i \in LiveIn(r)}

\* No entry is in the ring twice.
RingIsSound(r) ==
  /\ r \in [slots : [Slots -> 0..MaxEntries], pos : Slots, count : 0..MaxSize,
            over : SUBSET (1..MaxEntries), bumped : SUBSET (1..MaxEntries)]
  /\ r.count < MaxSize => r.pos = r.count
  /\ \A i, j \in LiveIn(r) : r.slots[i] = r.slots[j] => i = j
  /\ HeldIn(r) \subseteq 1..MaxEntries

Apart(s) == \A i, j \in DOMAIN s : s[i] = s[j] => i = j

\* The entries that lost their place in a full ring.
Gone(r) == r.over \cup r.bumped

LEMMA SoundBounds ==
  ASSUME NEW r, RingIsSound(r)
  PROVE  /\ MaxSize \in Nat /\ MaxSize > 0
         /\ r.pos \in Nat /\ r.pos < MaxSize
         /\ r.count \in Nat /\ r.count <= MaxSize
         /\ r.slots \in [Slots -> 0..MaxEntries]
         /\ Gone(r) \subseteq 1..MaxEntries
         /\ \A i : i \in Slots <=> i \in Nat /\ i < MaxSize
         /\ \A i : i \in LiveIn(r) <=> i \in Nat /\ i < r.count
BY AuditAssumption DEF RingIsSound, Slots, LiveIn, Gone

\* A new entry takes a place, and the oldest gives way to it in a full ring.
LEMMA PutIsSound ==
  ASSUME NEW r, RingIsSound(r), NEW e \in 1..MaxEntries, e \notin HeldIn(r),
         NEW q, q = Put(r, e)
  PROVE  /\ RingIsSound(q)
         /\ e \in HeldIn(q) /\ HeldIn(q) \subseteq HeldIn(r) \cup {e}
         /\ HeldIn(r) \subseteq HeldIn(q) \cup Gone(q) /\ Gone(r) \subseteq Gone(q)
         /\ (\A d \in HeldIn(r) : d < e) => q.bumped = r.bumped
<1> USE SoundBounds
<1>1. /\ q.slots = [r.slots EXCEPT ![r.pos] = e]
      /\ q.pos = NextSlot(r.pos)
      /\ q.count = IF r.count < MaxSize THEN r.count + 1 ELSE r.count
      /\ q.over = r.over \cup {d \in Displaced(r) : d < e}
      /\ q.bumped = r.bumped \cup {d \in Displaced(r) : d > e}
  BY DEF Put
<1>2. r.pos \in Slots /\ r.count < MaxSize => r.pos = r.count
  BY DEF RingIsSound
<1>3. q.count \in Nat /\ q.count <= MaxSize /\ q.pos \in Slots
  BY <1>1 DEF NextSlot
<1>4. \A i : i \in LiveIn(q) <=> i \in Nat /\ i < q.count
  BY <1>3 DEF LiveIn
<1>5. r.pos \in LiveIn(q)
  BY <1>1, <1>2, <1>4
<1>6. \A i \in LiveIn(q) : i \in LiveIn(r) \/ i = r.pos
  BY <1>1, <1>2, <1>4
<1>7. \A i \in LiveIn(r) : i \in LiveIn(q)
  BY <1>1, <1>4
<1>8. /\ q.slots \in [Slots -> 0..MaxEntries] /\ q.slots[r.pos] = e
      /\ \A i \in Slots : i # r.pos => q.slots[i] = r.slots[i]
  <2>1. e \in 0..MaxEntries
    BY AuditAssumption
  <2> QED
    BY <1>1, <1>2, <2>1
<1>9. LiveIn(q) \subseteq Slots /\ LiveIn(r) \subseteq Slots
  BY DEF LiveIn
<1>10. e \in HeldIn(q)
  BY <1>5, <1>8 DEF HeldIn
<1>11. HeldIn(q) \subseteq HeldIn(r) \cup {e}
  BY <1>6, <1>8, <1>9 DEF HeldIn
<1>d. Displaced(r) \subseteq HeldIn(r)
  BY <1>2 DEF Displaced, HeldIn, LiveIn
<1>e. Gone(q) = Gone(r) \cup Displaced(r)
  <2>1. HeldIn(r) \subseteq 1..MaxEntries
    BY DEF RingIsSound
  <2>2. \A d \in Displaced(r) : d \in Int /\ e \in Int /\ d # e
    BY <1>d, <2>1, AuditAssumption
  <2>3. \A d \in Displaced(r) : d < e \/ d > e
    BY <2>2
  <2> QED
    BY <1>1, <2>3 DEF Gone
<1>f. ASSUME \A d \in HeldIn(r) : d < e PROVE q.bumped = r.bumped
  <2>1. HeldIn(r) \subseteq 1..MaxEntries
    BY DEF RingIsSound
  <2>2. \A d \in Displaced(r) : d \in Int /\ e \in Int /\ d < e
    BY <1>d, <1>f, <2>1, AuditAssumption
  <2>3. \A d \in Displaced(r) : ~(d > e)
    BY <2>2
  <2> QED
    BY <1>1, <2>3
<1>12. ASSUME NEW i \in LiveIn(r) PROVE r.slots[i] \in HeldIn(q) \cup Gone(q)
  <2>1. CASE i = r.pos
    <3>1. ~(r.count < MaxSize)
      BY <1>2, <2>1
    <3>2. r.slots[i] \in Displaced(r)
      BY <2>1, <3>1 DEF Displaced
    <3> QED
      BY <1>e, <3>2
  <2>2. CASE i # r.pos
    BY <1>7, <1>8, <1>9, <2>2 DEF HeldIn
  <2> QED
    BY <2>1, <2>2
<1>13. HeldIn(r) \subseteq HeldIn(q) \cup Gone(q) /\ Gone(r) \subseteq Gone(q)
  BY <1>12, <1>e DEF HeldIn
<1>14. q.over \subseteq 1..MaxEntries /\ q.bumped \subseteq 1..MaxEntries
  BY <1>d, <1>e DEF RingIsSound, Gone
<1>15. \A i, j \in LiveIn(q) : q.slots[i] = q.slots[j] => i = j
  <2> SUFFICES ASSUME NEW i \in LiveIn(q), NEW j \in LiveIn(q), q.slots[i] = q.slots[j]
               PROVE  i = j
    OBVIOUS
  <2>1. \A k \in LiveIn(q) : k # r.pos => k \in LiveIn(r) /\ q.slots[k] = r.slots[k]
    BY <1>6, <1>8, <1>9
  <2>2. \A k \in LiveIn(q) : k # r.pos => q.slots[k] # e
    BY <2>1 DEF HeldIn
  <2>3. CASE i # r.pos /\ j # r.pos
    BY <2>1, <2>3 DEF RingIsSound
  <2> QED
    BY <1>8, <2>2, <2>3
<1>16. q.count < MaxSize => q.pos = q.count
  BY <1>1, <1>2 DEF NextSlot
<1>17. HeldIn(q) \subseteq 1..MaxEntries
  BY <1>11 DEF RingIsSound
<1>18. q \in [slots : [Slots -> 0..MaxEntries], pos : Slots, count : 0..MaxSize,
              over : SUBSET (1..MaxEntries), bumped : SUBSET (1..MaxEntries)]
  <2>1. q.count \in 0..MaxSize
    BY <1>3
  <2>2. q = [slots |-> q.slots, pos |-> q.pos, count |-> q.count,
             over |-> q.over, bumped |-> q.bumped]
    BY DEF Put
  <2> QED
    BY <1>3, <1>8, <1>14, <2>1, <2>2
<1> QED
  BY <1>f, <1>10, <1>11, <1>13, <1>15, <1>16, <1>17, <1>18 DEF RingIsSound

\* What a failed flush puts back, and what was in the ring, lose their places at most
\* to one another.
LEMMA FoldIsSound ==
  ASSUME NEW r, RingIsSound(r), NEW s \in Seq(1..MaxEntries), Apart(s),
         Entries(s) \cap HeldIn(r) = {}, NEW q, q = PutAll(r, s)
  PROVE  /\ RingIsSound(q)
         /\ HeldIn(q) \subseteq HeldIn(r) \cup Entries(s)
         /\ HeldIn(r) \cup Entries(s) \subseteq HeldIn(q) \cup Gone(q)
         /\ Gone(r) \subseteq Gone(q)
<1>1. PICK n \in Nat : n = Len(s)
  BY LengthAndElements
<1>2. DOMAIN s = 1..n /\ \A i \in 1..n : s[i] \in 1..MaxEntries
  BY <1>1, LengthAndElements
<1>3. PICK path : /\ path[0] = r
                  /\ \A k \in 1..n : path[k] = Put(path[k - 1], s[k])
                  /\ PutAll(r, s) = path[n]
  <2>1. DOMAIN s = 1..n
    BY <1>2
  <2> QED
    BY <2>1, FoldIsPath
<1>4. q = path[n]
  BY <1>3
<1> DEFINE Before(k) == {s[i] : i \in 1..k}
           Good(k) == /\ RingIsSound(path[k])
                      /\ HeldIn(path[k]) \subseteq HeldIn(r) \cup Before(k)
                      /\ HeldIn(r) \cup Before(k) \subseteq HeldIn(path[k]) \cup Gone(path[k])
                      /\ Gone(r) \subseteq Gone(path[k])
           wrong == {k \in 0..n : ~Good(k)}
<1>5. Good(0)
  <2>1. Before(0) = {}
    OBVIOUS
  <2> QED
    BY <1>3, <2>1
<1>6. ASSUME NEW k \in 1..n, Good(k - 1) PROVE Good(k)
  <2> DEFINE p == path[k - 1]
  <2>1. /\ k \in DOMAIN s /\ s[k] \in 1..MaxEntries /\ path[k] = Put(p, s[k])
        /\ \A i \in 1..k - 1 : i \in DOMAIN s /\ i # k
        /\ \A i \in 1..k : i = k \/ i \in 1..k - 1
        /\ \A i \in 1..k - 1 : i \in 1..k
        /\ k \in 1..k
    BY <1>2, <1>3
  <2>2. Before(k) = Before(k - 1) \cup {s[k]}
    BY <2>1
  <2>3. s[k] \notin Before(k - 1) /\ s[k] \notin HeldIn(r)
    BY <2>1 DEF Apart, Entries
  <2> HIDE DEF Before
  <2>4. RingIsSound(p) /\ s[k] \notin HeldIn(p)
    BY <1>6, <2>3
  <2>5. PICK x : x = path[k]
    OBVIOUS
  <2>6. /\ RingIsSound(x)
        /\ s[k] \in HeldIn(x) /\ HeldIn(x) \subseteq HeldIn(p) \cup {s[k]}
        /\ HeldIn(p) \subseteq HeldIn(x) \cup Gone(x) /\ Gone(p) \subseteq Gone(x)
    BY <2>1, <2>4, <2>5, PutIsSound
  <2> QED
    BY <1>6, <2>2, <2>5, <2>6
<1>7. wrong = {}
  <2> SUFFICES ASSUME wrong # {} PROVE FALSE
    OBVIOUS
  <2> HIDE DEF Good
  <2>1. IsWellFoundedOn(OpToRel(<, Nat), Nat)
    BY NatLessThanWellFounded
  <2>2. PICK k \in wrong : \A l \in wrong : ~(<<l, k>> \in OpToRel(<, Nat))
    <3>1. wrong \subseteq Nat
      OBVIOUS
    <3> HIDE DEF wrong
    <3> QED
      BY <2>1, <3>1, WFMin
  <2>3. k \in 1..n
    <3>1. k \in 0..n /\ k # 0
      BY <1>5, <2>2
    <3> QED
      BY <3>1
  <2>4. k - 1 \in Nat /\ k \in Nat /\ k - 1 < k /\ k - 1 \in 0..n
    BY <2>3
  <2>5. <<k - 1, k>> \in OpToRel(<, Nat)
    BY <2>4 DEF OpToRel
  <2>6. Good(k - 1)
    BY <2>2, <2>4, <2>5
  <2> QED
    BY <1>6, <2>2, <2>3, <2>6
<1>8. Good(n) /\ Before(n) = Entries(s)
  BY <1>2, <1>7 DEF Entries
<1> HIDE DEF Before
<1> QED
  BY <1>4, <1>8

\* Snapshot copies the entries that count, each once.
LEMMA SnapshotIsHeld ==
  ASSUME RingIsSound(ring)
  PROVE  /\ Snapshot \in Seq(HeldIn(ring)) /\ Entries(Snapshot) = HeldIn(ring)
         /\ Apart(Snapshot)
<1>1. PICK r : r = ring
  OBVIOUS
<1>2. RingIsSound(r)
  BY <1>1
<1>3. PICK n \in Nat, p \in Nat, m \in Nat :
        /\ n = r.count /\ p = r.pos /\ m = MaxSize
        /\ n <= m /\ p < m /\ (n < m => p = n)
        /\ \A i : i \in LiveIn(r) <=> i \in Nat /\ i < n
  BY <1>2, SoundBounds DEF RingIsSound
<1> DEFINE at(i) == IF n < m THEN i - 1
                    ELSE IF i <= m - p THEN p + i - 1 ELSE i - 1 - (m - p)
<1>4. Snapshot = [i \in 1..n |-> r.slots[at(i)]]
  BY <1>1, <1>3 DEF Snapshot
<1>5. \A i \in 1..n : at(i) \in Nat /\ at(i) < n
  BY <1>3
<1>6. \A i, j \in 1..n : at(i) = at(j) => i = j
  BY <1>3
<1>7. \A l \in Nat : l < n => \E i \in 1..n : at(i) = l
  <2> SUFFICES ASSUME NEW l \in Nat, l < n PROVE \E i \in 1..n : at(i) = l
    OBVIOUS
  <2>1. CASE n < m
    <3>1. l + 1 \in 1..n /\ at(l + 1) = l
      BY <2>1
    <3> QED
      BY <3>1
  <2>2. CASE ~(n < m) /\ l >= p
    <3>1. l - p + 1 \in 1..n /\ at(l - p + 1) = l
      BY <1>3, <2>2
    <3> QED
      BY <3>1
  <2>3. CASE ~(n < m) /\ l < p
    <3>1. l + 1 + (m - p) \in 1..n /\ at(l + 1 + (m - p)) = l
      BY <1>3, <2>3
    <3> QED
      BY <3>1
  <2> QED
    BY <2>1, <2>2, <2>3
<1> HIDE DEF at
<1>8. \A i \in 1..n : at(i) \in LiveIn(r) /\ Snapshot[i] = r.slots[at(i)]
  BY <1>3, <1>4, <1>5
<1>9. DOMAIN Snapshot = 1..n
  BY <1>4
<1>10. \A i \in 1..n : Snapshot[i] \in HeldIn(r)
  BY <1>8 DEF HeldIn
<1>11. Snapshot \in Seq(HeldIn(r))
  BY <1>4, <1>8, <1>10
<1>12. HeldIn(r) \subseteq Entries(Snapshot)
  <2> SUFFICES ASSUME NEW l \in LiveIn(r) PROVE r.slots[l] \in Entries(Snapshot)
    BY DEF HeldIn
  <2>1. PICK i \in 1..n : at(i) = l
    BY <1>3, <1>7
  <2> QED
    BY <1>8, <1>9, <2>1 DEF Entries
<1>13. Apart(Snapshot)
  BY <1>2, <1>6, <1>8, <1>9 DEF Apart, RingIsSound
<1>14. Entries(Snapshot) \subseteq HeldIn(r)
  BY <1>9, <1>10 DEF Entries
<1> QED
  BY <1>1, <1>11, <1>12, <1>13, <1>14


Batches == [taken : Seq(1..MaxEntries), todo : Seq(1..MaxEntries)]

\* Of concurrent flushes each has entries of its own, among the first n and not among
\* those held, and has still to insert some of them.
AreApart(batches, held, n) ==
  /\ batches \in [Flushers -> Batches]
  /\ \A f \in Flushers :
       /\ Apart(batches[f].taken) /\ Apart(batches[f].todo)
       /\ Entries(batches[f].todo) \subseteq Entries(batches[f].taken)
       /\ Entries(batches[f].taken) \subseteq 1..n
       /\ Entries(batches[f].taken) \cap held = {}
  /\ \A f, g \in Flushers :
       f # g => Entries(batches[f].taken) \cap Entries(batches[g].taken) = {}

BatchesAreApart == AreApart(batch, HeldIn(ring), recorded)

\* e is still to be written.
Unwritten(e) == e \in HeldIn(ring) \/ \E f \in Flushers : e \in Entries(batch[f].todo)

RowsAreBounded ==
  /\ rows \in [1..MaxEntries -> Nat]
  /\ \A e \in 1..MaxEntries :
       /\ rows[e] <= 1 + failures
       /\ Unwritten(e) => rows[e] <= failures
       /\ e > recorded => rows[e] = 0

NoneIsLost == \A e \in 1..recorded : rows[e] > 0 \/ e \in Gone(ring) \/ Unwritten(e)

\* Before a flush fails nothing is put back over newer entries.
BumpsFollowFailures == ring.bumped # {} => failures > 0

AuditInv ==
  /\ recorded \in 0..MaxEntries /\ failures \in 0..MaxFailures
  /\ RingIsSound(ring) /\ HeldIn(ring) \subseteq 1..recorded
  /\ BatchesAreApart /\ RowsAreBounded /\ NoneIsLost /\ BumpsFollowFailures
  /\ columns \in BOOLEAN

LEMMA AuditBounds ==
  ASSUME AuditInv
  PROVE  /\ recorded \in Nat /\ failures \in Nat /\ MaxEntries \in Nat /\ MaxFailures \in Nat
         /\ recorded <= MaxEntries /\ failures <= MaxFailures
         /\ \A e : e \in 1..recorded => e \in 1..MaxEntries
         /\ \A f \in Flushers :
              /\ batch[f].taken \in Seq(1..MaxEntries) /\ batch[f].todo \in Seq(1..MaxEntries)
              /\ Entries(batch[f].todo) \subseteq 1..MaxEntries
              /\ Entries(batch[f].todo) \cap HeldIn(ring) = {}
              /\ \A g \in Flushers :
                   f # g => Entries(batch[f].todo) \cap Entries(batch[g].todo) = {}
<1> USE AuditAssumption DEF AuditInv
<1>1. /\ recorded \in Nat /\ failures \in Nat
      /\ recorded <= MaxEntries /\ failures <= MaxFailures
  OBVIOUS
<1>2. \A e : e \in 1..recorded => e \in 1..MaxEntries
  BY <1>1
<1>3. \A f \in Flushers :
        batch[f].taken \in Seq(1..MaxEntries) /\ batch[f].todo \in Seq(1..MaxEntries)
  BY DEF BatchesAreApart, AreApart, Batches
<1>4. \A f \in Flushers :
        /\ Entries(batch[f].todo) \subseteq 1..MaxEntries
        /\ Entries(batch[f].todo) \cap HeldIn(ring) = {}
        /\ \A g \in Flushers :
             f # g => Entries(batch[f].todo) \cap Entries(batch[g].todo) = {}
  BY <1>2 DEF BatchesAreApart, AreApart, Batches
<1> QED
  BY <1>1, <1>2, <1>3, <1>4

LEMMA AuditInitHolds == AuditInit => AuditInv
<1> SUFFICES ASSUME AuditInit PROVE AuditInv
  OBVIOUS
<1> USE AuditAssumption
<1>1. /\ ring.count = 0 /\ ring.pos = 0 /\ ring.bumped = {} /\ recorded = 0 /\ failures = 0
      /\ ring.slots = [i \in Slots |-> 0]
  BY DEF AuditInit
<1>2. LiveIn(ring) = {}
  BY <1>1 DEF LiveIn, Slots
<1>3. HeldIn(ring) = {}
  BY <1>2 DEF HeldIn
<1>4. RingIsSound(ring)
  <2>1. 0 \in Slots /\ 0 \in 0..MaxSize /\ 0 \in 0..MaxEntries
    BY DEF Slots
  <2>2. ring \in [slots : [Slots -> 0..MaxEntries], pos : Slots, count : 0..MaxSize,
                  over : SUBSET (1..MaxEntries), bumped : SUBSET (1..MaxEntries)]
    BY <2>1 DEF AuditInit
  <2> QED
    BY <1>1, <1>2, <1>3, <2>2 DEF RingIsSound
<1>5. \A f \in Flushers : batch[f].taken = <<>> /\ batch[f].todo = <<>>
  BY DEF AuditInit, NoBatch
<1>6. Entries(<<>>) = {} /\ Apart(<<>>)
  BY DEF Entries, Apart
<1>7. BatchesAreApart
  <2>1. batch \in [Flushers -> Batches]
    BY DEF AuditInit, NoBatch, Batches
  <2> QED
    BY <1>5, <1>6, <2>1 DEF BatchesAreApart, AreApart, Batches
<1>8. \A e : ~Unwritten(e)
  BY <1>3, <1>5, <1>6 DEF Unwritten
<1>9. RowsAreBounded
  BY <1>1, <1>8 DEF AuditInit, RowsAreBounded
<1>10. NoneIsLost /\ BumpsFollowFailures /\ columns \in BOOLEAN
  BY <1>1 DEF AuditInit, NoneIsLost, BumpsFollowFailures
<1> QED
  BY <1>1, <1>3, <1>4, <1>7, <1>9, <1>10 DEF AuditInv

\* A flush that changes its batch stays apart from the others.
LEMMA OthersStayApart ==
  ASSUME NEW bs, NEW held, NEW n, AreApart(bs, held, n),
         NEW f \in Flushers, NEW b \in Batches, NEW hold,
         Apart(b.taken), Apart(b.todo), Entries(b.todo) \subseteq Entries(b.taken),
         Entries(b.taken) \subseteq 1..n, Entries(b.taken) \cap hold = {},
         \A g \in Flushers \ {f} :
           /\ Entries(bs[g].taken) \cap hold = {}
           /\ Entries(b.taken) \cap Entries(bs[g].taken) = {}
  PROVE  AreApart([bs EXCEPT ![f] = b], hold, n)
<1> DEFINE cs == [bs EXCEPT ![f] = b]
<1>1. cs \in [Flushers -> Batches]
  BY DEF AreApart
<1>2. cs[f] = b /\ \A g \in Flushers \ {f} : cs[g] = bs[g]
  BY DEF AreApart
<1> HIDE DEF cs
<1>3. ASSUME NEW g \in Flushers
      PROVE  /\ Apart(cs[g].taken) /\ Apart(cs[g].todo)
             /\ Entries(cs[g].todo) \subseteq Entries(cs[g].taken)
             /\ Entries(cs[g].taken) \subseteq 1..n
             /\ Entries(cs[g].taken) \cap hold = {}
  <2>1. CASE g = f
    BY <1>2, <2>1
  <2>2. CASE g # f
    BY <1>2, <2>2 DEF AreApart
  <2> QED
    BY <2>1, <2>2
<1>4. ASSUME NEW g \in Flushers, NEW h \in Flushers, g # h
      PROVE  Entries(cs[g].taken) \cap Entries(cs[h].taken) = {}
  <2>1. CASE g = f
    BY <1>2, <1>4, <2>1
  <2>2. CASE h = f
    BY <1>2, <1>4, <2>2
  <2>3. CASE g # f /\ h # f
    BY <1>2, <1>4, <2>3 DEF AreApart
  <2> QED
    BY <2>1, <2>2, <2>3
<1>5. AreApart(cs, hold, n)
  BY <1>1, <1>3, <1>4 DEF AreApart
<1> QED
  BY <1>5 DEF cs

LEMMA RecordIsSound == AuditInv /\ Record => AuditInv'
<1> SUFFICES ASSUME AuditInv, Record PROVE AuditInv'
  OBVIOUS
<1> USE AuditBounds
<1>0. PICK e : e = recorded + 1
  OBVIOUS
<1>1. /\ e \in 1..MaxEntries /\ e \notin 1..recorded /\ recorded' = e
      /\ 1..recorded' = 1..recorded \cup {e}
      /\ recorded' \in 0..MaxEntries
      /\ ring' = Put(ring, e) /\ batch' = batch /\ rows' = rows /\ failures' = failures
  BY <1>0 DEF Record
<1>2. /\ RingIsSound(ring') /\ e \in HeldIn(ring')
      /\ HeldIn(ring') \subseteq HeldIn(ring) \cup {e}
      /\ HeldIn(ring) \subseteq HeldIn(ring') \cup Gone(ring') /\ Gone(ring) \subseteq Gone(ring')
      /\ ring'.bumped = ring.bumped
  <2>1. PICK r, q : r = ring /\ q = ring'
    OBVIOUS
  <2>2. RingIsSound(r) /\ e \notin HeldIn(r) /\ q = Put(r, e)
    BY <1>1, <2>1 DEF AuditInv
  <2>3. /\ RingIsSound(q) /\ e \in HeldIn(q) /\ HeldIn(q) \subseteq HeldIn(r) \cup {e}
        /\ HeldIn(r) \subseteq HeldIn(q) \cup Gone(q) /\ Gone(r) \subseteq Gone(q)
        /\ (\A d \in HeldIn(r) : d < e) => q.bumped = r.bumped
    BY <1>1, <2>2, PutIsSound
  <2>4. \A d \in HeldIn(r) : d < e
    <3>1. HeldIn(r) \subseteq 1..recorded /\ recorded \in Nat
      BY <2>1 DEF AuditInv
    <3>2. \A d \in 1..recorded : d < e
      BY <1>0, <3>1
    <3> QED
      BY <3>1, <3>2
  <2> QED
    BY <2>1, <2>3, <2>4
<1>3. HeldIn(ring') \subseteq 1..recorded'
  BY <1>1, <1>2 DEF AuditInv
<1>4. BatchesAreApart'
  <2>1. AreApart(batch, HeldIn(ring), recorded)
    BY DEF AuditInv, BatchesAreApart
  <2>2. \A f \in Flushers : e \notin Entries(batch[f].taken)
    BY <1>1, <2>1 DEF AreApart
  <2>3. \A f \in Flushers : Entries(batch[f].taken) \subseteq 1..recorded'
    BY <1>1, <2>1 DEF AreApart
  <2>4. \A f \in Flushers : Entries(batch[f].taken) \cap HeldIn(ring') = {}
    <3>1. \A f \in Flushers : Entries(batch[f].taken) \cap HeldIn(ring) = {}
      BY <2>1 DEF AreApart
    <3> QED
      BY <1>2, <2>2, <3>1
  <2>5. AreApart(batch, HeldIn(ring'), recorded')
    BY <2>1, <2>3, <2>4 DEF AreApart
  <2> QED
    BY <1>1, <2>5 DEF BatchesAreApart
<1>5. \A d : Unwritten(d)' => Unwritten(d) \/ d = e
  BY <1>1, <1>2 DEF Unwritten
<1>6. \A d : Unwritten(d) => Unwritten(d)' \/ d \in Gone(ring')
  BY <1>1, <1>2 DEF Unwritten
<1>7. Unwritten(e)'
  BY <1>2 DEF Unwritten
<1>8. RowsAreBounded'
  <2> SUFFICES ASSUME NEW d \in 1..MaxEntries
               PROVE  /\ rows[d] <= 1 + failures
                      /\ Unwritten(d)' => rows[d] <= failures
                      /\ d > recorded' => rows[d] = 0
    BY <1>1 DEF AuditInv, RowsAreBounded
  <2>1. rows[e] = 0
    BY <1>0, <1>1 DEF AuditInv, RowsAreBounded
  <2>2. d > recorded' => d > recorded
    BY <1>0, <1>1
  <2> QED
    BY <1>5, <2>1, <2>2 DEF AuditInv, RowsAreBounded
<1>9. NoneIsLost' /\ BumpsFollowFailures' /\ columns' \in BOOLEAN
  BY <1>1, <1>2, <1>6, <1>7 DEF Record, AuditInv, NoneIsLost, BumpsFollowFailures
<1> QED
  BY <1>1, <1>2, <1>3, <1>4, <1>8, <1>9 DEF AuditInv

LEMMA TakeIsSound == AuditInv => \A f \in Flushers : Take(f) => AuditInv'
<1> SUFFICES ASSUME AuditInv, NEW f \in Flushers, Take(f) PROVE AuditInv'
  OBVIOUS
<1> USE AuditBounds
<1>1. /\ batch[f].taken = <<>> /\ batch[f].todo = <<>>
      /\ batch' = [batch EXCEPT ![f] = [taken |-> Snapshot, todo |-> Snapshot]]
      /\ ring'.slots = ring.slots /\ ring'.count = 0 /\ ring'.pos = 0
      /\ Gone(ring') = Gone(ring) /\ ring'.bumped = ring.bumped
      /\ recorded' = recorded /\ rows' = rows /\ failures' = failures
  BY DEF Take, NoBatch, Emptied, AuditInv, RingIsSound, Gone
<1>2. /\ Snapshot \in Seq(1..MaxEntries) /\ Entries(Snapshot) = HeldIn(ring) /\ Apart(Snapshot)
  <2>1. /\ Snapshot \in Seq(HeldIn(ring)) /\ HeldIn(ring) \subseteq 1..MaxEntries
        /\ Entries(Snapshot) = HeldIn(ring) /\ Apart(Snapshot)
    BY SnapshotIsHeld DEF AuditInv, RingIsSound
  <2> QED
    BY <2>1
<1>3. HeldIn(ring') = {} /\ RingIsSound(ring')
  <2>1. 0 \in Slots /\ 0 \in 0..MaxSize
    BY AuditAssumption DEF Slots
  <2>2. LiveIn(ring') = {}
    BY <1>1, <2>1, AuditAssumption DEF LiveIn, Slots
  <2>3. HeldIn(ring') = {}
    BY <2>2 DEF HeldIn
  <2>4. ring' \in [slots : [Slots -> 0..MaxEntries], pos : Slots, count : 0..MaxSize,
                   over : SUBSET (1..MaxEntries), bumped : SUBSET (1..MaxEntries)]
    BY <2>1 DEF Take, Emptied, AuditInv, RingIsSound
  <2> QED
    BY <1>1, <2>2, <2>3, <2>4 DEF RingIsSound
<1>4. /\ batch' \in [Flushers -> Batches]
      /\ batch'[f].taken = Snapshot /\ batch'[f].todo = Snapshot
      /\ \A g \in Flushers : g # f => batch'[g] = batch[g]
  BY <1>1, <1>2 DEF AuditInv, BatchesAreApart, AreApart, Batches
<1>5. BatchesAreApart'
  <2>1. PICK b : b = [taken |-> Snapshot, todo |-> Snapshot]
    OBVIOUS
  <2>2. /\ b \in Batches /\ b.taken = Snapshot /\ b.todo = Snapshot
        /\ batch' = [batch EXCEPT ![f] = b]
    BY <1>1, <1>2, <2>1 DEF Batches
  <2>3. HeldIn(ring) \subseteq 1..recorded /\ AreApart(batch, HeldIn(ring), recorded)
    BY DEF AuditInv, BatchesAreApart
  <2>4. \A g \in Flushers : HeldIn(ring) \cap Entries(batch[g].taken) = {}
    BY <2>3 DEF AreApart
  <2>5. AreApart([batch EXCEPT ![f] = b], {}, recorded)
    BY <1>2, <2>2, <2>3, <2>4, OthersStayApart
  <2> QED
    BY <1>1, <1>3, <2>2, <2>5 DEF BatchesAreApart
<1>6. Entries(<<>>) = {}
  BY DEF Entries
<1>7. \A d : Unwritten(d)' <=> Unwritten(d)
  BY <1>1, <1>2, <1>3, <1>4, <1>6 DEF Unwritten
<1>8. RowsAreBounded' /\ NoneIsLost'
  BY <1>1, <1>7 DEF AuditInv, RowsAreBounded, NoneIsLost
<1>9. BumpsFollowFailures' /\ columns' \in BOOLEAN
  BY <1>1 DEF Take, AuditInv, BumpsFollowFailures
<1> QED
  BY <1>1, <1>3, <1>5, <1>8, <1>9 DEF AuditInv

\* An INSERT moves an entry from the rest of a batch to the table.
LEMMA InsertIsSound == AuditInv => \A f \in Flushers : InsertEntry(f) => AuditInv'
<1> SUFFICES ASSUME AuditInv, NEW f \in Flushers, InsertEntry(f) PROVE AuditInv'
  OBVIOUS
<1> USE AuditBounds
<1>1. PICK b, t, e : b = batch[f] /\ t = b.todo /\ e = Head(t)
  OBVIOUS
<1>2. /\ t \in Seq(1..MaxEntries) /\ t # <<>> /\ Apart(t)
      /\ b \in Batches
      /\ Entries(t) \subseteq Entries(b.taken)
  BY <1>1 DEF InsertEntry, AuditInv, BatchesAreApart, AreApart, Batches
<1>3. /\ rows' = [rows EXCEPT ![e] = rows[e] + 1]
      /\ batch' = [batch EXCEPT ![f] = IF Tail(t) = <<>> THEN NoBatch
                                       ELSE [b EXCEPT !.todo = Tail(t)]]
      /\ ring' = ring /\ recorded' = recorded /\ failures' = failures
  BY <1>1 DEF InsertEntry
<1>4. /\ Tail(t) \in Seq(1..MaxEntries) /\ Apart(Tail(t))
      /\ e \in Entries(t) /\ Entries(t) = Entries(Tail(t)) \cup {e} /\ e \notin Entries(Tail(t))
  <2>1. PICK n \in Nat : Len(t) = n + 1
    <3>1. Len(t) \in Nat /\ Len(t) # 0
      BY <1>2
    <3>2. Len(t) - 1 \in Nat /\ Len(t) = (Len(t) - 1) + 1
      BY <3>1
    <3> QED
      BY <3>2
  <2>2. DOMAIN t = 1..n + 1 /\ e = t[1]
    BY <1>1, <1>2, <2>1
  <2>3. /\ Tail(t) \in Seq(1..MaxEntries) /\ DOMAIN Tail(t) = 1..n
        /\ \A i \in 1..n : Tail(t)[i] = t[i + 1]
    BY <1>2, <2>1
  <2>4. \A i \in 1..n : i + 1 \in 1..n + 1 /\ i + 1 # 1
    OBVIOUS
  <2>5. 1 \in 1..n + 1 /\ \A i \in 1..n + 1 : i = 1 \/ \E j \in 1..n : i = j + 1
    <3>1. \A i \in 1..n + 1 : i = 1 \/ (i - 1 \in 1..n /\ i = (i - 1) + 1)
      OBVIOUS
    <3> QED
      BY <3>1
  <2> DEFINE u == Tail(t)
  <2>6. DOMAIN u = 1..n /\ \A i \in 1..n : u[i] = t[i + 1]
    BY <2>3
  <2>7. \A i, j \in 1..n : i + 1 = j + 1 => i = j
    OBVIOUS
  <2> HIDE DEF u
  <2>8. e \in Entries(t)
    BY <2>2, <2>5 DEF Entries
  <2>9. Entries(u) \subseteq Entries(t)
    BY <2>2, <2>4, <2>6 DEF Entries
  <2>10. Entries(t) \subseteq Entries(u) \cup {e}
    <3> SUFFICES ASSUME NEW i \in 1..n + 1 PROVE t[i] = e \/ t[i] \in Entries(u)
      BY <2>2 DEF Entries
    <3>1. CASE i = 1
      BY <2>2, <3>1
    <3>2. CASE i # 1
      BY <2>5, <2>6, <3>2 DEF Entries
    <3> QED
      BY <3>1, <3>2
  <2>11. e \notin Entries(u)
    <3> SUFFICES ASSUME NEW i \in 1..n PROVE u[i] # e
      BY <2>6 DEF Entries
    <3>1. i + 1 \in DOMAIN t /\ 1 \in DOMAIN t /\ i + 1 # 1
      BY <2>2, <2>4, <2>5
    <3>2. t[i + 1] # t[1]
      BY <1>2, <3>1 DEF Apart
    <3> QED
      BY <2>2, <2>6, <3>2
  <2>12. Apart(u)
    <3> SUFFICES ASSUME NEW i \in 1..n, NEW j \in 1..n, u[i] = u[j] PROVE i = j
      BY <2>6 DEF Apart
    <3>1. i + 1 \in DOMAIN t /\ j + 1 \in DOMAIN t /\ t[i + 1] = t[j + 1]
      BY <2>2, <2>4, <2>6
    <3>2. i + 1 = j + 1
      BY <1>2, <3>1 DEF Apart
    <3> QED
      BY <2>7, <3>2
  <2> QED
    BY <2>3, <2>8, <2>9, <2>10, <2>11, <2>12 DEF u
<1>5. /\ batch' \in [Flushers -> Batches]
      /\ batch'[f].todo = Tail(t)
      /\ (batch'[f].taken = <<>> /\ Tail(t) = <<>>) \/ batch'[f].taken = b.taken
      /\ batch' = [batch EXCEPT ![f] = batch'[f]]
      /\ \A g \in Flushers : g # f => batch'[g] = batch[g]
  <2>1. NoBatch \in Batches
    BY DEF NoBatch, Batches
  <2>2. [b EXCEPT !.todo = Tail(t)] \in Batches
    BY <1>2, <1>4 DEF Batches
  <2>3. batch'[f] = IF Tail(t) = <<>> THEN NoBatch ELSE [b EXCEPT !.todo = Tail(t)]
    BY <1>3 DEF AuditInv, BatchesAreApart, AreApart, Batches
  <2>4. batch \in [Flushers -> Batches]
    BY DEF AuditInv, BatchesAreApart, AreApart
  <2>5. PICK c \in Batches : batch' = [batch EXCEPT ![f] = c] /\ c = batch'[f]
    BY <1>3, <2>1, <2>2, <2>3
  <2>6. batch' \in [Flushers -> Batches] /\ \A g \in Flushers : g # f => batch'[g] = batch[g]
    BY <2>4, <2>5
  <2>7. c.todo = Tail(t) /\ ((c.taken = <<>> /\ Tail(t) = <<>>) \/ c.taken = b.taken)
    <3>1. CASE Tail(t) = <<>>
      <4>1. c = NoBatch
        BY <2>3, <2>5, <3>1
      <4> QED
        BY <3>1, <4>1 DEF NoBatch
    <3>2. CASE Tail(t) # <<>>
      <4>1. c = [b EXCEPT !.todo = Tail(t)]
        BY <2>3, <2>5, <3>2
      <4>2. c.todo = Tail(t) /\ c.taken = b.taken
        BY <1>2, <4>1 DEF Batches
      <4> QED
        BY <4>2
    <3> QED
      BY <3>1, <3>2
  <2> QED
    BY <2>5, <2>6, <2>7
<1>6. Entries(<<>>) = {} /\ Apart(<<>>)
  BY DEF Entries, Apart
<1>7. BatchesAreApart'
  <2>1. /\ Apart(b.taken) /\ Entries(b.taken) \subseteq 1..recorded
        /\ Entries(b.taken) \cap HeldIn(ring) = {}
        /\ \A g \in Flushers :
             f # g => /\ Entries(b.taken) \cap Entries(batch[g].taken) = {}
                      /\ Entries(batch[g].taken) \cap Entries(b.taken) = {}
    BY <1>1 DEF AuditInv, BatchesAreApart, AreApart, Batches
  <2>2. Entries(batch'[f].taken) \subseteq Entries(b.taken) /\ Apart(batch'[f].taken)
    BY <1>5, <1>6, <2>1
  <2>3. Apart(batch'[f].todo) /\ Entries(batch'[f].todo) \subseteq Entries(batch'[f].taken)
    BY <1>2, <1>4, <1>5, <1>6
  <2>4. PICK c : c = batch'[f]
    OBVIOUS
  <2>5. /\ c \in Batches /\ batch' = [batch EXCEPT ![f] = c]
        /\ Entries(c.taken) \subseteq Entries(b.taken) /\ Apart(c.taken)
        /\ Apart(c.todo) /\ Entries(c.todo) \subseteq Entries(c.taken)
    BY <1>5, <2>2, <2>3, <2>4
  <2>6. AreApart(batch, HeldIn(ring), recorded)
    BY DEF AuditInv, BatchesAreApart
  <2>7. \A g \in Flushers : Entries(batch[g].taken) \cap HeldIn(ring) = {}
    BY <2>6 DEF AreApart
  <2>8. AreApart([batch EXCEPT ![f] = c], HeldIn(ring), recorded)
    BY <2>1, <2>5, <2>6, <2>7, OthersStayApart
  <2> QED
    BY <1>3, <2>5, <2>8 DEF BatchesAreApart
<1>8. Unwritten(e) /\ ~Unwritten(e)'
  BY <1>1, <1>3, <1>4, <1>5 DEF Unwritten
<1>9. \A d : d # e => (Unwritten(d)' <=> Unwritten(d))
  BY <1>1, <1>3, <1>4, <1>5 DEF Unwritten
<1>10. e \in 1..recorded /\ e \in 1..MaxEntries
  BY <1>1, <1>4 DEF AuditInv, BatchesAreApart, AreApart, Batches
<1>11. /\ rows' \in [1..MaxEntries -> Nat] /\ rows'[e] = rows[e] + 1 /\ rows[e] \in Nat
       /\ \A d \in 1..MaxEntries : d # e => rows'[d] = rows[d]
  BY <1>3, <1>10 DEF AuditInv, RowsAreBounded
<1>12. RowsAreBounded'
  <2>1. rows[e] <= failures /\ ~(e > recorded)
    BY <1>8, <1>10 DEF AuditInv, RowsAreBounded
  <2>2. rows'[e] <= 1 + failures
    BY <1>11, <2>1
  <2> QED
    BY <1>3, <1>8, <1>9, <1>11, <2>1, <2>2 DEF AuditInv, RowsAreBounded
<1>13. NoneIsLost'
  <2>1. rows'[e] > 0
    BY <1>11
  <2> QED
    BY <1>3, <1>9, <1>11, <2>1 DEF AuditInv, NoneIsLost
<1>14. BumpsFollowFailures' /\ columns' \in BOOLEAN
  BY <1>3 DEF InsertEntry, AuditInv, BumpsFollowFailures
<1> QED
  BY <1>3, <1>7, <1>12, <1>13, <1>14 DEF AuditInv

\* A flush that fails has inserted some of its entries and puts all of them back.
LEMMA FailureIsSound == AuditInv => \A f \in Flushers : FlushFails(f) => AuditInv'
<1> SUFFICES ASSUME AuditInv, NEW f \in Flushers, FlushFails(f) PROVE AuditInv'
  OBVIOUS
<1> USE AuditBounds
<1>1. PICK s : s = batch[f].taken
  OBVIOUS
<1>2. /\ ring' = PutAll(ring, s) /\ failures' = failures + 1 /\ failures' \in 0..MaxFailures
      /\ batch' = [batch EXCEPT ![f] = NoBatch] /\ recorded' = recorded /\ rows' = rows
  BY <1>1 DEF FlushFails, Returned, PutAll
<1>3. /\ s \in Seq(1..MaxEntries) /\ Apart(s) /\ Entries(s) \cap HeldIn(ring) = {}
      /\ Entries(batch[f].todo) \subseteq Entries(s) /\ Entries(s) \subseteq 1..recorded
      /\ \A g \in Flushers : f # g => Entries(s) \cap Entries(batch[g].taken) = {}
  BY <1>1 DEF AuditInv, BatchesAreApart, AreApart, Batches
<1>4. /\ RingIsSound(ring')
      /\ HeldIn(ring') \subseteq HeldIn(ring) \cup Entries(s)
      /\ HeldIn(ring) \cup Entries(s) \subseteq HeldIn(ring') \cup Gone(ring')
      /\ Gone(ring) \subseteq Gone(ring')
  <2>1. PICK r, q : r = ring /\ q = ring'
    OBVIOUS
  <2>2. RingIsSound(r) /\ Entries(s) \cap HeldIn(r) = {} /\ q = PutAll(r, s)
    BY <1>2, <1>3, <2>1 DEF AuditInv
  <2>3. /\ RingIsSound(q) /\ HeldIn(q) \subseteq HeldIn(r) \cup Entries(s)
        /\ HeldIn(r) \cup Entries(s) \subseteq HeldIn(q) \cup Gone(q)
        /\ Gone(r) \subseteq Gone(q)
    BY <1>3, <2>2, FoldIsSound
  <2> QED
    BY <2>1, <2>3
<1>5. HeldIn(ring') \subseteq 1..recorded'
  BY <1>2, <1>3, <1>4 DEF AuditInv
<1>6. Entries(<<>>) = {} /\ Apart(<<>>)
  BY DEF Entries, Apart
<1>7. /\ batch' \in [Flushers -> Batches]
      /\ batch'[f].taken = <<>> /\ batch'[f].todo = <<>>
      /\ \A g \in Flushers : g # f => batch'[g] = batch[g]
  BY <1>2 DEF AuditInv, BatchesAreApart, AreApart, Batches, NoBatch
<1>8. BatchesAreApart'
  <2>1. PICK b : b = NoBatch
    OBVIOUS
  <2>2. b \in Batches /\ b.taken = <<>> /\ b.todo = <<>>
    BY <2>1 DEF NoBatch, Batches
  <2>3. AreApart(batch, HeldIn(ring), recorded)
    BY DEF AuditInv, BatchesAreApart
  <2>4. \A g \in Flushers \ {f} : Entries(batch[g].taken) \cap HeldIn(ring') = {}
    BY <1>3, <1>4, <2>3 DEF AreApart
  <2>5. AreApart([batch EXCEPT ![f] = b], HeldIn(ring'), recorded)
    BY <1>6, <2>2, <2>3, <2>4, OthersStayApart
  <2> QED
    BY <1>2, <2>1, <2>5 DEF BatchesAreApart
<1>9. \A d : Unwritten(d) => Unwritten(d)' \/ d \in Gone(ring')
  BY <1>3, <1>4, <1>7 DEF Unwritten
<1>10. RowsAreBounded'
  <2>1. \A d \in 1..MaxEntries : rows[d] \in Nat /\ rows[d] <= 1 + failures
    BY DEF AuditInv, RowsAreBounded
  <2>2. \A d \in 1..MaxEntries : rows[d] <= 1 + failures' /\ rows[d] <= failures'
    BY <1>2, <2>1
  <2> QED
    BY <1>2, <2>2 DEF AuditInv, RowsAreBounded
<1>11. NoneIsLost'
  BY <1>2, <1>4, <1>9 DEF AuditInv, NoneIsLost
<1>12. BumpsFollowFailures' /\ columns' \in BOOLEAN
  <2>1. failures' > 0
    BY <1>2
  <2> QED
    BY <2>1 DEF FlushFails, AuditInv, BumpsFollowFailures
<1> QED
  BY <1>2, <1>4, <1>5, <1>8, <1>10, <1>11, <1>12 DEF AuditInv

LEMMA AuditInvIsKept == AuditInv /\ [AuditNext]_auditVars => AuditInv'
<1> SUFFICES ASSUME AuditInv, [AuditNext]_auditVars PROVE AuditInv'
  OBVIOUS
<1>1. CASE UNCHANGED auditVars
  BY <1>1
  DEF auditVars, AuditInv, BatchesAreApart, AreApart, RowsAreBounded, NoneIsLost, Unwritten,
      BumpsFollowFailures
<1> QED
  BY <1>1, RecordIsSound, TakeIsSound, InsertIsSound, FailureIsSound DEF AuditNext

LEMMA AuditInvIsEnough == AuditInv => AuditTypeOK /\ EntriesAreAccounted
<1> SUFFICES ASSUME AuditInv PROVE AuditTypeOK /\ EntriesAreAccounted
  OBVIOUS
<1> USE AuditBounds
<1>1. rows \in [1..MaxEntries -> 0..(1 + MaxFailures)]
  <2>1. \A e \in 1..MaxEntries : rows[e] \in Nat /\ rows[e] <= 1 + failures
    BY DEF AuditInv, RowsAreBounded
  <2>2. \A e \in 1..MaxEntries : rows[e] \in 0..(1 + MaxFailures)
    BY <2>1
  <2> QED
    BY <2>2 DEF AuditInv, RowsAreBounded
<1>2. AuditTypeOK
  BY <1>1 DEF AuditInv, RingIsSound, BatchesAreApart, AreApart, Batches, AuditTypeOK
<1>3. Entries(Snapshot) = HeldIn(ring)
  BY SnapshotIsHeld DEF AuditInv
<1>4. EntriesAreAccounted
  BY <1>3
  DEF AuditInv, RowsAreBounded, NoneIsLost, Unwritten, EntriesAreAccounted, Gone,
      BumpsFollowFailures
<1> QED
  BY <1>2, <1>4

\* However flushes overlap, fail and put back what they took while entries are
\* recorded, none is lost but to newer ones and to those that a failed flush puts back,
\* and none is in the table more often than once and once for each failure (Record, Flush and FlushToDB of audit/callback.go).
THEOREM EntriesStayAccounted == AuditSpec => [](AuditTypeOK /\ EntriesAreAccounted)
<1> QED
  BY AuditInitHolds, AuditInvIsKept, AuditInvIsEnough, PTL DEF AuditSpec

-----------------------------------------------------------------------------
(* The messages.                                                           *)

\* The messages that are stored, or about to be, were said once each, those about
\* to be since the server's start; what was said since then is in the cache.
SaidOnce ==
  /\ before \in 0..said
  /\ \A m, n \in stored \cup pending : m.text = n.text => m = n
  /\ \A m \in stored \cup pending : m.text <= said
  /\ \A m \in pending : m.text > before
  /\ (before + 1)..said \subseteq Texts(Cached)
  /\ asSaid \subseteq Messages /\ stored \cup pending \subseteq asSaid

\* Of what was said before the server's start the texts leave out an end at most.
NoGap(texts) ==
  \A t \in texts : t <= before => \A n \in Texts(stored) : n < t => n \in texts

\* A listing shows what can be found, without a gap.
ListingIsSound(q) ==
  LET l == lister[q] IN
  /\ l.shown \subseteq Cached \cup stored
  /\ NoGap(Texts(l.shown))
  /\ l.step = "idle" => (before + 1)..l.since \subseteq Texts(l.shown)
  /\ l.step # "idle" => l.since <= before
  /\ l.todo \subseteq l.shown
  /\ \A m \in l.shown \ l.todo : l.step = "fill" => m.text \in Texts(Cached)

ListersAreTyped ==
  lister \in [Listers -> [step : {"idle", "query", "fill"}, todo : SUBSET Messages,
                          shown : SUBSET Messages, since : Nat]]

MessageInv ==
  /\ MessageTypeOK /\ ListersAreTyped
  /\ SaidOnce /\ NoGap(Texts(Cached))
  /\ \A q \in Listers : ListingIsSound(q)

LEMMA MessageInvSuffices ==
  MessageInv => MessageTypeOK /\ ListingsHaveNoGaps /\ TableIsTruthful
<1> SUFFICES ASSUME MessageInv
             PROVE  MessageTypeOK /\ ListingsHaveNoGaps /\ TableIsTruthful
  OBVIOUS
<1>1. before \in Nat
  BY MessageAssumption DEF MessageInv, SaidOnce, MessageTypeOK
<1>2. ListingsHaveNoGaps
  <2> SUFFICES ASSUME NEW q \in Listers, lister[q].step = "idle"
               PROVE  /\ (before + 1)..lister[q].since \subseteq Texts(lister[q].shown)
                      /\ \A t \in Texts(lister[q].shown) \cap (1..before) :
                           \A n \in Texts(stored) : n < t => n \in Texts(lister[q].shown)
    BY DEF ListingsHaveNoGaps
  <2>1. /\ (before + 1)..lister[q].since \subseteq Texts(lister[q].shown)
        /\ NoGap(Texts(lister[q].shown))
    BY DEF MessageInv, ListingIsSound
  <2>2. \A t \in 1..before : t <= before
    BY <1>1
  <2> QED
    BY <2>1, <2>2 DEF NoGap
<1>3. TableIsTruthful
  BY DEF MessageInv, SaidOnce, ListingIsSound, TableIsTruthful
<1> QED
  BY <1>2, <1>3 DEF MessageInv

LEMMA MessageInitHolds == MessageInit => MessageInv
<1> SUFFICES ASSUME MessageInit PROVE MessageInv
  OBVIOUS
<1>1. MessageTypeOK /\ ListersAreTyped
  BY MessageAssumption DEF MessageInit, MessageTypeOK, ListersAreTyped, NoListing
<1>2. Cached = {} /\ stored = {} /\ pending = {} /\ before = 0 /\ said = 0
      /\ asSaid = {}
  BY DEF MessageInit, Cached
<1>3. SaidOnce /\ NoGap(Texts(Cached))
  BY <1>2 DEF SaidOnce, NoGap, Texts
<1>4. \A q \in Listers : ListingIsSound(q)
  BY <1>2 DEF MessageInit, ListingIsSound, NoListing, NoGap, Texts
<1> QED
  BY <1>1, <1>3, <1>4 DEF MessageInv

\* The cache with one more message.
LEMMA CachedGrows ==
  ASSUME NEW m \in Messages, cached \in Seq(Messages), cached' = Append(cached, m)
  PROVE  /\ cached' \in Seq(Messages)
         /\ Cached' = Cached \cup {m}
         /\ Texts(Cached') = Texts(Cached) \cup {m.text}
<1>1. /\ cached' \in Seq(Messages) /\ DOMAIN cached' = 1..Len(cached) + 1
      /\ DOMAIN cached = 1..Len(cached) /\ Len(cached) \in Nat
      /\ cached'[Len(cached) + 1] = m
      /\ \A i \in 1..Len(cached) : cached'[i] = cached[i]
  OBVIOUS
<1>2. Cached' = Cached \cup {m}
  <2>1. \A i \in 1..Len(cached) + 1 : i \in 1..Len(cached) \/ i = Len(cached) + 1
    BY <1>1
  <2>2. 1..Len(cached) \subseteq 1..Len(cached) + 1 /\ Len(cached) + 1 \in 1..Len(cached) + 1
    BY <1>1
  <2> QED
    BY <1>1, <2>1, <2>2 DEF Cached
<1> QED
  BY <1>1, <1>2 DEF Texts

\* Listings stay sound when the cache and the end of the table grow.
LEMMA ListingStaysSound ==
  ASSUME MessageInv, NEW q \in Listers, lister'[q] = lister[q], before' = before,
         Cached \subseteq Cached', stored \subseteq stored',
         \A n \in Texts(stored') : n \in Texts(stored) \/ n > before
  PROVE  ListingIsSound(q)'
<1>1. ListingIsSound(q) /\ before \in Nat /\ stored \subseteq Messages /\ stored' = stored'
  BY MessageAssumption DEF MessageInv, SaidOnce, MessageTypeOK
<1>2. Texts(Cached) \subseteq Texts(Cached')
  BY DEF Texts
<1>3. NoGap(Texts(lister[q].shown))'
  <2> SUFFICES ASSUME NEW t \in Texts(lister[q].shown), t <= before,
                      NEW n \in Texts(stored'), n < t
               PROVE  n \in Texts(lister[q].shown)
    BY DEF NoGap
  <2>1. t \in Nat
    BY DEF MessageInv, ListersAreTyped, Texts, Messages
  <2>2. n \in Texts(stored)
    BY <1>1, <2>1
  <2> QED
    BY <1>1, <2>2 DEF ListingIsSound, NoGap
<1> QED
  BY <1>1, <1>2, <1>3 DEF ListingIsSound

LEMMA AddMessageHolds == MessageInv /\ AddMessage => MessageInv'
<1> DEFINE m == Message(lastMsgId + 1, said + 1)
<1> SUFFICES ASSUME MessageInv, AddMessage PROVE MessageInv'
  OBVIOUS
<1> USE MessageAssumption
<1>1. /\ said \in 0..MaxSaid /\ said < MaxSaid /\ said' = said + 1
      /\ lastMsgId \in 0..MaxMsgId /\ lastMsgId < MaxMsgId /\ lastMsgId' = lastMsgId + 1
      /\ cached \in Seq(Messages) /\ cached' = Append(cached, m)
      /\ stored \subseteq Messages /\ pending \subseteq Messages /\ before \in 0..said
      /\ pending' = pending \cup {m} /\ asSaid' = asSaid \cup {m}
      /\ UNCHANGED <<stored, lister, before>>
  BY DEF MessageInv, MessageTypeOK, SaidOnce, AddMessage
<1>2. m \in Messages /\ m.text = said + 1
  BY <1>1 DEF Message, Messages
<1> HIDE DEF m
<1>3. /\ cached' \in Seq(Messages) /\ Cached' = Cached \cup {m}
      /\ Texts(Cached') = Texts(Cached) \cup {said + 1}
  BY <1>1, <1>2, CachedGrows
<1>4. MessageTypeOK' /\ ListersAreTyped'
  <2>1. said' \in 0..MaxSaid /\ lastMsgId' \in 0..MaxMsgId
    BY <1>1
  <2>2. pending' \subseteq Messages /\ stored' \subseteq Messages /\ asSaid' \subseteq Messages
    BY <1>1, <1>2 DEF MessageInv, MessageTypeOK
  <2> QED
    BY <1>1, <1>3, <2>1, <2>2 DEF MessageInv, MessageTypeOK, ListersAreTyped
<1>5. SaidOnce'
  <2>1. \A n \in stored \cup pending : n.text \in Nat /\ n.text <= said
    BY <1>1 DEF MessageInv, SaidOnce, Messages
  <2>2. \A n \in stored \cup pending : n.text <= said' /\ n.text # m.text
    BY <1>1, <1>2, <2>1
  <2>3. (before + 1)..said' \subseteq Texts(Cached')
    <3>1. \A t \in (before + 1)..said' : t \in (before + 1)..said \/ t = said + 1
      BY <1>1
    <3> QED
      BY <1>3, <3>1 DEF MessageInv, SaidOnce
  <2>4. before' \in 0..said' /\ m.text <= said' /\ m.text > before
    BY <1>1, <1>2
  <2>5. \A n1, n2 \in stored' \cup pending' : n1.text = n2.text => n1 = n2
    <3>1. stored' \cup pending' = (stored \cup pending) \cup {m}
      BY <1>1
    <3> QED
      BY <2>2, <3>1 DEF MessageInv, SaidOnce
  <2>6. stored' \cup pending' \subseteq asSaid' /\ asSaid' \subseteq Messages
    BY <1>1, <1>2 DEF MessageInv, SaidOnce
  <2> QED
    BY <1>1, <2>2, <2>3, <2>4, <2>5, <2>6 DEF MessageInv, SaidOnce
<1>6. NoGap(Texts(Cached))'
  <2>1. ~(said + 1 <= before)
    BY <1>1
  <2> QED
    BY <1>1, <1>3, <2>1 DEF MessageInv, NoGap
<1>7. \A q \in Listers : ListingIsSound(q)'
  <2>1. Cached \subseteq Cached'
    BY <1>3
  <2> QED
    BY <1>1, <2>1, ListingStaysSound
<1> QED
  BY <1>4, <1>5, <1>6, <1>7 DEF MessageInv

LEMMA InsertMessageHolds ==
  ASSUME MessageInv, NEW m \in pending, InsertMessage(m) PROVE MessageInv'
<1>1. /\ pending' = pending \ {m} /\ stored' \in {stored, stored \cup {m}}
      /\ UNCHANGED <<cached, said, lastMsgId, lister, before, asSaid>>
  BY DEF InsertMessage
<1>2. /\ stored \subseteq stored' /\ stored' \cup pending' \subseteq stored \cup pending
      /\ Cached' = Cached /\ m.text > before
      /\ \A n \in stored' : n \in stored \/ n = m
  BY <1>1 DEF Cached, MessageInv, SaidOnce
<1>3. MessageTypeOK' /\ ListersAreTyped'
  BY <1>1, <1>2 DEF MessageInv, MessageTypeOK, ListersAreTyped
<1>4. SaidOnce'
  BY <1>1, <1>2 DEF MessageInv, SaidOnce
<1>5. \A n \in Texts(stored') : n \in Texts(stored) \/ n > before
  BY <1>2 DEF Texts
<1>6. NoGap(Texts(Cached))'
  <2> SUFFICES ASSUME NEW t \in Texts(Cached), t <= before, NEW n \in Texts(stored'), n < t
               PROVE  n \in Texts(Cached)
    BY <1>1, <1>2 DEF NoGap
  <2>1. t \in Nat /\ before \in Nat /\ n \in Nat
    <3>1. Cached \subseteq Messages /\ stored' \subseteq Messages
      BY <1>3 DEF MessageInv, MessageTypeOK, Cached
    <3> QED
      BY <3>1, MessageAssumption DEF MessageInv, MessageTypeOK, SaidOnce, Messages, Texts
  <2>2. n \in Texts(stored)
    BY <1>5, <2>1
  <2> QED
    BY <2>2 DEF MessageInv, NoGap
<1>7. \A q \in Listers : ListingIsSound(q)'
  BY <1>1, <1>2, <1>5, ListingStaysSound
<1> QED
  BY <1>3, <1>4, <1>6, <1>7 DEF MessageInv

\* What the steps of a lister that leave the messages alone have to establish.
LEMMA ListerStepHolds ==
  ASSUME MessageInv, NEW q \in Listers, ListersAreTyped',
         \A p \in Listers \ {q} : lister'[p] = lister[p],
         UNCHANGED <<cached, stored, pending, said, lastMsgId, before, asSaid>>,
         lister'[q].shown \subseteq Cached \cup stored,
         NoGap(Texts(lister'[q].shown)),
         lister'[q].step = "idle" =>
           (before + 1)..lister'[q].since \subseteq Texts(lister'[q].shown),
         lister'[q].step # "idle" => lister'[q].since <= before,
         lister'[q].todo \subseteq lister'[q].shown,
         lister'[q].step = "fill" => lister'[q].todo = lister'[q].shown
  PROVE  MessageInv'
<1>1. Cached' = Cached
  BY DEF Cached
<1>2. MessageTypeOK'
  BY DEF MessageInv, MessageTypeOK, ListersAreTyped
<1>3. SaidOnce' /\ NoGap(Texts(Cached))'
  BY <1>1 DEF MessageInv, SaidOnce, NoGap
<1>4. ListingIsSound(q)'
  BY <1>1 DEF ListingIsSound, NoGap
<1>5. \A p \in Listers \ {q} : ListingIsSound(p)'
  BY <1>1, ListingStaysSound
<1> QED
  BY <1>2, <1>3, <1>4, <1>5 DEF MessageInv

\* A listing that finds the cache empty began before anything was said since the
\* server's start; one that finds something is answered by the cache.
LEMMA ListMessagesHolds ==
  ASSUME MessageInv, NEW q \in Listers, ListMessages(q) PROVE MessageInv'
<1>1. before \in Nat /\ said \in Nat /\ before <= said
  BY MessageAssumption DEF MessageInv, MessageTypeOK, SaidOnce
<1>2. Cached \subseteq Messages
  BY DEF MessageInv, MessageTypeOK, Cached
<1>3. UNCHANGED <<cached, stored, pending, said, lastMsgId, before, asSaid>>
  BY DEF ListMessages
<1>4. CASE cached = <<>>
  <2> DEFINE l == [NoListing EXCEPT !.step = "query", !.since = said]
  <2>1. /\ l \in [step : {"idle", "query", "fill"}, todo : SUBSET Messages,
                  shown : SUBSET Messages, since : Nat]
        /\ l.step = "query" /\ l.since = said /\ l.shown = {} /\ l.todo = {}
    BY <1>1 DEF NoListing
  <2>2. said <= before
    <3>1. Texts(Cached) = {}
      BY <1>4 DEF Cached, Texts
    <3>2. said > before => said \in (before + 1)..said
      BY <1>1
    <3> QED
      BY <1>1, <3>1, <3>2 DEF MessageInv, SaidOnce
  <2>3. /\ ListersAreTyped' /\ \A p \in Listers \ {q} : lister'[p] = lister[p]
        /\ lister'[q].step = "query" /\ lister'[q].since = said
        /\ lister'[q].shown = {} /\ lister'[q].todo = {}
    <3>1. lister' = [lister EXCEPT ![q] = l]
      BY <1>4 DEF ListMessages
    <3> HIDE DEF l
    <3> QED
      BY <2>1, <3>1 DEF MessageInv, ListersAreTyped
  <2>4. NoGap(Texts({}))
    BY DEF NoGap, Texts
  <2> QED
    BY <1>3, <2>2, <2>3, <2>4, ListerStepHolds
<1>5. CASE cached # <<>>
  <2> DEFINE l == [NoListing EXCEPT !.shown = Cached, !.since = said]
  <2>1. /\ l \in [step : {"idle", "query", "fill"}, todo : SUBSET Messages,
                  shown : SUBSET Messages, since : Nat]
        /\ l.step = "idle" /\ l.since = said /\ l.shown = Cached /\ l.todo = {}
    BY <1>1, <1>2 DEF NoListing
  <2>2. /\ ListersAreTyped' /\ \A p \in Listers \ {q} : lister'[p] = lister[p]
        /\ lister'[q].step = "idle" /\ lister'[q].since = said
        /\ lister'[q].shown = Cached /\ lister'[q].todo = {}
    <3>1. lister' = [lister EXCEPT ![q] = l]
      BY <1>5 DEF ListMessages
    <3> HIDE DEF l
    <3> QED
      BY <2>1, <3>1 DEF MessageInv, ListersAreTyped
  <2>3. NoGap(Texts(Cached)) /\ (before + 1)..said \subseteq Texts(Cached)
    BY DEF MessageInv, SaidOnce
  <2> QED
    BY <1>3, <2>2, <2>3, ListerStepHolds
<1> QED
  BY <1>4, <1>5

LEMMA QueryMessagesHolds ==
  ASSUME MessageInv, NEW q \in Listers, QueryMessages(q) PROVE MessageInv'
<1>1. before \in Nat /\ said \in Nat /\ stored \subseteq Messages
  BY MessageAssumption DEF MessageInv, MessageTypeOK, SaidOnce
<1>2. lister[q].step = "query" /\ lister[q].since \in Nat /\ lister[q].since <= before
  BY DEF QueryMessages, MessageInv, ListersAreTyped, ListingIsSound
<1>3. PICK last \in 0..said :
        LET found == {m \in stored : m.text <= last} IN
        lister' = [lister EXCEPT ![q].todo = found, ![q].shown = found,
                                 ![q].step = IF found = {} THEN "idle" ELSE "fill"]
  BY DEF QueryMessages
<1> DEFINE found == {m \in stored : m.text <= last}
           step == IF found = {} THEN "idle" ELSE "fill"
<1>4. lister' = [lister EXCEPT ![q].todo = found, ![q].shown = found, ![q].step = step]
  BY <1>3
<1>5. /\ found \in SUBSET Messages /\ found \subseteq stored
      /\ step \in {"idle", "fill"} /\ step \in {"idle", "query", "fill"}
  BY <1>1
<1>6. NoGap(Texts(found))
  <2> SUFFICES ASSUME NEW m \in found, NEW n \in stored, n.text < m.text
               PROVE  n \in found
    BY DEF NoGap, Texts
  <2>1. n.text \in Nat /\ m.text \in Nat /\ m.text <= last /\ last \in Nat
    BY <1>1 DEF Messages
  <2> QED
    BY <2>1
<1> HIDE DEF found, step
<1>7. /\ ListersAreTyped' /\ \A p \in Listers \ {q} : lister'[p] = lister[p]
      /\ lister'[q].todo = found /\ lister'[q].shown = found /\ lister'[q].step = step
      /\ lister'[q].since = lister[q].since
  BY <1>4, <1>5 DEF MessageInv, ListersAreTyped
<1>8. (before + 1)..lister'[q].since = {} /\ lister'[q].since <= before
  BY <1>1, <1>2, <1>7
<1>9. UNCHANGED <<cached, stored, pending, said, lastMsgId, before, asSaid>>
  BY DEF QueryMessages
<1> QED
  BY <1>5, <1>6, <1>7, <1>8, <1>9, ListerStepHolds

LEMMA QueryMessagesFailsHolds ==
  ASSUME MessageInv, NEW q \in Listers, QueryMessagesFails(q) PROVE MessageInv'
<1>1. before \in Nat
  BY MessageAssumption DEF MessageInv, MessageTypeOK, SaidOnce
<1>2. /\ lister' = [lister EXCEPT ![q] = NoListing]
      /\ UNCHANGED <<cached, stored, pending, said, lastMsgId, before, asSaid>>
  BY DEF QueryMessagesFails
<1>3. /\ ListersAreTyped' /\ \A p \in Listers \ {q} : lister'[p] = lister[p]
      /\ lister'[q].step = "idle" /\ lister'[q].since = 0
      /\ lister'[q].shown = {} /\ lister'[q].todo = {}
  BY <1>2 DEF MessageInv, ListersAreTyped, NoListing
<1>4. NoGap(Texts({})) /\ (before + 1)..0 = {}
  BY <1>1 DEF NoGap, Texts
<1> QED
  BY <1>2, <1>3, <1>4, ListerStepHolds

\* The rows go into the cache oldest first, so that it never has a gap.
LEMMA FillMessageHolds ==
  ASSUME MessageInv, NEW q \in Listers, FillMessage(q) PROVE MessageInv'
<1> DEFINE todo == lister[q].todo
           shown == lister[q].shown
<1>1. PICK row \in todo :
        /\ \A other \in todo : row.text <= other.text
        /\ cached' = Append(cached, Message(lastMsgId + 1, row.text))
        /\ pending' = pending
        /\ lister' = [lister EXCEPT ![q].todo = todo \ {row},
                                    ![q].step = IF todo = {row} THEN "idle" ELSE "fill"]
  BY DEF FillMessage, Refilled, Saved
<1>2. /\ lister[q].step = "fill" /\ lastMsgId < MaxMsgId /\ lastMsgId' = lastMsgId + 1
      /\ UNCHANGED <<stored, said, before, asSaid>>
  BY DEF FillMessage
<1>3. /\ before \in Nat /\ said \in Nat /\ stored \subseteq Messages /\ lastMsgId \in 0..MaxMsgId
      /\ cached \in Seq(Messages) /\ MaxMsgId \in Nat
      /\ todo \subseteq Messages /\ shown \subseteq Messages
      /\ lister[q].since \in Nat /\ lister[q].since <= before
  BY <1>2, MessageAssumption
     DEF MessageInv, MessageTypeOK, SaidOnce, ListersAreTyped, ListingIsSound
<1>4. /\ shown \subseteq Cached \cup stored /\ NoGap(Texts(shown)) /\ todo \subseteq shown
      /\ \A m \in shown \ todo : m.text \in Texts(Cached)
  BY <1>2 DEF MessageInv, ListingIsSound
<1> DEFINE m == Message(lastMsgId + 1, row.text)
           step == IF todo = {row} THEN "idle" ELSE "fill"
<1>5. m \in Messages /\ m.text = row.text /\ row.text \in Nat
  BY <1>1, <1>2, <1>3 DEF Message, Messages
<1>6. /\ cached' \in Seq(Messages) /\ Cached' = Cached \cup {m}
      /\ Texts(Cached') = Texts(Cached) \cup {row.text}
  BY <1>1, <1>3, <1>5, CachedGrows
<1>7. todo \ {row} \in SUBSET Messages /\ step \in {"idle", "fill"}
  BY <1>3
<1>8. lister' = [lister EXCEPT ![q].todo = todo \ {row}, ![q].step = step]
  BY <1>1
<1> HIDE DEF m, step
<1>9. /\ ListersAreTyped' /\ \A p \in Listers \ {q} : lister'[p] = lister[p]
      /\ lister'[q].todo = todo \ {row} /\ lister'[q].shown = shown /\ lister'[q].step = step
      /\ lister'[q].since = lister[q].since
  BY <1>3, <1>7, <1>8 DEF MessageInv, ListersAreTyped
<1>10. MessageTypeOK'
  <2>1. lastMsgId' \in 0..MaxMsgId
    BY <1>2, <1>3
  <2> QED
    BY <1>1, <1>2, <1>6, <1>9, <2>1 DEF MessageInv, MessageTypeOK, ListersAreTyped
<1>11. SaidOnce'
  BY <1>1, <1>2, <1>6 DEF MessageInv, SaidOnce
<1>12. NoGap(Texts(Cached))'
  <2> SUFFICES ASSUME NEW n \in stored, row.text <= before, n.text < row.text
               PROVE  n.text \in Texts(Cached)
    <3>1. \A n \in stored, t \in Texts(Cached) :
            t <= before /\ n.text < t => n.text \in Texts(Cached)
      BY DEF MessageInv, NoGap, Texts
    <3>2. \A n \in Texts(stored) : \E k \in stored : n = k.text
      BY DEF Texts
    <3> QED
      BY <1>2, <1>6, <3>1, <3>2 DEF NoGap
  <2>1. n.text \in Texts(shown)
    BY <1>1, <1>4 DEF NoGap, Texts
  <2>2. PICK k \in shown : k.text = n.text
    BY <2>1 DEF Texts
  <2>3. k \notin todo
    <3>1. k.text \in Nat
      BY <1>3 DEF Messages
    <3> QED
      BY <1>1, <1>5, <2>2, <3>1
  <2> QED
    BY <1>4, <2>2, <2>3
<1>13. ListingIsSound(q)'
  <2>1. (before + 1)..lister[q].since = {}
    BY <1>3
  <2>2. \A k \in shown \ (todo \ {row}) : k.text \in Texts(Cached')
    BY <1>4, <1>6
  <2>3. NoGap(Texts(lister[q].shown))'
    BY <1>2, <1>4, <1>9 DEF NoGap
  <2> QED
    BY <1>2, <1>3, <1>4, <1>6, <1>9, <2>1, <2>2, <2>3 DEF ListingIsSound
<1>14. \A p \in Listers \ {q} : ListingIsSound(p)'
  BY <1>2, <1>6, <1>9, ListingStaysSound
<1> QED
  BY <1>9, <1>10, <1>11, <1>12, <1>13, <1>14 DEF MessageInv

LEMMA RebootMessagesHolds == MessageInv /\ RebootMessages => MessageInv'
<1> SUFFICES ASSUME MessageInv, RebootMessages PROVE MessageInv'
  OBVIOUS
<1>1. /\ cached' = <<>> /\ pending' = {} /\ lister' = [q \in Listers |-> NoListing]
      /\ before' = said /\ UNCHANGED <<stored, said, lastMsgId, asSaid>>
  BY DEF RebootMessages
<1>2. said \in Nat /\ said' \in 0..said' /\ Cached' = {} /\ Texts({}) = {}
  BY <1>1, MessageAssumption DEF MessageInv, MessageTypeOK, Cached, Texts
<1>3. MessageTypeOK' /\ ListersAreTyped'
  BY <1>1 DEF MessageInv, MessageTypeOK, ListersAreTyped, NoListing
<1>4. (said + 1)..said = {} /\ (said + 1)..0 = {}
  BY <1>2
<1>5. SaidOnce' /\ NoGap(Texts(Cached))'
  BY <1>1, <1>2, <1>4 DEF MessageInv, SaidOnce, NoGap
<1>6. \A q \in Listers : ListingIsSound(q)'
  BY <1>1, <1>2, <1>4 DEF ListingIsSound, NoListing, NoGap
<1> QED
  BY <1>3, <1>5, <1>6 DEF MessageInv

LEMMA MessageNextHolds == MessageInv /\ [MessageNext]_messageVars => MessageInv'
<1> SUFFICES ASSUME MessageInv, [MessageNext]_messageVars PROVE MessageInv'
  OBVIOUS
<1>1. CASE AddMessage
  BY <1>1, AddMessageHolds
<1>2. ASSUME NEW m \in pending, InsertMessage(m) PROVE MessageInv'
  BY <1>2, InsertMessageHolds
<1>3. ASSUME NEW q \in Listers, ListMessages(q) PROVE MessageInv'
  BY <1>3, ListMessagesHolds
<1>4. ASSUME NEW q \in Listers, QueryMessages(q) PROVE MessageInv'
  BY <1>4, QueryMessagesHolds
<1>5. ASSUME NEW q \in Listers, QueryMessagesFails(q) PROVE MessageInv'
  BY <1>5, QueryMessagesFailsHolds
<1>6. ASSUME NEW q \in Listers, FillMessage(q) PROVE MessageInv'
  BY <1>6, FillMessageHolds
<1>7. CASE RebootMessages
  BY <1>7, RebootMessagesHolds
<1>8. CASE UNCHANGED messageVars
  <2>1. /\ UNCHANGED <<cached, stored, pending, said, lastMsgId, lister, before, asSaid>>
        /\ Cached' = Cached
    BY <1>8 DEF messageVars, Cached
  <2>2. MessageTypeOK' /\ ListersAreTyped'
    BY <2>1 DEF MessageInv, MessageTypeOK, ListersAreTyped
  <2>3. SaidOnce' /\ NoGap(Texts(Cached))'
    BY <2>1 DEF MessageInv, SaidOnce, NoGap
  <2>4. \A q \in Listers : ListingIsSound(q)'
    BY <2>1 DEF MessageInv, ListingIsSound, NoGap
  <2> QED
    BY <2>2, <2>3, <2>4 DEF MessageInv
<1> QED
  BY <1>1, <1>2, <1>3, <1>4, <1>5, <1>6, <1>7, <1>8 DEF MessageNext

\* Whatever is said, saved, lost in a restart and loaded back at the same time, a
\* listing has no gap before a message that it shows (AddMessage, ListBySession and
\* loadFromDB of pg_message_store.go).
THEOREM ListingsAreWhole == MessageSpec => []ListingsHaveNoGaps
<1> QED
  BY MessageInitHolds, MessageNextHolds, MessageInvSuffices, PTL DEF MessageSpec

\* The table has each message once, as it was said, and what is listed can be looked up (AddMessage,
\* saveToDB, ListBySession and GetByID of pg_message_store.go).
THEOREM MessagesAreStoredOnce == MessageSpec => [](MessageTypeOK /\ TableIsTruthful)
<1> QED
  BY MessageInitHolds, MessageNextHolds, MessageInvSuffices, PTL DEF MessageSpec

-----------------------------------------------------------------------------
(* The minutes: choosing some entries of a sequence.                       *)

LEMMA SequenceFacts ==
  ASSUME NEW S, NEW s \in Seq(S)
  PROVE  /\ Len(s) \in Nat /\ DOMAIN s = 1..Len(s) /\ \A i \in 1..Len(s) : s[i] \in S
         /\ (s = <<>> <=> Len(s) = 0)
OBVIOUS

\* Every number in P has a place among them, and later places have greater numbers.
LEMMA NthGoesThrough ==
  ASSUME NEW P \in SUBSET Nat, IsFiniteSet(P)
  PROVE  /\ Cardinality(P) \in Nat
         /\ \A k \in 1..Cardinality(P) : Nth(P, k) \in P
         /\ \A k, h \in 1..Cardinality(P) : k < h => Nth(P, k) < Nth(P, h)
         /\ \A i \in P : \E k \in 1..Cardinality(P) : Nth(P, k) = i
         /\ \A k \in 1..Cardinality(P) : Cardinality({j \in P : j <= Nth(P, k)}) = k
<1>1. PICK n \in Nat : n = Cardinality(P)
  BY FS_CardinalityType
<1> DEFINE UpTo(i) == {j \in P : j <= i}
           rank == [i \in P |-> Cardinality(UpTo(i))]
<1>2. \A i \in P : IsFiniteSet(UpTo(i)) /\ Cardinality(UpTo(i)) \in Nat
  <2> SUFFICES ASSUME NEW i \in P PROVE IsFiniteSet(UpTo(i))
    BY FS_CardinalityType
  <2>1. UpTo(i) \in SUBSET P
    OBVIOUS
  <2> QED
    BY <2>1, FS_Subset
<1>3. ASSUME NEW i \in P PROVE rank[i] \in 1..n
  <2>1. PICK U : U = UpTo(i)
    OBVIOUS
  <2>2. U \in SUBSET P /\ i \in U /\ IsFiniteSet(U) /\ Cardinality(U) \in Nat
    BY <1>2, <2>1
  <2>3. Cardinality(U) <= n
    BY <1>1, <2>2, FS_Subset
  <2>4. Cardinality(U) # 0
    BY <2>2, FS_EmptySet
  <2>5. rank[i] = Cardinality(U)
    BY <2>1
  <2> QED
    BY <2>2, <2>3, <2>4, <2>5
<1>4. ASSUME NEW i \in P, NEW j \in P, i < j PROVE rank[i] < rank[j]
  <2>1. PICK U, V : U = UpTo(i) /\ V = UpTo(j)
    OBVIOUS
  <2>2. U \in SUBSET V
    <3> SUFFICES ASSUME NEW l \in P, l <= i PROVE l <= j
      BY <2>1
    <3> QED
      BY <1>4
  <2>3. U # V
    <3>1. j \in V /\ j \notin U
      BY <1>4, <2>1
    <3> QED
      BY <3>1
  <2>4. IsFiniteSet(V) /\ Cardinality(U) \in Nat /\ Cardinality(V) \in Nat
    BY <1>2, <2>1
  <2>5. Cardinality(U) <= Cardinality(V) /\ Cardinality(U) # Cardinality(V)
    BY <2>2, <2>3, <2>4, FS_Subset
  <2>6. rank[i] = Cardinality(U) /\ rank[j] = Cardinality(V)
    BY <2>1
  <2> QED
    BY <2>4, <2>5, <2>6
<1>5. \A k : Nth(P, k) = CHOOSE i \in P : rank[i] = k
  BY DEF Nth
<1>6. rank \in [P -> 1..n]
  <2>1. \A i \in P : rank[i] \in 1..n
    BY <1>3
  <2>2. rank = [i \in P |-> rank[i]]
    OBVIOUS
  <2> HIDE DEF rank
  <2> QED
    BY <2>1, <2>2
<1>13. \A i \in P : rank[i] = Cardinality({j \in P : j <= i})
  OBVIOUS
<1> HIDE DEF rank, UpTo
<1>7. \A i \in P, j \in P : rank[i] = rank[j] => i = j
  <2> SUFFICES ASSUME NEW i \in P, NEW j \in P, i # j PROVE rank[i] # rank[j]
    OBVIOUS
  <2>1. i < j \/ j < i
    OBVIOUS
  <2>2. rank[i] < rank[j] \/ rank[j] < rank[i]
    BY <1>4, <2>1
  <2>3. rank[i] \in Nat /\ rank[j] \in Nat
    BY <1>3
  <2> QED
    BY <2>2, <2>3
<1>8. rank \in Surjection(P, 1..n)
  <2>1. rank \in Injection(P, 1..n)
    BY <1>6, <1>7 DEF Injection, IsInjective
  <2>2. IsFiniteSet(1..n) /\ Cardinality(1..n) = n
    <3>1. 0 \in Int /\ 1 \in Int /\ n \in Int
      OBVIOUS
    <3>2. IsFiniteSet(1..n) /\ Cardinality(1..n) = IF 1 > n THEN 0 ELSE n - 1 + 1
      BY <3>1, FS_Interval
    <3> QED
      BY <3>2
  <2> QED
    BY <1>1, <2>1, <2>2, FS_Injection
<1>9. ASSUME NEW k \in 1..n PROVE Nth(P, k) \in P /\ rank[Nth(P, k)] = k
  <2>1. \E i \in P : rank[i] = k
    BY <1>8 DEF Surjection
  <2> QED
    BY <1>5, <2>1
<1>10. ASSUME NEW k \in 1..n, NEW h \in 1..n, k < h PROVE Nth(P, k) < Nth(P, h)
  <2>1. PICK i \in P, j \in P : i = Nth(P, k) /\ j = Nth(P, h) /\ rank[i] = k /\ rank[j] = h
    BY <1>9
  <2>2. ~(j < i) /\ i # j
    <3>1. j < i => h < k
      BY <1>4, <2>1
    <3> QED
      BY <1>10, <2>1, <3>1
  <2> QED
    BY <2>1, <2>2
<1>11. ASSUME NEW i \in P PROVE \E k \in 1..n : Nth(P, k) = i
  <2>1. PICK k \in 1..n : k = rank[i]
    BY <1>3
  <2>2. Nth(P, k) = i
    BY <1>7, <1>9, <2>1
  <2> QED
    BY <2>2
<1>12. \A k \in 1..n : Cardinality({j \in P : j <= Nth(P, k)}) = k
  BY <1>9, <1>13
<1> QED
  BY <1>1, <1>9, <1>10, <1>11, <1>12

\* The entries at P, each for one of its places, in order.
LEMMA AtIsInOrder ==
  ASSUME NEW S, NEW s \in Seq(S), NEW P \in SUBSET (DOMAIN s), NEW t, t = At(s, P)
  PROVE  /\ t \in Seq(S) /\ IsFiniteSet(P) /\ Len(t) = Cardinality(P) /\ Len(t) \in Nat
         /\ DOMAIN t = 1..Len(t)
         /\ \A k \in DOMAIN t : Nth(P, k) \in P /\ t[k] = s[Nth(P, k)]
         /\ \A k, h \in DOMAIN t : k < h => Nth(P, k) < Nth(P, h)
         /\ \A i \in P : \E k \in DOMAIN t : Nth(P, k) = i
         /\ \A k \in DOMAIN t : Cardinality({j \in P : j <= Nth(P, k)}) = k
<1>1. PICK m \in Nat : m = Len(s)
  BY SequenceFacts
<1>2. DOMAIN s = 1..m /\ P \in SUBSET Nat /\ IsFiniteSet(P)
  <2>1. DOMAIN s = 1..m
    BY <1>1, SequenceFacts
  <2>2. 1 \in Int /\ m \in Int
    OBVIOUS
  <2>3. IsFiniteSet(1..m)
    BY <2>2, FS_Interval
  <2>4. IsFiniteSet(P)
    BY <2>1, <2>3, FS_Subset
  <2> QED
    BY <2>1, <2>4
<1>3. PICK n \in Nat : n = Cardinality(P)
  BY <1>2, FS_CardinalityType
<1>4. /\ \A k \in 1..n : Nth(P, k) \in P
      /\ \A k, h \in 1..n : k < h => Nth(P, k) < Nth(P, h)
      /\ \A i \in P : \E k \in 1..n : Nth(P, k) = i
      /\ \A k \in 1..n : Cardinality({j \in P : j <= Nth(P, k)}) = k
  BY <1>2, <1>3, NthGoesThrough
<1>5. t = [k \in 1..n |-> s[Nth(P, k)]]
  BY <1>3 DEF At
<1>6. \A k \in 1..n : s[Nth(P, k)] \in S
  BY <1>1, <1>2, <1>4, SequenceFacts
<1>7. t \in Seq(S) /\ Len(t) = n /\ DOMAIN t = 1..n
  BY <1>5, <1>6
<1> QED
  BY <1>2, <1>3, <1>4, <1>5, <1>7

LEMMA LeastExists ==
  ASSUME NEW I \in SUBSET Nat, I # {}
  PROVE  \E i \in I : \A j \in I : i <= j
<1>1. IsWellFoundedOn(OpToRel(<, Nat), Nat)
  BY NatLessThanWellFounded
<1>2. PICK i \in I : \A j \in I : ~(<<j, i>> \in OpToRel(<, Nat))
  BY <1>1, WFMin
<1>3. \A j \in I : ~(j < i)
  BY <1>2 DEF OpToRel
<1> QED
  BY <1>3

-----------------------------------------------------------------------------
(* Merging the lists of two sessions.                                      *)

\* keys gives the entries' keys; the list u of the original session and the list w of the
\* new one are merged to t.
Merged(t, u, w, keys) ==
  /\ {keys[t[i]] : i \in DOMAIN t} =
       {keys[u[i]] : i \in DOMAIN u} \cup {keys[w[i]] : i \in DOMAIN w}
  /\ \A i, j \in DOMAIN t : keys[t[i]] = keys[t[j]] => i = j
  /\ \A i \in DOMAIN t :
       keys[t[i]] \in {keys[u[j]] : j \in DOMAIN u} => t[i].talk = "original"

\* Of the numbers up to M, P has the first one of each key.
LEMMA FirstsOfKeys ==
  ASSUME NEW M \in Nat, NEW key, NEW P,
         P = {i \in 1..M : \A j \in 1..(i - 1) : key[j] # key[i]}
  PROVE  /\ P \subseteq 1..M
         /\ \A i \in 1..M : \E j \in P : key[j] = key[i]
         /\ \A i, j \in P : key[i] = key[j] => i = j
         /\ \A i \in P, j \in 1..M : key[j] = key[i] => i <= j
<1>1. ASSUME NEW i \in 1..M PROVE \E j \in P : key[j] = key[i]
  <2>1. PICK I : I = {j \in 1..M : key[j] = key[i]}
    OBVIOUS
  <2>2. I \in SUBSET Nat /\ i \in I
    BY <2>1
  <2>3. PICK j \in I : \A h \in I : j <= h
    BY <2>2, LeastExists
  <2>4. j \in 1..M /\ key[j] = key[i]
    BY <2>1, <2>3
  <2>5. ASSUME NEW h \in 1..(j - 1) PROVE key[h] # key[j]
    <3>1. h \in 1..M /\ ~(j <= h)
      BY <2>4
    <3> QED
      BY <2>1, <2>3, <2>4, <3>1
  <2>6. j \in P
    BY <2>4, <2>5
  <2> QED
    BY <2>4, <2>6
<1>2. ASSUME NEW i \in P, NEW j \in 1..M, key[j] = key[i] PROVE i <= j
  <2> SUFFICES ASSUME ~(i <= j) PROVE FALSE
    OBVIOUS
  <2>1. j \in 1..(i - 1)
    OBVIOUS
  <2> QED
    BY <1>2, <2>1
<1>3. ASSUME NEW i \in P, NEW j \in P, key[i] = key[j] PROVE i = j
  <2>1. i \in 1..M /\ j \in 1..M
    OBVIOUS
  <2>2. i <= j /\ j <= i
    BY <1>2, <1>3, <2>1
  <2> QED
    BY <2>1, <2>2
<1> QED
  BY <1>1, <1>2, <1>3

\* s is u followed by w, m and n long.
Follows(s, u, w, m, n) ==
  /\ DOMAIN s = 1..m + n /\ DOMAIN u = 1..m /\ DOMAIN w = 1..n
  /\ \A i \in 1..m : i \in 1..m + n /\ s[i] = u[i]
  /\ \A i \in 1..n : i + m \in 1..m + n /\ s[i + m] = w[i]
  /\ \A i \in 1..m + n : i \in 1..m \/ (i - m \in 1..n /\ s[i] = w[i - m])

\* t has the entries of s at the places in P, in their order; at[k] is the k-th place.
Picks(t, s, P, at) ==
  /\ DOMAIN t \subseteq Nat
  /\ \A k \in DOMAIN t : at[k] \in P /\ t[k] = s[at[k]]
  /\ \A k, h \in DOMAIN t : k < h => at[k] < at[h]
  /\ \A i \in P : \E k \in DOMAIN t : at[k] = i

LEMMA FirstsMerge ==
  ASSUME NEW m \in Nat, NEW n \in Nat, NEW u, NEW w, NEW s, NEW t, NEW P, NEW at,
         NEW keys, NEW key,
         Follows(s, u, w, m, n), Picks(t, s, P, at),
         \A i \in 1..m : u[i].talk = "original",
         \A i \in 1..m + n : key[i] = keys[s[i]],
         P = {i \in 1..m + n : \A j \in 1..(i - 1) : key[j] # key[i]}
  PROVE  Merged(t, u, w, keys)
<1>1. PICK M \in Nat : M = m + n
  OBVIOUS
<1>2. /\ P \subseteq 1..M
      /\ \A i \in 1..M : \E j \in P : key[j] = key[i]
      /\ \A i, j \in P : key[i] = key[j] => i = j
      /\ \A i \in P, j \in 1..M : key[j] = key[i] => i <= j
  <2>1. P = {i \in 1..M : \A j \in 1..(i - 1) : key[j] # key[i]}
    BY <1>1
  <2> QED
    BY <2>1, FirstsOfKeys
<1>3. /\ DOMAIN u = 1..m /\ DOMAIN w = 1..n
      /\ \A i \in 1..m : i \in 1..M /\ s[i] = u[i]
      /\ \A i \in 1..n : i + m \in 1..M /\ s[i + m] = w[i]
      /\ \A i \in 1..M : i \in 1..m \/ (i - m \in 1..n /\ s[i] = w[i - m])
  BY <1>1 DEF Follows
<1>4. /\ DOMAIN t \subseteq Nat
      /\ \A k \in DOMAIN t : at[k] \in P /\ t[k] = s[at[k]]
      /\ \A k, h \in DOMAIN t : k < h => at[k] < at[h]
      /\ \A i \in P : \E k \in DOMAIN t : at[k] = i
  BY DEF Picks
<1>5. \A i \in 1..M : key[i] = keys[s[i]]
  BY <1>1
<1>6. \A i \in 1..m : u[i].talk = "original"
  OBVIOUS
<1>7. \A k \in DOMAIN t : at[k] \in 1..M /\ keys[t[k]] = key[at[k]]
  BY <1>2, <1>4, <1>5
<1>8. ASSUME NEW k \in DOMAIN t
      PROVE  \/ \E i \in DOMAIN u : keys[t[k]] = keys[u[i]]
             \/ \E i \in DOMAIN w : keys[t[k]] = keys[w[i]]
  <2>1. PICK i \in 1..M : t[k] = s[i]
    BY <1>4, <1>7
  <2>2. CASE i \in 1..m
    BY <1>3, <2>1, <2>2
  <2>3. CASE i - m \in 1..n /\ s[i] = w[i - m]
    BY <1>3, <2>1, <2>3
  <2> QED
    BY <1>3, <2>2, <2>3
<1>9. ASSUME NEW i \in 1..M PROVE \E k \in DOMAIN t : keys[t[k]] = keys[s[i]]
  <2>1. PICK j \in P : key[j] = key[i]
    BY <1>2
  <2>2. PICK k \in DOMAIN t : at[k] = j
    BY <1>4
  <2>3. keys[t[k]] = key[i]
    BY <1>7, <2>1, <2>2
  <2> QED
    BY <1>5, <2>3
<1>10. ASSUME NEW i \in DOMAIN u PROVE \E k \in DOMAIN t : keys[t[k]] = keys[u[i]]
  <2>1. i \in 1..M /\ s[i] = u[i]
    BY <1>3
  <2> QED
    BY <1>9, <2>1
<1>11. ASSUME NEW i \in DOMAIN w PROVE \E k \in DOMAIN t : keys[t[k]] = keys[w[i]]
  <2>1. i + m \in 1..M /\ s[i + m] = w[i]
    BY <1>3
  <2> QED
    BY <1>9, <2>1
<1>12. ASSUME NEW k \in DOMAIN t, NEW h \in DOMAIN t, keys[t[k]] = keys[t[h]] PROVE k = h
  <2>1. at[k] = at[h]
    BY <1>2, <1>4, <1>7, <1>12
  <2>2. at[k] \in Nat
    BY <1>7
  <2>3. ~(k < h) /\ ~(h < k)
    BY <1>4, <2>1, <2>2
  <2>4. k \in Nat /\ h \in Nat
    BY <1>4
  <2> QED
    BY <2>3, <2>4
<1>13. ASSUME NEW k \in DOMAIN t, NEW j \in DOMAIN u, keys[t[k]] = keys[u[j]]
       PROVE  t[k].talk = "original"
  <2>1. PICK i \in P : i = at[k] /\ t[k] = s[i] /\ keys[t[k]] = key[i] /\ i \in 1..M
    BY <1>4, <1>7
  <2>2. j \in 1..m /\ j \in 1..M
    BY <1>3
  <2>3. key[j] = key[i]
    BY <1>3, <1>5, <1>13, <2>1, <2>2
  <2>4. i <= j
    BY <1>2, <2>2, <2>3
  <2>5. i \in 1..m
    BY <2>1, <2>2, <2>4
  <2> QED
    BY <1>3, <1>6, <2>1, <2>5
<1>14. {keys[t[k]] : k \in DOMAIN t} =
         {keys[u[i]] : i \in DOMAIN u} \cup {keys[w[i]] : i \in DOMAIN w}
  <2> DEFINE T == {keys[t[k]] : k \in DOMAIN t}
             U == {keys[u[i]] : i \in DOMAIN u}
             W == {keys[w[i]] : i \in DOMAIN w}
  <2>1. ASSUME NEW x \in T PROVE x \in U \cup W
    <3>1. PICK k \in DOMAIN t : x = keys[t[k]]
      OBVIOUS
    <3> QED
      BY <1>8, <3>1
  <2>2. ASSUME NEW x \in U PROVE x \in T
    <3>1. PICK i \in DOMAIN u : x = keys[u[i]]
      OBVIOUS
    <3> QED
      BY <1>10, <3>1
  <2>3. ASSUME NEW x \in W PROVE x \in T
    <3>1. PICK i \in DOMAIN w : x = keys[w[i]]
      OBVIOUS
    <3> QED
      BY <1>11, <3>1
  <2> HIDE DEF T, U, W
  <2>4. T = U \cup W
    BY <2>1, <2>2, <2>3
  <2> QED
    BY <2>4 DEF T, U, W
<1>15. \A k \in DOMAIN t :
         keys[t[k]] \in {keys[u[j]] : j \in DOMAIN u} => t[k].talk = "original"
  BY <1>13, Zenon
<1> QED
  BY <1>12, <1>14, <1>15, Zenon DEF Merged

LEMMA FollowsWhenJoined ==
  ASSUME NEW S, NEW u \in Seq(S), NEW w \in Seq(S)
  PROVE  u \o w \in Seq(S) /\ Follows(u \o w, u, w, Len(u), Len(w))
<1>1. PICK m \in Nat, n \in Nat : m = Len(u) /\ n = Len(w)
  BY SequenceFacts
<1>2. DOMAIN u = 1..m /\ DOMAIN w = 1..n
  BY <1>1, SequenceFacts
<1>3. PICK s : s = u \o w
  OBVIOUS
<1>4. /\ s \in Seq(S) /\ DOMAIN s = 1..m + n
      /\ \A i \in 1..m + n : s[i] = IF i <= m THEN u[i] ELSE w[i - m]
  BY <1>1, <1>3
<1>5. /\ \A i \in 1..m : i \in 1..m + n /\ s[i] = u[i]
      /\ \A i \in 1..m + n : i \in 1..m \/ (i - m \in 1..n /\ s[i] = w[i - m])
  BY <1>4
<1>6. ASSUME NEW i \in 1..n PROVE i + m \in 1..m + n /\ s[i + m] = w[i]
  <2>1. i + m \in 1..m + n /\ ~(i + m <= m) /\ (i + m) - m = i
    OBVIOUS
  <2> QED
    BY <1>4, <2>1
<1> QED
  BY <1>1, <1>2, <1>3, <1>4, <1>5, <1>6 DEF Follows

LEMMA FirstOfEachMerges ==
  ASSUME NEW S, NEW u \in Seq(S), NEW w \in Seq(S), NEW keys, NEW key,
         \A i \in DOMAIN u : u[i].talk = "original",
         \A i \in DOMAIN (u \o w) : key[i] = keys[(u \o w)[i]]
  PROVE  /\ FirstOfEach(u \o w, key) \in Seq(S)
         /\ Merged(FirstOfEach(u \o w, key), u, w, keys)
<1>1. PICK m \in Nat, n \in Nat : m = Len(u) /\ n = Len(w)
  BY SequenceFacts
<1>2. PICK s : s = u \o w
  OBVIOUS
<1>3. s \in Seq(S) /\ Follows(s, u, w, m, n)
  BY <1>1, <1>2, FollowsWhenJoined
<1>4. /\ \A i \in 1..m : u[i].talk = "original"
      /\ \A i \in 1..m + n : key[i] = keys[s[i]]
      /\ DOMAIN s = 1..m + n
  BY <1>2, <1>3 DEF Follows
<1>5. PICK P : P = {i \in 1..m + n : \A j \in 1..(i - 1) : key[j] # key[i]}
  OBVIOUS
<1>6. PICK t : t = FirstOfEach(s, key)
  OBVIOUS
<1>7. t = At(s, P) /\ P \in SUBSET (DOMAIN s)
  BY <1>4, <1>5, <1>6 DEF FirstOfEach
<1>8. /\ t \in Seq(S) /\ DOMAIN t = 1..Len(t)
      /\ \A k \in DOMAIN t : Nth(P, k) \in P /\ t[k] = s[Nth(P, k)]
      /\ \A k, h \in DOMAIN t : k < h => Nth(P, k) < Nth(P, h)
      /\ \A i \in P : \E k \in DOMAIN t : Nth(P, k) = i
  BY <1>3, <1>7, AtIsInOrder
<1>9. PICK at : at = [k \in DOMAIN t |-> Nth(P, k)]
  OBVIOUS
<1>10. \A k \in DOMAIN t : at[k] = Nth(P, k)
  BY <1>9
<1>11. DOMAIN t \subseteq Nat
  BY <1>8
<1>12. Picks(t, s, P, at)
  BY <1>8, <1>10, <1>11 DEF Picks
<1>13. Merged(t, u, w, keys)
  BY <1>3, <1>4, <1>5, <1>12, FirstsMerge
<1> QED
  BY <1>2, <1>6, <1>8, <1>13

-----------------------------------------------------------------------------
(* What is kept of messages and materials.                                 *)

Speeches == [talk : Talks, n : 1..MaxSpeeches, round : Nat, decisive : BOOLEAN]

Files == [talk : Talks, n : 1..MaxFiles, name : FileNames]

\* The messages of a session, numbered as they come.
SaidInOrder(s, t) ==
  /\ s \in Seq(Speeches)
  /\ \A i \in DOMAIN s : s[i].talk = t /\ s[i].n = i

BelongsTo(s, t) == s \in Seq(Files) /\ \A i \in DOMAIN s : s[i].talk = t

MinutesInv ==
  /\ DOMAIN speeches = Talks /\ speeches = [t \in Talks |-> speeches[t]]
  /\ DOMAIN files = Talks /\ files = [t \in Talks |-> files[t]]
  /\ \A t \in Talks : SaidInOrder(speeches[t], t) /\ BelongsTo(files[t], t)

LEMMA OneMore ==
  ASSUME NEW S, NEW s \in Seq(S), NEW e \in S
  PROVE  /\ Append(s, e) \in Seq(S)
         /\ DOMAIN Append(s, e) = 1..(Len(s) + 1)
         /\ Append(s, e)[Len(s) + 1] = e
         /\ \A i \in 1..Len(s) : Append(s, e)[i] = s[i]
         /\ DOMAIN s = 1..Len(s) /\ Len(s) \in Nat
OBVIOUS

LEMMA MinutesInitHolds == MinutesInit => MinutesInv
<1> SUFFICES ASSUME MinutesInit PROVE MinutesInv
  OBVIOUS
<1>1. SaidInOrder(<<>>, "original") /\ SaidInOrder(<<>>, "new")
  BY DEF SaidInOrder
<1>2. BelongsTo(<<>>, "original") /\ BelongsTo(<<>>, "new")
  BY DEF BelongsTo
<1> QED
  BY <1>1, <1>2 DEF MinutesInit, MinutesInv, Talks

LEMMA SpeakKeepsOrder ==
  ASSUME NEW t \in Talks, NEW s, SaidInOrder(s, t), Len(s) < MaxSpeeches,
         NEW r \in 0..MaxRound, NEW d \in BOOLEAN
  PROVE  SaidInOrder(Append(s, [talk |-> t, n |-> Len(s) + 1, round |-> r, decisive |-> d]), t)
<1>1. PICK n \in Nat : n = Len(s)
  BY SequenceFacts DEF SaidInOrder
<1>2. /\ s \in Seq(Speeches) /\ DOMAIN s = 1..n /\ (s = <<>> <=> n = 0)
      /\ \A i \in 1..n : s[i] \in Speeches
  BY <1>1, SequenceFacts DEF SaidInOrder
<1>4. r \in Nat
  BY MinutesAssumption
<1>5. PICK e : e = [talk |-> t, n |-> n + 1, round |-> r, decisive |-> d]
  OBVIOUS
<1>6. e \in Speeches /\ e.talk = t /\ e.n = n + 1 /\ e.round = r
  <2>1. n + 1 \in 1..MaxSpeeches
    BY <1>1, MinutesAssumption
  <2> QED
    BY <1>4, <1>5, <2>1 DEF Speeches
<1>7. PICK u : u = Append(s, e)
  OBVIOUS
<1>8. /\ u \in Seq(Speeches) /\ DOMAIN u = 1..(n + 1) /\ u[n + 1] = e
      /\ \A i \in 1..n : u[i] = s[i]
  BY <1>1, <1>2, <1>6, <1>7, OneMore
<1>9. \A i \in 1..(n + 1) : i \in 1..n \/ i = n + 1
  OBVIOUS
<1>10. \A i \in 1..(n + 1) : u[i].talk = t /\ u[i].n = i
  BY <1>2, <1>6, <1>8, <1>9 DEF SaidInOrder
<1>12. SaidInOrder(u, t)
  BY <1>8, <1>10 DEF SaidInOrder
<1> QED
  BY <1>1, <1>5, <1>7, <1>12

LEMMA AttachKeepsOwner ==
  ASSUME NEW t \in Talks, NEW s, BelongsTo(s, t), Len(s) < MaxFiles, NEW name \in FileNames
  PROVE  BelongsTo(Append(s, [talk |-> t, n |-> Len(s) + 1, name |-> name]), t)
<1>1. PICK n \in Nat : n = Len(s)
  BY SequenceFacts DEF BelongsTo
<1>2. s \in Seq(Files) /\ DOMAIN s = 1..n
  BY <1>1, SequenceFacts DEF BelongsTo
<1>3. PICK e : e = [talk |-> t, n |-> n + 1, name |-> name]
  OBVIOUS
<1>4. e \in Files /\ e.talk = t
  <2>1. n + 1 \in 1..MaxFiles
    BY <1>1, MinutesAssumption
  <2> QED
    BY <1>3, <2>1 DEF Files
<1>5. PICK u : u = Append(s, e)
  OBVIOUS
<1>6. /\ u \in Seq(Files) /\ DOMAIN u = 1..(n + 1) /\ u[n + 1] = e
      /\ \A i \in 1..n : u[i] = s[i]
  BY <1>1, <1>2, <1>4, <1>5, OneMore
<1>7. \A i \in 1..(n + 1) : i \in 1..n \/ i = n + 1
  OBVIOUS
<1>8. BelongsTo(u, t)
  BY <1>2, <1>4, <1>6, <1>7 DEF BelongsTo
<1> QED
  BY <1>1, <1>3, <1>5, <1>8

LEMMA MinutesNextHolds == MinutesInv /\ [MinutesNext]_minutesVars => MinutesInv'
<1> SUFFICES ASSUME MinutesInv, [MinutesNext]_minutesVars PROVE MinutesInv'
  OBVIOUS
<1>1. ASSUME NEW t \in Talks, Speak(t) PROVE MinutesInv'
  <2>1. PICK s : s = speeches[t]
    OBVIOUS
  <2>2. PICK r \in 0..MaxRound, d \in BOOLEAN :
          speeches' = [speeches EXCEPT ![t] =
            Append(@, [talk |-> t, n |-> Len(@) + 1, round |-> r, decisive |-> d])]
    BY <1>1, <2>1 DEF Speak
  <2>3. PICK u : u = Append(s, [talk |-> t, n |-> Len(s) + 1, round |-> r, decisive |-> d])
    OBVIOUS
  <2>4. SaidInOrder(u, t)
    <3>1. SaidInOrder(s, t) /\ Len(s) < MaxSpeeches
      BY <1>1, <2>1 DEF MinutesInv, Speak
    <3> QED
      BY <2>2, <2>3, <3>1, SpeakKeepsOrder
  <2>5. speeches' = [speeches EXCEPT ![t] = u] /\ files' = files
    BY <1>1, <2>1, <2>2, <2>3 DEF Speak
  <2> QED
    BY <2>4, <2>5 DEF MinutesInv
<1>2. ASSUME NEW t \in Talks, Attach(t) PROVE MinutesInv'
  <2>1. PICK s : s = files[t]
    OBVIOUS
  <2>2. PICK name \in FileNames :
          files' = [files EXCEPT ![t] = Append(@, [talk |-> t, n |-> Len(@) + 1, name |-> name])]
    BY <1>2 DEF Attach
  <2>3. PICK u : u = Append(s, [talk |-> t, n |-> Len(s) + 1, name |-> name])
    OBVIOUS
  <2>4. BelongsTo(u, t)
    <3>1. BelongsTo(s, t) /\ Len(s) < MaxFiles
      BY <1>2, <2>1 DEF MinutesInv, Attach
    <3> QED
      BY <2>3, <3>1, AttachKeepsOwner
  <2>5. files' = [files EXCEPT ![t] = u] /\ speeches' = speeches
    BY <1>2, <2>1, <2>2, <2>3 DEF Attach
  <2> QED
    BY <2>4, <2>5 DEF MinutesInv
<1>3. CASE UNCHANGED minutesVars
  BY <1>3 DEF MinutesInv, minutesVars
<1> QED
  BY <1>1, <1>2, <1>3 DEF MinutesNext

-----------------------------------------------------------------------------
(* The minutes of a session repeat what was said.                          *)

RepeatsAll(rounds, spoken) ==
  /\ \A i \in DOMAIN spoken :
       \E k \in DOMAIN rounds : \E l \in DOMAIN rounds[k] : rounds[k][l] = spoken[i]
  /\ \A k \in DOMAIN rounds : \A l \in DOMAIN rounds[k] :
       \E i \in DOMAIN spoken : rounds[k][l] = spoken[i]
  /\ \A k, h \in DOMAIN rounds : \A l \in DOMAIN rounds[k], m \in DOMAIN rounds[h] :
       /\ k < h => rounds[k][l].round < rounds[h][m].round
       /\ k = h => rounds[k][l].round = rounds[h][m].round
       /\ k = h /\ l < m => rounds[k][l].n < rounds[h][m].n

LEMMA RoundsRepeatAll ==
  ASSUME NEW t \in Talks, SaidInOrder(speeches[t], t)
  PROVE  RepeatsAll(Rounds(t), speeches[t])
<1>1. PICK s : s = speeches[t]
  OBVIOUS
<1>2. PICK n \in Nat : n = Len(s)
  BY <1>1, SequenceFacts DEF SaidInOrder
<1>3. /\ s \in Seq(Speeches) /\ DOMAIN s = 1..n
      /\ \A i \in 1..n : s[i] \in Speeches /\ s[i].n = i
  BY <1>1, <1>2, SequenceFacts DEF SaidInOrder
<1>4. \A i \in 1..n : s[i].round \in Nat
  BY <1>3 DEF Speeches
<1>5. PICK P : P = {s[i].round : i \in 1..n}
  OBVIOUS
<1>6. P = RoundNumbers(t) /\ P \in SUBSET Nat
  BY <1>1, <1>3, <1>4, <1>5 DEF RoundNumbers
<1>7. IsFiniteSet(P)
  <2>1. PICK f : f = [i \in 1..n |-> s[i].round]
    OBVIOUS
  <2>2. f \in Surjection(1..n, P)
    <3>1. f \in [1..n -> P]
      BY <1>5, <2>1
    <3>2. \A x \in P : \E i \in 1..n : f[i] = x
      BY <1>5, <2>1
    <3> QED
      BY <3>1, <3>2 DEF Surjection
  <2>3. IsFiniteSet(1..n)
    <3>1. 1 \in Int /\ n \in Int
      OBVIOUS
    <3> QED
      BY <3>1, FS_Interval
  <2> QED
    BY <2>2, <2>3, FS_Surjection
<1>8. PICK K \in Nat : K = Cardinality(P)
  BY <1>7, FS_CardinalityType
<1>9. PICK nth : nth = [k \in 1..K |-> Nth(P, k)]
  OBVIOUS
<1>10. /\ \A k \in 1..K : nth[k] = Nth(P, k) /\ nth[k] \in P /\ nth[k] \in Nat
       /\ \A k, h \in 1..K : k < h => nth[k] < nth[h]
       /\ \A x \in P : \E k \in 1..K : nth[k] = x
  <2>1. /\ \A k \in 1..K : Nth(P, k) \in P
        /\ \A k, h \in 1..K : k < h => Nth(P, k) < Nth(P, h)
        /\ \A x \in P : \E k \in 1..K : Nth(P, k) = x
    BY <1>6, <1>7, <1>8, NthGoesThrough
  <2> QED
    BY <1>6, <1>9, <2>1
<1>11. PICK Q : Q = [k \in 1..K |-> {i \in 1..n : s[i].round = nth[k]}]
  OBVIOUS
<1>12. PICK R : R = Rounds(t)
  OBVIOUS
<1>13. DOMAIN R = 1..K /\ \A k \in 1..K : R[k] = At(s, Q[k]) /\ Q[k] \in SUBSET (DOMAIN s)
  <2>1. R = [k \in 1..K |-> At(s, {i \in 1..n : s[i].round = Nth(P, k)})]
    BY <1>1, <1>3, <1>6, <1>8, <1>12 DEF Rounds
  <2> QED
    BY <1>3, <1>10, <1>11, <2>1
<1>14. PICK at : at = [k \in 1..K |-> [l \in DOMAIN R[k] |-> Nth(Q[k], l)]]
  OBVIOUS
<1>15. ASSUME NEW k \in 1..K PROVE Picks(R[k], s, Q[k], at[k])
  <2>1. PICK T, q : T = R[k] /\ q = Q[k]
    OBVIOUS
  <2>2. T = At(s, q) /\ q \in SUBSET (DOMAIN s)
    BY <1>13, <2>1
  <2>3. /\ DOMAIN T = 1..Len(T)
        /\ \A l \in DOMAIN T : Nth(q, l) \in q /\ T[l] = s[Nth(q, l)]
        /\ \A l, m \in DOMAIN T : l < m => Nth(q, l) < Nth(q, m)
        /\ \A i \in q : \E l \in DOMAIN T : Nth(q, l) = i
    BY <1>3, <2>2, AtIsInOrder
  <2>4. \A l \in DOMAIN T : at[k][l] = Nth(q, l)
    BY <1>14, <2>1
  <2>5. DOMAIN T \subseteq Nat
    BY <2>3
  <2>6. Picks(T, s, q, at[k])
    BY <2>3, <2>4, <2>5 DEF Picks
  <2> QED
    BY <2>1, <2>6
<1>16. ASSUME NEW k \in 1..K, NEW l \in DOMAIN R[k]
       PROVE  at[k][l] \in 1..n /\ R[k][l] = s[at[k][l]] /\ s[at[k][l]].round = nth[k]
  <2>1. at[k][l] \in Q[k] /\ R[k][l] = s[at[k][l]]
    BY <1>15 DEF Picks
  <2> QED
    BY <1>11, <2>1
<1>17. ASSUME NEW i \in 1..n
       PROVE  \E k \in 1..K : \E l \in DOMAIN R[k] : R[k][l] = s[i]
  <2>1. s[i].round \in P
    BY <1>5
  <2>2. PICK k \in 1..K : nth[k] = s[i].round
    BY <1>10, <2>1
  <2>3. i \in Q[k]
    BY <1>11, <2>2
  <2>4. PICK l \in DOMAIN R[k] : at[k][l] = i
    BY <1>15, <2>3 DEF Picks
  <2> QED
    BY <1>16, <2>4
<1>18. ASSUME NEW k \in 1..K, NEW h \in 1..K, NEW l \in DOMAIN R[k], NEW m \in DOMAIN R[h]
       PROVE  /\ k < h => R[k][l].round < R[h][m].round
              /\ k = h => R[k][l].round = R[h][m].round
              /\ k = h /\ l < m => R[k][l].n < R[h][m].n
  <2>1. PICK i \in 1..n : i = at[k][l] /\ R[k][l] = s[i] /\ s[i].round = nth[k]
    BY <1>16
  <2>2. PICK j \in 1..n : j = at[h][m] /\ R[h][m] = s[j] /\ s[j].round = nth[h]
    BY <1>16
  <2>3. k = h /\ l < m => i < j
    BY <1>15, <2>1, <2>2 DEF Picks
  <2>4. k < h => nth[k] < nth[h]
    BY <1>10
  <2> QED
    BY <1>3, <2>1, <2>2, <2>3, <2>4
<1>19. RepeatsAll(R, s)
  <2>1. \A i \in DOMAIN s : \E k \in DOMAIN R : \E l \in DOMAIN R[k] : R[k][l] = s[i]
    BY <1>3, <1>13, <1>17
  <2>2. \A k \in DOMAIN R : \A l \in DOMAIN R[k] : \E i \in DOMAIN s : R[k][l] = s[i]
    BY <1>3, <1>13, <1>16
  <2>3. \A k, h \in DOMAIN R : \A l \in DOMAIN R[k], m \in DOMAIN R[h] :
          /\ k < h => R[k][l].round < R[h][m].round
          /\ k = h => R[k][l].round = R[h][m].round
          /\ k = h /\ l < m => R[k][l].n < R[h][m].n
    BY <1>13, <1>18
  <2> QED
    BY <2>1, <2>2, <2>3 DEF RepeatsAll
<1> QED
  BY <1>1, <1>12, <1>19

-----------------------------------------------------------------------------
(* The merged lists and the conclusion.                                    *)

LEMMA AtMostIsPrefix ==
  ASSUME NEW S, NEW s \in Seq(S), NEW k \in Nat
  PROVE  /\ AtMost(k, s) \in Seq(S)
         /\ \A i \in DOMAIN AtMost(k, s) : i \in DOMAIN s /\ AtMost(k, s)[i] = s[i]
         /\ \A i \in DOMAIN s : i <= k <=> i \in DOMAIN AtMost(k, s)
<1>1. PICK n \in Nat : n = Len(s)
  BY SequenceFacts
<1>2. PICK m \in Nat : m = IF n < k THEN n ELSE k
  OBVIOUS
<1>3. m <= n /\ AtMost(k, s) = SubSeq(s, 1, m)
  BY <1>1, <1>2 DEF AtMost
<1>4. SubSeq(s, 1, m) \in Seq(S) /\ DOMAIN SubSeq(s, 1, m) = 1..m
  BY <1>1, <1>3
<1>5. \A i \in 1..m : i \in DOMAIN s /\ SubSeq(s, 1, m)[i] = s[i]
  BY <1>1, <1>3
<1>6. DOMAIN s = 1..n /\ \A i \in 1..n : i <= k <=> i \in 1..m
  BY <1>1, <1>2, SequenceFacts
<1> QED
  BY <1>3, <1>4, <1>5, <1>6

\* The first decisive messages, MaxDecisions at most.
Early(t) ==
  {i \in DOMAIN speeches[t] :
     /\ speeches[t][i].decisive
     /\ Cardinality({j \in DOMAIN speeches[t] : j <= i /\ speeches[t][j].decisive})
          <= MaxDecisions}

LEMMA DecisionsAreEarly ==
  ASSUME NEW t \in Talks, SaidInOrder(speeches[t], t)
  PROVE  {Decisions(t)[i].round : i \in DOMAIN Decisions(t)}
           = {speeches[t][i].round : i \in Early(t)}
<1>1. PICK s : s = speeches[t]
  OBVIOUS
<1>2. s \in Seq(Speeches)
  BY <1>1 DEF SaidInOrder
<1>3. PICK P \in SUBSET (DOMAIN s) : P = {i \in DOMAIN s : s[i].decisive}
  OBVIOUS
<1>4. PICK a : a = At(s, P)
  OBVIOUS
<1>5. PICK nth : nth = [k \in DOMAIN a |-> Nth(P, k)]
  OBVIOUS
<1>6. /\ a \in Seq(Speeches)
      /\ \A k \in DOMAIN a : nth[k] \in P /\ a[k] = s[nth[k]]
      /\ \A i \in P : \E k \in DOMAIN a : nth[k] = i
      /\ \A k \in DOMAIN a : Cardinality({j \in P : j <= nth[k]}) = k
  BY <1>2, <1>4, <1>5, AtIsInOrder
<1>7. PICK d : d = AtMost(MaxDecisions, a)
  OBVIOUS
<1>8. /\ \A k \in DOMAIN d : k \in DOMAIN a /\ d[k] = a[k]
      /\ \A k \in DOMAIN a : k <= MaxDecisions <=> k \in DOMAIN d
  BY <1>6, <1>7, AtMostIsPrefix, MinutesAssumption
<1>9. PICK E : E = Early(t)
  OBVIOUS
<1>10. \A i : i \in E <=> i \in P /\ Cardinality({j \in P : j <= i}) <= MaxDecisions
  <2>1. \A i : {j \in DOMAIN s : j <= i /\ s[j].decisive} = {j \in P : j <= i}
    BY <1>3
  <2>2. E = {i \in DOMAIN s : s[i].decisive /\ Cardinality({j \in P : j <= i}) <= MaxDecisions}
    BY <1>1, <1>9, <2>1 DEF Early
  <2> QED
    BY <1>3, <2>2
<1>11. \A k \in DOMAIN d : nth[k] \in E /\ d[k] = s[nth[k]]
  BY <1>6, <1>8, <1>10
<1>12. ASSUME NEW i \in E PROVE \E k \in DOMAIN d : nth[k] = i
  <2>1. i \in P /\ Cardinality({j \in P : j <= i}) <= MaxDecisions
    BY <1>10
  <2>2. PICK k \in DOMAIN a : nth[k] = i
    BY <1>6, <2>1
  <2>3. k <= MaxDecisions
    BY <1>6, <2>1, <2>2
  <2> QED
    BY <1>8, <2>2, <2>3
<1>13. {d[k].round : k \in DOMAIN d} = {s[i].round : i \in E}
  <2>1. \A k \in DOMAIN d : \E i \in E : d[k].round = s[i].round
    BY <1>11
  <2>2. \A i \in E : \E k \in DOMAIN d : d[k].round = s[i].round
    BY <1>11, <1>12
  <2> QED
    BY <2>1, <2>2
<1>14. d = Decisions(t)
  BY <1>1, <1>3, <1>4, <1>7 DEF Decisions
<1> QED
  BY <1>1, <1>9, <1>13, <1>14

LEMMA DecisionsBelong ==
  ASSUME NEW t \in Talks, SaidInOrder(speeches[t], t)
  PROVE  Decisions(t) \in Seq(Speeches) /\ \A i \in DOMAIN Decisions(t) : Decisions(t)[i].talk = t
<1>1. PICK s : s = speeches[t]
  OBVIOUS
<1>2. s \in Seq(Speeches) /\ \A i \in DOMAIN s : s[i].talk = t
  BY <1>1 DEF SaidInOrder
<1>3. PICK P \in SUBSET (DOMAIN s) : P = {i \in DOMAIN s : s[i].decisive}
  OBVIOUS
<1>4. PICK a : a = At(s, P)
  OBVIOUS
<1>5. /\ a \in Seq(Speeches)
      /\ \A k \in DOMAIN a : Nth(P, k) \in P /\ a[k] = s[Nth(P, k)]
  BY <1>2, <1>4, AtIsInOrder
<1>6. \A k \in DOMAIN a : a[k].talk = t
  BY <1>2, <1>5
<1>7. PICK d : d = AtMost(MaxDecisions, a)
  OBVIOUS
<1>8. d \in Seq(Speeches) /\ \A i \in DOMAIN d : i \in DOMAIN a /\ d[i] = a[i]
  BY <1>5, <1>7, AtMostIsPrefix, MinutesAssumption
<1>9. d = Decisions(t)
  BY <1>1, <1>3, <1>4, <1>7 DEF Decisions
<1> QED
  BY <1>6, <1>8, <1>9

\* What Merged says, of any way to read the keys.
Lists(merged, key, original, new) ==
  /\ {key[i] : i \in DOMAIN merged} = original \cup new
  /\ \A i, j \in DOMAIN merged : key[i] = key[j] => i = j
  /\ \A i \in DOMAIN merged : key[i] \in original => merged[i].talk = "original"

LEMMA MergedDecisionsList ==
  ASSUME MinutesInv
  PROVE  Lists(MergedDecisions, [i \in DOMAIN MergedDecisions |-> MergedDecisions[i].round],
               {Decisions("original")[i].round : i \in DOMAIN Decisions("original")},
               {Decisions("new")[i].round : i \in DOMAIN Decisions("new")})
<1>1. PICK u, w : u = Decisions("original") /\ w = Decisions("new")
  OBVIOUS
<1>2. u \in Seq(Speeches) /\ w \in Seq(Speeches) /\ \A i \in DOMAIN u : u[i].talk = "original"
  BY <1>1, DecisionsBelong DEF MinutesInv, Talks
<1>3. PICK s : s = u \o w
  OBVIOUS
<1>4. s \in Seq(Speeches) /\ \A i \in DOMAIN s : s[i] \in Speeches
  BY <1>2, <1>3, SequenceFacts, FollowsWhenJoined
<1>5. PICK keys : keys = [x \in Speeches |-> x.round]
  OBVIOUS
<1>6. \A x \in Speeches : keys[x] = x.round
  BY <1>5
<1>7. PICK key : key = [i \in DOMAIN s |-> s[i].round]
  OBVIOUS
<1>8. \A i \in DOMAIN s : key[i] = keys[s[i]]
  BY <1>4, <1>6, <1>7
<1>9. PICK t : t = FirstOfEach(s, key)
  OBVIOUS
<1>10. t \in Seq(Speeches) /\ Merged(t, u, w, keys)
  BY <1>2, <1>3, <1>8, <1>9, FirstOfEachMerges
<1>11. t = MergedDecisions
  BY <1>1, <1>3, <1>7, <1>9 DEF MergedDecisions, Together, Talks
<1>12. /\ \A i \in DOMAIN t : keys[t[i]] = t[i].round
       /\ \A i \in DOMAIN u : keys[u[i]] = u[i].round
       /\ \A i \in DOMAIN w : keys[w[i]] = w[i].round
  BY <1>2, <1>6, <1>10, SequenceFacts
<1>13. PICK by : by = [i \in DOMAIN t |-> t[i].round]
  OBVIOUS
<1>14. \A i \in DOMAIN t : by[i] = keys[t[i]]
  BY <1>12, <1>13
<1>15. /\ {u[i].round : i \in DOMAIN u} = {keys[u[i]] : i \in DOMAIN u}
       /\ {w[i].round : i \in DOMAIN w} = {keys[w[i]] : i \in DOMAIN w}
       /\ {by[i] : i \in DOMAIN t} = {keys[t[i]] : i \in DOMAIN t}
  BY <1>12, <1>14
<1>16. Lists(t, by, {u[i].round : i \in DOMAIN u}, {w[i].round : i \in DOMAIN w})
  BY <1>10, <1>14, <1>15 DEF Lists, Merged
<1> QED
  BY <1>1, <1>11, <1>13, <1>16

LEMMA MergedMaterialsList ==
  ASSUME MinutesInv
  PROVE  Lists(MergedMaterials, [i \in DOMAIN MergedMaterials |-> MergedMaterials[i].name],
               {files["original"][i].name : i \in DOMAIN files["original"]},
               {files["new"][i].name : i \in DOMAIN files["new"]})
<1>1. PICK u, w : u = files["original"] /\ w = files["new"]
  OBVIOUS
<1>2. u \in Seq(Files) /\ w \in Seq(Files) /\ \A i \in DOMAIN u : u[i].talk = "original"
  BY <1>1 DEF MinutesInv, Talks, BelongsTo
<1>3. PICK s : s = u \o w
  OBVIOUS
<1>4. s \in Seq(Files) /\ \A i \in DOMAIN s : s[i] \in Files
  BY <1>2, <1>3, SequenceFacts, FollowsWhenJoined
<1>5. PICK keys : keys = [x \in Files |-> x.name]
  OBVIOUS
<1>6. \A x \in Files : keys[x] = x.name
  BY <1>5
<1>7. PICK key : key = [i \in DOMAIN s |-> s[i].name]
  OBVIOUS
<1>8. \A i \in DOMAIN s : key[i] = keys[s[i]]
  BY <1>4, <1>6, <1>7
<1>9. PICK t : t = FirstOfEach(s, key)
  OBVIOUS
<1>10. t \in Seq(Files) /\ Merged(t, u, w, keys)
  BY <1>2, <1>3, <1>8, <1>9, FirstOfEachMerges
<1>11. t = MergedMaterials
  BY <1>1, <1>3, <1>7, <1>9 DEF MergedMaterials, Together
<1>12. /\ \A i \in DOMAIN t : keys[t[i]] = t[i].name
       /\ \A i \in DOMAIN u : keys[u[i]] = u[i].name
       /\ \A i \in DOMAIN w : keys[w[i]] = w[i].name
  BY <1>2, <1>6, <1>10, SequenceFacts
<1>13. PICK by : by = [i \in DOMAIN t |-> t[i].name]
  OBVIOUS
<1>14. \A i \in DOMAIN t : by[i] = keys[t[i]]
  BY <1>12, <1>13
<1>15. /\ {u[i].name : i \in DOMAIN u} = {keys[u[i]] : i \in DOMAIN u}
       /\ {w[i].name : i \in DOMAIN w} = {keys[w[i]] : i \in DOMAIN w}
       /\ {by[i] : i \in DOMAIN t} = {keys[t[i]] : i \in DOMAIN t}
  BY <1>12, <1>14
<1>16. Lists(t, by, {u[i].name : i \in DOMAIN u}, {w[i].name : i \in DOMAIN w})
  BY <1>10, <1>14, <1>15 DEF Lists, Merged
<1> QED
  BY <1>1, <1>11, <1>13, <1>16

LEMMA JoinedSingles ==
  ASSUME NEW x, NEW y
  PROVE  <<>> \o <<y>> = <<y>> /\ <<x>> \o <<>> = <<x>> /\ <<x>> \o <<y>> = <<x, y>>
<1>1. PICK S : S = {x, y}
  OBVIOUS
<1>2. <<>> \in Seq(S) /\ <<x>> \in Seq(S) /\ <<y>> \in Seq(S) /\ <<x, y>> \in Seq(S)
  BY <1>1
<1>3. <<>> \o <<y>> = <<y>>
  BY <1>2
<1>4. <<x>> \o <<>> = <<x>>
  BY <1>2
<1>5. <<x>> \o <<y>> = <<x, y>>
  <2>1. PICK c : c = <<x>> \o <<y>>
    OBVIOUS
  <2>2. c \in Seq(S) /\ Len(c) = 2
    BY <1>2, <2>1
  <2>3. c[1] = x /\ c[2] = y
    BY <1>2, <2>1
  <2>4. c = <<x, y>>
    BY <1>2, <2>2, <2>3
  <2> QED
    BY <2>1, <2>4
<1> QED
  BY <1>3, <1>4, <1>5

LEMMA LastWordsConclude ==
  ASSUME MinutesInv
  PROVE  /\ speeches["original"] # <<>> => Head(MergedConclusion) = Last(speeches["original"])
         /\ speeches["new"] # <<>> => Last(MergedConclusion) = Last(speeches["new"])
<1>1. PICK u, w : u = speeches["original"] /\ w = speeches["new"]
  OBVIOUS
<1>2. PICK c : c = MergedConclusion
  OBVIOUS
<1>3. c = Conclusion("original") \o Conclusion("new")
  BY <1>2 DEF MergedConclusion, Together, Talks
<1>4. PICK x, y : x = Last(u) /\ y = Last(w)
  OBVIOUS
<1>5. /\ Conclusion("original") = IF u = <<>> THEN <<>> ELSE <<x>>
      /\ Conclusion("new") = IF w = <<>> THEN <<>> ELSE <<y>>
  BY <1>1, <1>4 DEF Conclusion
<1>6. CASE u = <<>> /\ w # <<>>
  <2>1. c = <<y>>
    BY <1>3, <1>5, <1>6, JoinedSingles, Zenon
  <2>2. Last(c) = y
    BY <2>1 DEF Last
  <2> QED
    BY <1>1, <1>2, <1>4, <1>6, <2>2
<1>7. CASE u # <<>> /\ w = <<>>
  <2>1. c = <<x>>
    BY <1>3, <1>5, <1>7, JoinedSingles, Zenon
  <2>2. Head(c) = x
    BY <2>1
  <2> QED
    BY <1>1, <1>2, <1>4, <1>7, <2>2
<1>8. CASE u # <<>> /\ w # <<>>
  <2>1. c = <<x, y>>
    BY <1>3, <1>5, <1>8, JoinedSingles, Zenon
  <2>2. Head(c) = x /\ Last(c) = y
    BY <2>1 DEF Last
  <2> QED
    BY <1>1, <1>2, <1>4, <2>2
<1> QED
  BY <1>1, <1>6, <1>7, <1>8

LEMMA MinutesInvIsEnough == MinutesInv => MinutesTypeOK /\ MergedMinutesAreComplete
<1> SUFFICES ASSUME MinutesInv PROVE MinutesTypeOK /\ MergedMinutesAreComplete
  OBVIOUS
<1>1. MinutesTypeOK
  <2>1. \A t \in Talks : speeches[t] \in Seq(Speeches) /\ files[t] \in Seq(Files)
    BY DEF MinutesInv, SaidInOrder, BelongsTo
  <2>2. speeches \in [Talks -> Seq(Speeches)] /\ files \in [Talks -> Seq(Files)]
    BY <2>1 DEF MinutesInv
  <2> QED
    BY <2>2 DEF MinutesTypeOK, Speeches, Files
<1>2. \A t \in Talks : RepeatsAll(Rounds(t), speeches[t])
  BY RoundsRepeatAll DEF MinutesInv
<1>3. Lists(MergedDecisions, [i \in DOMAIN MergedDecisions |-> MergedDecisions[i].round],
            {speeches["original"][i].round : i \in Early("original")},
            {speeches["new"][i].round : i \in Early("new")})
  <2>1. /\ {Decisions("original")[i].round : i \in DOMAIN Decisions("original")}
             = {speeches["original"][i].round : i \in Early("original")}
        /\ {Decisions("new")[i].round : i \in DOMAIN Decisions("new")}
             = {speeches["new"][i].round : i \in Early("new")}
    BY DecisionsAreEarly DEF MinutesInv, Talks
  <2> QED
    BY <2>1, MergedDecisionsList
<1>4. MergedMinutesAreComplete
  BY <1>2, <1>3, MergedMaterialsList, LastWordsConclude, Zenon
     DEF MergedMinutesAreComplete, RepeatsAll, Lists, Early
<1> QED
  BY <1>1, <1>4

\* MergedMinutesAreComplete (GetMinutes and GetMergedMinutes): the minutes of a session
\* repeat every message once, by round numbers and within a number in order, however
\* often it is started anew; merged with those of the session it restarted they have
\* one decision for each number among the first decisions of both, one file for each
\* name, the original's where it has one, and end with the last words.
THEOREM MinutesMissNothing == MinutesSpec => [](MinutesTypeOK /\ MergedMinutesAreComplete)
<1>1. MinutesInit => MinutesInv
  BY MinutesInitHolds
<1>2. MinutesInv /\ [MinutesNext]_minutesVars => MinutesInv'
  BY MinutesNextHolds
<1>3. MinutesInv => MinutesTypeOK /\ MergedMinutesAreComplete
  BY MinutesInvIsEnough
<1> QED
  BY <1>1, <1>2, <1>3, PTL DEF MinutesSpec

-----------------------------------------------------------------------------
(* The roles of sessions.                                                  *)

RoleLists == Seq(Roles \cup {NoRole})

EditorType ==
  [step : {"idle", "insert", "bind", "count", "add", "remove"}, session : Lineup,
   parent : Lineup, todo : RoleLists, place : Nat]

\* A request that works on the roles of a session, and one that binds those that
\* the session was created with.
Works(a, s) == editor[a].step \in {"bind", "count", "add", "remove"} /\ editor[a].session = s

Binds(a, s) == editor[a].step = "bind" /\ editor[a].session = s

RolesAreTyped ==
  /\ RolesTypeOK /\ IsFiniteSet(bound)
  /\ editor \in [Editors -> EditorType]
  /\ asked \in [Lineup -> RoleLists] /\ whole \subseteq Lineup /\ neat \subseteq Lineup
  /\ \A s \in Lineup : asked[s] = <<>> =>
       life[s] = "none" /\ s \notin whole \cup neat \cup edited
         /\ \A a \in Editors : ~Works(a, s)
  /\ \A a \in Editors :
       /\ editor[a].step = "insert" => editor[a].todo # <<>>
       /\ editor[a].step \in {"count", "add", "remove"} =>
            /\ editor[a].todo # <<>> /\ Head(editor[a].todo) \in Roles
            /\ editor[a].session \in edited

\* Who binds the roles of a session is the only one to do so, and somewhere in the
\* list of those asked for.
BinderIsInPlace(s) ==
  \A a \in Editors : Binds(a, s) =>
    /\ s \notin whole
    /\ editor[a].place < Len(asked[s])
    /\ editor[a].todo = SubSeq(asked[s], editor[a].place + 1, Len(asked[s]))
    /\ \A b \in Editors : Binds(b, s) => a = b

\* Of the first n roles that were asked for, each is bound at the place of its first
\* mention, and nothing else is bound.
BoundAsAsked(s, n) ==
  /\ \A b \in BoundTo(s) :
       /\ b.place < n
       /\ asked[s][b.place + 1] = b.role
       /\ \A i \in 1..b.place : asked[s][i] # b.role
  /\ \A i \in 1..n : asked[s][i] # NoRole => \E b \in BoundTo(s) : b.role = asked[s][i]

UneditedIsAsAsked(s) ==
  life[s] # "none" /\ s \notin edited =>
    /\ s \in whole => BoundAsAsked(s, Len(asked[s]))
    /\ \A a \in Editors : Binds(a, s) => BoundAsAsked(s, editor[a].place)

\* A neat session has one request at a time that works on it.
NeatIsAlone(s) ==
  s \in neat =>
    /\ IsNeat(asked[s])
    /\ \A a, b \in Editors : Works(a, s) /\ Works(b, s) => a = b
    /\ \A a \in Editors : Works(a, s) => editor[a].step # "remove"
    /\ \A a \in Editors : Binds(a, s) => s \notin edited

\* Its roles have the places 0, 1, ... as far as there are roles, and those that were
\* asked for have the first.
Numbered(s) ==
  /\ \A b, c \in BoundTo(s) : b.place = c.place => b = c
  /\ \A b \in BoundTo(s) : b.place < Cardinality(BoundTo(s))
  /\ \A b \in BoundTo(s) :
       (\E i \in 1..Len(asked[s]) : asked[s][i] = b.role) <=> b.place < Len(asked[s])
  /\ \A i \in 1..Len(asked[s]) : \E b \in BoundTo(s) : b.role = asked[s][i]
  /\ Len(asked[s]) <= Cardinality(BoundTo(s))

NeatIsNumbered(s) ==
  s \in neat /\ life[s] # "none" =>
    /\ s \in whole => Numbered(s)
    /\ \A a \in Editors : Binds(a, s) => Cardinality(BoundTo(s)) = editor[a].place
    /\ \A a \in Editors :
         s \in whole /\ editor[a].step = "add" /\ editor[a].session = s =>
           editor[a].place = Cardinality(BoundTo(s))

SessionIsSound(s) ==
  BinderIsInPlace(s) /\ UneditedIsAsAsked(s) /\ NeatIsAlone(s) /\ NeatIsNumbered(s)

RolesInv == RolesAreTyped /\ \A s \in Lineup : SessionIsSound(s)

-----------------------------------------------------------------------------
(* Lemmas.                                                                 *)

LEMMA BoundToIsFinite ==
  ASSUME RolesAreTyped, NEW s \in Lineup
  PROVE  /\ IsFiniteSet(BoundTo(s)) /\ Cardinality(BoundTo(s)) \in Nat
         /\ BoundTo(s) \subseteq bound
<1>1. BoundTo(s) \in SUBSET bound /\ IsFiniteSet(bound)
  BY DEF BoundTo, RolesAreTyped
<1>2. IsFiniteSet(BoundTo(s))
  BY <1>1, FS_Subset
<1> QED
  BY <1>1, <1>2, FS_CardinalityType

\* What is left to bind.
LEMMA RestOfAsked ==
  ASSUME NEW seq \in RoleLists, NEW n \in Nat, n < Len(seq),
         NEW todo, todo = SubSeq(seq, n + 1, Len(seq))
  PROVE  /\ todo # <<>> /\ Head(todo) = seq[n + 1]
         /\ Tail(todo) = SubSeq(seq, n + 2, Len(seq)) /\ Tail(todo) \in RoleLists
         /\ Tail(todo) = <<>> <=> n + 1 = Len(seq)
<1>1. Len(seq) \in Nat /\ n + 1 \in 1..Len(seq)
  BY DEF RoleLists
<1>2. /\ todo \in RoleLists /\ Len(todo) = Len(seq) - n
      /\ \A i \in 1..Len(seq) - n : todo[i] = seq[n + i]
  <2>1. todo \in RoleLists
    BY <1>1 DEF RoleLists
  <2>2. Len(todo) = Len(seq) - n
    BY <1>1 DEF RoleLists
  <2>3. \A i \in 1..Len(seq) - n : todo[i] = seq[n + i]
    BY <1>1 DEF RoleLists
  <2> QED
    BY <2>1, <2>2, <2>3
<1>3. todo # <<>> /\ Head(todo) = seq[n + 1]
  <2>1. Len(seq) - n \in Nat /\ Len(seq) - n > 0 /\ 1 \in 1..Len(seq) - n
    BY <1>1
  <2>2. todo # <<>>
    <3>1. Len(todo) # 0
      BY <1>2, <2>1
    <3> HIDE <1>2, <2>1
    <3> QED
      BY <3>1, EmptySeq, Zenon
  <2>3. Head(todo) = todo[1]
    BY <1>2, <2>2 DEF RoleLists
  <2> QED
    BY <1>2, <2>1, <2>2, <2>3
<1>4. /\ Tail(todo) \in RoleLists /\ Len(Tail(todo)) = Len(seq) - n - 1
      /\ \A i \in 1..Len(seq) - n - 1 : Tail(todo)[i] = seq[n + 1 + i]
  <2>1. Tail(todo) \in RoleLists /\ Len(Tail(todo)) = Len(seq) - n - 1
    BY <1>1, <1>2, <1>3 DEF RoleLists
  <2>2. \A i \in 1..Len(seq) - n - 1 : Tail(todo)[i] = todo[i + 1]
    BY <1>1, <1>2, <1>3 DEF RoleLists
  <2>3. \A i \in 1..Len(seq) - n - 1 : i + 1 \in 1..Len(seq) - n /\ n + (i + 1) = n + 1 + i
    BY <1>1
  <2>4. \A i \in 1..Len(seq) - n - 1 : todo[i + 1] = seq[n + 1 + i]
    BY <1>2, <2>3
  <2> QED
    BY <2>1, <2>2, <2>4
<1>5. Tail(todo) = SubSeq(seq, n + 2, Len(seq))
  <2> DEFINE rest == SubSeq(seq, n + 2, Len(seq))
  <2>1. rest \in RoleLists /\ Len(rest) = Len(seq) - n - 1
    BY <1>1 DEF RoleLists
  <2>2. \A i \in 1..Len(seq) - n - 1 : rest[i] = seq[n + 1 + i]
    BY <1>1 DEF RoleLists
  <2> QED
    BY <1>4, <2>1, <2>2, SeqEqual DEF RoleLists
<1>6. Tail(todo) = <<>> <=> n + 1 = Len(seq)
  <2>1. Tail(todo) = <<>> <=> Len(Tail(todo)) = 0
    BY <1>4, EmptySeq DEF RoleLists
  <2> QED
    BY <1>1, <1>4, <2>1
<1> QED
  BY <1>3, <1>4, <1>5, <1>6

\* A session stays sound when nothing of it changes, but for requests that leave it
\* and for its deletion.
LEMMA SessionStays ==
  ASSUME RolesInv, NEW s \in Lineup,
         BoundTo(s)' = BoundTo(s) \/ life'[s] = "none",
         life'[s] # "none" => life[s] # "none",
         asked'[s] = asked[s],
         s \in whole' <=> s \in whole,
         s \in edited' <=> s \in edited,
         s \in neat' => s \in neat,
         \A a \in Editors : editor'[a] = editor[a] \/ ~Works(a, s)'
  PROVE  SessionIsSound(s)'
<1>1. SessionIsSound(s)
  BY DEF RolesInv
<1>2. \A a \in Editors : Works(a, s)' => editor'[a] = editor[a] /\ Works(a, s)
  BY DEF Works
<1>3. \A a \in Editors : Binds(a, s)' => editor'[a] = editor[a] /\ Binds(a, s)
  BY <1>2 DEF Works, Binds
<1>4. \A a \in Editors : editor'[a].step = "add" /\ editor'[a].session = s =>
        editor'[a] = editor[a] /\ editor[a].step = "add" /\ editor[a].session = s
  BY <1>2 DEF Works
<1>5. BinderIsInPlace(s)'
  BY <1>1, <1>3 DEF SessionIsSound, BinderIsInPlace
<1>6. UneditedIsAsAsked(s)'
  BY <1>1, <1>3 DEF SessionIsSound, UneditedIsAsAsked, BoundAsAsked
<1>7. NeatIsAlone(s)'
  BY <1>1, <1>2, <1>3 DEF SessionIsSound, NeatIsAlone
<1>8. NeatIsNumbered(s)'
  BY <1>1, <1>3, <1>4 DEF SessionIsSound, NeatIsNumbered, Numbered
<1> QED
  BY <1>5, <1>6, <1>7, <1>8 DEF SessionIsSound

-----------------------------------------------------------------------------
(* The steps.                                                              *)

LEMMA WaitingIsTyped == Waiting \in EditorType /\ Waiting.step = "idle"
<1>1. Lineup # {} /\ <<>> \in RoleLists
  BY RolesAssumption DEF Lineup, RoleLists
<1>2. (CHOOSE s \in Lineup : TRUE) \in Lineup
  BY <1>1
<1> QED
  BY <1>1, <1>2 DEF Waiting, EditorType

LEMMA RolesInitHolds == RolesInit => RolesInv
<1> SUFFICES ASSUME RolesInit PROVE RolesInv
  OBVIOUS
<1>1. bound = {} /\ \A s \in Lineup : BoundTo(s) = {}
  BY DEF RolesInit, BoundTo
<1>2. \A a \in Editors : editor[a] \in EditorType /\ editor[a].step = "idle"
  BY WaitingIsTyped DEF RolesInit
<1>3. RolesTypeOK /\ IsFiniteSet(bound)
  BY <1>1, FS_EmptySet DEF RolesInit, RolesTypeOK
<1>4. editor \in [Editors -> EditorType] /\ asked \in [Lineup -> RoleLists]
  BY <1>2 DEF RolesInit, RoleLists
<1>5. RolesAreTyped
  BY <1>2, <1>3, <1>4 DEF RolesInit, RolesAreTyped, Works
<1>6. \A s \in Lineup : SessionIsSound(s)
  BY <1>2 DEF RolesInit, SessionIsSound, BinderIsInPlace, UneditedIsAsAsked, NeatIsAlone,
              NeatIsNumbered, Binds
<1> QED
  BY <1>5, <1>6 DEF RolesInv

\* The row of a new session.
LEMMA InsertSessionHolds ==
  ASSUME RolesInv, NEW a \in Editors, NEW s \in Lineup, NEW p \in Lineup,
         NEW roles \in RoleLists, roles # <<>>, asked[s] = <<>>,
         InsertSession(a, s, p, roles)
  PROVE  RolesInv'
<1> DEFINE l == [step |-> "bind", session |-> s, parent |-> p, todo |-> roles, place |-> 0]
<1>1. /\ life' = [life EXCEPT ![s] = "draft"] /\ parent' = [parent EXCEPT ![s] = p]
      /\ asked' = [asked EXCEPT ![s] = roles]
      /\ neat' \subseteq neat \cup {s} /\ (s \in neat' => s \in neat \/ IsNeat(roles))
      /\ editor' = [editor EXCEPT ![a] = l]
      /\ UNCHANGED <<bound, edits, whole, edited>>
  BY DEF InsertSession
<1>2. l \in EditorType /\ l.step = "bind" /\ l.session = s /\ l.todo = roles /\ l.place = 0
  BY DEF EditorType
<1> HIDE DEF l
<1>3. /\ RolesAreTyped /\ RolesTypeOK /\ IsFiniteSet(bound)
      /\ editor \in [Editors -> EditorType] /\ asked \in [Lineup -> RoleLists]
      /\ life[s] = "none" /\ s \notin whole \cup neat \cup edited /\ BoundTo(s) = {}
      /\ \A b \in Editors : ~Works(b, s)
  BY DEF RolesInv, RolesAreTyped, RolesTypeOK
<1>4. /\ editor' \in [Editors -> EditorType] /\ editor'[a] = l
      /\ \A b \in Editors \ {a} : editor'[b] = editor[b]
  BY <1>1, <1>2, <1>3
<1>5. /\ asked' \in [Lineup -> RoleLists] /\ asked'[s] = roles /\ life'[s] = "draft"
      /\ \A t \in Lineup \ {s} : asked'[t] = asked[t] /\ life'[t] = life[t]
      /\ \A t \in Lineup \ {s} : t \in neat' => t \in neat
      /\ \A t \in Lineup : BoundTo(t)' = BoundTo(t)
  BY <1>1, <1>3 DEF RolesTypeOK, BoundTo
<1>6. \A b \in Editors : Works(b, s)' => b = a
  BY <1>3, <1>4 DEF Works
<1>7. RolesTypeOK'
  BY <1>1, <1>3, <1>5 DEF RolesTypeOK
<1>8. RolesAreTyped'
  <2>1. \A t \in Lineup : asked'[t] = <<>> =>
          /\ life'[t] = "none" /\ t \notin whole' \cup neat' \cup edited'
          /\ \A b \in Editors : ~Works(b, t)'
    <3>1. \A t \in Lineup \ {s}, b \in Editors : Works(b, t)' => Works(b, t)
      BY <1>2, <1>4 DEF Works
    <3> QED
      BY <1>1, <1>3, <1>5, <3>1 DEF RolesAreTyped
  <2>2. \A b \in Editors :
          /\ editor'[b].step = "insert" => editor'[b].todo # <<>>
          /\ editor'[b].step \in {"count", "add", "remove"} =>
               /\ editor'[b].todo # <<>> /\ Head(editor'[b].todo) \in Roles
               /\ editor'[b].session \in edited'
    BY <1>1, <1>2, <1>3, <1>4 DEF RolesAreTyped
  <2> QED
    BY <1>1, <1>3, <1>4, <1>5, <1>7, <2>1, <2>2 DEF RolesAreTyped
<1>9. ASSUME NEW t \in Lineup \ {s} PROVE SessionIsSound(t)'
  <2>1. \A b \in Editors : editor'[b] = editor[b] \/ ~Works(b, t)'
    BY <1>2, <1>4 DEF Works
  <2> QED
    BY <1>1, <1>5, <2>1, SessionStays
<1>10. SessionIsSound(s)'
  <2>1. \A b \in Editors : Binds(b, s)' => b = a
    BY <1>6 DEF Works, Binds
  <2>2. Len(roles) \in Nat \ {0} /\ roles = SubSeq(roles, 0 + 1, Len(roles))
    BY EmptySeq, SubSeqProperties DEF RoleLists
  <2>3. BinderIsInPlace(s)'
    BY <1>1, <1>2, <1>3, <1>4, <1>5, <2>1, <2>2 DEF BinderIsInPlace
  <2>4. BoundAsAsked(s, 0)'
    BY <1>3, <1>5 DEF BoundAsAsked
  <2>5. UneditedIsAsAsked(s)'
    BY <1>1, <1>2, <1>3, <1>4, <2>1, <2>4 DEF UneditedIsAsAsked
  <2>6. NeatIsAlone(s)'
    BY <1>1, <1>2, <1>3, <1>4, <1>5, <1>6 DEF NeatIsAlone
  <2>7. NeatIsNumbered(s)'
    BY <1>1, <1>2, <1>3, <1>4, <1>5, <2>1, FS_EmptySet DEF NeatIsNumbered
  <2> QED
    BY <2>3, <2>5, <2>6, <2>7 DEF SessionIsSound
<1> QED
  BY <1>8, <1>9, <1>10 DEF RolesInv

\* A request that ends, or that waits for the row of a session to be inserted.
LEMMA RequestPausesHolds ==
  ASSUME RolesInv, NEW a \in Editors, NEW l \in EditorType, l.step \in {"idle", "insert"},
         l.step = "insert" => l.todo # <<>>, editor' = [editor EXCEPT ![a] = l],
         UNCHANGED <<life, parent, bound, asked, whole, edited, neat>>
  PROVE  RolesInv'
<1>1. /\ RolesAreTyped /\ RolesTypeOK /\ editor \in [Editors -> EditorType]
      /\ \A t \in Lineup : BoundTo(t)' = BoundTo(t)
  BY DEF RolesInv, RolesAreTyped, BoundTo
<1>2. /\ editor' \in [Editors -> EditorType] /\ editor'[a] = l
      /\ \A b \in Editors \ {a} : editor'[b] = editor[b]
  BY <1>1
<1>3. \A b \in Editors, t \in Lineup :
        /\ editor'[b] = editor[b] \/ ~Works(b, t)'
        /\ Works(b, t)' => Works(b, t)
  BY <1>2 DEF Works
<1>4. RolesTypeOK'
  BY <1>1 DEF RolesTypeOK
<1>5. RolesAreTyped'
  BY <1>1, <1>2, <1>3, <1>4 DEF RolesAreTyped
<1>6. \A t \in Lineup : SessionIsSound(t)'
  BY <1>1, <1>3, SessionStays
<1> QED
  BY <1>5, <1>6 DEF RolesInv

LEMMA RestartSessionHolds ==
  ASSUME RolesInv, NEW a \in Editors, NEW p \in Lineup, NEW s \in Lineup, RestartSession(a, p, s)
  PROVE  RolesInv'
<1>1. PICK roles \in Asks :
        editor' = [editor EXCEPT ![a] =
          [step |-> "insert", session |-> s, parent |-> p, todo |-> roles, place |-> 0]]
  BY DEF RestartSession
<1> DEFINE l == [step |-> "insert", session |-> s, parent |-> p, todo |-> roles, place |-> 0]
<1>2. l \in EditorType /\ l.step = "insert" /\ l.todo # <<>>
  BY RolesAssumption DEF EditorType, RoleLists
<1>3. editor' = [editor EXCEPT ![a] = l]
  BY <1>1
<1>4. UNCHANGED <<life, parent, bound, asked, whole, edited, neat>>
  BY DEF RestartSession
<1> HIDE DEF l
<1> QED
  BY <1>2, <1>3, <1>4, RequestPausesHolds

LEMMA InsertRestartHolds ==
  ASSUME RolesInv, NEW a \in Editors, InsertRestart(a) PROVE RolesInv'
<1> DEFINE e == editor[a]
<1>1. /\ e \in EditorType /\ e.step = "insert" /\ asked[e.session] = <<>>
      /\ e.session \in Lineup /\ e.parent \in Lineup /\ e.todo \in RoleLists /\ e.todo # <<>>
  BY DEF InsertRestart, RolesInv, RolesAreTyped, EditorType
<1>2. CASE life[e.parent] # "none"
  <2>1. InsertSession(a, e.session, e.parent, e.todo)
    BY <1>2 DEF InsertRestart
  <2> QED
    BY <1>1, <2>1, InsertSessionHolds
<1>3. CASE ~(life[e.parent] # "none")
  BY <1>3, WaitingIsTyped, RequestPausesHolds DEF InsertRestart
<1> QED
  BY <1>2, <1>3

LEMMA CreateSessionHolds ==
  ASSUME RolesInv, NEW a \in Editors, NEW s \in Lineup, CreateSession(a, s) PROVE RolesInv'
<1>1. PICK roles \in Asks : InsertSession(a, s, s, roles)
  BY DEF CreateSession
<1>2. roles \in RoleLists /\ roles # <<>> /\ asked[s] = <<>>
  BY RolesAssumption DEF CreateSession, RoleLists
<1> QED
  BY <1>1, <1>2, InsertSessionHolds

LEMMA BindRoleFailsHolds ==
  ASSUME RolesInv, NEW a \in Editors, BindRoleFails(a) PROVE RolesInv'
BY WaitingIsTyped, RequestPausesHolds DEF BindRoleFails

\* The first n + 1 roles are bound as asked once the next is.
LEMMA OneMoreIsBound ==
  ASSUME RolesAreTyped, NEW s \in Lineup, NEW n \in Nat, n < Len(asked[s]), asked' = asked,
         BoundAsAsked(s, n), NEW r, r = asked[s][n + 1],
         bound' = IF r = NoRole THEN bound ELSE Bound(s, r, n)
  PROVE  BoundAsAsked(s, n + 1)'
<1>1. \A b \in BoundTo(s) : b \in bound /\ b.place \in Nat
  BY DEF BoundTo, RolesAreTyped, RolesTypeOK
<1>2. \A i \in 1..n + 1 : i \in 1..n \/ i = n + 1
  OBVIOUS
<1>3. CASE r = NoRole \/ \E b \in BoundTo(s) : b.role = r
  <2>1. BoundTo(s)' = BoundTo(s)
    BY <1>3 DEF Bound, BoundTo
  <2> QED
    <3>1. \A b \in BoundTo(s) :
            /\ b.place < n + 1 /\ asked[s][b.place + 1] = b.role
            /\ \A i \in 1..b.place : asked[s][i] # b.role
      BY <1>1 DEF BoundAsAsked
    <3>2. \A i \in 1..n : asked[s][i] # NoRole => \E b \in BoundTo(s) : b.role = asked[s][i]
      BY DEF BoundAsAsked
    <3>3. \A i \in 1..n + 1 : asked[s][i] # NoRole => \E b \in BoundTo(s) : b.role = asked[s][i]
      BY <1>2, <1>3, <3>2
    <3> QED
      BY <2>1, <3>1, <3>3 DEF BoundAsAsked
<1>4. CASE r # NoRole /\ ~\E b \in BoundTo(s) : b.role = r
  <2> DEFINE new == Binding(s, r, n)
  <2>1. BoundTo(s)' = BoundTo(s) \cup {new}
    BY <1>4 DEF Bound, BoundTo, Binding
  <2>2. new.place = n /\ new.role = r
    BY DEF Binding
  <2>3. \A i \in 1..n : asked[s][i] # r
    BY <1>4 DEF BoundAsAsked
  <2> HIDE DEF new
  <2>4. \A b \in BoundTo(s)' :
          /\ b.place < n + 1 /\ asked[s][b.place + 1] = b.role
          /\ \A i \in 1..b.place : asked[s][i] # b.role
    BY <1>1, <2>1, <2>2, <2>3 DEF BoundAsAsked
  <2>5. \A i \in 1..n + 1 : asked[s][i] # NoRole => \E b \in BoundTo(s)' : b.role = asked[s][i]
    BY <1>2, <2>1, <2>2 DEF BoundAsAsked
  <2> QED
    BY <2>4, <2>5 DEF BoundAsAsked
<1> QED
  BY <1>3, <1>4

\* When no role was asked for twice or left empty, the next one is always new.
LEMMA OneMoreIsNumbered ==
  ASSUME RolesAreTyped, NEW s \in Lineup, NEW n \in Nat, n < Len(asked[s]), IsNeat(asked[s]),
         BoundAsAsked(s, n), NEW r, r = asked[s][n + 1], Cardinality(BoundTo(s)) = n,
         bound' = IF r = NoRole THEN bound ELSE Bound(s, r, n)
  PROVE  Cardinality(BoundTo(s)') = n + 1
<1>1. asked[s] \in RoleLists /\ n + 1 \in 1..Len(asked[s]) /\ DOMAIN asked[s] = 1..Len(asked[s])
  BY DEF RolesAreTyped, RoleLists
<1>2. \A i \in 1..Len(asked[s]) : asked[s][i] # NoRole
  BY <1>1 DEF IsNeat, Contains
<1>3. \A b \in BoundTo(s) : b.role # r
  <2> SUFFICES ASSUME NEW b \in BoundTo(s), b.role = r PROVE FALSE
    OBVIOUS
  <2>1. b.place \in Nat /\ b.place < n /\ asked[s][b.place + 1] = r
    BY DEF BoundTo, RolesAreTyped, RolesTypeOK, BoundAsAsked
  <2>2. b.place + 1 \in 1..Len(asked[s]) /\ b.place + 1 # n + 1
    BY <1>1, <2>1
  <2> QED
    BY <1>1, <2>1, <2>2 DEF IsNeat, IsInjective
<1>4. BoundTo(s)' = BoundTo(s) \cup {Binding(s, r, n)}
  BY <1>1, <1>2, <1>3 DEF Bound, BoundTo, Binding
<1>5. Binding(s, r, n) \notin BoundTo(s)
  BY <1>3 DEF Binding
<1> QED
  BY <1>4, <1>5, BoundToIsFinite, FS_AddElement

\* Once all are bound, they have the first places.
LEMMA AllAreNumbered ==
  ASSUME RolesAreTyped', NEW s \in Lineup, IsNeat(asked[s])',
         BoundAsAsked(s, Len(asked[s]))', Cardinality(BoundTo(s)') = Len(asked'[s])
  PROVE  Numbered(s)'
<1>1. asked'[s] \in RoleLists /\ Len(asked'[s]) \in Nat
  BY DEF RolesAreTyped, RoleLists
<1>2. \A i \in 1..Len(asked'[s]) : asked'[s][i] # NoRole
  BY <1>1 DEF IsNeat, Contains
<1>3. \A b \in BoundTo(s)' : b.place \in Nat /\ b \in bound' /\ b.session = s
  BY DEF BoundTo, RolesAreTyped, RolesTypeOK
<1>4. \A b, c \in BoundTo(s)' : b.place = c.place => b = c
  BY <1>3 DEF BoundAsAsked, RolesAreTyped, RolesTypeOK
<1>5. \A b \in BoundTo(s)' : b.place + 1 \in 1..Len(asked'[s])
  BY <1>1, <1>3 DEF BoundAsAsked
<1> QED
  BY <1>1, <1>2, <1>4, <1>5 DEF Numbered, BoundAsAsked

LEMMA BindRoleHolds ==
  ASSUME RolesInv, NEW a \in Editors, BindRole(a) PROVE RolesInv'
<1>0. PICK e, s, n, r, rest :
        e = editor[a] /\ s = e.session /\ n = e.place /\ r = Head(e.todo) /\ rest = Tail(e.todo)
  OBVIOUS
<1> DEFINE last == rest = <<>>
<1>1. /\ RolesAreTyped /\ RolesTypeOK /\ e \in EditorType /\ e.step = "bind" /\ s \in Lineup
      /\ n \in Nat /\ Binds(a, s) /\ SessionIsSound(s) /\ asked[s] \in RoleLists
      /\ Len(asked[s]) \in Nat /\ asked' = asked /\ life' = life
      /\ UNCHANGED <<parent, edited, neat>>
  BY <1>0 DEF BindRole, RolesInv, RolesAreTyped, EditorType, Binds, RoleLists
<1>2. CASE r # NoRole /\ life[s] = "none"
  BY <1>0, <1>2, WaitingIsTyped, RequestPausesHolds DEF BindRole
<1>3. CASE ~(r # NoRole /\ life[s] = "none")
  <2> DEFINE next == [e EXCEPT !.todo = rest, !.place = @ + 1]
             l == IF last THEN Waiting ELSE next
  <2>1. /\ bound' = IF r = NoRole THEN bound ELSE Bound(s, r, n)
        /\ editor' = [editor EXCEPT ![a] = l]
        /\ whole' = IF last THEN whole \cup {s} ELSE whole
    BY <1>0, <1>3 DEF BindRole, Place
  <2>2. /\ s \notin whole /\ n < Len(asked[s])
        /\ e.todo = SubSeq(asked[s], n + 1, Len(asked[s]))
        /\ \A b \in Editors : Binds(b, s) => b = a
    BY <1>0, <1>1 DEF SessionIsSound, BinderIsInPlace
  <2>3. /\ e.todo # <<>> /\ r = asked[s][n + 1]
        /\ rest = SubSeq(asked[s], n + 2, Len(asked[s])) /\ rest \in RoleLists
        /\ last <=> n + 1 = Len(asked[s])
    <3>1. /\ e.todo # <<>> /\ Head(e.todo) = asked[s][n + 1]
          /\ Tail(e.todo) = SubSeq(asked[s], n + 2, Len(asked[s])) /\ Tail(e.todo) \in RoleLists
          /\ (Tail(e.todo) = <<>>) <=> (n + 1 = Len(asked[s]))
      <4> HIDE <1>0
      <4> QED
        BY <1>1, <2>2, RestOfAsked
    <3> QED
      BY <1>0, <3>1
  <2>4. /\ next \in EditorType /\ next.step = "bind" /\ next.session = s /\ next.place = n + 1
        /\ next.todo = rest
    <3>1. e \in EditorType /\ rest \in RoleLists /\ n \in Nat /\ n = e.place
          /\ e.session = s /\ e.step = "bind"
      BY <1>0, <1>1, <2>3
    <3>2. n + 1 \in Nat
      BY <3>1
    <3>3. next = [[e EXCEPT !.todo = rest] EXCEPT !.place = n + 1]
      BY <3>1
    <3>4. next \in EditorType
      BY <3>1, <3>2, <3>3 DEF EditorType
    <3>5. next.step = "bind" /\ next.session = s
      BY <3>1, <3>3 DEF EditorType
    <3>6. next.place = n + 1 /\ next.todo = rest
      BY <3>1, <3>3 DEF EditorType
    <3> QED
      BY <3>4, <3>5, <3>6
  <2> HIDE DEF next
  <2>5. /\ l \in EditorType
        /\ last => l.step = "idle"
        /\ ~last => l = next
    BY <2>4, WaitingIsTyped
  <2> HIDE DEF l
  <2>6. /\ editor' \in [Editors -> EditorType] /\ editor'[a] = l
        /\ \A b \in Editors \ {a} : editor'[b] = editor[b]
    BY <1>1, <2>1, <2>5 DEF RolesAreTyped
  <2>7. /\ r \in Roles \cup {NoRole}
        /\ r # NoRole => r \in Roles /\ life[s] # "none"
    <3>1. n + 1 \in 1..Len(asked[s])
      BY <1>1, <2>2
    <3> QED
      BY <1>1, <1>3, <2>3, <3>1 DEF RoleLists
  <2>8. /\ bound' \subseteq bound \cup {Binding(s, r, n)}
        /\ r = NoRole => bound' = bound
        /\ \A t \in Lineup \ {s} : BoundTo(t)' = BoundTo(t)
    BY <2>1 DEF Bound, BoundTo, Binding
  <2>9. RolesTypeOK'
    <3>1. CASE bound' = bound
      BY <1>1, <3>1 DEF RolesTypeOK, BoundTo
    <3>2. CASE bound' # bound
      <4>1. /\ r \in Roles /\ life[s] # "none" /\ bound' = bound \cup {Binding(s, r, n)}
            /\ \A b \in BoundTo(s) : b.role # r
        BY <2>1, <2>7, <3>2 DEF Bound
      <4>2. Binding(s, r, n) \in [session : Lineup, role : Roles, place : Nat]
        BY <1>1, <4>1 DEF Binding
      <4>3. Binding(s, r, n).session = s /\ Binding(s, r, n).role = r
        BY DEF Binding
      <4>4. \A b, c \in bound' : b.session = c.session /\ b.role = c.role => b = c
        BY <1>1, <4>1, <4>3 DEF RolesTypeOK, BoundTo
      <4>5. \A t \in Lineup : life'[t] = "none" => BoundTo(t)' = {}
        BY <1>1, <2>8, <4>1 DEF RolesTypeOK
      <4> QED
        BY <1>1, <4>1, <4>2, <4>4, <4>5 DEF RolesTypeOK
    <3> QED
      BY <3>1, <3>2
  <2>10. \A b \in Editors, t \in Lineup : Works(b, t)' => Works(b, t)
    BY <1>1, <1>0, <2>4, <2>5, <2>6 DEF Works
  <2>11. RolesAreTyped'
    <3>1. IsFiniteSet(bound')
      <4>1. IsFiniteSet(bound \cup {Binding(s, r, n)})
        BY <1>1, FS_AddElement DEF RolesAreTyped
      <4> QED
        BY <2>8, <4>1, FS_Subset
    <3>2. asked[s] # <<>>
      BY <1>1, <2>2, EmptySeq
    <3>3. \A t \in Lineup : asked'[t] = <<>> =>
            /\ life'[t] = "none" /\ t \notin whole' \cup neat' \cup edited'
            /\ \A b \in Editors : ~Works(b, t)'
      BY <1>1, <2>1, <2>10, <3>2 DEF RolesAreTyped
    <3>4. \A b \in Editors :
            /\ editor'[b].step = "insert" => editor'[b].todo # <<>>
            /\ editor'[b].step \in {"count", "add", "remove"} =>
                 /\ editor'[b].todo # <<>> /\ Head(editor'[b].todo) \in Roles
                 /\ editor'[b].session \in edited'
      BY <1>1, <1>0, <2>4, <2>5, <2>6 DEF RolesAreTyped
    <3> QED
      BY <1>1, <2>1, <2>6, <2>9, <3>1, <3>3, <3>4 DEF RolesAreTyped
  <2>12. ASSUME NEW t \in Lineup \ {s} PROVE SessionIsSound(t)'
    <3>1. \A b \in Editors : editor'[b] = editor[b] \/ ~Works(b, t)'
      BY <1>1, <1>0, <2>4, <2>5, <2>6 DEF Works
    <3>2. t \in whole' <=> t \in whole
      BY <2>1
    <3> QED
      BY <1>1, <2>8, <3>1, <3>2, SessionStays
  <2>13. SessionIsSound(s)'
    <3>1. \A b \in Editors : Binds(b, s)' => b = a /\ ~last
      BY <1>0, <2>2, <2>5, <2>6 DEF Binds
    <3>2. ~last => editor'[a].place = n + 1 /\ editor'[a].todo = rest /\ n + 1 < Len(asked[s])
      <4>1. n + 1 # Len(asked[s]) => n + 1 < Len(asked[s])
        BY <1>1, <2>2
      <4> QED
        BY <2>3, <2>4, <2>5, <2>6, <4>1
    <3>3. BinderIsInPlace(s)'
      <4>1. n + 2 = (n + 1) + 1
        BY <1>1
      <4> QED
        BY <1>1, <2>1, <2>2, <2>3, <3>1, <3>2, <4>1 DEF BinderIsInPlace
    <3>4. life[s] # "none" /\ s \notin edited => BoundAsAsked(s, n + 1)'
      <4>1. life[s] # "none" /\ s \notin edited => BoundAsAsked(s, n)
        BY <1>0, <1>1 DEF SessionIsSound, UneditedIsAsAsked
      <4> QED
        BY <1>1, <2>1, <2>2, <2>3, <4>1, OneMoreIsBound
    <3>5. UneditedIsAsAsked(s)'
      BY <1>1, <2>1, <2>2, <2>3, <3>1, <3>2, <3>4 DEF UneditedIsAsAsked
    <3>6. NeatIsAlone(s)'
      BY <1>1, <1>0, <2>4, <2>5, <2>6, <2>10, <3>1 DEF SessionIsSound, NeatIsAlone, Works
    <3>7. ASSUME s \in neat, life[s] # "none"
          PROVE  /\ IsNeat(asked[s]) /\ BoundAsAsked(s, n + 1)'
                 /\ Cardinality(BoundTo(s)') = n + 1
      <4>1. IsNeat(asked[s]) /\ s \notin edited /\ BoundAsAsked(s, n) /\ Cardinality(BoundTo(s)) = n
        BY <1>0, <1>1, <3>7 DEF SessionIsSound, NeatIsAlone, NeatIsNumbered, UneditedIsAsAsked
      <4> QED
        BY <1>1, <2>1, <2>2, <2>3, <3>4, <3>7, <4>1, OneMoreIsNumbered
    <3>8. ASSUME s \in neat, life[s] # "none", last PROVE Numbered(s)'
      <4>1. Cardinality(BoundTo(s)') = Len(asked'[s]) /\ BoundAsAsked(s, Len(asked[s]))'
        BY <1>1, <2>3, <3>7, <3>8
      <4>2. IsNeat(asked[s])'
        BY <1>1, <3>7, <3>8
      <4> QED
        BY <1>1, <2>11, <4>1, <4>2, AllAreNumbered
    <3>9. s \in neat => \A b \in Editors : ~(editor'[b].step = "add" /\ editor'[b].session = s)
      BY <1>1, <1>0, <2>4, <2>5, <2>6 DEF SessionIsSound, NeatIsAlone, Works
    <3>10. NeatIsNumbered(s)'
      BY <1>1, <2>1, <2>2, <3>1, <3>2, <3>7, <3>8, <3>9 DEF NeatIsNumbered
    <3> QED
      BY <3>3, <3>5, <3>6, <3>10 DEF SessionIsSound
  <2> QED
    BY <2>11, <2>12, <2>13 DEF RolesInv
<1> QED
  BY <1>2, <1>3

LEMMA EditRolesHolds ==
  ASSUME RolesInv, NEW a \in Editors, NEW s \in Lineup, NEW r \in Roles,
         NEW step \in {"count", "remove"}, EditRoles(a, s, r, step)
  PROVE  RolesInv'
<1> DEFINE l == [step |-> step, session |-> s, parent |-> s, todo |-> <<r>>, place |-> 0]
<1>1. /\ editor[a].step = "idle" /\ life[s] = "draft"
      /\ editor' = [editor EXCEPT ![a] = l]
      /\ edited' = edited \cup {s}
      /\ neat' = IF Alone(a, s) /\ step # "remove" THEN neat ELSE neat \ {s}
      /\ UNCHANGED <<life, parent, bound, asked, whole>>
  BY DEF EditRoles
<1>2. /\ l \in EditorType /\ l.step = step /\ l.session = s /\ l.todo # <<>>
      /\ Head(l.todo) \in Roles
  BY DEF EditorType, RoleLists
<1> HIDE DEF l
<1>3. /\ RolesAreTyped /\ RolesTypeOK /\ editor \in [Editors -> EditorType]
      /\ asked[s] # <<>> /\ \A t \in Lineup : BoundTo(t)' = BoundTo(t)
  BY <1>1 DEF RolesInv, RolesAreTyped, BoundTo
<1>4. /\ editor' \in [Editors -> EditorType] /\ editor'[a] = l
      /\ \A b \in Editors \ {a} : editor'[b] = editor[b]
  BY <1>1, <1>2, <1>3
<1>5. \A b \in Editors, t \in Lineup : Works(b, t)' => Works(b, t) \/ (b = a /\ t = s)
  BY <1>2, <1>4 DEF Works
<1>6. RolesTypeOK'
  BY <1>1, <1>3 DEF RolesTypeOK
<1>7. RolesAreTyped'
  <2>1. \A t \in Lineup : asked'[t] = <<>> =>
          /\ life'[t] = "none" /\ t \notin whole' \cup neat' \cup edited'
          /\ \A b \in Editors : ~Works(b, t)'
    BY <1>1, <1>3, <1>5 DEF RolesAreTyped
  <2>2. \A b \in Editors :
          /\ editor'[b].step = "insert" => editor'[b].todo # <<>>
          /\ editor'[b].step \in {"count", "add", "remove"} =>
               /\ editor'[b].todo # <<>> /\ Head(editor'[b].todo) \in Roles
               /\ editor'[b].session \in edited'
    BY <1>1, <1>2, <1>3, <1>4 DEF RolesAreTyped
  <2> QED
    BY <1>1, <1>3, <1>4, <1>6, <2>1, <2>2 DEF RolesAreTyped
<1>8. ASSUME NEW t \in Lineup \ {s} PROVE SessionIsSound(t)'
  <2>1. \A b \in Editors : editor'[b] = editor[b] \/ ~Works(b, t)'
    BY <1>2, <1>4 DEF Works
  <2> QED
    BY <1>1, <1>3, <2>1, SessionStays
<1>9. SessionIsSound(s)'
  <2>1. SessionIsSound(s) /\ \A b \in Editors : Binds(b, s)' => Binds(b, s) /\ editor'[b] = editor[b]
    BY <1>1, <1>2, <1>4 DEF RolesInv, Binds
  <2>2. BinderIsInPlace(s)'
    BY <1>1, <2>1 DEF SessionIsSound, BinderIsInPlace
  <2>3. UneditedIsAsAsked(s)'
    BY <1>1 DEF UneditedIsAsAsked
  <2>4. ASSUME s \in neat'
        PROVE  s \in neat /\ step # "remove" /\ \A b \in Editors : Works(b, s)' => b = a
    <3>1. s \in neat /\ Alone(a, s) /\ step # "remove"
      BY <1>1, <2>4
    <3>2. \A b \in Editors : Works(b, s) => b = a
      BY <3>1 DEF Alone, Works
    <3> QED
      BY <1>5, <3>1, <3>2
  <2>5. NeatIsAlone(s)'
    BY <1>1, <1>2, <1>4, <2>1, <2>4 DEF SessionIsSound, NeatIsAlone, Works, Binds
  <2>6. NeatIsNumbered(s)'
    <3>1. s \in neat' => \A b \in Editors : ~(editor'[b].step = "add" /\ editor'[b].session = s)
      BY <1>2, <1>4, <2>4 DEF Works
    <3> QED
      BY <1>1, <1>3, <2>1, <2>4, <3>1 DEF SessionIsSound, NeatIsNumbered, Numbered
  <2> QED
    BY <2>2, <2>3, <2>5, <2>6 DEF SessionIsSound
<1> QED
  BY <1>7, <1>8, <1>9 DEF RolesInv

LEMMA CountRolesHolds ==
  ASSUME RolesInv, NEW a \in Editors, CountRoles(a) PROVE RolesInv'
<1>0. PICK e, s, n : e = editor[a] /\ s = e.session /\ n = Cardinality(BoundTo(s))
  OBVIOUS
<1>1. /\ RolesAreTyped /\ RolesTypeOK /\ editor \in [Editors -> EditorType]
      /\ e \in EditorType /\ e.step = "count" /\ s \in Lineup /\ Works(a, s) /\ SessionIsSound(s)
      /\ e.todo # <<>> /\ Head(e.todo) \in Roles /\ s \in edited
      /\ editor' = [editor EXCEPT ![a].step = "add", ![a].place = n]
      /\ UNCHANGED <<life, parent, bound, asked, whole, edited, neat>>
      /\ \A t \in Lineup : BoundTo(t)' = BoundTo(t)
  BY <1>0 DEF CountRoles, RolesInv, RolesAreTyped, EditorType, Works, BoundTo
<1>2. n \in Nat
  BY <1>0, <1>1, BoundToIsFinite
<1>3. /\ editor' \in [Editors -> EditorType]
      /\ editor'[a].step = "add" /\ editor'[a].session = s /\ editor'[a].place = n
      /\ editor'[a].todo = e.todo
      /\ \A b \in Editors \ {a} : editor'[b] = editor[b]
  BY <1>0, <1>1, <1>2 DEF EditorType
<1>4. \A b \in Editors, t \in Lineup : Works(b, t)' <=> Works(b, t)
  BY <1>0, <1>1, <1>3 DEF Works
<1>5. RolesTypeOK'
  BY <1>1 DEF RolesTypeOK
<1>6. RolesAreTyped'
  BY <1>0, <1>1, <1>3, <1>4, <1>5 DEF RolesAreTyped
<1>7. ASSUME NEW t \in Lineup \ {s} PROVE SessionIsSound(t)'
  <2>1. \A b \in Editors : editor'[b] = editor[b] \/ ~Works(b, t)'
    BY <1>3 DEF Works
  <2> QED
    BY <1>1, <2>1, SessionStays
<1>8. SessionIsSound(s)'
  <2>1. \A b \in Editors : Binds(b, s)' => Binds(b, s) /\ editor'[b] = editor[b]
    BY <1>3 DEF Binds
  <2>2. BinderIsInPlace(s)'
    BY <1>1, <2>1 DEF SessionIsSound, BinderIsInPlace
  <2>3. UneditedIsAsAsked(s)'
    BY <1>1 DEF UneditedIsAsAsked
  <2>4. NeatIsAlone(s)'
    BY <1>1, <1>3, <1>4, <2>1 DEF SessionIsSound, NeatIsAlone
  <2>5. NeatIsNumbered(s)'
    BY <1>0, <1>1, <1>3, <2>1 DEF SessionIsSound, NeatIsNumbered, Numbered
  <2> QED
    BY <2>2, <2>3, <2>4, <2>5 DEF SessionIsSound
<1> QED
  BY <1>6, <1>7, <1>8 DEF RolesInv

\* Whoever is added gets the next place.
LEMMA NewcomerIsNumbered ==
  ASSUME RolesAreTyped, NEW s \in Lineup, NEW r, Numbered(s), \A b \in BoundTo(s) : b.role # r,
         bound' = bound \cup {Binding(s, r, Cardinality(BoundTo(s)))}, asked' = asked
  PROVE  Numbered(s)'
<1> DEFINE n == Cardinality(BoundTo(s))
           new == Binding(s, r, n)
<1>1. BoundTo(s)' = BoundTo(s) \cup {new} /\ new.role = r /\ new.place = n
  BY DEF Binding, BoundTo
<1>2. new \notin BoundTo(s)
  BY <1>1
<1>3. n \in Nat /\ Cardinality(BoundTo(s)') = n + 1
  <2> HIDE DEF new
  <2> QED
    BY <1>1, <1>2, BoundToIsFinite, FS_AddElement
<1>4. asked[s] \in RoleLists /\ Len(asked[s]) \in Nat
  BY DEF RolesAreTyped, RoleLists
<1>5. \A b \in BoundTo(s) : b.place \in Nat /\ b.place < n
  BY DEF BoundTo, RolesAreTyped, RolesTypeOK, Numbered
<1>6. ~\E i \in 1..Len(asked[s]) : asked[s][i] = r
  BY DEF Numbered
<1>7. ~(n < Len(asked[s]))
  BY <1>3, <1>4 DEF Numbered
<1> HIDE DEF n, new
<1>8. \A b, c \in BoundTo(s)' : b.place = c.place => b = c
  BY <1>1, <1>3, <1>5 DEF Numbered
<1>9. \A b \in BoundTo(s)' : b.place < n + 1
  BY <1>1, <1>3, <1>5
<1>10. \A b \in BoundTo(s)' :
         (\E i \in 1..Len(asked[s]) : asked[s][i] = b.role) <=> b.place < Len(asked[s])
  BY <1>1, <1>6, <1>7 DEF Numbered
<1>11. \A i \in 1..Len(asked[s]) : \E b \in BoundTo(s)' : b.role = asked[s][i]
  BY <1>1 DEF Numbered
<1>12. Len(asked[s]) <= n + 1
  BY <1>3, <1>4, <1>7
<1> QED
  BY <1>3, <1>8, <1>9, <1>10, <1>11, <1>12 DEF Numbered

LEMMA AddRoleHolds ==
  ASSUME RolesInv, NEW a \in Editors, AddRole(a) PROVE RolesInv'
<1>0. PICK e, s, n, r : e = editor[a] /\ s = e.session /\ n = e.place /\ r = Head(e.todo)
  OBVIOUS
<1>1. /\ RolesAreTyped /\ RolesTypeOK /\ e \in EditorType /\ e.step = "add" /\ s \in Lineup
      /\ n \in Nat /\ r \in Roles /\ s \in edited /\ Works(a, s) /\ SessionIsSound(s)
      /\ bound' = IF life[s] = "none" THEN bound ELSE Bound(s, r, n)
      /\ editor' = [editor EXCEPT ![a] = Waiting]
      /\ UNCHANGED <<life, parent, asked, whole, edited, neat>>
  BY <1>0 DEF AddRole, RolesInv, RolesAreTyped, EditorType, Works
<1>2. CASE bound' = bound
  BY <1>1, <1>2, WaitingIsTyped, RequestPausesHolds
<1>3. CASE bound' # bound
  <2>1. /\ life[s] # "none" /\ bound' = bound \cup {Binding(s, r, n)}
        /\ \A b \in BoundTo(s) : b.role # r
    BY <1>1, <1>3 DEF Bound
  <2>2. /\ Binding(s, r, n) \in [session : Lineup, role : Roles, place : Nat]
        /\ Binding(s, r, n).session = s /\ Binding(s, r, n).role = r
    BY <1>1 DEF Binding
  <2>3. \A t \in Lineup \ {s} : BoundTo(t)' = BoundTo(t)
    BY <2>1, <2>2 DEF BoundTo
  <2>4. /\ editor' \in [Editors -> EditorType] /\ editor'[a].step = "idle"
        /\ \A b \in Editors \ {a} : editor'[b] = editor[b]
    BY <1>1, WaitingIsTyped DEF RolesAreTyped
  <2>5. \A b \in Editors, t \in Lineup : Works(b, t)' => Works(b, t) /\ b # a
    BY <2>4 DEF Works
  <2>6. RolesTypeOK'
    <3>1. \A b, c \in bound' : b.session = c.session /\ b.role = c.role => b = c
      BY <1>1, <2>1, <2>2 DEF RolesTypeOK, BoundTo
    <3>2. \A t \in Lineup : life'[t] = "none" => BoundTo(t)' = {}
      BY <1>1, <2>1, <2>3 DEF RolesTypeOK
    <3> QED
      BY <1>1, <2>1, <2>2, <3>1, <3>2 DEF RolesTypeOK
  <2>7. RolesAreTyped'
    <3>1. IsFiniteSet(bound')
      BY <1>1, <2>1, FS_AddElement DEF RolesAreTyped
    <3> QED
      BY <1>1, <2>4, <2>5, <2>6, <3>1 DEF RolesAreTyped
  <2>8. ASSUME NEW t \in Lineup \ {s} PROVE SessionIsSound(t)'
    <3>1. \A b \in Editors : editor'[b] = editor[b] \/ ~Works(b, t)'
      BY <2>4 DEF Works
    <3> QED
      BY <1>1, <2>3, <3>1, SessionStays
  <2>9. SessionIsSound(s)'
    <3>1. \A b \in Editors : Binds(b, s)' => Binds(b, s) /\ editor'[b] = editor[b]
      BY <2>4 DEF Binds
    <3>2. BinderIsInPlace(s)'
      BY <1>1, <3>1 DEF SessionIsSound, BinderIsInPlace
    <3>3. UneditedIsAsAsked(s)'
      BY <1>1 DEF UneditedIsAsAsked
    <3>4. NeatIsAlone(s)'
      BY <1>1, <2>4, <2>5, <3>1 DEF SessionIsSound, NeatIsAlone
    <3>5. s \in neat => \A b \in Editors : ~Works(b, s)'
      BY <1>1, <2>5 DEF SessionIsSound, NeatIsAlone
    <3>6. s \in neat /\ s \in whole => Numbered(s)'
      <4>1. s \in neat /\ s \in whole => Numbered(s) /\ n = Cardinality(BoundTo(s))
        BY <1>0, <1>1, <2>1 DEF SessionIsSound, NeatIsNumbered
      <4> QED
        BY <1>1, <2>1, <4>1, NewcomerIsNumbered
    <3>7. NeatIsNumbered(s)'
      BY <1>1, <3>5, <3>6 DEF NeatIsNumbered, Works, Binds
    <3> QED
      BY <3>2, <3>3, <3>4, <3>7 DEF SessionIsSound
  <2> QED
    BY <2>7, <2>8, <2>9 DEF RolesInv
<1> QED
  BY <1>2, <1>3

\* No neat session loses a role.
LEMMA RemoveRoleHolds ==
  ASSUME RolesInv, NEW a \in Editors, RemoveRole(a) PROVE RolesInv'
<1>0. PICK e, s : e = editor[a] /\ s = e.session
  OBVIOUS
<1>1. /\ RolesAreTyped /\ RolesTypeOK /\ e.step = "remove" /\ s \in Lineup
      /\ s \in edited /\ Works(a, s) /\ SessionIsSound(s)
      /\ bound' \subseteq bound /\ \A b \in bound : b.session # s => b \in bound'
      /\ editor' = [editor EXCEPT ![a] = Waiting]
      /\ UNCHANGED <<life, parent, asked, whole, edited, neat>>
  BY <1>0 DEF RemoveRole, RolesInv, RolesAreTyped, EditorType, Works
<1>2. s \notin neat
  BY <1>0, <1>1 DEF SessionIsSound, NeatIsAlone
<1>3. \A t \in Lineup \ {s} : BoundTo(t)' = BoundTo(t)
  BY <1>1 DEF BoundTo
<1>4. /\ editor' \in [Editors -> EditorType] /\ editor'[a].step = "idle"
      /\ \A b \in Editors \ {a} : editor'[b] = editor[b]
  BY <1>1, WaitingIsTyped DEF RolesAreTyped
<1>5. \A b \in Editors, t \in Lineup : Works(b, t)' => Works(b, t) /\ b # a
  BY <1>4 DEF Works
<1>6. RolesTypeOK'
  BY <1>1 DEF RolesTypeOK, BoundTo
<1>7. RolesAreTyped'
  <2>1. IsFiniteSet(bound')
    BY <1>1, FS_Subset DEF RolesAreTyped
  <2> QED
    BY <1>1, <1>4, <1>5, <1>6, <2>1 DEF RolesAreTyped
<1>8. ASSUME NEW t \in Lineup \ {s} PROVE SessionIsSound(t)'
  <2>1. \A b \in Editors : editor'[b] = editor[b] \/ ~Works(b, t)'
    BY <1>4 DEF Works
  <2> QED
    BY <1>1, <1>3, <2>1, SessionStays
<1>9. SessionIsSound(s)'
  <2>1. \A b \in Editors : Binds(b, s)' => Binds(b, s) /\ editor'[b] = editor[b]
    BY <1>4 DEF Binds
  <2>2. BinderIsInPlace(s)'
    BY <1>1, <2>1 DEF SessionIsSound, BinderIsInPlace
  <2> QED
    BY <1>1, <1>2, <2>2 DEF SessionIsSound, UneditedIsAsAsked, NeatIsAlone, NeatIsNumbered
<1> QED
  BY <1>7, <1>8, <1>9 DEF RolesInv

LEMMA LeaveDraftHolds ==
  ASSUME RolesInv, NEW s \in Lineup, LeaveDraft(s) PROVE RolesInv'
<1>1. /\ RolesAreTyped /\ RolesTypeOK /\ life[s] # "none"
      /\ life' = [life EXCEPT ![s] = IF @ = "draft" THEN "running" ELSE "ended"]
      /\ UNCHANGED <<parent, bound, editor, asked, whole, edited, neat>>
      /\ \A t \in Lineup : BoundTo(t)' = BoundTo(t)
  BY DEF LeaveDraft, RolesInv, RolesAreTyped, BoundTo
<1>2. life' \in [Lineup -> {"none", "draft", "running", "ended"}]
      /\ \A t \in Lineup : life'[t] = "none" <=> life[t] = "none"
  BY <1>1 DEF RolesTypeOK
<1>3. RolesTypeOK'
  BY <1>1, <1>2 DEF RolesTypeOK
<1>4. RolesAreTyped'
  BY <1>1, <1>2, <1>3 DEF RolesAreTyped, Works
<1>5. \A t \in Lineup : SessionIsSound(t)'
  BY <1>1, <1>2, SessionStays
<1> QED
  BY <1>4, <1>5 DEF RolesInv

LEMMA DeleteSessionHolds ==
  ASSUME RolesInv, NEW s \in Lineup, DeleteSession(s) PROVE RolesInv'
<1>1. /\ RolesAreTyped /\ RolesTypeOK /\ life[s] # "none"
      /\ life' = [life EXCEPT ![s] = "none"] /\ bound' = bound \ BoundTo(s)
      /\ UNCHANGED <<parent, editor, asked, whole, edited, neat>>
  BY DEF DeleteSession, RolesInv, RolesAreTyped
<1>2. /\ life' \in [Lineup -> {"none", "draft", "running", "ended"}] /\ life'[s] = "none"
      /\ \A t \in Lineup \ {s} : life'[t] = life[t] /\ BoundTo(t)' = BoundTo(t)
      /\ BoundTo(s)' = {}
  BY <1>1 DEF RolesTypeOK, BoundTo
<1>3. RolesTypeOK'
  BY <1>1, <1>2 DEF RolesTypeOK
<1>4. RolesAreTyped'
  <2>1. IsFiniteSet(bound')
    BY <1>1, FS_Subset DEF RolesAreTyped
  <2> QED
    BY <1>1, <1>2, <1>3, <2>1 DEF RolesAreTyped, Works
<1>5. \A t \in Lineup : SessionIsSound(t)'
  BY <1>1, <1>2, SessionStays
<1> QED
  BY <1>4, <1>5 DEF RolesInv

LEMMA RolesNextHolds == RolesInv /\ [RolesNext]_rolesVars => RolesInv'
<1> SUFFICES ASSUME RolesInv, [RolesNext]_rolesVars PROVE RolesInv'
  OBVIOUS
<1> USE DEF Lineup
<1>1. ASSUME NEW a \in Editors, NEW s \in Originals, CreateSession(a, s) PROVE RolesInv'
  BY <1>1, CreateSessionHolds
<1>2. ASSUME NEW a \in Editors, NEW p \in Lineup, NEW s \in Sequels, RestartSession(a, p, s)
      PROVE  RolesInv'
  BY <1>2, RestartSessionHolds
<1>3. ASSUME NEW a \in Editors,
             InsertRestart(a) \/ BindRole(a) \/ BindRoleFails(a) \/ CountRoles(a) \/ AddRole(a)
               \/ RemoveRole(a)
      PROVE  RolesInv'
  BY <1>3, InsertRestartHolds, BindRoleHolds, BindRoleFailsHolds, CountRolesHolds, AddRoleHolds,
     RemoveRoleHolds
<1>4. ASSUME NEW a \in Editors, NEW s \in Lineup, NEW r \in Roles,
             NEW step \in {"count", "remove"}, EditRoles(a, s, r, step)
      PROVE  RolesInv'
  BY <1>4, EditRolesHolds
<1>5. ASSUME NEW s \in Lineup, LeaveDraft(s) \/ DeleteSession(s) PROVE RolesInv'
  BY <1>5, LeaveDraftHolds, DeleteSessionHolds
<1>6. CASE UNCHANGED rolesVars
  <2>1. /\ UNCHANGED <<life, parent, bound, editor, asked, whole, edited, neat>>
        /\ \A t \in Lineup : BoundTo(t)' = BoundTo(t)
    BY <1>6 DEF rolesVars, BoundTo
  <2>2. RolesAreTyped /\ RolesTypeOK'
    BY <2>1 DEF RolesInv, RolesAreTyped, RolesTypeOK
  <2>3. RolesAreTyped'
    BY <2>1, <2>2 DEF RolesAreTyped, Works
  <2>4. \A t \in Lineup : SessionIsSound(t)'
    BY <2>1, SessionStays
  <2> QED
    BY <2>3, <2>4 DEF RolesInv
<1> QED
  BY <1>1, <1>2, <1>3, <1>4, <1>5, <1>6 DEF RolesNext

\* A role is first mentioned where it is bound.
LEMMA BoundWhereFirstAsked ==
  ASSUME RolesAreTyped, NEW s \in Lineup, BoundAsAsked(s, Len(asked[s])), NEW b \in BoundTo(s)
  PROVE  FirstAsked(s, b.role) = b.place + 1
<1> DEFINE First(i) == /\ asked[s][i] = b.role
                       /\ \A j \in DOMAIN asked[s] : asked[s][j] = b.role => i <= j
<1>1. /\ DOMAIN asked[s] = 1..Len(asked[s]) /\ Len(asked[s]) \in Nat
      /\ b.place \in Nat /\ b.place < Len(asked[s]) /\ asked[s][b.place + 1] = b.role
      /\ \A i \in 1..b.place : asked[s][i] # b.role
  BY DEF RolesAreTyped, RolesTypeOK, RoleLists, BoundTo, BoundAsAsked
<1>2. b.place + 1 \in DOMAIN asked[s] /\ First(b.place + 1)
  <2>1. \A j \in 1..Len(asked[s]) : j \in 1..b.place \/ b.place + 1 <= j
    BY <1>1
  <2> QED
    BY <1>1, <2>1
<1>3. \A i \in DOMAIN asked[s] : First(i) => i = b.place + 1
  BY <1>1, <1>2
<1>4. FirstAsked(s, b.role) = CHOOSE i \in DOMAIN asked[s] : First(i)
  BY DEF FirstAsked
<1> HIDE DEF First
<1> QED
  BY <1>2, <1>3, <1>4

LEMMA RolesInvSuffices == RolesInv => RolesTypeOK /\ RolesSpeakAsAsked /\ NewcomersSpeakLast
<1> SUFFICES ASSUME RolesInv PROVE RolesTypeOK /\ RolesSpeakAsAsked /\ NewcomersSpeakLast
  OBVIOUS
<1>1. RolesAreTyped /\ RolesTypeOK
  BY DEF RolesInv, RolesAreTyped
<1>2. RolesSpeakAsAsked
  <2> SUFFICES ASSUME NEW s \in whole \ edited, life[s] # "none"
               PROVE  /\ {b.role : b \in BoundTo(s)}
                           = {asked[s][i] : i \in DOMAIN asked[s]} \ {NoRole}
                      /\ \A b, c \in BoundTo(s) :
                           b.place < c.place <=> FirstAsked(s, b.role) < FirstAsked(s, c.role)
    BY DEF RolesSpeakAsAsked
  <2>1. s \in Lineup
    BY <1>1 DEF RolesAreTyped
  <2>2. BoundAsAsked(s, Len(asked[s]))
    BY <2>1 DEF RolesInv, SessionIsSound, UneditedIsAsAsked
  <2>3. DOMAIN asked[s] = 1..Len(asked[s]) /\ Len(asked[s]) \in Nat
    BY <1>1, <2>1 DEF RolesAreTyped, RoleLists
  <2>4. \A b \in BoundTo(s) : b.place \in Nat /\ b.role \in Roles
    BY <1>1 DEF RolesTypeOK, BoundTo
  <2>5. \A b \in BoundTo(s) : b.place + 1 \in DOMAIN asked[s] /\ asked[s][b.place + 1] = b.role
    BY <2>2, <2>3, <2>4 DEF BoundAsAsked
  <2>6. {b.role : b \in BoundTo(s)} = {asked[s][i] : i \in DOMAIN asked[s]} \ {NoRole}
    <3>1. \A b \in BoundTo(s) :
            b.role \in {asked[s][i] : i \in DOMAIN asked[s]} /\ b.role # NoRole
      BY <2>4, <2>5, RolesAssumption
    <3>2. \A i \in DOMAIN asked[s] : asked[s][i] # NoRole =>
            \E b \in BoundTo(s) : b.role = asked[s][i]
      BY <2>2, <2>3 DEF BoundAsAsked
    <3> QED
      BY <3>1, <3>2
  <2>7. \A b \in BoundTo(s) : FirstAsked(s, b.role) = b.place + 1
    BY <1>1, <2>1, <2>2, BoundWhereFirstAsked
  <2>8. \A b, c \in BoundTo(s) :
          b.place < c.place <=> FirstAsked(s, b.role) < FirstAsked(s, c.role)
    BY <2>4, <2>7
  <2> QED
    BY <2>6, <2>8
<1>3. NewcomersSpeakLast
  <2> SUFFICES ASSUME NEW s \in neat \cap whole, NEW b \in BoundTo(s), NEW c \in BoundTo(s)
               PROVE  /\ b.place = c.place => b = c
                      /\ b.role \in {asked[s][i] : i \in DOMAIN asked[s]}
                           /\ c.role \notin {asked[s][i] : i \in DOMAIN asked[s]} =>
                           b.place < c.place
    BY DEF NewcomersSpeakLast
  <2>1. s \in Lineup /\ life[s] # "none"
    BY <1>1 DEF RolesAreTyped, RolesTypeOK
  <2>2. Numbered(s)
    BY <2>1 DEF RolesInv, SessionIsSound, NeatIsNumbered
  <2>3. /\ DOMAIN asked[s] = 1..Len(asked[s]) /\ Len(asked[s]) \in Nat
        /\ b.place \in Nat /\ c.place \in Nat
    BY <1>1, <2>1 DEF RolesAreTyped, RolesTypeOK, RoleLists, BoundTo
  <2>4. b.place = c.place => b = c
    BY <2>2 DEF Numbered
  <2>5. ASSUME b.role \in {asked[s][i] : i \in DOMAIN asked[s]},
               c.role \notin {asked[s][i] : i \in DOMAIN asked[s]}
        PROVE  b.place < c.place
    <3>1. b.place < Len(asked[s]) /\ ~(c.place < Len(asked[s]))
      BY <2>2, <2>3, <2>5 DEF Numbered
    <3> QED
      BY <2>3, <3>1
  <2> QED
    BY <2>4, <2>5
<1> QED
  BY <1>1, <1>2, <1>3

\* However many requests create, restart, edit and delete sessions at the same time,
\* a session that was created and that nobody edited has the roles it was asked for,
\* in the order of their first mention (Create, Restart and AddSessionRole of
\* session/service.go, and the conflict clause of repository.go).
THEOREM RolesAreThoseAsked == RolesSpec => [](RolesTypeOK /\ RolesSpeakAsAsked)
<1> QED
  BY RolesInitHolds, RolesNextHolds, RolesInvSuffices, PTL DEF RolesSpec

\* Counting the roles gives whoever is added a place of their own behind the others,
\* where lists have neither repetitions nor holes and requests do not overlap
\* (AddSessionRole of session/service.go).
THEOREM PlacesAreUnique == RolesSpec => []NewcomersSpeakLast
<1> QED
  BY RolesInitHolds, RolesNextHolds, RolesInvSuffices, PTL DEF RolesSpec
==============================================================================
