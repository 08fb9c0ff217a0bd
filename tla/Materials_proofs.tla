-------------------------- MODULE Materials_proofs ---------------------------
(***************************************************************************)
(* The material store keeps what users upload, and only that, for any      *)
(* number of files, sessions, uploads, readers and restarts of the server. *)
(***************************************************************************)
EXTENDS Materials, FiniteSetTheorems, WellFoundedInduction, TLAPS

\* Every id is given out once: what is cached, was uploaded or was removed.
Known == cache \cup uploaded \cup removed

IdsAreUnique ==
  /\ \A m, n \in Known : m.id = n.id => m = n
  /\ \A m \in Known : m.id <= lastId

\* A DELETE under way is one for a material that was removed.
ErasesAreOfRemoved == erases \subseteq IdsOf(removed)

\* A reader that fills the cache has something to fill it with.
FillersHaveWork ==
  \A q \in Readers : reader[q].step = "fill" => reader[q].todo # {}

\* TypeOK but for the ids in the cache.
Typed ==
  /\ sessions \subseteq Sessions
  /\ cache \subseteq Materials
  /\ rows \subseteq Materials
  /\ inserts \subseteq Materials
  /\ erases \subseteq 1..MaxId
  /\ lastId \in 0..MaxId
  /\ reader \in [Readers -> Readings]
  /\ reboots \in 0..MaxReboots
  /\ uploaded \subseteq Materials
  /\ removed \subseteq Materials
  /\ lost \subseteq Materials
  /\ restarted \subseteq sessions

IInv == Typed /\ IdsAreUnique /\ ErasesAreOfRemoved /\ FillersHaveWork

LEMMA IInvIsTyped == IInv => TypeOK
  BY DEF IInv, Typed, IdsAreUnique, Known, TypeOK

-----------------------------------------------------------------------------
(* Sets of materials.                                                      *)

\* A set of materials with distinct ids is finite.
LEMMA UniqueIdsAreFinite ==
  ASSUME NEW S \in SUBSET Materials, \A m, n \in S : m.id = n.id => m = n
  PROVE  IsFiniteSet(S)
<1> DEFINE f == [m \in S |-> m.id]
<1>1. f \in [S -> 1..MaxId]
  BY DEF Materials
<1>2. f \in Injection(S, 1..MaxId)
  BY <1>1 DEF Injection, IsInjective
<1>3. IsFiniteSet(1..MaxId)
  BY MaterialsAssumption, FS_Interval
<1> QED
  BY <1>2, <1>3, FS_Injection

\* How many materials of S do not come after m.
RankIn(S, m) == Cardinality({n \in S : n.id <= m.id})

\* Ranks count from 1, and differ where ids do.
LEMMA RanksAreDistinct ==
  ASSUME NEW S \in SUBSET Materials, IsFiniteSet(S), NEW m \in S
  PROVE  /\ RankIn(S, m) \in 1..Cardinality(S)
         /\ \A n \in S : m.id < n.id => RankIn(S, m) < RankIn(S, n)
<1> DEFINE UpTo(n) == {l \in S : l.id <= n.id}
<1>0. \A n \in S : n.id \in Nat
  BY DEF Materials
<1>1. \A n \in S : IsFiniteSet(UpTo(n)) /\ Cardinality(UpTo(n)) <= Cardinality(S)
  BY FS_Subset
<1>2. \A n \in S : Cardinality(UpTo(n)) \in Nat
  BY <1>1, FS_CardinalityType
<1>3. Cardinality(S) \in Nat
  BY FS_CardinalityType
<1>4. Cardinality(UpTo(m)) # 0
  <2>1. m \in UpTo(m)
    BY <1>0
  <2> QED
    BY <1>1, <2>1, FS_EmptySet
<1>5. ASSUME NEW n \in S, m.id < n.id
      PROVE  Cardinality(UpTo(m)) < Cardinality(UpTo(n))
  <2>1. UpTo(m) \subseteq UpTo(n) /\ n \in UpTo(n) /\ n \notin UpTo(m)
    BY <1>0, <1>5
  <2> HIDE DEF UpTo
  <2>2. /\ Cardinality(UpTo(m)) <= Cardinality(UpTo(n))
        /\ Cardinality(UpTo(n)) = Cardinality(UpTo(m)) => UpTo(n) = UpTo(m)
    BY <1>1, <2>1, FS_Subset
  <2> QED
    BY <1>2, <2>1, <2>2
<1> HIDE DEF UpTo
<1>6. Cardinality(UpTo(m)) \in 1..Cardinality(S)
  BY <1>1, <1>2, <1>3, <1>4
<1>7. \A n \in S : m.id < n.id => Cardinality(UpTo(m)) < Cardinality(UpTo(n))
  BY <1>5
<1> QED
  BY <1>6, <1>7 DEF RankIn, UpTo

\* Some materials have a first one.
LEMMA FirstIsOneOfThem ==
  ASSUME NEW S \in SUBSET Materials, S # {}
  PROVE  First(S) \in S
<1> DEFINE R == OpToRel(<, Nat)
           T == {m.id : m \in S}
<1>1. IsWellFoundedOn(R, Nat)
  BY NatLessThanWellFounded
<1>2. T \subseteq Nat /\ T # {}
  BY DEF Materials
<1>3. \E x \in T : \A y \in T : ~ (<<y, x>> \in R)
  <2> HIDE DEF R, T
  <2> QED
    BY <1>1, <1>2, WFMin
<1>4. \E x \in T : \A y \in T : x <= y
  <2>1. \A x, y \in Nat : y < x => <<y, x>> \in R
    BY DEF OpToRel
  <2> HIDE DEF R, T
  <2>2. PICK x \in T : \A y \in T : ~ (<<y, x>> \in R)
    BY <1>3
  <2>3. \A y \in T : ~ (y < x)
    BY <1>2, <2>1, <2>2
  <2>4. \A y \in T : x <= y
    BY <1>2, <2>3
  <2> QED
    BY <2>4
<1>5. \E m \in S : \A n \in S : m.id <= n.id
  BY <1>4
<1> QED
  BY <1>5 DEF First

-----------------------------------------------------------------------------
(* The steps.                                                              *)

LEMMA IdleIsReading ==
  ASSUME NEW s \in Sessions
  PROVE  /\ Idle(s) \in Readings
         /\ [Idle(s) EXCEPT !.step = "query"] \in Readings
  BY DEF Idle, Readings

\* A reader that has found some rows has them to add, or has returned.
LEMMA FillingIsReading ==
  ASSUME NEW r \in Readings, NEW found \in SUBSET Materials
  PROVE  /\ Filling(r, found) \in Readings
         /\ Filling(r, found).step = "fill" => Filling(r, found).todo # {}
<1>1. CASE found # {}
  BY <1>1 DEF Filling, Readings
<1>2. CASE found = {} /\ r.from = r.to
  BY <1>2, IdleIsReading DEF Filling, Returned, Readings, Idle
<1>3. CASE found = {} /\ r.from # r.to
  BY <1>3 DEF Filling, Returned, Readings
<1> QED
  BY <1>1, <1>2, <1>3

LEMMA InitHolds == Init => IInv
<1> SUFFICES ASSUME Init
             PROVE  IInv
  OBVIOUS
<1>1. \A q \in Readers : reader[q] \in Readings /\ reader[q].step = "idle"
  <2>1. PICK s \in Sessions : reader = [q \in Readers |-> Idle(s)]
    BY DEF Init
  <2> QED
    BY <2>1, IdleIsReading DEF Idle
<1>2. reader \in [Readers -> Readings] /\ sessions \subseteq Sessions
  BY IdleIsReading DEF Init
<1>3. Typed
  BY <1>2, MaterialsAssumption DEF Init, Typed
<1> QED
  BY <1>1, <1>3 DEF Init, IInv, IdsAreUnique, Known, ErasesAreOfRemoved, FillersHaveWork

\* A material with a new id may join what is known.
LEMMA NewIdIsUnique ==
  ASSUME IInv, NEW m, m.id = lastId + 1, lastId' = lastId + 1,
         Known' \subseteq Known \cup {m}
  PROVE  IdsAreUnique'
<1>1. lastId \in Nat /\ \A n \in Known : n.id \in Nat /\ n.id <= lastId
  BY MaterialsAssumption DEF IInv, Typed, IdsAreUnique, Known, Materials
<1> QED
  BY <1>1 DEF IInv, IdsAreUnique

LEMMA AddStep ==
  ASSUME IInv, NEW s \in Sessions, NEW f \in Files, Add(s, f)
  PROVE  IInv'
<1> DEFINE m == Material(lastId + 1, s, f)
<1>1. lastId + 1 \in 1..MaxId
  BY MaterialsAssumption DEF Add, IInv, Typed
<1>2. m \in Materials /\ m.id = lastId + 1
  BY <1>1 DEF Material, Materials
<1>3. /\ cache' = cache \cup {m} /\ inserts' = inserts \cup {m} /\ uploaded' = uploaded \cup {m}
      /\ lastId' = lastId + 1
      /\ UNCHANGED <<sessions, rows, erases, reader, reboots, removed, lost, restarted>>
  BY DEF Add
<1> HIDE DEF m
<1>4. IdsAreUnique'
  <2>1. Known' \subseteq Known \cup {m}
    BY <1>3 DEF Known
  <2> QED
    BY <1>2, <1>3, <2>1, NewIdIsUnique
<1>5. Typed'
  BY <1>1, <1>2, <1>3 DEF IInv, Typed
<1> QED
  BY <1>3, <1>4, <1>5 DEF IInv, ErasesAreOfRemoved, FillersHaveWork

LEMMA DeleteStep ==
  ASSUME IInv, NEW m \in cache, Delete(m)
  PROVE  IInv'
<1>1. m \in Materials
  BY DEF IInv, Typed
<1>2. Typed'
  BY <1>1 DEF Delete, IInv, Typed, Materials
<1>3. IdsAreUnique'
  BY DEF Delete, IInv, IdsAreUnique, Known
<1>4. ErasesAreOfRemoved'
  BY DEF Delete, IInv, ErasesAreOfRemoved, IdsOf
<1> QED
  BY <1>2, <1>3, <1>4 DEF Delete, IInv, FillersHaveWork

\* A step of a reader that leaves what is known alone.
LEMMA ReaderStep ==
  ASSUME IInv, NEW q \in Readers, NEW r \in Readings, reader' = [reader EXCEPT ![q] = r],
         r.step = "fill" => r.todo # {},
         UNCHANGED <<sessions, cache, rows, inserts, erases, lastId, reboots, history>>
  PROVE  IInv'
<1>1. Typed'
  BY DEF IInv, Typed, history
<1>2. FillersHaveWork'
  BY DEF IInv, Typed, FillersHaveWork
<1> QED
  BY <1>1, <1>2 DEF IInv, IdsAreUnique, Known, ErasesAreOfRemoved, history

LEMMA ListStep ==
  ASSUME IInv, NEW q \in Readers, NEW s \in Sessions, ListBySession(q, s)
  PROVE  IInv'
<1> DEFINE r == [Idle(s) EXCEPT !.step = "query"]
<1>1. r \in Readings /\ r.step # "fill"
  BY IdleIsReading DEF Idle
<1>2. /\ reader' = [reader EXCEPT ![q] = r]
      /\ UNCHANGED <<sessions, cache, rows, inserts, erases, lastId, reboots, history>>
  BY DEF ListBySession
<1> HIDE DEF r
<1> QED
  BY <1>1, <1>2, ReaderStep

LEMMA QueryStep ==
  ASSUME IInv, NEW q \in Readers, Query(q) \/ QueryFails(q)
  PROVE  IInv'
<1>1. reader[q] \in Readings /\ Of(rows, reader[q].from) \subseteq Materials
  BY DEF IInv, Typed, Of
<1>2. UNCHANGED <<sessions, cache, rows, inserts, erases, lastId, reboots, history>>
  BY DEF Query, QueryFails
<1>3. CASE Query(q)
  <2> DEFINE r == Filling(reader[q], Of(rows, reader[q].from))
  <2>1. reader' = [reader EXCEPT ![q] = r]
    BY <1>3 DEF Query
  <2>2. r \in Readings /\ (r.step = "fill" => r.todo # {})
    BY <1>1, FillingIsReading
  <2> HIDE DEF r
  <2> QED
    BY <1>2, <2>1, <2>2, ReaderStep
<1>4. CASE QueryFails(q)
  <2> DEFINE broken == [reader[q] EXCEPT !.stored = {}]
  <2>1. PICK found \in SUBSET Of(rows, reader[q].from) :
               reader' = [reader EXCEPT ![q] = Filling(broken, found)]
    BY <1>4 DEF QueryFails
  <2>2. broken \in Readings /\ found \in SUBSET Materials
    BY <1>1 DEF Readings
  <2> DEFINE r == Filling(broken, found)
  <2>3. r \in Readings /\ (r.step = "fill" => r.todo # {})
    BY <2>2, FillingIsReading
  <2> HIDE DEF r
  <2>4. reader' = [reader EXCEPT ![q] = r]
    BY <2>1 DEF r
  <2> QED
    BY <1>2, <2>3, <2>4, ReaderStep
<1> QED
  BY <1>3, <1>4

\* The copies of a session's materials get the ids that come next, each its own.
LEMMA CopiesAreNew ==
  ASSUME IInv, NEW s \in Sessions, NEW t \in Sessions,
         lastId + Cardinality(Of(cache, s)) <= MaxId
  PROVE  /\ Cardinality(Of(cache, s)) \in Nat
         /\ Copies(s, t) \subseteq Materials
         /\ \A c \in Copies(s, t) : c.id \in (lastId + 1)..(lastId + Cardinality(Of(cache, s)))
         /\ \A c, d \in Copies(s, t) : c.id = d.id => c = d
<1> DEFINE S == Of(cache, s)
           Copy(m) == Material(lastId + RankIn(S, m), t, m.file)
<1>1. S \in SUBSET Materials /\ \A m, n \in S : m.id = n.id => m = n
  BY DEF IInv, Typed, IdsAreUnique, Known, Of
<1>2. IsFiniteSet(S) /\ Cardinality(S) \in Nat
  BY <1>1, UniqueIdsAreFinite, FS_CardinalityType
<1>3. \A m \in S : RankIn(S, m) \in 1..Cardinality(S)
  BY <1>1, <1>2, RanksAreDistinct
<1>4. \A m, n \in S : RankIn(S, m) = RankIn(S, n) => m = n
  <2> SUFFICES ASSUME NEW m \in S, NEW n \in S, m # n
               PROVE  RankIn(S, m) # RankIn(S, n)
    OBVIOUS
  <2>1. m.id < n.id \/ n.id < m.id
    BY <1>1 DEF Materials
  <2>2. RankIn(S, m) < RankIn(S, n) \/ RankIn(S, n) < RankIn(S, m)
    BY <1>1, <1>2, <2>1, RanksAreDistinct
  <2> QED
    BY <1>3, <2>2
<1>5. Copies(s, t) = {Copy(m) : m \in S}
  BY DEF Copies, RankIn
<1>6. lastId \in Nat /\ lastId + Cardinality(S) <= MaxId /\ MaxId \in Nat
  BY MaterialsAssumption DEF IInv, Typed
<1>7. \A m \in S : /\ Copy(m) \in Materials /\ Copy(m).id = lastId + RankIn(S, m)
                   /\ Copy(m).id \in (lastId + 1)..(lastId + Cardinality(S))
  <2> SUFFICES ASSUME NEW m \in S
               PROVE  /\ Copy(m) \in Materials /\ Copy(m).id = lastId + RankIn(S, m)
                      /\ Copy(m).id \in (lastId + 1)..(lastId + Cardinality(S))
    OBVIOUS
  <2>1. lastId + RankIn(S, m) \in (lastId + 1)..(lastId + Cardinality(S)) /\ lastId + RankIn(S, m) \in 1..MaxId
    BY <1>2, <1>3, <1>6
  <2>2. m.file \in Files
    BY <1>1 DEF Materials
  <2> QED
    BY <2>1, <2>2 DEF Material, Materials
<1> HIDE DEF S, Copy
<1>8. \A m, n \in S : Copy(m).id = Copy(n).id => m = n
  <2> SUFFICES ASSUME NEW m \in S, NEW n \in S, Copy(m).id = Copy(n).id
               PROVE  m = n
    OBVIOUS
  <2>1. RankIn(S, m) \in Nat /\ RankIn(S, n) \in Nat
    BY <1>2, <1>3
  <2>2. RankIn(S, m) = RankIn(S, n)
    BY <1>6, <1>7, <2>1
  <2> QED
    BY <1>4, <2>2
<1>9. /\ Copies(s, t) \subseteq Materials
      /\ \A c \in Copies(s, t) : c.id \in (lastId + 1)..(lastId + Cardinality(S))
      /\ \A c, d \in Copies(s, t) : c.id = d.id => c = d
  BY <1>5, <1>7, <1>8
<1> QED
  BY <1>2, <1>9 DEF S

LEMMA CopyStep ==
  ASSUME IInv, NEW q \in Readers, NEW s \in Sessions, NEW t \in Sessions, CopyToSession(q, s, t)
  PROVE  IInv'
<1> DEFINE k == Cardinality(Of(cache, s))
           new == Copies(s, t)
           r == [Idle(s) EXCEPT !.step = "query", !.to = t, !.due = FilesOf(cache, s),
                                 !.stored = Of(rows, s)]
<1>1. /\ sessions' = sessions \cup {t} /\ cache' = cache \cup new /\ lastId' = lastId + k
      /\ reader' = [reader EXCEPT ![q] = r]
      /\ restarted' = restarted \cup {t}
      /\ UNCHANGED <<rows, inserts, erases, reboots, uploaded, removed, lost>>
      /\ lastId + k <= MaxId
  BY DEF CopyToSession
<1>2. /\ k \in Nat /\ new \subseteq Materials
      /\ \A c \in new : c.id \in (lastId + 1)..(lastId + k)
      /\ \A c, d \in new : c.id = d.id => c = d
  BY <1>1, CopiesAreNew
<1>3. r \in Readings /\ r.step = "query"
  <2>1. FilesOf(cache, s) \subseteq Files /\ Of(rows, s) \subseteq Materials
    BY DEF FilesOf, Of, IInv, Typed, Materials
  <2> QED
    BY <2>1 DEF Idle, Readings
<1> HIDE DEF k, new, r
<1>4. lastId \in Nat /\ lastId' \in 0..MaxId /\ lastId' \in Nat
  BY <1>1, <1>2, MaterialsAssumption DEF IInv, Typed
<1>5. Typed'
  BY <1>1, <1>2, <1>3, <1>4 DEF IInv, Typed
<1>6. IdsAreUnique'
  <2>1. Known' = Known \cup new
    BY <1>1 DEF Known
  <2>2. \A m \in Known : m.id \in Nat /\ m.id <= lastId
    BY DEF IInv, Typed, IdsAreUnique, Known, Materials
  <2>3. \A c \in new : c.id \in Nat /\ c.id > lastId /\ c.id <= lastId'
    BY <1>1, <1>2, <1>4
  <2>4. \A m \in Known : m.id <= lastId'
    BY <1>1, <1>2, <1>4, <2>2
  <2>5. \A m \in Known, c \in new : m.id # c.id
    BY <1>4, <2>2, <2>3
  <2> QED
    BY <1>2, <2>1, <2>3, <2>4, <2>5 DEF IInv, IdsAreUnique
<1>7. FillersHaveWork'
  BY <1>1, <1>3 DEF IInv, Typed, FillersHaveWork
<1> QED
  BY <1>1, <1>5, <1>6, <1>7 DEF IInv, ErasesAreOfRemoved

LEMMA FillStep ==
  ASSUME IInv, NEW q \in Readers, Fill(q)
  PROVE  IInv'
<1> DEFINE m == First(reader[q].todo)
           rest == reader[q].todo \ {m}
           new == Material(lastId + 1, reader[q].to, m.file)
           r == Filling(reader[q], rest)
<1>1. reader[q] \in Readings /\ reader[q].todo # {} /\ reader[q].todo \in SUBSET Materials
  BY DEF Fill, IInv, Typed, FillersHaveWork, Readings
<1>2. m \in Materials
  BY <1>1, FirstIsOneOfThem
<1>3. /\ cache' = cache \cup {new} /\ lastId' = lastId + 1 /\ reader' = [reader EXCEPT ![q] = r]
      /\ UNCHANGED <<sessions, rows, inserts, erases, reboots, history>>
      /\ lastId < MaxId
  BY DEF Fill, Cached
<1>4. lastId + 1 \in 1..MaxId
  BY <1>3, MaterialsAssumption DEF IInv, Typed
<1>5. new \in Materials /\ new.id = lastId + 1
  BY <1>1, <1>2, <1>4 DEF Material, Materials, Readings
<1>6. r \in Readings /\ (r.step = "fill" => r.todo # {})
  BY <1>1, FillingIsReading
<1> HIDE DEF m, new, r
<1>7. Typed'
  BY <1>3, <1>4, <1>5, <1>6 DEF IInv, Typed, history
<1>8. IdsAreUnique'
  <2>1. Known' \subseteq Known \cup {new}
    BY <1>3 DEF Known, history
  <2> QED
    BY <1>3, <1>5, <2>1, NewIdIsUnique
<1>9. FillersHaveWork'
  BY <1>3, <1>6 DEF IInv, Typed, FillersHaveWork
<1> QED
  BY <1>3, <1>7, <1>8, <1>9 DEF IInv, ErasesAreOfRemoved, history

LEMMA TableStep ==
  ASSUME IInv,
         \/ \E m \in inserts : Insert(m) \/ InsertFails(m)
         \/ \E id \in erases : Erase(id)
  PROVE  IInv'
<1>1. Typed'
  BY DEF Insert, InsertFails, Erase, IInv, Typed, history
<1>2. UNCHANGED <<cache, uploaded, removed, lastId, reader>> /\ erases' \subseteq erases
  BY DEF Insert, InsertFails, Erase, history
<1> QED
  BY <1>1, <1>2 DEF IInv, IdsAreUnique, Known, ErasesAreOfRemoved, FillersHaveWork

LEMMA RebootStep == IInv /\ Reboot => IInv'
<1> SUFFICES ASSUME IInv, Reboot
             PROVE  IInv'
  OBVIOUS
<1>1. \A q \in Readers : Idle(reader[q].from) \in Readings /\ Idle(reader[q].from).step = "idle"
  BY IdleIsReading DEF IInv, Typed, Readings, Idle
<1>2. reader' \in [Readers -> Readings] /\ \A q \in Readers : reader'[q].step = "idle"
  BY <1>1 DEF Reboot
<1>3. Typed'
  BY <1>2, MaterialsAssumption DEF Reboot, IInv, Typed
<1> QED
  BY <1>2, <1>3 DEF Reboot, IInv, IdsAreUnique, Known, ErasesAreOfRemoved, FillersHaveWork

LEMMA NextHolds == IInv /\ [Next]_vars => IInv'
<1> SUFFICES ASSUME IInv, [Next]_vars
             PROVE  IInv'
  OBVIOUS
<1>1. CASE UNCHANGED vars
  BY <1>1 DEF vars, history, IInv, Typed, IdsAreUnique, Known, ErasesAreOfRemoved, FillersHaveWork
<1>2. ASSUME NEW q \in Readers, Read(q)
      PROVE  IInv'
  BY <1>2, QueryStep, FillStep DEF Read
<1> QED
  BY <1>1, <1>2, AddStep, DeleteStep, ListStep, CopyStep, TableStep, RebootStep DEF Next

-----------------------------------------------------------------------------
\* Every variable keeps its type; in particular no two cached materials share an id,
\* however listings, copies and uploads interleave (byID, material.go).
THEOREM MaterialsAreTyped == Spec => []TypeOK
<1> QED
  BY InitHolds, NextHolds, IInvIsTyped, PTL DEF Spec

\* No listing, copy, restart or deletion of another material takes an upload away
\* (PGMaterialStore.Add and Delete, pg_material_store.go).
THEOREM UploadsStay == Spec => []UploadsAreKept
<1>1. Init => UploadsAreKept
  BY DEF Init, UploadsAreKept
<1>2. IInv /\ UploadsAreKept /\ [Next]_vars => UploadsAreKept'
  <2> SUFFICES ASSUME IInv, UploadsAreKept, [Next]_vars
               PROVE  UploadsAreKept'
    OBVIOUS
  <2>1. ASSUME NEW id \in erases, Erase(id)
        PROVE  UploadsAreKept'
    <3>1. PICK r \in removed : r.id = id
      BY DEF IInv, ErasesAreOfRemoved, IdsOf
    <3>2. \A m \in uploaded \ removed : m.id # id
      BY <3>1 DEF IInv, IdsAreUnique, Known
    <3>3. \A m \in uploaded \ removed : m \in rows => m \in rows'
      BY <2>1, <3>2 DEF Erase, Matching
    <3>4. UNCHANGED <<uploaded, removed, inserts, lost>>
      BY <2>1 DEF Erase, history
    <3> QED
      BY <3>3, <3>4 DEF UploadsAreKept
  <2>2. CASE \/ \E s \in Sessions, f \in Files : Add(s, f)
             \/ \E m \in cache : Delete(m)
             \/ Reboot
    BY <2>2 DEF Add, Delete, Reboot, UploadsAreKept
  <2>3. CASE \E m \in inserts : Insert(m) \/ InsertFails(m)
    BY <2>3 DEF Insert, InsertFails, UploadsAreKept, history
  <2>4. CASE \/ \E q \in Readers, s \in Sessions :
                  ListBySession(q, s) \/ \E t \in Sessions : CopyToSession(q, s, t)
             \/ \E q \in Readers : Read(q)
             \/ UNCHANGED vars
    BY <2>4 DEF ListBySession, CopyToSession, Read, Query, QueryFails, Fill, Cached, vars,
                history, UploadsAreKept
  <2> QED
    BY <2>1, <2>2, <2>3, <2>4 DEF Next
<1> QED
  BY <1>1, <1>2, InitHolds, NextHolds, PTL DEF Spec

\* What the code writes to the table: uploads, of copies not even those it is to write.
WrittenAreUploads == rows \cup inserts \subseteq uploaded

LEMMA WrittenHolds == WrittenAreUploads /\ [Next]_vars => WrittenAreUploads'
<1> SUFFICES ASSUME WrittenAreUploads, [Next]_vars
             PROVE  WrittenAreUploads'
  OBVIOUS
<1>1. CASE \/ \E s \in Sessions, f \in Files : Add(s, f)
           \/ \E m \in cache : Delete(m)
           \/ Reboot
  BY <1>1 DEF Add, Delete, Reboot, WrittenAreUploads
<1>2. CASE \/ \E m \in inserts : Insert(m) \/ InsertFails(m)
           \/ \E id \in erases : Erase(id)
  BY <1>2 DEF Insert, InsertFails, Erase, WrittenAreUploads, history
<1>3. CASE \/ \E q \in Readers, s \in Sessions :
                ListBySession(q, s) \/ \E t \in Sessions : CopyToSession(q, s, t)
           \/ \E q \in Readers : Read(q)
           \/ UNCHANGED vars
  BY <1>3 DEF ListBySession, CopyToSession, Read, Query, QueryFails, Fill, Cached, vars,
              history, WrittenAreUploads
<1> QED
  BY <1>1, <1>2, <1>3 DEF Next

\* A listing stores nothing: what loadFromDB reloads is cached under new ids and never
\* written (loadFromDB, pg_material_store.go).
THEOREM ListingsLeaveTheTable == Spec => []ListingsStoreNothing
<1>1. Init => WrittenAreUploads
  BY DEF Init, WrittenAreUploads
<1>2. WrittenAreUploads => ListingsStoreNothing
  BY DEF WrittenAreUploads, ListingsStoreNothing
<1> QED
  BY <1>1, <1>2, WrittenHolds, PTL DEF Spec

-----------------------------------------------------------------------------
(* Copies.                                                                 *)

\* What the reading r is owed when the materials gone are deleted.
Owed(r, gone) == r.due \cup {m.file : m \in r.stored \ gone}

\* A copy on its way: what it is owed is held for the new session or still to be
\* added, and before the table is read the rows it is owed are in the table.
OnTrack(r, held, gone, table) ==
  /\ r.step = "query" /\ r.from # r.to =>
       r.due \subseteq FilesOf(held, r.to) /\ r.stored \ gone \subseteq Of(table, r.from)
  /\ r.step \in {"fill", "copied"} /\ r.from # r.to =>
       Owed(r, gone) \subseteq FilesOf(held, r.to) \cup {m.file : m \in r.todo}
  /\ r.step = "copied" => r.todo = {} /\ r.from # r.to

CopiesProgress == \A q \in Readers : OnTrack(reader[q], cache \cup removed, removed, rows)

\* A copy stays on track while nothing held is lost and no row but of deleted materials.
LEMMA StaysOnTrack ==
  ASSUME NEW r, NEW held, NEW gone, NEW table, NEW held2, NEW gone2, NEW table2,
         OnTrack(r, held, gone, table),
         held \subseteq held2, gone \subseteq gone2, table \ gone2 \subseteq table2
  PROVE  OnTrack(r, held2, gone2, table2)
<1>1. FilesOf(held, r.to) \subseteq FilesOf(held2, r.to)
  BY DEF FilesOf, Of
<1>2. Owed(r, gone2) \subseteq Owed(r, gone)
  BY DEF Owed
<1>3. r.stored \ gone \subseteq Of(table, r.from) => r.stored \ gone2 \subseteq Of(table2, r.from)
  BY DEF Of
<1> QED
  BY <1>1, <1>2, <1>3 DEF OnTrack

\* With the rows found, the reading r has what it is owed.
MakesUp(r, found, held, gone) ==
  r.from # r.to => Owed(r, gone) \subseteq FilesOf(held, r.to) \cup {m.file : m \in found}

\* A reader that has found rows is on track when they make up for what it is owed.
LEMMA FillingIsOnTrack ==
  ASSUME NEW r \in Readings, NEW found, NEW held, NEW gone, NEW table,
         MakesUp(r, found, held, gone)
  PROVE  OnTrack(Filling(r, found), held, gone, table)
<1> DEFINE s == Filling(r, found)
<1>1. CASE found # {}
  <2>1. /\ s.step = "fill" /\ s.todo = found /\ s.from = r.from /\ s.to = r.to
        /\ s.due = r.due /\ s.stored = r.stored
    BY <1>1 DEF Filling, Readings
  <2> HIDE DEF s
  <2>2. OnTrack(s, held, gone, table)
    BY <2>1 DEF OnTrack, Owed, MakesUp
  <2> QED
    BY <2>2 DEF s
<1>2. CASE found = {} /\ r.from = r.to
  <2>1. s.step = "idle"
    BY <1>2 DEF Filling, Returned, Idle
  <2> HIDE DEF s
  <2>2. OnTrack(s, held, gone, table)
    BY <2>1 DEF OnTrack
  <2> QED
    BY <2>2 DEF s
<1>3. CASE found = {} /\ r.from # r.to
  <2>1. /\ s.step = "copied" /\ s.todo = {} /\ s.from = r.from /\ s.to = r.to
        /\ s.due = r.due /\ s.stored = r.stored
    BY <1>3 DEF Filling, Returned, Readings
  <2> HIDE DEF s
  <2>2. Owed(r, gone) = Owed(s, gone)
    BY <2>1 DEF Owed
  <2>3. Owed(s, gone) \subseteq FilesOf(held, s.to)
    BY <1>3, <2>1, <2>2 DEF MakesUp
  <2>4. OnTrack(s, held, gone, table)
    BY <1>3, <2>1, <2>3 DEF OnTrack
  <2> QED
    BY <2>4 DEF s
<1> QED
  BY <1>1, <1>2, <1>3

\* A step that moves at most the reader q and loses nothing that is owed.
LEMMA ReaderProgress ==
  ASSUME IInv, CopiesProgress, NEW q \in Readers, NEW r, reader' = [reader EXCEPT ![q] = r],
         cache \cup removed \subseteq cache' \cup removed', removed' = removed, rows' = rows,
         OnTrack(r, cache' \cup removed', removed', rows')
  PROVE  CopiesProgress'
<1> SUFFICES ASSUME NEW p \in Readers
             PROVE  OnTrack(reader'[p], cache' \cup removed', removed', rows')
  BY DEF CopiesProgress
<1>1. reader'[p] = IF p = q THEN r ELSE reader[p]
  BY DEF IInv, Typed
<1>2. OnTrack(reader[p], cache' \cup removed', removed', rows')
  <2>1. OnTrack(reader[p], cache \cup removed, removed, rows)
    BY DEF CopiesProgress
  <2>2. removed \subseteq removed' /\ rows \ removed' \subseteq rows'
    OBVIOUS
  <2> QED
    BY <2>1, <2>2, StaysOnTrack
<1> QED
  BY <1>1, <1>2

\* The same of a step in which no reader takes part.
LEMMA OthersProgress ==
  ASSUME CopiesProgress, UNCHANGED reader, cache \cup removed \subseteq cache' \cup removed',
         removed \subseteq removed', rows \ removed' \subseteq rows'
  PROVE  CopiesProgress'
<1>1. \A q \in Readers : OnTrack(reader[q], cache' \cup removed', removed', rows')
  BY StaysOnTrack DEF CopiesProgress
<1> QED
  BY <1>1 DEF CopiesProgress

LEMMA ListProgress ==
  ASSUME IInv, CopiesProgress, NEW q \in Readers, NEW s \in Sessions, ListBySession(q, s)
  PROVE  CopiesProgress'
<1> DEFINE r == [Idle(s) EXCEPT !.step = "query"]
<1>1. r.step = "query" /\ r.from = r.to
  BY DEF Idle
<1>2. reader' = [reader EXCEPT ![q] = r] /\ UNCHANGED <<cache, removed, rows>>
  BY DEF ListBySession, history
<1> HIDE DEF r
<1>3. OnTrack(r, cache' \cup removed', removed', rows')
  BY <1>1 DEF OnTrack
<1> QED
  BY <1>2, <1>3, ReaderProgress

LEMMA CopyProgress ==
  ASSUME IInv, CopiesProgress, NEW q \in Readers, NEW s \in Sessions, NEW t \in Sessions,
         CopyToSession(q, s, t)
  PROVE  CopiesProgress'
<1> DEFINE r == [Idle(s) EXCEPT !.step = "query", !.to = t, !.due = FilesOf(cache, s),
                                !.stored = Of(rows, s)]
<1>1. /\ r.step = "query" /\ r.to = t /\ r.from = s
      /\ r.due = FilesOf(cache, s) /\ r.stored = Of(rows, s)
  BY DEF Idle
<1>2. /\ reader' = [reader EXCEPT ![q] = r]
      /\ cache' = cache \cup Copies(s, t)
      /\ UNCHANGED <<removed, rows>>
  BY DEF CopyToSession
<1> HIDE DEF r
<1>3. FilesOf(cache, s) \subseteq FilesOf(cache' \cup removed', t)
  <2>1. ASSUME NEW m \in Of(cache, s)
        PROVE  \E n \in Copies(s, t) : n.session = t /\ n.file = m.file
    <3> DEFINE id == lastId + Cardinality({n \in Of(cache, s) : n.id <= m.id})
    <3>1. Material(id, t, m.file) \in Copies(s, t)
      BY DEF Copies
    <3> HIDE DEF id
    <3> QED
      BY <3>1 DEF Material
  <2> QED
    BY <1>2, <2>1 DEF FilesOf, Of
<1>4. r.stored \ removed' \subseteq Of(rows', r.from)
  BY <1>1, <1>2
<1>5. OnTrack(r, cache' \cup removed', removed', rows')
  BY <1>1, <1>3, <1>4 DEF OnTrack
<1> QED
  BY <1>2, <1>5, ReaderProgress

LEMMA QueryProgress ==
  ASSUME IInv, CopiesProgress, NEW q \in Readers, Query(q) \/ QueryFails(q)
  PROVE  CopiesProgress'
<1>0. reader[q] \in Readings /\ reader[q].step = "query"
  BY DEF IInv, Typed, Query, QueryFails
<1>1. UNCHANGED <<cache, removed, rows>>
  BY DEF Query, QueryFails, history
<1>2. OnTrack(reader[q], cache \cup removed, removed, rows)
  BY DEF CopiesProgress
<1>3. CASE Query(q)
  <2> DEFINE found == Of(rows, reader[q].from)
             r == Filling(reader[q], found)
  <2>1. reader' = [reader EXCEPT ![q] = r]
    BY <1>3 DEF Query
  <2>2. MakesUp(reader[q], found, cache \cup removed, removed)
    BY <1>0, <1>2 DEF OnTrack, Owed, MakesUp
  <2>3. OnTrack(r, cache \cup removed, removed, rows)
    BY <1>0, <2>2, FillingIsOnTrack
  <2> HIDE DEF r
  <2> QED
    BY <1>1, <2>1, <2>3, ReaderProgress
<1>4. CASE QueryFails(q)
  <2> DEFINE broken == [reader[q] EXCEPT !.stored = {}]
  <2>1. PICK found \in SUBSET Of(rows, reader[q].from) :
               reader' = [reader EXCEPT ![q] = Filling(broken, found)]
    BY <1>4 DEF QueryFails
  <2> DEFINE r == Filling(broken, found)
  <2>2. /\ broken \in Readings /\ broken.step = "query" /\ broken.stored = {}
        /\ broken.due = reader[q].due /\ broken.from = reader[q].from /\ broken.to = reader[q].to
    BY <1>0 DEF Readings
  <2> HIDE DEF broken
  <2>3. Owed(broken, removed) = reader[q].due
    BY <2>2 DEF Owed
  <2>4. MakesUp(broken, found, cache \cup removed, removed)
    BY <1>0, <1>2, <2>2, <2>3 DEF OnTrack, MakesUp
  <2>5. OnTrack(r, cache \cup removed, removed, rows)
    BY <2>2, <2>4, FillingIsOnTrack
  <2>6. reader' = [reader EXCEPT ![q] = r]
    BY <2>1
  <2> HIDE DEF r
  <2> QED
    BY <1>1, <2>5, <2>6, ReaderProgress
<1> QED
  BY <1>3, <1>4

LEMMA FillProgress ==
  ASSUME IInv, CopiesProgress, NEW q \in Readers, Fill(q)
  PROVE  CopiesProgress'
<1> DEFINE m == First(reader[q].todo)
           rest == reader[q].todo \ {m}
           new == Material(lastId + 1, reader[q].to, m.file)
           r == Filling(reader[q], rest)
<1>0. reader[q] \in Readings /\ reader[q].step = "fill"
  BY DEF IInv, Typed, Fill
<1>1. /\ cache' = cache \cup {new}
      /\ UNCHANGED <<removed, rows>>
      /\ reader' = [reader EXCEPT ![q] = r]
  BY DEF Fill, Cached, history
<1>2. new.session = reader[q].to /\ new.file = m.file
  BY DEF Material
<1> HIDE DEF m, new
<1>3. m.file \in FilesOf(cache' \cup removed', reader[q].to)
  BY <1>1, <1>2 DEF FilesOf, Of
<1>4. FilesOf(cache \cup removed, reader[q].to) \subseteq FilesOf(cache' \cup removed', reader[q].to)
  BY <1>1 DEF FilesOf, Of
<1>5. MakesUp(reader[q], rest, cache' \cup removed', removed')
  <2>1. reader[q].from # reader[q].to =>
          Owed(reader[q], removed) \subseteq FilesOf(cache \cup removed, reader[q].to)
                                               \cup {n.file : n \in reader[q].todo}
    BY <1>0 DEF CopiesProgress, OnTrack
  <2>2. {n.file : n \in reader[q].todo} \subseteq {m.file} \cup {n.file : n \in rest}
    OBVIOUS
  <2>3. removed' = removed
    BY <1>1
  <2> QED
    BY <1>3, <1>4, <2>1, <2>2, <2>3 DEF MakesUp
<1> HIDE DEF rest
<1>6. OnTrack(r, cache' \cup removed', removed', rows')
  BY <1>0, <1>5, FillingIsOnTrack
<1> HIDE DEF r
<1>7. cache \cup removed \subseteq cache' \cup removed'
  BY <1>1
<1> QED
  BY <1>1, <1>6, <1>7, ReaderProgress

\* A DELETE takes no row but of a deleted material.
LEMMA EraseProgress ==
  ASSUME IInv, WrittenAreUploads, CopiesProgress, NEW id \in erases, Erase(id)
  PROVE  CopiesProgress'
<1>1. PICK n \in removed : n.id = id
  BY DEF IInv, ErasesAreOfRemoved, IdsOf
<1>2. \A m \in rows : m.id = id => m \in removed
  BY <1>1 DEF IInv, IdsAreUnique, Known, WrittenAreUploads
<1>3. UNCHANGED <<reader, cache, removed>>
  BY DEF Erase, history
<1>4. rows \ removed' \subseteq rows'
  BY <1>2, <1>3 DEF Erase, Matching
<1> QED
  BY <1>3, <1>4, OthersProgress

\* A restarted session has every file its parent had when its copy was asked for, but for
\* what a failed read of the table left out, however the copy is interleaved with
\* uploads, deletions, listings and other copies (CopyToSession and loadFromDB,
\* pg_material_store.go).
THEOREM CopiesAreComplete == Spec => []CopyIsComplete
<1>1. Init => CopiesProgress /\ WrittenAreUploads
  BY DEF Init, CopiesProgress, OnTrack, Idle, WrittenAreUploads
<1>2. IInv /\ WrittenAreUploads /\ CopiesProgress /\ [Next]_vars => CopiesProgress'
  <2> SUFFICES ASSUME IInv, WrittenAreUploads, CopiesProgress, [Next]_vars
               PROVE  CopiesProgress'
    OBVIOUS
  <2>1. CASE \/ \E s \in Sessions, f \in Files : Add(s, f)
             \/ \E m \in cache : Delete(m)
             \/ \E m \in inserts : Insert(m) \/ InsertFails(m)
             \/ UNCHANGED vars
    BY <2>1, OthersProgress DEF Add, Delete, Insert, InsertFails, vars, history
  <2>2. CASE \E id \in erases : Erase(id)
    BY <2>2, EraseProgress
  <2>3. ASSUME NEW q \in Readers, NEW s \in Sessions,
               ListBySession(q, s) \/ \E t \in Sessions : CopyToSession(q, s, t)
        PROVE  CopiesProgress'
    BY <2>3, ListProgress, CopyProgress
  <2>4. ASSUME NEW q \in Readers, Read(q)
        PROVE  CopiesProgress'
    BY <2>4, QueryProgress, FillProgress DEF Read
  <2>5. CASE Reboot
    <3>1. \A q \in Readers : reader'[q].step = "idle"
      BY <2>5 DEF Reboot, Idle
    <3> QED
      BY <3>1 DEF CopiesProgress, OnTrack
  <2> QED
    BY <2>1, <2>2, <2>3, <2>4, <2>5 DEF Next
<1>3. CopiesProgress => CopyIsComplete
  BY DEF CopiesProgress, OnTrack, Owed, CopyIsComplete
<1> QED
  BY <1>1, <1>2, <1>3, InitHolds, NextHolds, WrittenHolds, PTL DEF Spec
=============================================================================
