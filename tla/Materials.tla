----------------------------- MODULE Materials ------------------------------
(***************************************************************************)
(* The materials of a workspace's sessions on the HTTP host: PGMaterialStore *)
(* (internal/session/pg_material_store.go), a cache in the server's memory  *)
(* (internal/session/material.go) in front of the table session_materials.  *)
(*                                                                         *)
(* Add and Delete change the cache and leave the table to a goroutine of    *)
(* their own, whose failure nobody learns of.  A listing that finds nothing *)
(* in the cache reads the table and adds what it found to the cache, under  *)
(* new ids.  Requests run concurrently: the cache has a lock for each call, *)
(* the store has none.                                                      *)
(***************************************************************************)
EXTENDS Naturals, FiniteSets

CONSTANTS
  Files,        \* what users upload
  Sessions,     \* sessions that can exist (bound on Restart)
  Readers,      \* listings and copies that can be in progress at the same time
  MaxUploads,   \* uploads (bound)
  MaxId,        \* ids that can be given out (bound)
  MaxReboots,   \* restarts of the server (bound)
  DBMayFail     \* may a query fail?

ASSUME MaterialsAssumption ==
  /\ MaxUploads \in Nat
  /\ MaxId \in Nat
  /\ MaxReboots \in Nat
  /\ DBMayFail \in BOOLEAN

VARIABLES
  sessions,     \* the sessions that exist
  cache,        \* MaterialStore.items and byID
  rows,         \* the table
  inserts,      \* materials with an INSERT under way
  erases,       \* ids with a DELETE under way
  lastId,       \* ids given out so far
  reader,       \* each ListBySession or CopyToSession in progress
  reboots,      \* restarts so far
  uploaded,     \* history: the materials users were told are stored
  removed,      \* history: the materials users were told are gone
  lost,         \* history: the materials whose INSERT failed or died
  restarted     \* history: the sessions that CopyToSession was called for

history == <<uploaded, removed, lost, restarted>>
vars == <<sessions, cache, rows, inserts, erases, lastId, reader, reboots, history>>

Material(id, s, f) == [id |-> id, session |-> s, file |-> f]

Materials == [id : 1..MaxId, session : Sessions, file : Files]

Of(materials, s) == {m \in materials : m.session = s}

FilesOf(materials, s) == {m.file : m \in Of(materials, s)}

IdsOf(materials) == {m.id : m \in materials}

\* The first of some materials: rows are read ORDER BY uploaded_at.
First(materials) == CHOOSE m \in materials : \A n \in materials : m.id <= n.id

\* What a reader is doing: from is the session it reads, to the one whose cache
\* it fills, todo what is left to add.  due and stored are histories: what the
\* parent had when its copy was asked for, the files in the cache and the rows in
\* the table; a read that fails or breaks off owes the copy no row.
Readings ==
  [step : {"idle", "query", "fill", "copied"}, from : Sessions, to : Sessions,
   todo : SUBSET Materials, due : SUBSET Files, stored : SUBSET Materials]

Idle(s) ==
  [step |-> "idle", from |-> s, to |-> s, todo |-> {}, due |-> {}, stored |-> {}]

Init ==
  /\ \E s \in Sessions : sessions = {s} /\ reader = [q \in Readers |-> Idle(s)]
  /\ cache = {}
  /\ rows = {}
  /\ inserts = {}
  /\ erases = {}
  /\ lastId = 0
  /\ reboots = 0
  /\ uploaded = {}
  /\ removed = {}
  /\ lost = {}
  /\ restarted = {}

-----------------------------------------------------------------------------
(* Requests.                                                               *)

\* UploadMaterial: the caller is told the material is created.
Add(s, f) ==
  LET m == Material(lastId + 1, s, f) IN
  /\ s \in sessions
  /\ Cardinality(uploaded) < MaxUploads
  /\ lastId < MaxId
  /\ lastId' = lastId + 1
  /\ cache' = cache \cup {m}
  /\ inserts' = inserts \cup {m}
  /\ uploaded' = uploaded \cup {m}
  /\ UNCHANGED <<sessions, rows, erases, reader, reboots, removed, lost, restarted>>

\* DeleteMaterial: refused when the cache does not know the id.
Delete(m) ==
  /\ m \in cache
  /\ cache' = cache \ {m}
  /\ erases' = erases \cup {m.id}
  /\ removed' = removed \cup {m}
  /\ UNCHANGED <<sessions, rows, inserts, lastId, reader, reboots, uploaded, lost,
                 restarted>>

\* ListBySession that finds nothing in the cache and turns to the table.  One
\* that finds something returns it and changes nothing.
ListBySession(q, s) ==
  /\ reader[q].step \in {"idle", "copied"}
  /\ s \in sessions
  /\ Of(cache, s) = {}
  /\ reader' = [reader EXCEPT ![q] = [Idle(s) EXCEPT !.step = "query"]]
  /\ UNCHANGED <<sessions, cache, rows, inserts, erases, lastId, reboots, history>>

\* Mutant of Copies: they still belong to the session they come from.
CopiesKeepSession(s, t) ==
  {[m EXCEPT !.id = lastId + Cardinality({n \in Of(cache, s) : n.id <= m.id})] :
     m \in Of(cache, s)}

\* The cached materials of s as materials of t, with ids in the order of theirs.
Copies(s, t) ==
  {Material(lastId + Cardinality({n \in Of(cache, s) : n.id <= m.id}), t, m.file) :
     m \in Of(cache, s)}

\* CopyToSession, with which Restart ends: the cached materials are copied at
\* once; then the table is read.
CopyToSession(q, s, t) ==
  /\ reader[q].step \in {"idle", "copied"}
  /\ s \in sessions
  /\ t \notin sessions
  /\ lastId + Cardinality(Of(cache, s)) <= MaxId
  /\ sessions' = sessions \cup {t}
  /\ cache' = cache \cup Copies(s, t)
  /\ lastId' = lastId + Cardinality(Of(cache, s))
  /\ reader' = [reader EXCEPT ![q] =
       [Idle(s) EXCEPT !.step = "query", !.to = t, !.due = FilesOf(cache, s),
                       !.stored = Of(rows, s)]]
  /\ restarted' = restarted \cup {t}
  /\ UNCHANGED <<rows, inserts, erases, reboots, uploaded, removed, lost>>

\* The reading r when the reader has returned.
Returned(r) ==
  IF r.from = r.to THEN Idle(r.from) ELSE [r EXCEPT !.step = "copied", !.todo = {}]

\* The reading r when the rows found are to be added to the cache.
Filling(r, found) ==
  IF found = {} THEN Returned(r) ELSE [r EXCEPT !.step = "fill", !.todo = found]

\* SELECT ... WHERE session_id = $1.
Query(q) ==
  /\ reader[q].step = "query"
  /\ reader' = [reader EXCEPT ![q] = Filling(@, Of(rows, @.from))]
  /\ UNCHANGED <<sessions, cache, rows, inserts, erases, lastId, reboots, history>>

\* The SELECT fails, rows are skipped because they cannot be read, or the connection
\* breaks: the rows that came are taken for all there are.
QueryFails(q) ==
  /\ DBMayFail
  /\ reader[q].step = "query"
  /\ \E found \in SUBSET Of(rows, reader[q].from) :
       reader' = [reader EXCEPT ![q] = Filling([@ EXCEPT !.stored = {}], found)]
  /\ UNCHANGED <<sessions, cache, rows, inserts, erases, lastId, reboots, history>>

\* Mutant of Cached: the store's own Add, which persists what it is given.
CachedAndStored(m) ==
  /\ cache' = cache \cup {m}
  /\ inserts' = inserts \cup {m}

\* MaterialStore.Add, which leaves the table alone.
Cached(m) ==
  /\ cache' = cache \cup {m}
  /\ UNCHANGED inserts

\* The next row goes into the cache, as a new material.
Fill(q) ==
  LET m == First(reader[q].todo)
      rest == reader[q].todo \ {m}
  IN
  /\ reader[q].step = "fill"
  /\ lastId < MaxId
  /\ lastId' = lastId + 1
  /\ Cached(Material(lastId + 1, reader[q].to, m.file))
  /\ reader' = [reader EXCEPT ![q] = Filling(@, rest)]
  /\ UNCHANGED <<sessions, rows, erases, reboots, history>>

Read(q) == Query(q) \/ QueryFails(q) \/ Fill(q)

-----------------------------------------------------------------------------
(* Goroutines that write the table.                                        *)

Insert(m) ==
  /\ m \in inserts
  /\ inserts' = inserts \ {m}
  /\ rows' = rows \cup {m}
  /\ UNCHANGED <<sessions, cache, erases, lastId, reader, reboots, history>>

InsertFails(m) ==
  /\ DBMayFail
  /\ m \in inserts
  /\ inserts' = inserts \ {m}
  /\ lost' = lost \cup {m}
  /\ UNCHANGED <<sessions, cache, rows, erases, lastId, reader, reboots, uploaded, removed,
                 restarted>>

\* Mutant of Matching: DELETE ... WHERE id <= $1.
MatchingUpTo(id) == {m \in rows : m.id <= id}

\* DELETE ... WHERE id = $1.
Matching(id) == {m \in rows : m.id = id}

Erase(id) ==
  /\ id \in erases
  /\ erases' = erases \ {id}
  /\ rows' = rows \ Matching(id) \/ (DBMayFail /\ UNCHANGED rows)
  /\ UNCHANGED <<sessions, cache, inserts, lastId, reader, reboots, history>>

\* The server restarts: the cache and every goroutine are gone.
Reboot ==
  /\ reboots < MaxReboots
  /\ reboots' = reboots + 1
  /\ cache' = {}
  /\ inserts' = {}
  /\ erases' = {}
  /\ lost' = lost \cup inserts
  /\ reader' = [q \in Readers |-> Idle(reader[q].from)]
  /\ UNCHANGED <<sessions, rows, lastId, uploaded, removed, restarted>>

-----------------------------------------------------------------------------
Next ==
  \/ \E s \in Sessions, f \in Files : Add(s, f)
  \/ \E m \in cache : Delete(m)
  \/ \E q \in Readers, s \in Sessions :
       ListBySession(q, s) \/ \E t \in Sessions : CopyToSession(q, s, t)
  \/ \E q \in Readers : Read(q)
  \/ \E m \in inserts : Insert(m) \/ InsertFails(m)
  \/ \E id \in erases : Erase(id)
  \/ Reboot

Spec == Init /\ [][Next]_vars

-----------------------------------------------------------------------------
(* Properties.                                                             *)

TypeOK ==
  /\ sessions \subseteq Sessions
  /\ cache \subseteq Materials
  /\ \A m, n \in cache : m.id = n.id => m = n       \* byID is a map
  /\ rows \subseteq Materials
  /\ inserts \subseteq Materials
  /\ erases \subseteq 1..MaxId
  /\ lastId \in 0..MaxId
  /\ reader \in [Readers -> Readings]
  /\ reboots \in 0..MaxReboots
  /\ uploaded \subseteq Materials
  /\ removed \subseteq Materials
  /\ lost \subseteq Materials
  /\ restarted \subseteq sessions

\* A material that was uploaded and not deleted is in the table, or its INSERT
\* is under way, failed, or died with the server: no listing, copy or deletion
\* of another material ever takes it away.
UploadsAreKept ==
  \A m \in uploaded \ removed : m \in rows \cup inserts \cup lost

\* A listing stores nothing: in a session that is no copy of another, every row is
\* an upload under the id its uploader was told, however often the server restarts
\* and however many listings reload the cache under new ids at the same time.  (Of
\* the rows of a copy this says nothing: CopyToSession is to write the database too,
\* pg_material_store.go:72, and does not.)
ListingsStoreNothing ==
  \A m \in rows \cup inserts : m.session \in restarted \/ m \in uploaded

\* A restarted session has every file its parent had when the copy was asked for, in
\* the cache or, if the table was read to its end, in the table, unless the parent's
\* row or the copy was deleted meanwhile.  (It has some of them twice, loses them all
\* when the server restarts, and lacks what a failed read left out.)
CopyIsComplete ==
  \A q \in Readers : reader[q].step = "copied" =>
    reader[q].due \cup {m.file : m \in reader[q].stored \ removed}
      \subseteq FilesOf(cache \cup removed, reader[q].to)

-----------------------------------------------------------------------------
(* What the comments of the store say; the code does otherwise in the run   *)
(* named finding_undeleted.                                                *)

\* Deleting a material removes it from memory and from the database: what the
\* cache of a session shows is backed by an upload that was not deleted.
DeletedIsGone ==
  \A s \in sessions : FilesOf(cache, s) \subseteq FilesOf(uploaded \ removed, s)
=============================================================================
