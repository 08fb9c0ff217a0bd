---------------------------- MODULE SessionRoles ----------------------------
(***************************************************************************)
(* Who takes part in a session and in which order they speak: Create,      *)
(* Restart, AddSessionRole and RemoveSessionRole of                        *)
(* internal/session/service.go over the tables sessions and session_roles. *)
(*                                                                         *)
(* A session is created with one INSERT for its row and one for each role, *)
(* without a transaction; a failure in between leaves what there is.  An   *)
(* added role gets the number of roles as its place, counted in a query of *)
(* its own.  Places therefore are not always what a user would expect:     *)
(* asking for a role twice or for none leaves a gap, and counting ignores  *)
(* gaps, removals and additions under way.                                 *)
(***************************************************************************)
EXTENDS Naturals, Sequences, SequencesExt, FiniteSets

CONSTANTS
  Originals,    \* sessions that Create can make (bound)
  Sequels,      \* sessions that Restart can make (bound)
  Roles,        \* roles
  NoRole,       \* RoleID = ""
  Asks,         \* the roles users ask for: sequences over Roles and NoRole
  MaxEdits,     \* calls of AddSessionRole and RemoveSessionRole (bound)
  Editors       \* requests in progress at the same time

ASSUME RolesAssumption ==
  /\ Originals # {}
  /\ NoRole \notin Roles
  /\ Asks \subseteq Seq(Roles \cup {NoRole}) \ {<<>>}

VARIABLES
  life,         \* the status of each session, "none" without a row
  parent,       \* parent_session_id, the session itself for none
  bound,        \* session_roles
  editor,       \* each request
  edits,        \* edits so far
  asked,        \* history: the roles a session was created with
  whole,        \* history: the sessions whose creation succeeded
  edited,       \* history: the sessions with an edit
  neat          \* history: the sessions of which NewcomersSpeakLast speaks

Lineup == Originals \cup Sequels

rolesVars == <<life, parent, bound, editor, edits, asked, whole, edited, neat>>

Binding(s, r, place) == [session |-> s, role |-> r, place |-> place]

BoundTo(s) == {b \in bound : b.session = s}

Waiting == [step |-> "idle", session |-> CHOOSE s \in Lineup : TRUE,
            parent |-> CHOOSE s \in Lineup : TRUE, todo |-> <<>>, place |-> 0]

RolesInit ==
  /\ life = [s \in Lineup |-> "none"]
  /\ parent = [s \in Lineup |-> s]
  /\ bound = {}
  /\ editor = [a \in Editors |-> Waiting]
  /\ edits = 0
  /\ asked = [s \in Lineup |-> <<>>]
  /\ whole = {}
  /\ edited = {}
  /\ neat = {}

\* Does another request work on the session?
Alone(a, s) == \A b \in Editors \ {a} : editor[b].step = "idle" \/ editor[b].session # s

IsNeat(seq) == IsInjective(seq) /\ ~Contains(seq, NoRole)

-----------------------------------------------------------------------------
(* Create and Restart.                                                     *)

\* The row of a new session; binding its roles comes next.
InsertSession(a, s, p, roles) ==
  /\ life' = [life EXCEPT ![s] = "draft"]
  /\ parent' = [parent EXCEPT ![s] = p]
  /\ asked' = [asked EXCEPT ![s] = roles]
  /\ neat' = IF IsNeat(roles) THEN neat \cup {s} ELSE neat
  /\ editor' = [editor EXCEPT ![a] =
       [step |-> "bind", session |-> s, parent |-> p, todo |-> roles, place |-> 0]]
  /\ UNCHANGED <<bound, edits, whole, edited>>

CreateSession(a, s) ==
  /\ editor[a].step = "idle"
  /\ life[s] = "none"
  /\ asked[s] = <<>>
  /\ \E roles \in Asks : InsertSession(a, s, s, roles)

\* Restart of p reads its status before it inserts s.
RestartSession(a, p, s) ==
  /\ editor[a].step = "idle"
  /\ life[p] = "ended"
  /\ asked[s] = <<>>
  /\ Alone(a, s)
  /\ \E roles \in Asks :
       editor' = [editor EXCEPT ![a] =
         [step |-> "insert", session |-> s, parent |-> p, todo |-> roles, place |-> 0]]
  /\ UNCHANGED <<life, parent, bound, edits, asked, whole, edited, neat>>

\* The parent must still exist when the row is inserted.
InsertRestart(a) ==
  LET e == editor[a] IN
  /\ e.step = "insert"
  /\ asked[e.session] = <<>>
  /\ IF life[e.parent] # "none"
     THEN InsertSession(a, e.session, e.parent, e.todo)
     ELSE /\ editor' = [editor EXCEPT ![a] = Waiting]
          /\ UNCHANGED <<life, parent, bound, edits, asked, whole, edited, neat>>

\* Mutant of Place: counted from 1.
PlaceFromOne(a) == editor[a].place + 1

\* The i-th role that is asked for gets place i, counted from 0.
Place(a) == editor[a].place

\* Mutant of Bound: ON CONFLICT DO UPDATE.
BoundAnew(s, r, place) ==
  {b \in bound : b.session # s \/ b.role # r} \cup {Binding(s, r, place)}

\* ON CONFLICT (session_id, role_id) DO NOTHING
Bound(s, r, place) ==
  IF \E b \in BoundTo(s) : b.role = r THEN bound ELSE bound \cup {Binding(s, r, place)}

\* The next role of a new session: an empty one is skipped; a session that is
\* gone refuses it.
BindRole(a) ==
  LET e == editor[a]
      r == Head(e.todo)
      last == Tail(e.todo) = <<>>
  IN
  /\ e.step = "bind"
  /\ IF r # NoRole /\ life[e.session] = "none"
     THEN /\ editor' = [editor EXCEPT ![a] = Waiting]
          /\ UNCHANGED <<bound, whole>>
     ELSE /\ bound' = IF r = NoRole THEN bound ELSE Bound(e.session, r, Place(a))
          /\ editor' = [editor EXCEPT ![a] =
               IF last THEN Waiting ELSE [e EXCEPT !.todo = Tail(@), !.place = @ + 1]]
          /\ whole' = IF last THEN whole \cup {e.session} ELSE whole
  /\ UNCHANGED <<life, parent, edits, asked, edited, neat>>

\* The role does not exist (an empty one in a list of bare ids never does), or a
\* query fails.
BindRoleFails(a) ==
  /\ editor[a].step = "bind"
  /\ editor' = [editor EXCEPT ![a] = Waiting]
  /\ UNCHANGED <<life, parent, bound, edits, asked, whole, edited, neat>>

-----------------------------------------------------------------------------
(* Editing a draft.                                                        *)

\* AddSessionRole and RemoveSessionRole read the status first.
EditRoles(a, s, r, step) ==
  /\ editor[a].step = "idle"
  /\ life[s] = "draft"
  /\ edits < MaxEdits
  /\ edits' = edits + 1
  /\ editor' = [editor EXCEPT ![a] =
       [step |-> step, session |-> s, parent |-> s, todo |-> <<r>>, place |-> 0]]
  /\ edited' = edited \cup {s}
  /\ neat' = IF Alone(a, s) /\ step # "remove" THEN neat ELSE neat \ {s}
  /\ UNCHANGED <<life, parent, bound, asked, whole>>

CountRoles(a) ==
  /\ editor[a].step = "count"
  /\ editor' = [editor EXCEPT ![a].step = "add",
                              ![a].place = Cardinality(BoundTo(editor[a].session))]
  /\ UNCHANGED <<life, parent, bound, edits, asked, whole, edited, neat>>

AddRole(a) ==
  LET e == editor[a] IN
  /\ e.step = "add"
  /\ bound' = IF life[e.session] = "none" THEN bound
              ELSE Bound(e.session, Head(e.todo), e.place)
  /\ editor' = [editor EXCEPT ![a] = Waiting]
  /\ UNCHANGED <<life, parent, edits, asked, whole, edited, neat>>

RemoveRole(a) ==
  LET e == editor[a] IN
  /\ e.step = "remove"
  /\ bound' = {b \in bound : b.session # e.session \/ b.role # Head(e.todo)}
  /\ editor' = [editor EXCEPT ![a] = Waiting]
  /\ UNCHANGED <<life, parent, edits, asked, whole, edited, neat>>

-----------------------------------------------------------------------------
\* The session is started, and later ended.
LeaveDraft(s) ==
  /\ life[s] \in {"draft", "running"}
  /\ life' = [life EXCEPT ![s] = IF @ = "draft" THEN "running" ELSE "ended"]
  /\ UNCHANGED <<parent, bound, editor, edits, asked, whole, edited, neat>>

\* Delete, with its roles (ON DELETE CASCADE); refused while another session names
\* it as its parent.
DeleteSession(s) ==
  /\ life[s] # "none"
  /\ \A t \in Lineup \ {s} : life[t] # "none" => parent[t] # s
  /\ life' = [life EXCEPT ![s] = "none"]
  /\ bound' = bound \ BoundTo(s)
  /\ UNCHANGED <<parent, editor, edits, asked, whole, edited, neat>>

RolesNext ==
  \/ \E a \in Editors :
       \/ \E s \in Originals : CreateSession(a, s)
       \/ \E p \in Lineup, s \in Sequels : RestartSession(a, p, s)
       \/ InsertRestart(a) \/ BindRole(a) \/ BindRoleFails(a)
       \/ \E s \in Lineup, r \in Roles, step \in {"count", "remove"} : EditRoles(a, s, r, step)
       \/ CountRoles(a) \/ AddRole(a) \/ RemoveRole(a)
  \/ \E s \in Lineup : LeaveDraft(s) \/ DeleteSession(s)

RolesSpec == RolesInit /\ [][RolesNext]_rolesVars

-----------------------------------------------------------------------------
(* Properties.                                                             *)

RolesTypeOK ==
  /\ life \in [Lineup -> {"none", "draft", "running", "ended"}]
  /\ parent \in [Lineup -> Lineup]
  /\ bound \subseteq [session : Lineup, role : Roles, place : Nat]
  /\ \A s \in Lineup : life[s] = "none" => BoundTo(s) = {}
  /\ \A b, c \in bound : b.session = c.session /\ b.role = c.role => b = c

FirstAsked(s, r) ==
  CHOOSE i \in DOMAIN asked[s] :
    asked[s][i] = r /\ \A j \in DOMAIN asked[s] : asked[s][j] = r => i <= j

\* A session that was created or restarted without an error, and whose roles nobody
\* has edited, has exactly the roles it was asked for, whatever was asked for
\* twice or left empty, and they speak in the order of their first mention.
RolesSpeakAsAsked ==
  \A s \in whole \ edited :
    life[s] # "none" =>
      /\ {b.role : b \in BoundTo(s)} = {asked[s][i] : i \in DOMAIN asked[s]} \ {NoRole}
      /\ \A b, c \in BoundTo(s) :
           b.place < c.place <=> FirstAsked(s, b.role) < FirstAsked(s, c.role)

\* In a session that was created without an error, of whose roles none was asked
\* for twice, left empty or removed, and none was edited while another request
\* worked on it, no two roles have the same place: whoever is added speaks last.
NewcomersSpeakLast ==
  \A s \in neat \cap whole :
    \A b, c \in BoundTo(s) :
      /\ b.place = c.place => b = c
      /\ b.role \in {asked[s][i] : i \in DOMAIN asked[s]}
           /\ c.role \notin {asked[s][i] : i \in DOMAIN asked[s]} => b.place < c.place
=============================================================================
