----------------------------- MODULE ModelCache -----------------------------
(***************************************************************************)
(* The LRU cache of chat models (ChatModelCache in                         *)
(* internal/model_gateway/cache.go): a map from keys to elements of a      *)
(* list, most recently used first.                                         *)
(*                                                                         *)
(* A hit takes the lock twice: it looks up the element, and then moves it  *)
(* to the front; it reads the element's model with no lock at all.  In     *)
(* between the element may have been evicted or deleted, its key cached    *)
(* anew, the list replaced.  A miss holds the lock from its second look to *)
(* the eviction, the call of the factory included.  What models the        *)
(* elements hold is left out: an element is a number.                      *)
(***************************************************************************)
EXTENDS Naturals, Sequences, SequencesExt

CONSTANTS
  Keys,         \* "provider:model"
  Capacity,     \* maxSize
  Callers,      \* goroutines that use the cache
  MaxModels     \* elements made (bound)

\* NewChatModelCache replaces a size that is not positive by 1000.
ASSUME CacheAssumption ==
  /\ Keys # {}
  /\ Capacity \in Nat \ {0}
  /\ MaxModels \in Nat

VARIABLES
  index,        \* cache: the element of each cached key
  lru,          \* lruList
  keyOf,        \* the key of each element
  made,         \* elements made so far
  caller        \* each call of GetOrCreate or Get

cacheVars == <<index, lru, keyOf, made, caller>>

NoElement == 0

\* No key: Keys are model values or strings.
Resting == [step |-> "idle", key |-> CHOOSE k \in Keys : TRUE, elem |-> NoElement]

CacheInit ==
  /\ index = [k \in Keys |-> NoElement]
  /\ lru = <<>>
  /\ keyOf = [e \in 1..MaxModels |-> CHOOSE k \in Keys : TRUE]
  /\ made = 0
  /\ caller = [t \in Callers |-> Resting]

-----------------------------------------------------------------------------
\* list.Remove, which does nothing for an element that is not in the list.
Removed(list, e) ==
  IF Contains(list, e) THEN RemoveAt(list, CHOOSE i \in DOMAIN list : list[i] = e) ELSE list

\* MoveToFront leaves the list alone when the element is not in it (any more).
MoveToFront(list, e) == IF Contains(list, e) THEN <<e>> \o Removed(list, e) ELSE list

\* evict, after an element was pushed to the front: the elements at the back of a
\* list that is too long.
Kept(list) == SubSeq(list, 1, IF Len(list) < Capacity THEN Len(list) ELSE Capacity)
Evicted(list) == {list[i] : i \in Capacity + 1 .. Len(list)}

\* Mutant of Insert: the key of what is evicted stays in the map.
InsertKeepsKeys(k, m) ==
  /\ lru' = Kept(<<m>> \o lru)
  /\ index' = [index EXCEPT ![k] = m]
  /\ keyOf' = [keyOf EXCEPT ![m] = k]

\* Element m is pushed to the front under key k, which is not cached; the least
\* recently used element goes, and with it whatever its key stands for by now.
Insert(k, m) ==
  LET list == <<m>> \o lru IN
  /\ lru' = Kept(list)
  /\ keyOf' = [keyOf EXCEPT ![m] = k]
  /\ index' = [j \in Keys |-> IF \E e \in Evicted(list) : keyOf'[e] = j THEN NoElement
                              ELSE IF j = k THEN m ELSE index[j]]

\* What a call answers with is left out.
Answer(t) == caller' = [caller EXCEPT ![t].step = "idle", ![t].elem = NoElement]

\* GetOrCreate and Get: the first look, under the read lock.  A Get that finds
\* nothing returns at once and changes nothing.
LookUp(t, k) ==
  /\ caller[t].step = "idle"
  /\ caller' = [caller EXCEPT ![t] =
       [step |-> IF index[k] = NoElement THEN "missed" ELSE "found",
        key |-> k, elem |-> index[k]]]
  /\ UNCHANGED <<index, lru, keyOf, made>>

Touch(t) ==
  /\ caller[t].step = "found"
  /\ lru' = MoveToFront(lru, caller[t].elem)
  /\ caller' = [caller EXCEPT ![t].step = "moved"]
  /\ UNCHANGED <<index, keyOf, made>>

\* elem.Value, read without a lock.
Hit(t) ==
  /\ caller[t].step = "moved"
  /\ Answer(t)
  /\ UNCHANGED <<index, lru, keyOf, made>>

\* The second look finds what another call has cached.
HitAfterAll(t) ==
  LET e == index[caller[t].key] IN
  /\ caller[t].step = "missed"
  /\ e # NoElement
  /\ lru' = MoveToFront(lru, e)
  /\ Answer(t)
  /\ UNCHANGED <<index, keyOf, made>>

\* The factory makes a model.
Create(t) ==
  /\ caller[t].step = "missed"
  /\ index[caller[t].key] = NoElement
  /\ made < MaxModels
  /\ made' = made + 1
  /\ Insert(caller[t].key, made + 1)
  /\ Answer(t)

FactoryFails(t) ==
  /\ caller[t].step = "missed"
  /\ index[caller[t].key] = NoElement
  /\ Answer(t)
  /\ UNCHANGED <<index, lru, keyOf, made>>

\* Setting a key that is cached replaces its element's model.
Set(k) ==
  /\ IF index[k] = NoElement
     THEN /\ made < MaxModels
          /\ made' = made + 1
          /\ Insert(k, made + 1)
     ELSE /\ lru' = MoveToFront(lru, index[k])
          /\ UNCHANGED <<index, keyOf, made>>
  /\ UNCHANGED caller

DeleteKey(k) ==
  /\ index[k] # NoElement
  /\ lru' = Removed(lru, index[k])
  /\ index' = [index EXCEPT ![k] = NoElement]
  /\ UNCHANGED <<keyOf, made, caller>>

Clear ==
  /\ lru # <<>>
  /\ lru' = <<>>
  /\ index' = [k \in Keys |-> NoElement]
  /\ UNCHANGED <<keyOf, made, caller>>

CacheNext ==
  \/ \E t \in Callers :
       \/ \E k \in Keys : LookUp(t, k)
       \/ Touch(t) \/ Hit(t) \/ HitAfterAll(t) \/ Create(t) \/ FactoryFails(t)
  \/ \E k \in Keys : Set(k) \/ DeleteKey(k)
  \/ Clear

CacheSpec == CacheInit /\ [][CacheNext]_cacheVars

-----------------------------------------------------------------------------
(* Properties.                                                             *)

CacheTypeOK ==
  /\ index \in [Keys -> 0..MaxModels]
  /\ keyOf \in [1..MaxModels -> Keys]
  /\ caller \in [Callers -> [step : {"idle", "found", "moved", "missed"}, key : Keys,
                             elem : 0..MaxModels]]

\* Map and list hold the same elements, each once and under its own key, and
\* never more than the capacity: also when a hit moves an element that was
\* evicted, deleted or cleared away since it was looked up.
MapMatchesList ==
  /\ Len(lru) <= Capacity
  /\ \A i, j \in DOMAIN lru : lru[i] = lru[j] => i = j
  /\ \A i \in DOMAIN lru : index[keyOf[lru[i]]] = lru[i]
  /\ \A k \in Keys : index[k] # NoElement => keyOf[index[k]] = k /\ Contains(lru, index[k])
=============================================================================
