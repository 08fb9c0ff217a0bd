---------------------------- MODULE Models_proofs ----------------------------
(***************************************************************************)
(* The parts of the system that call models.                               *)
(*                                                                         *)
(* The gateway and its cache, for any number of callers, keys and          *)
(* providers: one model is made for each binding, the provider store keeps *)
(* names apart, and the cache's map and list agree however the two locks   *)
(* of a hit are interleaved with other calls.  The weighted evaluation,    *)
(* for any number of experts, options and criteria: its phases keep their  *)
(* order, and experts who fail have no weight in the matrix.  The          *)
(* compression of a conversation, for windows of any size: what was said   *)
(* last is kept, in order.                                                 *)
(***************************************************************************)
EXTENDS ModelCache, ModelGateway, Evaluation, ContextWindow, FiniteSetTheorems,
        SequenceTheorems, WellFoundedInduction, TLAPS

-----------------------------------------------------------------------------
(* The gateway and the provider store.                                     *)

\* The bindings that have a model.
Made == {b \in Bindings : instances[b] # 0}

InstancesAreTyped ==
  /\ configs \subseteq Bindings /\ factories \subseteq Bindings
  /\ instances \in [Bindings -> 0..MaxInstances] /\ built \in 0..MaxInstances
  /\ requester \in [Requesters -> [step : {"idle", "missed"}, binding : Bindings,
                                   model : 0..MaxInstances]]

EachIsMadeOnce == IsFiniteSet(Made) /\ built = Cardinality(Made)

AnswersAreShared ==
  \A t \in Requesters :
    requester[t].model # 0 => requester[t].model = instances[requester[t].binding]

ProvidersAreTyped ==
  providers \in [ProviderIDs -> {NoProvider} \cup [name : Bindings, enabled : BOOLEAN]]

NamesAreUnique ==
  \A p, q \in ProviderIDs :
    p # q /\ providers[p] # NoProvider /\ providers[q] # NoProvider
      => providers[p].name # providers[q].name

GatewayInv ==
  InstancesAreTyped /\ EachIsMadeOnce /\ AnswersAreShared /\ ProvidersAreTyped /\ NamesAreUnique

LEMMA GatewayInvSuffices == GatewayInv => GatewayTypeOK /\ NothingIsMadeTwice
<1>1. GatewayInv => GatewayTypeOK
  BY DEF GatewayInv, InstancesAreTyped, ProvidersAreTyped, GatewayTypeOK
<1>2. GatewayInv => NothingIsMadeTwice
  BY DEF GatewayInv, EachIsMadeOnce, AnswersAreShared, NamesAreUnique, NothingIsMadeTwice, Made
<1> QED
  BY <1>1, <1>2

LEMMA GatewayInitHolds == GatewayInit => GatewayInv
<1> SUFFICES ASSUME GatewayInit
             PROVE  GatewayInv
  OBVIOUS
<1>1. InstancesAreTyped /\ AnswersAreShared
  BY GatewayAssumption DEF GatewayInit, InstancesAreTyped, AnswersAreShared, NoRequest
<1>2. Made = {}
  BY DEF GatewayInit, Made
<1>3. EachIsMadeOnce
  BY <1>2, FS_EmptySet DEF GatewayInit, EachIsMadeOnce
<1>4. PICK ids \in [configs -> ProviderIDs] :
        /\ \A a, b \in configs : a # b => ids[a] # ids[b]
        /\ providers = [p \in ProviderIDs |->
             IF \E b \in configs : ids[b] = p THEN Provider(CHOOSE b \in configs : ids[b] = p)
             ELSE NoProvider]
  BY DEF GatewayInit
<1>5. ASSUME NEW p \in ProviderIDs, \E b \in configs : ids[b] = p
      PROVE  \E b \in configs : ids[b] = p /\ providers[p] = Provider(b)
  BY <1>4, <1>5
<1>6. configs \subseteq Bindings
  BY DEF GatewayInit
<1>7. \A p \in ProviderIDs : providers[p] \in {NoProvider} \cup [name : Bindings, enabled : BOOLEAN]
  BY <1>4, <1>5, <1>6 DEF Provider
<1>8. ProvidersAreTyped
  BY <1>4, <1>7 DEF ProvidersAreTyped
<1>9. NamesAreUnique
  <2> SUFFICES ASSUME NEW p \in ProviderIDs, NEW q \in ProviderIDs, p # q,
                      providers[p] # NoProvider, providers[q] # NoProvider
               PROVE  providers[p].name # providers[q].name
    BY DEF NamesAreUnique
  <2>1. PICK a \in configs : ids[a] = p /\ providers[p] = Provider(a)
    BY <1>4, <1>5
  <2>2. PICK b \in configs : ids[b] = q /\ providers[q] = Provider(b)
    BY <1>4, <1>5
  <2> QED
    BY <2>1, <2>2 DEF Provider
<1> QED
  BY <1>1, <1>3, <1>8, <1>9 DEF GatewayInv

-----------------------------------------------------------------------------
(* Models.                                                                 *)

\* A step that makes no model.
LEMMA NothingMade ==
  ASSUME EachIsMadeOnce, UNCHANGED <<instances, built>>
  PROVE  EachIsMadeOnce'
<1>1. Made' = Made
  BY DEF Made
<1> QED
  BY <1>1 DEF EachIsMadeOnce

\* An answer that is none, or the model that is there.
LEMMA AnswerHolds ==
  ASSUME InstancesAreTyped, EachIsMadeOnce, AnswersAreShared,
         NEW t \in Requesters, NEW b \in Bindings, NEW step \in {"idle", "missed"},
         NEW model \in {0, instances[b]},
         requester' = [requester EXCEPT ![t] = [step |-> step, binding |-> b, model |-> model]],
         UNCHANGED <<configs, factories, instances, built>>
  PROVE  InstancesAreTyped' /\ EachIsMadeOnce' /\ AnswersAreShared'
<1>1. model \in 0..MaxInstances
  BY GatewayAssumption DEF InstancesAreTyped
<1>2. InstancesAreTyped'
  BY <1>1 DEF InstancesAreTyped
<1>3. AnswersAreShared'
  BY DEF InstancesAreTyped, AnswersAreShared
<1> QED
  BY <1>2, <1>3, NothingMade

LEMMA BuildHolds ==
  ASSUME InstancesAreTyped, EachIsMadeOnce, AnswersAreShared, NEW t \in Requesters, Build(t)
  PROVE  InstancesAreTyped' /\ EachIsMadeOnce' /\ AnswersAreShared'
<1> DEFINE b == requester[t].binding
<1>1. /\ b \in Bindings /\ instances[b] = 0
      /\ built \in Nat /\ built' = built + 1 /\ built' \in 0..MaxInstances
      /\ instances' = [instances EXCEPT ![b] = built + 1]
      /\ requester' = [requester EXCEPT ![t] = [step |-> "idle", binding |-> b, model |-> built + 1]]
      /\ configs' = configs /\ factories' = factories
  BY GatewayAssumption DEF Build, MadeMeanwhile, Answered, InstancesAreTyped
<1> HIDE DEF b
<1>2. InstancesAreTyped'
  BY <1>1 DEF InstancesAreTyped
<1>3. EachIsMadeOnce'
  <2>1. Made' = Made \cup {b} /\ b \notin Made
    BY <1>1 DEF Made, InstancesAreTyped
  <2> QED
    BY <1>1, <2>1, FS_AddElement DEF EachIsMadeOnce
<1>4. AnswersAreShared'
  BY <1>1 DEF InstancesAreTyped, AnswersAreShared
<1> QED
  BY <1>2, <1>3, <1>4

LEMMA RequestHolds ==
  ASSUME InstancesAreTyped, EachIsMadeOnce, AnswersAreShared, NEW t \in Requesters,
         (\E b \in Bindings : GetChatModel(t, b)) \/ SecondLook(t) \/ Build(t) \/ NotBuilt(t)
  PROVE  InstancesAreTyped' /\ EachIsMadeOnce' /\ AnswersAreShared'
<1>1. ASSUME NEW b \in Bindings, GetChatModel(t, b)
      PROVE  InstancesAreTyped' /\ EachIsMadeOnce' /\ AnswersAreShared'
  BY <1>1, AnswerHolds DEF GetChatModel, Answered
<1>2. requester[t].binding \in Bindings
  BY DEF InstancesAreTyped
<1>3. CASE SecondLook(t)
  BY <1>2, <1>3, AnswerHolds DEF SecondLook, Answered
<1>4. CASE NotBuilt(t)
  BY <1>2, <1>4, AnswerHolds DEF NotBuilt, Answered
<1> QED
  BY <1>1, <1>3, <1>4, BuildHolds

-----------------------------------------------------------------------------
(* Providers.                                                              *)

LEMMA EditHolds ==
  ASSUME ProvidersAreTyped, NamesAreUnique, NEW p \in ProviderIDs,
         \/ \E name \in Bindings : CreateProvider(p, name) \/ UpdateProvider(p, name)
         \/ DeleteProvider(p) \/ ToggleEnabled(p)
  PROVE  ProvidersAreTyped' /\ NamesAreUnique'
<1>1. ASSUME NEW name \in Bindings, CreateProvider(p, name)
      PROVE  ProvidersAreTyped' /\ NamesAreUnique'
  BY <1>1 DEF CreateProvider, NameIsTaken, Provider, ProvidersAreTyped, NamesAreUnique
<1>2. ASSUME NEW name \in Bindings, UpdateProvider(p, name)
      PROVE  ProvidersAreTyped' /\ NamesAreUnique'
  BY <1>2 DEF UpdateProvider, NameIsTaken, ProvidersAreTyped, NamesAreUnique
<1>3. CASE DeleteProvider(p)
  BY <1>3 DEF DeleteProvider, ProvidersAreTyped, NamesAreUnique
<1>4. CASE ToggleEnabled(p)
  BY <1>4 DEF ToggleEnabled, ProvidersAreTyped, NamesAreUnique
<1> QED
  BY <1>1, <1>2, <1>3, <1>4

LEMMA GatewayNextHolds == GatewayInv /\ [GatewayNext]_gatewayVars => GatewayInv'
<1> SUFFICES ASSUME GatewayInv, [GatewayNext]_gatewayVars
             PROVE  GatewayInv'
  OBVIOUS
<1>1. ASSUME NEW t \in Requesters,
             (\E b \in Bindings : GetChatModel(t, b)) \/ SecondLook(t) \/ Build(t) \/ NotBuilt(t)
      PROVE  GatewayInv'
  <2>1. providers' = providers
    BY <1>1 DEF GetChatModel, SecondLook, Build, NotBuilt
  <2>2. ProvidersAreTyped' /\ NamesAreUnique'
    BY <2>1 DEF GatewayInv, ProvidersAreTyped, NamesAreUnique
  <2> QED
    BY <1>1, <2>2, RequestHolds DEF GatewayInv
<1>2. ASSUME NEW p \in ProviderIDs,
             \/ \E name \in Bindings : CreateProvider(p, name) \/ UpdateProvider(p, name)
             \/ DeleteProvider(p) \/ ToggleEnabled(p)
      PROVE  GatewayInv'
  <2>1. UNCHANGED <<configs, factories, instances, built, requester>>
    BY <1>2 DEF CreateProvider, UpdateProvider, DeleteProvider, ToggleEnabled
  <2>2. InstancesAreTyped' /\ EachIsMadeOnce' /\ AnswersAreShared'
    BY <2>1, NothingMade DEF GatewayInv, InstancesAreTyped, AnswersAreShared
  <2> QED
    BY <1>2, <2>2, EditHolds DEF GatewayInv
<1>3. CASE UNCHANGED gatewayVars
  BY <1>3, NothingMade DEF gatewayVars, GatewayInv, InstancesAreTyped, AnswersAreShared,
                           ProvidersAreTyped, NamesAreUnique
<1> QED
  BY <1>1, <1>2, <1>3 DEF GatewayNext

\* However many ask at once, one model is made for a binding and everyone who gets an
\* answer gets that one; no edit gives two providers one name (GetChatModel in
\* gateway.go, Create and Update in store.go of model_gateway).
THEOREM ModelsAreMadeOnce == GatewaySpec => [](GatewayTypeOK /\ NothingIsMadeTwice)
<1> QED
  BY GatewayInitHolds, GatewayInvSuffices, GatewayNextHolds, PTL DEF GatewaySpec

-----------------------------------------------------------------------------
(* The lists of the cache.                                                 *)

Elements(list) == {list[i] : i \in 1..Len(list)}

Distinct(list) == \A i, j \in 1..Len(list) : list[i] = list[j] => i = j

LEMMA RemovedIsShorter ==
  ASSUME NEW S, NEW list \in Seq(S), NEW p \in 1..Len(list), Distinct(list)
  PROVE  /\ Removed(list, list[p]) \in Seq(S)
         /\ Len(Removed(list, list[p])) = Len(list) - 1
         /\ \A i \in 1..Len(list) - 1 :
              Removed(list, list[p])[i] = IF i < p THEN list[i] ELSE list[i + 1]
<1> DEFINE before == SubSeq(list, 1, p - 1)
           after == SubSeq(list, p + 1, Len(list))
<1>1. Removed(list, list[p]) = before \o after
  <2>1. Contains(list, list[p])
    BY DEF Contains
  <2>2. (CHOOSE i \in DOMAIN list : list[i] = list[p]) = p
    BY DEF Distinct
  <2> QED
    BY <2>1, <2>2 DEF Removed, RemoveAt
<1>2. /\ before \in Seq(S) /\ Len(before) = p - 1
      /\ \A i \in 1..p - 1 : before[i] = list[i]
  BY SubSeqProperties
<1>3. /\ after \in Seq(S) /\ Len(after) = Len(list) - p
      /\ \A i \in 1..Len(list) - p : after[i] = list[p + i]
  BY SubSeqProperties
<1> HIDE DEF before, after
<1>4. /\ before \o after \in Seq(S)
      /\ Len(before \o after) = Len(list) - 1
      /\ \A i \in 1..Len(list) - 1 :
           (before \o after)[i] = IF i <= p - 1 THEN before[i] ELSE after[i - (p - 1)]
  <2>1. /\ before \o after \in Seq(S)
        /\ Len(before \o after) = Len(before) + Len(after)
        /\ \A i \in 1..Len(before) + Len(after) :
             (before \o after)[i] = IF i <= Len(before) THEN before[i] ELSE after[i - Len(before)]
    BY <1>2, <1>3, ConcatProperties
  <2>2. Len(before) + Len(after) = Len(list) - 1 /\ Len(before) = p - 1
    BY <1>2, <1>3
  <2> QED
    BY <2>1, <2>2
<1>5. ASSUME NEW i \in 1..Len(list) - 1
      PROVE  (before \o after)[i] = IF i < p THEN list[i] ELSE list[i + 1]
  <2>1. CASE i < p
    BY <1>2, <1>4, <2>1
  <2>2. CASE ~(i < p)
    <3>1. i - (p - 1) \in 1..Len(list) - p /\ p + (i - (p - 1)) = i + 1 /\ ~(i <= p - 1)
      BY <2>2
    <3>2. (before \o after)[i] = after[i - (p - 1)]
      BY <1>4, <3>1
    <3>3. after[i - (p - 1)] = list[p + (i - (p - 1))]
      BY <1>3, <3>1
    <3> QED
      BY <2>2, <3>1, <3>2, <3>3
  <2> QED
    BY <2>1, <2>2
<1> QED
  BY <1>1, <1>4, <1>5

\* Taking an element out leaves the others, each once.
LEMMA RemovedLosesOne ==
  ASSUME NEW S, NEW list \in Seq(S), NEW e \in Elements(list), Distinct(list)
  PROVE  /\ Removed(list, e) \in Seq(S)
         /\ Len(Removed(list, e)) = Len(list) - 1
         /\ Distinct(Removed(list, e))
         /\ Elements(Removed(list, e)) = Elements(list) \ {e}
<1>1. PICK p \in 1..Len(list) : list[p] = e
  BY DEF Elements
<1> DEFINE rest == Removed(list, e)
<1>2. /\ rest \in Seq(S)
      /\ Len(rest) = Len(list) - 1
      /\ \A i \in 1..Len(list) - 1 : rest[i] = IF i < p THEN list[i] ELSE list[i + 1]
  BY <1>1, RemovedIsShorter
<1> HIDE DEF rest
<1>3. \A i \in 1..Len(rest) :
        \E j \in 1..Len(list) : rest[i] = list[j] /\ j # p /\ j = IF i < p THEN i ELSE i + 1
  <2> TAKE i \in 1..Len(rest)
  <2>1. CASE i < p
    BY <1>2, <2>1
  <2>2. CASE ~(i < p)
    BY <1>2, <2>2
  <2> QED
    BY <2>1, <2>2
<1>4. \A j \in 1..Len(list) : j # p => \E i \in 1..Len(rest) : rest[i] = list[j]
  <2> SUFFICES ASSUME NEW j \in 1..Len(list), j # p
               PROVE  \E i \in 1..Len(rest) : rest[i] = list[j]
    OBVIOUS
  <2>1. CASE j < p
    <3>1. j \in 1..Len(rest) /\ rest[j] = list[j]
      BY <1>2, <2>1
    <3> QED
      BY <3>1
  <2>2. CASE j > p
    <3>1. j - 1 \in 1..Len(rest) /\ ~(j - 1 < p) /\ (j - 1) + 1 = j
      BY <1>2, <2>2
    <3>2. rest[j - 1] = list[j]
      BY <1>2, <3>1
    <3> QED
      BY <3>1, <3>2
  <2> QED
    BY <2>1, <2>2
<1>5. Distinct(rest)
  <2> SUFFICES ASSUME NEW a \in 1..Len(rest), NEW b \in 1..Len(rest), rest[a] = rest[b]
               PROVE  a = b
    BY DEF Distinct
  <2>1. PICK i \in 1..Len(list) : rest[a] = list[i] /\ i = IF a < p THEN a ELSE a + 1
    BY <1>3
  <2>2. PICK j \in 1..Len(list) : rest[b] = list[j] /\ j = IF b < p THEN b ELSE b + 1
    BY <1>3
  <2>3. i = j
    BY <2>1, <2>2 DEF Distinct
  <2> QED
    BY <1>2, <2>1, <2>2, <2>3
<1>6. Elements(rest) = Elements(list) \ {e}
  <2>1. \A i \in 1..Len(rest) : rest[i] \in Elements(list) \ {e}
    BY <1>1, <1>3 DEF Elements, Distinct
  <2>2. \A x \in Elements(list) \ {e} : \E i \in 1..Len(rest) : rest[i] = x
    BY <1>1, <1>4 DEF Elements
  <2> QED
    BY <2>1, <2>2 DEF Elements
<1> QED
  BY <1>2, <1>5, <1>6 DEF rest

\* Putting a new element in front.
LEMMA PushedIsFirst ==
  ASSUME NEW S, NEW list \in Seq(S), NEW e \in S, e \notin Elements(list), Distinct(list)
  PROVE  /\ <<e>> \o list \in Seq(S)
         /\ Len(<<e>> \o list) = Len(list) + 1
         /\ (<<e>> \o list)[1] = e
         /\ Distinct(<<e>> \o list)
         /\ Elements(<<e>> \o list) = Elements(list) \cup {e}
<1> DEFINE whole == <<e>> \o list
<1>1. /\ whole \in Seq(S) /\ Len(whole) = Len(list) + 1 /\ Len(list) \in Nat
      /\ whole[1] = e
      /\ \A i \in 1..Len(list) : whole[i + 1] = list[i]
  BY ConcatProperties
<1> HIDE DEF whole
<1>2. \A i \in 1..Len(whole) : i = 1 \/ (i - 1 \in 1..Len(list) /\ whole[i] = list[i - 1])
  <2> TAKE i \in 1..Len(whole)
  <2>1. CASE i # 1
    <3>1. i - 1 \in 1..Len(list) /\ (i - 1) + 1 = i
      BY <1>1, <2>1
    <3> QED
      BY <1>1, <3>1
  <2> QED
    BY <2>1
<1>3. Distinct(whole)
  <2> SUFFICES ASSUME NEW a \in 1..Len(whole), NEW b \in 1..Len(whole), whole[a] = whole[b]
               PROVE  a = b
    BY DEF Distinct
  <2>1. CASE a = 1
    BY <1>1, <1>2, <2>1 DEF Elements
  <2>2. CASE b = 1
    BY <1>1, <1>2, <2>2 DEF Elements
  <2>3. CASE a # 1 /\ b # 1
    <3>1. a - 1 = b - 1
      BY <1>2, <2>3 DEF Distinct
    <3> QED
      BY <3>1, <1>1
  <2> QED
    BY <2>1, <2>2, <2>3
<1>4. Elements(whole) = Elements(list) \cup {e}
  <2>1. \A i \in 1..Len(whole) : whole[i] \in Elements(list) \cup {e}
    BY <1>1, <1>2 DEF Elements
  <2>2. 1 \in 1..Len(whole) /\ \A i \in 1..Len(list) : i + 1 \in 1..Len(whole)
    BY <1>1
  <2>3. Elements(list) \cup {e} \subseteq Elements(whole)
    BY <1>1, <2>2 DEF Elements
  <2> QED
    BY <2>1, <2>3 DEF Elements
<1> QED
  BY <1>1, <1>3, <1>4 DEF whole

\* Moving an element to the front keeps the elements, each once.
LEMMA MovedIsTheSame ==
  ASSUME NEW S, NEW list \in Seq(S), NEW e, Distinct(list)
  PROVE  /\ MoveToFront(list, e) \in Seq(S)
         /\ Len(MoveToFront(list, e)) = Len(list)
         /\ Distinct(MoveToFront(list, e))
         /\ Elements(MoveToFront(list, e)) = Elements(list)
<1>1. CASE e \in Elements(list)
  <2>1. MoveToFront(list, e) = <<e>> \o Removed(list, e)
    BY <1>1 DEF MoveToFront, Contains, Elements
  <2>2. e \in S /\ Len(list) \in Nat
    BY <1>1 DEF Elements
  <2>3. /\ Removed(list, e) \in Seq(S) /\ Len(Removed(list, e)) = Len(list) - 1
        /\ Distinct(Removed(list, e)) /\ Elements(Removed(list, e)) = Elements(list) \ {e}
    BY <1>1, RemovedLosesOne
  <2>4. /\ <<e>> \o Removed(list, e) \in Seq(S)
        /\ Len(<<e>> \o Removed(list, e)) = Len(Removed(list, e)) + 1
        /\ Distinct(<<e>> \o Removed(list, e))
        /\ Elements(<<e>> \o Removed(list, e)) = Elements(Removed(list, e)) \cup {e}
    <3>1. e \notin Elements(Removed(list, e))
      BY <2>3
    <3> HIDE DEF Removed
    <3> QED
      BY <2>2, <2>3, <3>1, PushedIsFirst
  <2>5. Len(<<e>> \o Removed(list, e)) = Len(list)
    BY <2>2, <2>3, <2>4
  <2>6. Elements(<<e>> \o Removed(list, e)) = Elements(list)
    BY <1>1, <2>3, <2>4
  <2> QED
    BY <2>1, <2>4, <2>5, <2>6
<1>2. CASE e \notin Elements(list)
  BY <1>2 DEF MoveToFront, Contains, Elements
<1> QED
  BY <1>1, <1>2

\* Cutting a list off keeps its front, each element once.
LEMMA KeptIsFront ==
  ASSUME NEW S, NEW list \in Seq(S), Distinct(list)
  PROVE  /\ Kept(list) \in Seq(S)
         /\ Len(Kept(list)) <= Capacity
         /\ Distinct(Kept(list))
         /\ Elements(Kept(list)) = Elements(list) \ Evicted(list)
         /\ Evicted(list) \subseteq Elements(list)
         /\ Len(list) > 0 => list[1] \in Elements(Kept(list))
<1> DEFINE size == IF Len(list) < Capacity THEN Len(list) ELSE Capacity
<1>1. size \in Nat /\ size <= Len(list) /\ size <= Capacity /\ Len(list) \in Nat /\ Capacity \in Nat \ {0}
  BY CacheAssumption
<1>2. /\ Kept(list) \in Seq(S) /\ Len(Kept(list)) = size
      /\ \A i \in 1..size : Kept(list)[i] = list[i]
  <2>1. Kept(list) = SubSeq(list, 1, size)
    BY DEF Kept
  <2> HIDE DEF size
  <2>2. \A i \in 1..size : list[i] \in S
    BY <1>1
  <2>3. \A i \in 1..size - 1 + 1 : SubSeq(list, 1, size)[i] = list[1 + i - 1]
    BY <1>1, <2>2, SubSeqProperties
  <2> QED
    BY <1>1, <2>1, <2>2, <2>3, SubSeqProperties
<1>3. Distinct(Kept(list))
  BY <1>1, <1>2 DEF Distinct
<1>4. Elements(Kept(list)) = {list[i] : i \in 1..size}
  BY <1>2 DEF Elements
<1>5. Evicted(list) = {list[i] : i \in size + 1 .. Len(list)}
  BY <1>1 DEF Evicted
<1>6. 1..Len(list) = (1..size) \cup (size + 1 .. Len(list)) /\ (1..size) \cap (size + 1 .. Len(list)) = {}
  BY <1>1
<1> HIDE DEF size
<1>7. Elements(Kept(list)) = Elements(list) \ Evicted(list) /\ Evicted(list) \subseteq Elements(list)
  <2>1. Evicted(list) \subseteq Elements(list) /\ Elements(Kept(list)) \subseteq Elements(list)
    BY <1>4, <1>5, <1>6 DEF Elements
  <2>2. ASSUME NEW i \in 1..size, NEW j \in size + 1 .. Len(list)
        PROVE  list[i] # list[j]
    BY <1>6 DEF Distinct
  <2>3. \A i \in 1..Len(list) : i \in 1..size \/ i \in size + 1 .. Len(list)
    BY <1>6
  <2> QED
    BY <1>4, <1>5, <2>1, <2>2, <2>3 DEF Elements
<1>8. Len(list) > 0 => 1 \in 1..size
  BY <1>1 DEF size
<1> QED
  BY <1>1, <1>2, <1>3, <1>4, <1>7, <1>8

-----------------------------------------------------------------------------
(* The cache.                                                              *)

CacheIsTyped ==
  /\ index \in [Keys -> 0..made]
  /\ lru \in Seq(1..made)
  /\ keyOf \in [1..MaxModels -> Keys]
  /\ made \in 0..MaxModels
  /\ caller \in [Callers -> [step : {"idle", "found", "moved", "missed"}, key : Keys,
                             elem : 0..made]]

\* MapMatchesList, in terms of the set of listed elements.
MapAgrees ==
  /\ \A e \in Elements(lru) : index[keyOf[e]] = e
  /\ \A k \in Keys : index[k] # NoElement => keyOf[index[k]] = k /\ index[k] \in Elements(lru)

CacheInv ==
  CacheIsTyped /\ Len(lru) <= Capacity /\ Distinct(lru) /\ MapAgrees

LEMMA CacheInvSuffices == CacheInv => MapMatchesList /\ CacheTypeOK
<1> SUFFICES ASSUME CacheInv PROVE MapMatchesList /\ CacheTypeOK
  OBVIOUS
<1>1. DOMAIN lru = 1..Len(lru)
  BY DEF CacheInv, CacheIsTyped
<1>2. MapMatchesList
  BY <1>1 DEF CacheInv, MapAgrees, Distinct, Elements, MapMatchesList, Contains
<1>3. 0..made \subseteq 0..MaxModels
  BY CacheAssumption DEF CacheInv, CacheIsTyped
<1>4. CacheTypeOK
  BY <1>3 DEF CacheInv, CacheIsTyped, CacheTypeOK
<1> QED
  BY <1>2, <1>4

LEMMA CacheInitHolds == CacheInit => CacheInv
<1> SUFFICES ASSUME CacheInit PROVE CacheInv
  OBVIOUS
<1>1. (CHOOSE k \in Keys : TRUE) \in Keys
  BY CacheAssumption
<1>2. CacheIsTyped
  BY <1>1, CacheAssumption DEF CacheInit, CacheIsTyped, Resting, NoElement
<1>3. Len(lru) = 0
  BY DEF CacheInit
<1> QED
  BY <1>2, <1>3, CacheAssumption DEF CacheInv, CacheInit, Distinct, MapAgrees, Elements

\* A call answers, and the list is as it was or has an element moved to the front.
LEMMA MoveHolds ==
  ASSUME CacheInv, UNCHANGED <<index, keyOf, made>>,
         lru' = lru \/ \E e : lru' = MoveToFront(lru, e),
         caller' \in [Callers -> [step : {"idle", "found", "moved", "missed"}, key : Keys,
                                  elem : 0..made]]
  PROVE  CacheInv'
<1>1. /\ lru' \in Seq(1..made) /\ Len(lru') = Len(lru)
      /\ Distinct(lru') /\ Elements(lru') = Elements(lru)
  BY MovedIsTheSame DEF CacheInv, CacheIsTyped
<1>2. CacheIsTyped'
  BY <1>1 DEF CacheInv, CacheIsTyped
<1> QED
  BY <1>1, <1>2 DEF CacheInv, MapAgrees, Distinct, Elements

\* An element goes to the front under a key that is not cached, and what no longer
\* fits takes its key along.
LEMMA InsertHolds ==
  ASSUME CacheInv, NEW k \in Keys, index[k] = NoElement, made < MaxModels,
         Insert(k, made + 1), made' = made + 1,
         caller' \in [Callers -> [step : {"idle", "found", "moved", "missed"}, key : Keys,
                                  elem : 0..made]]
  PROVE  CacheInv'
<1> DEFINE m == made + 1
           list == <<m>> \o lru
<1>0. CacheIsTyped /\ Len(lru) <= Capacity /\ Distinct(lru) /\ MapAgrees
  BY DEF CacheInv
<1>1. made \in Nat /\ m \in 1..MaxModels /\ m \in 1..m /\ 1..made \subseteq 1..m /\ 0..made \subseteq 0..m
  BY <1>0, CacheAssumption DEF CacheIsTyped
<1>2. Elements(lru) \subseteq 1..made /\ m \notin Elements(lru) /\ lru \in Seq(1..m)
  <2>1. Elements(lru) \subseteq 1..made
    BY <1>0 DEF CacheIsTyped, Elements
  <2>2. lru \in Seq(1..m)
    BY <1>0, <1>1 DEF CacheIsTyped
  <2> QED
    BY <1>1, <2>1, <2>2
<1>3. /\ list \in Seq(1..m) /\ Len(list) > 0 /\ list[1] = m
      /\ Distinct(list) /\ Elements(list) = Elements(lru) \cup {m}
  <2>1. Len(lru) \in Nat
    BY <1>2
  <2> QED
    BY <1>0, <1>1, <1>2, <2>1, PushedIsFirst
<1>4. /\ lru' = Kept(list)
      /\ keyOf' = [keyOf EXCEPT ![m] = k]
      /\ index' = [j \in Keys |-> IF \E e \in Evicted(list) : keyOf'[e] = j THEN NoElement
                                  ELSE IF j = k THEN m ELSE index[j]]
  BY DEF Insert
<1> HIDE DEF list
<1>5. /\ Kept(list) \in Seq(1..m) /\ Len(Kept(list)) <= Capacity
      /\ Distinct(Kept(list)) /\ m \in Elements(Kept(list))
      /\ Elements(Kept(list)) = Elements(list) \ Evicted(list)
      /\ Evicted(list) \subseteq Elements(list)
  BY <1>3, KeptIsFront
<1> HIDE DEF m
<1>6. /\ keyOf' \in [1..MaxModels -> Keys] /\ keyOf'[m] = k
      /\ \A e \in Elements(lru) : keyOf'[e] = keyOf[e] /\ keyOf[e] # k
  BY <1>0, <1>1, <1>2, <1>4 DEF CacheIsTyped, MapAgrees, NoElement
<1>7. Evicted(list) \subseteq Elements(lru)
  BY <1>3, <1>5
<1>8. CacheIsTyped'
  BY <1>0, <1>1, <1>4, <1>5, <1>6 DEF CacheIsTyped, NoElement, m
<1>9. ASSUME NEW e \in Elements(Kept(list))
      PROVE  index'[keyOf'[e]] = e
  <2>1. e \notin Evicted(list) /\ e \in Elements(lru) \cup {m}
    BY <1>3, <1>5
  <2>2. CASE e = m
    BY <1>4, <1>6, <1>7, <2>2
  <2>3. CASE e \in Elements(lru)
    <3>1. index[keyOf[e]] = e /\ keyOf[e] # k /\ keyOf[e] \in Keys
      <4>1. e \in 1..MaxModels
        BY <1>0, <1>1, <1>2, <2>3, CacheAssumption DEF CacheIsTyped
      <4> QED
        BY <1>0, <1>6, <2>3, <4>1 DEF MapAgrees, CacheIsTyped
    <3>2. \A d \in Evicted(list) : keyOf'[d] # keyOf[e]
      BY <1>0, <1>6, <1>7, <2>1, <3>1 DEF MapAgrees
    <3> QED
      BY <1>4, <1>6, <2>3, <3>1, <3>2
  <2> QED
    BY <2>1, <2>2, <2>3
<1>10. ASSUME NEW j \in Keys, index'[j] # NoElement
       PROVE  keyOf'[index'[j]] = j /\ index'[j] \in Elements(Kept(list))
  <2>1. \A e \in Evicted(list) : keyOf'[e] # j
    BY <1>4, <1>10
  <2>2. CASE j = k
    BY <1>4, <1>5, <1>6, <2>1, <2>2
  <2>3. CASE j # k
    <3>1. index'[j] = index[j]
      BY <1>4, <2>1, <2>3
    <3>2. keyOf[index[j]] = j /\ index[j] \in Elements(lru)
      BY <1>0, <1>10, <3>1 DEF MapAgrees
    <3>3. keyOf'[index[j]] = j /\ index[j] \notin Evicted(list)
      BY <1>6, <2>1, <3>2
    <3> QED
      BY <1>3, <1>5, <3>1, <3>2, <3>3
  <2> QED
    BY <2>2, <2>3
<1> QED
  <2>1. MapAgrees'
    BY <1>4, <1>9, <1>10 DEF MapAgrees
  <2> QED
    BY <1>4, <1>5, <1>8, <2>1 DEF CacheInv

LEMMA DeleteHolds ==
  ASSUME CacheInv, NEW k \in Keys, DeleteKey(k)
  PROVE  CacheInv'
<1> DEFINE e == index[k]
<1>0. CacheIsTyped /\ Len(lru) <= Capacity /\ Distinct(lru) /\ MapAgrees
  BY DEF CacheInv
<1>1. /\ e \in Elements(lru) /\ keyOf[e] = k
      /\ lru' = Removed(lru, e) /\ index' = [index EXCEPT ![k] = NoElement]
      /\ UNCHANGED <<keyOf, made, caller>>
  BY <1>0 DEF DeleteKey, MapAgrees
<1>2. /\ lru' \in Seq(1..made) /\ Len(lru') = Len(lru) - 1 /\ Distinct(lru')
      /\ Elements(lru') = Elements(lru) \ {e}
  <2>1. /\ Removed(lru, e) \in Seq(1..made) /\ Len(Removed(lru, e)) = Len(lru) - 1
        /\ Distinct(Removed(lru, e)) /\ Elements(Removed(lru, e)) = Elements(lru) \ {e}
    BY <1>0, <1>1, RemovedLosesOne DEF CacheIsTyped
  <2> QED
    BY <1>1, <2>1
<1>3. CacheIsTyped'
  BY <1>0, <1>1, <1>2 DEF CacheIsTyped, NoElement
<1>4. Len(lru') <= Capacity
  BY <1>0, <1>2, CacheAssumption DEF CacheIsTyped
<1>5. \A d \in Elements(lru) \ {e} : index'[keyOf'[d]] = d
  BY <1>0, <1>1 DEF CacheIsTyped, MapAgrees
<1>6. \A j \in Keys :
        index'[j] # NoElement => keyOf'[index'[j]] = j /\ index'[j] \in Elements(lru) \ {e}
  BY <1>0, <1>1 DEF CacheIsTyped, MapAgrees
<1>7. MapAgrees'
  BY <1>2, <1>5, <1>6 DEF MapAgrees
<1> QED
  BY <1>2, <1>3, <1>4, <1>7 DEF CacheInv

LEMMA CacheNextHolds == CacheInv /\ [CacheNext]_cacheVars => CacheInv'
<1> SUFFICES ASSUME CacheInv, [CacheNext]_cacheVars
             PROVE  CacheInv'
  OBVIOUS
<1> DEFINE Calls == [step : {"idle", "found", "moved", "missed"}, key : Keys, elem : 0..made]
<1>0. caller \in [Callers -> Calls] /\ index \in [Keys -> 0..made] /\ made \in Nat
  BY CacheAssumption DEF CacheInv, CacheIsTyped
<1>1. ASSUME NEW t \in Callers, NEW k \in Keys, LookUp(t, k)
      PROVE  CacheInv'
  <2>1. caller' \in [Callers -> Calls]
    BY <1>0, <1>1 DEF LookUp
  <2> QED
    BY <1>1, <2>1, MoveHolds DEF LookUp
<1>2. ASSUME NEW t \in Callers, Touch(t) \/ Hit(t) \/ HitAfterAll(t) \/ FactoryFails(t)
      PROVE  CacheInv'
  <2>1. caller' \in [Callers -> Calls]
    BY <1>0, <1>2 DEF Touch, Hit, HitAfterAll, FactoryFails, Answer, NoElement
  <2> QED
    BY <1>2, <2>1, MoveHolds DEF Touch, Hit, HitAfterAll, FactoryFails
<1>3. ASSUME NEW t \in Callers, Create(t)
      PROVE  CacheInv'
  <2>1. caller' \in [Callers -> Calls]
    BY <1>0, <1>3 DEF Create, Answer, NoElement
  <2>2. caller[t].key \in Keys
    BY <1>0
  <2> QED
    BY <1>3, <2>1, <2>2, InsertHolds DEF Create
<1>4. ASSUME NEW k \in Keys, Set(k)
      PROVE  CacheInv'
  <2>1. CASE index[k] = NoElement
    BY <1>0, <1>4, <2>1, InsertHolds DEF Set
  <2>2. CASE index[k] # NoElement
    BY <1>0, <1>4, <2>2, MoveHolds DEF Set
  <2> QED
    BY <2>1, <2>2
<1>5. CASE Clear
  <2>1. lru' = <<>> /\ index' = [k \in Keys |-> NoElement] /\ UNCHANGED <<keyOf, made, caller>>
    BY <1>5 DEF Clear
  <2>2. CacheIsTyped'
    BY <1>0, <2>1 DEF CacheInv, CacheIsTyped, NoElement
  <2> QED
    BY <2>1, <2>2, CacheAssumption DEF CacheInv, MapAgrees, Distinct, Elements
<1>6. CASE UNCHANGED cacheVars
  BY <1>0, <1>6, MoveHolds DEF cacheVars
<1> QED
  BY <1>1, <1>2, <1>3, <1>4, <1>5, <1>6, DeleteHolds DEF CacheNext

\* The map and the list of the cache agree and stay within the capacity, also when a
\* hit moves an element that was evicted, deleted or cleared away between its two locks
\* (GetOrCreate, Get and evict in cache.go of model_gateway).
THEOREM CacheIsConsistent == CacheSpec => [](CacheTypeOK /\ MapMatchesList)
<1> QED
  BY CacheInitHolds, CacheNextHolds, CacheInvSuffices, PTL DEF CacheSpec

-----------------------------------------------------------------------------
(* Sums.                                                                   *)

\* iter adds up f over the subsets of S, one element after the other.
Adds(iter, f, S) ==
  iter = [s \in SUBSET S |->
            IF s = {} THEN 0
            ELSE f[CHOOSE x \in s : TRUE] + iter[s \ {CHOOSE x \in s : TRUE}]]

LEMMA SumIsFold ==
  ASSUME NEW f
  PROVE  SumFunction(f) = (CHOOSE iter : Adds(iter, f, DOMAIN f))[DOMAIN f]
BY DEF SumFunction, SumFunctionOnSet, FoldFunctionOnSet, MapThenFoldSet, Adds

\* Removing the chosen element.
LEMMA OneFewer ==
  ASSUME NEW s, IsFiniteSet(s), s # {}
  PROVE  LET x == CHOOSE y \in s : TRUE IN
         /\ x \in s /\ IsFiniteSet(s \ {x})
         /\ Cardinality(s) \in Nat /\ Cardinality(s \ {x}) \in Nat
         /\ Cardinality(s) = Cardinality(s \ {x}) + 1
<1>1. PICK x : x = (CHOOSE y \in s : TRUE)
  OBVIOUS
<1>2. x \in s
  BY <1>1
<1>3. /\ IsFiniteSet(s \ {x})
      /\ Cardinality(s \ {x}) = Cardinality(s) - 1
  BY <1>2, FS_RemoveElement
<1>4. Cardinality(s) \in Nat /\ Cardinality(s \ {x}) \in Nat
  BY <1>3, FS_CardinalityType
<1>5. Cardinality(s) = Cardinality(s \ {x}) + 1
  BY <1>3, <1>4
<1> QED
  BY <1>1, <1>2, <1>3, <1>4, <1>5

\* The sum of a number c for every element of a finite set.
LEMMA SumOfEqual ==
  ASSUME NEW S, IsFiniteSet(S), NEW c \in Nat
  PROVE  SumFunction([e \in S |-> c]) = c * Cardinality(S)
<1> DEFINE f == [e \in S |-> c]
           sums == [s \in SUBSET S |-> c * Cardinality(s)]
           iter == CHOOSE i : Adds(i, f, S)
<1>1. \A s \in SUBSET S : IsFiniteSet(s) /\ Cardinality(s) \in Nat
  BY FS_Subset, FS_CardinalityType
<1>2. Adds(sums, f, S)
  <2>1. ASSUME NEW s \in SUBSET S
        PROVE  c * Cardinality(s) =
                 IF s = {} THEN 0
                 ELSE f[CHOOSE x \in s : TRUE] + sums[s \ {CHOOSE x \in s : TRUE}]
    <3>1. CASE s = {}
      BY <3>1, FS_EmptySet
    <3>2. CASE s # {}
      <4>1. PICK x : x = (CHOOSE y \in s : TRUE)
        OBVIOUS
      <4>2. /\ x \in s /\ Cardinality(s \ {x}) \in Nat
            /\ Cardinality(s) = Cardinality(s \ {x}) + 1
        BY <1>1, <3>2, <4>1, OneFewer
      <4>3. f[x] = c /\ sums[s \ {x}] = c * Cardinality(s \ {x})
        BY <4>2
      <4>4. \A k \in Nat : c * (k + 1) = c + c * k
        OBVIOUS
      <4>5. c * Cardinality(s) = c + c * Cardinality(s \ {x})
        BY <4>2, <4>4
      <4> QED
        BY <3>2, <4>1, <4>3, <4>5
    <3> QED
      BY <3>1, <3>2
  <2> QED
    BY <2>1 DEF Adds
<1> HIDE DEF sums
<1>3. Adds(iter, f, S)
  BY <1>2
<1> HIDE DEF iter
<1>4. \A s \in SUBSET S : iter[s] = c * Cardinality(s)
  <2> DEFINE wrong == {s \in SUBSET S : iter[s] # c * Cardinality(s)}
  <2> SUFFICES ASSUME wrong # {} PROVE FALSE
    OBVIOUS
  <2>1. IsWellFoundedOn(StrictSubsetOrdering(S), SUBSET S)
    BY FS_StrictSubsetOrderingWellFounded, FS_FiniteSubsetsOfFinite
  <2>2. PICK s \in wrong : \A t \in wrong : ~(<<t, s>> \in StrictSubsetOrdering(S))
    <3>1. wrong \subseteq SUBSET S
      OBVIOUS
    <3> HIDE DEF wrong
    <3> QED
      BY <2>1, <3>1, WFMin
  <2>3. CASE s = {}
    BY <1>3, <2>2, <2>3, FS_EmptySet DEF Adds
  <2>4. CASE s # {}
    <3>1. PICK x : x = (CHOOSE y \in s : TRUE)
      OBVIOUS
    <3>2. /\ x \in s /\ Cardinality(s \ {x}) \in Nat
          /\ Cardinality(s) = Cardinality(s \ {x}) + 1
      BY <1>1, <2>4, <3>1, OneFewer
    <3>3. <<s \ {x}, s>> \in StrictSubsetOrdering(S)
      BY <3>2 DEF StrictSubsetOrdering
    <3>4. iter[s \ {x}] = c * Cardinality(s \ {x})
      BY <2>2, <3>3
    <3>5. iter[s] = f[x] + iter[s \ {x}]
      BY <1>3, <2>4, <3>1 DEF Adds
    <3>6. f[x] = c
      BY <3>2
    <3>7. \A k \in Nat : c * (k + 1) = c + c * k
      OBVIOUS
    <3> QED
      BY <2>2, <3>2, <3>4, <3>5, <3>6, <3>7
  <2> QED
    BY <2>3, <2>4
<1>5. SumFunction(f) = iter[S]
  BY SumIsFold DEF iter
<1> QED
  BY <1>4, <1>5

-----------------------------------------------------------------------------
(* The evaluation.                                                         *)

Said == {"scoring", "challenge", "adjustment"}

Rank(p) == CHOOSE i \in DOMAIN Phases : Phases[i] = p

\* Everything said so far belongs to the phase that is run or comes next, or to an
\* earlier one.
HistoryIsOrdered ==
  /\ history \in Seq(Said)
  /\ \A i \in DOMAIN history : Rank(history[i]) <= Rank(phase)
  /\ \A i, j \in DOMAIN history : i < j => Rank(history[i]) <= Rank(history[j])

\* Who waits for whom.
PhasesAreInOrder ==
  /\ at = "panel" => phase \in {"scoring", "adjustment"}
  /\ at = "asking" => phase = "challenge"
  /\ at = "computing" => phase = "matrix"
  /\ at # "panel" => \A e \in Experts : expert[e] # "asked"
  /\ phase = "adjustment" => feedback
  /\ adjusted # {} => feedback

\* The matrix is made last, from the scores.
MatrixIsOfScores == \A m \in matrix : at = "ended" /\ m = Matrix

EvaluationInv == EvaluationTypeOK /\ HistoryIsOrdered /\ PhasesAreInOrder /\ MatrixIsOfScores

LEMMA RanksOfPhases ==
  /\ Rank("scoring") = 1 /\ Rank("challenge") = 2
  /\ Rank("adjustment") = 3 /\ Rank("matrix") = 4
  /\ {Phases[i] : i \in DOMAIN Phases} = {"scoring", "challenge", "adjustment", "matrix"}
<1>1. /\ DOMAIN Phases = 1..4 /\ Phases[1] = "scoring" /\ Phases[2] = "challenge"
      /\ Phases[3] = "adjustment" /\ Phases[4] = "matrix"
  BY DEF Phases
<1>2. \A i \in 1..4 : i = 1 \/ i = 2 \/ i = 3 \/ i = 4
  OBVIOUS
<1>3. Rank("scoring") = 1
  BY <1>1, <1>2 DEF Rank
<1>4. Rank("challenge") = 2
  BY <1>1, <1>2 DEF Rank
<1>5. Rank("adjustment") = 3
  BY <1>1, <1>2 DEF Rank
<1>6. Rank("matrix") = 4
  BY <1>1, <1>2 DEF Rank
<1>7. {Phases[i] : i \in DOMAIN Phases} = {"scoring", "challenge", "adjustment", "matrix"}
  BY <1>1, <1>2
<1> QED
  BY <1>3, <1>4, <1>5, <1>6, <1>7

LEMMA EvaluationInitHolds == EvaluationInit => EvaluationInv
<1> SUFFICES ASSUME EvaluationInit PROVE EvaluationInv
  OBVIOUS
<1>1. /\ history = <<>> /\ ranking = <<>> /\ matrix = {} /\ DOMAIN <<>> = {}
      /\ <<>> \in Seq(Said) /\ Cardinality({}) = 0
  BY FS_EmptySet DEF EvaluationInit
<1>2. EvaluationTypeOK
  <2>1. phase \in {Phases[i] : i \in DOMAIN Phases}
    BY RanksOfPhases DEF EvaluationInit
  <2>2. expert \in [Experts -> {"idle", "asked", "done"}]
    BY DEF EvaluationInit
  <2>3. pauses \in 0..MaxPauses /\ Cardinality(matrix) <= 1
    BY <1>1, EvaluationAssumption DEF EvaluationInit
  <2>4. /\ options \subseteq Options /\ criteria \subseteq DOMAIN Weight /\ critic \in BOOLEAN
        /\ at = "opening"
        /\ interrupt \in BOOLEAN /\ cancelled \in BOOLEAN
        /\ scored \subseteq Experts /\ adjusted \subseteq Experts /\ feedback \in BOOLEAN
    BY DEF EvaluationInit
  <2> QED
    BY <1>1, <2>1, <2>2, <2>3, <2>4 DEF EvaluationTypeOK
<1>3. HistoryIsOrdered
  BY <1>1 DEF HistoryIsOrdered
<1>4. PhasesAreInOrder /\ MatrixIsOfScores
  BY <1>1 DEF EvaluationInit, PhasesAreInOrder, MatrixIsOfScores
<1> QED
  BY <1>2, <1>3, <1>4 DEF EvaluationInv

\* Someone speaks in the phase that is run.
LEMMA OneMoreSpeech ==
  ASSUME HistoryIsOrdered, phase \in Said, history' = Append(history, phase),
         phase' \in {Phases[i] : i \in DOMAIN Phases}, Rank(phase') >= Rank(phase)
  PROVE  HistoryIsOrdered' /\ \A i \in DOMAIN history' : history'[i] \in Said
<1>1. PICK h, p, q : h = history /\ p = phase /\ q = phase'
  OBVIOUS
<1>2. h \in Seq(Said) /\ p \in Said /\ history' = Append(h, p)
  BY <1>1 DEF HistoryIsOrdered
<1>3. PICK m \in Nat : m = Len(h)
  BY <1>2
<1>4. /\ Append(h, p) \in Seq(Said)
      /\ DOMAIN Append(h, p) = 1..m + 1 /\ DOMAIN h = 1..m
      /\ \A i \in 1..m : Append(h, p)[i] = h[i]
      /\ Append(h, p)[m + 1] = p
  BY <1>2, <1>3
<1>5. \A r \in Said : Rank(r) \in Nat
  BY RanksOfPhases DEF Said
<1>6. Rank(q) \in Nat /\ Rank(p) \in Nat /\ Rank(p) <= Rank(q)
  <2>1. Rank(q) \in Nat
    BY <1>1, RanksOfPhases
  <2>2. Rank(p) \in Nat
    BY <1>2, <1>5
  <2>3. Rank(q) >= Rank(p)
    BY <1>1
  <2> QED
    BY <2>1, <2>2, <2>3
<1>7. /\ \A i \in 1..m : Rank(h[i]) <= Rank(p) /\ h[i] \in Said
      /\ \A i, j \in 1..m : i < j => Rank(h[i]) <= Rank(h[j])
  BY <1>1, <1>2, <1>4 DEF HistoryIsOrdered
<1>8. ASSUME NEW i \in 1..m + 1 PROVE Rank(Append(h, p)[i]) <= Rank(q)
  <2>1. i \in 1..m \/ i = m + 1
    BY <1>3
  <2>2. PICK r : r = Append(h, p)[i]
    OBVIOUS
  <2>3. Rank(r) <= Rank(p) /\ Rank(r) \in Nat
    BY <1>4, <1>5, <1>6, <1>7, <2>1, <2>2
  <2>4. Rank(r) <= Rank(q)
    BY <1>6, <2>3
  <2> QED
    BY <2>2, <2>4
<1>9. ASSUME NEW i \in 1..m + 1, NEW j \in 1..m + 1, i < j
      PROVE  Rank(Append(h, p)[i]) <= Rank(Append(h, p)[j])
  <2>1. i \in 1..m /\ (j \in 1..m \/ j = m + 1)
    BY <1>3, <1>9
  <2> QED
    BY <1>4, <1>7, <1>9, <2>1
<1> QED
  BY <1>1, <1>2, <1>4, <1>8, <1>9 DEF HistoryIsOrdered

\* Nobody speaks, and the phase is not gone back to.
LEMMA NoMoreSpeech ==
  ASSUME HistoryIsOrdered, history' = history,
         phase \in {Phases[i] : i \in DOMAIN Phases},
         phase' \in {Phases[i] : i \in DOMAIN Phases}, Rank(phase') >= Rank(phase)
  PROVE  HistoryIsOrdered'
<1>1. PICK h, p, q : h = history /\ p = phase /\ q = phase'
  OBVIOUS
<1>2. Rank(p) \in Nat /\ Rank(q) \in Nat /\ Rank(p) <= Rank(q)
  BY <1>1, RanksOfPhases
<1>3. ASSUME NEW i \in DOMAIN h PROVE Rank(h[i]) <= Rank(q)
  <2>1. h[i] \in Said
    BY <1>1 DEF HistoryIsOrdered
  <2>2. Rank(h[i]) \in Nat /\ Rank(h[i]) <= Rank(p)
    BY <1>1, <2>1, RanksOfPhases DEF HistoryIsOrdered, Said
  <2> QED
    BY <1>2, <2>2
<1> QED
  BY <1>1, <1>3 DEF HistoryIsOrdered

\* A step before the matrix is made.
LEMMA NoMatrixYet ==
  ASSUME EvaluationInv, at # "ended"
  PROVE  matrix = {} /\ (matrix' = matrix => MatrixIsOfScores')
BY DEF EvaluationInv, MatrixIsOfScores

\* A phase begins.
LEMMA BeginKeeps ==
  ASSUME EvaluationInv, at \in {"gate", "paused"}, Begin, interrupt' \in BOOLEAN
  PROVE  EvaluationInv'
<1> USE DEF EvaluationInv
<1>1. /\ phase \in {"scoring", "challenge", "adjustment", "matrix"}
      /\ UNCHANGED <<config, phase, pauses, cancelled, scored, adjusted, feedback, history,
                     matrix, ranking>>
  BY RanksOfPhases DEF Begin, EvaluationTypeOK, outcome
<1>2. /\ at' \in {"panel", "asking", "computing"}
      /\ at' = "panel" => phase \in {"scoring", "adjustment"}
      /\ at' = "asking" => phase = "challenge"
      /\ at' = "computing" => phase = "matrix"
  BY <1>1 DEF Begin
<1>3. /\ expert' \in [Experts -> {"idle", "asked", "done"}]
      /\ at' # "panel" => \A e \in Experts : expert'[e] # "asked"
  BY DEF Begin
<1>4. EvaluationTypeOK'
  BY <1>1, <1>2, <1>3 DEF EvaluationTypeOK, config
<1>5. HistoryIsOrdered'
  BY <1>1 DEF HistoryIsOrdered
<1>6. PhasesAreInOrder'
  BY <1>1, <1>2, <1>3 DEF PhasesAreInOrder
<1>7. MatrixIsOfScores'
  BY <1>1, NoMatrixYet
<1> QED
  BY <1>4, <1>5, <1>6, <1>7

\* Execute goes on to another place, or a phase ends.
LEMMA MovingKeeps ==
  ASSUME EvaluationInv, at # "ended", at' \in {"gate", "paused", "ended"},
         \A e \in Experts : expert'[e] # "asked",
         expert' \in [Experts -> {"idle", "asked", "done"}], interrupt' \in BOOLEAN,
         phase' \in {Phases[i] : i \in DOMAIN Phases}, Rank(phase') >= Rank(phase),
         phase' = "adjustment" => feedback,
         UNCHANGED <<config, pauses, cancelled, scored, adjusted, feedback, history,
                     matrix, ranking>>
  PROVE  EvaluationInv'
<1> USE DEF EvaluationInv
<1>1. EvaluationTypeOK'
  BY DEF EvaluationTypeOK, config
<1>2. HistoryIsOrdered'
  BY NoMoreSpeech DEF EvaluationTypeOK
<1>3. PhasesAreInOrder'
  BY DEF PhasesAreInOrder
<1>4. MatrixIsOfScores'
  BY NoMatrixYet
<1> QED
  BY <1>1, <1>2, <1>3, <1>4

LEMMA EvaluationInvIsKept == EvaluationInv /\ [EvaluationNext]_evaluationVars => EvaluationInv'
<1> SUFFICES ASSUME EvaluationInv, [EvaluationNext]_evaluationVars PROVE EvaluationInv'
  OBVIOUS
<1> USE DEF EvaluationInv
<1>1. /\ phase \in {Phases[i] : i \in DOMAIN Phases} /\ Rank(phase) \in Nat
      /\ phase \in {"scoring", "challenge", "adjustment", "matrix"}
  <2>1. phase \in {"scoring", "challenge", "adjustment", "matrix"}
    BY RanksOfPhases DEF EvaluationTypeOK
  <2> QED
    BY <2>1, RanksOfPhases
<1>2. Rank(phase) >= Rank(phase)
  BY <1>1
<1>3. CASE Pause \/ Cancel
  <2>1. /\ at' = at /\ at # "ended" /\ interrupt' \in BOOLEAN /\ cancelled' \in BOOLEAN
        /\ UNCHANGED <<config, phase, expert, outcome>>
    BY <1>3 DEF Pause, Cancel, EvaluationTypeOK, outcome
  <2>2. pauses' \in 0..MaxPauses
    BY <1>3, EvaluationAssumption DEF Pause, Cancel, EvaluationTypeOK
  <2>3. EvaluationTypeOK'
    BY <2>1, <2>2 DEF EvaluationTypeOK, config, outcome
  <2>4. HistoryIsOrdered' /\ PhasesAreInOrder'
    BY <2>1 DEF HistoryIsOrdered, PhasesAreInOrder, outcome
  <2>5. MatrixIsOfScores'
    BY <2>1, NoMatrixYet DEF outcome
  <2> QED
    BY <2>3, <2>4, <2>5
<1>4. CASE Open
  <2>1. /\ at = "opening" /\ at' \in {"gate", "ended"} /\ interrupt' = interrupt
        /\ UNCHANGED <<config, phase, pauses, cancelled, expert, scored, adjusted, feedback,
                       history, matrix, ranking>>
    BY <1>4 DEF Open, outcome
  <2>2. /\ \A e \in Experts : expert'[e] # "asked"
        /\ expert' \in [Experts -> {"idle", "asked", "done"}] /\ interrupt' \in BOOLEAN
        /\ phase' = "adjustment" => feedback
    BY <2>1 DEF PhasesAreInOrder, EvaluationTypeOK
  <2> QED
    BY <1>1, <1>2, <2>1, <2>2, MovingKeeps
<1>5. CASE GoThrough \/ Resume
  BY <1>5, BeginKeeps DEF GoThrough, Resume, EvaluationTypeOK
<1>6. CASE Interrupted
  <2>1. /\ at = "gate" /\ at' = "paused" /\ interrupt' = FALSE
        /\ UNCHANGED <<config, phase, pauses, cancelled, expert, scored, adjusted, feedback,
                       history, matrix, ranking>>
    BY <1>6 DEF Interrupted, outcome
  <2>2. /\ \A e \in Experts : expert'[e] # "asked"
        /\ expert' \in [Experts -> {"idle", "asked", "done"}]
        /\ phase' = "adjustment" => feedback
    BY <2>1 DEF PhasesAreInOrder, EvaluationTypeOK
  <2> QED
    BY <1>1, <1>2, <2>1, <2>2, MovingKeeps
<1>7. CASE Refused
  <2>1. at \in {"gate", "paused"} /\ interrupt' = interrupt
    BY <1>7 DEF Refused, EndsWait
  <2>2. CASE phase = "matrix"
    <3>1. Begin
      BY <1>7, <2>2 DEF Refused
    <3> QED
      BY <2>1, <3>1, BeginKeeps DEF EvaluationTypeOK
  <2>3. CASE phase # "matrix"
    <3>1. /\ at' = "ended"
          /\ UNCHANGED <<config, phase, pauses, cancelled, expert, scored, adjusted,
                         feedback, history, matrix, ranking>>
      BY <1>7, <2>3 DEF Refused, outcome
    <3>2. /\ \A e \in Experts : expert'[e] # "asked"
          /\ expert' \in [Experts -> {"idle", "asked", "done"}] /\ interrupt' \in BOOLEAN
          /\ phase' = "adjustment" => feedback
      BY <2>1, <3>1 DEF PhasesAreInOrder, EvaluationTypeOK
    <3> QED
      BY <1>1, <1>2, <2>1, <3>1, <3>2, MovingKeeps
  <2> QED
    BY <2>2, <2>3
<1>8. CASE EndPanel
  <2>1. /\ at = "panel" /\ at' = "gate" /\ Joined /\ phase' \in {"challenge", "matrix"}
        /\ (phase' = "challenge" => phase = "scoring")
        /\ UNCHANGED <<config, interrupt, pauses, cancelled, expert, scored, adjusted,
                       feedback, history, matrix, ranking>>
    BY <1>8 DEF EndPanel, outcome
  <2>2. Rank(phase') >= Rank(phase) /\ phase' \in {Phases[i] : i \in DOMAIN Phases}
    BY <1>1, <2>1, RanksOfPhases
  <2>3. /\ \A e \in Experts : expert'[e] # "asked"
        /\ expert' \in [Experts -> {"idle", "asked", "done"}] /\ interrupt' \in BOOLEAN
        /\ phase' # "adjustment"
    BY <2>1 DEF Joined, EvaluationTypeOK
  <2> QED
    BY <2>1, <2>2, <2>3, MovingKeeps
<1>9. CASE CriticFails
  <2>1. /\ at = "asking" /\ at' = "gate" /\ phase' = "matrix"
        /\ UNCHANGED <<config, interrupt, pauses, cancelled, expert, scored, adjusted,
                       feedback, history, matrix, ranking>>
    BY <1>9 DEF CriticFails, outcome
  <2>2. Rank(phase') >= Rank(phase) /\ phase' \in {Phases[i] : i \in DOMAIN Phases}
    BY <1>1, <2>1, RanksOfPhases
  <2>3. /\ \A e \in Experts : expert'[e] # "asked"
        /\ expert' \in [Experts -> {"idle", "asked", "done"}] /\ interrupt' \in BOOLEAN
        /\ phase' # "adjustment"
    BY <2>1 DEF PhasesAreInOrder, EvaluationTypeOK
  <2> QED
    BY <2>1, <2>2, <2>3, MovingKeeps
<1>10. CASE CriticAnswers
  <2>1. /\ at = "asking" /\ at' = "gate" /\ phase' = "adjustment" /\ phase = "challenge"
        /\ feedback' = TRUE /\ history' = Append(history, phase)
        /\ UNCHANGED <<config, interrupt, pauses, cancelled, expert, scored, adjusted,
                       matrix, ranking>>
    BY <1>10 DEF CriticAnswers, PhasesAreInOrder
  <2>2. Rank(phase') >= Rank(phase) /\ phase' \in {Phases[i] : i \in DOMAIN Phases}
    BY <2>1, RanksOfPhases
  <2>3. HistoryIsOrdered' /\ \A i \in DOMAIN history' : history'[i] \in Said
    BY <2>1, <2>2, OneMoreSpeech DEF Said
  <2>4. EvaluationTypeOK'
    BY <2>1, <2>2, <2>3 DEF EvaluationTypeOK, Said, config
  <2>5. PhasesAreInOrder'
    BY <2>1 DEF PhasesAreInOrder
  <2>6. MatrixIsOfScores'
    BY <2>1, NoMatrixYet
  <2> QED
    BY <2>3, <2>4, <2>5, <2>6
<1>11. ASSUME NEW e \in Experts, Answers(e)
       PROVE  EvaluationInv'
  <2>1. /\ at = "panel" /\ at' = at /\ phase' = phase /\ phase \in {"scoring", "adjustment"}
        /\ history' = Append(history, phase)
        /\ UNCHANGED <<config, interrupt, pauses, cancelled, feedback, matrix, ranking>>
    BY <1>11 DEF Answers, PhasesAreInOrder
  <2>2. /\ expert' \in [Experts -> {"idle", "asked", "done"}]
        /\ scored' \subseteq Experts /\ adjusted' \subseteq Experts
        /\ adjusted' # adjusted => phase = "adjustment"
    BY <1>11, <2>1 DEF Answers, EvaluationTypeOK
  <2>3. HistoryIsOrdered' /\ \A i \in DOMAIN history' : history'[i] \in Said
    <3>1. phase \in Said /\ Rank(phase') >= Rank(phase)
      BY <1>2, <2>1 DEF Said
    <3> QED
      BY <1>1, <2>1, <3>1, OneMoreSpeech
  <2>4. EvaluationTypeOK'
    BY <2>1, <2>2, <2>3 DEF EvaluationTypeOK, Said, config
  <2>5. PhasesAreInOrder'
    BY <2>1, <2>2 DEF PhasesAreInOrder
  <2>6. MatrixIsOfScores'
    BY <2>1, NoMatrixYet
  <2> QED
    BY <2>3, <2>4, <2>5, <2>6
<1>12. ASSUME NEW e \in Experts, Fails(e)
       PROVE  EvaluationInv'
  <2>1. /\ at = "panel" /\ at' = at
        /\ UNCHANGED <<config, phase, interrupt, pauses, cancelled, outcome>>
        /\ expert' \in [Experts -> {"idle", "asked", "done"}]
    BY <1>12 DEF Fails, EvaluationTypeOK
  <2>2. EvaluationTypeOK'
    BY <2>1 DEF EvaluationTypeOK, config, outcome
  <2>3. HistoryIsOrdered' /\ PhasesAreInOrder'
    BY <2>1 DEF HistoryIsOrdered, PhasesAreInOrder, outcome
  <2>4. MatrixIsOfScores'
    BY <2>1, NoMatrixYet DEF outcome
  <2> QED
    BY <2>2, <2>3, <2>4
<1>13. CASE MakeMatrix
  <2>1. /\ at = "computing" /\ at' = "ended" /\ matrix' = {Matrix}
        /\ ranking' \in Rankings(Matrix)
        /\ UNCHANGED <<config, phase, interrupt, pauses, cancelled, expert, scored,
                       adjusted, feedback, history>>
    BY <1>13 DEF MakeMatrix
  <2>2. \A i \in DOMAIN ranking' : ranking'[i] \in options
    BY <2>1 DEF Rankings
  <2>3. Cardinality({Matrix}) = 1
    BY FS_Singleton
  <2>4. EvaluationTypeOK'
    BY <2>1, <2>2, <2>3 DEF EvaluationTypeOK, config
  <2>5. HistoryIsOrdered' /\ PhasesAreInOrder'
    BY <2>1 DEF HistoryIsOrdered, PhasesAreInOrder
  <2>6. Matrix' = Matrix
    BY <2>1 DEF Matrix, CriterionScores, Average, EffectiveScores, config
  <2>7. MatrixIsOfScores'
    BY <2>1, <2>6 DEF MatrixIsOfScores
  <2> QED
    BY <2>4, <2>5, <2>7
<1>14. CASE UNCHANGED evaluationVars
  <2>1. UNCHANGED <<config, at, phase, interrupt, pauses, cancelled, expert, scored,
                    adjusted, feedback, history, matrix, ranking>>
    BY <1>14 DEF evaluationVars
  <2>2. EvaluationTypeOK'
    BY <2>1 DEF EvaluationTypeOK, config
  <2>3. HistoryIsOrdered' /\ PhasesAreInOrder'
    BY <2>1 DEF HistoryIsOrdered, PhasesAreInOrder
  <2>4. Matrix' = Matrix
    BY <2>1 DEF Matrix, CriterionScores, Average, EffectiveScores, config
  <2>5. MatrixIsOfScores'
    BY <2>1, <2>4 DEF MatrixIsOfScores
  <2> QED
    BY <2>2, <2>3, <2>5
<1> QED
  BY <1>3, <1>4, <1>5, <1>6, <1>7, <1>8, <1>9, <1>10, <1>11, <1>12, <1>13, <1>14
  DEF EvaluationNext, Orchestrate

LEMMA EvaluationInvariant == EvaluationSpec => []EvaluationInv
<1>1. EvaluationInit => EvaluationInv
  BY EvaluationInitHolds
<1>2. EvaluationInv /\ [EvaluationNext]_evaluationVars => EvaluationInv'
  BY EvaluationInvIsKept
<1> QED
  BY <1>1, <1>2, PTL DEF EvaluationSpec

\* However models answer, fail or are cut short, and wherever pauses and the end of
\* the context strike, no phase begins while experts of the one before still speak
\* (Execute and the panels of evaluation.go).
THEOREM PhasesDoNotOverlap == EvaluationSpec => [](EvaluationTypeOK /\ SpeechesKeepToTheirPhase)
<1>1. EvaluationInv => EvaluationTypeOK /\ SpeechesKeepToTheirPhase
  BY DEF EvaluationInv, HistoryIsOrdered, PhasesAreInOrder, SpeechesKeepToTheirPhase, Rank
<1> QED
  BY <1>1, EvaluationInvariant, PTL

\* An expert who did not answer takes no part in the average of any option
\* (executeMatrixGeneration of evaluation.go).
THEOREM FailuresDoNotCount == EvaluationSpec => []OnlyAnswersCount
<1>1. EvaluationInv => OnlyAnswersCount
  <2> SUFFICES ASSUME EvaluationInv, NEW m \in matrix, NEW o \in options
               PROVE  /\ DOMAIN m[o].scores = (IF scored = {} THEN {} ELSE criteria)
                      /\ \A c \in DOMAIN m[o].scores : \E low, high \in scored :
                           /\ Weight[c] * EffectiveScores[low] <= m[o].scores[c]
                           /\ m[o].scores[c] <= Weight[c] * EffectiveScores[high]
    BY DEF OnlyAnswersCount
  <2>1. m[o].scores = CriterionScores
    BY DEF EvaluationInv, MatrixIsOfScores, Matrix
  <2>2. DOMAIN CriterionScores = (IF scored = {} THEN {} ELSE criteria)
    BY DEF CriterionScores
  <2>3. ASSUME NEW c \in DOMAIN CriterionScores
        PROVE  \E low, high \in scored :
                 /\ Weight[c] * EffectiveScores[low] <= CriterionScores[c]
                 /\ CriterionScores[c] <= Weight[c] * EffectiveScores[high]
    <3>1. scored # {} /\ c \in criteria
      BY <2>2, <2>3
    <3>2. IsFiniteSet(scored)
      <4>1. PICK n \in Nat : Experts = 1..n
        BY EvaluationAssumption DEF Experts
      <4>2. IsFiniteSet(Experts)
        BY <4>1, FS_Interval
      <4> QED
        BY <4>2, FS_Subset DEF EvaluationInv, EvaluationTypeOK
    <3>3. PICK n \in Nat \ {0} : n = Cardinality(scored)
      BY <3>1, <3>2, FS_CardinalityType, FS_EmptySet
    <3>4. SumFunction(EffectiveScores) = 75 * n
      BY <3>2, <3>3, SumOfEqual DEF EffectiveScores, ParsedScore
    <3>5. (75 * n) \div n = 75
      OBVIOUS
    <3>6. Average = 75
      BY <3>3, <3>4, <3>5 DEF Average
    <3>7. Weight[c] \in Nat
      BY <3>1, EvaluationAssumption DEF EvaluationInv, EvaluationTypeOK
    <3>8. CriterionScores[c] = 75 * Weight[c]
      BY <2>3, <3>6 DEF CriterionScores
    <3>9. PICK e \in scored : EffectiveScores[e] = 75
      BY <3>1 DEF EffectiveScores, ParsedScore
    <3>10. /\ Weight[c] * EffectiveScores[e] <= CriterionScores[c]
           /\ CriterionScores[c] <= Weight[c] * EffectiveScores[e]
      BY <3>7, <3>8, <3>9
    <3> QED
      BY <3>10
  <2> QED
    BY <2>1, <2>2, <2>3
<1> QED
  BY <1>1, EvaluationInvariant, PTL
-----------------------------------------------------------------------------
(* The messages of a conversation, in order.                               *)

Turns ==
  [kind : {"system", "chat", "summary", "notice"}, n : 0..MaxMessages, round : Nat,
   covers : SUBSET (1..MaxMessages)]

Members(s) == {s[i] : i \in DOMAIN s}

Chats(s) == {m \in Members(s) : m.kind = "chat"}

\* One of the chat comes before another.
Before(x, y) == x.kind = "chat" /\ y.kind = "chat" => x.n < y.n /\ x.round <= y.round

InOrder(s) == \A i, j \in DOMAIN s : i < j => Before(s[i], s[j])

\* t ends, and begins, as s does.
EndsAs(t, s) == s # <<>> => t # <<>> /\ t[Len(t)] = s[Len(s)]

BeginsAs(t, s) == s # <<>> => t # <<>> /\ t[1] = s[1]

LEMMA LengthsAreNatural ==
  ASSUME NEW S, NEW s \in Seq(S)
  PROVE  /\ Len(s) \in Nat /\ DOMAIN s = 1..Len(s) /\ \A i \in 1..Len(s) : s[i] \in S
         /\ (s = <<>> <=> Len(s) = 0)
OBVIOUS

LEMMA TurnsAreNumbered == \A x \in Turns : x.n \in Nat /\ x.n <= MaxMessages /\ x.round \in Nat
BY WindowAssumption DEF Turns

LEMMA RangeIsMembers == ASSUME NEW s PROVE Range(s) = Members(s)
BY DEF Range, Members

LEMMA AppendIsInOrder ==
  ASSUME NEW S, NEW s \in Seq(S), NEW x \in S, InOrder(s), \A m \in Members(s) : Before(m, x)
  PROVE  InOrder(Append(s, x))
<1>1. PICK n \in Nat : n = Len(s)
  BY LengthsAreNatural
<1>2. PICK t : t = Append(s, x)
  OBVIOUS
<1>3. DOMAIN t = 1..n + 1 /\ t[n + 1] = x /\ DOMAIN s = 1..n
  BY <1>1, <1>2
<1>4. \A i \in 1..n : t[i] = s[i]
  BY <1>1, <1>2
<1>5. ASSUME NEW i \in 1..n + 1, NEW j \in 1..n + 1, i < j PROVE Before(t[i], t[j])
  <2>1. i \in 1..n
    BY <1>5
  <2>2. CASE j = n + 1
    BY <1>3, <1>4, <2>1, <2>2 DEF Members
  <2>3. CASE j # n + 1
    <3>1. j \in 1..n
      BY <2>3
    <3> QED
      BY <1>3, <1>4, <1>5, <2>1, <3>1 DEF InOrder
  <2> QED
    BY <2>2, <2>3
<1> QED
  BY <1>2, <1>3, <1>5 DEF InOrder

LEMMA MembersAfterAppend ==
  ASSUME NEW S, NEW s \in Seq(S), NEW x \in S
  PROVE  /\ Append(s, x) \in Seq(S) /\ Members(Append(s, x)) = Members(s) \cup {x}
         /\ Append(s, x) # <<>> /\ Append(s, x)[Len(Append(s, x))] = x
         /\ BeginsAs(Append(s, x), s)
<1>1. PICK n \in Nat : n = Len(s)
  BY LengthsAreNatural
<1>2. PICK t : t = Append(s, x)
  OBVIOUS
<1>3. /\ t \in Seq(S) /\ DOMAIN t = 1..n + 1 /\ t[n + 1] = x /\ DOMAIN s = 1..n
      /\ Len(t) = n + 1 /\ t # <<>>
  BY <1>1, <1>2
<1>4. \A i \in 1..n : t[i] = s[i]
  BY <1>1, <1>2
<1>5. 1..n + 1 = 1..n \cup {n + 1}
  BY <1>1
<1>6. Members(t) = Members(s) \cup {x}
  BY <1>3, <1>4, <1>5 DEF Members
<1>7. BeginsAs(t, s)
  <2>1. s # <<>> => n # 0
    BY <1>1, LengthsAreNatural
  <2>2. n # 0 => 1 \in 1..n
    BY <1>1
  <2> QED
    BY <1>3, <1>4, <2>1, <2>2 DEF BeginsAs
<1> QED
  BY <1>2, <1>3, <1>6, <1>7

-----------------------------------------------------------------------------
(* Selecting some of the messages.                                         *)

\* upTo is the loop of Only.
Selects(upTo, s, keep) ==
  upTo = [i \in 0..Len(s) |->
            IF i = 0 THEN <<>>
            ELSE IF s[i] \in keep THEN Append(upTo[i - 1], s[i]) ELSE upTo[i - 1]]

\* The loop runs until k.
SelectsUpTo(f, s, keep, k) ==
  /\ f[0] = <<>>
  /\ \A i \in 1..k : f[i] = IF s[i] \in keep THEN Append(f[i - 1], s[i]) ELSE f[i - 1]

LEMMA OnlySelects ==
  ASSUME NEW s, NEW keep
  PROVE  Only(s, keep) = (CHOOSE upTo : Selects(upTo, s, keep))[Len(s)]
BY DEF Only, Selects

LEMMA SelectionExists ==
  ASSUME NEW s, Len(s) \in Nat, NEW keep
  PROVE  \E upTo : Selects(upTo, s, keep)
<1> DEFINE wrong == {k \in Nat : ~ \E f : SelectsUpTo(f, s, keep, k)}
<1>1. wrong = {}
  <2> SUFFICES ASSUME wrong # {} PROVE FALSE
    OBVIOUS
  <2>1. IsWellFoundedOn(OpToRel(<, Nat), Nat)
    BY NatLessThanWellFounded
  <2>2. PICK k \in wrong : \A l \in wrong : ~(<<l, k>> \in OpToRel(<, Nat))
    <3>1. wrong \subseteq Nat
      OBVIOUS
    <3> HIDE DEF wrong
    <3> QED
      BY <2>1, <3>1, WFMin
  <2>3. CASE k = 0
    <3> DEFINE f == [i \in {0} |-> <<>>]
    <3>1. SelectsUpTo(f, s, keep, 0)
      BY DEF SelectsUpTo
    <3> QED
      BY <2>2, <2>3, <3>1
  <2>4. CASE k # 0
    <3>1. PICK l \in Nat : k = l + 1
      <4>1. k - 1 \in Nat /\ k = (k - 1) + 1
        BY <2>4
      <4> QED
        BY <4>1
    <3>2. PICK f : SelectsUpTo(f, s, keep, l)
      <4>1. <<l, k>> \in OpToRel(<, Nat)
        BY <3>1 DEF OpToRel
      <4> QED
        BY <2>2, <4>1
    <3> DEFINE last == IF s[k] \in keep THEN Append(f[l], s[k]) ELSE f[l]
               g == [i \in 0..k |-> IF i = k THEN last ELSE f[i]]
    <3>3. /\ g[k] = last /\ k \in 0..k /\ \A i \in 0..l : g[i] = f[i]
      BY <3>1
    <3>4. ASSUME NEW i \in 1..k
          PROVE  g[i] = IF s[i] \in keep THEN Append(g[i - 1], s[i]) ELSE g[i - 1]
      <4>1. i - 1 \in 0..l /\ (i = k => i - 1 = l) /\ (i # k => i \in 1..l /\ i \in 0..l)
        BY <3>1
      <4>2. CASE i = k
        BY <3>3, <4>1, <4>2
      <4>3. CASE i # k
        BY <3>2, <3>3, <4>1, <4>3 DEF SelectsUpTo
      <4> QED
        BY <4>2, <4>3
    <3>5. g[0] = <<>>
      <4>1. 0 \in 0..l
        BY <3>1
      <4> QED
        BY <3>2, <3>3, <4>1 DEF SelectsUpTo
    <3> HIDE DEF g
    <3>6. SelectsUpTo(g, s, keep, k)
      BY <3>4, <3>5 DEF SelectsUpTo
    <3> QED
      BY <2>2, <3>6
  <2> QED
    BY <2>3, <2>4
<1>2. PICK f : SelectsUpTo(f, s, keep, Len(s))
  BY <1>1
<1> DEFINE n == Len(s)
           g == [i \in 0..n |-> f[i]]
<1>3. ASSUME NEW i \in 0..n
      PROVE  g[i] = IF i = 0 THEN <<>>
                    ELSE IF s[i] \in keep THEN Append(g[i - 1], s[i]) ELSE g[i - 1]
  <2>1. CASE i = 0
    BY <1>2, <2>1 DEF SelectsUpTo
  <2>2. CASE i # 0
    <3>1. i \in 1..n /\ i - 1 \in 0..n
      BY <2>2
    <3>2. g[i] = f[i] /\ g[i - 1] = f[i - 1]
      BY <3>1
    <3>3. f[i] = IF s[i] \in keep THEN Append(f[i - 1], s[i]) ELSE f[i - 1]
      BY <1>2, <3>1 DEF SelectsUpTo
    <3> QED
      BY <2>2, <3>2, <3>3
  <2> QED
    BY <2>1, <2>2
<1>4. g = [i \in 0..n |-> g[i]]
  OBVIOUS
<1> HIDE DEF g
<1>5. Selects(g, s, keep)
  BY <1>3, <1>4 DEF Selects
<1> QED
  BY <1>5

\* What a selection has in common with what it is made from.
LEMMA OnlyIsInOrder ==
  ASSUME NEW S, NEW s \in Seq(S), InOrder(s), NEW keep
  PROVE  /\ Only(s, keep) \in Seq(S)
         /\ Members(Only(s, keep)) = Members(s) \cap keep
         /\ InOrder(Only(s, keep))
         /\ s # <<>> /\ s[Len(s)] \in keep => EndsAs(Only(s, keep), s)
         /\ s # <<>> /\ s[1] \in keep => BeginsAs(Only(s, keep), s)
<1>1. PICK n \in Nat : n = Len(s)
  BY LengthsAreNatural
<1>2. DOMAIN s = 1..n /\ \A i \in 1..n : s[i] \in S
  BY <1>1, LengthsAreNatural
<1> DEFINE upTo == CHOOSE f : Selects(f, s, keep)
<1>3. Selects(upTo, s, keep)
  BY <1>1, SelectionExists
<1>4. Only(s, keep) = upTo[n]
  BY <1>1, OnlySelects
<1> HIDE DEF upTo
<1>5. /\ upTo[0] = <<>>
      /\ \A i \in 1..n :
           upTo[i] = IF s[i] \in keep THEN Append(upTo[i - 1], s[i]) ELSE upTo[i - 1]
  <2>1. \A i \in 0..n :
          upTo[i] = IF i = 0 THEN <<>>
                    ELSE IF s[i] \in keep THEN Append(upTo[i - 1], s[i]) ELSE upTo[i - 1]
    BY <1>1, <1>3 DEF Selects
  <2>2. 0 \in 0..n /\ \A i \in 1..n : i \in 0..n /\ i # 0
    BY <1>1
  <2> QED
    BY <2>1, <2>2
<1> DEFINE First(k) == {s[i] : i \in 1..k}
           Good(k) == /\ upTo[k] \in Seq(S)
                      /\ Members(upTo[k]) = First(k) \cap keep
                      /\ InOrder(upTo[k])
                      /\ k > 0 /\ s[k] \in keep =>
                           upTo[k] # <<>> /\ upTo[k][Len(upTo[k])] = s[k]
                      /\ k > 0 /\ s[1] \in keep => upTo[k] # <<>> /\ upTo[k][1] = s[1]
           wrong == {k \in 0..n : ~Good(k)}
<1>6. Good(0)
  <2>1. First(0) = {} /\ <<>> \in Seq(S) /\ Members(<<>>) = {} /\ InOrder(<<>>)
    BY DEF Members, InOrder
  <2> QED
    BY <1>5, <2>1
<1>7. ASSUME NEW k \in 1..n, Good(k - 1) PROVE Good(k)
  <2>1. PICK u, x : u = upTo[k - 1] /\ x = s[k]
    OBVIOUS
  <2>2. /\ x \in S /\ k > 0
        /\ \A i \in 1..k - 1 : i \in DOMAIN s /\ i < k
        /\ k \in DOMAIN s
    BY <1>2, <2>1
  <2>3. First(k) = First(k - 1) \cup {x}
    <3>1. 1..k = 1..k - 1 \cup {k}
      OBVIOUS
    <3> QED
      BY <2>1, <3>1
  <2>4. \A m \in First(k - 1) : Before(m, x)
    BY <2>1, <2>2 DEF InOrder
  <2> HIDE DEF First
  <2>5. u \in Seq(S) /\ Members(u) = First(k - 1) \cap keep /\ InOrder(u)
    BY <1>7, <2>1
  <2>6. (k = 1 => u = <<>>) /\ (k # 1 => k - 1 > 0)
    BY <1>5, <2>1
  <2>7. k # 1 /\ s[1] \in keep => u # <<>> /\ u[1] = s[1]
    BY <1>7, <2>1, <2>6
  <2>8. CASE x \in keep
    <3>1. PICK t : t = Append(u, x)
      OBVIOUS
    <3>2. t = upTo[k]
      BY <1>5, <2>1, <2>8, <3>1
    <3>3. /\ t \in Seq(S) /\ Members(t) = Members(u) \cup {x} /\ t # <<>> /\ t[Len(t)] = x
          /\ BeginsAs(t, u)
      BY <2>2, <2>5, <3>1, MembersAfterAppend
    <3>4. InOrder(t)
      BY <2>2, <2>4, <2>5, <3>1, AppendIsInOrder
    <3>5. s[1] \in keep => t[1] = s[1]
      <4>1. CASE k = 1
        <5>1. u = <<>> /\ Append(<<>>, x)[1] = x
          BY <2>6, <4>1
        <5> QED
          BY <2>1, <3>1, <4>1, <5>1
      <4>2. CASE k # 1
        BY <2>7, <3>3, <4>2 DEF BeginsAs
      <4> QED
        BY <4>1, <4>2
    <3> QED
      BY <2>1, <2>3, <2>5, <2>8, <3>2, <3>3, <3>4, <3>5
  <2>9. CASE x \notin keep
    <3>1. upTo[k] = u
      BY <1>5, <2>1, <2>9
    <3>2. s[1] \in keep => k # 1
      BY <2>1, <2>9
    <3> QED
      BY <2>1, <2>3, <2>5, <2>7, <2>9, <3>1, <3>2
  <2> QED
    BY <2>8, <2>9
<1> HIDE DEF Good
<1>8. wrong = {}
  <2> SUFFICES ASSUME wrong # {} PROVE FALSE
    OBVIOUS
  <2>1. IsWellFoundedOn(OpToRel(<, Nat), Nat)
    BY NatLessThanWellFounded
  <2>2. PICK k \in wrong : \A l \in wrong : ~(<<l, k>> \in OpToRel(<, Nat))
    <3>1. wrong \subseteq Nat
      OBVIOUS
    <3> HIDE DEF wrong
    <3> QED
      BY <2>1, <3>1, WFMin
  <2>3. k \in 1..n
    <3>1. k \in 0..n /\ k # 0
      BY <1>6, <2>2
    <3> QED
      BY <3>1
  <2>4. k - 1 \in Nat /\ k \in Nat /\ k - 1 < k /\ k - 1 \in 0..n
    BY <2>3
  <2>5. <<k - 1, k>> \in OpToRel(<, Nat)
    BY <2>4 DEF OpToRel
  <2>6. Good(k - 1)
    BY <2>2, <2>4, <2>5
  <2> QED
    BY <1>7, <2>2, <2>3, <2>6
<1>9. Good(n) /\ n \in 0..n
  BY <1>8
<1>10. First(n) = Members(s)
  BY <1>2 DEF Members
<1>11. s # <<>> => n > 0
  BY <1>1, LengthsAreNatural
<1> HIDE DEF First
<1> QED
  BY <1>1, <1>4, <1>9, <1>10, <1>11 DEF Good, EndsAs, BeginsAs

-----------------------------------------------------------------------------
(* Cutting and joining.                                                    *)

LEMMA SuffixIsInOrder ==
  ASSUME NEW s \in Seq(Turns), InOrder(s), NEW a \in 1..Len(s),
         NEW t, t = SubSeq(s, a, Len(s))
  PROVE  /\ t \in Seq(Turns) /\ InOrder(t) /\ Members(t) \subseteq Members(s)
         /\ t # <<>> /\ t[Len(t)] = s[Len(s)]
         /\ \A i \in a..Len(s) : s[i] \in Members(t)
         /\ \A x \in Chats(t), y \in Chats(s) : x.n < y.n => y \in Chats(t)
<1>1. PICK n \in Nat : n = Len(s)
  BY LengthsAreNatural
<1>2. DOMAIN s = 1..n /\ (\A i \in 1..n : s[i] \in Turns) /\ a \in 1..n
  BY <1>1, LengthsAreNatural
<1>3. PICK k \in Nat : k = n - a + 1 /\ k > 0 /\ k <= n
  BY <1>2
<1>4. /\ t \in Seq(Turns) /\ Len(t) = k /\ DOMAIN t = 1..k
      /\ \A i \in 1..k : t[i] = s[a + i - 1]
  BY <1>1, <1>2, <1>3
<1>5. \A i \in 1..k : a + i - 1 \in 1..n /\ a + i - 1 >= a
  BY <1>2, <1>3
<1>6. InOrder(t)
  <2> SUFFICES ASSUME NEW i \in 1..k, NEW j \in 1..k, i < j PROVE Before(t[i], t[j])
    BY <1>4 DEF InOrder
  <2>1. a + i - 1 < a + j - 1
    BY <1>2
  <2> QED
    BY <1>2, <1>4, <1>5, <2>1 DEF InOrder
<1>7. Members(t) \subseteq Members(s)
  BY <1>2, <1>4, <1>5 DEF Members
<1>8. t # <<>> /\ t[Len(t)] = s[Len(s)]
  <2>1. k \in 1..k /\ a + k - 1 = n
    BY <1>2, <1>3
  <2>2. t[k] = s[a + k - 1]
    BY <1>4, <2>1
  <2>3. Len(t) # 0 /\ Len(<<>>) = 0
    BY <1>3, <1>4
  <2>4. t # <<>>
    BY <2>3
  <2> QED
    BY <1>1, <1>4, <2>1, <2>2, <2>4
<1>9. \A i \in a..n : s[i] \in Members(t)
  <2> SUFFICES ASSUME NEW i \in a..n PROVE s[i] \in Members(t)
    OBVIOUS
  <2>1. i - a + 1 \in 1..k /\ a + (i - a + 1) - 1 = i
    BY <1>2, <1>3
  <2> QED
    BY <1>4, <2>1 DEF Members
<1>10. ASSUME NEW x \in Chats(t), NEW y \in Chats(s), x.n < y.n PROVE y \in Chats(t)
  <2>1. PICK i \in 1..k : x = t[i]
    BY <1>4 DEF Chats, Members
  <2>2. PICK j \in 1..n : y = s[j]
    BY <1>2 DEF Chats, Members
  <2>3. PICK h \in 1..n : h = a + i - 1 /\ h >= a
    BY <1>5
  <2>4. x = s[h] /\ x \in Turns /\ y \in Turns
    BY <1>2, <1>4, <2>1, <2>2, <2>3
  <2>5. CASE j < a
    <3>1. j < h
      BY <1>2, <2>3, <2>5
    <3>2. Before(y, x)
      BY <1>2, <2>2, <2>4, <3>1 DEF InOrder
    <3>3. y.n < x.n
      BY <3>2 DEF Before, Chats
    <3>4. x.n \in Nat /\ y.n \in Nat
      BY <2>4, TurnsAreNumbered, Zenon
    <3> QED
      BY <1>10, <3>3, <3>4
  <2>6. CASE ~(j < a)
    <3>1. j \in a..n
      BY <1>2, <2>6
    <3> QED
      BY <1>9, <2>2, <3>1 DEF Chats
  <2> QED
    BY <2>5, <2>6
<1> QED
  BY <1>1, <1>4, <1>6, <1>7, <1>8, <1>9, <1>10

Joins(t, u, v) == t = u \o v

Is(o, x) == o = <<x>>

LEMMA JoinIsInOrder ==
  ASSUME NEW u \in Seq(Turns), NEW v \in Seq(Turns), Chats(u) = {}, InOrder(v),
         NEW t, Joins(t, u, v)
  PROVE  /\ t \in Seq(Turns) /\ InOrder(t) /\ Members(t) = Members(u) \cup Members(v)
         /\ Chats(t) = Chats(v)
         /\ EndsAs(t, v) /\ BeginsAs(t, u)
<1>1. PICK k \in Nat, n \in Nat : k = Len(u) /\ n = Len(v)
  BY LengthsAreNatural
<1>2. /\ DOMAIN u = 1..k /\ DOMAIN v = 1..n
      /\ (u # <<>> => k > 0) /\ (v # <<>> => n > 0)
      /\ \A i \in 1..k : u[i] \in Turns
  BY <1>1, LengthsAreNatural
<1>3. /\ t \in Seq(Turns) /\ Len(t) = k + n /\ DOMAIN t = 1..k + n
      /\ \A i \in 1..k + n : t[i] = IF i <= k THEN u[i] ELSE v[i - k]
  BY <1>1 DEF Joins
<1>4. /\ \A i \in 1..k : i \in 1..k + n /\ t[i] = u[i]
      /\ \A i \in 1..n : i + k \in 1..k + n /\ t[i + k] = v[i]
      /\ \A i \in 1..k + n : i \in 1..k \/ (i > k /\ i - k \in 1..n /\ t[i] = v[i - k])
  BY <1>3
<1>5. \A i \in 1..k : u[i].kind # "chat"
  BY <1>2 DEF Chats, Members
<1>6. InOrder(t)
  <2> SUFFICES ASSUME NEW i \in 1..k + n, NEW j \in 1..k + n, i < j PROVE Before(t[i], t[j])
    BY <1>3 DEF InOrder
  <2>1. CASE i \in 1..k
    BY <1>4, <1>5, <2>1 DEF Before
  <2>2. CASE j \in 1..k
    BY <1>4, <1>5, <2>2 DEF Before
  <2>3. CASE i \notin 1..k /\ j \notin 1..k
    <3>1. i - k \in 1..n /\ j - k \in 1..n /\ t[i] = v[i - k] /\ t[j] = v[j - k]
      BY <1>4, <2>3
    <3>2. i - k < j - k
      OBVIOUS
    <3> QED
      BY <1>2, <3>1, <3>2 DEF InOrder
  <2> QED
    BY <2>1, <2>2, <2>3
<1>7. Members(t) = Members(u) \cup Members(v)
  <2>1. Members(u) \subseteq Members(t)
    BY <1>2, <1>3, <1>4 DEF Members
  <2>2. Members(v) \subseteq Members(t)
    <3> SUFFICES ASSUME NEW i \in 1..n PROVE v[i] \in Members(t)
      BY <1>2 DEF Members
    <3>1. i + k \in DOMAIN t /\ t[i + k] = v[i]
      BY <1>3, <1>4
    <3> QED
      BY <3>1 DEF Members
  <2>3. \A i \in 1..k + n : t[i] \in Members(u) \cup Members(v)
    BY <1>2, <1>4 DEF Members
  <2>4. Members(t) \subseteq Members(u) \cup Members(v)
    BY <1>3, <2>3 DEF Members
  <2> QED
    BY <2>1, <2>2, <2>4
<1>8. Chats(t) = Chats(v)
  BY <1>7 DEF Chats
<1>9. EndsAs(t, v)
  <2>1. n > 0 => k + n > 0 /\ t[k + n] = v[n]
    <3>1. n > 0 => k + n > 0 /\ n \in 1..n /\ k + n = n + k
      OBVIOUS
    <3>2. n > 0 => t[n + k] = v[n]
      BY <1>4, <3>1
    <3> QED
      BY <3>1, <3>2
  <2>2. k + n > 0 => t # <<>>
    BY <1>3, LengthsAreNatural
  <2> QED
    BY <1>1, <1>2, <1>3, <2>1, <2>2 DEF EndsAs
<1>10. BeginsAs(t, u)
  <2>1. k > 0 => k + n > 0 /\ 1 \in 1..k
    OBVIOUS
  <2>2. k + n > 0 => t # <<>>
    BY <1>3, LengthsAreNatural
  <2> QED
    BY <1>2, <1>4, <2>1, <2>2 DEF BeginsAs
<1> QED
  BY <1>3, <1>6, <1>7, <1>8, <1>9, <1>10

LEMMA OneMessage ==
  ASSUME NEW x \in Turns
  PROVE  /\ <<x>> \in Seq(Turns) /\ Members(<<x>>) = {x} /\ InOrder(<<x>>)
         /\ <<x>> # <<>> /\ <<x>>[1] = x
<1>1. DOMAIN <<x>> = {1} /\ <<x>>[1] = x
  OBVIOUS
<1> QED
  BY <1>1 DEF Members, InOrder

\* One message is removed.
LEMMA RemovalIsInOrder ==
  ASSUME NEW s \in Seq(Turns), InOrder(s), Len(s) > 1, NEW f \in 1..Len(s),
         s[f].kind # "chat", NEW t, t = RemoveAt(s, f)
  PROVE  /\ t \in Seq(Turns) /\ InOrder(t) /\ t # <<>>
         /\ Members(t) \subseteq Members(s) /\ Chats(t) = Chats(s)
         /\ f # Len(s) => t[Len(t)] = s[Len(s)]
<1>1. PICK n \in Nat : n = Len(s)
  BY LengthsAreNatural
<1>2. DOMAIN s = 1..n /\ f \in 1..n /\ n > 1
  BY <1>1, LengthsAreNatural
<1>3. PICK u, v : u = SubSeq(s, 1, f - 1) /\ v = SubSeq(s, f + 1, n)
  OBVIOUS
<1>4. t = u \o v
  BY <1>1, <1>3 DEF RemoveAt
<1>5. /\ u \in Seq(Turns) /\ Len(u) = f - 1 /\ \A i \in 1..f - 1 : u[i] = s[i]
  BY <1>1, <1>2, <1>3
<1>6. /\ v \in Seq(Turns) /\ Len(v) = n - f /\ \A i \in 1..n - f : v[i] = s[f + i]
  <2>1. /\ v \in Seq(Turns) /\ Len(v) = n - f
        /\ \A i \in 1..n - f : v[i] = s[f + 1 + i - 1]
    BY <1>1, <1>2, <1>3
  <2>2. \A i \in 1..n - f : f + 1 + i - 1 = f + i
    BY <1>2
  <2> QED
    BY <2>1, <2>2
<1>7. /\ t \in Seq(Turns) /\ Len(t) = n - 1 /\ DOMAIN t = 1..n - 1
      /\ \A i \in 1..n - 1 : t[i] = IF i <= f - 1 THEN u[i] ELSE v[i - (f - 1)]
  BY <1>2, <1>4, <1>5, <1>6
<1> DEFINE was(i) == IF i < f THEN i ELSE i + 1
<1>8. ASSUME NEW i \in 1..n - 1 PROVE t[i] = s[was(i)] /\ was(i) \in 1..n /\ was(i) # f
  <2>1. CASE i < f
    <3>1. i <= f - 1 /\ i \in 1..f - 1
      BY <1>2, <2>1
    <3> QED
      BY <1>2, <1>5, <1>7, <2>1, <3>1
  <2>2. CASE ~(i < f)
    <3>1. PICK j \in 1..n - f : j = i - (f - 1)
      BY <1>2, <2>2
    <3>2. ~(i <= f - 1) /\ f + j = i + 1
      BY <1>2, <2>2, <3>1
    <3>3. t[i] = v[j] /\ v[j] = s[f + j]
      BY <1>6, <1>7, <3>1, <3>2
    <3>4. was(i) = i + 1 /\ i + 1 \in 1..n /\ i + 1 # f
      BY <1>2, <2>2
    <3> QED
      BY <3>2, <3>3, <3>4
  <2> QED
    BY <2>1, <2>2
<1>9. \A i, j \in 1..n - 1 : i < j => was(i) < was(j)
  BY <1>2
<1>10. \A j \in 1..n : j # f => \E i \in 1..n - 1 : was(i) = j
  <2> SUFFICES ASSUME NEW j \in 1..n, j # f PROVE \E i \in 1..n - 1 : was(i) = j
    OBVIOUS
  <2>1. CASE j < f
    <3>1. j \in 1..n - 1 /\ was(j) = j
      BY <1>2, <2>1
    <3> QED
      BY <3>1
  <2>2. CASE j > f
    <3>1. j - 1 \in 1..n - 1 /\ was(j - 1) = j
      BY <1>2, <2>2
    <3> QED
      BY <3>1
  <2> QED
    BY <1>2, <2>1, <2>2
<1> HIDE DEF was
<1>11. InOrder(t)
  BY <1>2, <1>7, <1>8, <1>9 DEF InOrder
<1>12. Members(t) \subseteq Members(s)
  BY <1>2, <1>7, <1>8 DEF Members
<1>13. Chats(s) \subseteq Chats(t)
  <2> SUFFICES ASSUME NEW j \in 1..n, s[j].kind = "chat" PROVE s[j] \in Members(t)
    BY <1>2 DEF Chats, Members
  <2>1. PICK i \in 1..n - 1 : was(i) = j
    BY <1>10
  <2> QED
    BY <1>7, <1>8, <2>1 DEF Members
<1>14. f # n => t[n - 1] = s[n]
  <2>1. f # n => n - 1 \in 1..n - 1 /\ was(n - 1) = n
    BY <1>2 DEF was
  <2> QED
    BY <1>8, <2>1
<1>15. t # <<>>
  BY <1>2, <1>7, LengthsAreNatural
<1> QED
  BY <1>1, <1>7, <1>11, <1>12, <1>13, <1>14, <1>15 DEF Chats

-----------------------------------------------------------------------------
(* What each strategy makes of a conversation.                             *)

\* t is what is left of s: an end of the chat, behind the message it opened with.
Compressed(t, s) ==
  /\ t \in Seq(Turns) /\ InOrder(t)
  /\ \A m \in Members(t) : m \in Members(s) \/ (m.kind \in {"summary", "notice"} /\ m.n = 0)
  /\ \A x \in Chats(t), y \in Chats(s) : x.n < y.n => y \in Chats(t)
  /\ s[Len(s)].kind = "chat" => EndsAs(t, s)
  /\ s[1].kind = "system" => BeginsAs(t, s)

LEMMA UnchangedIsCompressed ==
  ASSUME NEW s \in Seq(Turns), InOrder(s)
  PROVE  Compressed(s, s)
BY DEF Compressed, EndsAs, BeginsAs

LEMMA OfKindIsInOrder ==
  ASSUME NEW s \in Seq(Turns), InOrder(s), NEW kinds
  PROVE  /\ OfKind(s, kinds) \in Seq(Turns) /\ InOrder(OfKind(s, kinds))
         /\ Members(OfKind(s, kinds)) = {m \in Members(s) : m.kind \in kinds}
         /\ s # <<>> /\ s[Len(s)].kind \in kinds => EndsAs(OfKind(s, kinds), s)
         /\ s # <<>> /\ s[1].kind \in kinds => BeginsAs(OfKind(s, kinds), s)
<1>1. PICK keep : keep = {m \in Range(s) : m.kind \in kinds}
  OBVIOUS
<1>2. OfKind(s, kinds) = Only(s, keep)
  BY <1>1 DEF OfKind
<1>3. /\ Only(s, keep) \in Seq(Turns)
      /\ Members(Only(s, keep)) = Members(s) \cap keep
      /\ InOrder(Only(s, keep))
      /\ s # <<>> /\ s[Len(s)] \in keep => EndsAs(Only(s, keep), s)
      /\ s # <<>> /\ s[1] \in keep => BeginsAs(Only(s, keep), s)
  BY OnlyIsInOrder
<1>4. s # <<>> => s[Len(s)] \in Members(s) /\ s[1] \in Members(s)
  <2>1. s # <<>> => Len(s) \in DOMAIN s /\ 1 \in DOMAIN s
    BY LengthsAreNatural
  <2> QED
    BY <2>1 DEF Members
<1>5. keep = {m \in Members(s) : m.kind \in kinds}
  BY <1>1, RangeIsMembers
<1> QED
  BY <1>2, <1>3, <1>4, <1>5

LEMMA HalfIsInOrder ==
  ASSUME NEW s \in Seq(Turns), InOrder(s), s # <<>>, NEW t, t = KeptHalf(s)
  PROVE  /\ t \in Seq(Turns) /\ InOrder(t) /\ Members(t) \subseteq Members(s)
         /\ t # <<>> /\ t[Len(t)] = s[Len(s)]
         /\ \A x \in Chats(t), y \in Chats(s) : x.n < y.n => y \in Chats(t)
<1>1. PICK n \in Nat : n = Len(s) /\ n > 0
  <2>1. Len(s) \in Nat /\ Len(s) # 0
    BY LengthsAreNatural
  <2> QED
    BY <2>1
<1>2. PICK k \in 1..n : k = IF n < 2 THEN 1 ELSE n \div 2
  BY <1>1
<1>3. PICK a \in 1..n : a = n - k + 1
  <2>1. n - k + 1 \in 1..n
    BY <1>1
  <2> QED
    BY <2>1
<1>4. t = SubSeq(s, a, Len(s))
  BY <1>1, <1>2, <1>3 DEF KeptHalf, Newest
<1>5. a \in 1..Len(s)
  BY <1>1, <1>3
<1> QED
  BY <1>4, <1>5, SuffixIsInOrder

LEMMA FirstExists ==
  ASSUME NEW n \in Nat, NEW I \in SUBSET (1..n), I # {}
  PROVE  \E i \in I : \A j \in I : i <= j
<1>1. IsWellFoundedOn(OpToRel(<, Nat), Nat)
  BY NatLessThanWellFounded
<1>2. I \subseteq Nat
  OBVIOUS
<1>3. PICK i \in I : \A j \in I : ~(<<j, i>> \in OpToRel(<, Nat))
  BY <1>1, <1>2, WFMin
<1>4. \A j \in I : ~(j < i)
  BY <1>2, <1>3 DEF OpToRel
<1> QED
  BY <1>2, <1>4

LEMMA DropIsCompressed ==
  ASSUME NEW s \in Seq(Turns), InOrder(s), Len(s) > 1, NEW t, t = DropOldest(s)
  PROVE  Compressed(t, s)
<1>1. PICK n \in Nat : n = Len(s)
  BY LengthsAreNatural
<1>2. DOMAIN s = 1..n /\ n > 1 /\ s # <<>>
  <2>1. n # 0
    BY <1>1
  <2> QED
    BY <1>1, <2>1, LengthsAreNatural
<1>3. PICK I : I = {i \in DOMAIN s : s[i].kind # "chat"}
  OBVIOUS
<1>4. CASE I = {}
  <2>1. t = KeptHalf(s)
    BY <1>3, <1>4 DEF DropOldest
  <2>2. s[1].kind = "chat"
    BY <1>2, <1>3, <1>4
  <2> QED
    BY <1>2, <2>1, <2>2, HalfIsInOrder DEF Compressed, EndsAs
<1>5. CASE I # {}
  <2>1. PICK f : f = CHOOSE i \in I : \A j \in I : i <= j
    OBVIOUS
  <2>2. f \in I /\ \A j \in I : f <= j
    <3>1. I \in SUBSET (1..n)
      BY <1>2, <1>3
    <3>2. \E i \in I : \A j \in I : i <= j
      BY <1>5, <3>1, FirstExists
    <3> QED
      BY <2>1, <3>2
  <2>3. PICK r : r = RemoveAt(s, f)
    OBVIOUS
  <2>4. t = <<s[f]>> \o KeptHalf(r)
    BY <1>3, <1>5, <2>1, <2>3 DEF DropOldest
  <2>5. f \in 1..Len(s) /\ s[f].kind # "chat" /\ s[f] \in Turns /\ s[f] \in Members(s)
    BY <1>1, <1>2, <1>3, <2>2, LengthsAreNatural DEF Members
  <2>6. /\ r \in Seq(Turns) /\ InOrder(r) /\ r # <<>>
        /\ Members(r) \subseteq Members(s) /\ Chats(r) = Chats(s)
        /\ f # Len(s) => r[Len(r)] = s[Len(s)]
    BY <2>3, <2>5, RemovalIsInOrder
  <2>7. PICK h : h = KeptHalf(r)
    OBVIOUS
  <2>8. /\ h \in Seq(Turns) /\ InOrder(h) /\ Members(h) \subseteq Members(r)
        /\ h # <<>> /\ h[Len(h)] = r[Len(r)]
        /\ \A x \in Chats(h), y \in Chats(r) : x.n < y.n => y \in Chats(h)
    BY <2>6, <2>7, HalfIsInOrder
  <2>9. PICK o : o = <<s[f]>>
    OBVIOUS
  <2>10. /\ o \in Seq(Turns) /\ Members(o) = {s[f]} /\ o # <<>> /\ o[1] = s[f]
         /\ Chats(o) = {}
    BY <2>5, <2>9, OneMessage DEF Chats
  <2>11. /\ t \in Seq(Turns) /\ InOrder(t) /\ Members(t) = Members(o) \cup Members(h)
         /\ Chats(t) = Chats(h) /\ EndsAs(t, h) /\ BeginsAs(t, o)
    <3>1. Joins(t, o, h)
      BY <2>4, <2>7, <2>9 DEF Joins
    <3> QED
      BY <2>8, <2>10, <3>1, JoinIsInOrder
  <2>12. Members(t) \subseteq Members(s)
    BY <2>5, <2>6, <2>8, <2>10, <2>11
  <2>13. s[Len(s)].kind = "chat" => EndsAs(t, s)
    BY <2>5, <2>6, <2>8, <2>11 DEF EndsAs
  <2>14. s[1].kind = "system" => BeginsAs(t, s)
    <3>1. s[1].kind = "system" => f = 1
      <4>1. s[1].kind = "system" => 1 \in I
        BY <1>2, <1>3
      <4>2. 1 \in I => f <= 1
        BY <2>2
      <4>3. f \in 1..n
        BY <1>2, <1>3, <2>2
      <4> QED
        BY <4>1, <4>2, <4>3
    <3> QED
      BY <2>10, <2>11, <3>1 DEF BeginsAs
  <2> QED
    BY <2>6, <2>8, <2>11, <2>12, <2>13, <2>14 DEF Compressed
<1> QED
  BY <1>4, <1>5

\* A notice between system messages and chat.
LEMMA NoticeIsCompressed ==
  ASSUME NEW s \in Seq(Turns), InOrder(s), s # <<>>,
         NEW u \in Seq(Turns), Chats(u) = {}, Members(u) \subseteq Members(s),
         s[1].kind = "system" => BeginsAs(u, s),
         NEW x \in Turns, x.kind \in {"summary", "notice"}, x.n = 0,
         NEW v \in Seq(Turns), InOrder(v), Members(v) \subseteq Members(s),
         s[Len(s)].kind = "chat" => EndsAs(v, s),
         \A y \in Chats(v), z \in Chats(s) : y.n < z.n => z \in Chats(v),
         NEW o, Is(o, x), NEW w, Joins(w, u, o), NEW t, Joins(t, w, v)
  PROVE  Compressed(t, s) /\ Members(t) = Members(u) \cup {x} \cup Members(v)
<1>2. o \in Seq(Turns) /\ Members(o) = {x} /\ InOrder(o) /\ o # <<>> /\ Chats(o) = {}
  <2>1. o \in Seq(Turns) /\ Members(o) = {x} /\ InOrder(o) /\ o # <<>>
    BY OneMessage DEF Is
  <2> QED
    BY <2>1 DEF Chats
<1>4. /\ w \in Seq(Turns) /\ Members(w) = Members(u) \cup {x} /\ Chats(w) = {}
      /\ BeginsAs(w, u)
  <2>1. u \in Seq(Turns) /\ o \in Seq(Turns) /\ Chats(u) = {} /\ InOrder(o)
    BY <1>2
  <2>2. Joins(w, u, o)
    OBVIOUS
  <2>3. /\ w \in Seq(Turns) /\ Members(w) = Members(u) \cup Members(o)
        /\ Chats(w) = Chats(o) /\ BeginsAs(w, u)
    BY <2>1, <2>2, JoinIsInOrder
  <2> QED
    BY <1>2, <2>3
<1>6. /\ t \in Seq(Turns) /\ InOrder(t) /\ Members(t) = Members(w) \cup Members(v)
      /\ Chats(t) = Chats(v) /\ EndsAs(t, v) /\ BeginsAs(t, w)
  BY <1>4, JoinIsInOrder
<1>7. s[Len(s)].kind = "chat" => EndsAs(t, s)
  BY <1>6 DEF EndsAs
<1>8. s[1].kind = "system" => BeginsAs(t, s)
  BY <1>4, <1>6 DEF BeginsAs
<1>9. \A m \in Members(t) : m \in Members(s) \/ (m.kind \in {"summary", "notice"} /\ m.n = 0)
  BY <1>4, <1>6
<1> QED
  BY <1>4, <1>6, <1>7, <1>8, <1>9 DEF Compressed

\* Among messages in order those of later rounds are the later ones.
LEMMA RoundsAreInOrder ==
  ASSUME NEW s \in Seq(Turns), InOrder(s), NEW x \in Chats(s), NEW y \in Chats(s),
         x.n < y.n
  PROVE  x.round <= y.round
<1>1. PICK n \in Nat : n = Len(s)
  BY LengthsAreNatural
<1>2. DOMAIN s = 1..n
  BY <1>1, LengthsAreNatural
<1>3. PICK i \in 1..n, j \in 1..n : x = s[i] /\ y = s[j]
  BY <1>2 DEF Chats, Members
<1>4. x \in Turns /\ y \in Turns /\ x.kind = "chat" /\ y.kind = "chat"
  <2>1. \A k \in 1..n : s[k] \in Turns
    BY <1>1, LengthsAreNatural
  <2> QED
    BY <1>3, <2>1 DEF Chats
<1>5. x.n \in Nat /\ y.n \in Nat
  BY <1>4, TurnsAreNumbered, Zenon
<1>6. ~(j < i) /\ i # j
  <2>1. j < i => Before(y, x)
    BY <1>2, <1>3 DEF InOrder
  <2>2. Before(y, x) => y.n < x.n
    BY <1>4 DEF Before
  <2> QED
    BY <1>3, <1>5, <2>1, <2>2
<1>7. i < j
  BY <1>6
<1>8. Before(x, y)
  BY <1>2, <1>3, <1>7 DEF InOrder
<1> QED
  BY <1>4, <1>8 DEF Before

\* The last of the chat is of the last round.
LEMMA LastRoundIsLast ==
  ASSUME NEW s \in Seq(Turns), InOrder(s), s # <<>>, Chats(s) = Members(s),
         NEW x \in Members(s)
  PROVE  x.round <= s[Len(s)].round /\ x.round \in Nat /\ s[Len(s)] \in Members(s)
<1>1. PICK n \in Nat : n = Len(s)
  BY LengthsAreNatural
<1>2. DOMAIN s = 1..n /\ (\A k \in 1..n : s[k] \in Turns) /\ n \in 1..n
  <2>1. n # 0
    BY <1>1, LengthsAreNatural
  <2> QED
    BY <1>1, <2>1, LengthsAreNatural
<1>3. PICK i \in 1..n : x = s[i]
  BY <1>2 DEF Members
<1>4. s[n] \in Members(s) /\ x.round \in Nat /\ s[n].round \in Nat
  <2>1. s[n] \in Members(s) /\ x \in Turns /\ s[n] \in Turns
    BY <1>2, <1>3 DEF Members
  <2> QED
    BY <2>1, TurnsAreNumbered, Zenon
<1>5. x.kind = "chat" /\ s[n].kind = "chat"
  BY <1>4 DEF Chats
<1>6. CASE i = n
  BY <1>1, <1>3, <1>4, <1>6
<1>7. CASE i # n
  <2>1. i < n
    BY <1>7
  <2>2. Before(x, s[n])
    BY <1>2, <1>3, <2>1 DEF InOrder
  <2> QED
    BY <1>1, <1>4, <1>5, <2>2 DEF Before
<1> QED
  BY <1>6, <1>7

LEMMA SlideIsCompressed ==
  ASSUME NEW s \in Seq(Turns), InOrder(s), s # <<>>, NEW t, t = SlidingWindow(s)
  PROVE  Compressed(t, s)
<1>1. PICK u, c : u = OfKind(s, {"system", "notice"}) /\ c = OfKind(s, {"chat"})
  OBVIOUS
<1>2. /\ u \in Seq(Turns) /\ Members(u) = {m \in Members(s) : m.kind \in {"system", "notice"}}
      /\ s[1].kind = "system" => BeginsAs(u, s)
  BY <1>1, OfKindIsInOrder
<1>3. /\ c \in Seq(Turns) /\ InOrder(c)
      /\ Members(c) = {m \in Members(s) : m.kind \in {"chat"}}
      /\ s[Len(s)].kind = "chat" => EndsAs(c, s)
  BY <1>1, OfKindIsInOrder
<1>4. Chats(u) = {} /\ Members(c) = Chats(s) /\ Chats(c) = Members(c)
  BY <1>2, <1>3 DEF Chats
<1>5. PICK rounds : rounds = {m.round : m \in Range(c)}
  OBVIOUS
<1>6. PICK kept : kept = {r \in rounds : Cardinality({l \in rounds : l > r}) < WindowSize}
  OBVIOUS
<1>7. PICK keep : keep = {m \in Range(c) : m.round \in kept}
  OBVIOUS
<1>8. PICK v : v = Only(c, keep)
  OBVIOUS
<1>9. CASE Len(c) <= WindowSize
  <2>1. t = s
    BY <1>1, <1>9 DEF SlidingWindow
  <2> QED
    BY <2>1, UnchangedIsCompressed
<1>10. CASE ~(Len(c) <= WindowSize)
  <2>1. t = u \o <<TruncatedNotice>> \o v
    BY <1>1, <1>5, <1>6, <1>7, <1>8, <1>10 DEF SlidingWindow
  <2>2. /\ TruncatedNotice \in Turns /\ TruncatedNotice.kind \in {"summary", "notice"}
        /\ TruncatedNotice.n = 0
    BY WindowAssumption DEF TruncatedNotice, Turns
  <2>3. /\ v \in Seq(Turns) /\ InOrder(v) /\ Members(v) = Members(c) \cap keep
        /\ c # <<>> /\ c[Len(c)] \in keep => EndsAs(v, c)
    BY <1>3, <1>8, OnlyIsInOrder
  <2>4. rounds = {m.round : m \in Members(c)} /\ keep = {m \in Members(c) : m.round \in kept}
    BY <1>5, <1>7, RangeIsMembers
  <2>5. rounds \subseteq Nat /\ \A m \in Members(c) : m.round \in rounds
    <3>1. \A m \in Members(c) : m \in Turns
      BY <1>3, LengthsAreNatural DEF Members
    <3> QED
      BY <2>4, <3>1 DEF Turns
  <2>6. IsFiniteSet(rounds)
    <3>1. PICK n \in Nat : n = Len(c)
      BY <1>3, LengthsAreNatural
    <3>2. DOMAIN c = 1..n
      BY <1>3, <3>1, LengthsAreNatural
    <3> DEFINE of == [i \in 1..n |-> c[i].round]
    <3>3. of \in Surjection(1..n, rounds)
      <4>1. \A i \in 1..n : of[i] \in rounds
        BY <2>5, <3>2 DEF Members
      <4>2. \A r \in rounds : \E i \in 1..n : of[i] = r
        BY <2>4, <3>2 DEF Members
      <4> HIDE DEF of
      <4>3. of \in [1..n -> rounds]
        BY <4>1 DEF of
      <4> QED
        BY <4>2, <4>3 DEF Surjection
    <3>4. IsFiniteSet(1..n)
      BY FS_Interval
    <3> QED
      BY <3>3, <3>4, FS_Surjection
  <2>7. ASSUME NEW r \in rounds, NEW q \in rounds, r <= q, r \in kept PROVE q \in kept
    <3>1. PICK above, beyond : /\ above = {l \in rounds : l > r}
                               /\ beyond = {l \in rounds : l > q}
      OBVIOUS
    <3>2. beyond \subseteq above
      <4> SUFFICES ASSUME NEW l \in rounds, l > q PROVE l > r
        BY <3>1
      <4>1. l \in Nat /\ q \in Nat /\ r \in Nat
        BY <2>5
      <4> QED
        BY <2>7, <4>1
    <3>3. IsFiniteSet(above) /\ IsFiniteSet(beyond)
      BY <2>6, <3>1, FS_Subset
    <3>4. /\ Cardinality(above) \in Nat /\ Cardinality(beyond) \in Nat
          /\ Cardinality(beyond) <= Cardinality(above)
      BY <3>2, <3>3, FS_Subset, FS_CardinalityType
    <3>5. Cardinality(above) < WindowSize
      BY <1>6, <2>7, <3>1
    <3>6. Cardinality(beyond) < WindowSize
      BY <3>4, <3>5, WindowAssumption
    <3> QED
      BY <1>6, <3>1, <3>6
  <2>8. \A y \in Chats(v), z \in Chats(s) : y.n < z.n => z \in Chats(v)
    <3> SUFFICES ASSUME NEW y \in Chats(v), NEW z \in Chats(s), y.n < z.n
                 PROVE  z \in Chats(v)
      OBVIOUS
    <3>1. y \in Chats(c) /\ z \in Chats(c) /\ y.round \in kept
      BY <1>4, <2>3, <2>4 DEF Chats
    <3>2. y.round <= z.round
      BY <1>3, <3>1, RoundsAreInOrder
    <3>3. z.round \in kept
      BY <1>4, <2>5, <2>7, <3>1, <3>2
    <3> QED
      BY <1>4, <2>3, <2>4, <3>1, <3>3 DEF Chats
  <2>9. s[Len(s)].kind = "chat" => EndsAs(v, s)
    <3> SUFFICES ASSUME s[Len(s)].kind = "chat" PROVE EndsAs(v, s)
      OBVIOUS
    <3>1. c # <<>> /\ c[Len(c)] = s[Len(s)]
      BY <1>3 DEF EndsAs
    <3>2. PICK last : last = c[Len(c)]
      OBVIOUS
    <3>3. last \in Members(c) /\ \A m \in Members(c) : m.round <= last.round
      <4>1. \E m : m \in Members(c)
        <5>1. 1 \in DOMAIN c
          BY <1>3, <3>1, LengthsAreNatural
        <5> QED
          BY <5>1 DEF Members
      <4> QED
        BY <1>3, <1>4, <3>1, <3>2, <4>1, LastRoundIsLast
    <3>4. {l \in rounds : l > last.round} = {}
      <4> SUFFICES ASSUME NEW l \in rounds, l > last.round PROVE FALSE
        OBVIOUS
      <4>1. l <= last.round
        BY <2>4, <3>3
      <4>2. l \in Nat /\ last.round \in Nat
        BY <2>5, <3>3
      <4> QED
        BY <4>1, <4>2
    <3>5. Cardinality({l \in rounds : l > last.round}) = 0
      BY <3>4, FS_EmptySet
    <3>6. last.round \in kept
      BY <1>6, <2>5, <3>3, <3>5, WindowAssumption
    <3>7. last \in keep
      BY <2>4, <3>3, <3>6
    <3> QED
      BY <2>3, <3>1, <3>2, <3>7 DEF EndsAs
  <2>10. Members(u) \subseteq Members(s) /\ Members(v) \subseteq Members(s)
    BY <1>2, <1>3, <2>3
  <2>11. PICK x, o, w : x = TruncatedNotice /\ o = <<x>> /\ w = u \o o
    OBVIOUS
  <2>12. Joins(w, u, o) /\ Joins(t, w, v)
    BY <2>1, <2>11 DEF Joins
  <2>13. x \in Turns /\ x.kind \in {"summary", "notice"} /\ x.n = 0
    BY <2>2, <2>11
  <2>14. Is(o, x)
    BY <2>11 DEF Is
  <2> QED
    BY <1>2, <1>4, <2>3, <2>8, <2>9, <2>10, <2>12, <2>13, <2>14, NoticeIsCompressed
<1> QED
  BY <1>9, <1>10

\* What a summary stands for is what it takes the place of.
LEMMA SummaryIsCompressed ==
  ASSUME NEW s \in Seq(Turns), InOrder(s), s # <<>>,
         \A m \in Chats(s) : m.n \in 1..MaxMessages, NEW t, t = Summarize(s)
  PROVE  /\ Compressed(t, s)
         /\ \A m \in Members(s) :
              m \in Members(t) \/ (m.kind = "chat" /\ \E x \in Members(t) : m.n \in x.covers)
<1>1. PICK u, c : u = OfKind(s, {"system", "summary", "notice"}) /\ c = OfKind(s, {"chat"})
  OBVIOUS
<1>2. /\ u \in Seq(Turns)
      /\ Members(u) = {m \in Members(s) : m.kind \in {"system", "summary", "notice"}}
      /\ s[1].kind = "system" => BeginsAs(u, s)
  BY <1>1, OfKindIsInOrder
<1>3. /\ c \in Seq(Turns) /\ InOrder(c)
      /\ Members(c) = {m \in Members(s) : m.kind \in {"chat"}}
      /\ s[Len(s)].kind = "chat" => EndsAs(c, s)
  BY <1>1, OfKindIsInOrder
<1>4. Chats(u) = {} /\ Members(c) = Chats(s) /\ Chats(c) = Members(c)
  BY <1>2, <1>3 DEF Chats
<1>5. PICK n \in Nat : n = Len(c)
  BY <1>3, LengthsAreNatural
<1>6. CASE n < 2
  <2>1. t = s
    BY <1>1, <1>5, <1>6 DEF Summarize
  <2> QED
    BY <2>1, UnchangedIsCompressed
<1>7. CASE ~(n < 2)
  <2>1. PICK half \in 1..n : half = n \div 2 /\ half + 1 \in 1..n
    <3>1. n \div 2 \in 1..n /\ (n \div 2) + 1 \in 1..n
      BY <1>7
    <3> QED
      BY <3>1
  <2>2. PICK covers : covers = {c[i].n : i \in 1..half}
    OBVIOUS
  <2>3. PICK v : v = SubSeq(c, half + 1, Len(c))
    OBVIOUS
  <2>4. t = u \o <<Summary(covers)>> \o v
    BY <1>1, <1>5, <1>7, <2>1, <2>2, <2>3 DEF Summarize
  <2>5. DOMAIN c = 1..n /\ \A i \in 1..n : c[i] \in Chats(s)
    <3>1. DOMAIN c = 1..n
      BY <1>3, <1>5, LengthsAreNatural
    <3> QED
      BY <1>4, <3>1 DEF Members
  <2>6. covers \subseteq 1..MaxMessages
    <3>1. \A i \in 1..half : i \in 1..n
      BY <2>1
    <3> QED
      BY <2>2, <2>5, <3>1
  <2>7. PICK x : x = Summary(covers)
    OBVIOUS
  <2>8. x \in Turns /\ x.kind = "summary" /\ x.n = 0 /\ x.covers = covers
    BY <2>6, <2>7, WindowAssumption DEF Summary, Turns
  <2>9. /\ v \in Seq(Turns) /\ InOrder(v) /\ Members(v) \subseteq Members(c)
        /\ v # <<>> /\ v[Len(v)] = c[Len(c)]
        /\ \A i \in half + 1..Len(c) : c[i] \in Members(v)
        /\ \A y \in Chats(v), z \in Chats(c) : y.n < z.n => z \in Chats(v)
    <3>1. half + 1 \in 1..Len(c)
      BY <1>5, <2>1
    <3>2. PICK a \in 1..Len(c) : a = half + 1
      BY <3>1
    <3>3. v = SubSeq(c, a, Len(c)) /\ c \in Seq(Turns) /\ InOrder(c)
      BY <1>3, <2>3, <3>2
    <3>4. /\ v \in Seq(Turns) /\ InOrder(v) /\ Members(v) \subseteq Members(c)
          /\ v # <<>> /\ v[Len(v)] = c[Len(c)]
          /\ \A i \in a..Len(c) : c[i] \in Members(v)
          /\ \A y \in Chats(v), z \in Chats(c) : y.n < z.n => z \in Chats(v)
      BY <3>3, SuffixIsInOrder
    <3> QED
      BY <3>2, <3>4
  <2>10. s[Len(s)].kind = "chat" => EndsAs(v, s)
    BY <1>3, <2>9 DEF EndsAs
  <2>11. Members(u) \subseteq Members(s) /\ Members(v) \subseteq Members(s)
    BY <1>2, <1>3, <2>9
  <2>12. Compressed(t, s) /\ Members(t) = Members(u) \cup {x} \cup Members(v)
    <3>1. PICK o, w : o = <<x>> /\ Joins(w, u, o) /\ Joins(t, w, v)
      BY <2>4, <2>7 DEF Joins
    <3>2. \A y \in Chats(v), z \in Chats(s) : y.n < z.n => z \in Chats(v)
      BY <1>4, <2>9
    <3>3. /\ u \in Seq(Turns) /\ Chats(u) = {} /\ Members(u) \subseteq Members(s)
          /\ s[1].kind = "system" => BeginsAs(u, s)
          /\ x \in Turns /\ x.kind \in {"summary", "notice"} /\ x.n = 0
          /\ v \in Seq(Turns) /\ InOrder(v) /\ Members(v) \subseteq Members(s)
          /\ s[Len(s)].kind = "chat" => EndsAs(v, s)
      BY <1>2, <1>4, <2>8, <2>9, <2>10, <2>11
    <3>4. Is(o, x)
      BY <3>1 DEF Is
    <3>5. Joins(w, u, o) /\ Joins(t, w, v)
      BY <3>1
    <3> QED
      BY <3>2, <3>3, <3>4, <3>5, NoticeIsCompressed
  <2>13. ASSUME NEW m \in Members(s)
         PROVE  m \in Members(t) \/ (m.kind = "chat" /\ \E y \in Members(t) : m.n \in y.covers)
    <3>1. CASE m.kind = "chat"
      <4>1. PICK i \in 1..n : m = c[i]
        BY <1>4, <2>5, <3>1 DEF Chats, Members
      <4>2. CASE i <= half
        <5>1. m.n \in covers
          <6>1. i \in 1..half
            BY <2>1, <4>2
          <6> QED
            BY <2>2, <4>1, <6>1
        <5> QED
          BY <2>8, <2>12, <3>1, <5>1
      <4>3. CASE ~(i <= half)
        <5>1. i \in half + 1..Len(c)
          BY <1>5, <2>1, <4>3
        <5> QED
          BY <2>9, <2>12, <4>1, <5>1
      <4> QED
        BY <4>2, <4>3
    <3>2. CASE m.kind # "chat"
      <4>1. m \in Turns
        BY LengthsAreNatural DEF Members
      <4>2. m.kind \in {"system", "summary", "notice"}
        BY <3>2, <4>1 DEF Turns
      <4> QED
        BY <1>2, <2>12, <4>2
    <3> QED
      BY <3>1, <3>2
  <2> QED
    BY <2>12, <2>13
<1> QED
  BY <1>6, <1>7

-----------------------------------------------------------------------------
(* What holds of every conversation.                                       *)

\* The messages s of a conversation in which k were said, those in I by the
\* host, the last in round r: each is what it says it is, the chat is the end of
\* the talk, and the one said last and the prompt are at its ends.
Means(m, k, I, r) ==
  /\ m.kind = "chat" => m.n \in (1..k) \ I /\ m.round <= r /\ m.covers = {}
  /\ m.kind = "system" => m.n \in I
  /\ m.kind \in {"summary", "notice"} => m.n = 0

EndIsWhole(s, k, I) ==
  \A m \in Chats(s), n \in (1..k) \ I : m.n < n => \E x \in Chats(s) : x.n = n

LastIsThere(s, k, I) ==
  k \in (1..k) \ I => s # <<>> /\ s[Len(s)].kind = "chat" /\ s[Len(s)].n = k

PromptIsFirst(s, I) == 1 \in I => s # <<>> /\ s[1].kind = "system" /\ s[1].n = 1

IsSound(s, k, I, r) ==
  /\ s \in Seq(Turns) /\ InOrder(s)
  /\ \A m \in Members(s) : Means(m, k, I, r)
  /\ EndIsWhole(s, k, I) /\ LastIsThere(s, k, I) /\ PromptIsFirst(s, I)

\* Every message is there or in a summary that is.
IsCovered(s, k) == \A n \in 1..k : \E m \in Members(s) : n = m.n \/ n \in m.covers

WindowCounts ==
  /\ strategy \in {"summarize", "sliding_window", "drop_oldest"}
  /\ spoken \in 0..MaxMessages /\ instructions \subseteq 1..spoken
  /\ round \in Nat /\ refusals \in 0..MaxRefusals /\ compressions \in 0..MaxCompressions

WindowInv ==
  /\ WindowCounts
  /\ IsSound(conversation, spoken, instructions, round)
  /\ spoken = 0 => conversation = <<>>
  /\ strategy = "summarize" /\ refusals = 0 => IsCovered(conversation, spoken)

LEMMA CompressedIsSound ==
  ASSUME NEW s, s # <<>>, NEW k \in Nat, NEW I, NEW r, IsSound(s, k, I, r),
         NEW t, Compressed(t, s)
  PROVE  IsSound(t, k, I, r)
<1>1. /\ t \in Seq(Turns) /\ InOrder(t)
      /\ \A m \in Members(t) : m \in Members(s) \/ (m.kind \in {"summary", "notice"} /\ m.n = 0)
      /\ \A x \in Chats(t), y \in Chats(s) : x.n < y.n => y \in Chats(t)
      /\ s[Len(s)].kind = "chat" => EndsAs(t, s)
      /\ s[1].kind = "system" => BeginsAs(t, s)
  BY DEF Compressed
<1>2. /\ s \in Seq(Turns) /\ \A m \in Members(s) : Means(m, k, I, r)
      /\ EndIsWhole(s, k, I) /\ LastIsThere(s, k, I) /\ PromptIsFirst(s, I)
  BY DEF IsSound
<1>3. \A m \in Members(t) : Means(m, k, I, r)
  <2> SUFFICES ASSUME NEW m \in Members(t), m \notin Members(s) PROVE Means(m, k, I, r)
    BY <1>2
  <2>1. m.kind \in {"summary", "notice"} /\ m.n = 0
    BY <1>1
  <2> QED
    BY <2>1 DEF Means
<1>4. EndIsWhole(t, k, I)
  <2> SUFFICES ASSUME NEW m \in Chats(t), NEW n \in (1..k) \ I, m.n < n
               PROVE  \E x \in Chats(t) : x.n = n
    BY DEF EndIsWhole
  <2>1. m \in Chats(s)
    BY <1>1 DEF Chats
  <2>2. PICK y \in Chats(s) : y.n = n
    BY <1>2, <2>1 DEF EndIsWhole
  <2> QED
    BY <1>1, <2>2
<1>5. LastIsThere(t, k, I)
  BY <1>1, <1>2 DEF LastIsThere, EndsAs
<1>6. PromptIsFirst(t, I)
  BY <1>1, <1>2 DEF PromptIsFirst, BeginsAs
<1> QED
  BY <1>1, <1>3, <1>4, <1>5, <1>6 DEF IsSound

\* One more message is said.
LEMMA ContinuedIsSound ==
  ASSUME NEW s, NEW k \in Nat, NEW I \in SUBSET (1..k), NEW r \in Nat, IsSound(s, k, I, r),
         k = 0 => s = <<>>,
         NEW x \in Turns, x.n = k + 1, NEW q \in Nat, r <= q,
         NEW J, \/ x.kind = "chat" /\ J = I /\ x.round = q /\ x.covers = {}
                \/ x.kind = "system" /\ J = I \cup {k + 1},
         NEW t, t = Append(s, x)
  PROVE  IsSound(t, k + 1, J, q) /\ (IsCovered(s, k) => IsCovered(t, k + 1))
<1>1. /\ s \in Seq(Turns) /\ InOrder(s) /\ \A m \in Members(s) : Means(m, k, I, r)
      /\ EndIsWhole(s, k, I) /\ LastIsThere(s, k, I) /\ PromptIsFirst(s, I)
  BY DEF IsSound
<1>2. /\ t \in Seq(Turns) /\ Members(t) = Members(s) \cup {x} /\ t # <<>> /\ t[Len(t)] = x
      /\ BeginsAs(t, s)
  BY <1>1, MembersAfterAppend
<1>3. \A m \in Members(s) : m \in Turns
  BY <1>1, LengthsAreNatural DEF Members
<1>4. InOrder(t)
  <2> SUFFICES ASSUME NEW m \in Members(s) PROVE Before(m, x)
    BY <1>1, AppendIsInOrder
  <2> SUFFICES ASSUME m.kind = "chat", x.kind = "chat" PROVE m.n < x.n /\ m.round <= x.round
    BY DEF Before
  <2>1. m.n \in 1..k /\ m.round <= r
    BY <1>1 DEF Means
  <2>2. m.round \in Nat /\ x.round = q
    BY <1>3, TurnsAreNumbered, Zenon
  <2> QED
    BY <2>1, <2>2
<1>5. (1..k + 1) \ J \subseteq ((1..k) \ I) \cup {k + 1} /\ (1..k) \ I \subseteq (1..k + 1) \ J
  OBVIOUS
<1>6. ASSUME NEW m \in Members(t) PROVE Means(m, k + 1, J, q)
  <2>1. CASE m \in Members(s)
    <3>1. Means(m, k, I, r) /\ I \subseteq J /\ m.round \in Nat
      BY <1>1, <1>3, <2>1, TurnsAreNumbered, Zenon
    <3>2. m.round <= r => m.round <= q
      BY <3>1
    <3> QED
      BY <1>5, <3>1, <3>2 DEF Means
  <2>2. CASE m = x
    <3>1. x.kind = "chat" => k + 1 \in (1..k + 1) \ J
      OBVIOUS
    <3>2. x.kind = "system" => k + 1 \in J
      OBVIOUS
    <3> QED
      BY <2>2, <3>1, <3>2 DEF Means
  <2> QED
    BY <1>2, <2>1, <2>2
<1>7. EndIsWhole(t, k + 1, J)
  <2> SUFFICES ASSUME NEW m \in Chats(t), NEW n \in (1..k + 1) \ J, m.n < n
               PROVE  \E y \in Chats(t) : y.n = n
    BY DEF EndIsWhole
  <2>1. CASE n = k + 1
    <3>1. x.kind = "chat"
      BY <2>1
    <3>2. x \in Chats(t)
      BY <1>2, <3>1 DEF Chats
    <3> QED
      BY <2>1, <3>2
  <2>2. CASE n # k + 1
    <3>1. n \in (1..k) \ I
      BY <1>5, <2>2
    <3>2. m # x
      BY <3>1
    <3>3. m \in Chats(s) /\ Chats(s) \subseteq Chats(t)
      BY <1>2, <3>2 DEF Chats
    <3>4. \E y \in Chats(s) : y.n = n
      BY <1>1, <3>1, <3>3 DEF EndIsWhole
    <3> QED
      BY <3>3, <3>4
  <2> QED
    BY <2>1, <2>2
<1>8. LastIsThere(t, k + 1, J)
  BY <1>2 DEF LastIsThere
<1>9. PromptIsFirst(t, J)
  <2> SUFFICES ASSUME 1 \in J PROVE t # <<>> /\ t[1].kind = "system" /\ t[1].n = 1
    BY DEF PromptIsFirst
  <2>1. CASE k = 0
    <3>1. s = <<>> /\ I = {}
      BY <2>1
    <3>2. t[1] = x
      BY <3>1
    <3>3. x.kind = "system" /\ x.n = 1
      BY <2>1, <3>1
    <3> QED
      BY <1>2, <3>2, <3>3
  <2>2. CASE k # 0
    <3>1. 1 \in I
      BY <2>2
    <3> QED
      BY <1>1, <1>2, <3>1 DEF PromptIsFirst, BeginsAs
  <2> QED
    BY <2>1, <2>2
<1>10. ASSUME IsCovered(s, k) PROVE IsCovered(t, k + 1)
  <2> SUFFICES ASSUME NEW n \in 1..k + 1 PROVE \E m \in Members(t) : n = m.n \/ n \in m.covers
    BY DEF IsCovered
  <2>1. CASE n = k + 1
    BY <1>2, <2>1
  <2>2. CASE n # k + 1
    <3>1. n \in 1..k
      BY <2>2
    <3> QED
      BY <1>2, <1>10, <3>1 DEF IsCovered
  <2> QED
    BY <2>1, <2>2
<1> QED
  BY <1>2, <1>4, <1>6, <1>7, <1>8, <1>9, <1>10 DEF IsSound

LEMMA WindowInvHolds == WindowInv => WindowTypeOK /\ NothingRecentIsLost
<1> SUFFICES ASSUME WindowInv PROVE WindowTypeOK /\ NothingRecentIsLost
  OBVIOUS
<1>1. WindowTypeOK
  <2>1. spoken \in 0..MaxMessages => 1..spoken \subseteq 1..MaxMessages
    BY WindowAssumption
  <2> QED
    BY <2>1 DEF WindowInv, WindowCounts, IsSound, Turns, WindowTypeOK
<1> DEFINE s == conversation
           here == {s[i].n : i \in DOMAIN s}
           chats == (1..spoken) \ instructions
<1>2. /\ s \in Seq(Turns) /\ InOrder(s)
      /\ \A m \in Members(s) : Means(m, spoken, instructions, round)
      /\ EndIsWhole(s, spoken, instructions) /\ LastIsThere(s, spoken, instructions)
      /\ PromptIsFirst(s, instructions)
      /\ spoken \in Nat /\ instructions \subseteq 1..spoken
  <2>1. spoken \in 0..MaxMessages => spoken \in Nat
    BY WindowAssumption
  <2> QED
    BY <2>1 DEF WindowInv, WindowCounts, IsSound
<1>3. s # <<>> => Len(s) \in DOMAIN s /\ 1 \in DOMAIN s
  BY <1>2, LengthsAreNatural
<1>4. \A m \in Members(s) : m \in Turns
  BY <1>2, LengthsAreNatural DEF Members
<1>5. \A m \in Members(s) : m.n \in chats => m \in Chats(s)
  <2> SUFFICES ASSUME NEW m \in Members(s), m.n \in chats PROVE m.kind = "chat"
    BY DEF Chats
  <2>1. m.n # 0 /\ m.n \notin instructions
    BY <1>2
  <2>2. Means(m, spoken, instructions, round)
    BY <1>2
  <2>3. m.kind \in {"system", "chat", "summary", "notice"}
    BY <1>4 DEF Turns
  <2> QED
    BY <2>1, <2>2, <2>3 DEF Means
<1>6. spoken \in chats => spoken \in here
  BY <1>2, <1>3 DEF LastIsThere
<1>7. 1 \in instructions => 1 \in here
  BY <1>2, <1>3 DEF PromptIsFirst
<1>8. ASSUME NEW m \in chats, NEW n \in chats, m < n, m \in here PROVE n \in here
  <2>1. PICK i \in DOMAIN s : m = s[i].n
    BY <1>8
  <2>2. s[i] \in Chats(s)
    BY <1>5, <2>1 DEF Members
  <2>3. PICK x \in Chats(s) : x.n = n
    BY <1>2, <1>8, <2>1, <2>2 DEF EndIsWhole
  <2> QED
    BY <2>3 DEF Chats, Members
<1>9. ASSUME NEW i \in DOMAIN s, NEW j \in DOMAIN s, i < j, s[i].n \in chats, s[j].n \in chats
      PROVE  s[i].n < s[j].n
  <2>1. s[i] \in Chats(s) /\ s[j] \in Chats(s)
    BY <1>5, <1>9 DEF Members
  <2>2. Before(s[i], s[j])
    BY <1>2, <1>9 DEF InOrder
  <2> QED
    BY <2>1, <2>2 DEF Before, Chats
<1>10. ASSUME strategy = "summarize", refusals = 0, NEW n \in 1..spoken
       PROVE  \E i \in DOMAIN s : n \in s[i].covers \cup {s[i].n}
  <2>1. IsCovered(s, spoken)
    BY <1>10 DEF WindowInv
  <2>2. PICK m \in Members(s) : n = m.n \/ n \in m.covers
    BY <2>1 DEF IsCovered
  <2>3. PICK i \in DOMAIN s : m = s[i]
    BY DEF Members
  <2> QED
    BY <2>2, <2>3
<1> QED
  BY <1>1, <1>6, <1>7, <1>8, <1>9, <1>10 DEF NothingRecentIsLost

LEMMA WindowInvBegins == WindowInit => WindowInv
<1> SUFFICES ASSUME WindowInit PROVE WindowInv
  OBVIOUS
<1>1. WindowCounts
  BY WindowAssumption DEF WindowInit, WindowCounts
<1>2. IsSound(<<>>, 0, {}, 1)
  <2>1. <<>> \in Seq(Turns) /\ InOrder(<<>>) /\ Members(<<>>) = {}
    BY DEF InOrder, Members
  <2> QED
    BY <2>1 DEF IsSound, Chats, EndIsWhole, LastIsThere, PromptIsFirst
<1>3. IsCovered(<<>>, 0)
  BY DEF IsCovered
<1> QED
  BY <1>1, <1>2, <1>3 DEF WindowInit, WindowInv

LEMMA ContinueKeepsWindowInv == ASSUME WindowInv, Continue PROVE WindowInv'
<1>1. /\ WindowCounts /\ IsSound(conversation, spoken, instructions, round)
      /\ spoken = 0 => conversation = <<>>
      /\ strategy = "summarize" /\ refusals = 0 => IsCovered(conversation, spoken)
  BY DEF WindowInv
<1>2. /\ spoken \in Nat /\ instructions \in SUBSET (1..spoken) /\ round \in Nat
      /\ spoken + 1 \in 0..MaxMessages
  BY <1>1, WindowAssumption DEF WindowCounts, Continue
<1>3. PICK k, q, I, J, t :
        /\ k = spoken /\ q = round' /\ I = instructions /\ J = instructions' /\ t = conversation'
  OBVIOUS
<1>4. /\ spoken' = k + 1 /\ strategy' = strategy /\ refusals' = refusals
      /\ compressions' = compressions
  BY <1>3 DEF Continue
<1>5. \E x \in Turns :
        /\ x.n = k + 1 /\ t = Append(conversation, x)
        /\ \/ x.kind = "chat" /\ J = I /\ x.round = q /\ x.covers = {}
           \/ x.kind = "system" /\ J = I \cup {k + 1}
  <2>1. CASE /\ conversation' = Append(conversation, Spoken("chat", spoken', round'))
             /\ round' \in {round, round + 1} /\ UNCHANGED instructions
    <3>1. PICK x : x = Spoken("chat", k + 1, q)
      OBVIOUS
    <3>2. q \in Nat
      BY <1>2, <1>3, <2>1
    <3>3. x \in Turns /\ x.kind = "chat" /\ x.n = k + 1 /\ x.round = q /\ x.covers = {}
      BY <1>2, <1>3, <3>1, <3>2 DEF Spoken, Turns
    <3> QED
      BY <1>3, <1>4, <2>1, <3>1, <3>3
  <2>2. CASE /\ conversation' = Append(conversation, Spoken("system", spoken', 0))
             /\ instructions' = instructions \cup {spoken'}
    <3>1. PICK x : x = Spoken("system", k + 1, 0)
      OBVIOUS
    <3>2. x \in Turns /\ x.kind = "system" /\ x.n = k + 1
      BY <1>2, <1>3, <3>1 DEF Spoken, Turns
    <3> QED
      BY <1>3, <1>4, <2>2, <3>1, <3>2
  <2> QED
    BY <2>1, <2>2 DEF Continue
<1>6. PICK x \in Turns :
        /\ x.n = k + 1 /\ t = Append(conversation, x)
        /\ \/ x.kind = "chat" /\ J = I /\ x.round = q /\ x.covers = {}
           \/ x.kind = "system" /\ J = I \cup {k + 1}
  BY <1>5
<1>7. q \in Nat /\ round <= q
  BY <1>2, <1>3 DEF Continue
<1>8. IsSound(t, k + 1, J, q) /\ (IsCovered(conversation, k) => IsCovered(t, k + 1))
  <2>1. /\ k \in Nat /\ I \in SUBSET (1..k) /\ IsSound(conversation, k, I, round)
        /\ k = 0 => conversation = <<>>
    BY <1>1, <1>2, <1>3
  <2> QED
    BY <1>2, <1>6, <1>7, <2>1, ContinuedIsSound
<1>9. J \subseteq 1..k + 1
  <2>1. k \in Nat /\ I \subseteq 1..k
    BY <1>2, <1>3
  <2>2. J \subseteq I \cup {k + 1}
    BY <1>6
  <2> QED
    BY <2>1, <2>2
<1>10. WindowCounts'
  BY <1>1, <1>2, <1>3, <1>4, <1>7, <1>9 DEF WindowCounts
<1>11. k + 1 # 0
  BY <1>2, <1>3
<1> QED
  BY <1>1, <1>3, <1>4, <1>8, <1>10, <1>11 DEF WindowInv

LEMMA CompressKeepsWindowInv == ASSUME WindowInv, Compress PROVE WindowInv'
<1>1. /\ WindowCounts /\ IsSound(conversation, spoken, instructions, round)
      /\ spoken = 0 => conversation = <<>>
      /\ strategy = "summarize" /\ refusals = 0 => IsCovered(conversation, spoken)
  BY DEF WindowInv
<1>2. PICK s, t, k, I : s = conversation /\ t = conversation' /\ k = spoken /\ I = instructions
  OBVIOUS
<1>3. /\ s \in Seq(Turns) /\ InOrder(s) /\ k \in 0..MaxMessages /\ I \subseteq 1..k
      /\ \A m \in Members(s) : Means(m, k, I, round)
  BY <1>1, <1>2 DEF IsSound, WindowCounts
<1>4. Len(s) > 1 /\ s # <<>>
  <2>1. Len(s) \in Nat
    BY <1>3, LengthsAreNatural
  <2>2. Len(s) > 1
    BY <1>2, <2>1 DEF Compress
  <2>3. Len(s) # 0
    BY <2>2
  <2> QED
    BY <1>3, <2>2, <2>3, LengthsAreNatural
<1>5. \A m \in Chats(s) : m.n \in 1..MaxMessages
  <2>1. 1..k \subseteq 1..MaxMessages
    BY <1>3, WindowAssumption
  <2> QED
    BY <1>3, <2>1 DEF Chats, Means
<1>6. /\ Compressed(t, s)
      /\ strategy = "summarize" /\ IsCovered(s, k) => IsCovered(t, k)
  <2>1. CASE strategy = "summarize"
    <3>1. t = Summarize(s)
      BY <1>2, <2>1 DEF Compress
    <3>2. /\ Compressed(t, s)
          /\ \A m \in Members(s) :
               m \in Members(t) \/ (m.kind = "chat" /\ \E x \in Members(t) : m.n \in x.covers)
      BY <1>3, <1>4, <1>5, <3>1, SummaryIsCompressed
    <3> SUFFICES ASSUME IsCovered(s, k), NEW n \in 1..k
                 PROVE  \E m \in Members(t) : n = m.n \/ n \in m.covers
      BY <3>2 DEF IsCovered
    <3>3. PICK m \in Members(s) : n = m.n \/ n \in m.covers
      BY DEF IsCovered
    <3>4. CASE m \in Members(t)
      BY <3>3, <3>4
    <3>5. CASE m \notin Members(t)
      <4>1. m.kind = "chat" /\ \E x \in Members(t) : m.n \in x.covers
        BY <3>2, <3>5
      <4>2. m.covers = {}
        BY <1>3, <4>1 DEF Means
      <4> QED
        BY <3>3, <4>1, <4>2
    <3> QED
      BY <3>4, <3>5
  <2>2. CASE strategy = "sliding_window"
    <3>1. t = SlidingWindow(s)
      BY <1>2, <2>2 DEF Compress
    <3> QED
      BY <1>3, <1>4, <2>2, <3>1, SlideIsCompressed
  <2>3. CASE strategy = "drop_oldest"
    <3>1. t = DropOldest(s)
      BY <1>2, <2>3 DEF Compress
    <3> QED
      BY <1>3, <1>4, <2>3, <3>1, DropIsCompressed
  <2> QED
    BY <1>1, <2>1, <2>2, <2>3 DEF WindowCounts
<1>7. IsSound(t, k, I, round)
  <2>1. k \in Nat /\ IsSound(s, k, I, round)
    BY <1>1, <1>2, <1>3, WindowAssumption
  <2> QED
    BY <1>4, <1>6, <2>1, CompressedIsSound
<1>8. /\ spoken' = spoken /\ instructions' = instructions /\ round' = round
      /\ strategy' = strategy /\ refusals' = refusals
      /\ compressions' \in 0..MaxCompressions
  BY <1>1, WindowAssumption DEF Compress, WindowCounts
<1>9. WindowCounts'
  BY <1>1, <1>8 DEF WindowCounts
<1> QED
  BY <1>1, <1>2, <1>4, <1>6, <1>7, <1>8, <1>9 DEF WindowInv

LEMMA FailureKeepsWindowInv == ASSUME WindowInv, SummarizeFails PROVE WindowInv'
<1>1. /\ WindowCounts /\ IsSound(conversation, spoken, instructions, round)
      /\ spoken = 0 => conversation = <<>>
  BY DEF WindowInv
<1>2. PICK s, t : s = conversation /\ t = conversation'
  OBVIOUS
<1>3. s \in Seq(Turns) /\ InOrder(s) /\ IsSound(s, spoken, instructions, round)
  BY <1>1, <1>2 DEF IsSound
<1>4. Len(s) > 1 /\ s # <<>>
  <2>1. Len(s) \in Nat
    BY <1>3, LengthsAreNatural
  <2>2. Len(s) > 1
    BY <1>2, <2>1 DEF SummarizeFails
  <2>3. Len(s) # 0
    BY <2>2
  <2> QED
    BY <1>3, <2>2, <2>3, LengthsAreNatural
<1>5. Compressed(t, s)
  <2>1. t = DropOldest(s)
    BY <1>2 DEF SummarizeFails
  <2> QED
    BY <1>3, <1>4, <2>1, DropIsCompressed
<1>6. spoken \in Nat
  BY <1>1, WindowAssumption DEF WindowCounts
<1>7. IsSound(t, spoken, instructions, round)
  BY <1>3, <1>4, <1>5, <1>6, CompressedIsSound
<1>8. /\ spoken' = spoken /\ instructions' = instructions /\ round' = round
      /\ strategy' = strategy /\ refusals' \in 0..MaxRefusals /\ refusals' # 0
      /\ compressions' \in 0..MaxCompressions
  BY <1>1, WindowAssumption DEF SummarizeFails, WindowCounts
<1>9. WindowCounts'
  BY <1>1, <1>8 DEF WindowCounts
<1> QED
  BY <1>1, <1>2, <1>4, <1>7, <1>8, <1>9 DEF WindowInv

\* However often a conversation is compressed, and by whichever strategy, the
\* message said last, the prompt and an unbroken end of the talk are in it; with
\* summaries that never fail nothing that was said is lost.
THEOREM WhatIsRecentIsKept == WindowSpec => [](WindowTypeOK /\ NothingRecentIsLost)
<1>1. WindowInit => WindowInv
  BY WindowInvBegins
<1>2. WindowInv /\ [WindowNext]_windowVars => WindowInv'
  <2> SUFFICES ASSUME WindowInv, [WindowNext]_windowVars PROVE WindowInv'
    OBVIOUS
  <2>1. CASE Continue
    BY <2>1, ContinueKeepsWindowInv
  <2>2. CASE Compress
    BY <2>2, CompressKeepsWindowInv
  <2>3. CASE SummarizeFails
    BY <2>3, FailureKeepsWindowInv
  <2>4. CASE UNCHANGED windowVars
    BY <2>4 DEF windowVars, WindowInv, WindowCounts
  <2> QED
    BY <2>1, <2>2, <2>3, <2>4 DEF WindowNext
<1>3. WindowInv => WindowTypeOK /\ NothingRecentIsLost
  BY WindowInvHolds
<1> QED
  BY <1>1, <1>2, <1>3, PTL DEF WindowSpec
==============================================================================
