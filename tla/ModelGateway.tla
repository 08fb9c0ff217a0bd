---------------------------- MODULE ModelGateway ----------------------------
(***************************************************************************)
(* The model gateway (internal/model_gateway/gateway.go) and its provider  *)
(* store (store.go): the models of the configured providers, each made on  *)
(* its first use, and the list of providers a user edits.                  *)
(*                                                                         *)
(* GetChatModel looks under the read lock and, when it finds nothing,      *)
(* again under the lock, which it holds while the factory works.  The      *)
(* models are made from the server's configuration: what is edited in the  *)
(* store never reaches them.                                               *)
(***************************************************************************)
EXTENDS Naturals, FiniteSets

CONSTANTS
  Bindings,       \* names of providers
  Requesters,     \* goroutines that ask for a model
  ProviderIDs,    \* ids the store gives out (bound)
  NoProvider,     \* no entry
  MaxInstances    \* models made (bound)

ASSUME GatewayAssumption ==
  /\ Bindings # {}
  /\ MaxInstances \in Nat

VARIABLES
  configs,        \* the providers enabled in the configuration
  factories,      \* those with a registered factory
  instances,      \* the model of each binding, 0 without
  built,          \* models made so far
  requester,      \* each call of GetChatModel, or its answer
  providers       \* the store: the entry of each id

gatewayVars == <<configs, factories, instances, built, requester, providers>>

NoRequest == [step |-> "idle", binding |-> CHOOSE b \in Bindings : TRUE, model |-> 0]

Provider(name) == [name |-> name, enabled |-> TRUE]

\* NewGateway puts the configured providers into the store as well.
GatewayInit ==
  /\ configs \in SUBSET Bindings
  /\ factories \in SUBSET Bindings
  /\ instances = [b \in Bindings |-> 0]
  /\ built = 0
  /\ requester = [t \in Requesters |-> NoRequest]
  /\ \E ids \in [configs -> ProviderIDs] :
       /\ \A a, b \in configs : a # b => ids[a] # ids[b]
       /\ providers = [p \in ProviderIDs |->
            IF \E b \in configs : ids[b] = p THEN Provider(CHOOSE b \in configs : ids[b] = p)
            ELSE NoProvider]

-----------------------------------------------------------------------------
Answered(t, b, model) ==
  requester' = [requester EXCEPT ![t] = [step |-> "idle", binding |-> b, model |-> model]]

\* The look under the read lock.
GetChatModel(t, b) ==
  /\ requester[t].step = "idle"
  /\ IF instances[b] # 0 THEN Answered(t, b, instances[b])
     ELSE requester' = [requester EXCEPT ![t] = [step |-> "missed", binding |-> b, model |-> 0]]
  /\ UNCHANGED <<configs, factories, instances, built, providers>>

\* Mutant of MadeMeanwhile: nobody looks again.
MadeMeanwhileUnseen(t) == FALSE

MadeMeanwhile(t) == instances[requester[t].binding] # 0

\* The second look, under the lock, finds what another call has made.
SecondLook(t) ==
  /\ requester[t].step = "missed"
  /\ MadeMeanwhile(t)
  /\ Answered(t, requester[t].binding, instances[requester[t].binding])
  /\ UNCHANGED <<configs, factories, instances, built, providers>>

Build(t) ==
  LET b == requester[t].binding IN
  /\ requester[t].step = "missed"
  /\ ~MadeMeanwhile(t)
  /\ b \in configs \cap factories
  /\ built < MaxInstances
  /\ built' = built + 1
  /\ instances' = [instances EXCEPT ![b] = built + 1]
  /\ Answered(t, b, built + 1)
  /\ UNCHANGED <<configs, factories, providers>>

\* Not configured, not registered, or the factory fails: nothing is kept, the next
\* call tries again.
NotBuilt(t) ==
  /\ requester[t].step = "missed"
  /\ ~MadeMeanwhile(t)
  /\ Answered(t, requester[t].binding, 0)
  /\ UNCHANGED <<configs, factories, instances, built, providers>>

-----------------------------------------------------------------------------
NameIsTaken(name, by) == \E p \in by : providers[p] # NoProvider /\ providers[p].name = name

CreateProvider(p, name) ==
  /\ providers[p] = NoProvider
  /\ ~NameIsTaken(name, ProviderIDs)
  /\ providers' = [providers EXCEPT ![p] = Provider(name)]
  /\ UNCHANGED <<configs, factories, instances, built, requester>>

\* An entry may keep its name.
UpdateProvider(p, name) ==
  /\ providers[p] # NoProvider
  /\ ~NameIsTaken(name, ProviderIDs \ {p})
  /\ providers' = [providers EXCEPT ![p].name = name]
  /\ UNCHANGED <<configs, factories, instances, built, requester>>

DeleteProvider(p) ==
  /\ providers[p] # NoProvider
  /\ providers' = [providers EXCEPT ![p] = NoProvider]
  /\ UNCHANGED <<configs, factories, instances, built, requester>>

ToggleEnabled(p) ==
  /\ providers[p] # NoProvider
  /\ providers' = [providers EXCEPT ![p].enabled = ~@]
  /\ UNCHANGED <<configs, factories, instances, built, requester>>

GatewayNext ==
  \/ \E t \in Requesters :
       \/ \E b \in Bindings : GetChatModel(t, b)
       \/ SecondLook(t) \/ Build(t) \/ NotBuilt(t)
  \/ \E p \in ProviderIDs :
       \/ \E name \in Bindings : CreateProvider(p, name) \/ UpdateProvider(p, name)
       \/ DeleteProvider(p) \/ ToggleEnabled(p)

GatewaySpec == GatewayInit /\ [][GatewayNext]_gatewayVars

-----------------------------------------------------------------------------
(* Properties.                                                             *)

GatewayTypeOK ==
  /\ configs \subseteq Bindings /\ factories \subseteq Bindings
  /\ instances \in [Bindings -> 0..MaxInstances] /\ built \in 0..MaxInstances
  /\ requester \in [Requesters -> [step : {"idle", "missed"}, binding : Bindings,
                                   model : 0..MaxInstances]]
  /\ providers \in [ProviderIDs -> {NoProvider} \cup [name : Bindings, enabled : BOOLEAN]]

\* However many ask at once, one model is made for a binding and everyone who
\* gets an answer gets that one; and no edit gives two providers one name.
NothingIsMadeTwice ==
  /\ built = Cardinality({b \in Bindings : instances[b] # 0})
  /\ \A t \in Requesters :
       requester[t].model # 0 => requester[t].model = instances[requester[t].binding]
  /\ \A p, q \in ProviderIDs :
       p # q /\ providers[p] # NoProvider /\ providers[q] # NoProvider
         => providers[p].name # providers[q].name
=============================================================================
