------------------------------ MODULE Platform ------------------------------
(***************************************************************************)
(* The services around the discussions and the weighted evaluation, side   *)
(* by side: the event stream, the message store, the roles of sessions,    *)
(* the minutes, the model gateway and its cache, the conversation window   *)
(* and the audit log.  They share no state; a behaviour is one of one of   *)
(* them, which part names.                                                 *)
(***************************************************************************)
EXTENDS AuditLog, ContextWindow, Evaluation, EventStream, MessageLog, MinutesView,
        ModelCache, ModelGateway, SessionRoles

Parts ==
  {"audit", "cache", "evaluation", "gateway", "messages", "minutes", "roles", "stream", "window"}

VARIABLE part

platformVars ==
  <<part, auditVars, cacheVars, evaluationVars, gatewayVars, messageVars, minutesVars,
    rolesVars, streamVars, windowVars>>

PlatformInit ==
  /\ part \in Parts
  /\ AuditInit /\ (part # "audit" => columns)
  /\ CacheInit /\ MessageInit /\ MinutesInit /\ RolesInit /\ StreamInit
  /\ GatewayInit /\ (part # "gateway" => configs = {} /\ factories = {})
  /\ EvaluationInit
  /\ (part # "evaluation" => options = {} /\ criteria = {} /\ ~critic)
  /\ WindowInit /\ (part # "window" => strategy = "drop_oldest")

AuditRuns ==
  /\ part = "audit" /\ AuditNext
  /\ UNCHANGED <<part, cacheVars, evaluationVars, gatewayVars, messageVars,
                 minutesVars, rolesVars, streamVars, windowVars>>

CacheRuns ==
  /\ part = "cache" /\ CacheNext
  /\ UNCHANGED <<part, auditVars, evaluationVars, gatewayVars, messageVars,
                 minutesVars, rolesVars, streamVars, windowVars>>

EvaluationRuns(Step) ==
  /\ part = "evaluation" /\ Step
  /\ UNCHANGED <<part, auditVars, cacheVars, gatewayVars, messageVars, minutesVars,
                 rolesVars, streamVars, windowVars>>

GatewayRuns ==
  /\ part = "gateway" /\ GatewayNext
  /\ UNCHANGED <<part, auditVars, cacheVars, evaluationVars, messageVars,
                 minutesVars, rolesVars, streamVars, windowVars>>

MessagesRun ==
  /\ part = "messages" /\ MessageNext
  /\ UNCHANGED <<part, auditVars, cacheVars, evaluationVars, gatewayVars,
                 minutesVars, rolesVars, streamVars, windowVars>>

MinutesRun ==
  /\ part = "minutes" /\ MinutesNext
  /\ UNCHANGED <<part, auditVars, cacheVars, evaluationVars, gatewayVars,
                 messageVars, rolesVars, streamVars, windowVars>>

RolesRun ==
  /\ part = "roles" /\ RolesNext
  /\ UNCHANGED <<part, auditVars, cacheVars, evaluationVars, gatewayVars,
                 messageVars, minutesVars, streamVars, windowVars>>

StreamRuns ==
  /\ part = "stream" /\ StreamNext
  /\ UNCHANGED <<part, auditVars, cacheVars, evaluationVars, gatewayVars,
                 messageVars, minutesVars, rolesVars, windowVars>>

WindowRuns ==
  /\ part = "window" /\ WindowNext
  /\ UNCHANGED <<part, auditVars, cacheVars, evaluationVars, gatewayVars,
                 messageVars, minutesVars, rolesVars, streamVars>>

PlatformNext ==
  \/ AuditRuns \/ CacheRuns \/ EvaluationRuns(EvaluationNext) \/ GatewayRuns
  \/ MessagesRun \/ MinutesRun \/ RolesRun \/ StreamRuns \/ WindowRuns

\* While another part runs the stream is as it was at the start, and owes nothing.  Of
\* an evaluation, the goroutines run and every model call returns; nobody has to resume.
PlatformSpec ==
  /\ PlatformInit /\ [][PlatformNext]_platformVars
  /\ StreamFairness
  /\ WF_platformVars(EvaluationRuns(Orchestrate))

-----------------------------------------------------------------------------
\* Every variable of every part has its type.
PlatformTypeOK ==
  /\ AuditTypeOK /\ CacheTypeOK /\ EvaluationTypeOK /\ GatewayTypeOK /\ MessageTypeOK
  /\ MinutesTypeOK /\ RolesTypeOK /\ StreamTypeOK /\ WindowTypeOK
=============================================================================
