--------------------------- MODULE Platform_proofs ---------------------------
(***************************************************************************)
(* Each part of Platform is as its own specification says, so that what is *)
(* proved of a part holds of the platform.                                 *)
(***************************************************************************)
EXTENDS Platform, Records_proofs, Models_proofs, EventStream_proofs

LEMMA PartsBegin ==
  PlatformInit =>
    /\ AuditInit /\ CacheInit /\ EvaluationInit /\ GatewayInit /\ MessageInit
    /\ MinutesInit /\ RolesInit /\ StreamInit /\ WindowInit
  BY DEF PlatformInit

\* A step of the platform is one of each part, or leaves that part alone.
LEMMA PartsGoOn ==
  [PlatformNext]_platformVars =>
    /\ [AuditNext]_auditVars
    /\ [CacheNext]_cacheVars
    /\ [EvaluationNext]_evaluationVars
    /\ [GatewayNext]_gatewayVars
    /\ [MessageNext]_messageVars
    /\ [MinutesNext]_minutesVars
    /\ [RolesNext]_rolesVars
    /\ [StreamNext]_streamVars
    /\ [WindowNext]_windowVars
<1> SUFFICES ASSUME [PlatformNext]_platformVars
             PROVE  /\ [AuditNext]_auditVars
                    /\ [CacheNext]_cacheVars
                    /\ [EvaluationNext]_evaluationVars
                    /\ [GatewayNext]_gatewayVars
                    /\ [MessageNext]_messageVars
                    /\ [MinutesNext]_minutesVars
                    /\ [RolesNext]_rolesVars
                    /\ [StreamNext]_streamVars
                    /\ [WindowNext]_windowVars
  OBVIOUS
<1>1. CASE AuditRuns
  BY <1>1 DEF AuditRuns
<1>2. CASE CacheRuns
  BY <1>2 DEF CacheRuns
<1>3. CASE EvaluationRuns(EvaluationNext)
  BY <1>3 DEF EvaluationRuns
<1>4. CASE GatewayRuns
  BY <1>4 DEF GatewayRuns
<1>5. CASE MessagesRun
  BY <1>5 DEF MessagesRun
<1>6. CASE MinutesRun
  BY <1>6 DEF MinutesRun
<1>7. CASE RolesRun
  BY <1>7 DEF RolesRun
<1>8. CASE StreamRuns
  BY <1>8 DEF StreamRuns
<1>9. CASE WindowRuns
  BY <1>9 DEF WindowRuns
<1>10. CASE UNCHANGED platformVars
  BY <1>10 DEF platformVars
<1> QED
  BY <1>1, <1>2, <1>3, <1>4, <1>5, <1>6, <1>7, <1>8, <1>9, <1>10 DEF PlatformNext

\* The platform implements every part's specification (the stores, caches, hubs and runs
\* that main.go creates side by side).
THEOREM PartsKeepTheirSpecs ==
  PlatformSpec =>
    /\ AuditSpec /\ CacheSpec /\ EvaluationSpec /\ GatewaySpec /\ MessageSpec
    /\ MinutesSpec /\ RolesSpec /\ StreamSpec /\ WindowSpec
<1> QED
  BY PartsBegin, PartsGoOn, PTL
     DEF PlatformSpec, AuditSpec, CacheSpec, EvaluationSpec, GatewaySpec, MessageSpec,
         MinutesSpec, RolesSpec, StreamSpec, WindowSpec

\* Hence everything in the platform keeps its type, for every value of its constants.
THEOREM PlatformIsTyped == PlatformSpec => []PlatformTypeOK
<1>1. AuditTypeOK /\ CacheTypeOK /\ EvaluationTypeOK /\ GatewayTypeOK /\ MessageTypeOK
        /\ MinutesTypeOK /\ RolesTypeOK /\ StreamTypeOK /\ WindowTypeOK
      => PlatformTypeOK
  BY DEF PlatformTypeOK
<1> QED
  BY <1>1, PartsKeepTheirSpecs, EntriesStayAccounted, CacheIsConsistent, PhasesDoNotOverlap,
     ModelsAreMadeOnce, MessagesAreStoredOnce, MinutesMissNothing, RolesAreThoseAsked,
     StreamsAreInOrder, WhatIsRecentIsKept, PTL
=============================================================================
