-------------------------- MODULE OperationsProofs --------------------------
(***************************************************************************)
(* The composition of the day-two commands implements each of them, so     *)
(* that what is proved of a command on its own holds when the commands are *)
(* put together, whatever the constants are.                               *)
(***************************************************************************)
EXTENDS MCOperations, LitmusChaosProofs, EdgeProofs, HostProofs, MediaProofs,
        FlowProofs

-----------------------------------------------------------------------------
(* Every step is a step, or a stuttering step, of each component *)

LEMMA InitOfEach ==
  OperationsInit =>
    /\ LitmusInit
    /\ EdgeInit
    /\ AgentsInit
    /\ PublicationInit
    /\ NodesInit
    /\ TofuInit
    /\ ResidueInit
    /\ MediaInit
    /\ ArrInit
  BY DEF OperationsInit

LEMMA StepOfEach ==
  [OperationsNext]_operations =>
    /\ [LitmusNext]_litmusVars
    /\ [EdgeNext]_edgeVars
    /\ [AgentsNext]_agentVars
    /\ [PublicationNext]_dnsVars
    /\ [NodesNext]_nodeVars
    /\ [TofuNext]_tofuVars
    /\ [ResidueNext]_residueVars
    /\ [MediaNext]_mediaVars
    /\ [ArrNext]_arrVars
  BY DEF OperationsNext, operations

\* Seen through the variables of one component, a run of the commands together
\* is a run of that component: the others neither disturb it nor enlarge what it
\* may start from.
THEOREM OperationsImplementEach ==
  OperationsSpec =>
    /\ LitmusSpec
    /\ EdgeSpec
    /\ AgentsSpec
    /\ PublicationSpec
    /\ NodesSpec
    /\ TofuSpec
    /\ ResidueSpec
    /\ MediaSpec
    /\ ArrSpec
  BY InitOfEach, StepOfEach, PTL
  DEF OperationsSpec, LitmusSpec, EdgeSpec, AgentsSpec, PublicationSpec, NodesSpec, TofuSpec, ResidueSpec, MediaSpec, ArrSpec

\* Every variable of every command has its type in every run of the commands
\* together.
THEOREM OperationsTypeCorrect == OperationsSpec => []OperationsTypeOK
  BY OperationsImplementEach, LitmusTypeCorrect, EdgeTypeCorrect, AgentsTypeCorrect,
     PublicationTypeCorrect, NodesTypeCorrect, TofuTypeCorrect, ResidueTypeCorrect,
     MediaTypeCorrect, ArrTypeCorrect, PTL
  DEF OperationsTypeOK

\* Every safety property of the day-two commands holds when they are put
\* together, as each of them guarantees it on its own.
THEOREM OperationsStaySafe ==
  OperationsSpec =>
    /\ [](CatalogIsBound /\ DoublesStayDown /\ SettledMeansWired /\ NoDoubleIntegration)
    /\ OneManagedInfra /\ LegacyGoesLast /\ GenuineBansStay /\ PublishedStaysUp
    /\ OnlyDoublesAreStopped /\ ImageSurvives /\ FinishedDownloadsStay
  BY OperationsImplementEach, CatalogStaysBound, QuarantineHolds, SettledIsWired,
     IntegrationsAreSingle, OneInfraIsManaged, LegacyIsHiddenLast, GenuineBansAreKept,
     PublishedHostsStayUp, QuarantineStopsDoubles, TemplateSurvives,
     FinishedDownloadsAreKept, PTL
=============================================================================
