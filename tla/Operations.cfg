SPECIFICATION OperationsSpec
CONSTANTS
  Infras = {i1, i2, i3, i4, i5}
  OldInfras = {i1, i2}
  Experiments = {e1}
  MaxTries = 2
  MaxLitmusFaults = 2
  Endpoints = {"a", "b"}
  Auth <- MCAuth
  Rounds = 2
  MaxEdgeFaults = 2
  Pods = {p1, p2}
  MaxAgentFaults = 2
  Hosts = {ha, hb, hc, hf}
  Declared = {ha, hb}
  Foreign = {hf}
  PageSize = 4
  MaxDnsFaults = 2
  Containers = {m, d, o}
  DeclaredNodes = {m}
  Doubles = {d}
  MaxNodeFaults = 2
  MaxTofuFaults = 2
  Replicas = {rs1, rs2}
  Kinds <- MCKinds
  MaxResidueFaults = 2
  Arrs <- MCArrs
  Late = {"whisparr"}
  Managed <- MCManaged
  Libraries = {"movies"}
  MaxMediaFaults = 1
  Films = {"f1", "f2"}
  Releases = {"r1", "r2"}
  FilmOf <- MCFilmOf
  MaxArrFaults = 1
INVARIANT OperationsTypeOK
INVARIANT CatalogIsBound
INVARIANT DoublesStayDown
INVARIANT SettledMeansWired
INVARIANT NoDoubleIntegration
PROPERTY OneManagedInfra
PROPERTY LegacyGoesLast
PROPERTY LitmusConverges
PROPERTY GenuineBansStay
PROPERTY VerificationEnds
PROPERTY FalsePositivesHeal
PROPERTY AgentsRejoin
PROPERTY PublishedStaysUp
PROPERTY PublicationConverges
PROPERTY OnlyDoublesAreStopped
PROPERTY QuarantineConverges
PROPERTY ImageSurvives
PROPERTY ResidueGoes
PROPERTY MediaSettles
PROPERTY FinishedDownloadsStay
PROPERTY RerunsTryEveryFilm
