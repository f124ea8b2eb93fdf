SPECIFICATION FairSpec
CONSTANTS
  phone = phone
  tablet = tablet
  cisA = cisA
  cisB = cisB
  h1 = h1
  h2 = h2
  Clients = {phone}
  MaxConnections = 1
  SinkAses <- SinkOnly
  SourceAses <- OneSource
  CisIds = {cisA, cisB}
  Handles = {h1, h2}
  NoClient = NoClient
  NoCis = NoCis
  NoHandle = NoHandle
  HandlePool <- OwnHandle
  QosPlans <- Unidirectional
  FaultMaps <- OneFault
  WriteLists <- ShortLists
  ClientOps <- DirectedOps
  CisOnlyForAse = TRUE
  CisDropsFirst = FALSE
INVARIANTS
  TypeOK
  StreamingSinkOnItsCis
  CoupledAseHasQos
  ToldCurrentState
  ReleasingWaitsForItsCis
PROPERTIES
  FollowsLifecycle
  ReleaseCompletes
