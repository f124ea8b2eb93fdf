SPECIFICATION Spec
CONSTANTS
  phone = phone
  tablet = tablet
  cisA = cisA
  cisB = cisB
  h1 = h1
  h2 = h2
  Clients = {phone}
  MaxConnections = 1
  SinkAses <- SinkOnly
  SourceAses <- OneSource
  CisIds = {cisA, cisB}
  Handles = {h1, h2}
  NoClient = NoClient
  NoCis = NoCis
  NoHandle = NoHandle
  HandlePool <- OwnHandle
  QosPlans <- Bidirectional
  FaultMaps <- OneFault
  WriteLists <- ShortLists
  ClientOps <- DirectedOps
  CisOnlyForAse = TRUE
  CisDropsFirst = TRUE
INVARIANTS
  AudioHasActiveUser
  UpCisIsAssigned
