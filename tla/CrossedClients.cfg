SPECIFICATION Spec
CONSTANTS
  phone = phone
  tablet = tablet
  cisA = cisA
  cisB = cisB
  h1 = h1
  h2 = h2
  Clients = {phone, tablet}
  MaxConnections = 2
  SinkAses <- SinkOnly
  SourceAses <- NoSource
  CisIds = {cisA, cisB}
  Handles = {h1, h2}
  NoClient = NoClient
  NoCis = NoCis
  NoHandle = NoHandle
  HandlePool <- HandlePerClient
  QosPlans <- Bidirectional
  FaultMaps <- NoFault
  WriteLists <- SingleLists
  ClientOps <- DirectedOps
  CisOnlyForAse = TRUE
  CisDropsFirst = FALSE
PROPERTY CisEventStaysWithItsClient
