SPECIFICATION Spec
CONSTANTS
  Blocks = {1, 2}
  MaxVolume = 2
  StepSize = 2
  DefaultVolume = 1
  CounterSize = 3
  PlatformStep = 1
  MaxOffset = 1
  OffsetSize = 4
  NoView = NoView
  Clients = {1}
  MaxGain = 1
  GainUnits = 2
  InitialGain = 1
  DriverGain = 0
  CounterValues = 3
  GainStep = 1
  Untold = Untold
  Listeners = {1, 2}
  Presets = 3
  IndexSize = 6
  Unknown = Unknown
  OctetsMin = 26
  OctetsMax = 100
  Requests <- MCRequests
  Allocations = {{}, {1}, {1, 2}}
  Metadatas <- MCMetadatas
  SubgroupsMax = 2
  BisesMax = 2
  BaseMax = 252
  SourceBases <- MCBases
  SinkLocations = {1, 2, 3}
  Conns = {3, 4, 5}
  NoConn = NoConn
  MaxConnections = 2
  MaxLinks = 2
  MaxEvents = 3
  ScanWrites <- MCScanWrites
  MaxSubgroups = 2
  Leftovers <- MCLeftovers
  Behind <- MCBehind
  MaxCommands = 3
  Peers = {watch, radio}
  Slots = {1, 2}
  LinkIds = {1, 2}
  NoLinkId = 0
  Attributes <- MCAttributes
  CccdMap <- MCCccdMap
  Unasked = {5}
  WrittenBits = {{}, {0}, {1}, {0, 1, 2}}
  WordBits = 4
  DefaultMtu = 6
  MaxPdu = 10
  Mtus = {12}
  MaxWrites = 2
  Devices = {phone, tablet}
  Keys = {k1, k2}
  Entries = 2
  ConnectionLimit = 2
  NoDevice = NoDevice
  NoKey = NoKey
  NoData = NoData
INVARIANT SubgroupsAsWritten
