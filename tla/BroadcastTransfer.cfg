SPECIFICATION Spec
CONSTANTS
  radio = radio
  tv = tv
  h1 = h1
  h2 = h2
  sid1 = sid1
  sid2 = sid2
  Sources = {radio}
  Sids = {sid1, sid2}
  Sid <- OwnSids
  Encrypted = {radio}
  Handles = {h1, h2}
  NoSource = NoSource
  NoSync = NoSync
  ZeroSync = ZeroSync
  AddedSources = {radio}
  HostSources = {}
  Ways = {"no_sync", "past", "no_past"}
  AskedBits = {"none", "left", "any"}
  MaxQueue = 1
SYMMETRY Symmetry
INVARIANTS
  ToldReceiveState
PROPERTIES
  ReportedWhenSynced
