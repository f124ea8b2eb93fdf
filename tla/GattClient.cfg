SPECIFICATION GattFairSpec
CONSTANTS
  Conns = {1}
  MediaChars <- MCMediaChars
  CallChars <- MCCallChars
  EnableList <- MCEnableList
  ReadList <- MCReadList
  ShownChars <- MCShownChars
  NameChars = {"player_name"}
  NameLength = 2
  Values = {1, 2}
  Databases <- MCDatabases
  OpsSize = 4
  MaxHindered = 1
  MaxSent = 0
  NoValue = 0
INVARIANTS TypeOK ReadyShowsPeer
PROPERTIES StartedBecomesReady
