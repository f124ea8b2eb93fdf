SPECIFICATION BondSpec
CONSTANTS
  phone = phone
  tablet = tablet
  laptop = laptop
  k1 = k1
  k2 = k2
  Devices <- MCDevices
  Keys = {k1, k2}
  Entries = 2
  ConnectionLimit = 2
  NoDevice = NoDevice
  NoKey = NoKey
  NoData = NoData
SYMMETRY Symmetry
INVARIANT OwnData
