SPECIFICATION FairSpec
CONSTANTS
  d1 = d1
  d2 = d2
  d3 = d3
  NoDevice = NoDevice
  Devices <- MCDevices
  Big <- MCBig
  Products = {FALSE, TRUE}
  MaxSignals = 2
INVARIANTS
  TypeOK
  SingleWriter
  ImageBeforeWrite
  DeviceOfThisRound
PROPERTIES
  NoWriteAfterError
  ErrorShown
  Settles
CHECK_DEADLOCK FALSE
