SPECIFICATION Spec
CONSTANTS
  d1 = d1
  d2 = d2
  d3 = d3
  NoDevice = NoDevice
  Devices <- MCDevices
  Big <- MCBig
  Products = {FALSE}
  MaxSignals = 0
INVARIANT
  NextMeansInstaller
CHECK_DEADLOCK FALSE
