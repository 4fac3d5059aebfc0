SPECIFICATION Spec
CONSTANTS
  flashVendor = flashVendor
  diskVendor = diskVendor
  N = 2
  Numbers = {0, 1}
  Fleets <- MCFleets
  Vids <- MCVids
  VidScore <- MCVidScore
  MIN_SIZE = 1
  SMALL = 3
  LARGE = 5
  None = None
  MaxMoves = 3
INVARIANTS
  NoBuiltInDisk
  NoHardDisk
  AsksAboutItself
  HandleClosed
CHECK_DEADLOCK FALSE
