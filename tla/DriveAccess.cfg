SPECIFICATION Spec
CONSTANTS
  Programs = {p1, p2}
  DRIVE_ACCESS_RETRIES = 4
  MaxInstalls = 2
INVARIANTS
  WritesAlone
  NeverInOwnWay
PROPERTIES
  InstallReturns
