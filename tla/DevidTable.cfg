SPECIFICATION Spec
CONSTANTS
  a = a
  b = b
  c = c
  d = d
  e = e
  f = f
  Strings <- MCStrings
  Hashes <- MCHashes
  Nels = {4, 8}
  None = None
  MaxFailures = 1
INVARIANTS
  FoundAgain
  NoSlotMissed
SYMMETRY Symmetry
