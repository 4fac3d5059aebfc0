SPECIFICATION Spec
CONSTANTS
  d1 = d1
  d2 = d2
  NoDisk = NoDisk
  Disks <- MCDisks
  Capacity <- MCCapacity
  DiskSector <- MCDiskSector
  FileLens = {0, 3, 8, 9, 13}
  MIN_SECTOR = 2
  DD_BUFFER_SIZE = 4
  WRITE_RETRIES = 3
  DWORD = 16
INVARIANT
  InstallReturnsTrueOnSuccess
CHECK_DEADLOCK FALSE
