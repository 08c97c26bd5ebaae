SPECIFICATION Spec
CONSTANTS
  Tables = {t1, files}
  FilesTable = files
  MaxGenerations = 1
  MaxFiles = 1
  MaxRows = 3
  RotateAt = 1
  FilesPerOpen = 1
  MaxBatches = 3
  Window = 3
  MayTier = {"memory", "spill"}
  Calls = {}
  Faults = {}
INVARIANT QuotaFailureIsShown
