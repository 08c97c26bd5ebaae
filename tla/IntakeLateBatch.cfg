SPECIFICATION Spec
CONSTANTS
  Tables = {t1, files}
  FilesTable = files
  MaxGenerations = 1
  MaxFiles = 2
  MaxRows = 3
  RotateAt = 2
  FilesPerOpen = 2
  MaxBatches = 3
  Window = 3
  MayTier = {"memory", "spill"}
  Calls = {}
  Faults = {}
INVARIANT SkippedFilesLeaveNoRows
