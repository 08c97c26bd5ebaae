SPECIFICATION MCSpec
CONSTANTS
  Tables = {t1, files}
  FilesTable = files
  MaxGenerations = 1
  MaxFiles = 1
  MaxRows = 1
  RotateAt = 1
  FilesPerOpen = 1
  MaxBatches = 1
  Window = 1
  MayTier = {}
  Calls = {}
  Faults = {}
  Parts = {"hex"}
  Null = Null
INVARIANT
  PaneReadsTheOpenFile
