SPECIFICATION Spec
CONSTANTS
  Tables = {t1, files}
  FilesTable = files
  MaxGenerations = 2
  MaxFiles = 2
  MaxRows = 3
  RotateAt = 2
  FilesPerOpen = 1
  MaxBatches = 2
  Window = 2
  MayTier = {"memory", "spill"}
  Calls = {}
  Faults = {}
PROPERTY SupersededNeverPublishes
