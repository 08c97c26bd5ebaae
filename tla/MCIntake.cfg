SPECIFICATION MCSpec
CONSTANTS
  Tables = {t1, files}
  FilesTable = files
  MaxGenerations = 2
  MaxFiles = 3
  MaxRows = 5
  RotateAt = 2
  FilesPerOpen = 2
  MaxBatches = 5
  Window = 4
  MayTier = {"memory", "spill"}
  Calls = {"cancel", "dispose"}
  Faults = {"probe", "begin", "worker"}
  Parts = {"intake", "chain", "hex", "panels", "library"}
  Null = Null
INVARIANTS
  ReadyShowsCatalog
  IngestIsOwned
  EveryWaitIsAnswered
  ChunksKeepFilesApart
  CountsFitTables
  ScreenHolds
  TabsAgree
PROPERTIES
  RowsAreRevealed
