SPECIFICATION Spec
CONSTANTS
  Tables = {t1, files}
  FilesTable = files
  MaxGenerations = 2
  MaxFiles = 2
  MaxRows = 3
  RotateAt = 2
INVARIANT OpenIngestReclaimed
