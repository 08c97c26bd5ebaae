SPECIFICATION MCSpec
CONSTANTS
  MaxQueries = 3
  MaxSorts = 2
  MaxExports = 2
  MaxDemands = 2
  MaxRequests = 2
  MaxRows = 2
  Viewer = TRUE
  Calls = {"open", "cancel", "dispose"}
  Readers = {"r1", "r2"}
  MemoryLimit = 2
  TotalRows = 3
  MaxTarget = 2
  MaxPageDemands = 3
  Null = Null
INVARIANTS
  CacheAccounted
  RowsConserved
  CloseReleases
  WindowMatchesOrder
  OffersAreBacked
  OneFetcher
  NothingLeaks
  DownloadsAreWhole
  ConversionsAreExact
PROPERTIES
  ResultIsPaged
  UnderWayEnds
  LateAnswersChangeNothing
