SPECIFICATION Spec
CONSTANTS
    MaxQueries = 2
    MaxSorts = 0
    MaxExports = 0
    MaxDemands = 0
    MaxRequests = 0
    MaxRows = 2
    Viewer = FALSE
    Calls = {}
PROPERTY
    SupersededRunsAreSilent
CHECK_DEADLOCK FALSE
