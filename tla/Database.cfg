SPECIFICATION Spec
CONSTANTS
    MaxCalls = 4
    Repeated = {"query", "sort"}
INVARIANTS
    OneOwner
    DisposedIsQuiet
PROPERTIES
    OnlyTheLatestOpens
    EveryCallSettles
CHECK_DEADLOCK FALSE
