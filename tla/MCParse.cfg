SPECIFICATION MCSpec
CONSTANTS
  MaxTasks = 2
  MaxBatches = 3
  Window = 2
  MaxWorkers = 1
  Faults = {"crash", "post", "handler", "headRead", "factory"}
  Null = Null
INVARIANTS
  TypeOK
  CreditConserved
  OneRunPerWorker
  BatchesInOrder
  ResolvedIsComplete
  WorkerFailureDrained
  WaitsOnlyOnAnAnswer
  RecordsAreExact
  StreamsAreExact
PROPERTY
  EveryParseSettles
