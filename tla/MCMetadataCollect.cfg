CONSTANTS
  NumTables = 3
  Concurrency = 2
SPECIFICATION Spec
INVARIANTS
  TypeOK
  BoundedInFlight
  GapsAreWarned
PROPERTY SerialLoop
