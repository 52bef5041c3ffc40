CONSTANTS
  Jobs <- MCJobs
  SchemaOf <- MCSchemaOf
  KindOf <- MCKindOf
  HeadOf <- MCHeadOf
  SkipDefiner = TRUE
  Concurrency = 2
  MaxConnections = 2
  MaxBreaks = 1
  None = None
SPECIFICATION SessionSpec
INVARIANTS SessionTypeOK ReadsAreUnqualified AcquireNeverWaits LossIsWarned DefinerIsCut
PROPERTY EveryJobEnds
CHECK_DEADLOCK FALSE
