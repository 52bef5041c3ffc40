CONSTANTS
  Relations <- MCRelations
  RelKind <- MCRelKind
  ParentOf <- MCParentOf
  Schemas <- MCSchemas
  Homes <- MCHomes
  Reads <- MCReads
  Base <- MCBase
  Candidates <- MCCandidates
  MaxItems = 2
SPECIFICATION Spec
INVARIANTS TypeOK SupportedExecutes RestoresEverything OnlyCrossIsMissing
CHECK_DEADLOCK FALSE
