CONSTANTS
  Relations <- MCRelations
  RelKind <- MCRelKind
  ParentOf <- MCParentOf
  Schemas <- MCSchemas
  Homes <- MCHomes
  Reads <- MCReads
  Base <- MCBase
  Candidates <- MCCandidates
  MaxItems = 1
SPECIFICATION Spec
INVARIANT ForeignKeysRestored
CHECK_DEADLOCK FALSE
