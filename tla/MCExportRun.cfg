CONSTANTS
  NumSchemas = 2
  Namings <- MCNamings
  MaxRev = 1
  MaxRuns = 2
SPECIFICATION Spec
INVARIANTS
  TypeOK
  WrittenSoFar
  OneOwnerPerFile
PROPERTIES
  CompletionIsFresh
  OnlySilentLossPasses
  RerunKeepsOthersApart
