CONSTANTS
  NumSchemas = 2
  Namings <- MCNamings
  MaxRev = 0
  MaxRuns = 1
SPECIFICATION Spec
PROPERTY StrictSuccessIsComplete
