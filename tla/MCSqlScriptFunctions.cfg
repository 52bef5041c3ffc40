CONSTANTS
  NumFirst = 1
  NumTypes = 1
  NumFunctions = 3
  NumTables = 1
  NumViews = 2
  MaxNeeds = 3
  MaxRefused = 1
SPECIFICATION Spec
PROPERTY FunctionsExecute
