CONSTANTS
  Tables <- MCTables
  TypeOf <- MCTypeOf
  Indexes <- MCIndexes
  Fields <- MCFields
  KeyRows <- MCKeyRows
  Keys <- MCKeys
  ViewTexts <- MCViewTexts
  Comment <- MCComment
  MaxLost = 2
SPECIFICATION Spec
INVARIANTS TypeOK DefaultsKeepMeaning WarnedOnce LossIsNamed RowsAreJoined PartsAreReadBack DocumentReadsBack
CHECK_DEADLOCK FALSE
