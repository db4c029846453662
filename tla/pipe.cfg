SPECIFICATION Spec
CONSTANTS
  MaxSize = 4
  Chunk = 2
  Strings <- MCStrings
  Outputs <- MCOutputs
INVARIANTS TypeOK KeepsOutput TidyNeverPanics
PROPERTIES ReadsTheRest ReadGetsShorter
CHECK_DEADLOCK FALSE
