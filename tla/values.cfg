SPECIFICATION Spec
CONSTANTS
  Types <- MCTypes
  Depth <- MCDepth
  MaxDepth = 3
  Signatures <- MCSignatures
  Arguments <- MCArguments
  ConvertFieldNames = FALSE
  Kebab <- MCKebab
  CodePoints <- MCCodePoints
  Scalars <- MCScalars
  CoreRange <- MCCoreRange
INVARIANTS TypeOK EchoComesBack  TrapsOnlyOnShape
CHECK_DEADLOCK FALSE
