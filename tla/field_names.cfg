SPECIFICATION Spec
CONSTANTS
  Types <- MCTypes
  Depth <- MCDepth
  MaxDepth = 3
  Signatures <- MCSignatures
  Arguments <- MCArguments
  ConvertFieldNames = TRUE
  Kebab <- MCKebab
  CodePoints <- MCCodePoints
  Scalars <- MCScalars
  CoreRange <- MCCoreRange
INVARIANTS EchoComesBack
CHECK_DEADLOCK FALSE
