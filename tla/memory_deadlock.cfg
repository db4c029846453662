SPECIFICATION FairSpec
CONSTANTS
  Clients = {c1, c2}
  Refs = {r1, r2}
  Workers = 2
  MaxImports = 1
  Requests = {"call_function", "memory"}
  Callbacks = {"return"}
  Faults = {}
  None = None
CHECK_DEADLOCK FALSE
PROPERTY WrapperContinues
