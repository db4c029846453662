SPECIFICATION Spec
CONSTANTS
  Clients = {c1}
  Refs = {r1, r2, r3}
  Workers = 2
  MaxImports = 1
  Requests = {"call_function"}
  Callbacks = {"return", "nested", "give_up"}
  Faults = {}
  None = None
CHECK_DEADLOCK FALSE
INVARIANT SingleRunner
