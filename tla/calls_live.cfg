SPECIFICATION FairSpec
CONSTANTS
  Clients = {c1}
  Refs = {r1, r2, r3}
  Workers = 2
  MaxImports = 1
  Requests = {"call_function", "memory"}
  Callbacks = {"return", "crash", "nested", "nested_import"}
  Faults = {"timeout", "stop"}
  None = None
CHECK_DEADLOCK FALSE
PROPERTIES CallsAnswered TasksEnd WrapperResumes HangsAreForever
