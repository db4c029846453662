SPECIFICATION Spec
CONSTANTS
  Clients = {c1, c2}
  Refs = {r1, r2, r3}
  Workers = 2
  MaxImports = 2
  Requests = {"call_function", "get"}
  Callbacks = {"return", "raise", "crash", "nested", "nested_import", "give_up"}
  Faults = {"stop", "nif_panic"}
  None = None
CHECK_DEADLOCK FALSE
SYMMETRY Symmetry
INVARIANTS NoLostWakeup CallbackServesParked CallersParked
