SPECIFICATION Spec
CONSTANTS
  s1 = s1
  s2 = s2
  s3 = s3
  st1 = st1
  st2 = st2
  Clients = {c1}
  Servers = {s1, s2}
  Stores = {st1, st2}
  StoreOf <- TwoStores
  CallsTo <- Cycle
  Refs = {r1, r2, r3}
  Workers = 2
  MaxImports = 1
  Callbacks = {"return", "raise"}
  Faults = {"timeout", "stop"}
  None = None
CHECK_DEADLOCK FALSE
SYMMETRY Symmetry
INVARIANTS TypeOK CallbackDeliveredOnce AnsweredCallIsGone
