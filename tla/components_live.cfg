SPECIFICATION FairSpec
CONSTANTS
  s1 = s1
  s2 = s2
  s3 = s3
  st1 = st1
  st2 = st2
  Clients = {c1}
  Servers = {s1, s2, s3}
  Stores = {st1, st2}
  StoreOf <- Shared
  CallsTo <- Chain
  Refs = {r1, r2}
  Workers = 2
  MaxImports = 1
  Callbacks = {"return"}
  Faults = {"stop"}
  None = None
CHECK_DEADLOCK FALSE
PROPERTIES  StartsUnlessStoreLost ImplementsSerialStore
