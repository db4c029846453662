SPECIFICATION FairSpec
CONSTANTS
  main = main
  calc = calc
  utils = utils
  greeting = greeting
  s1 = s1
  c1 = c1
  p1 = p1
  Procs = {p1, p2}
  Modules = {main, calc, utils, greeting}
  Stores = {s1}
  Callers = {c1}
  Memories = {m1}
  StoreOf <- MCStoreOf
  ServerOf <- MCServerOf
  Keys <- MCKeys
  Stringify <- MCStringify
  Names <- MCNames
  Forests <- MCForests
  Height <- MCHeight
  Requests <- MCRequests
  Imports <- MCImports
  StartCallsHost = {greeting}
  Limit = 4
  Nifs = 2
INVARIANTS TypeOK NoWaitCycle PoisonSpread NoUnknownImport
CHECK_DEADLOCK FALSE
PROPERTIES NifsEnd
