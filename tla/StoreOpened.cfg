SPECIFICATION Spec
CONSTANTS
  a = a
  b = b
  s1 = s1
  s2 = s2
  ta = ta
  tb = tb
  r1 = r1
  r2 = r2
  NoStore = NoStore
  NoDoc = NoDoc
  NoInput = NoInput
  Absent = Absent
  Users <- MCUsers
  Stores <- MCStores
  Tokens <- MCTokens
  HolderOf <- MCHolderOf
  Requests <- MCRequests
  Inputs <- MCInputs
  Bodies <- MCBodies
  Seeds <- MCSeeds
INVARIANT StoreOpened
CHECK_DEADLOCK FALSE
