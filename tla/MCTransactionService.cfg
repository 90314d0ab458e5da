SPECIFICATION Spec
CONSTANTS
  r1 = r1
  r2 = r2
  r3 = r3
  s1 = s1
  i1 = i1
  i2 = i2
  NoOwner = NoOwner
  RetryCount = 1
  Requests <- MCRequests
  Stores <- MCStores
  StoreOf <- MCStoreOf
  InINR <- MCInINR
  Instances <- MCInstances
  InstanceOf <- MCInstanceOf
INVARIANTS TypeOK AnsweredStoreFree
PROPERTIES LedgerRefinement InsertUnderLock AnsweredWithoutFx
