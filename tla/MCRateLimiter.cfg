SPECIFICATION Spec
CONSTANTS
  r1 = r1
  r2 = r2
  r3 = r3
  r4 = r4
  k1 = k1
  i1 = i1
  i2 = i2
  Limit = 2
  MaxCount = 5
  Requests <- MCRequests
  Counters <- MCCounters
  CounterOf <- MCCounterOf
  Instances <- MCInstances
  InstanceOf <- MCInstanceOf
INVARIANTS TypeOK AtMostLimit TTLOnItsWay
PROPERTIES RefusedOnlyAtLimit WindowEndsUnlessOrphaned
