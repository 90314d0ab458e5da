SPECIFICATION SafeSpec
CONSTANTS
  r1 = r1
  r2 = r2
  r3 = r3
  k1 = k1
  i1 = i1
  i2 = i2
  NoOwner = NoOwner
  RetryCount = 2
  Requests <- MCRequests
  Keys <- MCKeys
  Instances <- MCInstances
  KeyOf <- MCKeyOf
  InstanceOf <- MCInstanceOf
INVARIANT GracefulRelease
