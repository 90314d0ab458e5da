SPECIFICATION Spec
CONSTANTS
  r1 = r1
  r2 = r2
  r3 = r3
  r4 = r4
  Requests <- MCRequests
  MaxQuote = 4
INVARIANT TypeOK
PROPERTIES CacheRefinement OnlyStampedeAges
SYMMETRY MCSymmetry
CHECK_DEADLOCK FALSE
