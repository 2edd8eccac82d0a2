SPECIFICATION FairSpec
CONSTANTS
  c1 = c1  c2 = c2
  kproc = kproc  kskip = kskip  kother = kother
  Callers = {c1, c2}
  Keys = {kproc, kskip, kother}
  KindOf <- MCKindOf
  Capacity = 1
  BatchLimit = 2
  TTL = 1
  CacheLimit = 1
  MaxIngests = 3
  MaxTime = 1
INVARIANTS TypeOK MetricsConserved HooksInOrder DrainedOnStop
PROPERTIES ImplementsLog EventuallyAnalysed StopReturns
CHECK_DEADLOCK FALSE
