SPECIFICATION FairSpec
CONSTANTS
  r1 = r1  r2 = r2  c1 = c1  c2 = c2
  before = before  later = later  None = None
  Routes = {r1}
  Callers = {c1, c2}
  Statics = {before, later}
  Layout <- MCLayout
  MaxFrame = 4
  MaxUInt32 = 1000
  MaxBuffer = 3
INVARIANT SampleIsWhole
PROPERTY SamplesReachWaiters
CHECK_DEADLOCK FALSE
