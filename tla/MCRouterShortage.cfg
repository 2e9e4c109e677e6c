SPECIFICATION Spec
CONSTANTS
  N = 3
  ClosureMax = 1
  NearFull = 1
  TailGap = 2
INVARIANT ShortageIsNotUndecidable
