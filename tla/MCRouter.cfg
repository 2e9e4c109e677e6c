SPECIFICATION FairSpec
CONSTANTS
  N = 3
  ClosureMax = 1
  NearFull = 1
  TailGap = 2
INVARIANTS TypeOK VerdictSound IntervalSound UniqueCarriesQuality SourceOwnsRefusals  QrcpAtMostTwice
PROPERTY Returns
