SPECIFICATION CheckSpec
CONSTANTS
  M = 2
  MaxWorkers = 2
  RowKinds <- AllRowKinds
  CandidateRows <- AllCandidateRows
  CallerModes <- UsualModes
INVARIANT PoolRoundsAsCallers
