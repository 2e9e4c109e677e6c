SPECIFICATION Spec
CONSTANTS
  z0 = z0  z1 = z1  p = p  p1 = p1  q = q  pq = pq  t = t
  Rows <- MCRows
  N <- MCN
  Rank <- MCRank
  Consistent <- MCConsistent
  QInit = 1
  QFactor = 2
  MaxSeen = 5
INVARIANTS TypeOK RankIntervalSound VerdictSound RowsAccounted StorageProportional RetryGrows
PROPERTIES KnowledgeMonotone ImplementsContract
