CONSTANTS
  Pcid = {1, 2, 3}
  Asked = {1, 2, 3, 4}
  Site = {f}
  Doc = {d1, d2}
  CacheSize = 2
  NoRow = NoRow
  NullRow = NullRow
  NULL = NULL
SPECIFICATION Spec
INVARIANTS TypeOK RingInOrder ServesWitnessed NeverServesNull
PROPERTIES OnlyOldestLeaves ImplementsMemo
