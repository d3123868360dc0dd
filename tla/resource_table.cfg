SPECIFICATION FairSpec
CONSTANTS
  Threads = {t1, t2}
  Resources = {r1, r2}
  Handles = {1, 2}
  HandleBits = 3
  AddLimit = 7
  Nobody = Nobody
  Nothing = Nothing
INVARIANTS TypeOK OneFate RangeConsistent
PROPERTIES AddFresh Linearizable CallsReturn
