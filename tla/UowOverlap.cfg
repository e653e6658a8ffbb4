SPECIFICATION FairSpec
CONSTANTS
  r1 = r1  r2 = r2  r3 = r3
  q1 = q1  q2 = q2  q3 = q3  q4 = q4
  Requests <- TwoRequests
  Runners <- FourRunners
  NoRunner = NoRunner
  Legs = 2
  PoolSize = 2
INVARIANTS TypeOK EachAwaitsOne
PROPERTIES EndsUnlessStarved
CHECK_DEADLOCK FALSE
