SPECIFICATION FairSerialSpec
CONSTANTS
  r1 = r1  r2 = r2  r3 = r3
  q1 = q1  q2 = q2  q3 = q3  q4 = q4
  Requests <- ThreeRequests
  Runners <- ThreeRunners
  NoRunner = NoRunner
  Legs = 2
  PoolSize = 1
INVARIANTS AllOrNothing AnswerIsTrue NoLeak
PROPERTIES EveryRequestEnds ImplementsAtomicRequests
CHECK_DEADLOCK FALSE
