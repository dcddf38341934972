SPECIFICATION Spec
CONSTANTS
  r1 = r1
  r2 = r2
  Reqs = {r1, r2}
  Faulty = {r1, r2}
  ResultChanCap = 1
  MaxShedBuckets = 1
  MaxMinute = 2
  MaxRuns = 2
  MaxTicks = 1
  MaxFailures = 1
CHECK_DEADLOCK FALSE
INVARIANTS
  EachResultOnceUnlessRaced
  LossesAccounted
