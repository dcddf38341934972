\* Two starts over two requests and a ceiling of one: a request of the first
\* run can outlive its drain and meet the second run's semaphore.
SPECIFICATION FairSpec
CONSTANTS
  MaxRuns = 2
  Reqs = {q1, q2}
  Cap = 1
  ResultChanCap = 1
INVARIANTS
  OneTickLoop
  StoppedIsComplete
  SlotsMatch
PROPERTIES
  StopReturnsOrWedges
CHECK_DEADLOCK FALSE
