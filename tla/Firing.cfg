SPECIFICATION FairSpec
CONSTANTS
  r1 = r1
  r2 = r2
  j1 = j1
  j2 = j2
  Reqs = {r1, r2}
  Jobs = {j1, j2}
  Statuses = {200, 404, 500, 503}
  Causes = {"dial timeout", "broken", "canceled"}
  SmallBudget = 1
  LargeBudget = 2
  ResultChanCap = 1
  MaxTime = 2
INVARIANTS NoLostWakeup OnlyExpiredAreCut ResultsAreTheirOwn TwoBooksAgree
PROPERTY DeadlinesHold
CHECK_DEADLOCK FALSE
