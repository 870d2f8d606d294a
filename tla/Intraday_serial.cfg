SPECIFICATION FairSpec
CONSTANTS
  r1 = r1
  r2 = r2
  r3 = r3
  p1 = p1
  p2 = p2
  Reports = {r1, r2, r3}
  DayOf <- MCDayOf
  Days = 2
  Processes = {p1}
  PageSize = 1
  MaxPolls = 2
  MaxReviews = 1
  MaxLosses = 1
INVARIANTS
  QueuedOnce
  SummaryIsCurrent
PROPERTIES
  HeldUntilReview
  ImplementsHeldDelivery
  NoBatchIsStarved
