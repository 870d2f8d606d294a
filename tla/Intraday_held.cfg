SPECIFICATION Spec
CONSTANTS
  r1 = r1
  r2 = r2
  r3 = r3
  p1 = p1
  p2 = p2
  Reports = {r1, r3}
  DayOf <- MCDayOf
  Days = 2
  Processes = {p1, p2}
  PageSize = 1
  MaxPolls = 1
  MaxReviews = 0
  MaxLosses = 0
PROPERTIES
  HeldUntilReview
SYMMETRY ProcessSymmetry
