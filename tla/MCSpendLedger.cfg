SPECIFICATION Spec
CONSTANTS
  Requests = {r1, r2, r3}
  Limit <- DayAndWeek
  Length <- Calendar
  Maximum = 2
  Minimum = 1
  Costs = {1, 3}
  MaxClock = 9
SYMMETRY RequestSymmetry
INVARIANTS LimitsHold SpendingWithinLimits
CHECK_DEADLOCK FALSE
