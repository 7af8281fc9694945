SPECIFICATION Spec
CONSTANTS
  p1 = p1
  p2 = p2
  p3 = p3
  c1 = c1
  c2 = c2
  Posts = {p1, p3}
  KeyOf <- MCKeyOf
  Callers = {c1}
  NoPost = NoPost
  Cost = 2
  Limit = 2
  DayLength = 2
  Cooldown = 1
  Capacity = 2
  RefillEvery = 3
  Horizon = 3
  DueTimes = {0, 2}
INVARIANT DailyQuotaHolds
CHECK_DEADLOCK FALSE
