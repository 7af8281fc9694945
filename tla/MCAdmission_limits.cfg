SPECIFICATION Spec
CONSTANTS
  p1 = p1
  p2 = p2
  p3 = p3
  c1 = c1
  c2 = c2
  Posts = {p1}
  KeyOf <- MCKeyOf
  Callers = {c1, c2}
  NoPost = NoPost
  Cost = 2
  Limit = 5
  DayLength = 2
  Cooldown = 1
  Capacity = 1
  RefillEvery = 2
  Horizon = 3
  DueTimes = {2}
SYMMETRY Symmetry
CHECK_DEADLOCK FALSE
INVARIANTS
  TypeOK
  OverdrawnByIntruders
  GrantsArePaid
  
  CooldownHolds
