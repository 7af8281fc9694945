SPECIFICATION Spec
CONSTANTS
  v1 = v1
  r1 = r1
  r2 = r2
  Variants = {v1}
  Reviewers = {r1, r2}
  NoVariant = NoVariant
  Requests <- MCRequests
  NoRequest = NoRequest
  Budget = 2
  Costs = {1, 2}
  ReviewCost = 1
  MaxSubmitted = 2
SYMMETRY Symmetry
CHECK_DEADLOCK FALSE
INVARIANTS
  ChargesBounded
  
  
  BlockedNeedsAdmin
  FlaggedReviewedAlone
  BuiltMeetsPolicy
