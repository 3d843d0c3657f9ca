SPECIFICATION Spec
CONSTANTS
  r1 = r1
  r2 = r2
  f1 = f1
  f2 = f2
  sensitive = sensitive
  Categories = {"config_error", "transient_error"}
  Groups = {sensitive}
  NoGroup = NoGroup
  NoPolicy = NoPolicy
  Components = {"claim_injection", "other"}
  Files <- SomeFiles
  Unreadable = Unreadable
  Requests = {r1, r2}
  Filters <- TwoFilters
  InjectionPolicies <- SomePolicies
  Costs = {0, 2, 4}
  MaxCost = 3
CHECK_DEADLOCK FALSE
INVARIANTS TypeOK FloorsHeld InjectedWholeOrNot
           SecretsRedacted OverBudgetNotCharged
