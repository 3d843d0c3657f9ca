SPECIFICATION FairSpec
CONSTANTS
  t1 = t1
  t2 = t2
  sem = sem
  rego = rego
  a = a
  b = b
  NoProject = NoProject
  Foreign = Foreign
  Texts = {t1}
  Constraints = {sem, rego}
  Semantic = {sem}
  Strong = {sem}
  RegoViolates <- RegoOnT1
  Projects = {a, b, NoProject}
  Declares <- TwoProjects
  Evaluations = {e1, e2}
  MaxAttempts = 2
CHECK_DEADLOCK FALSE
PROPERTY SkipsOnlyInFlight
