SPECIFICATION Spec
CONSTANTS
  w1 = w1
  w2 = w2
  c1 = c1
  c2 = c2
  x = x
  y = y
  a1 = a1
  a2 = a2
  Streams = {w1, w2}
  Hooks = {}
  Annotators = {a1, a2}
  Constraints = {c1, c2}
  Texts = {x, y}
  Torn = Torn
  None = None
  InitialLog <- Earlier
  Asked <- SomeMarks
  Batches <- SomeBatches
  Cli = "cli"
  Known = {c1}
  AutoMin = 5
  CliMin = 3
  MaxEdits = 1
  Empty = Empty
  Damaged = Damaged
SYMMETRY Symmetry
CHECK_DEADLOCK FALSE
INVARIANTS TypeOK LogKept SummariesAgree YamlKept NothingRefinedTwice
