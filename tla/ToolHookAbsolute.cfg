SPECIFICATION Spec
CONSTANTS
  c1 = c1
  c2 = c2
  e1 = e1
  f = f
  s1 = s1
  s2 = s2
  Calls = {c1, c2}
  Edits = {e1}
  Paths = {f}
  NoPath = NoPath
  None = None
  Tracked = {f}
  Relative = {}
  Sessions = {s1, s2}
  Inputs <- TwoInputs
  MaxErrors = 2
CHECK_DEADLOCK FALSE
PROPERTY TrackedFilesRestored
