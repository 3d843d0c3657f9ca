SPECIFICATION Spec
CONSTANTS
  r1 = r1
  r2 = r2
  r3 = r3
  s1 = s1
  s2 = s2
  Requests = {r1, r2, r3}
  Sessions = {s1, s2}
  SessionOf <- TwoSessions
  Gates = {g1, g2}
  Calls = {c1}
  NoGate = NoGate
  NoRequest = NoRequest
  NoDecision = NoDecision
  NoCall = NoCall
SYMMETRY Symmetry
CHECK_DEADLOCK FALSE
INVARIANTS TypeOK WaitsOnlyOnFinishedStreams ReleaseNeedsVerdict CutNeedsRefusal AtMostOneLateChunk
