SPECIFICATION EitherSpec
CONSTANTS
  Requests = {r}
  Capacity = 2
  MaxChunks = 3
  MaxToggles = 1
  Several = {r1, r2, r3}
  Session = s
  Gates = {g1}
  Calls = {c1}
  NoGate = NoGate
  NoRequest = NoRequest
  NoDecision = NoDecision
  NoCall = NoCall
CHECK_DEADLOCK FALSE
PROPERTIES WaitEnds BlockedStreamEnds JudgeEnds KeepsPromise StreamsClose
