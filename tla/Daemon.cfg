SPECIFICATION FairSpec
CONSTANTS
  a = a
  b = b
  c = c
  Constraints = {a, b, c}
  Scale = 10000
  MaxRounds = 100
  Serves = {v1}
  Grounds = {g1}
  Pids = {p1, p2}
  NoPid = NoPid
  Malformed = Malformed
  NoConfig = NoConfig
INVARIANTS TypeOK EndedMeansOver DefeatedDoesNotBlock
PROPERTY TurnEnds
