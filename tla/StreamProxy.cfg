SPECIFICATION Spec
CONSTANTS
  Requests = {r1, r2}
  Capacity = 1
  MaxChunks = 1
  MaxToggles = 1
SYMMETRY Symmetry
CHECK_DEADLOCK FALSE
INVARIANTS TypeOK ForcedBlocksNeedArming MidStreamBlockSignalled ViolatingRetryWithheld
