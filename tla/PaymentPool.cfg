SPECIFICATION PoolSpec
CONSTANTS
  Requests = {r1, r2, r3, r4}
  Tokens = 3
  Nobody = Nobody
CHECK_DEADLOCK FALSE \* three waiting requests and the one with the lock stop
PROPERTY TurnsEndUnlessPoolIsFull
