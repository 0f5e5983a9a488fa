SPECIFICATION PoolSpec
CONSTANTS
  Requests = {r1, r2, r3}
  Tokens = 2
  Nobody = Nobody
CHECK_DEADLOCK FALSE \* what is looked for is that no request goes on
PROPERTY EveryTurnEnds
