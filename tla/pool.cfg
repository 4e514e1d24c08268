SPECIFICATION Spec
CONSTANTS
  Requests = {r1, r2, r3, r4}
  PoolSize = 2
  Threads = 3
  Nobody = Nobody
PROPERTIES
  EveryRequestIsAnswered
