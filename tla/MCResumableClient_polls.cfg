SPECIFICATION ClientSpec
CONSTANTS
  Session = {s1}
  Chunks = 2
  Enqueued = {s1}
  Mismatched = {}
  Fragile = {s1}
  ActiveLimit = 1
  PoolLimit = 1
  JobChecks = 2
PROPERTY
  PollingEnds
