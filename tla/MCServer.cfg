\* Two sessions, keys, requests, imports, deletions, starting processes and calls.
SPECIFICATION ServerSpec
CONSTANTS
  Session = {s1, s2}
  Chunks = 2
  Enqueued = {s1}
  Mismatched = {s2}
  Fragile = {s2}
  ActiveLimit = 1
  PoolLimit = 2
  Key = {"k", "l"}
  Asker = {"p", "q"}
  MaxMedia = 2
  Import = {1, 2}
  Removal = {"d", "e"}
  Export = {"x"}
  Process = {"u", "v"}
  Newest = 4
  Call = {"x", "y"}
  MaxTokens = 4
INVARIANTS
  StagingAgrees
  ImportsAreSettled
  WithinLimit
  UploadsAreOwned
  FilesAgreeWithRows
  SchemaIsRecorded
  SignInStands
PROPERTY
  Delivery
CHECK_DEADLOCK FALSE
