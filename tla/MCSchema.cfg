\* Two processes that start, with any database of an older version or none.
SPECIFICATION SchemaSpec
CONSTANTS
  Process = {"api", "gateway"}
  Newest = 4
INVARIANT
  VersionTellsSchema
CHECK_DEADLOCK FALSE
