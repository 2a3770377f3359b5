SPECIFICATION LogSpec
CONSTANTS
  MaxBacklog = 3
  MaxElements = 7
  MaxLength = 7
  MaxArgs = 3
INVARIANTS FlushedWhenClosed FitsOrFatal WritesAll
PROPERTIES DestructorEnds
CHECK_DEADLOCK FALSE
