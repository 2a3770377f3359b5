SPECIFICATION FairSpec
CONSTANT NumElems = 5
PROPERTIES SearchEnds PoolSpec
CHECK_DEADLOCK FALSE
