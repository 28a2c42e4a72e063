SPECIFICATION FairSpec
PROPERTY StartEnds
CHECK_DEADLOCK FALSE
