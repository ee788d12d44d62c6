SPECIFICATION FairSpec
CONSTANT MaxChanges = 3
INVARIANTS TypeOK EpochsConsecutive ChildrenTracked
PROPERTIES ChangesLoaded EnvoyServes
CHECK_DEADLOCK FALSE
