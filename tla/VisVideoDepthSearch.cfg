SPECIFICATION Spec
INVARIANTS LoopsMeetDefinitions
PROPERTY SearchEnds
CHECK_DEADLOCK FALSE
