SPECIFICATION Spec
INVARIANTS UsedIsThere NothingIsLeft
PROPERTIES StopEnds
CHECK_DEADLOCK FALSE
