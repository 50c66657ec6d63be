SPECIFICATION Spec
INVARIANTS MemoryOutlivesThread TargetIsRestored CompleteWhenRun InStep DestroyedOnce
PROPERTIES EverythingEnds
CHECK_DEADLOCK FALSE
