SPECIFICATION Spec
CONSTANT Alike = {one, two}
SYMMETRY Symmetry
CONSTRAINT OneLoss
INVARIANTS ImageIsRight SymbolIsRight ReadsBack ViewIsExact StreamsAreKept RunsUnpatched OperationsAreOver
PROPERTIES ImplementsStdio
CHECK_DEADLOCK FALSE
