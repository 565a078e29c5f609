SPECIFICATION Spec
INVARIANTS FilteredExactly ParsedByGrammar ShowsTyped WiredAsWritten HeapTiled
PROPERTIES CommandEnds SieveEnds
CHECK_DEADLOCK FALSE
