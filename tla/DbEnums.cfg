SPECIFICATION Spec

INVARIANT TypeOK
INVARIANT ReadBackWritten
