CONSTANTS
  MaxObjects = 5
  NULL = NULL
SPECIFICATION Spec
INVARIANTS
  TypeOK
  FreeListSound
PROPERTY ImplementsPoolSet
