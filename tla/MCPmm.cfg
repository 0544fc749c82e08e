SPECIFICATION Spec
CONSTANTS
  MAX_PAGES = 6
  Usable <- MCUsable
  RefLimit = 3
  MaxSharers = 3
  Counts = {1, 2, 3}
INVARIANTS
  TypeOK
  RefsCountHolders
  BitmapIsOwnership
  FreeCountExact
PROPERTY ImplementsFrameAlloc
