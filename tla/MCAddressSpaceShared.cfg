SPECIFICATION Spec
CONSTANTS
  Task = {t1, t2, t3}
  First = t1
  text = text
  stack = stack
  upper = upper
  pt1 = pt1
  pt2 = pt2
  VPage = {stack}
  Node = {upper, pt2}
  Frame = {1, 2, 3, 4, 5, 6, 7, 8, 9, 10, 11, 12, 13, 14, 15, 16}
  Val = {0, 1}
  Pml4 = Pml4
  Spare = Spare
  New = New
  Idle = Idle
  NoFrame = NoFrame
  NoVal = NoVal
  PathOf <- MCPathOf
  TableOrder <- MCTableOrder
  FreeOrder <- MCFreeOrder
  Programs <- DataPrograms
  BootStack <- MCBootStack
  BootImage <- DataBootImage
  WritableSeg = {stack}
  Placement <- MCPlacement
INVARIANTS
  RefsAreSharers
  TablesPrivate
  NoSharedWritable
  TlbSafe
PROPERTIES
  PageTablesKeepMemory
  ImplementsPrivateMemory
SYMMETRY TaskSymmetry
VIEW View
