CONSTANTS
  Tasks = {a, b}
  HB = 12
  Half = 8
  Wide = 64
  Total = 10
  Requests = {0, 3, 28, 32, 254}
  MaxBlocks = 4
SPECIFICATION Spec
SYMMETRY Perms
CONSTRAINT Followable
INVARIANTS TypeOK ListSound RemainingExact OwnersAgree
PROPERTY ImplementsAllocator
