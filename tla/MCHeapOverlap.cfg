CONSTANTS
  Tasks = {a}
  HB = 12
  Half = 16
  Wide = 64
  Total = 6
  Requests = {3, 12, 64}
  MaxBlocks = 4
SPECIFICATION Spec
INVARIANT BlocksApart
