CONSTANTS
  MAX_TASK_COUNT = 4
  Objs = {a, b, c}
  BaseObj = BaseObj
  NoObj = NoObj
  Priorities = {1}
  Endless = {c}
  MaxStarts = 4
  IdSpan = 65536
  Stray = {0}
  Disciplined = FALSE
SPECIFICATION Spec
INVARIANT KernelInv
