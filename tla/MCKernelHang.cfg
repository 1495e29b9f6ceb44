CONSTANTS
  MAX_TASK_COUNT = 4
  Objs = {a, b, c}
  BaseObj = BaseObj
  NoObj = NoObj
  Priorities = {1, 2}
  Endless = {b, c}
  MaxStarts = 4
  IdSpan = 65536
  Stray = {0}
  Disciplined = TRUE
SPECIFICATION Spec
INVARIANT NeverHangs
