CONSTANTS
  MAX_TASK_COUNT = 3
  Objs = {a, b}
  BaseObj = BaseObj
  NoObj = NoObj
  Priorities = {0, 1, 2, 128}
  Endless = {b}
  MaxStarts = 5
  IdSpan = 65536
  Stray = {0, 255}
  Disciplined = TRUE
SPECIFICATION FairSpec
INVARIANTS IdsIdentify DisciplinedInv
PROPERTIES LevelsKeptUntilFull TopLevelRoundRobin KilledIsNamed
