CONSTANTS
  MAX_TASK_COUNT = 4
  Objs = {a, b, c}
  BaseObj = BaseObj
  NoObj = NoObj
  Priorities = {1, 2}
  Endless = {a, b, c}
  MaxStarts = 4
  IdSpan = 65536
  Stray = {0}
  Disciplined = TRUE
  Mutexes = {m1, m2}
  Uses <- Chain
  NoMutex = NoMutex
  Retry = 1
  MaxDrift = 1
  LockByte = 256
  Sleepers = {}
  Top = a
  Middle = b
  Bottom = c
  Outer = m1
  Inner = m2
SPECIFICATION SSpec
CONSTRAINT Bounded
INVARIANTS HoldIsAnswered PromotionsNest
