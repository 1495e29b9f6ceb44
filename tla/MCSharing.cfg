CONSTANTS
  MAX_TASK_COUNT = 3
  Objs = {a, b}
  BaseObj = BaseObj
  NoObj = NoObj
  Priorities = {1, 2}
  Endless = {b}
  MaxStarts = 4
  IdSpan = 65536
  Stray = {0}
  Disciplined = TRUE
  Mutexes = {m}
  Uses <- AllUses
  NoMutex = NoMutex
  Retry = 1
  MaxDrift = 2
  LockByte = 256
  Sleepers = {a}
SPECIFICATION SSpec
INVARIANTS STypeOK MutualExclusion HoldIsAnswered

