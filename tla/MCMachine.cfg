CONSTANTS
  LastTask = 1
  Irqs = {3, 17, 18, 273, 1073741835}
  Handler = Handler
  Levels <- LevelBits
  Grants <- GrantBits
  Words <- WordBits
  Freqs = {40, 100}
  TASK_PER_SEC = 10
  Overflow = 8
  HasMpu = TRUE
SPECIFICATION FairSpec
INVARIANTS VectorsReady EnablesAsAsked PriorityBytesApart TickFitsFrequency
PROPERTIES  CallsReturn
CONSTRAINT Followable
