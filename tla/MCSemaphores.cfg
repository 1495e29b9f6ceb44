CONSTANTS
  Tasks = {a, b}
  Span = 4
  Start = 2
  Retry = 2
  MaxOps = 2
SPECIFICATION FairSpec
INVARIANTS TypeOK RegisterFresh
PROPERTIES ImplementsCounter CallsReturn
