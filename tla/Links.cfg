CONSTANTS
  Worker = {w1, w2}
  Null = Null
  EscalateAfter = 2
  Interval = 1
  MaxTime = 3
SPECIFICATION FairSpec
INVARIANTS TypeOK MarksBelong
PROPERTIES RemindersSpaced NothingForgotten
