CONSTANTS
  Device = {d1}
  Session = {s1}
  Assignment = {a1, a2}
  Worker = {w1}
  NoDevice = NoDevice
  NoSession = NoSession
  Null = Null
  NoAssignment = NoAssignment
  Effect <- MCEffect
  Release <- MCRelease
  SelfReportAllowed = TRUE
  Interval = 1
  MaxTime = 2
  MaxLedger = 2
SPECIFICATION Spec
SYMMETRY Ids
CHECK_DEADLOCK FALSE
INVARIANTS TypeOK 
PROPERTIES PastIsRespected
