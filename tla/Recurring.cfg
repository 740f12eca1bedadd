CONSTANTS
  Rule = {r1, r2}
  Template = {t1}
  Task = {k1, k2}
  Worker = {w1}
  Schedules <- MCSchedules
  Edited = {r1}
  Edits <- MCEdits
  NoSchedule = NoSchedule
  NoRule = NoRule
  NoTask = NoTask
  Day = 2
  Week = 2
  MaxTime = 2
SPECIFICATION FairSpec
INVARIANTS TypeOK OneOpenTask
PROPERTIES SpawnsSpaced DueRuleSpawns
