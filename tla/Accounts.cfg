CONSTANTS
  Session = {s1, s2}
  Code = {c1}
  Challenge = {h1}
  Reset = {t1}
  Invite = {i1}
  Worker = {w1, w2}
  NoSession = NoSession
  NoId = NoId
  Threshold = 1
  MaxAttempts = 1
  LockTime = 1
  ChallengeTime = 0
  SessionTime = 0
  ResetTime = 1
  InviteTime = 1
  Desk = {w1}
  MaxFails = 3
  MaxPasswords = 2
  MaxTime = 1
SPECIFICATION Spec
INVARIANTS TypeOK 
PROPERTIES SessionsEnd
CHECK_DEADLOCK FALSE
