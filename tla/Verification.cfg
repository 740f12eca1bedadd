CONSTANTS
  Code = {c1, c2, c3}
  Submission = {s1, s2}
  Policy <- MCPolicies
  DefaultPolicy <- MCDefault
  Worker = {w1, w2}
  Requester = {w1}
  NoCode = NoCode
  NoSubmission = NoSubmission
  Null = Null
  Day = 2
  Window <- MCWindow
  MaxTime = 2
SPECIFICATION Spec
SYMMETRY CodeIds
INVARIANTS TypeOK  SubmissionsAgree
