CONSTANTS
  proof = proof
  ack = ack
  grant = grant
  leaf = leaf
  Assignment = {a1}
  Submission = {s1, s2}
  Template = {proof}
  Worker = {w1, w2}
  NoAssignment = NoAssignment
  NoSubmission = NoSubmission
  NoTemplate = NoTemplate
  Form <- MCForm
  Secs <- MCSecs
  Scored <- MCScored
  OnSuccess <- MCOnSuccess
  OnFailure <- MCOnFailure
  Requests <- MCPausing
  w1 = w1
  w2 = w2
  MaxTime = 3
SPECIFICATION FairSpec
INVARIANTS TypeOK AutoFailAfterAllowance
PROPERTIES OverdueIsSwept
