CONSTANTS
  proof = proof
  ack = ack
  grant = grant
  leaf = leaf
  Assignment = {a1, a2}
  Submission = {s1, s2}
  Template = {proof, ack, grant, leaf}
  Worker = {w1, w2}
  NoAssignment = NoAssignment
  NoSubmission = NoSubmission
  NoTemplate = NoTemplate
  Form <- MCForm
  Secs <- MCSecs
  Scored <- MCScored
  OnSuccess <- MCOnSuccess
  OnFailure <- MCOnFailure
  Requests <- MCEscalations
  w1 = w1
  w2 = w2
  MaxTime = 1
SPECIFICATION Spec
SYMMETRY Ids
INVARIANTS StatusIsBacked 
PROPERTIES SettlesOnceForAll
