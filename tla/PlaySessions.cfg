CONSTANTS
  Session = {p1}
  Checkin = {c1, c2}
  Viewer = {v1, v2}
  Worker = {w1, w2}
  Channel = {b1, b2}
  NoChannel = NoChannel
  NoSession = NoSession
  NoCheckin = NoCheckin
  Capacity = 2
  MaxSlots = 2
  MaxConsequences = 2
SPECIFICATION Spec
SYMMETRY Ids
INVARIANTS TypeOK RecordsAgree ConsequencesLinkBack StreamsRegistered
