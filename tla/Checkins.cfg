SPECIFICATION CheckinsSpec
CONSTANTS
    Checkin = {c1}
    Alert = {a1, a2}
    None = None
    Thread = {w1, w2}
    MaxRequests = 4
SYMMETRY Interchangeable
INVARIANTS
    CheckinsTypeOK
    
PROPERTIES
    AlertsFollowRed
CHECK_DEADLOCK FALSE
