SPECIFICATION AccessSpec
CONSTANTS
    Keyholder = {k1, k2}
    Submissive = {s1, s2}
    Scopes = {"read:submissives", "read:catalog"}
SYMMETRY Interchangeable
INVARIANTS
    AccessTypeOK
    
    
