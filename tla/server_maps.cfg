SPECIFICATION Spec
CONSTANTS
    MaxKeys = 2
    MaxSessions = 2
    MaxPairs = 2
    Rules = {r1}
    Modern = {1}
CHECK_DEADLOCK FALSE
INVARIANTS
    BoundIsAccepted
    SignatureFits
    OnlyOneIsOnlyOne
