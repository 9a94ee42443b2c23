SPECIFICATION CodecSpec
CONSTANTS
    Width32 = 16
    Width64 = 24
    PrefixSize = 20
    TagLen = 3
    ValLen = 3
    MaxOdd = 3
    MaxTurns = 2
    MaxPairs = 2
    Usual <- MCUsual
    Odd <- MCOdd
    Tags <- MCTags
    Vals <- MCVals
CHECK_DEADLOCK FALSE
INVARIANTS
    RoundTrip
    TlvRoundTrip
