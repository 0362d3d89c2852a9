SPECIFICATION FairSpec

CONSTANTS
    Deck = {d1, d2}
    NoDeck = ""
    MaxChanges = 3

INVARIANT ShownWasAccepted

PROPERTY OverlayReachesObs

CHECK_DEADLOCK FALSE
