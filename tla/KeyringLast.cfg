SPECIFICATION RingSpec
CONSTANTS
    Cases <- MCCases
    Trailer <- MCTrailer
    MaxCut = 100
    ArmorWidth = 8
    Now <- MCNow
INVARIANT IteratesAll
CHECK_DEADLOCK FALSE
