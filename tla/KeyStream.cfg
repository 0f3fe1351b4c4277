SPECIFICATION RingSpec
CONSTANTS
    Cases <- MCCases
    Trailer <- MCTrailer
    MaxCut = 100
    ArmorWidth = 8
    Now <- MCNow
INVARIANTS ReadsWhatArrived FlattenIsParse SignaturesRead AgedTrue RingTrue
CHECK_DEADLOCK FALSE
