SPECIFICATION Spec
CONSTANTS
    Node <- MCNode
    NoNode = NoNode
    Programs = {"gpgwww", "getkeys", "maxpath", "sixdegrees", "wotsap"}
    Signers <- MCSigners
    Pairs <- MCPairs
    Unsigned = {4}
    RevokedSets <- MCRevokedSets
    MaxPaths = 3
    MaxLength = 30
    Degrees = 2
INVARIANT PathShortest
INVARIANT AnswersTrue
PROPERTY Ends
CHECK_DEADLOCK FALSE
