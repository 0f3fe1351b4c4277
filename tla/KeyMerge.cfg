SPECIFICATION Spec
CONSTANTS
    Sites <- MCSites
    Signer = {2}
    Owner = 1
    Nothing = Nothing
    UidLimit = 2
    UatLimit = 3
    MaxUids = 2
    MaxUats = 2
    Times = {1, 2, 3}
    MaxSigs = 2
    MaxList = 4
INVARIANT LatestOfEach
INVARIANT DedupeIsReference
INVARIANT DiffSuffices
INVARIANT CleanIdempotent
INVARIANT CapKeepsNewest
INVARIANT StoredVerified
