SPECIFICATION StackedSpec
CONSTANTS
    Key <- MCKey
    Fp <- MCFp
    Word <- MCWord
    Id <- MCId
    Hash <- MCHash
    NoKey = NoKey
    NoFp = NoFp
    FpOf <- MCFpOf
    SubkeyFps <- MCSubkeyFps
    Words <- MCWords
    SksHash <- MCSksHash
    Ids <- MCIds
    Merge <- MCMerge
    Changes <- MCChanges
    Clean <- MCClean
    Primaries = {"p1"}
    Subkeys1 = {"s1"}
    Subkeys2 = {"s2"}
    Dropped = {}
    Blacklist = {"p3"}
    CleanFetches = {}
    Client = {c1}
    Upstream <- MCUpstream
    MaxRows = 2
INVARIANT StoredIsFound
