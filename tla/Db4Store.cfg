SPECIFICATION Spec
CONSTANTS
    Key <- MCKey
    Fp <- MCFp
    Word <- MCWord
    Id <- MCId
    Hash <- MCHash
    NoKey = NoKey
    NoFp = NoFp
    FpOf <- MCFpOf
    SubkeyFps <- MCSubkeyFps
    Words <- MCWords
    SksHash <- MCSksHash
    Ids <- MCIds
    Merge <- MCMerge
    Changes <- MCChanges
    Clean <- MCClean
    Primaries = {"p1", "p2", "p3"}
    Subkeys1 = {"p2", "s1"}
    Subkeys2 = {"s1", "s2"}
    Dropped = {}
    Certified = {"j"}
    Blacklist = {"p3"}
    CleanFetches <- MCCleanFetches
INVARIANT IndexInv
INVARIANT LookupsExact
PROPERTY ImplementsKeyStore
PROPERTY SubkeysStayFound
