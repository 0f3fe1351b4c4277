SPECIFICATION Spec
CONSTANTS
    Key <- MCKey
    Fp <- MCFp
    Word <- MCWord
    Id <- MCId
    Hash <- MCHash
    NoKey = NoKey
    NoFp = NoFp
    FpOf <- MCFpOf
    SubkeyFps <- MCSubkeyFps
    Words <- MCWords
    SksHash <- MCSksHash
    Ids <- MCIds
    Merge <- MCMerge
    Changes <- MCChanges
    Clean <- MCClean
    Primaries = {"p1", "p3"}
    Subkeys1 = {"p3"}
    Subkeys2 = {"s2"}
    Dropped = {}
    Client = {c1, c2}
    MaxRows = 2
SYMMETRY ClientSymmetry
INVARIANT StoredIsFound
PROPERTY FreshImplements
