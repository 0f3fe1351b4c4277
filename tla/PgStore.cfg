SPECIFICATION Spec
CONSTANTS
    Key <- MCKey
    Fp <- MCFp
    Word <- MCWord
    Id <- MCId
    Hash <- MCHash
    NoKey = NoKey
    NoFp = NoFp
    FpOf <- MCFpOf
    SubkeyFps <- MCSubkeyFps
    Words <- MCWords
    SksHash <- MCSksHash
    Ids <- MCIds
    Merge <- MCMerge
    Changes <- MCChanges
    Clean <- MCClean
    Primaries = {"p1", "p2"}
    Subkeys1 = {"s1"}
    Subkeys2 = {"s2"}
    Dropped = {}
    Conn = {a, b, c}
    Oid = {1, 2, 3, 4, 5}
    NoOid = NoOid
    Submitted <- MCSubmitted
    MaxOps = 4
    MaxFaults = 1
INVARIANT NoDangling
INVARIANT NothingLost
INVARIANT TablesAgree
PROPERTY AllEnd
CHECK_DEADLOCK FALSE
