SPECIFICATION Spec
CONSTANTS
    Key <- MCKey
    Fp <- MCFp
    Word <- MCWord
    Id <- MCId
    Hash <- MCHash
    NoKey = NoKey
    NoFp = NoFp
    FpOf <- MCFpOf
    SubkeyFps <- MCSubkeyFps
    Words <- MCWords
    SksHash <- MCSksHash
    Ids <- MCIds
    Merge <- MCMerge
    Changes <- MCChanges
    Clean <- MCClean
    Primaries = {"p1", "p2"}
    Subkeys1 = {"s1"}
    Subkeys2 = {"s2"}
    Dropped = {}
    Proc = {a, b}
    Inode = {1, 2, 3, 4}
    NoFile = NoFile
    NoProc = NoProc
    Empty = Empty
    Submitted <- MCSubmitted
    MaxOps = 4
    MaxFaults = 2
SYMMETRY ProcSymmetry
INVARIANT NothingLost
 
CHECK_DEADLOCK FALSE
