SPECIFICATION Spec
CONSTANTS
    Proc = {p, q}
    NumFiles = 2
    MaxFaults = 1
    Fp <- MCFp
    Ops = {"search", "hash", "update", "walk", "clean", "delete"}
    Stores <- MCStores
    Texts <- MCTexts
    Submitted <- MCSubmitted
    NumDbs = 2
    MaxKeys = 1
    MaxOps = 3
INVARIANTS QueryExact CountTrue UpgradeSafe
PROPERTIES AllOpen OpsEnd
CHECK_DEADLOCK FALSE
