SPECIFICATION RecordFairSpec
CONSTANTS
    Name = {n1, n2}
    Data = {d1, d2}
    Holder = {h1, h2, h3}
    NullData = NullData
INVARIANTS
    HoldersExact
    HeldSafe
PROPERTY OpenCompletes
