SPECIFICATION MCSpec
CONSTANTS
    MaxSaves = 2
    Bundle = {raw, leaf, full}
    HasLeaf = {leaf, full}
    HasChain = {full}
    Writer = {w1, w2}
    Reader = {r1}
    Missing = Missing
    Empty = Empty
    Torn = Torn
INVARIANTS
    TypeOK
    StoredOnDisk
    CleanZip
    RegularZip
    NeverRefused
PROPERTIES
    RegisterSpec
