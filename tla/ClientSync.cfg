SPECIFICATION MCSpec
CONSTANTS
    older = older
    newer = newer
    Bundle = {older, newer}
    HasLeaf = {older, newer}
    HasChain = {newer}
    Writer = {w1}
    Reader = {client}
    Client = client
    Expiry <- MCExpiry
    Missing = Missing
    Empty = Empty
    Torn = Torn
INVARIANTS
    SyncTypeOK
    WholeBundle
PROPERTIES
    NeverBackwards
    KeepsPromise
    Converges
