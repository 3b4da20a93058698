SPECIFICATION Spec
CONSTANTS
    Alias = {a, b, c}
    NoAlias = NoAlias
    None = None
    MaxCalls = 2
INVARIANTS
    TypeOK
    SpinnerReal
    DialogOf
PROPERTIES
    Settles
