SPECIFICATION Spec
CONSTANTS
    Tab = {a, b}
    Token = {k1, k2}
    NoToken = NoToken
SYMMETRY Symmetry
INVARIANTS
    TypeOK
    PagesGuarded
PROPERTIES
    LoggedOutEverywhere
    WorkingKept
