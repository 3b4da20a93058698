SPECIFICATION Spec
CONSTANTS
    Process = {p1, p2}
    Config = {demo, mine}
    Demo = demo
    Part = Part
    Nothing = Nothing
    Password = {a, b, c}
    NoAdmin = NoAdmin
    CutHash = CutHash
INVARIANTS
    TypeOK
    Announced
    Settled
    CertsKept
