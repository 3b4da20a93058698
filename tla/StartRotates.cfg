SPECIFICATION Spec
CONSTANTS
    Process = {p1}
    Config = {demo, mine}
    Demo = demo
    Part = Part
    Nothing = Nothing
    Password = {a, b}
    NoAdmin = NoAdmin
    CutHash = CutHash
INVARIANTS
    RotatesOnRestart
