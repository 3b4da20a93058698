SPECIFICATION MCFairSpec
CONSTANTS
    Alias = {plain, manual, broken}
    AutoRenew = {plain, broken}
    DisableCname = {plain}
    Google = {}
    Probed = {plain}
    Incomplete = {broken}
    Asked = {plain}
    Request = {q1}
    Scheduler = scheduler
    NoAlias = NoAlias
    MaxDomains = 2
PROPERTIES
    RoundEnds
    Renewed
