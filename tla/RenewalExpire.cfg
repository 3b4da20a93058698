SPECIFICATION Spec
CONSTANTS
    Alias = {plain}
    AutoRenew = {plain}
    DisableCname = {plain}
    Google = {}
    Probed = {plain}
    Incomplete = {}
    Asked = {plain}
    Request = {q1}
    Scheduler = scheduler
    NoAlias = NoAlias
    MaxDomains = 2
INVARIANTS
    ExpireAnswered
