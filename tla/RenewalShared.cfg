SPECIFICATION Spec
CONSTANTS
    Alias = {plain, follow}
    AutoRenew = {plain, follow}
    DisableCname = {plain}
    Google = {plain, follow}
    Probed = {plain}
    Incomplete = {}
    Asked = {plain}
    Request = {q1}
    Scheduler = scheduler
    NoAlias = NoAlias
    MaxDomains = 2
INVARIANTS
    TypeOK
    CnameAndMutexFreed
    EnvHonoured
    OwnWait
    NoFatal
PROPERTIES
    FreshKept
