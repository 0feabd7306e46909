CONSTANTS
    t1 = t1
    t2 = t2
    Threads = {t1, t2}
    Requests = {t1, t2}
    Callers = {t1, t2}
    Editors = {t1, t2}
    Mixes <- MCMixes
    \* sessions
    Tokens = {s1, s2}
    NoToken = NoToken
    Ttl = 2
    \* the lock table
    Keys = {1, 2}
    Entries = {1, 2}
    NoThread = NoThread
    NoEntry = NoEntry
    NoKey = NoKey
    \* draws and claims
    DrawKeys = {k1, plan}
    PlanKey = plan
    NoDrawKey = NoDrawKey
    IdemKeys = {i1}
    NoIdem = NoIdem
    Nobody = Nobody
    NoCount = NoCount
    Grant = 1
    MaxLeft = 1
    \* tasks
    TaskIDs = {a, b}
    MaxTasks = 2
SPECIFICATION FairSpec
INVARIANTS
    WorkbenchInv
    CompletedIsGranted
    RetriesDrawOnce
    ChanceIsThere
    LogTellsTheTruth
    CookieIsGood
    EditsSurvive
PROPERTIES
    OpenClaimIsNotReposted
    ImplementsMutex
    EveryWaiterServed
