SPECIFICATION OneClient
CONSTANTS
    c1 = c1
    c2 = c2
    c3 = c3
    a = a
    b = b
    sharp = sharp
    flat = flat
    Workers = {w1}
    Lines = {}
    CloudDatabases = {c1, c3}
    VuMarkDatabases = {}
    TargetIds = {t1, t2}
    Ops = {"add", "update", "delete", "get"}
    Names = {a, b}
    Images = {sharp, flat}
    GoodImages = {sharp}
    ProcessingTime = 0
    MaxClock = 2
    NoDate = NoDate
    Absent = Absent
    None = None
    NullFlag = NullFlag
    Changes <- Editing
    TargetQuota <- QuotaTwoOrOne
    DatabaseName <- ReusedName
    ServerAccessKey <- KeptAccessKey
    ServerSecretKey <- OwnKeys
    ClientAccessKey <- OwnKeys
    ClientSecretKey <- OwnKeys
INVARIANTS
    QuotaRespected
    NamesUnique
PROPERTIES
    ImplementsContract
