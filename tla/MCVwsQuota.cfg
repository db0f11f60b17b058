SPECIFICATION ServiceSpec
CONSTANTS
    c1 = c1
    c2 = c2
    c3 = c3
    a = a
    b = b
    sharp = sharp
    flat = flat
    Workers = {w1, w2}
    Lines = {}
    CloudDatabases = {c1}
    VuMarkDatabases = {}
    TargetIds = {t1, t2}
    Ops = {"add"}
    Names = {a}
    Images = {sharp}
    GoodImages = {sharp}
    ProcessingTime = 0
    MaxClock = 0
    NoDate = NoDate
    Absent = Absent
    None = None
    NullFlag = NullFlag
    Changes <- Touching
    TargetQuota <- QuotaOne
    DatabaseName <- ReusedName
    ServerAccessKey <- OwnKeys
    ServerSecretKey <- OwnKeys
    ClientAccessKey <- OwnKeys
    ClientSecretKey <- OwnKeys
INVARIANTS
    QuotaRespected
