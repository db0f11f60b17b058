SPECIFICATION ServiceSpec
CONSTANTS
    c1 = c1
    c2 = c2
    c3 = c3
    a = a
    b = b
    sharp = sharp
    flat = flat
    Workers = {w1, w2}
    Lines = {l1}
    CloudDatabases = {c1}
    VuMarkDatabases = {}
    TargetIds = {t1, t2}
    Ops = {"add", "update", "delete"}
    Names = {a}
    Images = {sharp}
    GoodImages = {sharp}
    ProcessingTime = 0
    MaxClock = 1
    NoDate = NoDate
    Absent = Absent
    None = None
    NullFlag = NullFlag
    Changes <- Touching
    TargetQuota <- QuotaOne
    DatabaseName <- ReusedName
    ServerAccessKey <- OwnKeys
    ServerSecretKey <- OwnKeys
    ClientAccessKey <- OwnKeys
    ClientSecretKey <- OwnKeys
VIEW Undated
SYMMETRY Interchangeable
INVARIANTS
    ServiceTypeOK
    AckedDeleteFinal
    AckedAddKept
