SPECIFICATION ServiceSpec
CONSTANTS
    c1 = c1
    c2 = c2
    c3 = c3
    a = a
    b = b
    sharp = sharp
    flat = flat
    Workers = {w1, w2}
    Lines = {l1}
    CloudDatabases = {c1, c2}
    VuMarkDatabases = {}
    TargetIds = {t1, t2, t3, t4}
    Ops = {"add"}
    Names = {a, b}
    Images = {sharp}
    GoodImages = {sharp}
    ProcessingTime = 0
    MaxClock = 0
    NoDate = NoDate
    Absent = Absent
    None = None
    NullFlag = NullFlag
    Changes <- Touching
    TargetQuota <- QuotaOneOrZero
    DatabaseName <- ReusedName
    ServerAccessKey <- OwnKeys
    ServerSecretKey <- OwnKeys
    ClientAccessKey <- OwnKeys
    ClientSecretKey <- OwnKeys
SYMMETRY Interchangeable
INVARIANTS
    QuotaOvershootBounded
