SPECIFICATION MCSpec
CONSTANTS
    c1 = c1
    c2 = c2
    c3 = c3
    v1 = v1
    v2 = v2
    v3 = v3
    sharp = sharp
    flat = flat
    TargetIds = {t1, t2}
    Names = {marker}
    Images = {sharp, flat}
    GoodImages = {sharp}
    ProcessingTime = 0
    NoDate = NoDate
    None = None
    MaxResults = {1, 2}
    Absent = Absent
    MaxClock = 2
    CloudDatabases <- MCCloudDatabases
    VuMarkDatabases <- MCVuMarkDatabases
    DatabaseName <- MCDatabaseName
    ServerAccessKey <- MCServerAccessKey
    ServerSecretKey <- MCServerSecretKey
    ClientAccessKey <- MCClientAccessKey
    ClientSecretKey <- MCClientSecretKey
    Rating <- MCRating
    IdRank <- MCIdRank
    Workloads <- MCWorkloads
INVARIANTS
    TypeOK
    ReadsTypeOK
    CredentialsUnique
    TargetIdsUnique
    CountedOnce
    DeletedNotServed
    FirstMatchesReturned
    DuplicatesProcessed
    StableIsServed
PROPERTIES
    DatesNeverGoBack
    DeletionIsFinal
