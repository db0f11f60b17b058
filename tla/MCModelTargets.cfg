SPECIFICATION Spec
CONSTANTS
    ClientIds = {i1, i2, i3, i4}
    Uuids = {u1}
    ReportIds = {r1, r2}
    FixedClientId = FixedClientId
    MaxClientCredentials = 1
    ProcessingTime = 1
    GenerationFailure = FALSE
    MaxClock = 1
    None = None
    Workers = {w1, w2}
    Lines = {l1}
    ScopeLists <- MCScopeLists
    Tokens <- MCTokens
    Workloads <- MCWorkloads
SYMMETRY Interchangeable
INVARIANTS
    TypeOK
    LimitOvershootBounded
    DeletedCredentialGone
    TokenScopesHeld
    AckedDatasetKept
    DeletionEffective
    ReadyIsServed
PROPERTIES
    ImplementsLifecycle
