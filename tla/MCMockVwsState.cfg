SPECIFICATION Spec
CONSTANTS
    c1 = c1
    c2 = c2
    v1 = v1
    a = a
    b = b
    sharp = sharp
    CloudDatabases = {c1, c2}
    VuMarkDatabases = {v1}
    TargetIds = {t1, t2}
    Names = {a, b}
    Images = {sharp}
    GoodImages = {sharp}
    ProcessingTime = 0
    NoDate = NoDate
    Absent = Absent
    Managers = {Own, m1, m2, m3}
    Own = Own
    MaxDepth = 3
    MaxAdded = 3
    MaxClock = 1
    Conflicts <- MCConflicts
    TargetQuota <- MCQuota
    Changes <- MCChanges
INVARIANTS
    StateRestored
