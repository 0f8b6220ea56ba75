SPECIFICATION PartsSpec
CONSTANTS
    Managed = {d1, d2}
    Contents = {x1, x2}
    Missing = Missing
    ComboId = {i1}
    MaxRuns = 2
    MaxMishaps = 2
    Path = {p1, p2}
    Target = p1
    Line = {l1, l2}
    Wanted = l2
    Rest = {r1, r2}
    NoText = NoText
    MaxChanges = 2
    MaxHunks = {0, 1, 9}
    HunkOffset = {0, 1, 3}
    MaxRows = {0, 1}
    DefaultHunks = 2
    HunkCap = 3
    DefaultRows = 2
    RowCap = 2
    MaxLines = 6
    File = {f1, f2}
    Outside = Outside
    MaxWrites = 2
    MaxClock = 1
    MaxVerifies = 2
    Kernel = {k1, k2}
    NoKernel = NoKernel
    MaxFlags = 3
    MaxBatch = 3
CHECK_DEADLOCK FALSE
INVARIANTS
    PreimagesAreKept
    ScanForetellsRollback
    WritesWhatWasSeen
    UndisturbedRecoverySucceeds
    PageIsExact
    RowsFollowPage
    LinesAreCounted
    FilesAreCounted
    RawWritesAreSuspected
    DiffAuditDiffersForAReason
    OnlyTheClockMisorders
    ExitZeroIsEarned
    RestartOutlivesOldBuilds
    ExitZeroMeansAllRan
PROPERTIES
    RevertedMeansRestored
    ImplementsOneEdit
    AuditsSeeTheirExecution
    BatchReportsEveryLine
