SPECIFICATION Spec
CONSTANTS
    Plans = {p1, p2}
    p1 = p1  p2 = p2  c1 = c1  c2 = c2  t1 = t1  t2 = t2  t3 = t3  e1 = e1  e2 = e2
    Objects <- AlbumObjects
    PlanOf <- AlbumPlans
    Limit <- AlbumLimits
    Blobs = {c1, c2}
    Size <- Sizes
    Sources <- FickleAlbum
    Runs = {t1, t2}
    DesktopRuns = {t2}
    Evictors = {e1}
    Protectable = {}
    PostMax = 3
    MaxBytes = 5
    MaxAttempts = 1
    Faults = {"crash", "disk", "sync", "unlink"}
    MaxFaults = 1
    NoRun = NoRun  NoBlob = NoBlob  NoPlan = NoPlan
INVARIANTS LedgerAddsUp LeasesAreComplete BlobsOutliveTheirUse UncountedFilesAreOwned
PROPERTY BindingIsForLife
