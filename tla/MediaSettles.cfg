SPECIFICATION FairSpec
CONSTANTS
    Plans = {p1, p2}
    p1 = p1  p2 = p2  c1 = c1  c2 = c2  t1 = t1  t2 = t2  t3 = t3  e1 = e1  e2 = e2
    Objects <- SingleObjects
    PlanOf <- SinglePlans
    Limit <- SingleLimits
    Blobs = {c1, c2}
    Size <- Sizes
    Sources <- Distinct
    Runs = {t1, t2, t3}
    DesktopRuns = {}
    Evictors = {}
    Protectable = {}
    PostMax = 3
    MaxBytes = 4
    MaxAttempts = 1
    Faults = {"crash"}
    MaxFaults = 2
    NoRun = NoRun  NoBlob = NoBlob  NoPlan = NoPlan
PROPERTIES CommittedPlansGetReady ClaimsEnd
CHECK_DEADLOCK FALSE
