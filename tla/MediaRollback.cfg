SPECIFICATION Spec
CONSTANTS
    Plans = {p1, p2}
    p1 = p1  p2 = p2  c1 = c1  c2 = c2  t1 = t1  t2 = t2  t3 = t3  e1 = e1  e2 = e2
    Objects <- SingleObjects
    PlanOf <- SinglePlans
    Limit <- SingleLimits
    Blobs = {c1}
    Size <- Sizes
    Sources <- Shared
    Runs = {t1, t2}
    DesktopRuns = {}
    Evictors = {}
    Protectable = {}
    PostMax = 3
    MaxBytes = 4
    MaxAttempts = 2
    Faults = {"disk"}
    MaxFaults = 1
    NoRun = NoRun  NoBlob = NoBlob  NoPlan = NoPlan
INVARIANTS ReadyHasFile
