SPECIFICATION FairSpec
CONSTANTS
    w1 = w1  w2 = w2  o1 = o1  r1 = r1  r2 = r2
    Workers = {w1, w2}
    ScanRuns = {r1, r2}
    NoScan = NoScan
    MaxFaults = 1
    Findings = {1}
    Exhaustive = {1}
    Repairable = {1}
    Operators = {o1}
    Scanners = {w1, w2, o1}
    NoScanner = NoScanner
    MaxVersion = 2
    Scopes <- OneScope
    MaxRequests = 1
INVARIANTS TypeOK RunningIsClaimed ScanOwnsItsClaim
PROPERTIES VerdictsAreFounded IgnoredAsSeen RunsEnd GoneIsResolved
