SPECIFICATION Spec
CONSTANTS
    Messages = {1, 2, 3}
    MaxVersion = 2
    Edits <- FirstEdited
    EditTime <- Times
    Textual = {2}
    Unreadable = {3}
    Files = {f1}
    Runs = {r1, r2}
    f1 = f1  r1 = r1  r2 = r2
    BatchSize = 1
    NoRun = NoRun  NoFile = NoFile
INVARIANTS TypeOK ArchiveCatchesUp CompletedRunsAreComplete
SYMMETRY RunSymmetry
CHECK_DEADLOCK FALSE
