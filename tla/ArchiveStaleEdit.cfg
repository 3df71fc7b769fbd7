SPECIFICATION Spec
CONSTANTS
    Messages = {1}
    MaxVersion = 2
    Edits <- FirstEdited
    EditTime <- SlowTimes
    Textual = {1}
    Unreadable = {}
    Files = {f1}
    Runs = {r1}
    f1 = f1  r1 = r1  r2 = r2
    BatchSize = 1
    NoRun = NoRun  NoFile = NoFile
INVARIANT CurrentIsNewest
CHECK_DEADLOCK FALSE
