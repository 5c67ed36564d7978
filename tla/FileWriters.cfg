SPECIFICATION Spec
CONSTRAINT MCIssueAlone
CONSTANTS
    Ids = {a}
    Values = {u}
    Keys = {k}
    Captures = {full, latest}
    Absent = Absent
    Writers = {w1, w2}
    Ops <- MCAllOps
    DiskFails = TRUE
    Restarts = TRUE
INVARIANTS MemoryIsPersisted DecisionsAreOnStatics
PROPERTIES RestartKeepsWholeWrites
