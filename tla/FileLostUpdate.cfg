SPECIFICATION Spec
CONSTANTS
    Ids = {a}
    Values = {u}
    Keys = {k}
    Captures = {latest}
    Absent = Absent
    Writers = {w1, w2}
    Ops <- MCUpsertAndIssue
    DiskFails = FALSE
    Restarts = FALSE
INVARIANTS NoLostUpdate
