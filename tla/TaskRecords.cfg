CONSTANTS
    MaxRuns = 3
    MaxRestarts = 2
    MaxRequests = 4
SPECIFICATION Spec
INVARIANTS TypeOK RowsAgree StatusIsReal
PROPERTY RestartKeeps
CHECK_DEADLOCK FALSE
