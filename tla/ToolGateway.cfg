CONSTANTS
    Calls <- MCCalls
    Signs = {"none", "login", "blocking"}
    MaxSteps = 3
    MaxRuns = 2
    MaxDecisions = 2
    FormTask = TRUE
SPECIFICATION Spec
INVARIANTS TypeOK OnlyAdmittedRuns ApprovalsAnswerable
CHECK_DEADLOCK FALSE
