CONSTANTS
    Answers <- MCAnswers
    MaxSteps = 4
    Attempts = 2
SPECIFICATION PlanSpec
INVARIANTS
    PlanTypeOK  RepairsAccounted
CHECK_DEADLOCK FALSE
