CONSTANTS
    MaxSteps = 3
    MaxRequests = 3
    Plans <- MCPlans
SPECIFICATION Spec
INVARIANTS TypeOK RequestsCost
PROPERTY EndsTruly
