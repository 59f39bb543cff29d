CONSTANTS
    PromptSizes <- MCPromptSizes
    CompletionSizes <- MCCompletionSizes
    MaxCompletion = 1
    MaxCalls = 6
    PerCall = 2
    Soft = 1
    Approval = 2
    Hard = 4
    HardCompletion = 3
    SoftCost = 4
    ApprovalCost = 6
    HardCost = 12
    AutoCompaction = TRUE
    Retries = 1
    MaxUses = 2
    MaxClients = 2
    MaxRuns = 3
SPECIFICATION Spec
INVARIANTS TypeOK WithinLimits OverrideAdmitsOne
PROPERTY GrantHonoured
CHECK_DEADLOCK FALSE
