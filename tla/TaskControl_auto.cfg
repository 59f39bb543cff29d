SPECIFICATION FairSpec
CONSTANTS
  Runners = {r1, r2}
  Handlers = {h1, h2}
  MaxCalls = 2
  MaxSteps = 3
  AutoExplore = TRUE
  Decisions = {"allowed", "approval_required", "hard_limit_exceeded"}
  ConsoleOnly = FALSE
  LLMFaults = TRUE
  StartFaults = TRUE
PROPERTIES
  EveryRunEnds
