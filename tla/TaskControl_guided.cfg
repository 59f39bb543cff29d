SPECIFICATION Spec
CONSTANTS
  Runners = {r1, r2}
  Handlers = {h1, h2}
  MaxCalls = 3
  MaxSteps = 1
  AutoExplore = FALSE
  Decisions = {"allowed", "warning", "approval_required", "hard_limit_exceeded"}
  ConsoleOnly = FALSE
  LLMFaults = TRUE
  StartFaults = FALSE
SYMMETRY Interchangeable
INVARIANTS
  TypeOK
  NoPhantomRunning
  RequestsHeeded
  SucceededHasReport
  AnnouncedOutcomeKept
