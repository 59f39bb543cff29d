SPECIFICATION FairSpec
CONSTANTS
  open = open
  look = look
  pay = pay
  send = send
  wavering = wavering
  human = human
  Calls <- MCCalls
  Open = open
  Observing <- MCObserving
  Verdict <- MCVerdict
  AlwaysAsk = {human}
  Plans <- OneAsking
  Handlers = {h1, h2}
  MaxDecisions = 3
  MaxPages = 2
  ToolFaults = TRUE
  Patient = TRUE
INVARIANTS
  TypeOK
  NothingUnasked
  ToldTruly
PROPERTIES
  KeepsContract
  SuccessIsFinal
  ResumingEnds
