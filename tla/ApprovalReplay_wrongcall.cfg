SPECIFICATION Spec
CONSTANTS
  open = open
  look = look
  pay = pay
  send = send
  wavering = wavering
  human = human
  Calls <- MCCalls
  Open = open
  Observing <- MCObserving
  Verdict <- MCVerdict
  AlwaysAsk = {human}
  Plans <- ThreeAsking
  Handlers = {h1}
  MaxDecisions = 4
  MaxPages = 5
  ToolFaults = FALSE
  Patient = FALSE
INVARIANTS ApprovedCallRuns
