SPECIFICATION FairSpec
CONSTANTS
  Callers = {c1}
  Nobody = Nobody
  Capacity = 6
  MaxTurns = 1
  MaxSteps = 1
  MaxCalls = 1
  Faults = {"crash", "badPrompt"}
  Habits = {"halt", "trigger", "close"}
INVARIANTS
  ToolCallsInHand ToolCallsRunOnce
PROPERTIES
  CloseReturns
CHECK_DEADLOCK FALSE
