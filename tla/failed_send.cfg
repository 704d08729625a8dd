SPECIFICATION FairSpec
CONSTANTS
  Callers = {c1}
  Nobody = Nobody
  Capacity = 4
  MaxTurns = 2
  MaxSteps = 1
  MaxCalls = 0
  Faults = {"badPrompt"}
  Habits = {"waitForIdle"}

PROPERTIES
  SendReturns
CHECK_DEADLOCK FALSE
