SPECIFICATION FairSpec
CONSTANTS
  Callers = {c1}
  Nobody = Nobody
  Capacity = 1
  MaxTurns = 1
  MaxSteps = 1
  MaxCalls = 0
  Faults = {}
  Habits = {"close"}

PROPERTIES
  CloseReturns
CHECK_DEADLOCK FALSE
