SPECIFICATION FairSpec
CONSTANTS
  Callers = {c1}
  Nobody = Nobody
  Capacity = 4
  MaxTurns = 2
  MaxSteps = 1
  MaxCalls = 0
  Faults = {}
  Habits = {}

PROPERTIES
  SendReturns
CHECK_DEADLOCK FALSE
