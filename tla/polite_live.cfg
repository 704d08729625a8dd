SPECIFICATION FairSpec
CONSTANTS
  Callers = {c1}
  Nobody = Nobody
  Capacity = 6
  MaxTurns = 2
  MaxSteps = 2
  MaxCalls = 1
  Faults = {"turnError", "crash"}
  Habits = {"waitForIdle", "abandon"}

PROPERTIES
  SendReturns ReaderReleased TurnsFinish
CHECK_DEADLOCK FALSE
