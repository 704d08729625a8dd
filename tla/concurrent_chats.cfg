SPECIFICATION ChatSpec
CONSTANTS
  Callers = {c1, c2, 1, 2}
  Walkers = {}
  Nobody = Nobody
  Capacity = 5
  MaxTurns = 2
  MaxSteps = 1
  MaxCalls = 0
  Faults = {}
  Habits = {"waitForIdle", "abandon", "share"}
INVARIANTS
  ResponseIsItsTurn
CHECK_DEADLOCK FALSE
