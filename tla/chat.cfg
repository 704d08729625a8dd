SPECIFICATION ChatFairSpec
CONSTANTS
  Callers = {c1, 1, 2}
  Walkers = {w1}
  Nobody = Nobody
  Capacity = 5
  MaxTurns = 2
  MaxSteps = 1
  MaxCalls = 0
  Faults = {"badPrompt"}
  Habits = {"waitForIdle", "abandon", "share", "halt"}
INVARIANTS
  ChatTypeOK ResponseIsItsTurn DrainedIsComplete OpenHoldsStream
PROPERTIES
  ChatReturns CursorsReturn
CHECK_DEADLOCK FALSE
