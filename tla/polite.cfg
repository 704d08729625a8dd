SPECIFICATION Spec
CONSTANTS
  Callers = {c1}
  Nobody = Nobody
  Capacity = 3
  MaxTurns = 3
  MaxSteps = 2
  MaxCalls = 2
  Faults = {"turnError"}
  Habits = {"waitForIdle", "abandon"}
INVARIANTS
  TypeOK IdleMeansAllQueued MarkerComesLast TurnIsolation NothingDiscarded EndsOnlyWhenEnded
PROPERTIES
  ImplementsTurnStream
CHECK_DEADLOCK FALSE
