SPECIFICATION Spec
CONSTANTS
  MaxHistory = 3
  MaxReceived = 6
  MaxSends = 3
  MaxUsage = 2
  Habits = {"trigger", "clear"}
INVARIANTS
  TypeOK KeepsTheLatest CompactionsExact StartsSeparateTurns TurnUsageExact
CHECK_DEADLOCK FALSE
