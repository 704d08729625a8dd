SPECIFICATION Spec
CONSTANTS
  HooksOf <- MCHooksOf
  Outcomes <- MCOutcomes
  StepKinds = {"text", "tool", "delegate"}
  MaxTurns = 2
  MaxSteps = 2
  MaxDelegates = 1
  MaxExtras = 1
  MaxWire = 2
INVARIANTS
  TypeOK
  TurnScope
  SpansNest
  NoSpanLost
PROPERTIES
  ConsentIsUnanimous
  HooksAnswered
CHECK_DEADLOCK FALSE
