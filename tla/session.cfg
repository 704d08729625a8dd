SPECIFICATION Spec
CONSTANTS
  Texts = {"yes", "blank", "exit"}
  MaxLines = 2
  AskingTurns = {"prompt"}
  MaxCalls = 2
  MaxTriggers = 1
INVARIANTS
  TypeOK
  NothingOutlivesTheSession
  ApprovedByAYes
PROPERTIES
  CtrlDEndsTheSession
CHECK_DEADLOCK FALSE
