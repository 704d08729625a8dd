SPECIFICATION Spec
CONSTANTS
  MaxSteps = 2
  Sessions <- MCSessions
  Servers = {"srv"}
  QuestionSets <- MCQuestionSets
  ReplySets <- MCReplySets
  Options = 2
  NumHooks = 2
  MaxRepeats = 1
INVARIANTS
  TypeOK NoStrayAnswer VerdictIsEvaluates EvaluateAsDocumented AnswersLineUp
PROPERTIES
  EveryRequestAnswered
CHECK_DEADLOCK FALSE
