SPECIFICATION Spec
CONSTANTS
  Inputs <- Commands
  Values = {"positive", "zero"}
  Limit = 1
  MaxId = 2
  Choices <- FewChoices
  MaxLives = 2
  MaxCrashes = 1
INVARIANTS TypeOK LoadIsLimited AnswersGoHome
PROPERTIES ImplementsTwoAnswers CommandsFinish
CHECK_DEADLOCK FALSE
