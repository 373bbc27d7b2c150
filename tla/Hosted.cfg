SPECIFICATION Spec
CONSTANTS
  Specs <- SmallSpecs
  Routes <- AllRoutes
  Retries <- SomeRetries
  HasKey = TRUE
  Answers <- SmallAnswers
  MaxCalls = 2
INVARIANTS RetriesAreBounded
PROPERTIES AnswersOnce 
CHECK_DEADLOCK FALSE
