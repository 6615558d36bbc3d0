SPECIFICATION Spec
CONSTANTS
  Graphs <- AllGraphs
  Token = token
  Attempts = 2
  MaxNodes = 5
INVARIANTS
  LosersCancelled
  AnswersComeFromInputs
PROPERTIES
  SkippedWhenStopped
  SetOnce
  StoppedResolves
CHECK_DEADLOCK FALSE
