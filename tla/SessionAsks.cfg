CONSTANTS
  Questions = {q1, q2}
  Allowing = {q1}
  Modes = {"ask", "auto"}
  Parallel = FALSE
  LosesSync = TRUE
  None = None
SPECIFICATION FairSpec
INVARIANTS QuestionShown
PROPERTIES DecidedOnce ParkedEnds ShutdownEnds
CHECK_DEADLOCK FALSE
