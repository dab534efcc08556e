SPECIFICATION AttentionSpec
CONSTANTS
  Sessions = {claude, codex}
  Claude = {claude}
  None = None
  Hooks = {"Notification", "Stop", "PostToolUse"}
  Signals = {g1, g2}
  DedupeWindow = 1
  MinTurn = 1
  Lifetime = 1
  MaxTime = 2
  MaxRows = 4
SYMMETRY Alike
INVARIANTS SilenceIsEarned FinishedStaysIdle
CHECK_DEADLOCK FALSE
