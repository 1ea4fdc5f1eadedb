SPECIFICATION Spec
CONSTANTS
  MaxRestarts = 1
  MaxAttempts = 2
  MaxRunners = 2
  None = None
INVARIANT CrashIsRestarted
CHECK_DEADLOCK FALSE
