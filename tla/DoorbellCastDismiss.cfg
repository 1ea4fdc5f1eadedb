SPECIFICATION Spec
CONSTANTS
  Events = {e1}
  Targets = {tv}
  Flaky = {tv}
  Hung = {}
  MaxAttempts = 2
  MaxSessions = 2
  None = None
INVARIANT DismissedStaysDown
CHECK_DEADLOCK FALSE
