SPECIFICATION FairSpec
CONSTANTS
  Events = {e1}
  Targets = {tv, display}
  Flaky = {tv}
  Hung = {display}
  MaxAttempts = 2
  MaxSessions = 2
  None = None
INVARIANTS TypeOK OverlayHasEnd
PROPERTIES OverlayEnds CastSettles
CHECK_DEADLOCK FALSE
