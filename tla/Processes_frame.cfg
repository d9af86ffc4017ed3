SPECIFICATION Spec
CONSTANTS
  MaxPid = 3
  NumTerminals = 2
INVARIANTS
  NoFrameDestroyed
CHECK_DEADLOCK FALSE
