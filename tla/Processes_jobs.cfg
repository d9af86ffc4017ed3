\* Four pids for two terminals: children, waiting parents, a terminal without a
\* shell beside a chain of programs, and a pid table that fills up.
SPECIFICATION FairSpec
CONSTANTS
  MaxPid = 4
  NumTerminals = 2
INVARIANTS
  TypeOK
  ProcessForest
  PidsCounted
  OwnContext
  FramesKept
PROPERTIES
  ImplementsJobStacks
  EveryTerminalRuns
CHECK_DEADLOCK FALSE
