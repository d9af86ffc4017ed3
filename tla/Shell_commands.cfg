\* Names of up to three characters, lines of up to six: longer names than a
\* directory entry holds, arguments cut at the fifth character, spaces anywhere.
SPECIFICATION ShellSpec
CONSTANTS
  BLOCK_SIZE = 2
  FILE_NAME = 3
  MAX_ARG_LENGTH = 5
  MAGIC_LEN = 3
  LoadSize = 8
  Letters = {"a", "b"}
  ExitWord <- MCExit
  MaxLength = 6
  ArgCounts = {0, 2, 3, 5}
  Statuses = {0, 1, 255}
  Disks <- MCDisks
INVARIANTS
  ArgumentsReachProgram
  RunsNamedProgram
  MessageTellsOutcome
