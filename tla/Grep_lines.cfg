\* A buffer of three bytes and all files of up to seven: lines that end before,
\* with and after the buffer, empty ones, ones with NULs, and a last one without a
\* newline.
SPECIFICATION Spec
CONSTANTS
  BUFSIZE = 3
  Letters = {"a", "b", "null"}
  MaxText = 7
  Patterns <- MCPatterns
  Garbage <- MCGarbage
INVARIANTS
  GrepFindsLines
PROPERTIES
  GrepEnds
CHECK_DEADLOCK FALSE
