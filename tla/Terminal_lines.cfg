\* Two terminals; a buffer of two characters and Enter, so that it gets full,
\* is edited, and is cut by a read of two; Ctrl-L once Ctrl is held.
SPECIFICATION FairSpec
CONSTANTS
  NumTerminals = 2
  Full = 2
  Keys = {"l", "tab", "backspace", "enter"}
  Commands = {"alt", "F1", "F2", "ctrl"}
  Requests = {2}
INVARIANTS
  TypeOK
  EchoMatches
PROPERTIES
  ReadGivesLine
  LinesReachReaders
