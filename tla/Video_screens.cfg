\* Four jobs on three terminals: children of children, one terminal displayed
\* and two not.
SPECIFICATION VideoSpec
CONSTANTS
  Jobs = {j1, j2, j3, j4}
  NumTerminals = 3
  Texts = {a, b}
SYMMETRY Exchanges
INVARIANTS
  VideoTypeOK
  KernelMapsRunning
  VidmapRemembered
  UserPageRight
PROPERTIES
  ImplementsScreens
