SPECIFICATION Spec
CONSTANTS
  NumTerminals = 1
  NUM_COLS = 2
  NUM_ROWS = 3
  PAGE_CELLS = 8
  Written = {"a", "newline"}
  Echoed = {"a", "newline"}
  MaxText = 6
INVARIANTS
  CursorAlwaysOnScreen
