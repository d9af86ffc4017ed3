\* Two terminals, hence one displayed, running, both or neither.  Screens of two
\* columns and two rows: four characters fill one and scroll it, or take a torn
\* cursor out of its page, which has one cell more than the screen.
SPECIFICATION Spec
CONSTANTS
  NumTerminals = 2
  NUM_COLS = 2
  NUM_ROWS = 2
  PAGE_CELLS = 5
  Written = {"a", "newline", "backspace"}
  Echoed = {"b", "newline", "backspace", "clear"}
  MaxText = 4
CONSTRAINT OneTorn
INVARIANTS
  CursorOnScreen
  ScreenShowsText
