------------------------------ MODULE Console ------------------------------
(***************************************************************************)
(* putc, scroll_down, clear (lib.c), update_cursor (cursor.c),             *)
(* write_terminal, display_putc and terminal_switch (keyboard.c) on the    *)
(* screens of all terminals and the one cursor of the monitor.             *)
(*                                                                         *)
(* putc keeps the cursor in screen_x and screen_y of a terminal and runs   *)
(* with interrupts enabled when a program writes.  In the middle of it the *)
(* timer may give the CPU to another terminal, and keyboard_irq may echo a *)
(* key or clear the displayed screen, or display another one.  So the      *)
(* program's call is cut at its statements that move the cursor; the echo  *)
(* is a whole call of putc.  The cursor of the monitor is moved last, if   *)
(* the terminal is displayed, to a place computed before.  (Its two bytes  *)
(* are written as one.)                                                    *)
(*                                                                         *)
(* putc never looks whether its cursor is on the screen.  Memory is        *)
(* linear: column NUM_COLS is the next row's first cell, and behind the    *)
(* page that VIDEO maps come the pages in which terminals 0, 1, ... keep   *)
(* their screens while they are not displayed.                             *)
(***************************************************************************)
EXTENDS Integers, SequencesExt, FiniteSetsExt

CONSTANTS
  NumTerminals,         \* TERMINAL_SIZE (3)
  NUM_COLS, NUM_ROWS,   \* 80 and 25
  PAGE_CELLS,           \* cells of two bytes in a page of 4 KB (2048)
  Written,              \* the characters programs write: letters,
                        \* "newline", "backspace"
  Echoed,               \* what the user types meanwhile, or "clear" (Ctrl-L)
  MaxText               \* bound of the model: characters between two clears

ASSUME TerminalsAssumption == NumTerminals \in Nat \ {0}
ASSUME SizeAssumption == NUM_COLS \in Nat \ {0} /\ NUM_ROWS \in Nat \ {0}
ASSUME PageAssumption == PAGE_CELLS \in Nat /\ PAGE_CELLS >= NUM_COLS * NUM_ROWS
ASSUME MaxTextAssumption == MaxText \in Nat

Terminals == 0..(NumTerminals - 1)
Cols == 0..(NUM_COLS - 1)
Rows == 0..(NUM_ROWS - 1)

VARIABLES
  screen,          \* [Terminals -> [x, y, cells]]: where putc writes, and the
                   \* terminal's video memory
  size,            \* buffer_size of each terminal
  display, current,\* display_terminal and current_tid
  cursor,          \* where the monitor shows its cursor
  pc, pos,         \* each program's place in putc, and the argument of its
                   \* call of update_cursor
  text,            \* what was written and echoed since the last clear
  torn, above,     \* since then, a call of the program has been torn by the
                   \* keyboard; has been a backspace at a hidden origin
  spilled,         \* since then, a call for another terminal has written into
                   \* this one's page: its cursor was far below its screen
  tested,          \* the terminals that were on display at putc's test, in the
                   \* call their program is in
  stray            \* the cursor was last moved by a program whose terminal was
                   \* hidden between this test and its call of update_cursor

hidden == <<text, torn, above, spilled>>
vars == <<screen, size, display, current, cursor, pc, pos, hidden, tested, stray>>

Blank == [r \in Rows |-> [c \in Cols |-> " "]]
Cleared == [x |-> 0, y |-> 0, cells |-> Blank]

\* What update_cursor shows for a screen.
Place(s) == <<s.x, s.y>>

Init ==
  /\ screen = [t \in Terminals |-> Cleared]
  /\ size = [t \in Terminals |-> 0]
  /\ display = 0 /\ current = 0
  /\ cursor = Place(Cleared) /\ tested = {} /\ stray = FALSE
  /\ pc = [t \in Terminals |-> "idle"]
  /\ pos = [t \in Terminals |-> Place(Cleared)]
  /\ text = [t \in Terminals |-> <<>>]
  /\ torn = [t \in Terminals |-> FALSE] /\ above = torn /\ spilled = torn

-----------------------------------------------------------------------------

(***************************************************************************)
(* putc's test whether the program that runs is the one displayed.         *)
(***************************************************************************)
DisplayedAlways == TRUE
Displayed == display = current

(***************************************************************************)
(* putc for terminal t writes the k-th cell from VIDEO on: of t's own page *)
(* if k is in it; further up, of the page that some terminal u has for its *)
(* screen while it is not displayed (if it is, what is in that page is     *)
(* overwritten when it is hidden).  The last cells of a page, and what is  *)
(* below VIDEO, are never shown.                                           *)
(***************************************************************************)
Address(s) == NUM_COLS * s.y + s.x

Hits(t, k, u) ==
  LET page == k \div PAGE_CELLS IN
  /\ k % PAGE_CELLS < NUM_COLS * NUM_ROWS
  /\ IF page = 0 THEN u = t ELSE u = page - 1 /\ u # display

Put(s, n, c) == [s EXCEPT !.cells[n \div NUM_COLS][n % NUM_COLS] = c]

Poke(t, k, c) ==
  [u \in Terminals |->
     IF Hits(t, k, u) THEN Put(screen[u], k % PAGE_CELLS, c) ELSE screen[u]]

Spills(t, k) == [u \in Terminals |-> spilled[u] \/ (u # t /\ Hits(t, k, u))]

ScrollKeepsRow(s) ==
  [x |-> 0, y |-> NUM_ROWS - 1,
   cells |-> [r \in Rows |-> IF r + 1 \in Rows THEN s.cells[r + 1] ELSE s.cells[r]]]
Scroll(s) ==
  [x |-> 0, y |-> NUM_ROWS - 1,
   cells |-> [r \in Rows |-> IF r + 1 \in Rows THEN s.cells[r + 1] ELSE Blank[r]]]

AtOrigin(s) == s.x = 0 /\ s.y = 0

\* Backspace: to the end of the row above if need be, a blank, one to the left.
Back(s) == IF s.x = 0 THEN [s EXCEPT !.x = NUM_COLS, !.y = @ - 1] ELSE s
Left(s) == [s EXCEPT !.x = @ - 1]

Down(s) == [s EXCEPT !.x = 0, !.y = @ + 1]
Right(s) == [s EXCEPT !.x = @ + 1]
Wrap(s) == IF s.x >= NUM_COLS THEN [s EXCEPT !.x = @ % NUM_COLS, !.y = @ + 1] ELSE s
Bottom(s) == IF s.y = NUM_ROWS THEN Scroll(s) ELSE s

-----------------------------------------------------------------------------

(***************************************************************************)
(* What the history records of a character c for terminal t, and the bound *)
(* of the model, in which a backspace counts for two characters.           *)
(***************************************************************************)
Cost(c) == IF c = "backspace" THEN 2 ELSE 1
Used == MapThenSumSet(LAMBDA t : FoldSeq(LAMBDA c, n : n + Cost(c), 0, text[t]), Terminals)

Recorded(t, c) ==
  /\ Used + Cost(c) <= MaxText
  /\ text' = [text EXCEPT ![t] = Append(@, c)]
  /\ above' = [above EXCEPT ![t] =
       @ \/ (c = "backspace" /\ AtOrigin(screen[t]) /\ display # current)]

(***************************************************************************)
(* The running program's calls of putc.                                    *)
(***************************************************************************)
At(place) == pc[current] = place
Goto(place) == pc' = [pc EXCEPT ![current] = place]
Becomes(s) == screen' = [screen EXCEPT ![current] = s]
ShowsCursor(place) == cursor' = place /\ stray' = FALSE

\* The end of a call: with the cursor of the monitor, or without.
Ends(s) ==
  /\ Becomes(s)
  /\ tested' = IF display = current THEN tested \cup {current} ELSE tested
  /\ \/ Displayed /\ Goto("cursor") /\ pos' = [pos EXCEPT ![current] = Place(s)]
     \/ ~Displayed /\ Goto("idle") /\ UNCHANGED pos

WriteBackspace ==
  LET s == screen[current] IN
  /\ IF AtOrigin(s) /\ Displayed THEN Ends(s)
     ELSE Becomes(Back(s)) /\ Goto("erase") /\ UNCHANGED <<pos, tested>>
  /\ UNCHANGED spilled

WriteNewline ==
  /\ Becomes(Down(screen[current])) /\ Goto("bottom")
  /\ UNCHANGED <<pos, spilled, tested>>

WriteLetter(c) ==
  LET k == Address(screen[current]) IN
  /\ screen' = [Poke(current, k, c) EXCEPT ![current] = Right(@)]
  /\ spilled' = Spills(current, k)
  /\ Goto("wrap") /\ UNCHANGED <<pos, tested>>

Write(c) ==
  /\ At("idle") /\ Recorded(current, c)
  /\ CASE c = "backspace" -> WriteBackspace
       [] c = "newline" -> WriteNewline
       [] OTHER -> WriteLetter(c)
  /\ UNCHANGED <<size, display, current, cursor, torn, stray>>

StepErase ==
  LET k == Address(screen[current]) - 1 IN
  /\ At("erase") /\ Goto("left")
  /\ screen' = Poke(current, k, " ")
  /\ spilled' = Spills(current, k)
  /\ UNCHANGED <<size, display, current, cursor, pos, text, torn, above, tested, stray>>

StepLeft ==
  /\ At("left") /\ Ends(Left(screen[current]))
  /\ UNCHANGED <<size, display, current, cursor, hidden, stray>>

StepWrap ==
  /\ At("wrap") /\ Goto("bottom")
  /\ Becomes(Wrap(screen[current]))
  /\ UNCHANGED <<size, display, current, cursor, pos, hidden, tested, stray>>

StepBottom ==
  /\ At("bottom") /\ Ends(Bottom(screen[current]))
  /\ UNCHANGED <<size, display, current, cursor, hidden, stray>>

StepCursor ==
  /\ At("cursor") /\ Goto("idle")
  /\ cursor' = pos[current] /\ stray' = (current \in tested /\ display # current)
  /\ tested' = tested \ {current}
  /\ pos' = [pos EXCEPT ![current] = Place(Cleared)]
  /\ UNCHANGED <<screen, size, display, current, hidden>>

(***************************************************************************)
(* keyboard_irq: display_putc, clear, terminal_switch.  A backspace is     *)
(* echoed only if the user has typed something to delete.                  *)
(***************************************************************************)
Torn(t) == torn' = [torn EXCEPT ![t] = @ \/ pc[t] # "idle"]

\* A whole call of putc for the terminal on display.
EraseChar ==
  LET k == Address(Back(screen[display])) - 1 IN
  IF AtOrigin(screen[display]) /\ Displayed THEN UNCHANGED <<screen, spilled>>
  ELSE /\ screen' = [Poke(display, k, " ") EXCEPT ![display] = Left(Back(@))]
       /\ spilled' = Spills(display, k)

NewLine ==
  /\ screen' = [screen EXCEPT ![display] = Bottom(Down(@))]
  /\ UNCHANGED spilled

PutLetter(c) ==
  LET k == Address(screen[display]) IN
  /\ screen' = [Poke(display, k, c) EXCEPT ![display] = Bottom(Wrap(Right(@)))]
  /\ spilled' = Spills(display, k)

Putc(c) ==
  CASE c = "backspace" -> EraseChar
    [] c = "newline" -> NewLine
    [] OTHER -> PutLetter(c)

Echo(c) ==
  /\ Recorded(display, c)
  /\ c = "backspace" => size[display] > 0
  /\ size' = [size EXCEPT ![display] =
       CASE c = "backspace" -> @ - 1 [] c = "newline" -> 0 [] OTHER -> @ + 1]
  /\ Putc(c)
  /\ ShowsCursor(Place(screen'[display]))
  /\ Torn(display)
  /\ UNCHANGED <<display, current, pc, pos, tested>>

CtrlL ==
  /\ "clear" \in Echoed
  /\ screen' = [screen EXCEPT ![display] = Cleared]
  /\ size' = [size EXCEPT ![display] = 0]
  /\ ShowsCursor(Place(Cleared))
  /\ text' = [text EXCEPT ![display] = <<>>]
  /\ torn' = [torn EXCEPT ![display] = pc[display] # "idle"]
  /\ above' = [above EXCEPT ![display] = FALSE]
  /\ spilled' = [spilled EXCEPT ![display] = FALSE]
  /\ UNCHANGED <<display, current, pc, pos, tested>>

TerminalSwitch(t) ==
  /\ t # display
  /\ display' = t
  /\ ShowsCursor(Place(screen[t]))
  /\ UNCHANGED <<screen, size, current, pc, pos, hidden, tested>>

(***************************************************************************)
(* The timer gives the CPU to the next terminal.                           *)
(***************************************************************************)
Tick ==
  /\ current' = (current + 1) % NumTerminals
  /\ UNCHANGED <<screen, size, display, cursor, pc, pos, hidden, tested, stray>>

Next ==
  \/ \E c \in Written : Write(c)
  \/ StepErase \/ StepLeft \/ StepWrap \/ StepBottom \/ StepCursor
  \/ \E c \in Echoed \ {"clear"} : Echo(c)
  \/ CtrlL
  \/ \E t \in Terminals : TerminalSwitch(t)
  \/ Tick

Spec == Init /\ [][Next]_vars

-----------------------------------------------------------------------------

(***************************************************************************)
(* "scroll down the screen when reaching the bottom" (lib.c:514): between  *)
(* two characters of a program the next one has a place on its screen,     *)
(* displayed or not, and the monitor shows its cursor at the place of the  *)
(* terminal on display, whatever hidden programs print.  That is so as     *)
(* long as no key falls into a call of putc and no switch between its test *)
(* and its call of update_cursor; and above the first row it can only be   *)
(* after a backspace at the origin of a hidden terminal.                   *)
(***************************************************************************)
OnScreen(s) == s.x \in Cols /\ s.y \in Rows

CursorOnScreen ==
  /\ \A t \in Terminals : pc[t] = "idle" /\ ~torn[t] =>
       OnScreen(screen[t]) \/ (above[t] /\ screen[t].x \in Cols /\ screen[t].y < 0)
  /\ pc[display] = "idle" /\ ~torn[display] /\ ~stray => cursor = Place(screen[display])

(***************************************************************************)
(* The same place, without the condition on the keys (lib.c:211).          *)
(***************************************************************************)
CursorAlwaysOnScreen == \A t \in Terminals : pc[t] = "idle" => OnScreen(screen[t])

(***************************************************************************)
(* What letters and newlines leave on each screen, whoever printed them    *)
(* and whichever terminal was displayed or running: the text since the     *)
(* last clear, broken into lines at the newlines and after NUM_COLS        *)
(* letters, and of these lines the last NUM_ROWS.  A key that falls into a *)
(* call of putc spoils its own terminal (torn), and if its cursor has gone *)
(* far below the screen since, the terminals it then writes into           *)
(* (spilled); no other step does.                                          *)
(***************************************************************************)
Broken(lines, c) ==
  LET full == IF c = "newline" THEN lines
              ELSE Front(lines) \o << Append(Last(lines), c) >>
  IN IF c = "newline" \/ Len(Last(full)) = NUM_COLS THEN Append(full, <<>>) ELSE full

Layout(txt) ==
  LET upto[n \in 0..Len(txt)] ==
        IF n = 0 THEN << <<>> >> ELSE Broken(upto[n - 1], txt[n])
  IN upto[Len(txt)]

Lines(t) == Layout(text[t])
Shown(t) ==
  LET lines == Lines(t) IN
  SubSeq(lines, IF Len(lines) > NUM_ROWS THEN Len(lines) - NUM_ROWS + 1 ELSE 1, Len(lines))

ScreenShowsText ==
  \A t \in Terminals :
    pc[t] = "idle" /\ ~torn[t] /\ ~spilled[t] /\ ~Contains(text[t], "backspace") =>
      LET shown == Shown(t)
          CellOf(r, c) ==
            IF r < Len(shown) /\ c < Len(shown[r + 1]) THEN shown[r + 1][c + 1] ELSE " "
      IN /\ screen[t].cells = [r \in Rows |-> [c \in Cols |-> CellOf(r, c)]]
         /\ Place(screen[t]) = <<Len(Last(shown)), Len(shown) - 1>>

=============================================================================
