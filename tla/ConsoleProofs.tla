---------------------------- MODULE ConsoleProofs ----------------------------
(***************************************************************************)
(* Where the cursors are and what the screens show, for screens of every   *)
(* size, every number of terminals and texts of every length.              *)
(*                                                                         *)
(* CursorOnScreen speaks of programs between two characters.  The proof    *)
(* follows them through a call of putc: before a backspace's blank and     *)
(* after a letter x may be one past the last column, after the wrap y may  *)
(* be one past the last row, and what update_cursor is about to show is    *)
(* the place on the screen (PlaceOK).  A key that falls into the call      *)
(* breaks all of it, which is what torn records.  What a call writes into  *)
(* the pages of others does not touch their cursors (PokePlace).           *)
(*                                                                         *)
(* ScreenShowsText needs the lines of a text as a recursion (Layout), the  *)
(* function that it defines, which exists by induction over the text, the  *)
(* cell that a linear address means (PokeHere), and what putc does to a    *)
(* screen that shows some lines (PutcShows).  In the middle of a call the  *)
(* invariant speaks of the screen that the rest of the call, the wrap and  *)
(* the scroll, will leave (TextShown).                                     *)
(***************************************************************************)
EXTENDS Console, SequenceTheorems, WellFoundedInduction, TLAPS

Characters == Written \cup Echoed \cup {" "}
Screens == [x : Int, y : Int, cells : [Rows -> [Cols -> Characters]]]

VarsTyped ==
  /\ screen \in [Terminals -> Screens]
  /\ display \in Terminals /\ current \in Terminals
  /\ pc \in [Terminals -> {"idle", "erase", "left", "wrap", "bottom", "cursor"}]
  /\ pos \in [Terminals -> Int \X Int]
  /\ torn \in [Terminals -> BOOLEAN] /\ above \in [Terminals -> BOOLEAN]

\* Where a program in place p of putc has the cursor; up: it may be above.
Reaches(p, s, up) ==
  /\ s.x \in IF p \in {"erase", "left", "wrap"} THEN 1..NUM_COLS ELSE Cols
  /\ s.y <= IF p = "bottom" THEN NUM_ROWS ELSE NUM_ROWS - 1
  /\ s.y >= 0 \/ up

PlaceOK(t) ==
  ~torn[t] =>
    /\ Reaches(pc[t], screen[t], above[t])
    /\ pc[t] = "cursor" => pos[t] = Place(screen[t])

CursorShown ==
  pc[display] = "idle" /\ ~torn[display] /\ ~stray => cursor = Place(screen[display])

\* Who is about to move the cursor has been found on display.
WasTested == \A t \in Terminals : pc[t] = "cursor" => t \in tested

CInv == VarsTyped /\ (\A t \in Terminals : PlaceOK(t)) /\ CursorShown /\ WasTested

-----------------------------------------------------------------------------

(***************************************************************************)
(* What the parts of putc do to the cursor's place.                        *)
(***************************************************************************)
LEMMA PutPlace ==
  ASSUME NEW s \in Screens, NEW n, NEW c \in Characters
  PROVE  Put(s, n, c) \in Screens /\ Put(s, n, c).x = s.x /\ Put(s, n, c).y = s.y
<1>1. PICK x, y : x = n % NUM_COLS /\ y = n \div NUM_COLS
  OBVIOUS
<1>2. Put(s, n, c) = [s EXCEPT !.cells[y][x] = c]
  BY <1>1 DEF Put
<1>3. PICK cells : cells = [s.cells EXCEPT ![y][x] = c]
  OBVIOUS
<1>4. Put(s, n, c) = [s EXCEPT !.cells = cells]
  BY <1>2, <1>3 DEF Screens
<1>5. cells \in [Rows -> [Cols -> Characters]]
  <2>1. s.cells \in [Rows -> [Cols -> Characters]]
    BY DEF Screens
  <2>2. PICK row : row = [s.cells[y] EXCEPT ![x] = c]
    OBVIOUS
  <2>3. cells = [s.cells EXCEPT ![y] = row]
    BY <1>3, <2>2
  <2>4. y \in Rows => row \in [Cols -> Characters]
    BY <2>1, <2>2
  <2>5. QED
    BY <2>1, <2>3, <2>4
<1>6. QED
  BY <1>4, <1>5 DEF Screens

\* Memory written for terminal t: no cursor moves, and the pages of others
\* change only if the history says so.
LEMMA PokePlace ==
  ASSUME screen \in [Terminals -> Screens],
         NEW t, NEW k, NEW c \in Characters
  PROVE  /\ Poke(t, k, c) \in [Terminals -> Screens]
         /\ \A u \in Terminals : /\ Poke(t, k, c)[u].x = screen[u].x
                                 /\ Poke(t, k, c)[u].y = screen[u].y
         /\ \A u \in Terminals : u # t /\ ~Spills(t, k)[u] =>
              Poke(t, k, c)[u] = screen[u] /\ ~spilled[u]
         /\ t \in Terminals => Spills(t, k)[t] = (spilled[t] \/ FALSE)
<1>1. PICK n : n = k % PAGE_CELLS
  OBVIOUS
<1>2. \A u \in Terminals :
        Poke(t, k, c)[u] = IF Hits(t, k, u) THEN Put(screen[u], n, c) ELSE screen[u]
  BY <1>1 DEF Poke
<1>3. \A u \in Terminals : /\ screen[u] \in Screens /\ Put(screen[u], n, c) \in Screens
                           /\ Put(screen[u], n, c).x = screen[u].x
                           /\ Put(screen[u], n, c).y = screen[u].y
  BY PutPlace
<1>4. Poke(t, k, c) \in [Terminals -> Screens]
  <2>1. PICK f : f = Poke(t, k, c)
    OBVIOUS
  <2>2. f = [u \in Terminals |-> f[u]]
    BY <2>1 DEF Poke
  <2>3. \A u \in Terminals : f[u] \in Screens
    BY <1>2, <1>3, <2>1
  <2>4. QED
    BY <2>1, <2>2, <2>3
<1>5. \A u \in Terminals : Spills(t, k)[u] = (spilled[u] \/ (u # t /\ Hits(t, k, u)))
  BY DEF Spills
<1>6. QED
  BY <1>2, <1>3, <1>4, <1>5

LEMMA ScrollPlace ==
  ASSUME NEW s \in Screens
  PROVE  Scroll(s) \in Screens /\ Scroll(s).x = 0 /\ Scroll(s).y = NUM_ROWS - 1
<1>. DEFINE kept == [r \in Rows |-> IF r + 1 \in Rows THEN s.cells[r + 1] ELSE Blank[r]]
<1>1. s.cells \in [Rows -> [Cols -> Characters]]
  BY DEF Screens
<1>2. Blank \in [Rows -> [Cols -> Characters]]
  BY DEF Blank, Characters
<1>3. kept \in [Rows -> [Cols -> Characters]]
  BY <1>1, <1>2
<1>4. 0 \in Int /\ NUM_ROWS - 1 \in Int
  BY SizeAssumption
<1>5. Scroll(s) = [x |-> 0, y |-> NUM_ROWS - 1, cells |-> kept]
  BY DEF Scroll
<1>. HIDE DEF kept
<1>6. QED
  BY <1>3, <1>4, <1>5 DEF Screens

LEMMA ClearedPlace ==
  Cleared \in Screens /\ Cleared.x = 0 /\ Cleared.y = 0
BY DEF Cleared, Screens, Blank, Characters

LEMMA DownPlace ==
  ASSUME NEW s \in Screens
  PROVE  Down(s) \in Screens /\ Down(s).x = 0 /\ Down(s).y = s.y + 1
<1>. DEFINE x == 0
            y == s.y + 1
<1>1. x \in Int /\ y \in Int
  BY DEF Screens
<1>2. Down(s) = [s EXCEPT !.x = x, !.y = y]
  BY DEF Down, Screens
<1>. HIDE DEF x, y
<1>3. Down(s) \in Screens /\ Down(s).x = x /\ Down(s).y = y
  BY <1>1, <1>2 DEF Screens
<1>4. QED
  BY <1>3 DEF x, y

LEMMA RightPlace ==
  ASSUME NEW s \in Screens
  PROVE  Right(s) \in Screens /\ Right(s).x = s.x + 1 /\ Right(s).y = s.y
<1>1. s.x + 1 \in Int
  BY DEF Screens
<1>2. QED
  BY <1>1 DEF Right, Screens

LEMMA WrapPlace ==
  ASSUME NEW s \in Screens
  PROVE  /\ Wrap(s) \in Screens
         /\ s.x < NUM_COLS => Wrap(s) = s
         /\ s.x = NUM_COLS => Wrap(s).x = 0 /\ Wrap(s).y = s.y + 1
<1>1. s.x \in Int /\ s.y + 1 \in Int
  BY DEF Screens
<1>2. s.x % NUM_COLS \in Int /\ NUM_COLS % NUM_COLS = 0 /\ NUM_COLS \in Int
  BY <1>1, SizeAssumption
<1>. DEFINE m == s.x % NUM_COLS
            w == [s EXCEPT !.x = m, !.y = s.y + 1]
<1>3. w \in Screens /\ w.x = m /\ w.y = s.y + 1
  <2>. HIDE DEF m
  <2>1. m \in Int
    BY <1>2 DEF m
  <2>2. QED
    BY <1>1, <2>1 DEF Screens
<1>4. Wrap(s) = IF s.x >= NUM_COLS THEN w ELSE s
  BY DEF Wrap
<1>. HIDE DEF w
<1>5. s.x = NUM_COLS => m = 0
  BY <1>2
<1>. HIDE DEF m
<1>6. QED
  BY <1>1, <1>2, <1>3, <1>4, <1>5

LEMMA BottomPlace ==
  ASSUME NEW s \in Screens
  PROVE  /\ Bottom(s) \in Screens
         /\ s.y = NUM_ROWS => Bottom(s).x = 0 /\ Bottom(s).y = NUM_ROWS - 1
         /\ s.y # NUM_ROWS => Bottom(s) = s
BY ScrollPlace DEF Bottom

LEMMA BackPlace ==
  ASSUME NEW s \in Screens
  PROVE  /\ Back(s) \in Screens
         /\ Back(s).x = IF s.x = 0 THEN NUM_COLS ELSE s.x
         /\ Back(s).y = IF s.x = 0 THEN s.y - 1 ELSE s.y
<1>1. NUM_COLS \in Int /\ s.y - 1 \in Int
  BY SizeAssumption DEF Screens
<1>2. PICK y \in Int : y = s.y - 1
  BY <1>1
<1>3. Back(s) = IF s.x = 0 THEN [s EXCEPT !.x = NUM_COLS, !.y = y] ELSE s
  BY <1>2 DEF Back, Screens
<1>4. QED
  BY <1>1, <1>2, <1>3 DEF Screens

LEMMA LeftPlace ==
  ASSUME NEW s \in Screens
  PROVE  Left(s) \in Screens /\ Left(s).x = s.x - 1 /\ Left(s).y = s.y
<1>1. s.x - 1 \in Int
  BY DEF Screens
<1>2. QED
  BY <1>1 DEF Left, Screens

(***************************************************************************)
(* From place to place of putc.                                            *)
(***************************************************************************)
LEMMA ScreenTypes ==
  ASSUME NEW s \in Screens
  PROVE  s.x \in Int /\ s.y \in Int
BY DEF Screens

LEMMA DownReaches ==
  ASSUME NEW s \in Screens, NEW up, Reaches("idle", s, up)
  PROVE  Reaches("bottom", Down(s), up)
<1>1. 0 \in Cols
  BY SizeAssumption DEF Cols
<1>2. QED
  BY <1>1, ScreenTypes, DownPlace, SizeAssumption DEF Reaches

LEMMA RightReaches ==
  ASSUME NEW s \in Screens, NEW up, Reaches("idle", s, up)
  PROVE  Reaches("wrap", Right(s), up)
<1>1. s.x + 1 \in 1..NUM_COLS
  BY SizeAssumption DEF Reaches, Cols
<1>2. QED
  BY <1>1, RightPlace DEF Reaches

LEMMA WrapReaches ==
  ASSUME NEW s \in Screens, NEW up, Reaches("wrap", s, up)
  PROVE  Reaches("bottom", Wrap(s), up)
<1>1. 0 \in Cols /\ \A n \in 1..NUM_COLS : n < NUM_COLS => n \in Cols
  BY SizeAssumption DEF Cols
<1>2. s.x \in 1..NUM_COLS /\ (s.x < NUM_COLS \/ s.x = NUM_COLS)
  BY SizeAssumption DEF Reaches
<1>3. QED
  BY <1>1, <1>2, ScreenTypes, WrapPlace, SizeAssumption DEF Reaches

LEMMA BottomReaches ==
  ASSUME NEW s \in Screens, NEW up, Reaches("bottom", s, up)
  PROVE  Reaches("idle", Bottom(s), up)
<1>1. 0 \in Cols
  BY SizeAssumption DEF Cols
<1>2. QED
  BY <1>1, ScreenTypes, BottomPlace, SizeAssumption DEF Reaches

LEMMA BackReaches ==
  ASSUME NEW s \in Screens, NEW up, Reaches("idle", s, up),
         ~(AtOrigin(s) /\ Displayed)
  PROVE  Reaches("erase", Back(s), up \/ (AtOrigin(s) /\ display # current))
<1>1. NUM_COLS \in 1..NUM_COLS /\ \A n \in Cols : n # 0 => n \in 1..NUM_COLS
  BY SizeAssumption DEF Cols
<1>2. s.x \in Cols /\ s.y \in Int /\ s.y <= NUM_ROWS - 1 /\ (s.y >= 0 \/ up)
  BY ScreenTypes DEF Reaches
<1>3. Back(s).x \in 1..NUM_COLS
  BY <1>1, <1>2, BackPlace
<1>4. Back(s).y <= NUM_ROWS - 1
  BY <1>2, BackPlace, SizeAssumption
<1>5. Back(s).y >= 0 \/ up \/ (AtOrigin(s) /\ display # current)
  BY <1>2, BackPlace DEF AtOrigin, Displayed
<1>6. QED
  BY <1>3, <1>4, <1>5 DEF Reaches

LEMMA LeftReaches ==
  ASSUME NEW s \in Screens, NEW up, Reaches("left", s, up)
  PROVE  Reaches("idle", Left(s), up)
<1>1. s.x - 1 \in Cols
  BY SizeAssumption DEF Reaches, Cols
<1>2. QED
  BY <1>1, LeftPlace, SizeAssumption DEF Reaches

-----------------------------------------------------------------------------

(***************************************************************************)
(* At the start all screens are clear.                                     *)
(***************************************************************************)
LEMMA ConsoleInit ==
  ASSUME Init
  PROVE  CInv
<1>1. 0 \in Terminals
  BY TerminalsAssumption DEF Terminals
<1>2. Place(Cleared) \in Int \X Int
  BY ClearedPlace DEF Place
<1>3. VarsTyped
  BY <1>1, <1>2, ClearedPlace DEF Init, VarsTyped
<1>4. Reaches("idle", Cleared, FALSE)
  BY ClearedPlace, SizeAssumption DEF Reaches, Cols
<1>5. \A t \in Terminals : PlaceOK(t)
  BY <1>4 DEF Init, PlaceOK
<1>6. CursorShown /\ WasTested
  BY <1>1 DEF Init, CursorShown, WasTested
<1>7. QED
  BY <1>3, <1>5, <1>6 DEF CInv

(***************************************************************************)
(* A terminal whose cursor and call stay as they are.                      *)
(***************************************************************************)
LEMMA OthersStay ==
  ASSUME NEW t \in Terminals, PlaceOK(t),
         screen'[t].x = screen[t].x, screen'[t].y = screen[t].y,
         pc'[t] = pc[t], pos'[t] = pos[t],
         torn'[t] = torn[t], above'[t] = above[t]
  PROVE  PlaceOK(t)'
BY DEF PlaceOK, Reaches, Place

(***************************************************************************)
(* The steps of a program inside putc.  A call that the keyboard has torn  *)
(* stays torn until the screen is cleared.  First a step to place p in the *)
(* middle of the call, then one that ends it.                              *)
(***************************************************************************)
Goes(p) ==
  /\ pc' = [pc EXCEPT ![current] = p]
  /\ UNCHANGED <<display, current, cursor, pos, torn, tested, stray>>

LEMMA GoesInv ==
  ASSUME CInv, NEW p \in {"erase", "left", "wrap", "bottom"}, Goes(p),
         NEW up \in BOOLEAN, above' = [above EXCEPT ![current] = up],
         screen' \in [Terminals -> Screens],
         \A u \in Terminals \ {current} :
           screen'[u].x = screen[u].x /\ screen'[u].y = screen[u].y,
         ~torn[current] => Reaches(p, screen'[current], up)
  PROVE  CInv'
<1>1. /\ VarsTyped /\ CursorShown /\ WasTested /\ current \in Terminals /\ display \in Terminals
      /\ \A t \in Terminals : PlaceOK(t)
  BY DEF CInv, VarsTyped
<1>2. /\ pc' = [pc EXCEPT ![current] = p]
      /\ UNCHANGED <<display, current, cursor, pos, torn, tested, stray>>
  BY DEF Goes
<1>3. VarsTyped'
  BY <1>1, <1>2 DEF VarsTyped
<1>4. ASSUME NEW t \in Terminals
      PROVE  PlaceOK(t)'
  <2>1. CASE t # current
    BY <1>1, <1>2, <2>1, OthersStay DEF VarsTyped
  <2>2. CASE t = current
    <3>1. pc'[t] = p /\ torn'[t] = torn[t] /\ above'[t] = up
      BY <1>1, <1>2, <2>2 DEF VarsTyped
    <3>2. QED
      BY <2>2, <3>1 DEF PlaceOK
  <2>3. QED
    BY <2>1, <2>2
<1>5. CursorShown'
  <2>1. CASE display = current
    <3>1. pc'[display'] # "idle"
      BY <1>1, <1>2, <2>1 DEF VarsTyped
    <3>2. QED
      BY <3>1 DEF CursorShown
  <2>2. CASE display # current
    <3>1. Place(screen'[display]) = Place(screen[display]) /\ pc'[display] = pc[display]
      BY <1>1, <1>2, <2>2 DEF Place, VarsTyped
    <3>2. QED
      BY <1>1, <1>2, <3>1 DEF CursorShown
  <2>3. QED
    BY <2>1, <2>2
<1>6. WasTested'
  BY <1>1, <1>2 DEF WasTested, VarsTyped
<1>7. QED
  BY <1>3, <1>4, <1>5, <1>6 DEF CInv

LEMMA EndsInv ==
  ASSUME CInv, NEW s \in Screens, Ends(s),
         NEW up \in BOOLEAN, above' = [above EXCEPT ![current] = up],
         UNCHANGED <<display, current, cursor, torn, stray>>,
         ~torn[current] => Reaches("idle", s, up)
  PROVE  CInv'
<1>. DEFINE p2 == IF display = current THEN "cursor" ELSE "idle"
            c2 == IF display = current THEN Place(s) ELSE pos[current]
<1>1. /\ VarsTyped /\ CursorShown /\ WasTested /\ current \in Terminals /\ display \in Terminals
      /\ \A t \in Terminals : PlaceOK(t)
  BY DEF CInv, VarsTyped
<1>2. /\ screen' = [screen EXCEPT ![current] = s]
      /\ pc' = [pc EXCEPT ![current] = p2]
      /\ pos' = [pos EXCEPT ![current] = c2]
      /\ tested' = IF display = current THEN tested \cup {current} ELSE tested
  BY <1>1 DEF Ends, Becomes, Goto, Displayed, VarsTyped
<1>3. VarsTyped'
  <2>1. c2 \in Int \X Int
    BY <1>1, ScreenTypes DEF VarsTyped, Place
  <2>2. p2 \in {"idle", "cursor"}
    OBVIOUS
  <2>. HIDE DEF c2, p2
  <2>3. QED
    BY <1>1, <1>2, <2>1, <2>2 DEF VarsTyped
<1>4. ASSUME NEW t \in Terminals
      PROVE  PlaceOK(t)'
  <2>1. CASE t # current
    <3>. HIDE DEF c2, p2
    <3>1. QED
      BY <1>1, <1>2, <2>1, OthersStay DEF VarsTyped
  <2>2. CASE t = current
    <3>1. /\ screen'[t] = s /\ pc'[t] = p2 /\ pos'[t] = c2
          /\ torn'[t] = torn[t] /\ above'[t] = up
      <4>. HIDE DEF c2, p2
      <4>1. QED
        BY <1>1, <1>2, <2>2 DEF VarsTyped
    <3>2. ~torn[t] => Reaches(p2, s, up)
      BY <2>2 DEF Reaches
    <3>3. p2 = "cursor" => c2 = Place(s)
      OBVIOUS
    <3>4. QED
      BY <3>1, <3>2, <3>3 DEF PlaceOK
  <2>3. QED
    BY <2>1, <2>2
<1>5. CursorShown'
  <2>1. CASE display = current
    <3>1. pc'[display'] = "cursor"
      BY <1>1, <1>2, <2>1 DEF VarsTyped
    <3>2. QED
      BY <3>1 DEF CursorShown
  <2>2. CASE display # current
    <3>. HIDE DEF c2, p2
    <3>1. screen'[display] = screen[display] /\ pc'[display] = pc[display]
      BY <1>1, <1>2, <2>2 DEF VarsTyped
    <3>2. QED
      BY <1>1, <3>1 DEF CursorShown
  <2>3. QED
    BY <2>1, <2>2
<1>6. WasTested'
  <2>1. ASSUME NEW t \in Terminals, pc'[t] = "cursor"
        PROVE  t \in tested'
    <3>1. CASE t # current
      <4>. HIDE DEF p2
      <4>1. pc[t] = "cursor"
        BY <1>1, <1>2, <2>1, <3>1 DEF VarsTyped
      <4>2. QED
        BY <1>1, <1>2, <4>1 DEF WasTested
    <3>2. CASE t = current
      <4>1. p2 = "cursor"
        <5>. HIDE DEF p2
        <5>1. QED
          BY <1>1, <1>2, <2>1, <3>2 DEF VarsTyped
      <4>2. QED
        BY <1>2, <3>2, <4>1
    <3>3. QED
      BY <3>1, <3>2
  <2>2. QED
    BY <2>1 DEF WasTested
<1>7. QED
  BY <1>3, <1>4, <1>5, <1>6 DEF CInv

LEMMA WriteInv ==
  ASSUME CInv, NEW c \in Written, Write(c)
  PROVE  CInv'
<1>1. /\ screen \in [Terminals -> Screens] /\ current \in Terminals
      /\ above \in [Terminals -> BOOLEAN]
      /\ c \in Characters /\ pc[current] = "idle"
      /\ UNCHANGED <<display, current, cursor, torn, stray>>
  BY DEF CInv, VarsTyped, Write, At, Characters
<1>2. PICK s \in Screens : s = screen[current]
  BY <1>1
<1>3. PICK up \in BOOLEAN :
        up = (above[current] \/ (c = "backspace" /\ AtOrigin(s) /\ display # current))
  OBVIOUS
<1>4. above' = [above EXCEPT ![current] = up]
  BY <1>2, <1>3 DEF Write, Recorded
<1>5. ~torn[current] => Reaches("idle", s, above[current]) /\ Reaches("idle", s, up)
  BY <1>1, <1>2, <1>3 DEF CInv, PlaceOK, Reaches
<1>6. CASE c = "backspace"
  <2>1. WriteBackspace
    BY <1>6 DEF Write
  <2>2. CASE AtOrigin(s) /\ Displayed
    BY <1>1, <1>2, <1>4, <1>5, <2>1, <2>2, EndsInv DEF WriteBackspace
  <2>3. CASE ~(AtOrigin(s) /\ Displayed)
    <3>1. screen' = [screen EXCEPT ![current] = Back(s)] /\ Goes("erase")
      BY <1>1, <1>2, <2>1, <2>3 DEF WriteBackspace, Becomes, Goto, Goes
    <3>2. Back(s) \in Screens
      BY BackPlace
    <3>3. /\ screen' \in [Terminals -> Screens] /\ screen'[current] = Back(s)
          /\ \A u \in Terminals \ {current} : screen'[u] = screen[u]
      BY <1>1, <3>1, <3>2
    <3>4. ~torn[current] => Reaches("erase", Back(s), up)
      BY <1>3, <1>5, <1>6, <2>3, BackReaches
    <3>5. QED
      BY <1>4, <3>1, <3>3, <3>4, GoesInv
  <2>4. QED
    BY <2>2, <2>3
<1>7. CASE c = "newline"
  <2>1. WriteNewline
    BY <1>7 DEF Write
  <2>2. screen' = [screen EXCEPT ![current] = Down(s)] /\ Goes("bottom")
    BY <1>1, <1>2, <2>1 DEF WriteNewline, Becomes, Goto, Goes
  <2>3. Down(s) \in Screens
    BY DownPlace
  <2>4. /\ screen' \in [Terminals -> Screens] /\ screen'[current] = Down(s)
        /\ \A u \in Terminals \ {current} : screen'[u] = screen[u]
    BY <1>1, <2>2, <2>3
  <2>5. ~torn[current] => Reaches("bottom", Down(s), up)
    BY <1>5, DownReaches
  <2>6. QED
    BY <1>4, <2>2, <2>4, <2>5, GoesInv
<1>8. CASE c \notin {"backspace", "newline"}
  <2>1. WriteLetter(c)
    BY <1>8 DEF Write
  <2>2. PICK poked : poked = Poke(current, Address(s), c)
    OBVIOUS
  <2>3. /\ poked \in [Terminals -> Screens]
        /\ \A u \in Terminals : poked[u].x = screen[u].x /\ poked[u].y = screen[u].y
    BY <1>1, <2>2, PokePlace
  <2>4. PICK p \in Screens : p = poked[current]
    BY <1>1, <2>3
  <2>5. screen' = [poked EXCEPT ![current] = Right(p)] /\ Goes("wrap")
    BY <1>1, <1>2, <2>1, <2>2, <2>4 DEF WriteLetter, Goto, Goes
  <2>6. Right(p) \in Screens
    BY RightPlace
  <2>7. /\ screen' \in [Terminals -> Screens] /\ screen'[current] = Right(p)
        /\ \A u \in Terminals \ {current} : screen'[u] = poked[u]
    BY <1>1, <2>3, <2>5, <2>6
  <2>8. ~torn[current] => Reaches("idle", p, up)
    BY <1>1, <1>2, <1>5, <2>3, <2>4 DEF Reaches
  <2>9. ~torn[current] => Reaches("wrap", Right(p), up)
    BY <2>8, RightReaches
  <2>10. QED
    BY <1>4, <2>3, <2>5, <2>7, <2>9, GoesInv
<1>9. QED
  BY <1>6, <1>7, <1>8

LEMMA StepEraseInv ==
  ASSUME CInv, StepErase
  PROVE  CInv'
<1>1. /\ screen \in [Terminals -> Screens] /\ current \in Terminals
      /\ above \in [Terminals -> BOOLEAN] /\ pc[current] = "erase"
  BY DEF CInv, VarsTyped, StepErase, At
<1>2. PICK k : k = Address(screen[current]) - 1
  OBVIOUS
<1>3. screen' = Poke(current, k, " ") /\ Goes("left")
  BY <1>2 DEF StepErase, Goto, Goes
<1>4. /\ screen' \in [Terminals -> Screens]
      /\ \A u \in Terminals : screen'[u].x = screen[u].x /\ screen'[u].y = screen[u].y
  <2>1. PICK b \in Characters : b = " "
    BY DEF Characters
  <2>2. PICK poked : poked = Poke(current, k, b)
    OBVIOUS
  <2>3. /\ poked \in [Terminals -> Screens]
        /\ \A u \in Terminals : poked[u].x = screen[u].x /\ poked[u].y = screen[u].y
    BY <1>1, <2>2, PokePlace
  <2>4. QED
    BY <1>3, <2>1, <2>2, <2>3
<1>5. PICK up \in BOOLEAN : up = above[current]
  BY <1>1
<1>6. above' = [above EXCEPT ![current] = up]
  BY <1>1, <1>5 DEF StepErase
<1>7. ~torn[current] => Reaches("left", screen'[current], up)
  BY <1>1, <1>4, <1>5 DEF CInv, PlaceOK, Reaches
<1>8. QED
  BY <1>3, <1>4, <1>6, <1>7, GoesInv

LEMMA StepLeftInv ==
  ASSUME CInv, StepLeft
  PROVE  CInv'
<1>1. /\ screen[current] \in Screens /\ current \in Terminals
      /\ above \in [Terminals -> BOOLEAN] /\ pc[current] = "left"
  BY DEF CInv, VarsTyped, StepLeft, At
<1>2. PICK up \in BOOLEAN : up = above[current]
  BY <1>1
<1>3. above' = [above EXCEPT ![current] = up]
  BY <1>1, <1>2 DEF StepLeft, hidden
<1>4. Left(screen[current]) \in Screens
  BY <1>1, LeftPlace
<1>5. ~torn[current] => Reaches("idle", Left(screen[current]), up)
  BY <1>1, <1>2, LeftReaches DEF CInv, PlaceOK
<1>6. QED
  BY <1>3, <1>4, <1>5, EndsInv DEF StepLeft, hidden

LEMMA StepWrapInv ==
  ASSUME CInv, StepWrap
  PROVE  CInv'
<1>1. /\ screen \in [Terminals -> Screens] /\ current \in Terminals
      /\ above \in [Terminals -> BOOLEAN] /\ pc[current] = "wrap"
  BY DEF CInv, VarsTyped, StepWrap, At
<1>2. PICK up \in BOOLEAN : up = above[current]
  BY <1>1
<1>3. above' = [above EXCEPT ![current] = up]
  BY <1>1, <1>2 DEF StepWrap, hidden
<1>4. PICK w \in Screens : w = Wrap(screen[current])
  BY <1>1, WrapPlace
<1>5. screen' = [screen EXCEPT ![current] = w] /\ Goes("bottom")
  BY <1>4 DEF StepWrap, Becomes, Goto, Goes, hidden
<1>6. /\ screen' \in [Terminals -> Screens] /\ screen'[current] = w
      /\ \A u \in Terminals \ {current} : screen'[u] = screen[u]
  BY <1>1, <1>5
<1>7. ~torn[current] => Reaches("bottom", w, up)
  BY <1>1, <1>2, <1>4, WrapReaches DEF CInv, PlaceOK
<1>8. QED
  BY <1>3, <1>5, <1>6, <1>7, GoesInv

LEMMA StepBottomInv ==
  ASSUME CInv, StepBottom
  PROVE  CInv'
<1>1. /\ screen[current] \in Screens /\ current \in Terminals
      /\ above \in [Terminals -> BOOLEAN] /\ pc[current] = "bottom"
  BY DEF CInv, VarsTyped, StepBottom, At
<1>2. PICK up \in BOOLEAN : up = above[current]
  BY <1>1
<1>3. above' = [above EXCEPT ![current] = up]
  BY <1>1, <1>2 DEF StepBottom, hidden
<1>4. Bottom(screen[current]) \in Screens
  BY <1>1, BottomPlace
<1>5. ~torn[current] => Reaches("idle", Bottom(screen[current]), up)
  BY <1>1, <1>2, BottomReaches DEF CInv, PlaceOK
<1>6. QED
  BY <1>3, <1>4, <1>5, EndsInv DEF StepBottom, hidden

LEMMA StepCursorInv ==
  ASSUME CInv, StepCursor
  PROVE  CInv'
<1>1. /\ VarsTyped /\ CursorShown /\ WasTested /\ current \in Terminals
      /\ pc[current] = "cursor" /\ current \in tested
      /\ \A t \in Terminals : PlaceOK(t)
  BY DEF CInv, VarsTyped, StepCursor, At, WasTested
<1>2. /\ pc' = [pc EXCEPT ![current] = "idle"]
      /\ pos' = [pos EXCEPT ![current] = Place(Cleared)]
      /\ cursor' = pos[current] /\ stray' = (display # current)
      /\ tested' = tested \ {current}
      /\ UNCHANGED <<screen, display, current, torn, above>>
  BY <1>1 DEF StepCursor, Goto, hidden
<1>3. Place(Cleared) \in Int \X Int
  BY ClearedPlace DEF Place
<1>4. VarsTyped'
  BY <1>1, <1>2, <1>3 DEF VarsTyped
<1>5. ASSUME NEW t \in Terminals
      PROVE  PlaceOK(t)'
  <2>1. CASE t # current
    BY <1>1, <1>2, <2>1, OthersStay DEF VarsTyped
  <2>2. CASE t = current
    BY <1>1, <1>2, <2>2 DEF VarsTyped, PlaceOK, Reaches
  <2>3. QED
    BY <2>1, <2>2
<1>6. CursorShown'
  BY <1>1, <1>2 DEF PlaceOK, CursorShown
<1>7. WasTested'
  BY <1>1, <1>2 DEF WasTested, VarsTyped
<1>8. QED
  BY <1>4, <1>5, <1>6, <1>7 DEF CInv

(***************************************************************************)
(* The keyboard and the timer.  A whole call of putc for the terminal on   *)
(* display, as the echo makes it.                                          *)
(***************************************************************************)
LEMMA PutcPlace ==
  ASSUME screen \in [Terminals -> Screens], display \in Terminals,
         NEW c \in Characters, Putc(c), NEW up, NEW up2,
         up2 = (up \/ (c = "backspace" /\ AtOrigin(screen[display]) /\ display # current))
  PROVE  /\ screen' \in [Terminals -> Screens]
         /\ \A u \in Terminals \ {display} :
              screen'[u].x = screen[u].x /\ screen'[u].y = screen[u].y
         /\ Reaches("idle", screen[display], up) => Reaches("idle", screen'[display], up2)
<1>1. PICK s \in Screens : s = screen[display]
  OBVIOUS
<1>2. CASE c = "backspace"
  <2>1. EraseChar
    BY <1>2 DEF Putc
  <2>2. CASE AtOrigin(s) /\ Displayed
    BY <1>1, <2>1, <2>2 DEF EraseChar, Reaches
  <2>3. CASE ~(AtOrigin(s) /\ Displayed)
    <3>1. PICK b \in Characters, k \in {Address(Back(s)) - 1} : b = " "
      BY DEF Characters
    <3>2. PICK poked : poked = Poke(display, k, b)
      OBVIOUS
    <3>3. /\ poked \in [Terminals -> Screens]
          /\ \A u \in Terminals : poked[u].x = screen[u].x /\ poked[u].y = screen[u].y
      BY <3>2, PokePlace
    <3>4. PICK p \in Screens : p = poked[display]
      BY <3>3
    <3>5. screen' = [poked EXCEPT ![display] = Left(Back(p))]
      BY <1>1, <2>1, <2>3, <3>1, <3>2, <3>4 DEF EraseChar
    <3>6. Back(p) \in Screens /\ Left(Back(p)) \in Screens
      BY BackPlace, LeftPlace
    <3>7. /\ screen' \in [Terminals -> Screens] /\ screen'[display] = Left(Back(p))
          /\ \A u \in Terminals \ {display} : screen'[u] = poked[u]
      BY <3>3, <3>5, <3>6
    <3>8. ASSUME Reaches("idle", s, up)
          PROVE  Reaches("idle", Left(Back(p)), up2)
      <4>1. Reaches("idle", p, up) /\ (AtOrigin(p) <=> AtOrigin(s))
        BY <1>1, <3>3, <3>4, <3>8 DEF Reaches, AtOrigin
      <4>2. Reaches("erase", Back(p), up2)
        BY <1>1, <1>2, <2>3, <4>1, BackReaches
      <4>3. Reaches("left", Back(p), up2)
        BY <4>2 DEF Reaches
      <4>4. QED
        BY <3>6, <4>3, LeftReaches
    <3>9. QED
      BY <1>1, <3>3, <3>7, <3>8
  <2>4. QED
    BY <2>2, <2>3
<1>3. CASE c = "newline"
  <2>1. screen' = [screen EXCEPT ![display] = Bottom(Down(s))]
    BY <1>1, <1>3 DEF Putc, NewLine
  <2>2. Down(s) \in Screens /\ Bottom(Down(s)) \in Screens
    BY DownPlace, BottomPlace
  <2>3. /\ screen' \in [Terminals -> Screens] /\ screen'[display] = Bottom(Down(s))
        /\ \A u \in Terminals \ {display} : screen'[u] = screen[u]
    BY <2>1, <2>2
  <2>4. ASSUME Reaches("idle", s, up)
        PROVE  Reaches("idle", Bottom(Down(s)), up2)
    <3>1. Reaches("idle", s, up2)
      BY <2>4 DEF Reaches
    <3>2. QED
      BY <2>2, <3>1, DownReaches, BottomReaches
  <2>5. QED
    BY <1>1, <2>3, <2>4
<1>4. CASE c \notin {"backspace", "newline"}
  <2>1. PICK k, poked : k = Address(s) /\ poked = Poke(display, k, c)
    OBVIOUS
  <2>2. /\ poked \in [Terminals -> Screens]
        /\ \A u \in Terminals : poked[u].x = screen[u].x /\ poked[u].y = screen[u].y
    BY <2>1, PokePlace
  <2>3. PICK p \in Screens : p = poked[display]
    BY <2>2
  <2>4. PICK r \in Screens : r = Right(p)
    BY RightPlace
  <2>5. PICK w \in Screens : w = Bottom(Wrap(r))
    BY WrapPlace, BottomPlace
  <2>6. screen' = [poked EXCEPT ![display] = w]
    BY <1>1, <1>4, <2>1, <2>3, <2>4, <2>5 DEF Putc, PutLetter
  <2>7. /\ screen' \in [Terminals -> Screens] /\ screen'[display] = w
        /\ \A u \in Terminals \ {display} : screen'[u] = poked[u]
    BY <2>2, <2>6
  <2>8. ASSUME Reaches("idle", s, up)
        PROVE  Reaches("idle", w, up2)
    <3>1. Reaches("idle", p, up2)
      BY <1>1, <2>2, <2>3, <2>8 DEF Reaches
    <3>2. Reaches("wrap", r, up2)
      BY <2>4, <3>1, RightReaches
    <3>3. Wrap(r) \in Screens /\ Reaches("bottom", Wrap(r), up2)
      BY <3>2, WrapPlace, WrapReaches
    <3>4. QED
      BY <2>5, <3>3, BottomReaches
  <2>9. QED
    BY <1>1, <2>2, <2>7, <2>8
<1>5. QED
  BY <1>2, <1>3, <1>4

LEMMA EchoInv ==
  ASSUME CInv, NEW c \in Echoed, Echo(c)
  PROVE  CInv'
<1>1. /\ VarsTyped /\ WasTested /\ display \in Terminals /\ c \in Characters
      /\ screen \in [Terminals -> Screens]
      /\ \A t \in Terminals : PlaceOK(t)
  BY DEF CInv, VarsTyped, Characters
<1>2. PICK up \in BOOLEAN : up = (above[display] \/
        (c = "backspace" /\ AtOrigin(screen[display]) /\ display # current))
  OBVIOUS
<1>3. /\ above' = [above EXCEPT ![display] = up]
      /\ torn' = [torn EXCEPT ![display] = @ \/ pc[display] # "idle"]
      /\ cursor' = Place(screen'[display])
      /\ UNCHANGED <<display, current, pc, pos, tested>>
      /\ Putc(c)
  BY <1>2 DEF Echo, Recorded, ShowsCursor, Torn
<1>4. /\ screen' \in [Terminals -> Screens]
      /\ \A u \in Terminals \ {display} :
           screen'[u].x = screen[u].x /\ screen'[u].y = screen[u].y
      /\ Reaches("idle", screen[display], above[display]) =>
           Reaches("idle", screen'[display], up)
  BY <1>1, <1>2, <1>3, PutcPlace
<1>5. VarsTyped'
  <2>1. (torn[display] \/ pc[display] # "idle") \in BOOLEAN
    OBVIOUS
  <2>2. QED
    BY <1>1, <1>3, <1>4, <2>1 DEF VarsTyped
<1>6. ASSUME NEW t \in Terminals
      PROVE  PlaceOK(t)'
  <2>1. CASE t # display
    BY <1>1, <1>3, <1>4, <2>1, OthersStay DEF VarsTyped
  <2>2. CASE t = display
    <3>1. /\ pc'[t] = pc[t] /\ above'[t] = up
          /\ torn'[t] = (torn[t] \/ pc[t] # "idle")
      BY <1>1, <1>3, <2>2 DEF VarsTyped
    <3>2. ~torn[t] => Reaches(pc[t], screen[t], above[t])
      BY <1>1, <2>2 DEF PlaceOK
    <3>3. QED
      BY <1>4, <2>2, <3>1, <3>2 DEF PlaceOK
  <2>3. QED
    BY <2>1, <2>2
<1>7. CursorShown' /\ WasTested'
  BY <1>1, <1>3 DEF CursorShown, WasTested
<1>8. QED
  BY <1>5, <1>6, <1>7 DEF CInv

LEMMA CtrlLInv ==
  ASSUME CInv, CtrlL
  PROVE  CInv'
<1>1. VarsTyped /\ display \in Terminals /\ \A t \in Terminals : PlaceOK(t)
  BY DEF CInv, VarsTyped
<1>2. /\ screen' = [screen EXCEPT ![display] = Cleared]
      /\ above' = [above EXCEPT ![display] = FALSE]
      /\ torn' = [torn EXCEPT ![display] = (pc[display] # "idle")]
      /\ cursor' = Place(Cleared)
      /\ UNCHANGED <<display, current, pc, pos, tested>>
  BY DEF CtrlL, ShowsCursor
<1>3. VarsTyped'
  BY <1>1, <1>2, ClearedPlace DEF VarsTyped
<1>4. Reaches("idle", Cleared, FALSE)
  BY ClearedPlace, SizeAssumption DEF Reaches, Cols
<1>5. ASSUME NEW t \in Terminals
      PROVE  PlaceOK(t)'
  <2>1. CASE t # display
    BY <1>1, <1>2, <2>1, OthersStay DEF VarsTyped
  <2>2. CASE t = display
    <3>1. /\ screen'[t] = Cleared /\ pc'[t] = pc[t] /\ above'[t] = FALSE
          /\ torn'[t] = (pc[t] # "idle")
      BY <1>1, <1>2, <2>2 DEF VarsTyped
    <3>2. QED
      BY <1>4, <3>1 DEF PlaceOK
  <2>3. QED
    BY <2>1, <2>2
<1>6. CursorShown'
  BY <1>1, <1>2 DEF VarsTyped, CursorShown
<1>7. WasTested'
  BY <1>2 DEF CInv, WasTested
<1>8. QED
  BY <1>3, <1>5, <1>6, <1>7 DEF CInv

LEMMA TerminalSwitchInv ==
  ASSUME CInv, NEW t \in Terminals, TerminalSwitch(t)
  PROVE  CInv'
<1>1. VarsTyped'
  BY DEF CInv, VarsTyped, TerminalSwitch, hidden
<1>2. \A u \in Terminals : PlaceOK(u)'
  BY OthersStay DEF CInv, TerminalSwitch, hidden
<1>3. CursorShown' /\ WasTested'
  BY DEF CInv, CursorShown, WasTested, TerminalSwitch, ShowsCursor
<1>4. QED
  BY <1>1, <1>2, <1>3 DEF CInv

LEMMA TickInv ==
  ASSUME CInv, Tick
  PROVE  CInv'
<1>1. current' \in Terminals
  BY TerminalsAssumption DEF CInv, VarsTyped, Tick, Terminals
<1>2. VarsTyped'
  BY <1>1 DEF CInv, VarsTyped, Tick, hidden
<1>3. \A u \in Terminals : PlaceOK(u)'
  BY OthersStay DEF CInv, Tick, hidden
<1>4. CursorShown' /\ WasTested'
  BY DEF CInv, CursorShown, WasTested, Tick, hidden
<1>5. QED
  BY <1>2, <1>3, <1>4 DEF CInv

LEMMA ConsoleStutter ==
  ASSUME CInv, UNCHANGED vars
  PROVE  CInv'
<1>1. VarsTyped'
  BY DEF CInv, VarsTyped, vars, hidden
<1>2. \A u \in Terminals : PlaceOK(u)'
  BY OthersStay DEF CInv, vars, hidden
<1>3. CursorShown' /\ WasTested'
  BY DEF CInv, CursorShown, WasTested, vars, hidden
<1>4. QED
  BY <1>1, <1>2, <1>3 DEF CInv

-----------------------------------------------------------------------------

(***************************************************************************)
(* Every step keeps the places, whatever programs write, users type and    *)
(* the timer does in between.                                              *)
(***************************************************************************)
THEOREM ConsoleInvariance == Spec => []CInv
<1>1. CInv /\ [Next]_vars => CInv'
  <2>. SUFFICES ASSUME CInv, [Next]_vars
                PROVE  CInv'
    OBVIOUS
  <2>1. CASE \E c \in Written : Write(c)
    BY <2>1, WriteInv
  <2>2. CASE StepWrap
    BY <2>2, StepWrapInv
  <2>3. CASE StepBottom
    BY <2>3, StepBottomInv
  <2>4. CASE StepCursor
    BY <2>4, StepCursorInv
  <2>5. CASE \E c \in Echoed \ {"clear"} : Echo(c)
    BY <2>5, EchoInv
  <2>6. CASE CtrlL
    BY <2>6, CtrlLInv
  <2>7. CASE \E t \in Terminals : TerminalSwitch(t)
    BY <2>7, TerminalSwitchInv
  <2>8. CASE Tick
    BY <2>8, TickInv
  <2>9. CASE UNCHANGED vars
    BY <2>9, ConsoleStutter
  <2>10. CASE StepErase
    BY <2>10, StepEraseInv
  <2>11. CASE StepLeft
    BY <2>11, StepLeftInv
  <2>12. QED
    BY <2>1, <2>2, <2>3, <2>4, <2>5, <2>6, <2>7, <2>8, <2>9, <2>10, <2>11 DEF Next
<1>2. QED
  BY ConsoleInit, <1>1, PTL DEF Spec

(***************************************************************************)
(* "scroll down the screen when reaching the bottom" (lib.c:514): between  *)
(* two characters the next one has a place on the screen, and the monitor  *)
(* shows the cursor of the terminal on display, on screens of every size   *)
(* and for every number of terminals, under the conditions of              *)
(* CursorOnScreen: no key in the middle of a call of putc.                 *)
(***************************************************************************)
THEOREM CursorCorrect == Spec => []CursorOnScreen
<1>1. CInv => CursorOnScreen
  <2>. SUFFICES ASSUME CInv
                PROVE  CursorOnScreen
    OBVIOUS
  <2>1. ASSUME NEW t \in Terminals, pc[t] = "idle", ~torn[t]
        PROVE  OnScreen(screen[t]) \/ (above[t] /\ screen[t].x \in Cols /\ screen[t].y < 0)
    <3>1. screen[t] \in Screens /\ Reaches("idle", screen[t], above[t])
      BY <2>1 DEF CInv, VarsTyped, PlaceOK
    <3>2. /\ screen[t].x \in Cols /\ screen[t].y \in Int
          /\ screen[t].y <= NUM_ROWS - 1 /\ (screen[t].y >= 0 \/ above[t])
      BY <3>1, ScreenTypes DEF Reaches
    <3>3. QED
      BY <3>2, SizeAssumption DEF OnScreen, Rows
  <2>2. QED
    BY <2>1 DEF CInv, CursorShown, CursorOnScreen
<1>2. QED
  BY <1>1, ConsoleInvariance, PTL

-----------------------------------------------------------------------------

(***************************************************************************)
(* Induction over the natural numbers, for a set, and the function that a  *)
(* recursion over 1..N defines.                                            *)
(***************************************************************************)
LEMMA NatSetInduction ==
  ASSUME NEW S, 0 \in S, \A n \in Nat : n \in S => n + 1 \in S
  PROVE  Nat \subseteq S
<1>. DEFINE T == Nat \ S
<1>. SUFFICES ASSUME T # {}
              PROVE  FALSE
  OBVIOUS
<1>1. PICK m \in T : \A n \in T : ~ (<<n, m>> \in OpToRel(<, Nat))
  BY NatLessThanWellFounded, WFMin
<1>2. m \in Nat /\ m - 1 \in T
  <2>1. m \in Nat /\ m # 0
    BY <1>1
  <2>2. m - 1 \in Nat /\ (m - 1) + 1 = m
    BY <2>1
  <2>3. QED
    BY <2>1, <2>2, <1>1
<1>3. <<m - 1, m>> \in OpToRel(<, Nat)
  BY <1>2 DEF OpToRel
<1>4. QED
  BY <1>1, <1>2, <1>3

Iterates(f, N, S, a, g) ==
  f \in [0..N -> S] /\ f[0] = a /\ \A n \in 1..N : f[n] = g[n][f[n - 1]]

LEMMA Recursion ==
  ASSUME NEW N \in Nat, NEW S, NEW a \in S, NEW g \in [1..N -> [S -> S]]
  PROVE  \E f : Iterates(f, N, S, a, g)
<1>. DEFINE Ok(n, f) == f[0] = a /\ \A i \in 1..n : f[i] = g[i][f[i - 1]]
            T == {n \in Nat : n <= N => \E f \in [0..n -> S] : Ok(n, f)}
<1>1. 0 \in T
  <2>1. [i \in 0..0 |-> a] \in [0..0 -> S] /\ Ok(0, [i \in 0..0 |-> a])
    OBVIOUS
  <2>2. QED
    BY <2>1
<1>2. ASSUME NEW n \in Nat, n \in T
      PROVE  n + 1 \in T
  <2>. SUFFICES ASSUME n + 1 <= N
                PROVE  \E f \in [0..(n + 1) -> S] : Ok(n + 1, f)
    OBVIOUS
  <2>1. PICK f \in [0..n -> S] : Ok(n, f)
    BY <1>2
  <2>. DEFINE h == [i \in 0..(n + 1) |-> IF i = n + 1 THEN g[n + 1][f[n]] ELSE f[i]]
  <2>2. n + 1 \in 1..N /\ f[n] \in S
    OBVIOUS
  <2>3. h \in [0..(n + 1) -> S]
    BY <2>2
  <2>4. Ok(n + 1, h)
    <3>1. h[0] = a
      BY <2>1
    <3>2. ASSUME NEW i \in 1..(n + 1)
          PROVE  h[i] = g[i][h[i - 1]]
      <4>1. CASE i = n + 1
        BY <4>1
      <4>2. CASE i \in 1..n
        BY <4>2, <2>1
      <4>3. QED
        BY <4>1, <4>2
    <3>3. QED
      BY <3>1, <3>2
  <2>5. QED
    BY <2>3, <2>4
<1>. HIDE DEF Ok
<1>3. Nat \subseteq T
  <2>. HIDE DEF T
  <2>1. QED
    BY <1>1, <1>2, NatSetInduction
<1>4. QED
  BY <1>3 DEF Ok, Iterates

-----------------------------------------------------------------------------

(***************************************************************************)
(* Pages: texts broken into lines.  What a letter and a newline do to      *)
(* them, and with that Broken.                                             *)
(***************************************************************************)
Pages == {l \in Seq(Seq(Characters)) : l # <<>>}

LEMMA PageFacts ==
  ASSUME NEW l \in Pages
  PROVE  /\ l \in Seq(Seq(Characters)) /\ Len(l) \in Nat \ {0} /\ Len(l) \in 1..Len(l)
         /\ \A i \in 1..Len(l) : l[i] \in Seq(Characters) /\ Len(l[i]) \in Nat
<1>1. l \in Seq(Seq(Characters)) /\ Len(l) \in Nat \ {0}
  BY EmptySeq DEF Pages
<1>2. QED
  BY <1>1, ElementOfSeq

LetterOn(l, c) == Front(l) \o << Append(Last(l), c) >>

LEMMA LetterOnPage ==
  ASSUME NEW l \in Pages, NEW c \in Characters
  PROVE  /\ LetterOn(l, c) \in Pages /\ Len(LetterOn(l, c)) = Len(l)
         /\ \A i \in 1..Len(l) : i # Len(l) => LetterOn(l, c)[i] = l[i]
         /\ LetterOn(l, c)[Len(l)] = Append(l[Len(l)], c)
<1>1. PICK n \in Nat : n + 1 = Len(l)
  <2>1. Len(l) \in Nat \ {0}
    BY PageFacts
  <2>2. \A k \in Nat \ {0} : k - 1 \in Nat /\ (k - 1) + 1 = k
    OBVIOUS
  <2>3. Len(l) - 1 \in Nat /\ (Len(l) - 1) + 1 = Len(l)
    BY <2>1, <2>2
  <2>4. QED
    BY <2>3
<1>2. Last(l) = l[n + 1] /\ Front(l) = SubSeq(l, 1, n)
  BY <1>1 DEF Last, Front
<1>3. \A i \in 1..n : l[i] \in Seq(Characters)
  BY <1>1, PageFacts
<1>4. /\ Front(l) \in Seq(Seq(Characters)) /\ Len(Front(l)) = n
      /\ \A i \in 1..n : Front(l)[i] = l[i]
  <2>1. SubSeq(l, 1, n) \in Seq(Seq(Characters)) /\ Len(SubSeq(l, 1, n)) = n
    BY <1>3, SubSeqProperties
  <2>2. \A i \in 1..(n - 1 + 1) : SubSeq(l, 1, n)[i] = l[1 + i - 1]
    BY <1>3, SubSeqProperties
  <2>3. QED
    BY <1>2, <2>1, <2>2
<1>. DEFINE last == << Append(l[n + 1], c) >>
<1>5. last \in Seq(Seq(Characters)) /\ Len(last) = 1 /\ last[1] = Append(l[n + 1], c)
  <2>1. l[n + 1] \in Seq(Characters)
    BY <1>1, PageFacts
  <2>2. Append(l[n + 1], c) \in Seq(Characters)
    BY <2>1, AppendProperties
  <2>3. QED
    BY <2>2
<1>6. /\ LetterOn(l, c) \in Seq(Seq(Characters)) /\ Len(LetterOn(l, c)) = n + 1
      /\ \A i \in 1..(n + 1) : LetterOn(l, c)[i] = IF i <= n THEN Front(l)[i] ELSE last[i - n]
  <2>1. LetterOn(l, c) = Front(l) \o last
    BY <1>2 DEF LetterOn
  <2>2. PICK f, e : f = Front(l) /\ e = last
    OBVIOUS
  <2>. HIDE DEF last
  <2>3. f \in Seq(Seq(Characters)) /\ e \in Seq(Seq(Characters)) /\ Len(f) = n /\ Len(e) = 1
    BY <1>4, <1>5, <2>2
  <2>4. /\ f \o e \in Seq(Seq(Characters)) /\ Len(f \o e) = Len(f) + Len(e)
        /\ \A i \in 1..(Len(f) + Len(e)) :
             (f \o e)[i] = IF i <= Len(f) THEN f[i] ELSE e[i - Len(f)]
    BY <2>3, ConcatProperties
  <2>5. QED
    BY <2>1, <2>2, <2>3, <2>4
<1>. HIDE DEF last
<1>7. LetterOn(l, c)[n + 1] = Append(l[n + 1], c)
  BY <1>5, <1>6
<1>8. LetterOn(l, c) # <<>>
  BY <1>6, EmptySeq
<1>9. \A i \in 1..n : LetterOn(l, c)[i] = l[i]
  BY <1>4, <1>6
<1>10. LetterOn(l, c) \in Pages
  BY <1>6, <1>8 DEF Pages
<1>11. QED
  BY <1>1, <1>6, <1>7, <1>9, <1>10

LEMMA NewLineOnPage ==
  ASSUME NEW l \in Pages
  PROVE  /\ Append(l, <<>>) \in Pages /\ Len(Append(l, <<>>)) = Len(l) + 1
         /\ \A i \in 1..Len(l) : Append(l, <<>>)[i] = l[i]
         /\ Append(l, <<>>)[Len(l) + 1] = <<>>
<1>1. <<>> \in Seq(Characters)
  BY EmptySeq
<1>2. QED
  BY <1>1, PageFacts, AppendProperties DEF Pages

LEMMA BrokenIs ==
  ASSUME NEW l, NEW c
  PROVE  Broken(l, c) = IF c = "newline" THEN Append(l, <<>>)
                        ELSE IF Len(Last(LetterOn(l, c))) = NUM_COLS
                        THEN Append(LetterOn(l, c), <<>>) ELSE LetterOn(l, c)
BY DEF Broken, LetterOn

LEMMA BrokenPage ==
  ASSUME NEW l \in Pages, NEW c \in Characters
  PROVE  Broken(l, c) \in Pages
<1>1. \A m \in Pages : Append(m, <<>>) \in Pages
  BY NewLineOnPage
<1>2. QED
  BY <1>1, LetterOnPage, BrokenIs

(***************************************************************************)
(* Layout by its steps: after each character of the text the lines so far  *)
(* are those before, broken by this character; one character more breaks   *)
(* the last ones once more.                                                *)
(***************************************************************************)
LayoutBody(txt, f) ==
  [n \in 0..Len(txt) |-> IF n = 0 THEN << <<>> >> ELSE Broken(f[n - 1], txt[n])]

LEMMA LayoutExists ==
  ASSUME NEW txt \in Seq(Characters)
  PROVE  \E f : f = LayoutBody(txt, f)
<1>1. PICK N \in Nat : N = Len(txt)
  OBVIOUS
<1>. DEFINE blank == << <<>> >>
            g == [n \in 1..N |-> [l \in Pages |-> Broken(l, txt[n])]]
<1>2. blank \in Pages
  BY EmptySeq DEF Pages
<1>3. g \in [1..N -> [Pages -> Pages]]
  BY <1>1, BrokenPage, ElementOfSeq
<1>4. PICK f : Iterates(f, N, Pages, blank, g)
  <2>. HIDE DEF blank, g
  <2>1. QED
    BY <1>2, <1>3, Recursion
<1>5. ASSUME NEW n \in 0..N
      PROVE  f[n] = IF n = 0 THEN << <<>> >> ELSE Broken(f[n - 1], txt[n])
  <2>1. CASE n = 0
    BY <2>1, <1>4 DEF Iterates
  <2>2. CASE n # 0
    <3>1. n \in 1..N /\ n - 1 \in 0..N
      BY <2>2
    <3>2. f[n - 1] \in Pages /\ f[n] = g[n][f[n - 1]]
      BY <3>1, <1>4 DEF Iterates
    <3>3. QED
      BY <3>1, <3>2, <2>2
  <2>3. QED
    BY <2>1, <2>2
<1>6. PICK D : D = 0..N /\ f = [n \in D |-> f[n]]
  BY <1>4 DEF Iterates
<1>7. f = LayoutBody(txt, f)
  BY <1>1, <1>5, <1>6 DEF LayoutBody
<1>8. QED
  BY <1>7

LayoutBy(txt) == CHOOSE f : f = LayoutBody(txt, f)

LEMMA LayoutSteps ==
  ASSUME NEW txt \in Seq(Characters)
  PROVE  /\ LayoutBy(txt)[0] = << <<>> >>
         /\ \A n \in 1..Len(txt) : LayoutBy(txt)[n] = Broken(LayoutBy(txt)[n - 1], txt[n])
<1>1. PICK N \in Nat : N = Len(txt)
  OBVIOUS
<1>2. PICK f : f = LayoutBy(txt)
  OBVIOUS
<1>3. f = LayoutBody(txt, f)
  BY <1>2, LayoutExists DEF LayoutBy
<1>4. \A n \in 0..N : f[n] = IF n = 0 THEN << <<>> >> ELSE Broken(f[n - 1], txt[n])
  <2>. SUFFICES ASSUME NEW n \in 0..N
                PROVE  f[n] = IF n = 0 THEN << <<>> >> ELSE Broken(f[n - 1], txt[n])
    OBVIOUS
  <2>. DEFINE row == [k \in 0..Len(txt) |-> IF k = 0 THEN << <<>> >> ELSE Broken(f[k - 1], txt[k])]
  <2>1. f = row
    BY <1>3 DEF LayoutBody
  <2>2. row[n] = IF n = 0 THEN << <<>> >> ELSE Broken(f[n - 1], txt[n])
    BY <1>1
  <2>3. QED
    BY <2>1, <2>2, Zenon
<1>5. f[0] = << <<>> >> /\ \A n \in 1..N : f[n] = Broken(f[n - 1], txt[n])
  BY <1>4
<1>6. QED
  BY <1>1, <1>2, <1>5

LEMMA LayoutIs ==
  ASSUME NEW txt
  PROVE  Layout(txt) = LayoutBy(txt)[Len(txt)]
BY DEF Layout, LayoutBy, LayoutBody

LEMMA LayoutAppend ==
  ASSUME NEW txt \in Seq(Characters), NEW c \in Characters
  PROVE  Layout(Append(txt, c)) = Broken(Layout(txt), c)
<1>1. PICK N \in Nat : N = Len(txt)
  OBVIOUS
<1>2. PICK long \in Seq(Characters) : long = Append(txt, c)
  BY AppendProperties
<1>3. Len(long) = N + 1 /\ long[N + 1] = c /\ \A n \in 1..N : long[n] = txt[n]
  BY <1>1, <1>2, AppendProperties
<1>4. PICK f, g : f = LayoutBy(txt) /\ g = LayoutBy(long)
  OBVIOUS
<1>5. /\ f[0] = << <<>> >> /\ \A n \in 1..N : f[n] = Broken(f[n - 1], txt[n])
      /\ g[0] = << <<>> >> /\ \A n \in 1..(N + 1) : g[n] = Broken(g[n - 1], long[n])
  BY <1>1, <1>3, <1>4, LayoutSteps
<1>. DEFINE Same(n) == n <= N => f[n] = g[n]
            T == {n \in Nat : Same(n)}
<1>6. Same(0)
  BY <1>5
<1>7. ASSUME NEW n \in Nat, Same(n)
      PROVE  Same(n + 1)
  <2>. SUFFICES ASSUME n + 1 <= N
                PROVE  f[n + 1] = g[n + 1]
    OBVIOUS
  <2>1. PICK m \in 1..N : m = n + 1 /\ m - 1 = n
    OBVIOUS
  <2>2. f[m - 1] = g[m - 1] /\ txt[m] = long[m]
    BY <2>1, <1>3, <1>7
  <2>3. f[m] = Broken(f[m - 1], txt[m]) /\ g[m] = Broken(g[m - 1], long[m])
    BY <1>5
  <2>4. QED
    BY <2>1, <2>2, <2>3
<1>8. \A n \in Nat : Same(n)
  <2>1. 0 \in T /\ \A n \in Nat : n \in T => n + 1 \in T
    <3>. HIDE DEF Same
    <3>1. QED
      BY <1>6, <1>7
  <2>2. Nat \subseteq T
    <3>. HIDE DEF T
    <3>1. QED
      BY <2>1, NatSetInduction
  <2>. HIDE DEF Same
  <2>3. QED
    BY <2>2
<1>9. f[N] = g[N]
  BY <1>8
<1>10. g[N + 1] = Broken(g[N], c)
  <2>1. PICK m \in 1..(N + 1) : m = N + 1 /\ m - 1 = N
    OBVIOUS
  <2>2. g[m] = Broken(g[m - 1], long[m])
    BY <1>5
  <2>3. QED
    BY <2>1, <2>2, <1>3
<1>11. QED
  BY <1>1, <1>2, <1>3, <1>4, <1>9, <1>10, LayoutIs

LEMMA LayoutPage ==
  ASSUME NEW txt \in Seq(Characters)
  PROVE  Layout(txt) \in Pages
<1>1. PICK N \in Nat : N = Len(txt)
  OBVIOUS
<1>2. PICK f : f = LayoutBy(txt)
  OBVIOUS
<1>3. f[0] = << <<>> >> /\ \A n \in 1..N : f[n] = Broken(f[n - 1], txt[n])
  BY <1>1, <1>2, LayoutSteps
<1>. DEFINE T == {n \in Nat : n <= N => f[n] \in Pages}
<1>4. 0 \in T
  <2>1. << <<>> >> \in Pages
    BY EmptySeq DEF Pages
  <2>2. QED
    BY <1>3, <2>1
<1>5. ASSUME NEW n \in Nat, n \in T
      PROVE  n + 1 \in T
  <2>. SUFFICES ASSUME n + 1 <= N
                PROVE  f[n + 1] \in Pages
    OBVIOUS
  <2>1. PICK m \in 1..N : m = n + 1 /\ m - 1 = n
    OBVIOUS
  <2>2. f[m - 1] \in Pages /\ txt[m] \in Characters
    BY <1>1, <1>5, <2>1, ElementOfSeq
  <2>3. f[m] \in Pages
    BY <1>3, <2>2, BrokenPage
  <2>4. QED
    BY <2>1, <2>3
<1>6. Nat \subseteq T
  <2>. HIDE DEF T
  <2>1. QED
    BY <1>4, <1>5, NatSetInduction
<1>7. f[N] \in Pages
  BY <1>6
<1>8. QED
  BY <1>1, <1>2, <1>7, LayoutIs

-----------------------------------------------------------------------------

(***************************************************************************)
(* What a screen shows when it shows the lines l: the last NUM_ROWS of     *)
(* them, Top(l) lines are above; the character at column c of line i is    *)
(* Glyph(l, i, c). Holds leaves the column of the cursor open.             *)
(***************************************************************************)
Top(l) == IF Len(l) > NUM_ROWS THEN Len(l) - NUM_ROWS ELSE 0
Glyph(l, i, c) == IF i <= Len(l) /\ c < Len(l[i]) THEN l[i][c + 1] ELSE " "

Holds(s, l) ==
  /\ s.y = Len(l) - Top(l) - 1
  /\ \A r \in Rows, c \in Cols : s.cells[r][c] = Glyph(l, Top(l) + r + 1, c)
Shows(s, l) == Holds(s, l) /\ s.x = Len(l[Len(l)]) /\ s.x \in Cols

LEMMA GlyphIs ==
  ASSUME NEW l, NEW n, n = Len(l), NEW i, NEW row, row = l[i], NEW c
  PROVE  Glyph(l, i, c) = IF i <= n /\ c < Len(row) THEN row[c + 1] ELSE " "
BY Zenon DEF Glyph

(***************************************************************************)
(* What an empty line and a letter change of the glyphs.                   *)
(***************************************************************************)
LEMMA NewLineGlyph ==
  ASSUME NEW l \in Pages, NEW i \in Nat \ {0}, NEW c \in Cols
  PROVE  /\ Glyph(Append(l, <<>>), i, c) = Glyph(l, i, c)
         /\ i > Len(l) => Glyph(l, i, c) = " "
<1>1. PICK n \in Nat : n = Len(l)
  BY PageFacts
<1>2. PICK m : m = Append(l, <<>>)
  OBVIOUS
<1>3. Len(m) = n + 1 /\ (\A k \in 1..n : m[k] = l[k]) /\ m[n + 1] = <<>>
  BY <1>1, <1>2, NewLineOnPage
<1>4. c \in Int /\ ~(c < 0)
  BY SizeAssumption DEF Cols
<1>5. CASE i <= n
  <2>1. i \in 1..n
    BY <1>5
  <2>2. m[i] = l[i] /\ i <= n + 1
    BY <2>1, <1>3
  <2>3. PICK row : row = l[i]
    OBVIOUS
  <2>4. /\ Glyph(l, i, c) = IF i <= n /\ c < Len(row) THEN row[c + 1] ELSE " "
        /\ Glyph(m, i, c) = IF i <= n + 1 /\ c < Len(row) THEN row[c + 1] ELSE " "
    BY <1>1, <1>3, <2>2, <2>3, GlyphIs
  <2>5. Glyph(m, i, c) = Glyph(l, i, c)
    <3>1. i <= n /\ i <= n + 1
      BY <1>5
    <3>2. CASE c < Len(row)
      <4>1. Glyph(l, i, c) = row[c + 1]
        BY <2>4, <3>1, <3>2
      <4>2. Glyph(m, i, c) = row[c + 1]
        BY <2>4, <3>1, <3>2
      <4>3. QED
        BY <4>1, <4>2
    <3>3. CASE ~(c < Len(row))
      <4>1. Glyph(l, i, c) = " "
        BY <2>4, <3>3
      <4>2. Glyph(m, i, c) = " "
        BY <2>4, <3>3
      <4>3. QED
        BY <4>1, <4>2
    <3>4. QED
      BY <3>2, <3>3
  <2>6. ~(i > Len(l))
    BY <1>1, <1>5
  <2>7. QED
    BY <1>2, <2>5, <2>6
<1>6. CASE i > n
  <2>1. Glyph(l, i, c) = " "
    <3>1. ~(i <= n)
      BY <1>6
    <3>2. QED
      BY <1>1, <3>1, GlyphIs
  <2>2. CASE i = n + 1
    <3>1. m[i] = <<>> /\ Len(m[i]) = 0
      BY <1>3, <2>2
    <3>2. Glyph(m, i, c) = " "
      BY <1>4, <3>1 DEF Glyph
    <3>3. QED
      BY <1>2, <2>1, <3>2
  <2>3. CASE i # n + 1
    <3>1. ~(i <= n + 1)
      BY <1>6, <2>3
    <3>2. Glyph(m, i, c) = " "
      BY <1>3, <3>1 DEF Glyph
    <3>3. QED
      BY <1>2, <2>1, <3>2
  <2>4. QED
    BY <2>2, <2>3
<1>7. i <= n \/ i > n
  OBVIOUS
<1>8. QED
  BY <1>5, <1>6, <1>7

LEMMA LetterGlyph ==
  ASSUME NEW l \in Pages, NEW ch \in Characters, NEW i \in Nat \ {0}, NEW c \in Cols
  PROVE  Glyph(LetterOn(l, ch), i, c) =
           IF i = Len(l) /\ c = Len(l[Len(l)]) THEN ch ELSE Glyph(l, i, c)
<1>1. PICK n \in Nat \ {0} : n = Len(l)
  BY PageFacts
<1>2. PICK m : m = LetterOn(l, ch)
  OBVIOUS
<1>3. Len(m) = n /\ (\A k \in 1..n : k # n => m[k] = l[k]) /\ m[n] = Append(l[n], ch)
  BY <1>1, <1>2, LetterOnPage
<1>4. c \in Int /\ c >= 0
  BY SizeAssumption DEF Cols
<1>5. PICK last, e : last = l[n] /\ e = Append(last, ch)
  OBVIOUS
<1>6. PICK k \in Nat : k = Len(last)
  BY <1>1, <1>5, PageFacts
<1>7. Len(e) = k + 1 /\ e[k + 1] = ch /\ \A j \in 1..k : e[j] = last[j]
  <2>1. last \in Seq(Characters)
    BY <1>1, <1>5, PageFacts
  <2>2. QED
    BY <2>1, <1>5, <1>6, AppendProperties
<1>8. CASE i = n
  <2>1. Glyph(m, i, c) = IF c < k + 1 THEN e[c + 1] ELSE " "
    <3>1. m[i] = e /\ i <= n /\ Len(e) = k + 1
      BY <1>3, <1>5, <1>7, <1>8
    <3>2. Glyph(m, i, c) = IF i <= n /\ c < Len(e) THEN e[c + 1] ELSE " "
      BY <1>3, <3>1, GlyphIs
    <3>3. QED
      BY <3>1, <3>2
  <2>2. Glyph(l, i, c) = IF c < k THEN last[c + 1] ELSE " "
    <3>1. l[i] = last /\ i <= n
      BY <1>5, <1>8
    <3>2. Glyph(l, i, c) = IF i <= n /\ c < Len(last) THEN last[c + 1] ELSE " "
      BY <1>1, <3>1, GlyphIs
    <3>3. QED
      BY <1>6, <3>1, <3>2
  <2>3. c < k => c + 1 \in 1..k
    BY <1>4
  <2>4. c < k => e[c + 1] = last[c + 1]
    BY <1>7, <2>3
  <2>5. c = k => e[c + 1] = ch
    BY <1>7
  <2>6. Glyph(m, i, c) = IF c = k THEN ch ELSE Glyph(l, i, c)
    <3>1. CASE c < k
      <4>1. c < k + 1 /\ c # k
        BY <1>4, <3>1
      <4>2. QED
        BY <2>1, <2>2, <2>4, <3>1, <4>1
    <3>2. CASE c = k
      <4>1. c < k + 1
        BY <3>2
      <4>2. QED
        BY <2>1, <2>5, <3>2, <4>1
    <3>3. CASE c > k
      <4>1. ~(c < k + 1) /\ ~(c < k) /\ c # k
        BY <1>4, <3>3
      <4>2. QED
        BY <2>1, <2>2, <4>1
    <3>4. QED
      BY <1>4, <3>1, <3>2, <3>3
  <2>7. QED
    BY <1>1, <1>2, <1>5, <1>6, <1>8, <2>6
<1>9. CASE i # n
  <2>1. i <= n => m[i] = l[i]
    BY <1>3, <1>9
  <2>2. Glyph(m, i, c) = Glyph(l, i, c)
    <3>1. PICK row, old : row = m[i] /\ old = l[i]
      OBVIOUS
    <3>2. /\ Glyph(l, i, c) = IF i <= n /\ c < Len(old) THEN old[c + 1] ELSE " "
          /\ Glyph(m, i, c) = IF i <= n /\ c < Len(row) THEN row[c + 1] ELSE " "
      BY <1>1, <1>3, <3>1, GlyphIs
    <3>3. CASE i <= n
      <4>1. row = old
        BY <2>1, <3>1, <3>3
      <4>2. QED
        <5>1. PICK v : v = IF i <= n /\ c < Len(old) THEN old[c + 1] ELSE " "
          OBVIOUS
        <5>2. Glyph(l, i, c) = v
          BY <3>2, <5>1, Zenon
        <5>3. Glyph(m, i, c) = v
          BY <3>2, <4>1, <5>1, Zenon
        <5>4. QED
          BY <5>2, <5>3
    <3>4. CASE ~(i <= n)
      BY <3>2, <3>4, Zenon
    <3>5. QED
      BY <3>3, <3>4
  <2>3. QED
    BY <1>1, <1>2, <1>9, <2>2
<1>10. QED
  BY <1>8, <1>9

(***************************************************************************)
(* Going down shows an empty line more, and if the screen was full it has  *)
(* lost its first line.                                                    *)
(***************************************************************************)
LEMMA DownShows ==
  ASSUME NEW s \in Screens, NEW l \in Pages, Holds(s, l)
  PROVE  Shows(Bottom(Down(s)), Append(l, <<>>))
<1>1. PICK n \in Nat \ {0} : n = Len(l)
  BY PageFacts
<1>2. PICK m : m = Append(l, <<>>)
  OBVIOUS
<1>3. Len(m) = n + 1 /\ m[n + 1] = <<>>
  BY <1>1, <1>2, NewLineOnPage
<1>4. PICK d \in Screens : d = Down(s)
  BY DownPlace
<1>5. d.x = 0 /\ d.y = s.y + 1 /\ d.cells = s.cells
  BY <1>4, DownPlace DEF Down, Screens
<1>6. PICK R \in Nat \ {0} : R = NUM_ROWS
  BY SizeAssumption
<1>7. PICK t \in Nat : t = Top(l) /\ t = IF n > R THEN n - R ELSE 0
  <2>1. Top(l) = IF n > R THEN n - R ELSE 0
    BY <1>1, <1>6 DEF Top
  <2>2. (IF n > R THEN n - R ELSE 0) \in Nat
    OBVIOUS
  <2>3. QED
    BY <2>1, <2>2
<1>8. d.y = n - t
  BY <1>1, <1>5, <1>7 DEF Holds
<1>9. \A r \in Rows, c \in Cols : d.cells[r][c] = Glyph(l, t + r + 1, c)
  BY <1>5, <1>7 DEF Holds
<1>10. Rows = 0..(R - 1) /\ 0 \in Cols
  BY <1>6, SizeAssumption DEF Rows, Cols
<1>11. \A i \in Nat \ {0}, c \in Cols : /\ Glyph(m, i, c) = Glyph(l, i, c)
                                        /\ i > n => Glyph(l, i, c) = " "
  BY <1>1, <1>2, NewLineGlyph
<1>12. PICK b \in Screens : b = Bottom(d)
  BY BottomPlace
<1>13. PICK k : k = n + 1
  OBVIOUS
<1>14. Len(m) = k /\ Len(m[k]) = 0
  BY <1>3, <1>13
<1>15. CASE n < R
  <2>1. b = d
    BY <1>6, <1>7, <1>8, <1>12, <1>15 DEF Bottom
  <2>2. Top(m) = 0 /\ t = 0
    BY <1>3, <1>6, <1>7, <1>15 DEF Top
  <2>3. b.x = 0 /\ b.y = k - Top(m) - 1
    BY <1>5, <1>8, <1>13, <2>1, <2>2
  <2>4. ASSUME NEW r \in Rows, NEW c \in Cols
        PROVE  b.cells[r][c] = Glyph(m, Top(m) + r + 1, c)
    <3>1. PICK i \in Nat \ {0} : i = Top(m) + r + 1 /\ i = t + r + 1
      BY <1>10, <2>2
    <3>2. d.cells[r][c] = Glyph(l, i, c)
      BY <1>9, <3>1, Zenon
    <3>3. b.cells[r][c] = Glyph(m, i, c)
      BY <1>11, <2>1, <3>2
    <3>4. QED
      BY <3>1, <3>3, Zenon
  <2>5. QED
    BY <1>2, <1>4, <1>10, <1>12, <1>14, <2>3, <2>4 DEF Shows, Holds
<1>16. CASE ~(n < R)
  <2>1. b = Scroll(d)
    BY <1>6, <1>7, <1>8, <1>12, <1>16 DEF Bottom
  <2>2. Top(m) = t + 1 /\ n = t + R
    BY <1>3, <1>6, <1>7, <1>16 DEF Top
  <2>3. b.x = 0 /\ b.y = k - Top(m) - 1
    BY <1>6, <1>13, <2>1, <2>2, ScrollPlace
  <2>4. ASSUME NEW r \in Rows, NEW c \in Cols
        PROVE  b.cells[r][c] = Glyph(m, Top(m) + r + 1, c)
    <3>. DEFINE kept == [q \in Rows |-> IF q + 1 \in Rows THEN d.cells[q + 1] ELSE Blank[q]]
    <3>1. b.cells = kept
      BY <2>1 DEF Scroll
    <3>2. b.cells[r] = IF r + 1 \in Rows THEN d.cells[r + 1] ELSE Blank[r]
      BY <3>1
    <3>. HIDE DEF kept
    <3>3. PICK i \in Nat \ {0} : i = Top(m) + r + 1 /\ i = t + (r + 1) + 1
      BY <1>10, <2>2
    <3>4. CASE r + 1 \in Rows
      <4>1. PICK q \in Rows : q = r + 1
        BY <3>4
      <4>2. b.cells[r][c] = d.cells[q][c]
        BY <3>2, <4>1
      <4>3. d.cells[q][c] = Glyph(l, t + q + 1, c)
        BY <1>9
      <4>4. i = t + q + 1
        BY <3>3, <4>1
      <4>5. b.cells[r][c] = Glyph(l, i, c)
        BY <4>2, <4>3, <4>4, Zenon
      <4>6. b.cells[r][c] = Glyph(m, i, c)
        BY <1>11, <4>5
      <4>7. QED
        BY <3>3, <4>6, Zenon
    <3>5. CASE r + 1 \notin Rows
      <4>1. i > n
        BY <1>10, <2>2, <3>3, <3>5
      <4>2. Blank[r][c] = " "
        BY DEF Blank
      <4>3. b.cells[r][c] = Glyph(m, i, c)
        BY <1>11, <3>2, <3>5, <4>1, <4>2
      <4>4. QED
        BY <3>3, <4>3, Zenon
    <3>6. QED
      BY <3>4, <3>5
  <2>5. QED
    BY <1>2, <1>4, <1>10, <1>12, <1>14, <2>3, <2>4 DEF Shows, Holds
<1>17. QED
  BY <1>15, <1>16

(***************************************************************************)
(* The cell that a linear address means: as long as the cursor is on the   *)
(* screen it is the one at its row and column, of the terminal's own page. *)
(***************************************************************************)
LEMMA RowAndColumn ==
  ASSUME NEW n \in Nat \ {0}, NEW y \in Nat, NEW x \in 0..(n - 1)
  PROVE  (n * y + x) \div n = y /\ (n * y + x) % n = x
<1>1. PICK k \in Nat : k = n * y + x
  OBVIOUS
<1>2. PICK q \in Int, r \in 0..(n - 1) : q = k \div n /\ r = k % n /\ k = n * q + r
  OBVIOUS
<1>3. n * (y - q) = r - x
  BY <1>1, <1>2
<1>4. y = q
  <2>1. PICK d \in Int : d = y - q
    OBVIOUS
  <2>2. n * d = r - x /\ r - x < n /\ r - x > -n
    BY <1>3, <2>1
  <2>3. ASSUME d >= 1
        PROVE  FALSE
    <3>1. n * d >= n
      BY <2>3
    <3>2. QED
      BY <2>2, <3>1
  <2>4. ASSUME d <= -1
        PROVE  FALSE
    <3>1. n * d <= -n
      BY <2>4
    <3>2. QED
      BY <2>2, <3>1
  <2>5. QED
    BY <2>1, <2>3, <2>4
<1>5. x = r
  BY <1>3, <1>4
<1>6. QED
  BY <1>1, <1>2, <1>4, <1>5

PutAt(s, c) == [s EXCEPT !.cells[s.y][s.x] = c]

LEMMA PokeHere ==
  ASSUME screen \in [Terminals -> Screens], NEW t \in Terminals, NEW c \in Characters,
         OnScreen(screen[t])
  PROVE  Poke(t, Address(screen[t]), c)[t] = PutAt(screen[t], c)
<1>1. PICK s \in Screens : s = screen[t]
  OBVIOUS
<1>2. PICK C \in Nat \ {0}, R \in Nat \ {0}, P \in Nat \ {0} :
        C = NUM_COLS /\ R = NUM_ROWS /\ P = PAGE_CELLS /\ P >= C * R
  <2>1. PICK C \in Nat \ {0}, R \in Nat \ {0} : C = NUM_COLS /\ R = NUM_ROWS
    BY SizeAssumption
  <2>2. C * R \in Nat \ {0}
    OBVIOUS
  <2>3. PAGE_CELLS \in Nat \ {0} /\ PAGE_CELLS >= C * R
    BY <2>1, <2>2, PageAssumption
  <2>4. QED
    BY <2>1, <2>3
<1>3. PICK x \in 0..(C - 1), y \in 0..(R - 1) : x = s.x /\ y = s.y
  BY <1>1, <1>2 DEF OnScreen, Cols, Rows
<1>4. PICK k \in Nat : k = C * y + x /\ k = Address(s)
  BY <1>2, <1>3 DEF Address
<1>5. k < C * R /\ k < P
  <2>1. C * y <= C * (R - 1)
    OBVIOUS
  <2>2. C * (R - 1) = C * R - C
    OBVIOUS
  <2>3. QED
    BY <1>2, <1>4, <2>1, <2>2
<1>6. k \div P = 0 /\ k % P = k
  BY <1>5
<1>7. Hits(t, k, t)
  BY <1>2, <1>5, <1>6 DEF Hits
<1>8. k \div NUM_COLS = y /\ k % NUM_COLS = x
  BY <1>2, <1>4, RowAndColumn
<1>9. Poke(t, k, c)[t] = Put(s, k, c)
  BY <1>1, <1>2, <1>6, <1>7 DEF Poke
<1>10. Put(s, k, c) = [s EXCEPT !.cells[y][x] = c]
  BY <1>8 DEF Put
<1>11. QED
  BY <1>1, <1>3, <1>4, <1>9, <1>10 DEF PutAt

(***************************************************************************)
(* The letter put at the cursor, with the cursor right of it, perhaps past *)
(* the last column.                                                        *)
(***************************************************************************)
LEMMA ShowsOnScreen ==
  ASSUME NEW s, NEW l \in Pages, Shows(s, l)
  PROVE  OnScreen(s) /\ s.y # NUM_ROWS
<1>1. PICK n \in Nat \ {0} : n = Len(l)
  BY PageFacts
<1>2. PICK R \in Nat \ {0} : R = NUM_ROWS
  BY SizeAssumption
<1>3. s.y = n - (IF n > R THEN n - R ELSE 0) - 1
  BY <1>1, <1>2 DEF Shows, Holds, Top
<1>4. s.y \in 0..(R - 1)
  BY <1>3
<1>5. QED
  BY <1>2, <1>4 DEF OnScreen, Shows, Rows

LEMMA PutAtPlace ==
  ASSUME NEW s \in Screens, NEW c \in Characters, OnScreen(s)
  PROVE  /\ PutAt(s, c) \in Screens /\ PutAt(s, c).x = s.x /\ PutAt(s, c).y = s.y
         /\ PutAt(s, c).cells = [s.cells EXCEPT ![s.y][s.x] = c]
<1>1. PICK x \in Cols, y \in Rows : x = s.x /\ y = s.y
  BY DEF OnScreen
<1>2. PICK cells : cells = [s.cells EXCEPT ![y][x] = c]
  OBVIOUS
<1>3. cells \in [Rows -> [Cols -> Characters]]
  BY <1>2 DEF Screens
<1>4. PutAt(s, c) = [s EXCEPT !.cells = cells]
  BY <1>1, <1>2 DEF PutAt, Screens
<1>5. QED
  BY <1>1, <1>2, <1>3, <1>4 DEF Screens

LEMMA LetterHolds ==
  ASSUME NEW s \in Screens, NEW l \in Pages, NEW ch \in Characters, Shows(s, l),
         NEW s2, s2 = Right(PutAt(s, ch)),
         NEW m, m = LetterOn(l, ch)
  PROVE  s2 \in Screens /\ Holds(s2, m) /\ s2.x = Len(m[Len(m)]) /\ s2.x \in 1..NUM_COLS
<1>1. PICK n \in Nat \ {0} : n = Len(l)
  BY PageFacts
<1>2. PICK R \in Nat \ {0} : R = NUM_ROWS
  BY SizeAssumption
<1>3. PICK t \in Nat : t = Top(l) /\ t = IF n > R THEN n - R ELSE 0
  <2>1. Top(l) = IF n > R THEN n - R ELSE 0
    BY <1>1, <1>2 DEF Top
  <2>2. (IF n > R THEN n - R ELSE 0) \in Nat
    OBVIOUS
  <2>3. QED
    BY <2>1, <2>2
<1>4. Len(m) = n /\ m[n] = Append(l[n], ch) /\ m \in Pages
  BY <1>1, LetterOnPage
<1>5. Top(m) = t
  BY <1>1, <1>3, <1>4 DEF Top
<1>6. PICK x, y : x = s.x /\ y = s.y
  OBVIOUS
<1>7. y = n - t - 1 /\ x = Len(l[n]) /\ x \in Cols
  BY <1>1, <1>3, <1>6 DEF Shows, Holds
<1>8. y \in Rows
  BY <1>2, <1>3, <1>7 DEF Rows
<1>9. OnScreen(s)
  BY ShowsOnScreen
<1>10. PICK p \in Screens : /\ p = PutAt(s, ch)
                           /\ p.cells = [s.cells EXCEPT ![y][x] = ch] /\ p.x = x /\ p.y = y
  BY <1>6, <1>9, PutAtPlace
<1>11. s2 \in Screens /\ s2.x = x + 1 /\ s2.y = y /\ s2.cells = p.cells
  BY <1>10, RightPlace DEF Right, Screens
<1>12. ASSUME NEW r \in Rows, NEW c \in Cols
       PROVE  s2.cells[r][c] = Glyph(m, Top(m) + r + 1, c)
  <2>1. PICK i \in Nat \ {0} : i = t + r + 1 /\ i = Top(m) + r + 1 /\ i = Top(l) + r + 1
    <3>1. r \in Nat
      BY SizeAssumption DEF Rows
    <3>2. t + r + 1 \in Nat \ {0}
      BY <3>1
    <3>3. QED
      BY <1>3, <1>5, <3>2
  <2>2. s.cells \in [Rows -> [Cols -> Characters]]
    BY DEF Screens
  <2>3. s2.cells[r][c] = IF r = y /\ c = x THEN ch ELSE s.cells[r][c]
    BY <1>7, <1>8, <1>10, <1>11, <2>2
  <2>4. s.cells[r][c] = Glyph(l, i, c)
    BY <2>1, Zenon DEF Shows, Holds
  <2>5. r = y <=> i = n
    BY <1>7, <2>1 DEF Rows
  <2>6. Glyph(m, i, c) = IF i = n /\ c = x THEN ch ELSE Glyph(l, i, c)
    BY <1>1, <1>7, LetterGlyph
  <2>7. s2.cells[r][c] = Glyph(m, i, c)
    <3>1. CASE i = n /\ c = x
      BY <2>3, <2>5, <2>6, <3>1
    <3>2. CASE ~(i = n /\ c = x)
      BY <2>3, <2>4, <2>5, <2>6, <3>2
    <3>3. QED
      BY <3>1, <3>2
  <2>8. QED
    BY <2>1, <2>7, Zenon
<1>13. Len(Append(l[n], ch)) = x + 1
  <2>1. l[n] \in Seq(Characters)
    BY <1>1, PageFacts
  <2>2. Len(Append(l[n], ch)) = Len(l[n]) + 1
    BY <2>1, AppendProperties
  <2>3. QED
    BY <1>7, <2>2
<1>14. x + 1 \in 1..NUM_COLS
  BY <1>7, SizeAssumption DEF Cols
<1>15. s2.y = Len(m) - Top(m) - 1
  BY <1>4, <1>5, <1>7, <1>11
<1>16. Holds(s2, m)
  BY <1>12, <1>15 DEF Holds
<1>17. QED
  BY <1>4, <1>11, <1>13, <1>14, <1>16

(***************************************************************************)
(* A whole putc of a letter or a newline breaks the lines shown as Broken  *)
(* does.                                                                   *)
(***************************************************************************)
AfterPutc(s, c) ==
  IF c = "newline" THEN Bottom(Down(s)) ELSE Bottom(Wrap(Right(PutAt(s, c))))

LEMMA PutcShows ==
  ASSUME NEW s \in Screens, NEW l \in Pages, Shows(s, l),
         NEW c \in Characters
  PROVE  Shows(AfterPutc(s, c), Broken(l, c))
<1>1. CASE c = "newline"
  <2>1. AfterPutc(s, c) = Bottom(Down(s))
    BY <1>1 DEF AfterPutc
  <2>2. Broken(l, c) = Append(l, <<>>)
    BY <1>1, BrokenIs
  <2>3. QED
    BY <1>1, <2>1, <2>2, DownShows DEF Shows
<1>2. CASE c # "newline"
  <2>1. PICK s2 : s2 = Right(PutAt(s, c))
    OBVIOUS
  <2>2. PICK m : m = LetterOn(l, c)
    OBVIOUS
  <2>3. AfterPutc(s, c) = Bottom(Wrap(s2))
    BY <1>2, <2>1 DEF AfterPutc
  <2>4. s2 \in Screens /\ Holds(s2, m) /\ s2.x = Len(m[Len(m)]) /\ s2.x \in 1..NUM_COLS
    BY <2>1, <2>2, LetterHolds
  <2>5. Broken(l, c) = IF Len(m[Len(m)]) = NUM_COLS THEN Append(m, <<>>) ELSE m
    BY <1>2, <2>2, BrokenIs DEF Last
  <2>6. m \in Pages
    BY <2>2, LetterOnPage
  <2>7. CASE s2.x = NUM_COLS
    <3>1. Wrap(s2) = Down(s2)
      <4>1. s2.x % NUM_COLS = 0 /\ s2.x >= NUM_COLS
        BY <2>7, SizeAssumption
      <4>2. QED
        BY <4>1 DEF Wrap, Down
    <3>2. Broken(l, c) = Append(m, <<>>)
      BY <2>4, <2>5, <2>7
    <3>3. QED
      BY <1>2, <2>1, <2>3, <2>4, <2>6, <3>1, <3>2, DownShows
  <2>8. CASE s2.x # NUM_COLS
    <3>1. s2.x \in Cols /\ s2.x < NUM_COLS
      <4>1. PICK n \in Nat \ {0} : n = NUM_COLS
        BY SizeAssumption
      <4>2. PICK x \in 1..n : x = s2.x
        BY <2>4, <4>1
      <4>3. x # n
        BY <2>8, <4>1, <4>2
      <4>4. x \in 0..(n - 1) /\ x < n
        BY <4>3
      <4>5. QED
        BY <4>1, <4>2, <4>4 DEF Cols
    <3>2. Wrap(s2) = s2
      BY <2>4, <3>1, WrapPlace
    <3>3. Broken(l, c) = m
      BY <2>4, <2>5, <2>8
    <3>4. Shows(s2, m)
      BY <2>4, <3>1 DEF Shows
    <3>5. Bottom(s2) = s2
      <4>1. s2.y # NUM_ROWS
        <5>1. PICK n \in Nat \ {0} : n = Len(m)
          BY <2>6, PageFacts
        <5>2. PICK R \in Nat \ {0} : R = NUM_ROWS
          BY SizeAssumption
        <5>3. s2.y = n - (IF n > R THEN n - R ELSE 0) - 1
          BY <2>4, <5>1, <5>2 DEF Holds, Top
        <5>4. QED
          BY <5>2, <5>3
      <4>2. QED
        BY <2>4, <4>1, BottomPlace
    <3>6. QED
      BY <1>2, <2>1, <2>3, <3>2, <3>3, <3>4, <3>5
  <2>9. QED
    BY <2>7, <2>8
<1>3. QED
  BY <1>1, <1>2

(***************************************************************************)
(* The invariant: what a screen will show once the call of putc in         *)
(* progress has done its wrap and its scroll (Finished).                   *)
(***************************************************************************)
Finished(p, s) ==
  IF p = "wrap" THEN Bottom(Wrap(s)) ELSE IF p = "bottom" THEN Bottom(s) ELSE s

TextShown(t) ==
  /\ text[t] \in Seq(Characters)
  /\ ~torn[t] /\ pc[t] \in {"erase", "left"} => Contains(text[t], "backspace")
  /\ ~torn[t] /\ ~spilled[t] /\ ~Contains(text[t], "backspace") =>
       Shows(Finished(pc[t], screen[t]), Lines(t))

TextInv ==
  /\ DOMAIN text = Terminals /\ DOMAIN spilled = Terminals
  /\ \A t \in Terminals : TextShown(t)

(***************************************************************************)
(* A clear screen shows the empty text.                                    *)
(***************************************************************************)
LEMMA EmptyShown == Shows(Cleared, Layout(<<>>)) /\ <<>> \in Seq(Characters)
<1>1. <<>> \in Seq(Characters) /\ Len(<<>>) = 0
  BY EmptySeq
<1>2. LayoutBy(<<>>)[0] = << <<>> >>
  BY <1>1, LayoutSteps
<1>3. Layout(<<>>) = << <<>> >>
  BY <1>1, <1>2, LayoutIs
<1>4. PICK l : l = << <<>> >>
  OBVIOUS
<1>5. Len(l) = 1 /\ l[1] = <<>>
  BY <1>4
<1>6. Top(l) = 0
  BY <1>5, SizeAssumption DEF Top
<1>7. ASSUME NEW r \in Rows, NEW c \in Cols
      PROVE  Cleared.cells[r][c] = Glyph(l, Top(l) + r + 1, c)
  <2>1. PICK i \in Nat : i = Top(l) + r + 1
    BY <1>6, SizeAssumption DEF Rows
  <2>2. Glyph(l, i, c) = IF i <= 1 /\ c < Len(l[i]) THEN l[i][c + 1] ELSE " "
    BY <1>5, GlyphIs
  <2>3. ~(i <= 1 /\ c < Len(l[i]))
    <3>1. ASSUME i <= 1
          PROVE  i = 1
      BY <1>6, <2>1, <3>1, SizeAssumption DEF Rows
    <3>2. c \in Int /\ ~(c < 0)
      BY SizeAssumption DEF Cols
    <3>3. i = 1 => ~(c < Len(l[i]))
      <4>1. Len(l[1]) = 0
        BY <1>1, <1>5
      <4>2. QED
        BY <3>2, <4>1
    <3>4. QED
      BY <3>1, <3>3
  <2>4. Glyph(l, i, c) = " "
    BY <2>2, <2>3
  <2>5. Cleared.cells[r][c] = " "
    BY DEF Cleared, Blank
  <2>6. QED
    BY <2>1, <2>4, <2>5, Zenon
<1>8. Cleared.x = 0 /\ Cleared.y = 0 /\ 0 \in Cols
  BY ClearedPlace, SizeAssumption DEF Cols
<1>9. Cleared.y = Len(l) - Top(l) - 1 /\ Cleared.x = Len(l[Len(l)])
  BY <1>1, <1>5, <1>6, <1>8
<1>10. Shows(Cleared, l)
  BY <1>7, <1>8, <1>9 DEF Shows, Holds
<1>11. QED
  BY <1>1, <1>3, <1>4, <1>10

LEMMA TextInit ==
  ASSUME Init
  PROVE  TextInv
<1>1. ASSUME NEW t \in Terminals
      PROVE  TextShown(t)
  <2>1. text[t] = <<>> /\ screen[t] = Cleared /\ pc[t] = "idle"
    BY DEF Init
  <2>2. QED
    BY <2>1, EmptyShown DEF TextShown, Finished, Lines
<1>2. QED
  BY <1>1 DEF Init, TextInv

(***************************************************************************)
(* A terminal whose screen, text and call stay; a call of putc that goes   *)
(* on; a call that begins, of the program or of the keyboard, with the     *)
(* character it appends to the text.                                       *)
(***************************************************************************)
LEMMA OthersShown ==
  ASSUME NEW t \in Terminals, TextShown(t),
         pc'[t] = pc[t], text'[t] = text[t], ~torn'[t] => ~torn[t],
         ~spilled'[t] => ~spilled[t] /\ screen'[t] = screen[t]
  PROVE  TextShown(t)'
BY DEF TextShown, Lines

LEMMA InsideShown ==
  ASSUME NEW t \in Terminals, TextShown(t), text'[t] = text[t], torn'[t] = torn[t],
         spilled'[t] = spilled[t], pc'[t] \notin {"erase", "left"},
         Finished(pc'[t], screen'[t]) = Finished(pc[t], screen[t])
  PROVE  TextShown(t)'
BY DEF TextShown, Lines

LEMMA CharacterShown ==
  ASSUME NEW t \in Terminals, TextShown(t), screen[t] \in Screens, pc[t] = "idle",
         NEW c \in Characters, text'[t] = Append(text[t], c),
         ~torn'[t] => ~torn[t], ~spilled'[t] => ~spilled[t],
         pc'[t] \in {"erase", "left"} => c = "backspace",
         c # "backspace" /\ ~torn'[t] /\ ~spilled'[t] /\ OnScreen(screen[t]) =>
           Finished(pc'[t], screen'[t]) = AfterPutc(screen[t], c)
  PROVE  TextShown(t)'
<1>1. PICK txt \in Seq(Characters) : txt = text[t]
  BY DEF TextShown
<1>2. PICK long \in Seq(Characters) : long = Append(txt, c)
  BY AppendProperties
<1>3. text'[t] = long /\ Lines(t) = Layout(txt) /\ Lines(t)' = Layout(long)
  BY <1>1, <1>2 DEF Lines
<1>4. Contains(txt, "backspace") \/ c = "backspace" => Contains(long, "backspace")
  <2>1. PICK n \in Nat : n = Len(txt)
    BY <1>1
  <2>2. Len(long) = n + 1 /\ long[n + 1] = c /\ \A i \in 1..n : long[i] = txt[i]
    BY <1>2, <2>1, AppendProperties
  <2>3. n + 1 \in 1..(n + 1) /\ \A i \in 1..n : i \in 1..(n + 1)
    OBVIOUS
  <2>4. ASSUME Contains(txt, "backspace")
        PROVE  Contains(long, "backspace")
    <3>1. PICK i \in 1..n : txt[i] = "backspace"
      BY <2>1, <2>4 DEF Contains
    <3>2. QED
      BY <2>2, <2>3, <3>1 DEF Contains
  <2>5. ASSUME c = "backspace"
        PROVE  Contains(long, "backspace")
    <3>1. PICK k \in 1..Len(long) : k = n + 1
      BY <2>2, <2>3
    <3>2. long[k] = "backspace"
      BY <2>2, <2>5, <3>1
    <3>3. QED
      BY <3>2 DEF Contains
  <2>6. QED
    BY <2>4, <2>5
<1>5. ASSUME ~torn'[t], ~spilled'[t], ~Contains(long, "backspace")
      PROVE  Shows(Finished(pc'[t], screen'[t]), Layout(long))
  <2>1. c # "backspace" /\ ~Contains(txt, "backspace")
    BY <1>4, <1>5
  <2>2. Shows(screen[t], Layout(txt))
    BY <1>1, <1>3, <1>5, <2>1 DEF TextShown, Finished
  <2>3. Layout(txt) \in Pages /\ Layout(long) = Broken(Layout(txt), c)
    BY <1>2, LayoutPage, LayoutAppend
  <2>4. Shows(AfterPutc(screen[t], c), Layout(long)) /\ OnScreen(screen[t])
    BY <2>2, <2>3, PutcShows, ShowsOnScreen
  <2>5. Finished(pc'[t], screen'[t]) = AfterPutc(screen[t], c)
    BY <1>5, <2>1, <2>4
  <2>6. QED
    BY <2>4, <2>5
<1>6. QED
  BY <1>2, <1>3, <1>4, <1>5 DEF TextShown

-----------------------------------------------------------------------------

(***************************************************************************)
(* What the calls for terminal v write, and what they record of it: its    *)
(* own cell, at the cursor; the pages of others are spoilt.                *)
(***************************************************************************)
LEMMA PokeShown ==
  ASSUME VarsTyped, TextInv, NEW v \in Terminals, NEW k, NEW c \in Characters,
         spilled' = Spills(v, k), NEW poked, poked = Poke(v, k, c), NEW s2,
         screen' = [poked EXCEPT ![v] = s2]
  PROVE  /\ DOMAIN spilled' = Terminals /\ screen'[v] = s2
         /\ spilled'[v] = (spilled[v] \/ FALSE)
         /\ \A u \in Terminals \ {v} :
              ~spilled'[u] => ~spilled[u] /\ screen'[u] = screen[u]
<1>1. /\ poked \in [Terminals -> Screens]
      /\ \A u \in Terminals : u # v /\ ~Spills(v, k)[u] => poked[u] = screen[u] /\ ~spilled[u]
      /\ Spills(v, k)[v] = (spilled[v] \/ FALSE)
  BY PokePlace DEF VarsTyped
<1>2. DOMAIN spilled' = Terminals
  BY DEF Spills
<1>3. screen'[v] = s2 /\ \A u \in Terminals \ {v} : screen'[u] = poked[u]
  BY <1>1
<1>4. QED
  BY <1>1, <1>2, <1>3

LEMMA WriteShows ==
  ASSUME CInv, TextInv, NEW c \in Written, Write(c)
  PROVE  TextInv'
<1>. DEFINE s == screen[current]
<1>1. /\ VarsTyped /\ current \in Terminals /\ s \in Screens
      /\ screen \in [Terminals -> Screens] /\ DOMAIN pc = Terminals
      /\ c \in Characters /\ pc[current] = "idle" /\ torn' = torn
      /\ text' = [text EXCEPT ![current] = Append(@, c)]
      /\ DOMAIN text = Terminals /\ DOMAIN spilled = Terminals
  BY DEF CInv, VarsTyped, Write, At, Characters, Recorded, TextInv
<1>2. DOMAIN text' = Terminals
  BY <1>1
<1>3. PICK p2 : pc' = [pc EXCEPT ![current] = p2]
  BY <1>1 DEF Write, WriteBackspace, WriteNewline, WriteLetter, Ends, Goto
<1>4. /\ DOMAIN spilled' = Terminals
      /\ \A u \in Terminals \ {current} :
           ~spilled'[u] => ~spilled[u] /\ screen'[u] = screen[u]
      /\ ~spilled'[current] => ~spilled[current]
      /\ p2 \in {"erase", "left"} => c = "backspace"
      /\ c # "backspace" /\ OnScreen(s) => Finished(p2, screen'[current]) = AfterPutc(s, c)
  <2>1. CASE c = "backspace"
    <3>1. PICK s2 : screen' = [screen EXCEPT ![current] = s2] /\ spilled' = spilled
      BY <2>1 DEF Write, WriteBackspace, Ends, Becomes
    <3>2. QED
      BY <1>1, <2>1, <3>1
  <2>2. CASE c = "newline"
    <3>1. /\ screen' = [screen EXCEPT ![current] = Down(s)] /\ spilled' = spilled
          /\ pc' = [pc EXCEPT ![current] = "bottom"]
      BY <2>2 DEF Write, WriteNewline, Becomes, Goto
    <3>2. p2 = "bottom" /\ screen'[current] = Down(s)
          /\ \A u \in Terminals \ {current} : screen'[u] = screen[u]
      BY <1>1, <1>3, <3>1
    <3>3. Finished(p2, screen'[current]) = AfterPutc(s, c)
      BY <2>2, <3>2 DEF Finished, AfterPutc
    <3>4. QED
      BY <1>1, <3>1, <3>2, <3>3
  <2>3. CASE c \notin {"backspace", "newline"}
    <3>1. WriteLetter(c)
      BY <2>3 DEF Write
    <3>2. PICK k : k = Address(s)
      OBVIOUS
    <3>3. PICK poked : poked = Poke(current, k, c)
      OBVIOUS
    <3>4. poked \in [Terminals -> Screens]
      BY <1>1, <3>3, PokePlace
    <3>5. PICK r : r = Right(poked[current])
      OBVIOUS
    <3>6. /\ screen' = [poked EXCEPT ![current] = r] /\ spilled' = Spills(current, k)
          /\ pc' = [pc EXCEPT ![current] = "wrap"]
      BY <1>1, <3>1, <3>2, <3>3, <3>4, <3>5 DEF WriteLetter, Goto
    <3>7. /\ DOMAIN spilled' = Terminals /\ screen'[current] = r
          /\ spilled'[current] = (spilled[current] \/ FALSE)
          /\ \A u \in Terminals \ {current} :
               ~spilled'[u] => ~spilled[u] /\ screen'[u] = screen[u]
      BY <1>1, <3>3, <3>6, PokeShown
    <3>8. p2 = "wrap"
      BY <1>1, <1>3, <3>6
    <3>9. OnScreen(s) => r = Right(PutAt(s, c))
      BY <1>1, <3>2, <3>3, <3>5, PokeHere
    <3>10. OnScreen(s) => Finished(p2, screen'[current]) = AfterPutc(s, c)
      BY <2>3, <3>7, <3>8, <3>9 DEF Finished, AfterPutc
    <3>11. QED
      BY <3>7, <3>8, <3>10
  <2>4. QED
    BY <2>1, <2>2, <2>3
<1>5. ASSUME NEW t \in Terminals
      PROVE  TextShown(t)'
  <2>1. CASE t # current
    <3>1. pc'[t] = pc[t] /\ text'[t] = text[t] /\ torn'[t] = torn[t]
      BY <1>1, <1>3, <2>1
    <3>2. QED
      BY <1>4, <2>1, <3>1, OthersShown DEF TextInv
  <2>2. CASE t = current
    <3>1. /\ pc'[t] = p2 /\ torn'[t] = torn[t] /\ text'[t] = Append(text[t], c)
          /\ TextShown(t) /\ screen[t] \in Screens /\ pc[t] = "idle"
      BY <1>1, <1>3, <2>2 DEF TextInv
    <3>2. /\ ~spilled'[t] => ~spilled[t]
          /\ pc'[t] \in {"erase", "left"} => c = "backspace"
          /\ c # "backspace" /\ OnScreen(screen[t]) =>
               Finished(pc'[t], screen'[t]) = AfterPutc(screen[t], c)
      BY <1>4, <2>2, <3>1
    <3>3. QED
      BY <1>1, <3>1, <3>2, CharacterShown
  <2>3. QED
    BY <2>1, <2>2
<1>6. QED
  BY <1>2, <1>4, <1>5 DEF TextInv

LEMMA StepEraseShows ==
  ASSUME CInv, TextInv, StepErase
  PROVE  TextInv'
<1>1. /\ VarsTyped /\ current \in Terminals /\ pc[current] = "erase"
      /\ DOMAIN pc = Terminals /\ pc' = [pc EXCEPT ![current] = "left"]
      /\ UNCHANGED <<text, torn>>
  BY DEF CInv, VarsTyped, StepErase, At, Goto
<1>2. PICK b \in Characters : b = " "
  BY DEF Characters
<1>3. PICK k, poked : k = Address(screen[current]) - 1 /\ poked = Poke(current, k, b)
  OBVIOUS
<1>4. spilled' = Spills(current, k) /\ screen' = poked
  BY <1>2, <1>3 DEF StepErase
<1>5. poked \in [Terminals -> Screens]
  BY <1>3, PokePlace DEF CInv, VarsTyped
<1>6. PICK s2 : s2 = poked[current]
  OBVIOUS
<1>7. screen' = [poked EXCEPT ![current] = s2]
  BY <1>4, <1>5, <1>6
<1>8. /\ DOMAIN spilled' = Terminals
      /\ spilled'[current] = (spilled[current] \/ FALSE)
      /\ \A u \in Terminals \ {current} :
           ~spilled'[u] => ~spilled[u] /\ screen'[u] = screen[u]
  BY <1>1, <1>3, <1>4, <1>7, PokeShown
<1>9. ASSUME NEW t \in Terminals
      PROVE  TextShown(t)'
  <2>1. CASE t # current
    BY <1>1, <1>8, <2>1, OthersShown DEF TextInv
  <2>2. CASE t = current
    <3>1. ~torn'[t] => Contains(text'[t], "backspace")
      BY <1>1, <2>2 DEF TextInv, TextShown
    <3>2. text'[t] \in Seq(Characters)
      BY <1>1 DEF TextInv, TextShown
    <3>3. QED
      BY <3>1, <3>2 DEF TextShown
  <2>3. QED
    BY <2>1, <2>2
<1>10. QED
  BY <1>1, <1>8, <1>9 DEF TextInv

(***************************************************************************)
(* A step of the rest of a call for one terminal, without a character.     *)
(***************************************************************************)
LEMMA GoesOnShows ==
  ASSUME CInv, TextInv, NEW s, NEW p,
         screen' = [screen EXCEPT ![current] = s], pc' = [pc EXCEPT ![current] = p],
         UNCHANGED <<text, torn, spilled>>, p \notin {"erase", "left"},
         \/ pc[current] = "left"
         \/ Finished(p, s) = Finished(pc[current], screen[current])
  PROVE  TextInv'
<1>1. /\ current \in Terminals /\ DOMAIN pc = Terminals /\ DOMAIN screen = Terminals
  BY DEF CInv, VarsTyped
<1>2. ASSUME NEW t \in Terminals
      PROVE  TextShown(t)'
  <2>1. CASE t # current
    <3>1. screen'[t] = screen[t] /\ pc'[t] = pc[t]
      BY <1>1, <2>1
    <3>2. QED
      BY <3>1, OthersShown DEF TextInv
  <2>2. CASE t = current
    <3>1. screen'[t] = s /\ pc'[t] = p
      BY <1>1, <2>2
    <3>2. CASE pc[current] = "left"
      <4>1. text'[t] \in Seq(Characters) /\ (~torn'[t] => Contains(text'[t], "backspace"))
        BY <2>2, <3>2 DEF TextInv, TextShown
      <4>2. QED
        BY <4>1 DEF TextShown
    <3>3. CASE Finished(p, s) = Finished(pc[current], screen[current])
      BY <2>2, <3>1, <3>3, InsideShown DEF TextInv
    <3>4. QED
      BY <3>2, <3>3
  <2>3. QED
    BY <2>1, <2>2
<1>3. QED
  BY <1>2 DEF TextInv

LEMMA InsideShows ==
  ASSUME CInv, TextInv, StepLeft \/ StepWrap \/ StepBottom \/ StepCursor
  PROVE  TextInv'
<1>1. screen \in [Terminals -> Screens] /\ current \in Terminals
  BY DEF CInv, VarsTyped
<1>2. UNCHANGED <<text, torn, spilled>>
  BY DEF StepLeft, StepWrap, StepBottom, StepCursor, hidden
<1>3. CASE StepLeft
  <2>1. PICK s : s = Left(screen[current])
    OBVIOUS
  <2>2. PICK p \in {"idle", "cursor"} : pc' = [pc EXCEPT ![current] = p]
    BY <1>3 DEF StepLeft, Ends, Goto
  <2>3. screen' = [screen EXCEPT ![current] = s] /\ pc[current] = "left"
    BY <1>3, <2>1 DEF StepLeft, Ends, Becomes, At
  <2>4. QED
    BY <1>2, <2>2, <2>3, GoesOnShows
<1>4. CASE StepWrap
  <2>1. PICK s, p : s = Wrap(screen[current]) /\ p = "bottom"
    OBVIOUS
  <2>2. /\ screen' = [screen EXCEPT ![current] = s]
        /\ pc' = [pc EXCEPT ![current] = p] /\ pc[current] = "wrap"
    BY <1>4, <2>1 DEF StepWrap, Becomes, Goto, At
  <2>3. p \notin {"erase", "left"} /\ Finished(p, s) = Finished(pc[current], screen[current])
    BY <2>1, <2>2 DEF Finished
  <2>4. QED
    BY <1>2, <2>2, <2>3, GoesOnShows
<1>5. CASE StepBottom
  <2>1. PICK s : s = Bottom(screen[current])
    OBVIOUS
  <2>2. PICK p \in {"idle", "cursor"} : pc' = [pc EXCEPT ![current] = p]
    BY <1>5 DEF StepBottom, Ends, Goto
  <2>3. screen' = [screen EXCEPT ![current] = s] /\ pc[current] = "bottom"
    BY <1>5, <2>1 DEF StepBottom, Ends, Becomes, At
  <2>4. Finished(p, s) = Finished(pc[current], screen[current])
    BY <2>1, <2>2, <2>3 DEF Finished
  <2>5. QED
    BY <1>2, <2>2, <2>3, <2>4, GoesOnShows
<1>6. CASE StepCursor
  <2>1. PICK s, p : s = screen[current] /\ p = "idle"
    OBVIOUS
  <2>2. /\ screen' = [screen EXCEPT ![current] = s]
        /\ pc' = [pc EXCEPT ![current] = p] /\ pc[current] = "cursor"
    BY <1>1, <1>6, <2>1 DEF StepCursor, Goto, At
  <2>3. p \notin {"erase", "left"} /\ Finished(p, s) = Finished(pc[current], screen[current])
    BY <2>1, <2>2 DEF Finished
  <2>4. QED
    BY <1>2, <2>2, <2>3, GoesOnShows
<1>7. QED
  BY <1>3, <1>4, <1>5, <1>6

LEMMA EchoShows ==
  ASSUME CInv, TextInv, NEW c \in Echoed, Echo(c)
  PROVE  TextInv'
<1>. DEFINE s == screen[display]
<1>1. /\ VarsTyped /\ display \in Terminals /\ s \in Screens /\ c \in Characters
      /\ screen \in [Terminals -> Screens] /\ torn \in [Terminals -> BOOLEAN]
      /\ torn' = [torn EXCEPT ![display] = @ \/ pc[display] # "idle"]
      /\ text' = [text EXCEPT ![display] = Append(@, c)]
      /\ DOMAIN text = Terminals /\ DOMAIN spilled = Terminals
      /\ UNCHANGED pc /\ Putc(c)
  BY DEF CInv, VarsTyped, Characters, Echo, Recorded, Torn, TextInv
<1>2. DOMAIN text' = Terminals
  BY <1>1
<1>3. /\ DOMAIN spilled' = Terminals
      /\ \A u \in Terminals \ {display} :
           ~spilled'[u] => ~spilled[u] /\ screen'[u] = screen[u]
      /\ ~spilled'[display] => ~spilled[display]
      /\ c # "backspace" /\ OnScreen(s) => screen'[display] = AfterPutc(s, c)
  <2>1. CASE c = "backspace"
    <3>1. CASE AtOrigin(s) /\ Displayed
      BY <1>1, <2>1, <3>1 DEF Putc, EraseChar
    <3>2. CASE ~(AtOrigin(s) /\ Displayed)
      <4>1. PICK b \in Characters, k \in {Address(Back(s)) - 1} : b = " "
        BY DEF Characters
      <4>2. PICK poked, s2 : poked = Poke(display, k, b) /\ s2 = Left(Back(poked[display]))
        OBVIOUS
      <4>3. poked \in [Terminals -> Screens]
        BY <1>1, <4>2, PokePlace
      <4>4. screen' = [poked EXCEPT ![display] = s2] /\ spilled' = Spills(display, k)
        BY <1>1, <2>1, <3>2, <4>1, <4>2, <4>3 DEF Putc, EraseChar
      <4>5. /\ DOMAIN spilled' = Terminals
            /\ spilled'[display] = (spilled[display] \/ FALSE)
            /\ \A u \in Terminals \ {display} :
                 ~spilled'[u] => ~spilled[u] /\ screen'[u] = screen[u]
        BY <1>1, <4>2, <4>4, PokeShown
      <4>6. QED
        BY <2>1, <4>5
    <3>3. QED
      BY <3>1, <3>2
  <2>2. CASE c = "newline"
    <3>1. screen' = [screen EXCEPT ![display] = Bottom(Down(s))] /\ spilled' = spilled
      BY <1>1, <2>2 DEF Putc, NewLine
    <3>2. screen'[display] = Bottom(Down(s))
          /\ \A u \in Terminals \ {display} : screen'[u] = screen[u]
      BY <1>1, <3>1
    <3>3. QED
      BY <1>1, <2>2, <3>1, <3>2 DEF AfterPutc
  <2>3. CASE c \notin {"backspace", "newline"}
    <3>1. PICK k : k = Address(s)
      OBVIOUS
    <3>2. PICK poked : poked = Poke(display, k, c)
      OBVIOUS
    <3>3. poked \in [Terminals -> Screens]
      BY <1>1, <3>2, PokePlace
    <3>4. PICK s2 : s2 = Bottom(Wrap(Right(poked[display])))
      OBVIOUS
    <3>5. screen' = [poked EXCEPT ![display] = s2] /\ spilled' = Spills(display, k)
      BY <1>1, <2>3, <3>1, <3>2, <3>3, <3>4 DEF Putc, PutLetter
    <3>6. /\ DOMAIN spilled' = Terminals /\ screen'[display] = s2
          /\ spilled'[display] = (spilled[display] \/ FALSE)
          /\ \A u \in Terminals \ {display} :
               ~spilled'[u] => ~spilled[u] /\ screen'[u] = screen[u]
      BY <1>1, <3>2, <3>5, PokeShown
    <3>7. OnScreen(s) => poked[display] = PutAt(s, c)
      BY <1>1, <3>1, <3>2, PokeHere
    <3>8. OnScreen(s) => s2 = AfterPutc(s, c)
      BY <2>3, <3>4, <3>7 DEF AfterPutc
    <3>9. QED
      BY <3>6, <3>8
  <2>4. QED
    BY <2>1, <2>2, <2>3
<1>4. ASSUME NEW t \in Terminals
      PROVE  TextShown(t)'
  <2>1. CASE t # display
    <3>1. pc'[t] = pc[t] /\ text'[t] = text[t] /\ torn'[t] = torn[t]
      BY <1>1, <2>1
    <3>2. QED
      BY <1>3, <2>1, <3>1, OthersShown DEF TextInv
  <2>2. CASE t = display
    <3>1. /\ pc'[t] = pc[t] /\ text'[t] = Append(text[t], c)
          /\ torn'[t] = (torn[t] \/ pc[t] # "idle")
          /\ TextShown(t) /\ screen[t] \in Screens /\ text[t] \in Seq(Characters)
      BY <1>1, <2>2 DEF TextInv, TextShown
    <3>2. CASE pc[t] = "idle"
      <4>1. /\ ~torn'[t] => ~torn[t]
            /\ ~spilled'[t] => ~spilled[t]
            /\ pc'[t] \notin {"erase", "left"}
            /\ c # "backspace" /\ OnScreen(screen[t]) =>
                 Finished(pc'[t], screen'[t]) = AfterPutc(screen[t], c)
        BY <1>3, <2>2, <3>1, <3>2 DEF Finished
      <4>2. QED
        BY <1>1, <3>1, <3>2, <4>1, CharacterShown
    <3>3. CASE pc[t] # "idle"
      <4>1. torn'[t] /\ text'[t] \in Seq(Characters)
        BY <1>1, <3>1, <3>3, AppendProperties
      <4>2. QED
        BY <4>1 DEF TextShown
    <3>4. QED
      BY <3>2, <3>3
  <2>3. QED
    BY <2>1, <2>2
<1>5. QED
  BY <1>2, <1>3, <1>4 DEF TextInv

LEMMA CtrlLShows ==
  ASSUME CInv, TextInv, CtrlL
  PROVE  TextInv'
<1>1. VarsTyped /\ display \in Terminals
  BY DEF CInv, VarsTyped
<1>2. /\ screen' = [screen EXCEPT ![display] = Cleared]
      /\ torn' = [torn EXCEPT ![display] = (pc[display] # "idle")]
      /\ text' = [text EXCEPT ![display] = <<>>]
      /\ spilled' = [spilled EXCEPT ![display] = FALSE]
      /\ UNCHANGED pc
  BY DEF CtrlL
<1>3. DOMAIN text' = Terminals /\ DOMAIN spilled' = Terminals
  BY <1>2 DEF TextInv
<1>4. ASSUME NEW t \in Terminals
      PROVE  TextShown(t)'
  <2>1. CASE t # display
    <3>1. /\ screen'[t] = screen[t] /\ pc'[t] = pc[t] /\ text'[t] = text[t]
          /\ torn'[t] = torn[t] /\ spilled'[t] = spilled[t]
      BY <1>1, <1>2, <2>1 DEF VarsTyped, TextInv
    <3>2. QED
      BY <3>1, OthersShown DEF TextInv
  <2>2. CASE t = display
    <3>1. /\ screen'[t] = Cleared /\ pc'[t] = pc[t] /\ text'[t] = <<>>
          /\ torn'[t] = (pc[t] # "idle")
      BY <1>1, <1>2, <2>2 DEF VarsTyped, TextInv
    <3>2. ~torn'[t] => pc'[t] = "idle" /\ Finished(pc'[t], screen'[t]) = Cleared
      BY <3>1 DEF Finished
    <3>3. Lines(t)' = Layout(<<>>)
      BY <3>1 DEF Lines
    <3>4. QED
      BY <3>1, <3>2, <3>3, EmptyShown DEF TextShown
  <2>3. QED
    BY <2>1, <2>2
<1>5. QED
  BY <1>3, <1>4 DEF TextInv

LEMMA OtherShows ==
  ASSUME TextInv, UNCHANGED <<screen, pc, text, torn, spilled>>
  PROVE  TextInv'
BY OthersShown DEF TextInv

(***************************************************************************)
(* ScreenShowsText says what a screen shows with the lines that are on it. *)
(***************************************************************************)
Matches(s, shown) ==
  /\ s.cells = [r \in Rows |-> [c \in Cols |->
       IF r < Len(shown) /\ c < Len(shown[r + 1]) THEN shown[r + 1][c + 1] ELSE " "]]
  /\ Place(s) = <<Len(Last(shown)), Len(shown) - 1>>

LEMMA ShownIsShown ==
  ASSUME NEW t \in Terminals, screen[t] \in Screens, pc[t] = "idle",
         TextShown(t), ~torn[t], ~spilled[t], ~Contains(text[t], "backspace"),
         NEW shown, shown = Shown(t)
  PROVE  Matches(screen[t], shown)
<1>1. PICK l : l = Lines(t)
  OBVIOUS
<1>2. l \in Pages /\ Shows(screen[t], l)
  BY <1>1, LayoutPage DEF TextShown, Finished, Lines
<1>3. PICK n \in Nat \ {0} : n = Len(l)
  BY <1>2, PageFacts
<1>4. PICK R \in Nat \ {0} : R = NUM_ROWS
  BY SizeAssumption
<1>5. PICK top \in Nat : top = Top(l) /\ top = (IF n > R THEN n - R ELSE 0) /\ top < n
  <2>1. Top(l) = IF n > R THEN n - R ELSE 0
    BY <1>3, <1>4 DEF Top
  <2>2. (IF n > R THEN n - R ELSE 0) \in Nat /\ (IF n > R THEN n - R ELSE 0) < n
    OBVIOUS
  <2>3. QED
    BY <2>1, <2>2
<1>6. PICK from \in Int : from = (IF n > R THEN n - R + 1 ELSE 1) /\ from = top + 1
  <2>1. (IF n > R THEN n - R + 1 ELSE 1) = top + 1
    BY <1>5
  <2>2. top + 1 \in Int
    OBVIOUS
  <2>3. QED
    BY <2>1, <2>2
<1>7. shown = SubSeq(l, from, n)
  BY <1>1, <1>3, <1>4, <1>6 DEF Shown
<1>8. \A i \in from..n : l[i] \in Seq(Characters)
  BY <1>2, <1>3, <1>6, PageFacts
<1>9. PICK k \in Nat \ {0} : k = n - top
  BY <1>5
<1>10. Len(shown) = k /\ \A i \in 1..k : shown[i] = l[top + i]
  <2>1. Len(shown) = IF from <= n THEN n - from + 1 ELSE 0
    BY <1>7, <1>8, SubSeqProperties
  <2>2. \A i \in 1..(n - from + 1) : shown[i] = l[from + i - 1]
    BY <1>7, <1>8, SubSeqProperties
  <2>3. from <= n /\ n - from + 1 = k /\ \A i \in 1..k : from + i - 1 = top + i
    BY <1>5, <1>6, <1>9
  <2>4. Len(shown) = k
    BY <2>1, <2>3
  <2>5. ASSUME NEW i \in 1..k
        PROVE  shown[i] = l[top + i]
    <3>1. i \in 1..(n - from + 1) /\ from + i - 1 = top + i
      BY <2>3
    <3>2. shown[i] = l[from + i - 1]
      BY <2>2, <3>1
    <3>3. QED
      BY <3>1, <3>2, Zenon
  <2>6. QED
    BY <2>4, <2>5
<1>11. ASSUME NEW r \in Rows, NEW c \in Cols
       PROVE  screen[t].cells[r][c] =
                IF r < Len(shown) /\ c < Len(shown[r + 1]) THEN shown[r + 1][c + 1] ELSE " "
  <2>1. r \in Nat
    BY SizeAssumption DEF Rows
  <2>2. PICK i \in Nat \ {0} : i = top + r + 1 /\ i = Top(l) + r + 1
    <3>1. top + r + 1 \in Nat \ {0}
      BY <2>1
    <3>2. QED
      BY <1>5, <3>1
  <2>3. screen[t].cells[r][c] = Glyph(l, i, c)
    BY <1>2, <2>2, Zenon DEF Shows, Holds
  <2>4. PICK row : row = l[i]
    OBVIOUS
  <2>5. Glyph(l, i, c) = IF i <= n /\ c < Len(row) THEN row[c + 1] ELSE " "
    BY <1>3, <2>4, GlyphIs
  <2>6. i <= n <=> r < k
    BY <1>9, <2>1, <2>2
  <2>7. r < k => shown[r + 1] = row
    <3>. SUFFICES ASSUME r < k
                  PROVE  shown[r + 1] = row
      OBVIOUS
    <3>1. PICK q \in 1..k : q = r + 1
      BY <2>1
    <3>2. shown[q] = l[top + q] /\ top + q = i
      BY <1>10, <2>2, <2>1, <3>1
    <3>3. shown[q] = row
      BY <2>4, <3>2, Zenon
    <3>4. QED
      BY <3>1, <3>3
  <2>8. CASE r < k
    <3>1. PICK v : v = IF c < Len(row) THEN row[c + 1] ELSE " "
      OBVIOUS
    <3>2. Glyph(l, i, c) = v
      BY <2>5, <2>6, <2>8, <3>1
    <3>3. (IF r < Len(shown) /\ c < Len(shown[r + 1]) THEN shown[r + 1][c + 1] ELSE " ") = v
      BY <1>10, <2>7, <2>8, <3>1
    <3>4. QED
      BY <2>3, <3>2, <3>3
  <2>9. CASE ~(r < k)
    <3>1. Glyph(l, i, c) = " "
      BY <2>5, <2>6, <2>9
    <3>2. (IF r < Len(shown) /\ c < Len(shown[r + 1]) THEN shown[r + 1][c + 1] ELSE " ") = " "
      BY <1>10, <2>9
    <3>3. QED
      BY <2>3, <3>1, <3>2
  <2>10. QED
    BY <2>8, <2>9
<1>12. screen[t].cells \in [Rows -> [Cols -> Characters]]
  BY DEF Screens
<1>13. screen[t].cells =
         [r \in Rows |-> [c \in Cols |->
            IF r < Len(shown) /\ c < Len(shown[r + 1]) THEN shown[r + 1][c + 1] ELSE " "]]
  <2>. DEFINE g(r, c) == IF r < Len(shown) /\ c < Len(shown[r + 1])
                         THEN shown[r + 1][c + 1] ELSE " "
  <2>1. PICK cells : cells = screen[t].cells
    OBVIOUS
  <2>2. /\ cells \in [Rows -> [Cols -> Characters]]
        /\ \A r \in Rows, c \in Cols : cells[r][c] = g(r, c)
    BY <1>11, <1>12, <2>1
  <2>. HIDE DEF g
  <2>3. cells = [r \in Rows |-> [c \in Cols |-> g(r, c)]]
    BY <2>2
  <2>4. QED
    BY <2>1, <2>3 DEF g
<1>14. Place(screen[t]) = <<Len(Last(shown)), Len(shown) - 1>>
  <2>1. screen[t].y = n - top - 1 /\ screen[t].x = Len(l[n])
    BY <1>2, <1>3, <1>5 DEF Shows, Holds
  <2>2. PICK q \in 1..k : q = k /\ top + q = n
    BY <1>9
  <2>3. shown[q] = l[n]
    BY <1>10, <2>2
  <2>4. Last(shown) = l[n]
    BY <1>10, <2>2, <2>3 DEF Last
  <2>5. screen[t].x = Len(Last(shown)) /\ screen[t].y = Len(shown) - 1
    BY <1>9, <1>10, <2>1, <2>4
  <2>6. QED
    BY <2>5, Zenon DEF Place
<1>15. QED
  BY <1>13, <1>14, Zenon DEF Matches

(***************************************************************************)
(* Letters and newlines leave on each screen the text since the last       *)
(* clear, broken into lines, and of these the last NUM_ROWS, whoever       *)
(* printed them and whichever terminal was displayed or ran (putc,         *)
(* lib.c:178-213): on screens of every size in pages of every size, for    *)
(* every number of terminals and texts of every length, as long as no key  *)
(* has torn a call of the terminal (torn) nor a cursor that a key has      *)
(* driven below its own screen has written into its page (spilled).        *)
(***************************************************************************)
THEOREM TextCorrect == Spec => []ScreenShowsText
<1>1. Init => TextInv
  BY TextInit
<1>2. CInv /\ TextInv /\ [Next]_vars => TextInv'
  <2>. SUFFICES ASSUME CInv, TextInv, [Next]_vars
                PROVE  TextInv'
    OBVIOUS
  <2>1. CASE \E c \in Written : Write(c)
    BY <2>1, WriteShows
  <2>2. CASE StepLeft \/ StepWrap \/ StepBottom \/ StepCursor
    BY <2>2, InsideShows
  <2>3. CASE \E c \in Echoed \ {"clear"} : Echo(c)
    BY <2>3, EchoShows
  <2>4. CASE CtrlL
    BY <2>4, CtrlLShows
  <2>5. CASE \E t \in Terminals : TerminalSwitch(t)
    BY <2>5, OtherShows DEF TerminalSwitch, hidden
  <2>6. CASE Tick
    BY <2>6, OtherShows DEF Tick, hidden
  <2>7. CASE UNCHANGED vars
    BY <2>7, OtherShows DEF vars, hidden
  <2>8. CASE StepErase
    BY <2>8, StepEraseShows
  <2>9. QED
    BY <2>1, <2>2, <2>3, <2>4, <2>5, <2>6, <2>7, <2>8 DEF Next
<1>3. CInv /\ TextInv => ScreenShowsText
  <2>. SUFFICES ASSUME CInv, TextInv, NEW t \in Terminals,
                       pc[t] = "idle", ~torn[t], ~spilled[t],
                       ~Contains(text[t], "backspace")
                PROVE  LET shown == Shown(t)
                           CellOf(r, c) ==
                             IF r < Len(shown) /\ c < Len(shown[r + 1])
                             THEN shown[r + 1][c + 1] ELSE " "
                       IN /\ screen[t].cells = [r \in Rows |-> [c \in Cols |-> CellOf(r, c)]]
                          /\ Place(screen[t]) = <<Len(Last(shown)), Len(shown) - 1>>
    BY DEF ScreenShowsText
  <2>1. PICK shown : shown = Shown(t)
    OBVIOUS
  <2>2. Matches(screen[t], shown)
    <3>1. screen[t] \in Screens /\ TextShown(t)
      BY DEF CInv, VarsTyped, TextInv
    <3>2. QED
      BY <2>1, <3>1, ShownIsShown
  <2>3. QED
    BY <2>1, <2>2, Zenon DEF Matches
<1>4. QED
  BY ConsoleInvariance, <1>1, <1>2, <1>3, PTL DEF Spec

=============================================================================
