-------------------------------- MODULE Fish --------------------------------
(***************************************************************************)
(* The program fish (fish.c): two text files become the two pictures of an *)
(* animation, a blinker for every place where one of them is not blank;    *)
(* then a blinker of its own is added, synchronised with the picture and   *)
(* removed, WAIT ticks of the RTC apart.                                   *)
(***************************************************************************)
EXTENDS Blink

CONSTANTS
  Frames,          \* [0..1 -> set of texts]: what the two files may be
  Missing,         \* a file that is not there, a member of Frames
  offset,          \* 40, the column of the picture
  Length,          \* 15, of the picture's blinkers, on and off
  HandAt, HandOn, HandOff,   \* 6*80+60, 7 and 6, of the other one
  WAIT,            \* 100
  Short            \* 2^16, of an unsigned short

ASSUME offsetAssumption == offset \in Cells \ {0}
ASSUME ShortAssumption == Short \in Nat \ {0}
ASSUME LengthAssumption == Length \in Nat \ {0} /\ HandOn \in Nat \ {0} /\ HandOff \in Nat \ {0}
ASSUME HandAssumption == HandAt \in Cells \ {0, offset}

(***************************************************************************)
(* The files are short enough for every location to fit its short, and for *)
(* every blinker, the other one too, to have a structure (theirs have less *)
(* than 250 characters).                                                   *)
(***************************************************************************)
Fits(t) ==
  Len(t) \in Nat /\ DOMAIN t = 1..Len(t) /\ Len(t) * (Width + 1) + offset <= Short

ASSUME FramesAssumption ==
  \A t \in Frames[0] \ {Missing}, u \in Frames[1] \ {Missing} :
    Fits(t) /\ Fits(u) /\ Len(t) + Len(u) < Slots

VARIABLES
  text,            \* [0..1 -> text], the files
  pos,             \* of their descriptors
  c,               \* c0 and c1
  eof,             \* eof0 and eof1
  row, col,
  phase,           \* of main
  ticks            \* the reads of the RTC so far

reader == <<text, pos, c, eof, row, col>>
vars == <<list, screen, reader, phase, ticks>>

Init ==
  /\ BlinkInit
  /\ text \in {t \in [0..1 -> Frames[0] \cup Frames[1]] : \A f \in 0..1 : t[f] \in Frames[f]}
  /\ pos = [f \in 0..1 |-> 0] /\ c = [f \in 0..1 |-> "0"] /\ eof = [f \in 0..1 |-> FALSE]
  /\ row = 0 /\ col = 0
  /\ phase = "open" /\ ticks = 0

-----------------------------------------------------------------------------

(***************************************************************************)
(* add_frames.  A file missing ends the program.                           *)
(***************************************************************************)
Open ==
  /\ phase = "open"
  /\ phase' = IF \E f \in 0..1 : text[f] = Missing THEN "end" ELSE "frames"
  /\ UNCHANGED <<list, screen, reader, ticks>>

(***************************************************************************)
(* The next character of a file: none after the end of its row, and at the *)
(* end of the file the row ends.                                           *)
(***************************************************************************)
AtEnd(f) == c[f] # "nl" /\ pos[f] = Len(text[f])
Char(f) == IF c[f] = "nl" \/ AtEnd(f) THEN "nl" ELSE text[f][pos[f] + 1]

ReadBoth ==
  /\ phase = "frames"
  /\ pos' = [f \in 0..1 |-> IF c[f] = "nl" \/ AtEnd(f) THEN pos[f] ELSE pos[f] + 1]
  /\ eof' = [f \in 0..1 |-> eof[f] \/ AtEnd(f)]
  /\ UNCHANGED <<text, ticks>>

Space == " "
Blank(char) == char \in {Space, "nl"}
Glyph(char) == IF char = "nl" THEN Space ELSE char
AllSeen == \A f \in 0..1 : ~ Blank(Char(f))
AnySeen == \E f \in 0..1 : ~ Blank(Char(f))

Column ==
  /\ ReadBoth
  /\ \E f \in 0..1 : Char(f) # "nl"
  /\ IF AnySeen
     THEN Add((row * Width + col + offset) % Short, Glyph(Char(0)), Glyph(Char(1)), Length, Length)
     ELSE UNCHANGED <<list, screen>>
  /\ c' = [f \in 0..1 |-> Char(f)]
  /\ col' = col + 1
  /\ UNCHANGED <<row, phase>>

Row ==
  /\ ReadBoth
  /\ \A f \in 0..1 : Char(f) = "nl"
  /\ c' = [f \in 0..1 |-> IF eof'[f] THEN "nl" ELSE "0"]
  /\ row' = row + 1 /\ col' = 0
  /\ phase' = IF \A f \in 0..1 : eof'[f] THEN "picture" ELSE "frames"
  /\ UNCHANGED <<list, screen>>

(***************************************************************************)
(* main, after add_frames: the phases and the tick that ends each.         *)
(***************************************************************************)
Until == [picture |-> WAIT, hand |-> 2 * WAIT, synced |-> 3 * WAIT, removed |-> 4 * WAIT]

Tick ==
  /\ phase \in DOMAIN Until /\ ticks < Until[phase]
  /\ mp1_rtc_tasklet
  /\ ticks' = ticks + 1
  /\ UNCHANGED <<reader, phase>>

Step(from, to, Ioctl) ==
  /\ phase = from /\ ticks = Until[from]
  /\ Ioctl
  /\ phase' = to
  /\ UNCHANGED <<reader, ticks>>

AddHand == Step("picture", "hand", Add(HandAt, "I", "M", HandOn, HandOff))
SyncHand == Step("hand", "synced", Sync(offset, HandAt))
RemoveHand == Step("synced", "removed", Remove(HandAt))
Return == Step("removed", "end", UNCHANGED <<list, screen>>)

Ended == phase = "end" /\ UNCHANGED vars

Next ==
  \/ Open \/ Column \/ Row
  \/ Tick \/ AddHand \/ SyncHand \/ RemoveHand \/ Return
  \/ Ended

Spec == Init /\ [][Next]_vars

-----------------------------------------------------------------------------

(***************************************************************************)
(* What the files say, as texts of rows: the row and column of a           *)
(* character, and the character a picture has at a place.                  *)
(***************************************************************************)
Breaks(t, i) == {j \in 1..(i - 1) : t[j] = "nl"}
Place(t, i) == << Cardinality(Breaks(t, i)), i - 1 - Max(Breaks(t, i) \cup {0}) >>
Letters(t) == {i \in DOMAIN t : ~ Blank(t[i])}
Picture(t, place) == LET here == {i \in Letters(t) : Place(t, i) = place}
                     IN IF here = {} THEN Space ELSE t[Max(here)]

Places == UNION {{Place(text[f], i) : i \in Letters(text[f])} : f \in 0..1}
In(cell) == {place \in Places : place[1] * Width + place[2] + offset = cell}

(***************************************************************************)
(* The screen shows one picture at a time, whole, and they change over     *)
(* every Length ticks: in every cell the character that picture has there, *)
(* however the rows of the two files differ in number and length and       *)
(* wherever the files end; and fish touches no cell that both leave blank. *)
(* (A cell where a long row runs into the next, and the cell of the other  *)
(* blinker once it is there, are left out.)                                *)
(***************************************************************************)
Now == IF (ticks \div Length) % 2 = 0 THEN 0 ELSE 1

PicturesAlternate ==
  phase \in DOMAIN Until =>
    \A cell \in Cells \ (IF phase = "picture" THEN {} ELSE {HandAt}) :
      /\ In(cell) = {} => screen[cell] = Untouched
      /\ \A place \in In(cell) :
           In(cell) = {place} => screen[cell] = Picture(text[Now], place)

(***************************************************************************)
(* Once synchronised, the other blinker changes with the picture, from the *)
(* first change on (if the picture has none in its cell: the older of the  *)
(* two would be drawn over it).                                            *)
(***************************************************************************)
HandInStep ==
  /\ phase = "synced" /\ ticks \div Length > (2 * WAIT) \div Length
  /\ In(offset) # {} /\ In(HandAt) = {}
  => screen[HandAt] = IF Now = 0 THEN "I" ELSE "M"

=============================================================================
