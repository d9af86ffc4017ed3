------------------------------ MODULE FishProofs ------------------------------
(***************************************************************************)
(* The pictures of fish alternate, and the blinker that is synchronised    *)
(* with them goes with them, for all files short enough for the array of   *)
(* structures, every screen and all lengths (PicturesAlternate,            *)
(* HandInStep).                                                            *)
(*                                                                         *)
(* The proof has two parts.  While the files are read, each is at the      *)
(* place of the row and column that is next, or has ended its row, or has  *)
(* ended (FileRead); the places are passed in their order, and a place     *)
(* passed has its blinker (Listed).  Afterwards all blinkers of the        *)
(* picture have the same countdown and status, which the ticks determine   *)
(* (InTime), and draw at the same ticks.  The other blinker is the first   *)
(* of the list, where sync and remove find it.                             *)
(***************************************************************************)
EXTENDS Fish, FiniteSetTheorems, SequenceTheorems, WellFoundedInduction, TLAPS

\* A place is passed before another: in a row above, or in the same row.
Before(p, q) == p[1] < q[1] \/ (p[1] = q[1] /\ p[2] < q[2])

Here == <<row, col>>
CellOf(place) == place[1] * Width + place[2] + offset
OnScreen(place) == CellOf(place) \in Cells

\* What the pictures show: characters of the files, and of the other blinker.
Glyphs == {Space, "I", "M"} \cup {t[i] : t \in Frames[0] \cup Frames[1], i \in Nat}
Blinkers ==
  [location : Cells, on_char : Glyphs, off_char : Glyphs, on_length : Int, off_length : Int,
   countdown : Int, status : 0..1]

TypeInv ==
  /\ phase \in {"open", "frames", "end"} \cup DOMAIN Until
  /\ text \in [0..1 -> Frames[0] \cup Frames[1]] /\ \A f \in 0..1 : text[f] \in Frames[f]
  /\ pos \in [0..1 -> Nat] /\ DOMAIN c = 0..1 /\ eof \in [0..1 -> BOOLEAN]
  /\ row \in Nat /\ col \in Nat /\ ticks \in Nat
  /\ list \in Seq(Blinkers) /\ DOMAIN screen = Cells

Opened == phase = "frames" \/ phase \in DOMAIN Until

\* Where a file is: in the row, past its end, or at its own end.
FileRead(f) ==
  LET next == Place(text[f], pos[f] + 1)
  IN /\ text[f] # Missing /\ pos[f] <= Len(text[f])
     /\ eof[f] => c[f] = "nl" /\ pos[f] = Len(text[f]) /\ Before(next, Here)
     /\ c[f] = "nl" /\ ~ eof[f] =>
          next = <<row + 1, 0>> /\ \A i \in 1..pos[f] : Before(Place(text[f], i), Here)
     /\ c[f] # "nl" => next = Here

ReadInv ==
  /\ phase = "open" => /\ list = <<>> /\ \A cell \in Cells : screen[cell] = Untouched
                       /\ row = 0 /\ col = 0
                       /\ \A f \in 0..1 : pos[f] = 0 /\ c[f] = "0" /\ ~ eof[f]
  /\ Opened => \A f \in 0..1 : FileRead(f)
  /\ phase \in DOMAIN Until => \A f \in 0..1 : eof[f]
  /\ phase \in {"open", "frames"} => ticks = 0

\* The other blinker is the first of the list while it is there.
HasHand == phase \in {"hand", "synced"}
FirstOfPicture == IF HasHand THEN 2 ELSE 1

Shows(t, b, place) ==
  /\ b.location = CellOf(place) /\ b.on_length = Length /\ b.off_length = Length
  /\ b.on_char = Picture(t[0], place) /\ b.off_char = Picture(t[1], place)

\* From first on the list has the places passed, those on the screen all of them.
Listed(places, t, l, first, here) ==
  /\ \A i \in first..Len(l) : \E place \in places : Before(place, here) /\ Shows(t, l[i], place)
  /\ \A place \in places : Before(place, here) /\ OnScreen(place) =>
       \E i \in first..Len(l) : Shows(t, l[i], place)

NowAt(n) == IF (n \div Length) % 2 = 0 THEN 0 ELSE 1
InTime(n, b) == b.countdown = Length - (n % Length) /\ b.status = 1 - NowAt(n)
AllInTime(n, l, first) == \A i \in first..Len(l) : InTime(n, l[i])

HandInv ==
  HasHand =>
    /\ Len(list) # 0 /\ list[1].location = HandAt
    /\ list[1].on_char = "I" /\ list[1].off_char = "M"
    /\ phase = "synced" /\ In(offset) # {} =>
         list[1].on_length = Length /\ list[1].off_length = Length /\ InTime(ticks, list[1])

ListInv ==
  Opened =>
    /\ Listed(Places, text, list, FirstOfPicture, Here)
    /\ phase \in {"frames", "picture"} => Len(list) <= pos[0] + pos[1]
    /\ AllInTime(ticks, list, FirstOfPicture)
    /\ HandInv

\* The places passed are on the screen, and nothing else.
InOf(places, cell) == {place \in places : CellOf(place) = cell}
Painted(places, t, n, scr, cells, here) ==
  \A cell \in cells :
    /\ InOf(places, cell) = {} => scr[cell] = Untouched
    /\ \A place \in places :
         InOf(places, cell) = {place} /\ Before(place, here) =>
           scr[cell] = Picture(t[NowAt(n)], place)

Fishes == Cells \ (IF phase \in {"frames", "picture"} THEN {} ELSE {HandAt})
ScreenInv == Opened => Painted(Places, text, ticks, screen, Fishes, Here)

FishInv == TypeInv /\ ReadInv /\ ListInv /\ ScreenInv /\ HandInStep

-----------------------------------------------------------------------------

(***************************************************************************)
(* Induction on the natural numbers, least and greatest elements.          *)
(***************************************************************************)
LEMMA LeastIs ==
  ASSUME NEW T \in SUBSET Nat, T # {}
  PROVE  \E m \in T : \A n \in T : m <= n
<1>1. PICK m \in T : \A n \in T : ~ (<<n, m>> \in OpToRel(<, Nat))
  BY NatLessThanWellFounded, WFMin
<1>2. ASSUME NEW n \in T
      PROVE  m <= n
  <2>1. ~ (n < m)
    BY <1>1 DEF OpToRel
  <2>2. QED
    BY <2>1
<1>3. QED
  BY <1>2

LEMMA NatSetInduction ==
  ASSUME NEW S, 0 \in S, \A n \in Nat : n \in S => n + 1 \in S
  PROVE  Nat \subseteq S
<1>. DEFINE T == Nat \ S
<1>. SUFFICES ASSUME T # {}
              PROVE  FALSE
  OBVIOUS
<1>1. PICK m \in T : \A n \in T : m <= n
  BY LeastIs
<1>2. m - 1 \in Nat /\ (m - 1) + 1 = m
  <2>1. m # 0
    OBVIOUS
  <2>2. QED
    BY <2>1
<1>3. m - 1 \in T
  BY <1>2
<1>4. m <= m - 1
  BY <1>1, <1>3
<1>5. QED
  BY <1>4

LEMMA MinIs ==
  ASSUME NEW T \in SUBSET Nat, T # {}
  PROVE  Min(T) \in T /\ \A n \in T : Min(T) <= n
<1>1. \E m \in T : \A n \in T : m <= n
  BY LeastIs
<1>2. QED
  BY <1>1 DEF Min

LEMMA MaxIs ==
  ASSUME NEW z \in Nat, NEW T \in SUBSET (0..z), T # {}
  PROVE  Max(T) \in T /\ \A n \in T : n <= Max(T)
<1>. DEFINE U == {n \in Nat : \E x \in T : n = z - x}
<1>1. U \in SUBSET Nat /\ U # {}
  <2>1. PICK x \in T : x \in 0..z
    OBVIOUS
  <2>2. z - x \in Nat
    BY <2>1
  <2>3. QED
    BY <2>2
<1>2. PICK m \in U : \A n \in U : m <= n
  BY <1>1, LeastIs
<1>3. PICK x \in T : m = z - x
  BY <1>2
<1>4. ASSUME NEW n \in T
      PROVE  n <= x
  <2>1. n \in 0..z /\ x \in 0..z
    OBVIOUS
  <2>2. z - n \in U
    BY <2>1
  <2>3. z - x <= z - n
    BY <1>2, <1>3, <2>2
  <2>4. QED
    BY <2>1, <2>3
<1>5. \E y \in T : \A n \in T : y >= n
  BY <1>4
<1>6. QED
  BY <1>5 DEF Max

LEMMA MaxUnique ==
  ASSUME NEW T \in SUBSET Nat, NEW m \in T, \A n \in T : n <= m
  PROVE  Max(T) = m
<1>1. \A x \in T : (\A n \in T : x >= n) => x = m
  OBVIOUS
<1>2. QED
  BY <1>1 DEF Max

(***************************************************************************)
(* The place of a character: the newlines before it, and the distance from *)
(* the last of them.                                                       *)
(***************************************************************************)
LastBreak(t, i) == Max(Breaks(t, i) \cup {0})

LEMMA BreaksIs ==
  ASSUME NEW t, NEW i \in Nat \ {0}
  PROVE  /\ IsFiniteSet(Breaks(t, i)) /\ Cardinality(Breaks(t, i)) \in 0..(i - 1)
         /\ LastBreak(t, i) \in 0..(i - 1)
         /\ \A j \in Breaks(t, i) \cup {0} : j <= LastBreak(t, i)
<1>1. PICK n \in Nat : n = i - 1
  OBVIOUS
<1>2. Breaks(t, i) \subseteq 1..n
  BY <1>1 DEF Breaks
<1>3. IsFiniteSet(1..n) /\ Cardinality(1..n) = n
  <2>1. IsFiniteSet(1..n) /\ Cardinality(1..n) = IF 1 > n THEN 0 ELSE n - 1 + 1
    BY FS_Interval
  <2>2. QED
    BY <2>1
<1>4. IsFiniteSet(Breaks(t, i)) /\ Cardinality(Breaks(t, i)) <= n
  BY <1>2, <1>3, FS_Subset
<1>5. Cardinality(Breaks(t, i)) \in Nat
  BY <1>4, FS_CardinalityType
<1>6. PICK T : T = Breaks(t, i) \cup {0}
  OBVIOUS
<1>7. T \in SUBSET (0..n) /\ T # {}
  BY <1>2, <1>6
<1>8. Max(T) \in T /\ \A j \in T : j <= Max(T)
  BY <1>7, MaxIs
<1>9. LastBreak(t, i) = Max(T)
  BY <1>6, Zenon DEF LastBreak
<1>10. Max(T) \in 0..n
  BY <1>7, <1>8
<1>11. /\ Cardinality(Breaks(t, i)) \in 0..(i - 1)
       /\ LastBreak(t, i) \in 0..(i - 1)
  BY <1>1, <1>4, <1>5, <1>9, <1>10
<1>12. \A j \in Breaks(t, i) \cup {0} : j <= LastBreak(t, i)
  BY <1>6, <1>8, <1>9, Zenon
<1>13. QED
  BY <1>4, <1>11, <1>12

LEMMA PlaceIs ==
  ASSUME NEW t, NEW i \in Nat \ {0}
  PROVE  \E r \in 0..(i - 1), k \in 0..(i - 1) :
           Place(t, i) = <<r, k>> /\ r = Cardinality(Breaks(t, i)) /\ k = i - 1 - LastBreak(t, i)
<1>1. PICK m \in 0..(i - 1) : m = LastBreak(t, i)
  BY BreaksIs
<1>2. PICK k \in 0..(i - 1) : k = i - 1 - m
  OBVIOUS
<1>3. PICK r \in 0..(i - 1) : r = Cardinality(Breaks(t, i))
  BY BreaksIs
<1>4. Place(t, i) = <<r, k>>
  BY <1>1, <1>2, <1>3, Zenon DEF Place, LastBreak
<1>5. QED
  BY <1>1, <1>2, <1>3, <1>4

LEMMA PlaceFirst ==
  ASSUME NEW t
  PROVE  Place(t, 1) = <<0, 0>>
<1>1. PICK r \in 0..0, k \in 0..0 : Place(t, 1) = <<r, k>>
  BY PlaceIs
<1>2. QED
  BY <1>1

LEMMA PlaceNext ==
  ASSUME NEW t, NEW i \in Nat \ {0}, NEW r, NEW k, Place(t, i) = <<r, k>>
  PROVE  /\ t[i] # "nl" => Place(t, i + 1) = <<r, k + 1>>
         /\ t[i] = "nl" => Place(t, i + 1) = <<r + 1, 0>>
<1>1. PICK a \in Nat, b \in Nat, m \in 0..(i - 1) :
        /\ r = a /\ k = b /\ a = Cardinality(Breaks(t, i)) /\ m = LastBreak(t, i)
        /\ b = i - 1 - m
  BY PlaceIs, BreaksIs
<1>2. PICK n \in Nat \ {0} : n = i + 1
  OBVIOUS
<1>3. PICK a2 \in Nat, b2 \in Nat, m2 \in 0..(n - 1) :
        /\ Place(t, n) = <<a2, b2>> /\ a2 = Cardinality(Breaks(t, n)) /\ m2 = LastBreak(t, n)
        /\ b2 = n - 1 - m2
  BY PlaceIs, BreaksIs
<1>4. CASE t[i] # "nl"
  <2>1. Breaks(t, n) = Breaks(t, i)
    BY <1>2, <1>4 DEF Breaks
  <2>2. a2 = a /\ m2 = m
    BY <1>1, <1>3, <2>1, Zenon DEF LastBreak
  <2>3. b2 = b + 1
    BY <1>1, <1>2, <1>3, <2>2
  <2>4. QED
    BY <1>1, <1>2, <1>3, <1>4, <2>2, <2>3
<1>5. CASE t[i] = "nl"
  <2>1. Breaks(t, n) = Breaks(t, i) \cup {i} /\ i \notin Breaks(t, i)
    BY <1>2, <1>5 DEF Breaks
  <2>2. IsFiniteSet(Breaks(t, i))
    BY BreaksIs
  <2>3. a2 = a + 1
    BY <1>1, <1>3, <2>1, <2>2, FS_AddElement
  <2>4. i <= m2 /\ m2 <= i
    BY <1>2, <1>3, <2>1, BreaksIs
  <2>5. b2 = 0
    BY <1>2, <1>3, <2>4
  <2>6. QED
    BY <1>1, <1>2, <1>3, <1>5, <2>3, <2>5
<1>6. QED
  BY <1>4, <1>5

(***************************************************************************)
(* Places are passed in the order of the characters.                       *)
(***************************************************************************)
Pairs == Nat \X Nat

LEMMA PlaceType ==
  ASSUME NEW t, NEW i \in Nat \ {0}
  PROVE  Place(t, i) \in Pairs
BY PlaceIs DEF Pairs

LEMMA BeforeIs ==
  ASSUME NEW p \in Pairs, NEW q \in Pairs
  PROVE  /\ ~ Before(p, p) /\ (p = q \/ Before(p, q) \/ Before(q, p))
         /\ \A x \in Pairs : Before(p, q) /\ Before(q, x) => Before(p, x)
<1>1. PICK a \in Nat, b \in Nat : p = <<a, b>>
  BY DEF Pairs
<1>2. PICK m \in Nat, n \in Nat : q = <<m, n>>
  BY DEF Pairs
<1>3. ~ Before(p, p) /\ (p = q \/ Before(p, q) \/ Before(q, p))
  BY <1>1, <1>2 DEF Before
<1>4. ASSUME NEW x \in Pairs, Before(p, q), Before(q, x)
      PROVE  Before(p, x)
  <2>1. PICK y \in Nat, z \in Nat : x = <<y, z>>
    BY DEF Pairs
  <2>2. QED
    BY <1>1, <1>2, <1>4, <2>1 DEF Before
<1>5. QED
  BY <1>3, <1>4

LEMMA PlacesInOrder ==
  ASSUME NEW t, NEW i \in Nat \ {0}, NEW j \in Nat, i < j
  PROVE  Before(Place(t, i), Place(t, j))
<1>. DEFINE T == {n \in Nat : Before(Place(t, i), Place(t, i + n + 1))}
<1>1. ASSUME NEW n \in Nat \ {0}
      PROVE  Before(Place(t, n), Place(t, n + 1))
  <2>1. PICK r \in Nat, k \in Nat : Place(t, n) = <<r, k>>
    BY PlaceIs
  <2>2. Place(t, n + 1) = <<r, k + 1>> \/ Place(t, n + 1) = <<r + 1, 0>>
    BY <2>1, PlaceNext
  <2>3. QED
    BY <2>1, <2>2 DEF Before
<1>2. 0 \in T
  <2>1. i + 0 + 1 = i + 1
    OBVIOUS
  <2>2. QED
    BY <1>1, <2>1
<1>3. ASSUME NEW n \in Nat, n \in T
      PROVE  n + 1 \in T
  <2>1. PICK m \in Nat \ {0} : m = i + n + 1
    OBVIOUS
  <2>2. Before(Place(t, i), Place(t, m)) /\ Before(Place(t, m), Place(t, m + 1))
    BY <1>1, <1>3, <2>1
  <2>3. Place(t, i) \in Pairs /\ Place(t, m) \in Pairs /\ Place(t, m + 1) \in Pairs
    BY PlaceType
  <2>4. Before(Place(t, i), Place(t, m + 1))
    BY <2>2, <2>3, BeforeIs
  <2>5. m + 1 = i + (n + 1) + 1 /\ n + 1 \in Nat
    BY <2>1
  <2>6. QED
    BY <2>4, <2>5
<1>4. j - i - 1 \in Nat
  OBVIOUS
<1>5. j - i - 1 \in T
  <2>. HIDE DEF T
  <2>1. QED
    BY <1>2, <1>3, <1>4, NatSetInduction
<1>6. i + (j - i - 1) + 1 = j
  OBVIOUS
<1>7. QED
  BY <1>5, <1>6

-----------------------------------------------------------------------------

(***************************************************************************)
(* Reading the files: what was read of one is passed, the rest is not; at  *)
(* the place that is next is the next character, if the row goes on.       *)
(***************************************************************************)
LEMMA TextsFit ==
  ASSUME TypeInv, \A f \in 0..1 : text[f] # Missing
  PROVE  /\ \A f \in 0..1 : Fits(text[f])
         /\ Len(text[0]) + Len(text[1]) < Slots
<1>1. 0 \in 0..1 /\ 1 \in 0..1
  OBVIOUS
<1>2. text[0] \in Frames[0] \ {Missing} /\ text[1] \in Frames[1] \ {Missing}
  BY <1>1 DEF TypeInv
<1>3. Fits(text[0]) /\ Fits(text[1]) /\ Len(text[0]) + Len(text[1]) < Slots
  BY <1>2, FramesAssumption
<1>4. \A f \in 0..1 : f = 0 \/ f = 1
  OBVIOUS
<1>5. QED
  BY <1>3, <1>4, Zenon

LEMMA HereType ==
  ASSUME TypeInv
  PROVE  Here \in Pairs /\ row \in Nat /\ col \in Nat /\ Here = <<row, col>>
BY DEF TypeInv, Here, Pairs

LEMMA PassedIs ==
  ASSUME TypeInv, NEW f \in 0..1, FileRead(f), Fits(text[f])
  PROVE  /\ \A i \in 1..pos[f] : Before(Place(text[f], i), Here)
         /\ \A i \in (pos[f] + 1)..Len(text[f]) :
              IF i = pos[f] + 1 /\ c[f] # "nl" THEN Place(text[f], i) = Here
              ELSE Before(Here, Place(text[f], i))
<1>. PICK t : t = text[f]
  OBVIOUS
<1>1. PICK p \in Nat, n \in Nat : t = text[f] /\ p = pos[f] /\ n = Len(t)
  BY DEF TypeInv, Fits
<1>2. Here \in Pairs /\ \A i \in Nat \ {0} : Place(t, i) \in Pairs
  BY HereType, PlaceType
<1>3. PICK next \in Pairs : next = Place(t, p + 1)
  BY <1>2
<1>4. \A i \in 1..p : Before(Place(t, i), next)
  BY <1>3, PlacesInOrder
<1>5. \A i \in (p + 1)..n : i = p + 1 \/ Before(next, Place(t, i))
  BY <1>3, PlacesInOrder
<1>6. CASE eof[f]
  <2>1. p = n /\ Before(next, Here)
    BY <1>1, <1>3, <1>6 DEF FileRead
  <2>2. \A i \in 1..p : Before(Place(t, i), Here)
    BY <1>2, <1>4, <2>1, BeforeIs
  <2>3. QED
    BY <1>1, <2>1, <2>2
<1>7. CASE c[f] = "nl" /\ ~ eof[f]
  <2>1. next = <<row + 1, 0>> /\ \A i \in 1..p : Before(Place(t, i), Here)
    BY <1>1, <1>3, <1>7 DEF FileRead
  <2>2. Before(Here, next)
    BY <2>1, HereType DEF Before
  <2>3. \A i \in (p + 1)..n : Before(Here, Place(t, i))
    <3>. SUFFICES ASSUME NEW i \in (p + 1)..n
                  PROVE  Before(Here, Place(t, i))
      OBVIOUS
    <3>1. CASE i = p + 1
      BY <3>1, <1>3, <2>2
    <3>2. CASE i # p + 1
      <4>1. Before(next, Place(t, i)) /\ Place(t, i) \in Pairs
        BY <3>2, <1>2, <1>5
      <4>2. QED
        BY <4>1, <2>2, <1>2, BeforeIs
    <3>3. QED
      BY <3>1, <3>2
  <2>4. QED
    BY <1>1, <1>7, <2>1, <2>3
<1>8. CASE c[f] # "nl"
  <2>1. next = Here
    BY <1>1, <1>3, <1>8 DEF FileRead
  <2>2. QED
    BY <1>1, <1>3, <1>4, <1>5, <1>8, <2>1
<1>9. QED
  BY <1>6, <1>7, <1>8

\* A letter is at the next place if and only if it is the next character.
LEMMA CharIs ==
  ASSUME TypeInv, NEW f \in 0..1, FileRead(f), Fits(text[f])
  PROVE  /\ ~ Blank(Char(f)) <=> \E i \in Letters(text[f]) : Place(text[f], i) = Here
         /\ ~ Blank(Char(f)) => pos[f] + 1 \in 1..Len(text[f]) /\ c[f] # "nl"
         /\ Glyph(Char(f)) = Picture(text[f], Here)
<1>. PICK t : t = text[f]
  OBVIOUS
<1>1. PICK p \in Nat, n \in Nat : t = text[f] /\ p = pos[f] /\ n = Len(t)
  BY DEF TypeInv, Fits
<1>2. p <= n /\ DOMAIN t = 1..n
  BY <1>1 DEF FileRead, Fits
<1>3. Here \in Pairs /\ \A i \in Nat \ {0} : Place(t, i) \in Pairs
  BY HereType, PlaceType
<1>. DEFINE here == {i \in Letters(t) : Place(t, i) = Here}
<1>4. here \subseteq 1..n /\ \A i \in here : i = p + 1 /\ c[f] # "nl" /\ ~ Blank(t[i])
  <2>. SUFFICES ASSUME NEW i \in here
                PROVE  i \in 1..n /\ i = p + 1 /\ c[f] # "nl" /\ ~ Blank(t[i])
    OBVIOUS
  <2>1. i \in 1..n /\ Place(t, i) = Here /\ ~ Blank(t[i])
    BY <1>2 DEF Letters
  <2>2. ~ Before(Place(t, i), Here) /\ ~ Before(Here, Place(t, i))
    BY <2>1, <1>3, BeforeIs
  <2>3. i \notin 1..p
    BY <2>2, <1>1, PassedIs
  <2>4. i \in (p + 1)..n
    BY <2>1, <2>3
  <2>5. i = p + 1 /\ c[f] # "nl"
    BY <2>2, <2>4, <1>1, PassedIs
  <2>6. QED
    BY <2>1, <2>5
<1>5. Picture(t, Here) = IF here = {} THEN Space ELSE t[Max(here)]
  BY DEF Picture
<1>6. CASE c[f] = "nl" \/ p = n
  <2>1. Char(f) = "nl"
    BY <1>1, <1>6 DEF Char, AtEnd
  <2>2. here = {}
    BY <1>1, <1>4, <1>6
  <2>3. Blank(Char(f)) /\ Glyph(Char(f)) = Space
    BY <2>1 DEF Blank, Glyph
  <2>4. Picture(t, Here) = Space
    BY <1>5, <2>2
  <2>5. ~ \E i \in Letters(t) : Place(t, i) = Here
    BY <2>2
  <2>6. QED
    BY <1>1, <2>3, <2>4, <2>5
<1>7. CASE ~ (c[f] = "nl" \/ p = n)
  <2>1. p + 1 \in 1..n /\ Char(f) = t[p + 1]
    BY <1>1, <1>2, <1>7 DEF Char, AtEnd
  <2>2. Place(t, p + 1) = Here
    BY <1>1, <1>7 DEF FileRead
  <2>3. CASE Blank(t[p + 1])
    <3>1. here = {}
      BY <2>3, <1>4
    <3>2. Glyph(t[p + 1]) = Space
      BY <2>3 DEF Blank, Glyph
    <3>3. QED
      BY <1>1, <1>5, <2>1, <2>3, <3>1, <3>2
  <2>4. CASE ~ Blank(t[p + 1])
    <3>1. p + 1 \in here
      BY <2>1, <2>2, <2>4, <1>2 DEF Letters
    <3>2. Max(here) = p + 1
      <4>1. here \in SUBSET Nat /\ \A i \in here : i <= p + 1
        BY <1>4
      <4>. HIDE DEF here
      <4>2. QED
        BY <3>1, <4>1, MaxUnique
    <3>3. Glyph(t[p + 1]) = t[p + 1]
      BY <2>4 DEF Blank, Glyph
    <3>4. Picture(t, Here) = t[p + 1]
      BY <1>5, <3>1, <3>2
    <3>5. QED
      BY <1>1, <1>7, <2>1, <2>4, <3>1, <3>3, <3>4
  <2>5. QED
    BY <2>3, <2>4
<1>8. QED
  BY <1>6, <1>7

(***************************************************************************)
(* A read of both files, of one of them: where it is, one character later. *)
(***************************************************************************)
ReadOf(f, t, p, n) ==
  /\ text' = text /\ p \in Nat /\ n \in Nat /\ p <= n
  /\ c[f] = "nl" => pos'[f] = p /\ eof'[f] = eof[f] /\ Char(f) = "nl"
  /\ c[f] # "nl" /\ p = n => pos'[f] = p /\ eof'[f] = TRUE /\ Char(f) = "nl"
  /\ c[f] # "nl" /\ p # n =>
       /\ pos'[f] = p + 1 /\ p + 1 <= n /\ ~ eof'[f] /\ Char(f) = t[p + 1]

LEMMA ReadIs ==
  ASSUME TypeInv, NEW f \in 0..1, FileRead(f), Fits(text[f]), ReadBoth,
         NEW t, t = text[f], NEW p, p = pos[f], NEW n, n = Len(t)
  PROVE  ReadOf(f, t, p, n)
<1>. USE DEF ReadOf
<1>1. text' = text /\ p \in Nat /\ n \in Nat /\ p <= n
  BY DEF TypeInv, ReadBoth, Fits, FileRead
<1>2. /\ pos'[f] = IF c[f] = "nl" \/ AtEnd(f) THEN pos[f] ELSE pos[f] + 1
      /\ eof'[f] = (eof[f] \/ AtEnd(f))
  BY DEF ReadBoth
<1>3. c[f] # "nl" => ~ eof[f]
  BY DEF FileRead
<1>4. eof[f] \in BOOLEAN
  BY DEF TypeInv
<1>5. CASE c[f] = "nl"
  <2>1. ~ AtEnd(f)
    BY <1>5 DEF AtEnd
  <2>2. QED
    BY <1>1, <1>2, <1>4, <1>5, <2>1 DEF Char
<1>6. CASE c[f] # "nl" /\ p = n
  <2>1. AtEnd(f)
    BY <1>6 DEF AtEnd
  <2>2. QED
    BY <1>1, <1>2, <1>6, <2>1 DEF Char
<1>7. CASE c[f] # "nl" /\ p # n
  <2>1. ~ AtEnd(f)
    BY <1>7 DEF AtEnd
  <2>2. pos'[f] = p + 1 /\ p + 1 <= n
    BY <1>1, <1>2, <1>7, <2>1
  <2>3. ~ eof'[f]
    BY <1>2, <1>3, <1>7, <2>1, Zenon
  <2>4. Char(f) = t[p + 1]
    BY <1>7, <2>1, Zenon DEF Char
  <2>5. QED
    BY <1>1, <1>7, <2>2, <2>3, <2>4
<1>8. QED
  BY <1>5, <1>6, <1>7

LEMMA ColumnReads ==
  ASSUME TypeInv, NEW f \in 0..1, FileRead(f), Fits(text[f]), ReadBoth,
         c'[f] = Char(f), row' = row, col' = col + 1
  PROVE  FileRead(f)'
<1>1. PICK t, p, n : t = text[f] /\ p = pos[f] /\ n = Len(t)
  OBVIOUS
<1>2. ReadOf(f, t, p, n)
  BY <1>1, ReadIs, Zenon
<1>. USE DEF ReadOf
<1>3. text'[f] = t /\ t # Missing
  BY <1>1, <1>2 DEF FileRead
<1>4. PICK r \in Nat, k \in Nat : r = row /\ k = col /\ Here = <<r, k>> /\ Here' = <<r, k + 1>>
  BY HereType DEF Here
<1>5. Here \in Pairs /\ Here' \in Pairs /\ Before(Here, Here')
  BY <1>4 DEF Pairs, Before
<1>6. \A i \in Nat \ {0} : Before(Place(t, i), Here) \/ Place(t, i) = Here =>
        Before(Place(t, i), Here')
  BY <1>5, PlaceType, BeforeIs
<1>7. PICK next : next = Place(t, p + 1)
  OBVIOUS
<1>8. CASE c[f] = "nl"
  <2>1. pos'[f] = p /\ eof'[f] = eof[f] /\ c'[f] = "nl"
    BY <1>2, <1>8
  <2>2. CASE eof[f]
    <3>1. p = n /\ Before(next, Here)
      BY <2>2, <1>1, <1>7 DEF FileRead
    <3>2. Before(next, Here')
      BY <3>1, <1>2, <1>6, <1>7
    <3>3. QED
      BY <1>1, <1>2, <1>3, <1>7, <2>1, <2>2, <3>1, <3>2 DEF FileRead
  <2>3. CASE ~ eof[f]
    <3>1. next = <<r + 1, 0>> /\ \A i \in 1..p : Before(Place(t, i), Here)
      BY <2>3, <1>1, <1>4, <1>7, <1>8 DEF FileRead
    <3>2. \A i \in 1..p : Before(Place(t, i), Here')
      BY <3>1, <1>2, <1>6
    <3>3. row' = r
      BY <1>4
    <3>4. QED
      BY <1>1, <1>2, <1>3, <1>7, <2>1, <2>3, <3>1, <3>2, <3>3 DEF FileRead
  <2>4. QED
    BY <2>2, <2>3
<1>9. CASE c[f] # "nl" /\ p = n
  <2>1. pos'[f] = p /\ eof'[f] /\ c'[f] = "nl"
    BY <1>2, <1>9
  <2>2. next = Here
    BY <1>1, <1>7, <1>9 DEF FileRead
  <2>3. Before(next, Here')
    BY <1>5, <2>2
  <2>4. QED
    BY <1>1, <1>2, <1>3, <1>7, <1>9, <2>1, <2>3 DEF FileRead
<1>10. CASE c[f] # "nl" /\ p # n
  <2>1. pos'[f] = p + 1 /\ p + 1 <= n /\ ~ eof'[f] /\ c'[f] = t[p + 1]
    BY <1>2, <1>10
  <2>2. next = <<r, k>>
    BY <1>1, <1>4, <1>7, <1>10 DEF FileRead
  <2>3. PICK q \in Nat \ {0} : q = p + 1
    BY <1>2
  <2>4. /\ t[q] # "nl" => Place(t, q + 1) = Here'
        /\ t[q] = "nl" => Place(t, q + 1) = <<r + 1, 0>>
    BY <1>4, <1>7, <2>2, <2>3, PlaceNext
  <2>5. \A i \in 1..q : Before(Place(t, i), Here')
    <3>1. next = Here
      BY <1>4, <2>2
    <3>2. \A i \in 1..p : Before(Place(t, i), next)
      BY <1>2, <1>7, PlacesInOrder
    <3>3. \A i \in 1..q : Before(Place(t, i), Here) \/ Place(t, i) = Here
      BY <1>2, <1>7, <2>3, <3>1, <3>2
    <3>4. QED
      BY <3>3, <1>6
  <2>6. row' = r
    BY <1>4
  <2>7. QED
    BY <1>1, <1>3, <2>1, <2>3, <2>4, <2>5, <2>6 DEF FileRead
<1>11. QED
  BY <1>8, <1>9, <1>10

LEMMA RowReads ==
  ASSUME TypeInv, NEW f \in 0..1, FileRead(f), Fits(text[f]), ReadBoth, Char(f) = "nl",
         c'[f] = (IF eof'[f] THEN "nl" ELSE "0"), row' = row + 1, col' = 0
  PROVE  FileRead(f)'
<1>1. PICK t, p, n : t = text[f] /\ p = pos[f] /\ n = Len(t)
  OBVIOUS
<1>2. ReadOf(f, t, p, n)
  BY <1>1, ReadIs, Zenon
<1>. USE DEF ReadOf
<1>3. text'[f] = t /\ t # Missing
  BY <1>1, <1>2 DEF FileRead
<1>4. PICK r \in Nat, k \in Nat : r = row /\ k = col /\ Here = <<r, k>> /\ Here' = <<r + 1, 0>>
  BY HereType DEF Here
<1>5. Here \in Pairs /\ Here' \in Pairs /\ Before(Here, Here')
  BY <1>4 DEF Pairs, Before
<1>6. PICK next \in Pairs : next = Place(t, p + 1)
  BY <1>2, PlaceType
<1>7. CASE eof'[f]
  <2>1. pos'[f] = p /\ p = n /\ c'[f] = "nl"
    BY <1>1, <1>2, <1>7 DEF FileRead
  <2>2. Before(next, Here) \/ next = Here
    BY <1>1, <1>2, <1>6, <1>7 DEF FileRead
  <2>3. Before(next, Here')
    BY <1>5, <1>6, <2>2, BeforeIs
  <2>4. QED
    BY <1>1, <1>2, <1>3, <1>6, <1>7, <2>1, <2>3 DEF FileRead
<1>8. CASE ~ eof'[f] /\ c[f] = "nl"
  <2>1. pos'[f] = p /\ ~ eof[f] /\ c'[f] = "0"
    BY <1>2, <1>8
  <2>2. next = Here'
    BY <1>1, <1>4, <1>6, <1>8, <2>1 DEF FileRead
  <2>3. QED
    BY <1>1, <1>2, <1>3, <1>6, <1>8, <2>1, <2>2 DEF FileRead
<1>9. CASE ~ eof'[f] /\ c[f] # "nl"
  <2>1. pos'[f] = p + 1 /\ p + 1 <= n /\ c'[f] = "0" /\ t[p + 1] = "nl"
    BY <1>2, <1>9
  <2>2. next = <<r, k>>
    BY <1>1, <1>4, <1>6, <1>9 DEF FileRead
  <2>3. PICK q \in Nat \ {0} : q = p + 1
    BY <1>2
  <2>4. Place(t, q + 1) = Here'
    BY <1>4, <1>6, <2>1, <2>2, <2>3, PlaceNext
  <2>5. QED
    BY <1>1, <1>3, <1>9, <2>1, <2>3, <2>4 DEF FileRead
<1>10. QED
  BY <1>7, <1>8, <1>9

-----------------------------------------------------------------------------

(***************************************************************************)
(* The arithmetic of locations and of ticks.                               *)
(***************************************************************************)
LEMMA DivIs ==
  ASSUME NEW b \in Nat \ {0}, NEW q \in Nat, NEW r \in 0..(b - 1), NEW x, x = q * b + r
  PROVE  x \div b = q /\ x % b = r
OBVIOUS

LEMMA DivMod ==
  ASSUME NEW b \in Nat \ {0}, NEW x \in Nat
  PROVE  \E q \in Nat, r \in 0..(b - 1) : x = q * b + r /\ x \div b = q /\ x % b = r
<1>. DEFINE T == {n \in Nat : \E q \in Nat, r \in 0..(b - 1) : n = q * b + r}
<1>1. 0 \in T
  <2>1. 0 \in 0..(b - 1) /\ 0 = 0 * b + 0
    OBVIOUS
  <2>2. QED
    BY <2>1
<1>2. ASSUME NEW n \in Nat, n \in T
      PROVE  n + 1 \in T
  <2>1. PICK q \in Nat, r \in 0..(b - 1) : n = q * b + r
    BY <1>2
  <2>2. CASE r + 1 \in 0..(b - 1)
    <3>1. n + 1 = q * b + (r + 1)
      BY <2>1
    <3>2. QED
      BY <2>2, <3>1
  <2>3. CASE r + 1 \notin 0..(b - 1)
    <3>1. r + 1 = b
      BY <2>3
    <3>2. (q + 1) * b = q * b + b
      OBVIOUS
    <3>3. q * b \in Nat
      OBVIOUS
    <3>4. n + 1 = (q + 1) * b + 0
      BY <2>1, <3>1, <3>2, <3>3
    <3>5. PICK p \in Nat, z \in 0..(b - 1) : p = q + 1 /\ z = 0
      OBVIOUS
    <3>6. n + 1 = p * b + z
      BY <3>4, <3>5, Zenon
    <3>7. n + 1 \in Nat
      OBVIOUS
    <3>8. QED
      BY <3>6, <3>7
  <2>4. QED
    BY <2>2, <2>3
<1>3. x \in T
  <2>. HIDE DEF T
  <2>1. QED
    BY <1>1, <1>2, NatSetInduction
<1>4. PICK q \in Nat, r \in 0..(b - 1) : x = q * b + r
  BY <1>3
<1>5. x \div b = q /\ x % b = r
  BY <1>4, DivIs
<1>6. QED
  BY <1>4, <1>5

LEMMA DivStep ==
  ASSUME NEW d \in Nat \ {0}, NEW n \in Nat
  PROVE  /\ n % d = d - 1 => (n + 1) % d = 0 /\ (n + 1) \div d = (n \div d) + 1
         /\ n % d # d - 1 => (n + 1) % d = (n % d) + 1 /\ (n + 1) \div d = n \div d
<1>1. PICK q \in Nat, r \in 0..(d - 1) : q = n \div d /\ r = n % d /\ n = q * d + r
  BY DivMod
<1>2. \A p \in Nat, z \in 0..(d - 1), x \in Nat : x = p * d + z => x \div d = p /\ x % d = z
  BY DivIs
<1>3. q * d \in Nat /\ (q + 1) * d = q * d + d
  OBVIOUS
<1>4. PICK x \in Nat : x = n + 1
  OBVIOUS
<1>5. CASE r = d - 1
  <2>1. PICK p \in Nat, z \in 0..(d - 1) : p = q + 1 /\ z = 0
    OBVIOUS
  <2>2. p * d = q * d + d
    BY <1>3, <2>1
  <2>3. PICK m \in Nat : m = p * d /\ x = m + z
    BY <1>1, <1>3, <1>4, <1>5, <2>1, <2>2
  <2>4. x \div d = p /\ x % d = z
    BY <1>2, <2>3, Zenon
  <2>5. QED
    BY <1>1, <1>4, <1>5, <2>1, <2>4
<1>6. CASE r # d - 1
  <2>1. PICK z \in 0..(d - 1) : z = r + 1
    BY <1>6
  <2>2. PICK m \in Nat : m = q * d /\ x = m + z
    BY <1>1, <1>3, <1>4, <2>1
  <2>3. x \div d = q /\ x % d = z
    BY <1>1, <1>2, <2>2, Zenon
  <2>4. QED
    BY <1>1, <1>4, <1>6, <2>1, <2>3
<1>7. QED
  BY <1>5, <1>6

LEMMA CellsAre ==
  /\ Width \in Nat \ {0} /\ Width * Height \in Nat
  /\ \A n \in Nat : n \in Cells <=> n < Width * Height
  /\ Cells \subseteq Nat
<1>1. PICK s \in Nat : s = Width * Height
  BY SizeAssumption
<1>2. QED
  BY <1>1, SizeAssumption DEF Cells

LEMMA CellOfPlace ==
  ASSUME NEW t, Fits(t), NEW i \in DOMAIN t
  PROVE  /\ i \in 1..Len(t) /\ Place(t, i) \in Pairs
         /\ CellOf(Place(t, i)) \in 0..(Short - 1)
<1>1. PICK n \in Nat, w \in Nat \ {0} : n = Len(t) /\ w = Width /\ i \in 1..n
  BY SizeAssumption DEF Fits
<1>2. PICK r \in 0..(i - 1), k \in 0..(i - 1) : Place(t, i) = <<r, k>>
  BY <1>1, PlaceIs
<1>3. PICK o \in Nat, s \in Nat : o = offset /\ s = Short
  BY offsetAssumption, ShortAssumption, CellsAre
<1>4. n * (w + 1) + o <= s
  BY <1>1, <1>3 DEF Fits
<1>5. r * w <= n * w /\ r * w \in Nat
  <2>1. n - r \in Nat /\ r \in Nat
    BY <1>1
  <2>2. (n - r) * w \in Nat /\ r * w \in Nat
    BY <2>1
  <2>3. (n - r) * w = n * w - r * w
    BY <1>1
  <2>4. QED
    BY <2>2, <2>3
<1>6. n * (w + 1) = n * w + n
  OBVIOUS
<1>7. k < n
  BY <1>1
<1>8. r * w + k + o \in 0..(s - 1)
  BY <1>1, <1>4, <1>5, <1>6, <1>7
<1>9. CellOf(Place(t, i)) = r * w + k + o
  BY <1>1, <1>2, <1>3 DEF CellOf
<1>10. QED
  BY <1>1, <1>2, <1>3, <1>8, <1>9 DEF Pairs

(***************************************************************************)
(* A list with one more blinker at its head, and without its first.        *)
(***************************************************************************)
Joined(m, b, l) == m = <<b>> \o l
Rest(m, l) == m = SubSeq(l, 1, 1 - 1) \o SubSeq(l, 1 + 1, Len(l))

LEMMA JoinedIs ==
  ASSUME NEW S, NEW b \in S, NEW l \in Seq(S), NEW m, Joined(m, b, l)
  PROVE  /\ m \in Seq(S) /\ Len(m) = Len(l) + 1 /\ m[1] = b
         /\ \A i \in 1..Len(l) : m[i + 1] = l[i]
<1>1. <<b>> \in Seq(S) /\ Len(<<b>>) = 1 /\ <<b>>[1] = b
  OBVIOUS
<1>2. Len(l) \in Nat
  OBVIOUS
<1>3. m = <<b>> \o l
  BY DEF Joined
<1>4. QED
  BY <1>1, <1>2, <1>3

LEMMA RestIs ==
  ASSUME NEW S, NEW l \in Seq(S), Len(l) # 0, NEW m, Rest(m, l)
  PROVE  /\ m \in Seq(S) /\ Len(m) = Len(l) - 1
         /\ \A i \in 1..Len(m) : m[i] = l[i + 1]
<1>1. PICK n \in Nat \ {0} : n = Len(l)
  OBVIOUS
<1>2. SubSeq(l, 1, 1 - 1) = <<>>
  OBVIOUS
<1>3. PICK d : d = SubSeq(l, 1 + 1, n)
  OBVIOUS
<1>4. d \in Seq(S) /\ Len(d) = n - 1 /\ \A i \in 1..(n - 1) : d[i] = l[i + 1]
  BY <1>1, <1>3
<1>5. m = <<>> \o d
  BY <1>1, <1>2, <1>3, Zenon DEF Rest
<1>6. m = d
  BY <1>4, <1>5
<1>7. QED
  BY <1>1, <1>4, <1>6

-----------------------------------------------------------------------------

(***************************************************************************)
(* The places of the letters, and the one that is next.                    *)
(***************************************************************************)
LEMMA PlacesAre ==
  ASSUME NEW place
  PROVE  place \in Places <=>
           \E f \in 0..1 : \E i \in Letters(text[f]) : Place(text[f], i) = place
BY DEF Places

LEMMA SameText ==
  ASSUME text' = text
  PROVE  /\ Places' = Places /\ \A cell \in Cells : In(cell)' = In(cell)
<1>1. Places' = Places
  BY DEF Places
<1>2. QED
  BY <1>1 DEF In

LEMMA PlacesFit ==
  ASSUME TypeInv, \A f \in 0..1 : text[f] # Missing, NEW place \in Places
  PROVE  place \in Pairs /\ CellOf(place) \in 0..(Short - 1) /\ CellOf(place) \in Nat
<1>1. PICK f \in 0..1 : \E i \in Letters(text[f]) : Place(text[f], i) = place
  BY PlacesAre
<1>. PICK i \in Letters(text[f]) : Place(text[f], i) = place
  BY <1>1
<1>2. Fits(text[f]) /\ i \in DOMAIN text[f]
  BY TextsFit DEF Letters
<1>3. place \in Pairs /\ CellOf(place) \in 0..(Short - 1)
  BY <1>1, <1>2, CellOfPlace
<1>4. QED
  BY <1>3, ShortAssumption

LEMMA InIs ==
  ASSUME TypeInv, \A f \in 0..1 : text[f] # Missing, NEW cell
  PROVE  \A place : place \in In(cell) <=> place \in Places /\ CellOf(place) = cell
BY DEF In, CellOf

Reading == \A f \in 0..1 : FileRead(f)

LEMMA HereSeen ==
  ASSUME TypeInv, Reading
  PROVE  /\ AnySeen <=> Here \in Places
         /\ AnySeen => \E f \in 0..1 : pos[f] + 1 \in 1..Len(text[f]) /\ c[f] # "nl"
         /\ \A f \in 0..1 : Glyph(Char(f)) = Picture(text[f], Here)
         /\ \A f \in 0..1 : text[f] # Missing
<1>1. \A f \in 0..1 : FileRead(f) /\ Fits(text[f]) /\ text[f] # Missing
  BY TextsFit DEF Reading, FileRead
<1>2. ASSUME NEW f \in 0..1
      PROVE  /\ ~ Blank(Char(f)) <=> \E i \in Letters(text[f]) : Place(text[f], i) = Here
             /\ ~ Blank(Char(f)) => pos[f] + 1 \in 1..Len(text[f]) /\ c[f] # "nl"
             /\ Glyph(Char(f)) = Picture(text[f], Here)
  BY <1>1, CharIs
<1>3. AnySeen <=> Here \in Places
  BY <1>2, PlacesAre DEF AnySeen
<1>4. QED
  BY <1>1, <1>2, <1>3 DEF AnySeen

LEMMA GlyphIs ==
  ASSUME TypeInv, NEW f \in 0..1
  PROVE  Glyph(Char(f)) \in Glyphs
<1>1. text[f] \in Frames[0] \cup Frames[1] /\ pos[f] + 1 \in Nat
  BY DEF TypeInv
<1>2. text[f][pos[f] + 1] \in Glyphs /\ Space \in Glyphs
  BY <1>1 DEF Glyphs
<1>3. Char(f) = "nl" \/ Char(f) = text[f][pos[f] + 1]
  BY DEF Char
<1>4. QED
  BY <1>2, <1>3 DEF Glyph

(***************************************************************************)
(* What a read passes: nothing but the place that was next.                *)
(***************************************************************************)
LEMMA ColumnPasses ==
  ASSUME TypeInv, row' = row, col' = col + 1, NEW place \in Pairs
  PROVE  Before(place, Here)' <=> Before(place, Here) \/ place = Here
<1>1. PICK r \in Nat, k \in Nat : Here = <<r, k>> /\ Here' = <<r, k + 1>>
  BY HereType DEF Here
<1>2. PICK a \in Nat, b \in Nat : place = <<a, b>>
  BY DEF Pairs
<1>3. QED
  BY <1>1, <1>2 DEF Before

LEMMA RowPasses ==
  ASSUME TypeInv, Reading, ReadBoth, \A f \in 0..1 : Char(f) = "nl",
         row' = row + 1, col' = 0, NEW place \in Places
  PROVE  Before(place, Here)' <=> Before(place, Here)
<1>1. place \in Pairs /\ Here \in Pairs /\ Here' \in Pairs
  BY HereType, HereSeen, PlacesFit DEF Here, Pairs
<1>2. Before(Here, Here')
  BY HereType DEF Here, Before
<1>3. Before(place, Here) => Before(place, Here')
  BY <1>1, <1>2, BeforeIs
<1>4. ASSUME Before(place, Here')
      PROVE  Before(place, Here)
  <2>. PICK f \in 0..1 : \E i \in Letters(text[f]) : Place(text[f], i) = place
    BY PlacesAre
  <2>1. PICK i \in Letters(text[f]) : Place(text[f], i) = place
    OBVIOUS
  <2>2. PICK t, p, n : t = text[f] /\ p = pos[f] /\ n = Len(t)
    OBVIOUS
  <2>3. FileRead(f) /\ Fits(text[f]) /\ Fits(t)
    BY <2>2, TextsFit DEF Reading, FileRead
  <2>4. ReadOf(f, t, p, n)
    BY <2>2, <2>3, ReadIs, Zenon
  <2>. USE DEF ReadOf
  <2>5. i \in 1..n /\ ~ Blank(t[i])
    BY <2>1, <2>2, <2>3 DEF Letters, Fits
  <2>6. ~ Before(Here', Place(t, i)) /\ Place(t, i) # Here'
    BY <1>1, <1>4, <2>1, <2>2, BeforeIs
  <2>7. Place(t, i) # Here' /\ ~ Before(Here', Place(t, i)) /\ Here' = <<row + 1, 0>>
    BY <2>6 DEF Here
  <2>8. i <= p
    <3>1. CASE (c[f] = "nl" /\ eof[f]) \/ (c[f] # "nl" /\ p = n)
      <4>1. p = n
        BY <2>2, <2>3, <3>1 DEF FileRead
      <4>2. QED
        BY <2>4, <2>5, <4>1
    <3>2. CASE c[f] = "nl" /\ ~ eof[f]
      <4>1. Place(t, p + 1) = Here'
        BY <2>2, <2>3, <2>7, <3>2 DEF FileRead
      <4>2. \A j \in Nat : p + 1 < j => Before(Here', Place(t, j))
        BY <2>4, <4>1, PlacesInOrder
      <4>3. QED
        BY <2>4, <2>5, <2>7, <4>1, <4>2
    <3>3. CASE c[f] # "nl" /\ p # n
      <4>1. PICK q \in Nat \ {0} : q = p + 1
        BY <2>4
      <4>2. t[q] = "nl"
        BY <2>4, <3>3, <4>1
      <4>3. Place(t, q) = <<row, col>>
        BY <2>2, <2>3, <3>3, <4>1 DEF FileRead, Here
      <4>4. Place(t, q + 1) = Here'
        BY <2>7, <4>2, <4>3, PlaceNext
      <4>5. \A j \in Nat : q + 1 < j => Before(Here', Place(t, j))
        BY <4>1, <4>4, PlacesInOrder
      <4>6. i # q /\ i # q + 1
        BY <2>5, <2>7, <4>2, <4>4 DEF Blank
      <4>7. QED
        BY <2>4, <2>5, <2>7, <4>1, <4>5, <4>6
    <3>4. QED
      BY <2>3, <3>1, <3>2, <3>3 DEF FileRead
  <2>9. QED
    BY <2>1, <2>2, <2>3, <2>4, <2>5, <2>8, PassedIs
<1>5. Before(place, Here)' <=> Before(place, Here')
  OBVIOUS
<1>6. QED
  BY <1>3, <1>4, <1>5

-----------------------------------------------------------------------------

(***************************************************************************)
(* What the next column adds: a blinker at the next place, if a file has a *)
(* letter there and it is on the screen.  There is a structure for it.     *)
(***************************************************************************)
LEMMA UntilIs ==
  /\ DOMAIN Until = {"picture", "hand", "synced", "removed"}
  /\ Until["picture"] = WAIT /\ Until["hand"] = 2 * WAIT
  /\ Until["synced"] = 3 * WAIT /\ Until["removed"] = 4 * WAIT
BY DEF Until

LEMMA LettersFit ==
  ASSUME TypeInv, Reading
  PROVE  /\ Len(text[0]) \in Nat /\ Len(text[1]) \in Nat /\ pos[0] \in Nat /\ pos[1] \in Nat
         /\ pos[0] <= Len(text[0]) /\ pos[1] <= Len(text[1])
         /\ Len(text[0]) + Len(text[1]) < Slots /\ Len(list) \in Nat
<1>1. FileRead(0) /\ FileRead(1)
  BY DEF Reading
<1>2. Fits(text[0]) /\ Fits(text[1]) /\ Len(text[0]) + Len(text[1]) < Slots
  <2>1. \A f \in 0..1 : text[f] # Missing
    BY HereSeen
  <2>2. (\A f \in 0..1 : Fits(text[f])) /\ Len(text[0]) + Len(text[1]) < Slots
    BY <2>1, TextsFit
  <2>3. 0 \in 0..1 /\ 1 \in 0..1
    OBVIOUS
  <2>4. QED
    BY <2>2, <2>3, Zenon
<1>3. pos[0] \in Nat /\ pos[1] \in Nat /\ Len(list) \in Nat
  BY DEF TypeInv
<1>4. QED
  BY <1>1, <1>2, <1>3 DEF FileRead, Fits

LEMMA StartIs ==
  ASSUME ticks = 0
  PROVE  Now = 0 /\ ticks % Length = 0 /\ Length \in Nat \ {0}
<1>1. PICK d \in Nat \ {0} : d = Length
  BY LengthAssumption
<1>2. 0 \in 0..(d - 1) /\ 0 = 0 * d + 0
  OBVIOUS
<1>3. 0 \div d = 0 /\ 0 % d = 0
  BY <1>1, <1>2, DivIs
<1>4. QED
  BY <1>1, <1>3 DEF Now

NewHere(b) == b \in Blinkers /\ Shows(text, b, Here) /\ b.countdown = Length /\ b.status = 1
Added(b) == Joined(list', b, list) /\ screen' = [screen EXCEPT ![b.location] = b.on_char]

LEMMA SumBelow ==
  ASSUME NEW x \in Nat, NEW y \in Nat, NEW u \in Nat, NEW v \in Nat,
         NEW l \in Nat, NEW s \in Nat, x <= u, y <= v, u + v < s, l <= x + y
  PROVE  l # s
OBVIOUS

LEMMA ColumnAdds ==
  ASSUME TypeInv, Reading, Len(list) <= pos[0] + pos[1], Column
  PROVE  IF Here \in Places /\ OnScreen(Here)
         THEN AnySeen /\ \E b : NewHere(b) /\ Added(b)
         ELSE UNCHANGED <<list, screen>>
<1>1. \A f \in 0..1 : text[f] # Missing /\ Glyph(Char(f)) = Picture(text[f], Here)
  BY HereSeen
<1>2. CASE ~ AnySeen
  BY <1>2, HereSeen DEF Column
<1>3. CASE AnySeen
  <2>1. Here \in Places
    BY <1>3, HereSeen
  <2>2. PICK cell \in Nat : cell = CellOf(Here) /\ cell \in 0..(Short - 1)
    BY <1>1, <2>1, PlacesFit
  <2>3. cell = row * Width + col + offset
    BY <2>2, HereType DEF CellOf
  <2>4. cell % Short = cell
    BY <2>2, ShortAssumption
  <2>5. Add(cell, Glyph(Char(0)), Glyph(Char(1)), Length, Length)
    BY <1>3, <2>3, <2>4 DEF Column
  <2>6. Len(list) # Slots
    <3>1. /\ Len(text[0]) \in Nat /\ Len(text[1]) \in Nat /\ pos[0] \in Nat /\ pos[1] \in Nat
          /\ pos[0] <= Len(text[0]) /\ pos[1] <= Len(text[1])
          /\ Len(text[0]) + Len(text[1]) < Slots /\ Len(list) \in Nat
      BY LettersFit
    <3>2. Len(list) <= pos[0] + pos[1]
      OBVIOUS
    <3>3. QED
      BY <3>1, <3>2, SumBelow, SlotsAssumption, Zenon
  <2>7. AddRefused(cell) <=> ~ OnScreen(Here)
    BY <2>2, <2>6, CellsAre DEF AddRefused, OnScreen
  <2>8. CASE AddRefused(cell)
    BY <2>5, <2>7, <2>8 DEF Add
  <2>9. CASE ~ AddRefused(cell)
    <3>1. PICK b : b = [location |-> cell, on_char |-> Glyph(Char(0)),
                        off_char |-> Glyph(Char(1)), on_length |-> Length,
                        off_length |-> Length, countdown |-> Length, status |-> 1]
      OBVIOUS
    <3>2. b.location = cell /\ b.on_char = Glyph(Char(0))
      BY <3>1
    <3>3. Added(b)
      BY <2>5, <2>9, <3>1, <3>2, Zenon DEF Add, Added, Joined
    <3>4. Glyph(Char(0)) \in Glyphs /\ Glyph(Char(1)) \in Glyphs
      BY GlyphIs
    <3>5. cell \in Cells /\ Length \in Int
      BY <2>2, <2>7, <2>9, LengthAssumption DEF OnScreen
    <3>6. b \in Blinkers
      BY <3>1, <3>4, <3>5 DEF Blinkers
    <3>7. Glyph(Char(0)) = Picture(text[0], Here) /\ Glyph(Char(1)) = Picture(text[1], Here)
      BY <1>1
    <3>8. NewHere(b)
      BY <2>2, <3>1, <3>6, <3>7 DEF NewHere, Shows
    <3>9. QED
      BY <1>3, <2>1, <2>7, <2>9, <3>3, <3>8
  <2>10. QED
    BY <2>8, <2>9
<1>4. QED
  BY <1>2, <1>3

LEMMA ColumnPositions ==
  ASSUME TypeInv, Reading, ReadBoth
  PROVE  /\ pos' \in [0..1 -> Nat] /\ eof' \in [0..1 -> BOOLEAN]
         /\ pos[0] + pos[1] <= pos'[0] + pos'[1]
         /\ AnySeen => pos[0] + pos[1] + 1 <= pos'[0] + pos'[1]
<1>1. pos[0] \in Nat /\ pos[1] \in Nat /\ \A f \in 0..1 : pos[f] \in Nat /\ eof[f] \in BOOLEAN
  BY DEF TypeInv
<1>2. pos' \in [0..1 -> Nat]
  BY <1>1 DEF ReadBoth
<1>3. \A f \in 0..1 : pos'[f] \in Nat /\ pos[f] <= pos'[f]
  BY <1>1, <1>2 DEF ReadBoth
<1>4. eof' \in [0..1 -> BOOLEAN]
  BY <1>1 DEF ReadBoth
<1>5. pos[0] <= pos'[0] /\ pos[1] <= pos'[1] /\ pos'[0] \in Nat /\ pos'[1] \in Nat
  BY <1>3
<1>6. ASSUME AnySeen
      PROVE  pos[0] + pos[1] + 1 <= pos'[0] + pos'[1]
  <2>1. PICK f \in 0..1 : pos[f] + 1 \in 1..Len(text[f]) /\ c[f] # "nl"
    BY <1>6, HereSeen
  <2>2. Len(text[f]) \in Nat
    BY <2>1, LettersFit
  <2>3. ~ AtEnd(f)
    BY <1>1, <2>1, <2>2 DEF AtEnd
  <2>4. pos'[f] = pos[f] + 1
    BY <2>1, <2>3 DEF ReadBoth
  <2>5. f = 0 \/ f = 1
    OBVIOUS
  <2>6. QED
    BY <1>1, <1>5, <2>4, <2>5
<1>7. QED
  BY <1>1, <1>2, <1>4, <1>5, <1>6

-----------------------------------------------------------------------------

(***************************************************************************)
(* The list, after each of the changes it undergoes.                       *)
(***************************************************************************)
LEMMA ListedFurther ==
  ASSUME NEW P, NEW t, NEW l, NEW f, NEW here, NEW there, Listed(P, t, l, f, here),
         \A place \in P : Before(place, here) => Before(place, there),
         \A place \in P : Before(place, there) /\ OnScreen(place) => Before(place, here)
  PROVE  Listed(P, t, l, f, there)
BY DEF Listed

LEMMA ListedMore ==
  ASSUME NEW S, NEW b \in S, NEW l \in Seq(S), NEW m, Joined(m, b, l),
         NEW P, NEW t, NEW here, NEW there, Listed(P, t, l, 1, here),
         here \in P, Shows(t, b, here),
         \A place \in P : Before(place, there) <=> Before(place, here) \/ place = here
  PROVE  Listed(P, t, m, 1, there)
<1>1. PICK n \in Nat : n = Len(l) /\ Len(m) = n + 1 /\ m[1] = b /\ \A i \in 1..n : m[i + 1] = l[i]
  BY JoinedIs
<1>2. ASSUME NEW i \in 1..(n + 1)
      PROVE  \E place \in P : Before(place, there) /\ Shows(t, m[i], place)
  <2>1. CASE i = 1
    BY <1>1, <2>1
  <2>2. CASE i # 1
    <3>1. PICK j \in 1..n : i = j + 1
      <4>1. i - 1 \in 1..n /\ i = (i - 1) + 1
        BY <2>2
      <4>2. QED
        BY <4>1
    <3>2. m[i] = l[j]
      BY <1>1, <3>1
    <3>3. QED
      BY <1>1, <3>2 DEF Listed
  <2>3. QED
    BY <2>1, <2>2
<1>3. ASSUME NEW place \in P, Before(place, there), OnScreen(place)
      PROVE  \E i \in 1..(n + 1) : Shows(t, m[i], place)
  <2>1. CASE place = here
    <3>1. 1 \in 1..(n + 1)
      OBVIOUS
    <3>2. QED
      BY <1>1, <2>1, <3>1
  <2>2. CASE place # here
    <3>1. PICK i \in 1..n : Shows(t, l[i], place)
      BY <1>1, <1>3, <2>2 DEF Listed
    <3>2. m[i + 1] = l[i] /\ i + 1 \in 1..(n + 1)
      BY <1>1
    <3>3. QED
      BY <3>1, <3>2
  <2>3. QED
    BY <2>1, <2>2
<1>4. QED
  BY <1>1, <1>2, <1>3 DEF Listed

\* The same blinkers, each at one place further, or earlier, in the list.
Shifted(l, f, m, g) ==
  /\ Len(l) \in Nat /\ Len(m) \in Nat /\ Len(m) - g = Len(l) - f
  /\ \A i \in f..Len(l) : m[i + (g - f)] = l[i]

LEMMA ShiftedKeeps ==
  ASSUME NEW l, NEW f \in 1..2, NEW m, NEW g \in 1..2, Shifted(l, f, m, g)
  PROVE  /\ \A P, t, here : Listed(P, t, l, f, here) => Listed(P, t, m, g, here)
         /\ \A n : AllInTime(n, l, f) => AllInTime(n, m, g)
<1>1. PICK x \in Nat, y \in Nat : x = Len(l) /\ y = Len(m) /\ y - g = x - f
  BY DEF Shifted
<1>2. ASSUME NEW i \in g..y
      PROVE  \E j \in f..x : m[i] = l[j]
  <2>1. PICK j \in f..x : i = j + (g - f)
    <3>1. i - (g - f) \in f..x /\ i = (i - (g - f)) + (g - f)
      BY <1>1
    <3>2. QED
      BY <3>1
  <2>2. QED
    BY <1>1, <2>1 DEF Shifted
<1>3. ASSUME NEW j \in f..x
      PROVE  \E i \in g..y : m[i] = l[j]
  <2>1. j + (g - f) \in g..y
    BY <1>1
  <2>2. QED
    BY <1>1, <2>1 DEF Shifted
<1>4. ASSUME NEW P, NEW t, NEW here, Listed(P, t, l, f, here)
      PROVE  Listed(P, t, m, g, here)
  <2>1. \A i \in g..y : \E place \in P : Before(place, here) /\ Shows(t, m[i], place)
    BY <1>1, <1>2, <1>4 DEF Listed
  <2>2. ASSUME NEW place \in P, Before(place, here), OnScreen(place)
        PROVE  \E i \in g..y : Shows(t, m[i], place)
    <3>1. PICK j \in f..x : Shows(t, l[j], place)
      BY <1>1, <1>4, <2>2 DEF Listed
    <3>2. QED
      BY <1>3, <3>1
  <2>3. QED
    BY <1>1, <2>1, <2>2 DEF Listed
<1>5. ASSUME NEW n, AllInTime(n, l, f)
      PROVE  AllInTime(n, m, g)
  BY <1>1, <1>2, <1>5 DEF AllInTime
<1>6. QED
  BY <1>4, <1>5

\* A blinker that has the same but for its state.
Like(b, d) ==
  /\ b.location = d.location /\ b.on_char = d.on_char /\ b.off_char = d.off_char
  /\ b.on_length = d.on_length /\ b.off_length = d.off_length

LEMMA ListedLike ==
  ASSUME NEW P, NEW t, NEW l, NEW m, NEW f, NEW here, Listed(P, t, l, f, here),
         Len(m) = Len(l), \A i \in f..Len(l) : Like(m[i], l[i])
  PROVE  Listed(P, t, m, f, here)
<1>1. \A i \in f..Len(l) : \A place : Shows(t, m[i], place) <=> Shows(t, l[i], place)
  BY DEF Like, Shows
<1>2. QED
  BY <1>1 DEF Listed

\* The blinkers in a cell that has one letter at most show it.
LEMMA ListedThere ==
  ASSUME NEW P, NEW t, NEW l, NEW f, NEW here, Listed(P, t, l, f, here), NEW cell
  PROVE  /\ \A i \in f..Len(l) : l[i].location = cell =>
              \E place \in InOf(P, cell) : Shows(t, l[i], place)
         /\ \A place \in InOf(P, cell) : Before(place, here) /\ cell \in Cells =>
              \E i \in f..Len(l) : Shows(t, l[i], place) /\ l[i].location = cell
BY DEF Listed, InOf, Shows, OnScreen

(***************************************************************************)
(* The screen, when a place is passed.                                     *)
(***************************************************************************)
LEMMA PaintedFurther ==
  ASSUME NEW P, NEW t, NEW n, NEW scr, NEW here, NEW there, Painted(P, t, n, scr, Cells, here),
         \A place \in P : Before(place, there) /\ OnScreen(place) => Before(place, here)
  PROVE  Painted(P, t, n, scr, Cells, there)
<1>1. ASSUME NEW cell \in Cells, NEW place \in P, InOf(P, cell) = {place}, Before(place, there)
      PROVE  Before(place, here)
  BY <1>1 DEF InOf, OnScreen
<1>2. QED
  BY <1>1 DEF Painted

LEMMA PaintedMore ==
  ASSUME NEW P, NEW t, NEW n, NowAt(n) = 0, NEW scr, DOMAIN scr = Cells, NEW here \in P,
         NEW there, Painted(P, t, n, scr, Cells, here), OnScreen(here), NEW scr2,
         scr2 = [scr EXCEPT ![CellOf(here)] = Picture(t[0], here)],
         \A place \in P : Before(place, there) <=> Before(place, here) \/ place = here
  PROVE  Painted(P, t, n, scr2, Cells, there)
<1>1. ASSUME NEW cell \in Cells, InOf(P, cell) = {}
      PROVE  scr2[cell] = Untouched
  <2>1. cell # CellOf(here)
    BY <1>1 DEF InOf
  <2>2. QED
    BY <1>1, <2>1 DEF Painted
<1>2. ASSUME NEW cell \in Cells, NEW place \in P, InOf(P, cell) = {place}, Before(place, there)
      PROVE  scr2[cell] = Picture(t[NowAt(n)], place)
  <2>1. CASE cell = CellOf(here)
    <3>1. place = here
      BY <1>2, <2>1 DEF InOf
    <3>2. scr2[cell] = Picture(t[0], here)
      BY <2>1
    <3>3. QED
      BY <3>1, <3>2
  <2>2. CASE cell # CellOf(here)
    <3>1. place # here
      BY <1>2, <2>2 DEF InOf
    <3>2. scr2[cell] = scr[cell] /\ Before(place, here)
      BY <1>2, <2>2, <3>1
    <3>3. QED
      BY <1>2, <3>2 DEF Painted
  <2>3. QED
    BY <2>1, <2>2
<1>3. QED
  BY <1>1, <1>2 DEF Painted

-----------------------------------------------------------------------------

(***************************************************************************)
(* FishInv holds at first and after every step; first those that read.     *)
(***************************************************************************)
FramesInv ==
  /\ Reading /\ ticks = 0
  /\ Listed(Places, text, list, 1, Here) /\ Len(list) <= pos[0] + pos[1]
  /\ AllInTime(0, list, 1) /\ Painted(Places, text, 0, screen, Cells, Here)

LEMMA NowIs == Now = NowAt(ticks)
BY DEF Now, NowAt

LEMMA FramesAre ==
  ASSUME FishInv, phase = "frames"
  PROVE  FramesInv
<1>1. Opened /\ FirstOfPicture = 1 /\ Fishes = Cells
  BY DEF Opened, FirstOfPicture, HasHand, Fishes
<1>2. Reading /\ ticks = 0
  BY <1>1 DEF FishInv, ReadInv, Reading
<1>3. Listed(Places, text, list, 1, Here) /\ Len(list) <= pos[0] + pos[1] /\ AllInTime(0, list, 1)
  BY <1>1, <1>2 DEF FishInv, ListInv
<1>4. Painted(Places, text, 0, screen, Cells, Here)
  BY <1>1, <1>2 DEF FishInv, ScreenInv
<1>5. QED
  BY <1>2, <1>3, <1>4 DEF FramesInv

LEMMA FramesGoOn ==
  ASSUME TypeInv', FramesInv', phase' = "frames" \/ (phase' = "picture" /\ \A f \in 0..1 : eof'[f])
  PROVE  FishInv'
<1>1. phase' \in {"frames", "picture"} /\ phase' # "open" /\ phase' # "synced"
      /\ phase' # "hand"
  OBVIOUS
<1>2. Opened' /\ FirstOfPicture' = 1 /\ Fishes' = Cells /\ ~ HasHand'
  BY <1>1, UntilIs DEF Opened, FirstOfPicture, HasHand, Fishes
<1>3. ReadInv'
  BY <1>1, UntilIs DEF ReadInv, FramesInv, Reading
<1>4. ListInv'
  BY <1>2 DEF ListInv, FramesInv, HandInv
<1>5. ScreenInv'
  BY <1>2 DEF ScreenInv, FramesInv
<1>6. HandInStep'
  BY <1>1 DEF HandInStep
<1>7. QED
  BY <1>3, <1>4, <1>5, <1>6 DEF FishInv

LEMMA InitHolds ==
  ASSUME Init
  PROVE  FishInv
<1>1. TypeInv
  BY EmptySeq DEF Init, BlinkInit, TypeInv
<1>2. phase = "open" /\ ~ Opened /\ phase \notin DOMAIN Until
  BY UntilIs DEF Init, Opened
<1>3. ReadInv
  BY <1>2 DEF Init, BlinkInit, ReadInv
<1>4. ListInv /\ ScreenInv /\ HandInStep
  BY <1>2 DEF ListInv, ScreenInv, HandInStep
<1>5. QED
  BY <1>1, <1>3, <1>4 DEF FishInv

LEMMA OpenStep ==
  ASSUME FishInv, Open
  PROVE  FishInv'
<1>1. /\ phase = "open" /\ UNCHANGED <<list, screen, text, pos, c, eof, row, col, ticks>>
      /\ phase' = IF \E f \in 0..1 : text[f] = Missing THEN "end" ELSE "frames"
  BY DEF Open, reader
<1>2. TypeInv'
  BY <1>1 DEF FishInv, TypeInv
<1>3. CASE phase' = "end"
  <2>1. ~ Opened' /\ phase' \notin DOMAIN Until
    BY <1>3, UntilIs DEF Opened
  <2>2. QED
    BY <1>2, <1>3, <2>1 DEF FishInv, ReadInv, ListInv, ScreenInv, HandInStep
<1>4. CASE phase' = "frames"
  <2>1. /\ list = <<>> /\ \A cell \in Cells : screen[cell] = Untouched
        /\ row = 0 /\ col = 0 /\ ticks = 0
        /\ \A f \in 0..1 : pos[f] = 0 /\ c[f] = "0" /\ ~ eof[f]
    BY <1>1 DEF FishInv, ReadInv
  <2>2. \A f \in 0..1 : text[f] # Missing
    BY <1>1, <1>4
  <2>3. ASSUME NEW f \in 0..1
        PROVE  FileRead(f)
    <3>1. Place(text[f], 1) = Here
      BY <2>1, PlaceFirst DEF Here
    <3>2. Len(text[f]) \in Nat
      BY <2>2, TextsFit DEF FishInv, Fits
    <3>3. pos[f] = 0 /\ c[f] = "0" /\ ~ eof[f] /\ pos[f] + 1 = 1 /\ "0" # "nl"
      BY <2>1
    <3>4. pos[f] <= Len(text[f])
      BY <3>2, <3>3
    <3>5. QED
      BY <2>2, <3>1, <3>3, <3>4, Zenon DEF FileRead
  <2>4. Reading
    BY <2>3 DEF Reading
  <2>5. \A place \in Places : ~ Before(place, Here)
    <3>1. \A place \in Places : place \in Pairs
      BY <2>2, PlacesFit DEF FishInv
    <3>2. QED
      BY <2>1, <3>1 DEF Before, Here, Pairs
  <2>6. Len(list) = 0 /\ pos[0] = 0 /\ pos[1] = 0
    BY <2>1
  <2>7. Listed(Places, text, list, 1, Here) /\ AllInTime(0, list, 1)
    BY <2>5, <2>6 DEF Listed, AllInTime
  <2>8. Painted(Places, text, 0, screen, Cells, Here)
    BY <2>1, <2>5 DEF Painted
  <2>9. FramesInv
    BY <2>1, <2>4, <2>6, <2>7, <2>8 DEF FramesInv
  <2>10. FramesInv'
    <3>1. Places' = Places /\ Here' = Here /\ Reading'
      BY <1>1, <2>4 DEF Places, Here, Reading, FileRead
    <3>2. QED
      BY <1>1, <2>9, <3>1 DEF FramesInv
  <2>11. QED
    BY <1>2, <1>4, <2>10, FramesGoOn
<1>5. QED
  BY <1>1, <1>3, <1>4

LEMMA ColumnStep ==
  ASSUME FishInv, Column
  PROVE  FishInv'
<1>1. /\ phase = "frames" /\ phase' = "frames" /\ text' = text /\ ticks' = ticks
      /\ row' = row /\ col' = col + 1 /\ c' = [f \in 0..1 |-> Char(f)] /\ ReadBoth
  BY DEF Column, ReadBoth
<1>2. TypeInv /\ FramesInv
  BY <1>1, FramesAre DEF FishInv
<1>3. Reading
  BY <1>2 DEF FramesInv
<1>4. /\ pos' \in [0..1 -> Nat] /\ eof' \in [0..1 -> BOOLEAN]
      /\ pos[0] + pos[1] <= pos'[0] + pos'[1]
      /\ AnySeen => pos[0] + pos[1] + 1 <= pos'[0] + pos'[1]
  BY <1>1, <1>2, <1>3, ColumnPositions
<1>5. Reading'
  <2>1. \A f \in 0..1 : text[f] # Missing
    BY <1>2, <1>3, HereSeen
  <2>2. ASSUME NEW f \in 0..1
        PROVE  FileRead(f)'
    <3>1. FileRead(f) /\ Fits(text[f]) /\ c'[f] = Char(f)
      BY <1>1, <1>2, <1>3, <2>1, TextsFit DEF Reading
    <3>2. QED
      BY <1>1, <1>2, <3>1, ColumnReads
  <2>3. QED
    BY <2>2 DEF Reading
<1>6. \A place \in Places : Before(place, Here') <=> Before(place, Here) \/ place = Here
  <2>1. \A place \in Pairs : Before(place, Here)' <=> Before(place, Here) \/ place = Here
    BY <1>1, <1>2, ColumnPasses
  <2>2. \A place \in Places : place \in Pairs
    BY <1>2, <1>3, HereSeen, PlacesFit
  <2>3. QED
    BY <2>1, <2>2
<1>7. Places' = Places
  BY <1>1, SameText
<1>8. /\ Listed(Places, text, list, 1, Here) /\ Len(list) <= pos[0] + pos[1] /\ ticks = 0
      /\ AllInTime(0, list, 1) /\ Painted(Places, text, 0, screen, Cells, Here)
  BY <1>2 DEF FramesInv
<1>9. list \in Seq(Blinkers) /\ DOMAIN screen = Cells /\ Len(list) \in Nat
  BY <1>2 DEF TypeInv
<1>10. list' \in Seq(Blinkers) /\ DOMAIN screen' = Cells => TypeInv'
  BY <1>1, <1>2, <1>4 DEF TypeInv
<1>11. IF Here \in Places /\ OnScreen(Here)
       THEN AnySeen /\ \E b : NewHere(b) /\ Added(b)
       ELSE UNCHANGED <<list, screen>>
  BY <1>1, <1>2, <1>3, <1>8, ColumnAdds
<1>12. CASE Here \in Places /\ OnScreen(Here)
  <2>1. PICK b : NewHere(b) /\ Added(b)
    BY <1>11, <1>12
  <2>2. b \in Blinkers /\ Shows(text, b, Here) /\ b.countdown = Length /\ b.status = 1
    BY <2>1 DEF NewHere
  <2>3. Joined(list', b, list) /\ screen' = [screen EXCEPT ![b.location] = b.on_char]
    BY <2>1 DEF Added
  <2>4. /\ list' \in Seq(Blinkers) /\ Len(list') = Len(list) + 1 /\ list'[1] = b
        /\ \A i \in 1..Len(list) : list'[i + 1] = list[i]
    BY <1>9, <2>2, <2>3, JoinedIs
  <2>5. b.location = CellOf(Here) /\ b.on_char = Picture(text[0], Here)
    BY <2>2 DEF Shows
  <2>6. Listed(Places, text, list', 1, Here')
    BY <1>6, <1>8, <1>9, <1>12, <2>2, <2>3, ListedMore
  <2>7. Len(list') <= pos'[0] + pos'[1]
    <3>1. pos[0] + pos[1] + 1 <= pos'[0] + pos'[1]
      BY <1>4, <1>11, <1>12
    <3>2. pos[0] \in Nat /\ pos[1] \in Nat /\ pos'[0] \in Nat /\ pos'[1] \in Nat
      BY <1>2, <1>4 DEF TypeInv
    <3>3. QED
      BY <1>8, <1>9, <2>4, <3>1, <3>2
  <2>8. NowAt(0) = 0 /\ 0 % Length = 0 /\ Length \in Nat \ {0}
    BY <1>8, StartIs, NowIs
  <2>9. AllInTime(0, list', 1)
    <3>1. InTime(0, b)
      BY <2>2, <2>8 DEF InTime
    <3>2. ASSUME NEW i \in 1..Len(list'), i # 1
          PROVE  InTime(0, list'[i])
      <4>1. i - 1 \in 1..Len(list) /\ (i - 1) + 1 = i
        BY <1>9, <2>4, <3>2
      <4>2. list'[i] = list[i - 1]
        BY <2>4, <4>1
      <4>3. QED
        BY <1>8, <4>1, <4>2 DEF AllInTime
    <3>3. QED
      BY <2>4, <3>1, <3>2 DEF AllInTime
  <2>10. /\ screen' = [screen EXCEPT ![CellOf(Here)] = Picture(text[0], Here)]
         /\ DOMAIN screen' = Cells
    BY <1>9, <2>3, <2>5
  <2>11. Painted(Places, text, 0, screen', Cells, Here')
    BY <1>6, <1>8, <1>9, <1>12, <2>8, <2>10, PaintedMore
  <2>12. FramesInv'
    BY <1>1, <1>5, <1>7, <1>8, <2>6, <2>7, <2>9, <2>11 DEF FramesInv
  <2>13. QED
    BY <1>1, <1>10, <2>4, <2>10, <2>12, FramesGoOn
<1>13. CASE ~ (Here \in Places /\ OnScreen(Here))
  <2>1. list' = list /\ screen' = screen
    BY <1>11, <1>13
  <2>2. \A place \in Places :
          /\ Before(place, Here) => Before(place, Here')
          /\ Before(place, Here') /\ OnScreen(place) => Before(place, Here)
    BY <1>6, <1>13
  <2>3. Listed(Places, text, list', 1, Here')
    BY <1>8, <2>1, <2>2, ListedFurther
  <2>4. Painted(Places, text, 0, screen', Cells, Here')
    BY <1>8, <2>1, <2>2, PaintedFurther
  <2>5. Len(list') <= pos'[0] + pos'[1]
    <3>1. pos[0] \in Nat /\ pos[1] \in Nat /\ pos'[0] \in Nat /\ pos'[1] \in Nat
      BY <1>2, <1>4 DEF TypeInv
    <3>2. QED
      BY <1>4, <1>8, <1>9, <2>1, <3>1
  <2>6. FramesInv'
    BY <1>1, <1>5, <1>7, <1>8, <2>1, <2>3, <2>4, <2>5 DEF FramesInv
  <2>7. QED
    BY <1>1, <1>9, <1>10, <2>1, <2>6, FramesGoOn
<1>14. QED
  BY <1>12, <1>13

LEMMA RowStep ==
  ASSUME FishInv, Row
  PROVE  FishInv'
<1>1. /\ phase = "frames" /\ text' = text /\ ticks' = ticks /\ list' = list /\ screen' = screen
      /\ row' = row + 1 /\ col' = 0 /\ ReadBoth /\ \A f \in 0..1 : Char(f) = "nl"
      /\ c' = [f \in 0..1 |-> IF eof'[f] THEN "nl" ELSE "0"]
      /\ phase' = IF \A f \in 0..1 : eof'[f] THEN "picture" ELSE "frames"
  BY DEF Row, ReadBoth
<1>2. TypeInv /\ FramesInv
  BY <1>1, FramesAre DEF FishInv
<1>3. Reading
  BY <1>2 DEF FramesInv
<1>4. /\ pos' \in [0..1 -> Nat] /\ eof' \in [0..1 -> BOOLEAN]
      /\ pos[0] + pos[1] <= pos'[0] + pos'[1]
  BY <1>1, <1>2, <1>3, ColumnPositions
<1>5. Reading'
  <2>1. \A f \in 0..1 : text[f] # Missing
    BY <1>2, <1>3, HereSeen
  <2>2. ASSUME NEW f \in 0..1
        PROVE  FileRead(f)'
    <3>1. FileRead(f) /\ Fits(text[f]) /\ c'[f] = (IF eof'[f] THEN "nl" ELSE "0")
      BY <1>1, <1>2, <1>3, <2>1, TextsFit DEF Reading
    <3>2. QED
      BY <1>1, <1>2, <3>1, RowReads
  <2>3. QED
    BY <2>2 DEF Reading
<1>6. \A place \in Places : Before(place, Here') <=> Before(place, Here)
  <2>1. \A place \in Places : Before(place, Here)' <=> Before(place, Here)
    BY <1>1, <1>2, <1>3, RowPasses
  <2>2. QED
    BY <2>1
<1>7. Places' = Places
  BY <1>1, SameText
<1>8. /\ Listed(Places, text, list, 1, Here) /\ Len(list) <= pos[0] + pos[1] /\ ticks = 0
      /\ AllInTime(0, list, 1) /\ Painted(Places, text, 0, screen, Cells, Here)
  BY <1>2 DEF FramesInv
<1>9. Listed(Places, text, list', 1, Here')
  BY <1>1, <1>6, <1>8, ListedFurther
<1>10. Painted(Places, text, 0, screen', Cells, Here')
  BY <1>1, <1>6, <1>8, PaintedFurther
<1>11. Len(list') <= pos'[0] + pos'[1]
  <2>1. /\ pos[0] \in Nat /\ pos[1] \in Nat /\ pos'[0] \in Nat /\ pos'[1] \in Nat
        /\ Len(list) \in Nat
    BY <1>2, <1>4 DEF TypeInv
  <2>2. QED
    BY <1>1, <1>4, <1>8, <2>1
<1>12. FramesInv'
  BY <1>1, <1>5, <1>7, <1>8, <1>9, <1>10, <1>11 DEF FramesInv
<1>13. TypeInv'
  BY <1>1, <1>2, <1>4, UntilIs DEF TypeInv
<1>14. QED
  BY <1>1, <1>12, <1>13, FramesGoOn

-----------------------------------------------------------------------------

(***************************************************************************)
(* After the reading: all places are passed.  What a tick does to blinkers *)
(* that are in time, and draws.                                            *)
(***************************************************************************)
LEMMA AllPassed ==
  ASSUME FishInv, phase \in DOMAIN Until
  PROVE  Reading /\ \A place \in Places : Before(place, Here)
<1>1. Opened /\ TypeInv /\ ReadInv
  BY DEF Opened, FishInv
<1>2. Reading /\ \A f \in 0..1 : FileRead(f) /\ eof[f]
  BY <1>1 DEF ReadInv, Reading
<1>3. \A f \in 0..1 : text[f] # Missing
  BY <1>2 DEF FileRead
<1>4. ASSUME NEW f \in 0..1, NEW i \in Letters(text[f])
      PROVE  Before(Place(text[f], i), Here)
  <2>1. Fits(text[f]) /\ pos[f] = Len(text[f])
    BY <1>1, <1>2, <1>3, TextsFit DEF FileRead
  <2>2. i \in 1..pos[f]
    BY <2>1 DEF Letters, Fits
  <2>3. QED
    BY <1>1, <1>2, <2>1, <2>2, PassedIs
<1>5. QED
  BY <1>2, <1>4, PlacesAre

LEMMA NowStep ==
  ASSUME NEW n \in Nat
  PROVE  /\ Length \in Nat \ {0} /\ n % Length \in 0..(Length - 1) /\ n \div Length \in Nat
         /\ NowAt(n) \in 0..1
         /\ n % Length = Length - 1 => /\ (n + 1) % Length = 0
                                       /\ NowAt(n + 1) = 1 - NowAt(n)
         /\ n % Length # Length - 1 => /\ (n + 1) % Length = (n % Length) + 1
                                       /\ (n + 1) \div Length = n \div Length
                                       /\ NowAt(n + 1) = NowAt(n)
<1>1. PICK d \in Nat \ {0} : d = Length
  BY LengthAssumption
<1>2. n % d \in 0..(d - 1) /\ n \div d \in Nat
  BY DivMod
<1>3. /\ n % d = d - 1 => (n + 1) % d = 0 /\ (n + 1) \div d = (n \div d) + 1
      /\ n % d # d - 1 => (n + 1) % d = (n % d) + 1 /\ (n + 1) \div d = n \div d
  BY DivStep
<1>4. PICK q \in Nat : q = n \div d
  BY <1>2
<1>5. (q + 1) % 2 = 0 <=> ~ (q % 2 = 0)
  OBVIOUS
<1>6. NowAt(n) = IF q % 2 = 0 THEN 0 ELSE 1
  BY <1>1, <1>4 DEF NowAt
<1>7. CASE n % d = d - 1
  <2>1. (n + 1) \div d = q + 1
    BY <1>3, <1>4, <1>7
  <2>2. NowAt(n + 1) = IF (q + 1) % 2 = 0 THEN 0 ELSE 1
    BY <1>1, <2>1 DEF NowAt
  <2>3. NowAt(n) \in 0..1 /\ NowAt(n + 1) = 1 - NowAt(n)
    BY <1>5, <1>6, <2>2
  <2>4. QED
    BY <1>1, <1>2, <1>3, <1>7, <2>3
<1>8. CASE n % d # d - 1
  <2>1. (n + 1) \div d = q
    BY <1>3, <1>4, <1>8
  <2>2. NowAt(n + 1) = NowAt(n)
    BY <1>1, <1>4, <2>1 DEF NowAt
  <2>3. QED
    BY <1>1, <1>2, <1>3, <1>6, <1>8, <2>2
<1>9. QED
  BY <1>7, <1>8

LEMMA TickedIs ==
  ASSUME NEW b \in Blinkers
  PROVE  Ticked(b) \in Blinkers /\ Like(Ticked(b), b)
<1>1. b.countdown \in Int /\ b.status \in 0..1 /\ b.on_length \in Int /\ b.off_length \in Int
  BY DEF Blinkers
<1>2. b.countdown - 1 \in Int /\ 1 - b.status \in 0..1
  BY <1>1
<1>3. QED
  BY <1>1, <1>2 DEF Ticked, Over, Blinkers, Like

LEMMA TickTime ==
  ASSUME NEW n \in Nat, NEW b \in Blinkers, InTime(n, b),
         b.on_length = Length, b.off_length = Length
  PROVE  /\ Over(b) <=> n % Length = Length - 1
         /\ InTime(n + 1, Ticked(b))
         /\ Shown(Ticked(b)) = IF NowAt(n + 1) = 0 THEN b.on_char ELSE b.off_char
<1>1. PICK d \in Nat \ {0}, r \in Nat, k \in 0..1 :
        d = Length /\ r = n % Length /\ k = NowAt(n) /\ r <= d - 1
  BY NowStep
<1>2. b.countdown = d - r /\ b.status = 1 - k
  BY <1>1 DEF InTime
<1>3. Over(b) <=> r = d - 1
  BY <1>1, <1>2 DEF Over
<1>4. CASE r = d - 1
  <2>1. Ticked(b) = [b EXCEPT !.status = 1 - @,
                              !.countdown = IF b.status = 1 THEN b.off_length ELSE b.on_length]
    BY <1>3, <1>4 DEF Ticked
  <2>2. Ticked(b).status = k /\ Ticked(b).countdown = d
    BY <1>1, <1>2, <2>1 DEF Blinkers
  <2>3. Ticked(b).on_char = b.on_char /\ Ticked(b).off_char = b.off_char
    BY <2>1 DEF Blinkers
  <2>4. (n + 1) % Length = 0 /\ NowAt(n + 1) = 1 - k
    BY <1>1, <1>4, NowStep
  <2>5. InTime(n + 1, Ticked(b))
    BY <1>1, <2>2, <2>4 DEF InTime
  <2>6. QED
    BY <1>1, <1>3, <1>4, <2>2, <2>3, <2>4, <2>5 DEF Shown
<1>5. CASE r # d - 1
  <2>1. Ticked(b) = [b EXCEPT !.countdown = @ - 1]
    BY <1>3, <1>5 DEF Ticked
  <2>2. Ticked(b).status = 1 - k /\ Ticked(b).countdown = d - r - 1
    BY <1>1, <1>2, <2>1 DEF Blinkers
  <2>3. Ticked(b).on_char = b.on_char /\ Ticked(b).off_char = b.off_char
    BY <2>1 DEF Blinkers
  <2>4. (n + 1) % Length = r + 1 /\ NowAt(n + 1) = k
    BY <1>1, <1>5, NowStep
  <2>5. InTime(n + 1, Ticked(b))
    BY <1>1, <2>2, <2>4 DEF InTime
  <2>6. QED
    BY <1>1, <1>3, <1>5, <2>2, <2>3, <2>4, <2>5 DEF Shown
<1>6. QED
  BY <1>4, <1>5

LEMMA DrawnIs ==
  ASSUME TypeInv, NEW cell
  PROVE  /\ Drawn(cell) \subseteq 1..Len(list)
         /\ Drawn(cell) # {} => Max(Drawn(cell)) \in Drawn(cell)
<1>1. PICK n \in Nat : n = Len(list) /\ DOMAIN list = 1..n
  BY DEF TypeInv
<1>2. Drawn(cell) \subseteq 1..n
  BY <1>1 DEF Drawn
<1>3. PICK T : T = Drawn(cell)
  OBVIOUS
<1>4. T # {} => Max(T) \in T
  <2>1. T \in SUBSET (0..n)
    BY <1>2, <1>3
  <2>2. QED
    BY <2>1, MaxIs
<1>5. QED
  BY <1>1, <1>2, <1>3, <1>4

LEMMA TickPaints ==
  ASSUME TypeInv, mp1_rtc_tasklet, NEW P, NEW t, NEW n \in Nat, NEW f \in 1..2, NEW here,
         NEW cells \in SUBSET Cells,
         Listed(P, t, list, f, here), AllInTime(n, list, f),
         \A place \in P : Before(place, here),
         \A i \in 1..Len(list) : i < f => list[i].location \notin cells,
         Painted(P, t, n, screen, cells, here)
  PROVE  Painted(P, t, n + 1, screen', cells, here)
<1>1. /\ Len(list) \in Nat /\ DOMAIN list = 1..Len(list)
      /\ \A i \in 1..Len(list) : list[i] \in Blinkers
  BY DEF TypeInv
<1>2. \A cell \in cells : screen'[cell] = IF Drawn(cell) = {} THEN screen[cell]
                                          ELSE Shown(Ticked(list[Max(Drawn(cell))]))
  BY DEF mp1_rtc_tasklet
<1>3. ASSUME NEW cell \in cells, NEW i \in Drawn(cell)
      PROVE  i \in f..Len(list) /\ list[i].location = cell /\ Over(list[i])
  <2>1. i \in 1..Len(list) /\ list[i].location = cell /\ Over(list[i])
    BY <1>1 DEF Drawn
  <2>2. ~ (i < f)
    BY <2>1
  <2>3. QED
    BY <1>1, <2>1, <2>2
<1>4. ASSUME NEW i \in f..Len(list), NEW place, Shows(t, list[i], place)
      PROVE  /\ Over(list[i]) <=> n % Length = Length - 1
             /\ Shown(Ticked(list[i])) = Picture(t[NowAt(n + 1)], place)
  <2>1. i \in 1..Len(list)
    BY <1>1
  <2>2. list[i] \in Blinkers /\ InTime(n, list[i])
    BY <1>1, <2>1 DEF AllInTime
  <2>3. /\ list[i].on_length = Length /\ list[i].off_length = Length
        /\ list[i].on_char = Picture(t[0], place) /\ list[i].off_char = Picture(t[1], place)
    BY <1>4 DEF Shows
  <2>4. NowAt(n + 1) = 0 \/ NowAt(n + 1) = 1
    BY DEF NowAt
  <2>5. QED
    BY <2>2, <2>3, <2>4, TickTime
<1>5. ASSUME NEW cell \in cells, InOf(P, cell) = {}
      PROVE  screen'[cell] = Untouched
  <2>1. Drawn(cell) = {}
    BY <1>3, <1>5, ListedThere
  <2>2. QED
    BY <1>2, <1>5, <2>1 DEF Painted
<1>6. ASSUME NEW cell \in cells, NEW place \in P, InOf(P, cell) = {place}
      PROVE  screen'[cell] = Picture(t[NowAt(n + 1)], place)
  <2>1. \A i \in Drawn(cell) : Shows(t, list[i], place)
    BY <1>3, <1>6, ListedThere
  <2>2. CASE n % Length = Length - 1
    <3>1. cell \in Cells /\ place \in InOf(P, cell) /\ Before(place, here)
      BY <1>6
    <3>2. PICK i \in f..Len(list) : Shows(t, list[i], place) /\ list[i].location = cell
      BY <3>1, ListedThere
    <3>3. i \in DOMAIN list /\ Over(list[i])
      BY <1>1, <1>4, <2>2, <3>2
    <3>4. Drawn(cell) # {}
      BY <3>2, <3>3 DEF Drawn
    <3>5. PICK j \in Drawn(cell) : screen'[cell] = Shown(Ticked(list[j]))
      BY <1>2, <3>4, DrawnIs
    <3>6. QED
      BY <1>3, <1>4, <2>1, <3>5
  <2>3. CASE n % Length # Length - 1
    <3>1. Drawn(cell) = {}
      BY <1>3, <1>4, <2>1, <2>3
    <3>2. screen'[cell] = screen[cell] /\ NowAt(n + 1) = NowAt(n)
      BY <1>2, <2>3, <3>1, NowStep
    <3>3. screen[cell] = Picture(t[NowAt(n)], place)
      BY <1>6 DEF Painted
    <3>4. QED
      BY <3>2, <3>3
  <2>4. QED
    BY <2>2, <2>3
<1>7. QED
  BY <1>5, <1>6 DEF Painted

-----------------------------------------------------------------------------

(***************************************************************************)
(* FishInv holds after the steps of main.                                  *)
(***************************************************************************)
LEMMA PictureIs ==
  ASSUME FishInv, phase \in DOMAIN Until
  PROVE  /\ TypeInv /\ ReadInv /\ HandInv /\ HandInStep
         /\ Listed(Places, text, list, FirstOfPicture, Here)
         /\ AllInTime(ticks, list, FirstOfPicture)
         /\ Painted(Places, text, ticks, screen, Fishes, Here)
         /\ phase = "picture" => Len(list) <= pos[0] + pos[1]
         /\ \A cell : In(cell) = InOf(Places, cell)
         /\ ticks \in Nat /\ list \in Seq(Blinkers) /\ DOMAIN screen = Cells
<1>1. Opened
  BY DEF Opened
<1>2. \A cell : In(cell) = InOf(Places, cell)
  BY DEF In, InOf, CellOf
<1>3. QED
  BY <1>1, <1>2 DEF FishInv, ListInv, ScreenInv, TypeInv

PhaseInv ==
  /\ HandInv /\ HandInStep
  /\ Listed(Places, text, list, FirstOfPicture, Here)
  /\ AllInTime(ticks, list, FirstOfPicture)
  /\ Painted(Places, text, ticks, screen, Fishes, Here)
  /\ phase = "picture" => Len(list) <= pos[0] + pos[1]

LEMMA PictureGoesOn ==
  ASSUME FishInv, phase \in DOMAIN Until, UNCHANGED reader, phase' \in DOMAIN Until,
         list' \in Seq(Blinkers), DOMAIN screen' = Cells, ticks' \in Nat, PhaseInv'
  PROVE  FishInv'
<1>1. /\ text' = text /\ pos' = pos /\ c' = c /\ eof' = eof /\ row' = row /\ col' = col
  BY DEF reader
<1>2. TypeInv'
  BY <1>1 DEF FishInv, TypeInv
<1>3. phase' # "open" /\ phase' # "frames"
  BY UntilIs
<1>4. \A f \in 0..1 : FileRead(f) /\ eof[f]
  BY DEF FishInv, ReadInv, Opened
<1>5. \A f \in 0..1 : FileRead(f)' /\ eof'[f]
  BY <1>1, <1>4 DEF FileRead, Here
<1>6. ReadInv'
  BY <1>3, <1>5 DEF ReadInv
<1>7. ListInv' /\ ScreenInv' /\ HandInStep'
  BY <1>3 DEF PhaseInv, ListInv, ScreenInv
<1>8. QED
  BY <1>2, <1>6, <1>7 DEF FishInv

LEMMA EndHolds ==
  ASSUME FishInv, phase' = "end", UNCHANGED <<list, screen, reader, ticks>>
  PROVE  FishInv'
<1>1. /\ text' = text /\ pos' = pos /\ c' = c /\ eof' = eof /\ row' = row /\ col' = col
  BY DEF reader
<1>2. ~ Opened' /\ phase' \notin DOMAIN Until
  BY UntilIs DEF Opened
<1>3. TypeInv'
  BY <1>1 DEF FishInv, TypeInv
<1>4. QED
  BY <1>2, <1>3 DEF FishInv, ReadInv, ListInv, ScreenInv, HandInStep

\* The blinkers that are not of the picture are not in its cells.
LEMMA OthersElsewhere ==
  ASSUME FishInv, phase \in DOMAIN Until
  PROVE  /\ FirstOfPicture \in 1..2 /\ Fishes \in SUBSET Cells
         /\ \A i \in 1..Len(list) : i < FirstOfPicture => list[i].location \notin Fishes
<1>1. FirstOfPicture \in 1..2 /\ Fishes \in SUBSET Cells
  BY DEF FirstOfPicture, Fishes
<1>2. ASSUME NEW i \in 1..Len(list), i < FirstOfPicture
      PROVE  list[i].location \notin Fishes
  <2>1. HasHand /\ i = 1
    BY <1>2 DEF FirstOfPicture
  <2>2. list[1].location = HandAt
    BY <2>1, PictureIs DEF HandInv
  <2>3. phase # "frames" /\ phase # "picture"
    BY <2>1, UntilIs DEF HasHand
  <2>4. QED
    BY <2>1, <2>2, <2>3 DEF Fishes
<1>3. QED
  BY <1>1, <1>2

LEMMA TickStep ==
  ASSUME FishInv, Tick
  PROVE  FishInv'
<1>1. /\ phase \in DOMAIN Until /\ mp1_rtc_tasklet /\ ticks' = ticks + 1 /\ UNCHANGED reader
      /\ phase' = phase /\ text' = text /\ Here' = Here /\ pos' = pos
  BY DEF Tick, reader, Here
<1>2. /\ TypeInv /\ HandInv /\ HandInStep
      /\ Listed(Places, text, list, FirstOfPicture, Here)
      /\ AllInTime(ticks, list, FirstOfPicture)
      /\ Painted(Places, text, ticks, screen, Fishes, Here)
      /\ phase = "picture" => Len(list) <= pos[0] + pos[1]
      /\ \A cell : In(cell) = InOf(Places, cell)
      /\ ticks \in Nat /\ list \in Seq(Blinkers)
  BY <1>1, PictureIs
<1>3. PICK n \in Nat, f \in 1..2 : n = ticks /\ f = FirstOfPicture /\ FirstOfPicture' = f
  BY <1>1, <1>2, OthersElsewhere DEF FirstOfPicture, HasHand
<1>4. /\ Fishes \in SUBSET Cells /\ Fishes' = Fishes /\ Places' = Places
      /\ \A i \in 1..Len(list) : i < f => list[i].location \notin Fishes
      /\ \A place \in Places : Before(place, Here)
  BY <1>1, <1>3, OthersElsewhere, SameText, AllPassed DEF Fishes
<1>5. Len(list) \in Nat /\ DOMAIN list = 1..Len(list) /\ \A i \in 1..Len(list) : list[i] \in Blinkers
  BY <1>2
<1>6. list' = [i \in 1..Len(list) |-> Ticked(list[i])]
  BY <1>1, <1>5 DEF mp1_rtc_tasklet
<1>7. /\ list' \in Seq(Blinkers) /\ Len(list') = Len(list)
      /\ \A i \in 1..Len(list) : list'[i] = Ticked(list[i]) /\ Like(list'[i], list[i])
  BY <1>5, <1>6, TickedIs
<1>8. DOMAIN screen' = Cells
  BY <1>1 DEF mp1_rtc_tasklet
<1>9. Painted(Places, text, n + 1, screen', Fishes, Here)
  BY <1>1, <1>2, <1>3, <1>4, TickPaints
<1>10. Listed(Places, text, list', f, Here)
  <2>1. \A i \in f..Len(list) : Like(list'[i], list[i])
    BY <1>5, <1>7
  <2>2. QED
    BY <1>2, <1>3, <1>7, <2>1, ListedLike
<1>11. AllInTime(n + 1, list', f)
  <2>1. ASSUME NEW i \in f..Len(list)
        PROVE  InTime(n + 1, list'[i])
    <3>1. i \in 1..Len(list) /\ InTime(n, list[i])
      BY <1>2, <1>3, <1>5 DEF AllInTime
    <3>2. PICK place : Shows(text, list[i], place)
      BY <1>2, <1>3 DEF Listed
    <3>3. list[i].on_length = Length /\ list[i].off_length = Length
      BY <3>2 DEF Shows
    <3>4. InTime(n + 1, Ticked(list[i]))
      BY <1>5, <3>1, <3>3, TickTime
    <3>5. QED
      BY <1>7, <3>1, <3>4
  <2>2. QED
    BY <1>7, <2>1 DEF AllInTime
<1>12. ASSUME HasHand
       PROVE  /\ 1 \in 1..Len(list) /\ list[1].location = HandAt
              /\ list[1].on_char = "I" /\ list[1].off_char = "M" /\ Like(list'[1], list[1])
  <2>1. /\ Len(list) # 0 /\ list[1].location = HandAt
        /\ list[1].on_char = "I" /\ list[1].off_char = "M"
    BY <1>2, <1>12 DEF HandInv
  <2>2. 1 \in 1..Len(list)
    BY <1>5, <2>1
  <2>3. QED
    BY <1>7, <2>1, <2>2
<1>13. ASSUME phase = "synced", In(offset) # {}
       PROVE  /\ list[1].on_length = Length /\ list[1].off_length = Length
              /\ InTime(n + 1, list'[1]) /\ (Over(list[1]) <=> n % Length = Length - 1)
              /\ Shown(Ticked(list[1])) = IF NowAt(n + 1) = 0 THEN "I" ELSE "M"
  <2>1. HasHand
    BY <1>13 DEF HasHand
  <2>2. list[1].on_length = Length /\ list[1].off_length = Length /\ InTime(n, list[1])
    BY <1>2, <1>3, <1>13, <2>1 DEF HandInv
  <2>3. list[1] \in Blinkers /\ list'[1] = Ticked(list[1])
    BY <1>5, <1>7, <1>12, <2>1
  <2>4. QED
    BY <1>12, <2>1, <2>2, <2>3, TickTime
<1>14. In(offset)' = In(offset) /\ In(HandAt)' = In(HandAt)
  <2>1. offset \in Cells /\ HandAt \in Cells
    BY offsetAssumption, HandAssumption
  <2>2. QED
    BY <1>1, <2>1, SameText
<1>15. HandInv'
  <2>1. HasHand' <=> HasHand
    BY <1>1 DEF HasHand
  <2>2. SUFFICES ASSUME HasHand
                 PROVE  /\ Len(list') # 0 /\ list'[1].location = HandAt
                        /\ list'[1].on_char = "I" /\ list'[1].off_char = "M"
                        /\ phase = "synced" /\ In(offset) # {} =>
                             /\ list'[1].on_length = Length /\ list'[1].off_length = Length
                             /\ InTime(n + 1, list'[1])
    BY <1>1, <1>3, <1>14, <2>1 DEF HandInv
  <2>3. QED
    BY <1>5, <1>7, <1>12, <1>13, <2>2 DEF Like
<1>16. HandInStep'
  <2>1. SUFFICES ASSUME phase = "synced", (n + 1) \div Length > (2 * WAIT) \div Length,
                        In(offset) # {}, In(HandAt) = {}
                 PROVE  screen'[HandAt] = IF NowAt(n + 1) = 0 THEN "I" ELSE "M"
    BY <1>1, <1>3, <1>14 DEF HandInStep, Now, NowAt
  <2>2. HasHand /\ f = 2
    BY <1>3, <2>1 DEF HasHand, FirstOfPicture
  <2>3. screen'[HandAt] = IF Drawn(HandAt) = {} THEN screen[HandAt]
                          ELSE Shown(Ticked(list[Max(Drawn(HandAt))]))
    BY <1>1, HandAssumption DEF mp1_rtc_tasklet
  <2>4. Drawn(HandAt) \subseteq {1}
    <3>1. ASSUME NEW i \in Drawn(HandAt), i # 1
          PROVE  FALSE
      <4>1. i \in f..Len(list) /\ list[i].location = HandAt
        BY <1>5, <2>2, <3>1 DEF Drawn
      <4>2. InOf(Places, HandAt) # {}
        BY <1>2, <1>3, <4>1, ListedThere
      <4>3. QED
        BY <1>2, <2>1, <4>2
    <3>2. QED
      BY <3>1
  <2>5. CASE n % Length = Length - 1
    <3>1. 1 \in Drawn(HandAt)
      BY <1>5, <1>12, <1>13, <2>1, <2>2, <2>5 DEF Drawn
    <3>2. Max(Drawn(HandAt)) = 1
      BY <1>2, <2>4, <3>1, DrawnIs
    <3>3. QED
      BY <1>13, <2>1, <2>3, <3>1, <3>2
  <2>6. CASE n % Length # Length - 1
    <3>1. Drawn(HandAt) = {}
      BY <1>13, <2>1, <2>4, <2>6 DEF Drawn
    <3>2. (n + 1) \div Length = n \div Length /\ NowAt(n + 1) = NowAt(n)
      BY <2>6, NowStep
    <3>3. screen[HandAt] = IF NowAt(n) = 0 THEN "I" ELSE "M"
      BY <1>2, <1>3, <2>1, <3>2, NowIs DEF HandInStep
    <3>4. QED
      BY <2>3, <3>1, <3>2, <3>3
  <2>7. QED
    BY <2>5, <2>6
<1>17. PhaseInv'
  <2>1. ticks' = n + 1 /\ n + 1 \in Nat
    BY <1>1, <1>3
  <2>2. QED
    BY <1>1, <1>2, <1>3, <1>4, <1>7, <1>9, <1>10, <1>11, <1>15, <1>16, <2>1 DEF PhaseInv
<1>18. ticks' \in Nat
  BY <1>1, <1>2
<1>19. QED
  BY <1>1, <1>7, <1>8, <1>17, <1>18, PictureGoesOn

LEMMA AddHandStep ==
  ASSUME FishInv, AddHand
  PROVE  FishInv'
<1>1. /\ phase = "picture" /\ phase' = "hand" /\ Add(HandAt, "I", "M", HandOn, HandOff)
      /\ UNCHANGED reader /\ ticks' = ticks /\ text' = text /\ Here' = Here
      /\ phase \in DOMAIN Until /\ phase' \in DOMAIN Until
  BY UntilIs DEF AddHand, Step, reader, Here
<1>2. /\ TypeInv /\ Listed(Places, text, list, FirstOfPicture, Here)
      /\ AllInTime(ticks, list, FirstOfPicture)
      /\ Painted(Places, text, ticks, screen, Fishes, Here)
      /\ Len(list) <= pos[0] + pos[1]
      /\ ticks \in Nat /\ list \in Seq(Blinkers) /\ DOMAIN screen = Cells
  BY <1>1, PictureIs
<1>3. /\ FirstOfPicture = 1 /\ FirstOfPicture' = 2 /\ Places' = Places
      /\ Fishes = Cells /\ Fishes' = Cells \ {HandAt}
  BY <1>1, SameText DEF FirstOfPicture, HasHand, Fishes
<1>4. HandAt \in Cells /\ HandAt \in Nat /\ HandAt < Width * Height /\ Width * Height \in Nat
  BY HandAssumption, CellsAre
<1>5. Len(list) # Slots
  <2>1. Reading
    BY <1>1, AllPassed
  <2>2. /\ Len(text[0]) \in Nat /\ Len(text[1]) \in Nat /\ pos[0] \in Nat /\ pos[1] \in Nat
        /\ pos[0] <= Len(text[0]) /\ pos[1] <= Len(text[1])
        /\ Len(text[0]) + Len(text[1]) < Slots /\ Len(list) \in Nat
    BY <1>2, <2>1, LettersFit
  <2>3. QED
    BY <1>2, <2>2, SumBelow, SlotsAssumption, Zenon
<1>6. ~ AddRefused(HandAt)
  BY <1>4, <1>5 DEF AddRefused
<1>7. PICK b : b = [location |-> HandAt, on_char |-> "I", off_char |-> "M",
                    on_length |-> HandOn, off_length |-> HandOff,
                    countdown |-> HandOn, status |-> 1]
  OBVIOUS
<1>8. Joined(list', b, list) /\ screen' = [screen EXCEPT ![HandAt] = "I"]
  BY <1>1, <1>6, <1>7, Zenon DEF Add, Joined
<1>9. b \in Blinkers /\ b.location = HandAt /\ b.on_char = "I" /\ b.off_char = "M"
  BY <1>4, <1>7, LengthAssumption DEF Blinkers, Glyphs
<1>10. /\ list' \in Seq(Blinkers) /\ Len(list') = Len(list) + 1 /\ list'[1] = b
       /\ \A i \in 1..Len(list) : list'[i + 1] = list[i]
  BY <1>2, <1>8, <1>9, JoinedIs
<1>11. Len(list) \in Nat
  BY <1>2
<1>12. Shifted(list, 1, list', 2)
  <2>1. Len(list') \in Nat /\ Len(list') - 2 = Len(list) - 1
    <3>1. PICK n, m : n = Len(list) /\ m = Len(list') /\ n \in Nat /\ m = n + 1
      BY <1>10, <1>11, Zenon
    <3>2. m \in Nat /\ m - 2 = n - 1
      BY <3>1
    <3>3. QED
      BY <3>1, <3>2, Zenon
  <2>2. \A i \in 1..Len(list) : i + (2 - 1) = i + 1
    BY <1>11
  <2>3. \A i \in 1..Len(list) : list'[i + (2 - 1)] = list[i]
    BY <1>10, <2>2, Zenon
  <2>4. QED
    BY <1>11, <2>1, <2>3, Zenon DEF Shifted
<1>13. Listed(Places, text, list', 2, Here) /\ AllInTime(ticks, list', 2)
  BY <1>2, <1>3, <1>12, ShiftedKeeps, SMTT(30)
<1>14. Painted(Places, text, ticks, screen', Cells \ {HandAt}, Here)
  <2>1. \A cell \in Cells \ {HandAt} : screen'[cell] = screen[cell]
    BY <1>2, <1>8
  <2>2. QED
    BY <1>2, <1>3, <2>1 DEF Painted
<1>15. HandInv' /\ HandInStep'
  <2>1. Len(list') # 0 /\ phase' # "synced"
    BY <1>1, <1>10, <1>11
  <2>2. QED
    BY <1>9, <1>10, <2>1 DEF HandInv, HandInStep
<1>16. phase' # "picture"
  BY <1>1
<1>17. PhaseInv'
  BY <1>1, <1>3, <1>13, <1>14, <1>15, <1>16 DEF PhaseInv
<1>18. DOMAIN screen' = Cells
  BY <1>2, <1>8
<1>19. QED
  BY <1>1, <1>2, <1>10, <1>17, <1>18, PictureGoesOn

\* find of the other blinker finds it: it is the first of the list.
LEMMA HandFound ==
  ASSUME FishInv, HasHand
  PROVE  /\ Len(list) \in Nat \ {0} /\ 1 \in DOMAIN list /\ list[1].location = HandAt
         /\ At(HandAt) # {} /\ Found(HandAt) = 1
<1>1. phase \in DOMAIN Until
  BY UntilIs DEF HasHand
<1>2. list \in Seq(Blinkers) /\ Len(list) # 0 /\ list[1].location = HandAt
  BY <1>1, PictureIs DEF HandInv
<1>3. Len(list) \in Nat \ {0} /\ DOMAIN list = 1..Len(list) /\ 1 \in DOMAIN list
  BY <1>2
<1>4. 1 \in At(HandAt) /\ At(HandAt) \in SUBSET Nat
  BY <1>2, <1>3 DEF At
<1>5. Found(HandAt) \in At(HandAt) /\ Found(HandAt) <= 1
  BY <1>4, MinIs DEF Found
<1>6. Found(HandAt) = 1
  BY <1>3, <1>5 DEF At
<1>7. QED
  BY <1>2, <1>3, <1>4, <1>6

LEMMA SyncHandStep ==
  ASSUME FishInv, SyncHand
  PROVE  FishInv'
<1>1. /\ phase = "hand" /\ phase' = "synced" /\ ticks = 2 * WAIT /\ Sync(offset, HandAt)
      /\ UNCHANGED reader /\ ticks' = ticks /\ text' = text /\ Here' = Here
      /\ phase \in DOMAIN Until /\ phase' \in DOMAIN Until
  BY UntilIs DEF SyncHand, Step, reader, Here
<1>2. /\ TypeInv /\ HandInv /\ Listed(Places, text, list, FirstOfPicture, Here)
      /\ AllInTime(ticks, list, FirstOfPicture)
      /\ Painted(Places, text, ticks, screen, Fishes, Here)
      /\ \A cell : In(cell) = InOf(Places, cell)
      /\ ticks \in Nat /\ list \in Seq(Blinkers) /\ DOMAIN screen = Cells
  BY <1>1, PictureIs
<1>3. /\ FirstOfPicture = 2 /\ FirstOfPicture' = 2 /\ Places' = Places /\ HasHand
      /\ Fishes = Cells \ {HandAt} /\ Fishes' = Cells \ {HandAt}
  BY <1>1, SameText DEF FirstOfPicture, HasHand, Fishes
<1>4. /\ Len(list) \in Nat \ {0} /\ 1 \in DOMAIN list /\ list[1].location = HandAt
      /\ At(HandAt) # {} /\ Found(HandAt) = 1
  BY <1>3, HandFound
<1>5. DOMAIN list = 1..Len(list) /\ \A i \in 1..Len(list) : list[i] \in Blinkers
  BY <1>2
<1>6. list[1].on_char = "I" /\ list[1].off_char = "M"
  BY <1>2, <1>3 DEF HandInv
<1>7. offset \in Cells /\ HandAt \in Cells /\ HandAt # offset
  BY offsetAssumption, HandAssumption
<1>8. In(offset) # {} => At(offset) # {}
  <2>1. SUFFICES ASSUME NEW place \in InOf(Places, offset)
                 PROVE  At(offset) # {}
    BY <1>2
  <2>2. Before(place, Here)
    BY <1>1, AllPassed DEF InOf
  <2>3. PICK i \in 2..Len(list) : list[i].location = offset
    BY <1>2, <1>3, <1>7, <2>2, ListedThere
  <2>4. i \in DOMAIN list
    BY <1>4, <1>5
  <2>5. QED
    BY <2>3, <2>4 DEF At
<1>9. ASSUME At(offset) # {}
      PROVE  \E j \in 2..Len(list) :
               /\ list[j].on_length = Length /\ list[j].off_length = Length
               /\ InTime(ticks, list[j])
               /\ list' = [list EXCEPT ![1] = Synced(@, list[j])]
               /\ screen' = [screen EXCEPT ![HandAt] = "M"]
  <2>1. PICK j : j = Found(offset)
    OBVIOUS
  <2>2. j \in At(offset)
    <3>1. At(offset) \in SUBSET Nat
      BY <1>5 DEF At
    <3>2. QED
      BY <1>9, <2>1, <3>1, MinIs DEF Found
  <2>3. j \in 1..Len(list) /\ list[j].location = offset
    BY <1>5, <2>2 DEF At
  <2>4. j \in 2..Len(list)
    BY <1>4, <1>7, <2>3
  <2>5. PICK place : Shows(text, list[j], place)
    BY <1>2, <1>3, <2>4 DEF Listed
  <2>6. list[j].on_length = Length /\ list[j].off_length = Length
    BY <2>5 DEF Shows
  <2>7. InTime(ticks, list[j])
    BY <1>2, <1>3, <2>4 DEF AllInTime
  <2>8. /\ list' = [list EXCEPT ![1] = Synced(@, list[j])]
        /\ screen' = [screen EXCEPT ![HandAt] = list[1].off_char]
    BY <1>1, <1>4, <1>9, <2>1 DEF Sync
  <2>9. QED
    BY <1>6, <2>4, <2>6, <2>7, <2>8
<1>10. /\ list' \in Seq(Blinkers) /\ Len(list') = Len(list) /\ DOMAIN screen' = Cells
       /\ \A i \in 2..Len(list) : list'[i] = list[i]
       /\ \A cell \in Cells \ {HandAt} : screen'[cell] = screen[cell]
       /\ list'[1].location = HandAt /\ list'[1].on_char = "I" /\ list'[1].off_char = "M"
       /\ In(offset) # {} => /\ list'[1].on_length = Length /\ list'[1].off_length = Length
                             /\ InTime(ticks, list'[1])
  <2>1. CASE At(offset) = {}
    <3>1. list' = list /\ screen' = screen /\ In(offset) = {}
      BY <1>1, <1>8, <2>1 DEF Sync
    <3>2. QED
      BY <1>2, <1>4, <1>6, <3>1
  <2>2. CASE At(offset) # {}
    <3>1. PICK j \in 2..Len(list) :
            /\ list[j].on_length = Length /\ list[j].off_length = Length
            /\ InTime(ticks, list[j])
            /\ list' = [list EXCEPT ![1] = Synced(@, list[j])]
            /\ screen' = [screen EXCEPT ![HandAt] = "M"]
      BY <1>9, <2>2
    <3>2. PICK b, d : b = list[1] /\ d = list[j]
      OBVIOUS
    <3>3. b \in Blinkers /\ d \in Blinkers
      BY <1>4, <1>5, <3>2
    <3>4. PICK m : m = Synced(b, d)
      OBVIOUS
    <3>5. /\ m \in Blinkers /\ m.location = b.location /\ m.on_char = b.on_char
          /\ m.off_char = b.off_char /\ m.on_length = d.on_length
          /\ m.off_length = d.off_length /\ m.countdown = d.countdown /\ m.status = d.status
      BY <3>3, <3>4 DEF Synced, Blinkers
    <3>6. list' = [list EXCEPT ![1] = m]
      BY <3>1, <3>2, <3>4
    <3>7. list' \in Seq(Blinkers) /\ Len(list') = Len(list)
      BY <1>2, <1>4, <3>5, <3>6
    <3>8. list'[1] = m /\ \A i \in 2..Len(list) : list'[i] = list[i]
      BY <1>2, <1>4, <1>5, <3>6
    <3>9. InTime(ticks, m)
      BY <3>1, <3>2, <3>5 DEF InTime
    <3>10. \A cell \in Cells \ {HandAt} : screen'[cell] = screen[cell]
      BY <1>2, <3>1
    <3>11. DOMAIN screen' = Cells
      BY <1>2, <3>1
    <3>12. QED
      BY <1>4, <1>6, <3>1, <3>2, <3>5, <3>7, <3>8, <3>9, <3>10, <3>11
  <2>3. QED
    BY <2>1, <2>2
<1>11. Shifted(list, 2, list', 2)
  <2>1. \A i \in 2..Len(list) : i + (2 - 2) = i
    BY <1>4
  <2>2. QED
    BY <1>4, <1>10, <2>1 DEF Shifted
<1>12. Listed(Places, text, list', 2, Here) /\ AllInTime(ticks, list', 2)
  BY <1>2, <1>3, <1>11, ShiftedKeeps, SMTT(30)
<1>13. Painted(Places, text, ticks, screen', Cells \ {HandAt}, Here)
  BY <1>2, <1>3, <1>10 DEF Painted
<1>14. HandInv'
  <2>1. In(offset)' = In(offset)
    BY <1>1, <1>7, SameText
  <2>2. QED
    BY <1>1, <1>4, <1>10, <2>1 DEF HandInv
<1>15. HandInStep'
  <2>1. ticks' \div Length = (2 * WAIT) \div Length /\ ticks' \div Length \in Nat
    BY <1>1, <1>2, NowStep
  <2>2. ~ (ticks' \div Length > (2 * WAIT) \div Length)
    BY <2>1
  <2>3. QED
    BY <2>2 DEF HandInStep
<1>16. PhaseInv'
  BY <1>1, <1>3, <1>12, <1>13, <1>14, <1>15 DEF PhaseInv
<1>17. QED
  BY <1>1, <1>2, <1>10, <1>16, PictureGoesOn

LEMMA RemoveHandStep ==
  ASSUME FishInv, RemoveHand
  PROVE  FishInv'
<1>1. /\ phase = "synced" /\ phase' = "removed" /\ Remove(HandAt)
      /\ UNCHANGED reader /\ ticks' = ticks /\ text' = text /\ Here' = Here
      /\ phase \in DOMAIN Until /\ phase' \in DOMAIN Until
  BY UntilIs DEF RemoveHand, Step, reader, Here
<1>2. /\ Listed(Places, text, list, FirstOfPicture, Here)
      /\ AllInTime(ticks, list, FirstOfPicture)
      /\ Painted(Places, text, ticks, screen, Fishes, Here)
      /\ ticks \in Nat /\ list \in Seq(Blinkers) /\ DOMAIN screen = Cells
  BY <1>1, PictureIs
<1>3. /\ FirstOfPicture = 2 /\ FirstOfPicture' = 1 /\ Places' = Places /\ HasHand
      /\ Fishes = Cells \ {HandAt} /\ Fishes' = Cells \ {HandAt} /\ ~ HasHand'
  BY <1>1, SameText DEF FirstOfPicture, HasHand, Fishes
<1>4. Len(list) \in Nat \ {0} /\ At(HandAt) # {} /\ Found(HandAt) = 1
  BY <1>3, HandFound
<1>5. Rest(list', list) /\ screen' = screen
  <2>1. /\ list' = IF At(HandAt) = {} THEN list
                   ELSE SubSeq(list, 1, Found(HandAt) - 1)
                        \o SubSeq(list, Found(HandAt) + 1, Len(list))
        /\ screen' = screen
    BY <1>1, Zenon DEF Remove
  <2>2. QED
    BY <1>4, <2>1, Zenon DEF Rest
<1>6. /\ list' \in Seq(Blinkers) /\ Len(list') = Len(list) - 1
      /\ \A i \in 1..Len(list') : list'[i] = list[i + 1]
  <2>1. Len(list) # 0
    BY <1>4
  <2>2. QED
    BY <1>2, <1>5, <2>1, RestIs
<1>7. Shifted(list, 2, list', 1)
  <2>1. ASSUME NEW i \in 2..Len(list)
        PROVE  list'[i + (1 - 2)] = list[i]
    <3>1. i - 1 \in 1..Len(list') /\ (i - 1) + 1 = i /\ i + (1 - 2) = i - 1
      BY <1>4, <1>6
    <3>2. QED
      BY <1>6, <3>1
  <2>2. QED
    BY <1>4, <1>6, <2>1 DEF Shifted
<1>8. Listed(Places, text, list', 1, Here) /\ AllInTime(ticks, list', 1)
  BY <1>2, <1>3, <1>7, ShiftedKeeps, SMTT(30)
<1>9. HandInv' /\ HandInStep'
  BY <1>1, <1>3 DEF HandInv, HandInStep
<1>10. PhaseInv'
  BY <1>1, <1>2, <1>3, <1>5, <1>8, <1>9 DEF PhaseInv
<1>11. QED
  BY <1>1, <1>2, <1>5, <1>6, <1>10, PictureGoesOn

LEMMA FishInvariance == Spec => []FishInv
<1>1. Init => FishInv
  BY InitHolds
<1>2. ASSUME FishInv, [Next]_vars
      PROVE  FishInv'
  <2>1. CASE Open
    BY <1>2, <2>1, OpenStep
  <2>2. CASE Column
    BY <1>2, <2>2, ColumnStep
  <2>3. CASE Row
    BY <1>2, <2>3, RowStep
  <2>4. CASE Tick
    BY <1>2, <2>4, TickStep
  <2>5. CASE AddHand
    BY <1>2, <2>5, AddHandStep
  <2>6. CASE SyncHand
    BY <1>2, <2>6, SyncHandStep
  <2>7. CASE RemoveHand
    BY <1>2, <2>7, RemoveHandStep
  <2>8. CASE Return
    <3>1. phase' = "end" /\ UNCHANGED <<list, screen, reader, ticks>>
      BY <2>8 DEF Return, Step
    <3>2. QED
      BY <1>2, <3>1, EndHolds
  <2>9. CASE UNCHANGED vars
    <3>1. /\ UNCHANGED <<list, screen, text, pos, c, eof, row, col, phase, ticks>>
          /\ Places' = Places /\ \A cell \in Cells : In(cell)' = In(cell)
      BY <2>9, SameText DEF vars, reader
    <3>2. TypeInv' /\ ReadInv'
      BY <1>2, <3>1 DEF FishInv, TypeInv, ReadInv, Opened, FileRead, Here
    <3>3. HandInv' <=> HandInv
      BY <3>1, offsetAssumption DEF HandInv, HasHand
    <3>4. ListInv' /\ ScreenInv'
      BY <1>2, <3>1, <3>3
         DEF FishInv, ListInv, ScreenInv, Opened, FirstOfPicture, HasHand, Here, Fishes
    <3>5. HandInStep'
      BY <1>2, <3>1, offsetAssumption, HandAssumption DEF FishInv, HandInStep, Now
    <3>6. QED
      BY <3>2, <3>4, <3>5 DEF FishInv
  <2>10. QED
    BY <1>2, <2>1, <2>2, <2>3, <2>4, <2>5, <2>6, <2>7, <2>8, <2>9 DEF Next, Ended
<1>3. QED
  BY <1>1, <1>2, PTL DEF Spec

-----------------------------------------------------------------------------

(***************************************************************************)
(* The screen shows one picture at a time, whole, whatever the two files   *)
(* say and wherever they end, and the pictures change over every Length    *)
(* ticks; the other blinker changes nothing but its cell.                  *)
(***************************************************************************)
THEOREM PicturesCorrect == Spec => []PicturesAlternate
<1>1. FishInv => PicturesAlternate
  <2>1. SUFFICES ASSUME FishInv, phase \in DOMAIN Until,
                        NEW cell \in Cells \ (IF phase = "picture" THEN {} ELSE {HandAt})
                 PROVE  /\ In(cell) = {} => screen[cell] = Untouched
                        /\ \A place \in In(cell) :
                             In(cell) = {place} => screen[cell] = Picture(text[Now], place)
    BY DEF PicturesAlternate
  <2>2. cell \in Fishes
    BY <2>1, UntilIs DEF Fishes
  <2>3. Painted(Places, text, ticks, screen, Fishes, Here) /\ In(cell) = InOf(Places, cell)
    BY <2>1, PictureIs
  <2>4. \A place \in Places : Before(place, Here)
    BY <2>1, AllPassed
  <2>5. QED
    BY <2>2, <2>3, <2>4, NowIs DEF Painted, InOf
<1>2. QED
  BY <1>1, FishInvariance, PTL

(***************************************************************************)
(* Once synchronised, the other blinker changes with the picture.          *)
(***************************************************************************)
THEOREM HandCorrect == Spec => []HandInStep
<1>1. FishInv => HandInStep
  BY DEF FishInv
<1>2. QED
  BY <1>1, FishInvariance, PTL

=============================================================================
