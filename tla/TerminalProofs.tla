--------------------------- MODULE TerminalProofs ---------------------------
(***************************************************************************)
(* The line discipline, for every number of terminals, size of the buffer, *)
(* keys and requests: its types, that the screen shows the line in the     *)
(* buffer, and that a read returns the line that was typed.                *)
(*                                                                         *)
(* A read copies the buffer up to the first Enter, long after Enter was    *)
(* pressed.  What ties the two moments together is LineHeld: while nobody  *)
(* types on, the finished line is still in the buffer, with the one Enter  *)
(* after it, and terminal_enable tells that there is one.                  *)
(***************************************************************************)
EXTENDS Terminal, FiniteSetTheorems, SequenceTheorems, TLAPS

Unfinished(t) == 0..(buffer_size[t] - 1)

LineHeld(t) ==
  /\ \A i \in Unfinished(t) : keyboard_buffer[t][i] # "enter"
  /\ terminal_enable[t] = 1 <=> line[t].is # "read"
  /\ reading[t] = "woken" => terminal_enable[t] = 1
  /\ line[t].is = "intact" =>
       /\ buffer_size[t] = 0
       /\ Len(line[t].text) \in Places
       /\ \A i \in 1..Len(line[t].text) :
            /\ line[t].text[i] = keyboard_buffer[t][i - 1]
            /\ line[t].text[i] # "enter"
       /\ keyboard_buffer[t][Len(line[t].text)] = "enter"

LinesHeld == \A t \in Terminals : LineHeld(t)

TInv == TypeOK /\ EchoMatches /\ LinesHeld

-----------------------------------------------------------------------------

(***************************************************************************)
(* How many tabs there are among the first n characters of a buffer, when  *)
(* a character is added and when one is removed.                           *)
(***************************************************************************)
TabsIn(b, n) == {i \in 0..(n - 1) : b[i] = "tab"}
IfTab(c) == IF c = "tab" THEN 1 ELSE 0

LEMMA TabsFinite ==
  ASSUME NEW b, NEW n \in Nat
  PROVE  /\ IsFiniteSet(TabsIn(b, n))
         /\ Cardinality(TabsIn(b, n)) \in Nat
         /\ n = 0 => Cardinality(TabsIn(b, n)) = 0
<1>1. IsFiniteSet(0..(n - 1))
  BY FS_Interval
<1>2. TabsIn(b, n) \in SUBSET (0..(n - 1))
  BY DEF TabsIn
<1>3. IsFiniteSet(TabsIn(b, n))
  BY <1>1, <1>2, FS_Subset
<1>4. n = 0 => TabsIn(b, n) = {}
  BY DEF TabsIn
<1>5. QED
  BY <1>3, <1>4, FS_CardinalityType, FS_EmptySet

LEMMA TabsTyped ==
  ASSUME NEW b \in [Places -> Chars], NEW n \in 0..(Full - 1), NEW c
  PROVE  Cardinality(TabsIn([b EXCEPT ![n] = c], n + 1))
         = Cardinality(TabsIn(b, n)) + IfTab(c)
<1>. DEFINE T == TabsIn(b, n)
            U == TabsIn([b EXCEPT ![n] = c], n + 1)
<1>1. IsFiniteSet(T) /\ Cardinality(T) \in Nat /\ n \notin T
  <2>1. n \in Nat
    BY FullAssumption
  <2>2. IsFiniteSet(T) /\ Cardinality(T) \in Nat
    BY <2>1, TabsFinite
  <2>3. n \notin T
    BY <2>1 DEF TabsIn
  <2>4. QED
    BY <2>2, <2>3
<1>2. U = IF c = "tab" THEN T \cup {n} ELSE T
  <2>1. n \in Nat /\ n \in Places /\ 0..n = 0..(n - 1) \cup {n}
    BY FullAssumption DEF Places
  <2>2. U = {i \in 0..n : [b EXCEPT ![n] = c][i] = "tab"}
    BY <2>1 DEF TabsIn
  <2>3. \A i \in 0..n : i \in Places
    BY <2>1, FullAssumption DEF Places
  <2>4. \A i \in 0..n : i \in U <=> IF i = n THEN c = "tab" ELSE b[i] = "tab"
    BY <2>2, <2>3
  <2>5. \A i \in 0..n : i \in T <=> i # n /\ b[i] = "tab"
    BY <2>1 DEF TabsIn
  <2>6. U \subseteq 0..n /\ T \subseteq 0..n /\ n \in 0..n
    BY <2>1, <2>2 DEF TabsIn
  <2>. HIDE DEF T, U
  <2>7. QED
    BY <2>4, <2>5, <2>6
<1>. HIDE DEF T, U
<1>3. Cardinality(U) = Cardinality(T) + IfTab(c)
  BY <1>1, <1>2, FS_AddElement DEF IfTab
<1>4. QED
  BY <1>3 DEF T, U

LEMMA TabsErased ==
  ASSUME NEW b, NEW n \in Nat \ {0}
  PROVE  Cardinality(TabsIn(b, n - 1)) = Cardinality(TabsIn(b, n)) - IfTab(b[n - 1])
<1>. DEFINE T == TabsIn(b, n - 1)
            U == TabsIn(b, n)
            m == n - 1
<1>1. IsFiniteSet(T) /\ Cardinality(T) \in Nat /\ m \notin T
  <2>1. m \in Nat
    OBVIOUS
  <2>2. IsFiniteSet(T) /\ Cardinality(T) \in Nat
    BY <2>1, TabsFinite
  <2>3. m \notin T
    BY <2>1 DEF TabsIn
  <2>4. QED
    BY <2>2, <2>3
<1>2. U = IF b[m] = "tab" THEN T \cup {m} ELSE T
  <2>1. m \in Nat /\ 0..m = 0..(m - 1) \cup {m}
    OBVIOUS
  <2>2. U = {i \in 0..m : b[i] = "tab"} /\ T = {i \in 0..(m - 1) : b[i] = "tab"}
    BY DEF TabsIn
  <2>. HIDE DEF T, U, m
  <2>3. QED
    BY <2>1, <2>2
<1>. HIDE DEF T, U, m
<1>3. Cardinality(U) = Cardinality(T) + IfTab(b[m])
  BY <1>1, <1>2, FS_AddElement DEF IfTab
<1>4. QED
  BY <1>1, <1>3 DEF T, U, m, IfTab

(***************************************************************************)
(* What holds of the screen of one terminal.                               *)
(***************************************************************************)
EchoOf(t) ==
  echo[t] = buffer_size[t] + 3 * Cardinality(TabsIn(keyboard_buffer[t], buffer_size[t]))

LEMMA EchoMatchesEach ==
  /\ EchoMatches <=> \A t \in Terminals : EchoOf(t)
  /\ EchoMatches' <=> \A t \in Terminals : EchoOf(t)'
BY DEF EchoMatches, EchoOf, Tabs, TabsIn

(***************************************************************************)
(* A step that touches terminal d only is right when it leaves d right.    *)
(***************************************************************************)
SameAt(t) ==
  /\ keyboard_buffer'[t] = keyboard_buffer[t]
  /\ buffer_size'[t] = buffer_size[t]
  /\ terminal_enable'[t] = terminal_enable[t]
  /\ echo'[t] = echo[t]
  /\ line'[t] = line[t]
  /\ reading'[t] = reading[t]

LEMMA OthersSame ==
  ASSUME TInv, NEW d \in Terminals,
         \A t \in Terminals : t # d => SameAt(t),
         EchoOf(d)', LineHeld(d)'
  PROVE  EchoMatches' /\ LinesHeld'
<1>1. ASSUME NEW t \in Terminals, t # d
      PROVE  EchoOf(t)'
  BY <1>1, EchoMatchesEach DEF TInv, SameAt, EchoOf
<1>2. ASSUME NEW t \in Terminals, t # d
      PROVE  LineHeld(t)'
  BY <1>2 DEF TInv, LinesHeld, SameAt, LineHeld, Unfinished
<1>3. EchoMatches'
  BY <1>1, EchoMatchesEach
<1>4. QED
  BY <1>2, <1>3 DEF LinesHeld

LEMMA AllSame ==
  ASSUME TInv, \A t \in Terminals : SameAt(t)
  PROVE  EchoMatches' /\ LinesHeld'
<1>1. \A t \in Terminals : EchoOf(t)'
  BY EchoMatchesEach DEF TInv, SameAt, EchoOf
<1>2. \A t \in Terminals : LineHeld(t)'
  BY DEF TInv, LinesHeld, SameAt, LineHeld, Unfinished
<1>3. QED
  BY <1>1, <1>2, EchoMatchesEach DEF LinesHeld

(***************************************************************************)
(* The columns on the screen are a number: there are at least as many as   *)
(* characters in the buffer.                                               *)
(***************************************************************************)
LEMMA EchoIsNat ==
  ASSUME EchoMatches', buffer_size' \in [Terminals -> Places]
  PROVE  \A t \in Terminals : echo'[t] \in Nat
<1>1. ASSUME NEW t \in Terminals
      PROVE  echo'[t] \in Nat
  <2>. DEFINE C == Cardinality(TabsIn(keyboard_buffer'[t], buffer_size'[t]))
  <2>1. buffer_size'[t] \in Nat
    BY <1>1, FullAssumption DEF Places
  <2>2. C \in Nat
    BY <2>1, TabsFinite
  <2>3. echo'[t] = buffer_size'[t] + 3 * C
    BY <1>1, EchoMatchesEach DEF EchoOf, TabsIn
  <2>. HIDE DEF C
  <2>4. QED
    BY <2>1, <2>2, <2>3
<1>2. QED
  BY <1>1

-----------------------------------------------------------------------------

(***************************************************************************)
(* Boot.                                                                   *)
(***************************************************************************)
LEMMA TerminalInitInv ==
  ASSUME Init
  PROVE  TInv
<1>1. 0 \in Terminals /\ 0 \in Places
  BY NumTerminalsAssumption, FullAssumption DEF Terminals, Places
<1>2. TypeOK
  <2>1. NoLine \in [text : Seq(Chars), is : {"read", "intact", "typed over"}]
    BY DEF NoLine
  <2>2. line \in [Terminals -> [text : Seq(Chars), is : {"read", "intact", "typed over"}]]
    BY <2>1 DEF Init
  <2>3. keyboard_buffer \in [Terminals -> [Places -> Chars]]
    BY DEF Init, Chars
  <2>4. buffer_size \in [Terminals -> Places] /\ nbytes \in [Terminals -> 0..(Full + 1)]
    BY <1>1, FullAssumption DEF Init
  <2>5. QED
    BY <1>1, <2>2, <2>3, <2>4 DEF Init, TypeOK
<1>3. EchoMatches
  BY TabsFinite, EchoMatchesEach DEF Init, EchoOf
<1>4. LinesHeld
  BY DEF Init, LinesHeld, LineHeld, Unfinished, NoLine
<1>5. QED
  BY <1>2, <1>3, <1>4 DEF TInv

-----------------------------------------------------------------------------

(***************************************************************************)
(* What the invariant says of the displayed terminal, whose keys these are.*)
(***************************************************************************)
LEMMA TypedTypes ==
  ASSUME TypeOK, NEW d \in Terminals
  PROVE  /\ keyboard_buffer \in [Terminals -> [Places -> Chars]]
         /\ keyboard_buffer[d] \in [Places -> Chars]
         /\ buffer_size \in [Terminals -> Places]
         /\ buffer_size[d] \in Nat /\ buffer_size[d] <= Full /\ Full \in Nat
         /\ terminal_enable \in [Terminals -> {0, 1}]
         /\ echo \in [Terminals -> Nat]
         /\ line \in [Terminals -> [text : Seq(Chars), is : {"read", "intact", "typed over"}]]
<1>1. buffer_size[d] \in Places
  BY DEF TypeOK
<1>2. buffer_size[d] \in Nat /\ buffer_size[d] <= Full /\ Full \in Nat
  BY <1>1, FullAssumption DEF Places
<1>3. QED
  BY <1>2 DEF TypeOK

(***************************************************************************)
(* The keys leave the rest of the types to typed.                          *)
(***************************************************************************)
KeysOnly == UNCHANGED <<modifiers, display_terminal, current_tid, reads>>

LEMMA KeysOnlyType ==
  ASSUME TypeOK, KeysOnly, EchoMatches', echo' = [t \in Terminals |-> echo'[t]],
         keyboard_buffer' \in [Terminals -> [Places -> Chars]],
         buffer_size' \in [Terminals -> Places],
         terminal_enable' \in [Terminals -> {0, 1}],
         line' \in [Terminals -> [text : Seq(Chars), is : {"read", "intact", "typed over"}]]
  PROVE  TypeOK'
<1>1. echo' \in [Terminals -> Nat]
  BY EchoIsNat
<1>2. QED
  BY <1>1 DEF TypeOK, KeysOnly, modifiers, reads

LEMMA CtrlLInv ==
  ASSUME TInv, KeysOnly, NEW d \in Terminals, CtrlL(d)
  PROVE  TInv'
<1>. USE DEF CtrlL
<1>1. 0 \in Places
  BY FullAssumption DEF Places
<1>2. \A t \in Terminals : t # d => SameAt(t)
  BY TypedTypes DEF TInv, SameAt, KeysOnly, reads
<1>3. buffer_size'[d] = 0 /\ echo'[d] = 0
  BY TypedTypes DEF TInv
<1>4. EchoOf(d)'
  BY <1>3, TabsFinite DEF EchoOf
<1>5. LineHeld(d)'
  BY <1>3 DEF TInv, LinesHeld, LineHeld, Unfinished, KeysOnly, reads
<1>6. EchoMatches' /\ LinesHeld'
  BY <1>2, <1>4, <1>5, OthersSame
<1>7. buffer_size' \in [Terminals -> Places] /\ echo' = [t \in Terminals |-> echo'[t]]
  BY <1>1, TypedTypes DEF TInv
<1>8. TypeOK'
  BY <1>6, <1>7, TypedTypes, KeysOnlyType DEF TInv
<1>9. QED
  BY <1>6, <1>8 DEF TInv

(***************************************************************************)
(* Backspace takes the width of the character it removes off the screen.   *)
(* (A finished line that is intact is in a buffer nobody has typed into,   *)
(* where Backspace does nothing.)                                          *)
(***************************************************************************)
LEMMA BackspaceInv ==
  ASSUME TInv, KeysOnly, NEW d \in Terminals, Backspace(d)
  PROVE  TInv'
<1>1. CASE buffer_size[d] = 0
  <2>1. UNCHANGED typed
    BY <1>1 DEF Backspace
  <2>2. \A t \in Terminals : SameAt(t)
    BY <2>1 DEF SameAt, typed, KeysOnly, reads
  <2>3. EchoMatches' /\ LinesHeld'
    BY <2>2, AllSame
  <2>4. TypeOK'
    BY <2>1 DEF TInv, TypeOK, typed, KeysOnly, modifiers, reads
  <2>5. QED
    BY <2>3, <2>4 DEF TInv
<1>2. CASE buffer_size[d] # 0
  <2>. DEFINE n == buffer_size[d]
              b == keyboard_buffer[d]
              C(k) == Cardinality(TabsIn(b, k))
  <2>1. /\ n \in Nat \ {0} /\ n - 1 \in Places
    <3>1. n \in Nat /\ n <= Full /\ Full \in Nat
      BY TypedTypes DEF TInv
    <3>2. QED
      BY <1>2, <3>1 DEF Places
  <2>2. /\ buffer_size' = [buffer_size EXCEPT ![d] = n - 1]
        /\ echo' = [echo EXCEPT ![d] = @ - Erased(b[n - 1])]
        /\ UNCHANGED <<keyboard_buffer, terminal_enable, line>>
    BY <1>2 DEF Backspace
  <2>3. \A t \in Terminals : t # d => SameAt(t)
    BY <2>2, TypedTypes DEF TInv, SameAt, KeysOnly, reads
  <2>4. buffer_size'[d] = n - 1 /\ keyboard_buffer'[d] = b
        /\ echo'[d] = echo[d] - Erased(b[n - 1])
    BY <2>2, TypedTypes DEF TInv
  <2>5. EchoOf(d)'
    <3>1. C(n - 1) = C(n) - IfTab(b[n - 1]) /\ C(n) \in Nat
      BY <2>1, TabsErased, TabsFinite
    <3>2. echo[d] = n + 3 * C(n)
      BY EchoMatchesEach DEF TInv, EchoOf
    <3>3. echo'[d] = buffer_size'[d] + 3 * C(n - 1)
      <4>. HIDE DEF C, b, n
      <4>1. QED
        BY <2>1, <2>4, <3>1, <3>2 DEF IfTab, Erased, Width
    <3>4. QED
      BY <2>4, <3>3 DEF EchoOf
  <2>6. LineHeld(d)'
    <3>1. line[d].is # "intact"
      BY <1>2 DEF TInv, LinesHeld, LineHeld
    <3>2. \A i \in 0..(n - 2) : b[i] # "enter"
      BY <2>1 DEF TInv, LinesHeld, LineHeld, Unfinished
    <3>3. QED
      BY <2>1, <2>2, <2>4, <3>1, <3>2
      DEF TInv, LinesHeld, LineHeld, Unfinished, KeysOnly, reads
  <2>7. EchoMatches' /\ LinesHeld'
    BY <2>3, <2>5, <2>6, OthersSame
  <2>8. buffer_size' \in [Terminals -> Places] /\ echo' = [t \in Terminals |-> echo'[t]]
    <3>1. buffer_size' \in [Terminals -> Places]
      BY <2>1, <2>2, TypedTypes DEF TInv
    <3>2. echo' = [t \in Terminals |-> echo'[t]]
      BY <2>2, TypedTypes DEF TInv
    <3>3. QED
      BY <3>1, <3>2
  <2>9. TypeOK'
    BY <2>2, <2>7, <2>8, TypedTypes, KeysOnlyType DEF TInv
  <2>10. QED
    BY <2>7, <2>9 DEF TInv
<1>3. QED
  BY <1>1, <1>2

(***************************************************************************)
(* Enter: the characters before it hold no other Enter.                    *)
(***************************************************************************)
LEMMA EnterInv ==
  ASSUME TInv, KeysOnly, NEW d \in Terminals, Enter(d)
  PROVE  TInv'
<1>. DEFINE n == buffer_size[d]
            b == keyboard_buffer[d]
            text == [i \in 1..n |-> b[i - 1]]
            new == [text |-> text, is |-> "intact"]
<1>1. /\ keyboard_buffer' = [keyboard_buffer EXCEPT ![d][n] = "enter"]
      /\ terminal_enable' = [terminal_enable EXCEPT ![d] = 1]
      /\ buffer_size' = [buffer_size EXCEPT ![d] = 0]
      /\ echo' = [echo EXCEPT ![d] = 0]
      /\ line' = [line EXCEPT ![d] = new]
  BY DEF Enter
<1>2. /\ n \in Nat /\ n \in Places /\ 0 \in Places
      /\ \A i \in 1..n : i - 1 \in Places /\ i - 1 # n
  <2>1. n \in Nat /\ n <= Full /\ Full \in Nat
    BY TypedTypes DEF TInv
  <2>2. QED
    BY <2>1 DEF Places
<1>3. \A t \in Terminals : t # d => SameAt(t)
  BY <1>1, TypedTypes DEF TInv, SameAt, KeysOnly, reads
<1>4. text \in Seq(Chars) /\ Len(text) = n
  <2>1. \A i \in 1..n : b[i - 1] \in Chars
    BY <1>2, TypedTypes DEF TInv
  <2>2. QED
    BY <1>2, <2>1
<1>5. /\ keyboard_buffer'[d] = [b EXCEPT ![n] = "enter"]
      /\ b \in [Places -> Chars]
      /\ buffer_size'[d] = 0 /\ echo'[d] = 0
      /\ terminal_enable'[d] = 1
      /\ line'[d].text = text /\ line'[d].is = "intact"
  BY <1>1, TypedTypes DEF TInv
<1>6. EchoOf(d)'
  BY <1>5, TabsFinite DEF EchoOf
<1>7. LineHeld(d)'
  <2>1. \A i \in 1..n : b[i - 1] # "enter"
    BY <1>2 DEF TInv, LinesHeld, LineHeld, Unfinished
  <2>2. \A i \in 1..n : text[i] = keyboard_buffer'[d][i - 1] /\ text[i] # "enter"
    BY <1>2, <1>5, <2>1
  <2>3. keyboard_buffer'[d][n] = "enter"
    BY <1>2, <1>5
  <2>. HIDE DEF text, b, n
  <2>4. QED
    BY <1>2, <1>4, <1>5, <2>2, <2>3 DEF LineHeld, Unfinished
<1>8. EchoMatches' /\ LinesHeld'
  BY <1>3, <1>6, <1>7, OthersSame
<1>9. keyboard_buffer' \in [Terminals -> [Places -> Chars]]
  BY <1>1, <1>2, TypedTypes DEF TInv, Chars
<1>10. line' \in [Terminals -> [text : Seq(Chars), is : {"read", "intact", "typed over"}]]
  <2>. HIDE DEF text
  <2>1. QED
    BY <1>1, <1>4, TypedTypes DEF TInv
<1>11. TypeOK'
  <2>. HIDE DEF text, b, n
  <2>1. buffer_size' \in [Terminals -> Places] /\ terminal_enable' \in [Terminals -> {0, 1}]
    BY <1>1, <1>2, TypedTypes DEF TInv
  <2>2. echo' = [t \in Terminals |-> echo'[t]]
    BY <1>1, TypedTypes DEF TInv
  <2>3. QED
    BY <1>8, <1>9, <1>10, <2>1, <2>2, KeysOnlyType DEF TInv
<1>12. QED
  BY <1>8, <1>11 DEF TInv

(***************************************************************************)
(* Any other character: it is no Enter, and a finished line that it types  *)
(* over is no longer the one a read returns.                               *)
(***************************************************************************)
LEMMA TypeInv ==
  ASSUME TInv, KeysOnly, NEW d \in Terminals, NEW c \in Chars, c # "enter", Type(d, c)
  PROVE  TInv'
<1>1. CASE IsFull(d)
  <2>1. UNCHANGED typed
    BY <1>1 DEF Type
  <2>2. \A t \in Terminals : SameAt(t)
    BY <2>1 DEF SameAt, typed, KeysOnly, reads
  <2>3. EchoMatches' /\ LinesHeld'
    BY <2>2, AllSame
  <2>4. TypeOK'
    BY <2>1 DEF TInv, TypeOK, typed, KeysOnly, modifiers, reads
  <2>5. QED
    BY <2>3, <2>4 DEF TInv
<1>2. CASE ~ IsFull(d)
  <2>. DEFINE n == buffer_size[d]
              b == keyboard_buffer[d]
              nb == [b EXCEPT ![n] = c]
              new == IF line[d].is = "intact" THEN TypedOver ELSE line[d]
  <2>1. /\ keyboard_buffer' = [keyboard_buffer EXCEPT ![d][n] = c]
        /\ buffer_size' = [buffer_size EXCEPT ![d] = n + 1]
        /\ echo' = [echo EXCEPT ![d] = @ + Width(c)]
        /\ line' = [line EXCEPT ![d] = new]
        /\ UNCHANGED terminal_enable
    BY <1>2 DEF Type
  <2>2. /\ n \in 0..(Full - 1) /\ n \in Nat /\ n \in Places /\ n + 1 \in Places
    <3>1. n \in Nat /\ n <= Full /\ Full \in Nat
      BY TypedTypes DEF TInv
    <3>2. QED
      BY <1>2, <3>1 DEF Places, IsFull
  <2>3. b \in [Places -> Chars]
    BY TypedTypes DEF TInv
  <2>4. /\ keyboard_buffer'[d] = nb /\ buffer_size'[d] = n + 1
        /\ echo'[d] = echo[d] + Width(c) /\ line'[d] = new
    BY <2>1, TypedTypes DEF TInv
  <2>5. \A t \in Terminals : t # d => SameAt(t)
    BY <2>1, TypedTypes DEF TInv, SameAt, KeysOnly, reads
  <2>6. EchoOf(d)'
    <3>. DEFINE C == Cardinality(TabsIn(b, n))
                D == Cardinality(TabsIn(nb, n + 1))
    <3>1. D = C + IfTab(c) /\ C \in Nat
      BY <2>2, <2>3, TabsTyped, TabsFinite
    <3>2. echo[d] = n + 3 * C
      BY EchoMatchesEach DEF TInv, EchoOf
    <3>3. echo'[d] = buffer_size'[d] + 3 * D
      <4>. HIDE DEF C, D, n, b, nb
      <4>1. QED
        BY <2>2, <2>4, <3>1, <3>2 DEF IfTab, Width
    <3>4. QED
      BY <2>4, <3>3 DEF EchoOf
  <2>7. LineHeld(d)'
    <3>1. \A i \in 0..n : nb[i] # "enter"
      <4>1. \A i \in 0..n : i \in Places /\ (i # n => i \in 0..(n - 1))
        BY <2>2, FullAssumption DEF Places
      <4>2. \A i \in 0..(n - 1) : b[i] # "enter"
        BY DEF TInv, LinesHeld, LineHeld, Unfinished
      <4>3. QED
        BY <2>3, <4>1, <4>2
    <3>2. 0..(n + 1 - 1) = 0..n
      BY <2>2
    <3>3. new.is # "intact" /\ (new.is = "read" <=> line[d].is = "read")
      BY DEF TypedOver
    <3>4. terminal_enable'[d] = terminal_enable[d] /\ reading'[d] = reading[d]
      BY <2>1 DEF KeysOnly, reads
    <3>5. /\ terminal_enable[d] = 1 <=> line[d].is # "read"
          /\ reading[d] = "woken" => terminal_enable[d] = 1
      BY DEF TInv, LinesHeld, LineHeld
    <3>6. \A i \in Unfinished(d)' : keyboard_buffer'[d][i] # "enter"
      <4>1. Unfinished(d)' = 0..n
        <5>1. buffer_size'[d] - 1 = n
          BY <2>2, <2>4
        <5>2. QED
          BY <5>1 DEF Unfinished
      <4>2. QED
        BY <2>4, <3>1, <4>1
    <3>. HIDE DEF n, b, nb, new
    <3>7. QED
      BY <2>4, <3>3, <3>4, <3>5, <3>6 DEF LineHeld
  <2>8. EchoMatches' /\ LinesHeld'
    BY <2>5, <2>6, <2>7, OthersSame
  <2>9. keyboard_buffer' \in [Terminals -> [Places -> Chars]]
    BY <2>1, <2>2, TypedTypes DEF TInv
  <2>10. line' \in [Terminals -> [text : Seq(Chars), is : {"read", "intact", "typed over"}]]
    <3>1. new \in [text : Seq(Chars), is : {"read", "intact", "typed over"}]
      <4>1. TypedOver \in [text : Seq(Chars), is : {"read", "intact", "typed over"}]
        BY DEF TypedOver
      <4>2. line[d] \in [text : Seq(Chars), is : {"read", "intact", "typed over"}]
        BY TypedTypes DEF TInv
      <4>3. QED
        BY <4>1, <4>2
    <3>. HIDE DEF new
    <3>2. QED
      BY <2>1, <3>1, TypedTypes DEF TInv
  <2>11. buffer_size' \in [Terminals -> Places]
    BY <2>1, <2>2, TypedTypes DEF TInv
  <2>12. echo' = [t \in Terminals |-> echo'[t]] /\ terminal_enable' \in [Terminals -> {0, 1}]
    BY <2>1, TypedTypes DEF TInv
  <2>13. TypeOK'
    BY <2>8, <2>9, <2>10, <2>11, <2>12, KeysOnlyType DEF TInv
  <2>14. QED
    BY <2>8, <2>13 DEF TInv
<1>3. QED
  BY <1>1, <1>2

LEMMA CharKeyInv ==
  ASSUME TInv, NEW k \in Keys, CharKey(k)
  PROVE  TInv'
<1>. DEFINE d == display_terminal
<1>1. KeysOnly /\ d \in Terminals
  BY DEF CharKey, KeysOnly, TInv, TypeOK
<1>2. \/ CtrlL(d) \/ Backspace(d) \/ Enter(d)
      \/ k \notin {"backspace", "enter"} /\ Type(d, Char(k))
  BY DEF CharKey
<1>3. k \notin {"backspace", "enter"} => Char(k) \in Chars /\ Char(k) # "enter"
  <2>1. k \notin {"backspace", "enter"} => k \in {"l", "1", "tab"}
    BY KeysAssumption
  <2>2. QED
    BY <2>1 DEF Char, Chars
<1>. HIDE DEF d
<1>4. QED
  BY <1>1, <1>2, <1>3, CtrlLInv, BackspaceInv, EnterInv, TypeInv

(***************************************************************************)
(* The keys that type nothing, and the timer.                              *)
(***************************************************************************)
LEMMA NothingTyped ==
  ASSUME TInv, UNCHANGED <<typed, reads>>
  PROVE  EchoMatches' /\ LinesHeld'
<1>1. \A t \in Terminals : SameAt(t)
  BY DEF SameAt, typed, reads
<1>2. QED
  BY <1>1, AllSame

LEMMA CommandKeyInv ==
  ASSUME TInv, NEW k, CommandKey(k)
  PROVE  TInv'
<1>1. EchoMatches' /\ LinesHeld'
  BY NothingTyped DEF CommandKey
<1>2. display_terminal' \in Terminals
  BY DEF CommandKey, TInv, TypeOK
<1>3. LRShift' \in {0, 1} /\ LCtrl' \in {0, 1} /\ LAlt' \in {0, 1} /\ CapsLock' \in {0, 1}
  <2>1. /\ LRShift \in {0, 1} /\ LCtrl \in {0, 1}
        /\ LAlt \in {0, 1} /\ CapsLock \in {0, 1}
    BY DEF TInv, TypeOK
  <2>2. CapsLock' \in {0, 1}
    <3>1. CapsLock' = CapsLock \/ CapsLock' = 1 - CapsLock
      BY DEF CommandKey
    <3>2. CASE CapsLock = 0
      BY <3>1, <3>2
    <3>3. CASE CapsLock = 1
      BY <3>1, <3>3
    <3>4. QED
      BY <2>1, <3>2, <3>3
  <2>3. LRShift' \in {0, 1} /\ LCtrl' \in {0, 1} /\ LAlt' \in {0, 1}
    BY <2>1 DEF CommandKey, Held
  <2>4. QED
    BY <2>2, <2>3
<1>4. TypeOK'
  BY <1>2, <1>3 DEF CommandKey, TInv, TypeOK, typed, reads
<1>5. QED
  BY <1>1, <1>4 DEF TInv

LEMMA TerminalTickInv ==
  ASSUME TInv, Tick
  PROVE  TInv'
<1>1. EchoMatches' /\ LinesHeld'
  BY NothingTyped DEF Tick
<1>2. current_tid' \in Terminals
  <2>1. current_tid \in Terminals /\ current_tid' = (current_tid + 1) % NumTerminals
    BY DEF Tick, TInv, TypeOK
  <2>2. QED
    BY <2>1, NumTerminalsAssumption DEF Terminals
<1>3. TypeOK'
  BY <1>2 DEF Tick, TInv, TypeOK, modifiers, typed, reads
<1>4. QED
  BY <1>1, <1>3 DEF TInv

LEMMA TerminalStutterInv ==
  ASSUME TInv, UNCHANGED vars
  PROVE  TInv'
<1>1. EchoMatches' /\ LinesHeld'
  BY NothingTyped DEF vars
<1>2. TypeOK'
  BY DEF vars, TInv, TypeOK, modifiers, typed, reads
<1>3. QED
  BY <1>1, <1>2 DEF TInv

-----------------------------------------------------------------------------

(***************************************************************************)
(* read_terminal.                                                          *)
(***************************************************************************)
LEMMA ReadCallInv ==
  ASSUME TInv, NEW n \in Requests, ReadCall(n)
  PROVE  TInv'
<1>. PICK r \in Terminals : r = current_tid
  BY DEF TInv, TypeOK
<1>1. reading'[r] = "wait"
      /\ \A t \in Terminals : t # r => SameAt(t)
  BY DEF ReadCall, TInv, TypeOK, SameAt, typed
<1>2. EchoOf(r)' /\ LineHeld(r)'
  BY <1>1, EchoMatchesEach
  DEF TInv, EchoOf, LinesHeld, LineHeld, Unfinished, ReadCall, typed
<1>3. EchoMatches' /\ LinesHeld'
  BY <1>1, <1>2, OthersSame
<1>4. (IF n > Full + 1 THEN Full + 1 ELSE n) \in 0..(Full + 1)
  BY FullAssumption, RequestsAssumption
<1>5. TypeOK'
  BY <1>4 DEF ReadCall, TInv, TypeOK, typed, modifiers
<1>6. QED
  BY <1>3, <1>5 DEF TInv

LEMMA ReadWokenInv ==
  ASSUME TInv, ReadWoken
  PROVE  TInv'
<1>. PICK r \in Terminals : r = current_tid
  BY DEF TInv, TypeOK
<1>1. reading'[r] = "woken" /\ terminal_enable[r] = 1
      /\ \A t \in Terminals : t # r => SameAt(t)
  BY DEF ReadWoken, WaitsFor, TInv, TypeOK, SameAt, typed
<1>2. EchoOf(r)' /\ LineHeld(r)'
  BY <1>1, EchoMatchesEach
  DEF TInv, EchoOf, LinesHeld, LineHeld, Unfinished, ReadWoken, typed
<1>3. EchoMatches' /\ LinesHeld'
  BY <1>1, <1>2, OthersSame
<1>4. TypeOK'
  BY DEF ReadWoken, TInv, TypeOK, typed, modifiers
<1>5. QED
  BY <1>3, <1>4 DEF TInv

LEMMA ReadCopyInv ==
  ASSUME TInv, ReadCopy
  PROVE  TInv'
<1>. PICK r \in Terminals : r = current_tid
  BY DEF TInv, TypeOK
<1>1. /\ reading'[r] = "no" /\ terminal_enable'[r] = 0
      /\ line'[r] = NoLine
      /\ \A t \in Terminals : t # r => SameAt(t)
  BY DEF ReadCopy, FlagTaken, TInv, TypeOK, SameAt
<1>2. EchoOf(r)'
  BY <1>1, EchoMatchesEach DEF TInv, EchoOf, ReadCopy
<1>3. LineHeld(r)'
  BY <1>1 DEF TInv, LinesHeld, LineHeld, Unfinished, ReadCopy, NoLine
<1>4. EchoMatches' /\ LinesHeld'
  BY <1>1, <1>2, <1>3, OthersSame
<1>5. NoLine \in [text : Seq(Chars), is : {"read", "intact", "typed over"}]
  BY DEF NoLine
<1>6. TypeOK'
  <2>1. line' \in [Terminals -> [text : Seq(Chars), is : {"read", "intact", "typed over"}]]
    BY <1>5 DEF ReadCopy, TInv, TypeOK
  <2>2. nbytes' \in [Terminals -> 0..(Full + 1)]
    <3>1. 0 \in 0..(Full + 1)
      BY FullAssumption
    <3>2. QED
      BY <3>1 DEF ReadCopy, TInv, TypeOK
  <2>3. QED
    BY <2>1, <2>2 DEF ReadCopy, FlagTaken, TInv, TypeOK, modifiers
<1>7. QED
  BY <1>4, <1>6 DEF TInv

-----------------------------------------------------------------------------

(***************************************************************************)
(* The inductive invariant holds in every state of every behaviour.        *)
(***************************************************************************)
THEOREM TerminalInvariance == Spec => []TInv
<1>1. Init => TInv
  BY TerminalInitInv
<1>2. TInv /\ [Next]_vars => TInv'
  <2>. SUFFICES ASSUME TInv, [Next]_vars
                PROVE  TInv'
    OBVIOUS
  <2>1. CASE \E k \in Commands : CommandKey(k)
    BY <2>1, CommandKeyInv
  <2>2. CASE \E k \in Keys : CharKey(k)
    BY <2>2, CharKeyInv
  <2>3. CASE \E n \in Requests : ReadCall(n)
    BY <2>3, ReadCallInv
  <2>4. CASE ReadWoken \/ ReadCopy
    BY <2>4, ReadWokenInv, ReadCopyInv
  <2>5. CASE Tick \/ UNCHANGED vars
    BY <2>5, TerminalTickInv, TerminalStutterInv
  <2>6. QED
    BY <2>1, <2>2, <2>3, <2>4, <2>5 DEF Next
<1>3. QED
  BY <1>1, <1>2, PTL DEF Spec

(***************************************************************************)
(* Every variable keeps its type: no key is stored outside the buffer, no  *)
(* read is told to copy more than the buffer.                              *)
(***************************************************************************)
THEOREM TerminalTypeCorrect == Spec => []TypeOK
<1>1. TInv => TypeOK
  BY DEF TInv
<1>2. QED
  BY <1>1, TerminalInvariance, PTL

(***************************************************************************)
(* The unfinished line on every screen is the one in the buffer.           *)
(***************************************************************************)
THEOREM EchoCorrect == Spec => []EchoMatches
<1>1. TInv => EchoMatches
  BY DEF TInv
<1>2. QED
  BY <1>1, TerminalInvariance, PTL

-----------------------------------------------------------------------------

(***************************************************************************)
(* The first Enter in the buffer is the one that ended the line: a copy of *)
(* n characters gets the line and its Enter, or the first n of it.         *)
(***************************************************************************)
LEMMA CopyGivesLine ==
  ASSUME TInv, NEW t \in Terminals, line[t].is = "intact"
  PROVE  Returned(t) = Prefix(Append(line[t].text, "enter"), nbytes[t])
<1>. DEFINE text == line[t].text
            L == Len(text)
            s == Append(text, "enter")
            b == keyboard_buffer[t]
            n == nbytes[t]
            ends == {i \in 0..(n - 1) : b[i] = "enter"}
            m == IF n < L + 1 THEN n ELSE L + 1
            got == [i \in 1..m |-> b[i - 1]]
<1>1. text \in Seq(Chars) /\ L \in Nat /\ n \in Nat
  <2>1. text \in Seq(Chars) /\ n \in 0..(Full + 1)
    BY TypedTypes DEF TInv, TypeOK
  <2>2. QED
    BY <2>1, FullAssumption
<1>2. /\ \A i \in 1..L : text[i] = b[i - 1] /\ text[i] # "enter"
      /\ b[L] = "enter"
  BY DEF TInv, LinesHeld, LineHeld
<1>3. /\ s \in Seq(Chars) /\ Len(s) = L + 1
      /\ \A i \in 1..L : s[i] = text[i]
      /\ s[L + 1] = "enter"
  BY <1>1 DEF Chars
<1>4. m \in Nat /\ m <= L + 1 /\ m <= n
  BY <1>1
<1>5. \A i \in 1..m : s[i] = b[i - 1]
  <2>1. \A i \in 1..m : i \in 1..L \/ (i = L + 1 /\ i - 1 = L)
    <3>. HIDE DEF L, m
    <3>1. QED
      BY <1>1, <1>4
  <2>. HIDE DEF s, m, L, b
  <2>2. QED
    BY <1>2, <1>3, <2>1
<1>6. \A i \in 0..(L - 1) : b[i] # "enter"
  <2>1. \A i \in 0..(L - 1) : i + 1 \in 1..L /\ (i + 1) - 1 = i
    BY <1>1
  <2>2. QED
    BY <1>2, <2>1
<1>7. Returned(t) = got
  <2>1. CASE n <= L
    <3>1. ends = {} /\ m = n
      BY <1>1, <1>6, <2>1
    <3>2. QED
      BY <3>1 DEF Returned, Copied
  <2>2. CASE n > L
    <3>1. L \in ends /\ (\A j \in ends : L <= j) /\ m = 1 + L
      BY <1>1, <1>2, <1>6, <2>2
    <3>2. \A i \in ends : i \in Int
      BY <1>1
    <3>3. L = CHOOSE i \in ends : \A j \in ends : i <= j
      <4>. HIDE DEF ends, L
      <4>1. \A i \in ends : (\A j \in ends : i <= j) => i = L
        BY <3>1, <3>2
      <4>2. QED
        BY <3>1, <4>1
    <3>4. QED
      BY <3>1, <3>3 DEF Returned, Copied
  <2>3. QED
    BY <1>1, <2>1, <2>2
<1>8. Prefix(s, n) = SubSeq(s, 1, m)
  BY <1>3 DEF Prefix
<1>9. /\ SubSeq(s, 1, m) \in Seq(Chars) /\ Len(SubSeq(s, 1, m)) = m
      /\ \A i \in 1..m : SubSeq(s, 1, m)[i] = s[i]
  BY <1>3, <1>4
<1>10. got \in Seq(Chars) /\ Len(got) = m /\ \A i \in 1..m : got[i] = b[i - 1]
  <2>1. \A i \in 1..m : b[i - 1] \in Chars
    <3>. HIDE DEF s, m
    <3>1. \A i \in 1..m : s[i] \in Chars
      BY <1>1, <1>3, <1>4
    <3>2. QED
      BY <1>5, <3>1
  <2>. DEFINE at(i) == b[i - 1]
  <2>2. \A i \in 1..m : at(i) \in Chars
    BY <2>1
  <2>. HIDE DEF at, m
  <2>3. [i \in 1..m |-> at(i)] \in Seq(Chars)
    BY <1>4, <2>2, IsASeq
  <2>4. QED
    <3>1. got = [i \in 1..m |-> at(i)]
      BY DEF at
    <3>2. got \in Seq(Chars)
      BY <2>3, <3>1
    <3>3. Len(got) = m
      <4>1. DOMAIN got = 1..m
        OBVIOUS
      <4>. HIDE DEF got
      <4>2. DOMAIN got = 1..Len(got) /\ Len(got) \in Nat
        BY <3>2, LenProperties
      <4>3. QED
        BY <1>4, <4>1, <4>2
    <3>4. QED
      BY <3>2, <3>3
<1>11. got = SubSeq(s, 1, m)
  <2>. HIDE DEF got, s, m, b
  <2>1. QED
    BY <1>5, <1>9, <1>10, SeqEqual
<1>12. QED
  BY <1>7, <1>8, <1>11

(***************************************************************************)
(* A read returns the line that was typed, or its first nbytes characters, *)
(* unless it was typed over; and no line twice.                            *)
(***************************************************************************)
THEOREM ReadsCorrect == Spec => ReadGivesLine
<1>1. ASSUME TInv, NEW t \in Terminals, reading[t] = "woken"
      PROVE  /\ line[t].is # "read"
             /\ line[t].is = "intact" =>
                  Returned(t) = Prefix(Append(line[t].text, "enter"), nbytes[t])
  BY <1>1, CopyGivesLine DEF TInv, LinesHeld, LineHeld
<1>2. TInv /\ [Next]_vars =>
        [ \A t \in Terminals :
            reading[t] = "woken" /\ reading'[t] = "no" =>
              /\ line[t].is # "read"
              /\ line[t].is = "intact" =>
                   Returned(t) = Prefix(Append(line[t].text, "enter"), nbytes[t]) ]_vars
  BY <1>1
<1>3. QED
  BY <1>2, TerminalInvariance, PTL DEF Spec, ReadGivesLine

=============================================================================
