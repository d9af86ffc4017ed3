------------------------------ MODULE Terminal ------------------------------
(***************************************************************************)
(* The line discipline of the terminals: keyboard_irq, get_command_char,   *)
(* init_terminal and read_terminal (keyboard.c).                           *)
(*                                                                         *)
(* Keys go to the terminal on display, reads take from the terminal that   *)
(* runs.  The two meet in keyboard_buffer and terminal_enable, with no     *)
(* queue between them: Enter raises the flag and the next key starts to    *)
(* fill the same buffer again, whether or not the line has been read.      *)
(* read_terminal spins on the flag with interrupts enabled and copies the  *)
(* buffer with interrupts disabled; between the two keys may arrive.       *)
(*                                                                         *)
(* Every terminal is taken to have one program that reads: only its        *)
(* running process can be in read_terminal.                                *)
(***************************************************************************)
EXTENDS Integers, Sequences, FiniteSets

CONSTANTS
  NumTerminals,    \* TERMINAL_SIZE (3)
  Full,            \* FULL_BUFFER (127); the buffer has one more place
  Keys,            \* the keys of the scancode table that are pressed
  Commands,        \* the keys get_command_char knows that are used
  Requests         \* the values of nbytes in calls of read_terminal

ASSUME NumTerminalsAssumption == NumTerminals \in Nat \ {0}
ASSUME FullAssumption == Full \in Nat \ {0}
ASSUME KeysAssumption == Keys \subseteq {"l", "1", "tab", "backspace", "enter"}
ASSUME RequestsAssumption == Requests \subseteq Nat

Terminals == 0..(NumTerminals - 1)
Places == 0..Full
Chars == {"l", "L", "1", "!", "tab", "enter", "null"}

VARIABLES
  LRShift, LCtrl, LAlt, CapsLock,    \* the modifier keys
  display_terminal, current_tid,
  keyboard_buffer, buffer_size, terminal_enable,   \* of every terminal
  reading,         \* [Terminals -> {"no", "wait", "woken"}]
  nbytes,          \* [Terminals -> Nat], of the read under way
  echo,            \* [Terminals -> Nat], the columns the unfinished line
                   \* takes on the screen
  line             \* [Terminals -> ...]: the last line ended by Enter, and
                   \* whether it was "read" or "typed over" since

modifiers == <<LRShift, LCtrl, LAlt, CapsLock>>
typed == <<keyboard_buffer, buffer_size, terminal_enable, echo, line>>
reads == <<reading, nbytes>>
vars == <<modifiers, display_terminal, current_tid, typed, reads>>

NoLine == [text |-> <<>>, is |-> "read"]
TypedOver == [text |-> <<>>, is |-> "typed over"]

Init ==
  /\ LRShift = 0 /\ LCtrl = 0 /\ LAlt = 0 /\ CapsLock = 0
  /\ display_terminal = 0 /\ current_tid = 0
  /\ keyboard_buffer = [t \in Terminals |-> [i \in Places |-> "null"]]
  /\ buffer_size = [t \in Terminals |-> 0]
  /\ terminal_enable = [t \in Terminals |-> 0]
  /\ reading = [t \in Terminals |-> "no"]
  /\ nbytes = [t \in Terminals |-> 0]
  /\ echo = [t \in Terminals |-> 0]
  /\ line = [t \in Terminals |-> NoLine]

-----------------------------------------------------------------------------

(***************************************************************************)
(* get_command_char: the modifier keys, F1 to F3 with Alt, Esc.            *)
(***************************************************************************)
SwitchTo(k) == CASE k = "F1" -> 0 [] k = "F2" -> 1 [] k = "F3" -> 2 [] OTHER -> -1

Held(old, k, press, release) == IF k = press THEN 1 ELSE IF k = release THEN 0 ELSE old

CommandKey(k) ==
  /\ LRShift' = Held(LRShift, k, "shift", "shift up")
  /\ LCtrl' = Held(LCtrl, k, "ctrl", "ctrl up")
  /\ LAlt' = Held(LAlt, k, "alt", "alt up")
  /\ CapsLock' = IF k = "caps" THEN 1 - CapsLock ELSE CapsLock
  /\ display_terminal' =
       IF LAlt = 1 /\ SwitchTo(k) \in Terminals THEN SwitchTo(k) ELSE display_terminal
  /\ UNCHANGED <<current_tid, typed, reads>>

(***************************************************************************)
(* The character of a key.  CapsLock counts for letters only.              *)
(***************************************************************************)
Shifted(k) == IF k = "l" THEN CapsLock # LRShift ELSE LRShift = 1
Char(k) ==
  IF ~ Shifted(k) THEN k ELSE CASE k = "l" -> "L" [] k = "1" -> "!" [] OTHER -> k

Width(c) == IF c = "tab" THEN 4 ELSE 1

(***************************************************************************)
(* The rest of keyboard_irq, for the terminal t on display: Ctrl-L clears  *)
(* the screen and the line; Backspace removes a character, and as many     *)
(* columns; Enter ends the line, at place Full if the buffer is full, when *)
(* no other character is taken.  (The release of a key that is no modifier *)
(* does nothing.)                                                          *)
(***************************************************************************)
IsFullLate(t) == buffer_size[t] = Full + 1
IsFull(t) == buffer_size[t] = Full

CtrlL(t) ==
  /\ buffer_size' = [buffer_size EXCEPT ![t] = 0]
  /\ echo' = [echo EXCEPT ![t] = 0]
  /\ UNCHANGED <<keyboard_buffer, terminal_enable, line>>

ErasedOne(c) == 1
Erased(c) == Width(c)

Backspace(t) ==
  IF buffer_size[t] = 0 THEN UNCHANGED typed
  ELSE /\ buffer_size' = [buffer_size EXCEPT ![t] = @ - 1]
       /\ echo' = [echo EXCEPT ![t] = @ - Erased(keyboard_buffer[t][buffer_size[t] - 1])]
       /\ UNCHANGED <<keyboard_buffer, terminal_enable, line>>

Enter(t) ==
  LET size == buffer_size[t] IN
  /\ keyboard_buffer' = [keyboard_buffer EXCEPT ![t][size] = "enter"]
  /\ terminal_enable' = [terminal_enable EXCEPT ![t] = 1]
  /\ buffer_size' = [buffer_size EXCEPT ![t] = 0]
  /\ echo' = [echo EXCEPT ![t] = 0]
  /\ line' = [line EXCEPT ![t] =
       [text |-> [i \in 1..size |-> keyboard_buffer[t][i - 1]], is |-> "intact"]]

Type(t, c) ==
  IF IsFull(t) THEN UNCHANGED typed
  ELSE /\ keyboard_buffer' = [keyboard_buffer EXCEPT ![t][buffer_size[t]] = c]
       /\ buffer_size' = [buffer_size EXCEPT ![t] = @ + 1]
       /\ echo' = [echo EXCEPT ![t] = @ + Width(c)]
       /\ line' = [line EXCEPT ![t] = IF @.is = "intact" THEN TypedOver ELSE @]
       /\ UNCHANGED terminal_enable

CharKey(k) ==
  /\ IF LCtrl = 1 /\ k = "l" THEN CtrlL(display_terminal)
     ELSE IF k = "backspace" THEN Backspace(display_terminal)
     ELSE IF k = "enter" THEN Enter(display_terminal)
     ELSE Type(display_terminal, Char(k))
  /\ UNCHANGED <<modifiers, display_terminal, current_tid, reads>>

-----------------------------------------------------------------------------

(***************************************************************************)
(* read_terminal, called by the program of the running terminal.           *)
(***************************************************************************)
WaitsForDisplay == terminal_enable[display_terminal] = 1
WaitsFor == terminal_enable[current_tid] = 1

ReadCall(n) ==
  /\ reading[current_tid] = "no"
  /\ reading' = [reading EXCEPT ![current_tid] = "wait"]
  /\ nbytes' = [nbytes EXCEPT ![current_tid] = IF n > Full + 1 THEN Full + 1 ELSE n]
  /\ UNCHANGED <<modifiers, display_terminal, current_tid, typed>>

ReadWoken ==
  /\ reading[current_tid] = "wait" /\ WaitsFor
  /\ reading' = [reading EXCEPT ![current_tid] = "woken"]
  /\ UNCHANGED <<modifiers, display_terminal, current_tid, typed, nbytes>>

(***************************************************************************)
(* The copy stops after the first Enter it meets in the buffer.  The model *)
(* does not keep what the caller gets: Returned(t) is what it is.          *)
(***************************************************************************)
Copied(buffer, n) ==
  LET ends == {i \in 0..(n - 1) : buffer[i] = "enter"}
      count == IF ends = {} THEN n ELSE 1 + CHOOSE i \in ends : \A j \in ends : i <= j
  IN [i \in 1..count |-> buffer[i - 1]]

Returned(t) == Copied(keyboard_buffer[t], nbytes[t])

FlagKept == terminal_enable
FlagTaken == [terminal_enable EXCEPT ![current_tid] = 0]

ReadCopy ==
  /\ reading[current_tid] = "woken"
  /\ terminal_enable' = FlagTaken
  /\ nbytes' = [nbytes EXCEPT ![current_tid] = 0]
  /\ reading' = [reading EXCEPT ![current_tid] = "no"]
  /\ line' = [line EXCEPT ![current_tid] = NoLine]
  /\ UNCHANGED <<modifiers, display_terminal, current_tid,
                 keyboard_buffer, buffer_size, echo>>

Tick ==
  /\ current_tid' = (current_tid + 1) % NumTerminals
  /\ UNCHANGED <<modifiers, display_terminal, typed, reads>>

Next ==
  \/ \E k \in Commands : CommandKey(k)
  \/ \E k \in Keys : CharKey(k)
  \/ \E n \in Requests : ReadCall(n)
  \/ ReadWoken
  \/ ReadCopy
  \/ Tick

Spec == Init /\ [][Next]_vars

(***************************************************************************)
(* The timer keeps interrupting, and a program that gets the CPU again and *)
(* again gets past a loop whose condition has become false and through the *)
(* copy.  Nothing is assumed of the keyboard.                              *)
(***************************************************************************)
ReadStep(t) == current_tid = t /\ (ReadWoken \/ ReadCopy)
Fairness == WF_vars(Tick) /\ \A t \in Terminals : SF_vars(ReadStep(t))

FairSpec == Spec /\ Fairness

-----------------------------------------------------------------------------

(***************************************************************************)
(* Every variable has its type.  buffer_size never passes Full, so no key  *)
(* is stored outside keyboard_buffer.                                      *)
(***************************************************************************)
TypeOK ==
  /\ LRShift \in {0, 1} /\ LCtrl \in {0, 1} /\ LAlt \in {0, 1} /\ CapsLock \in {0, 1}
  /\ display_terminal \in Terminals /\ current_tid \in Terminals
  /\ keyboard_buffer \in [Terminals -> [Places -> Chars]]
  /\ buffer_size \in [Terminals -> Places]
  /\ terminal_enable \in [Terminals -> {0, 1}]
  /\ reading \in [Terminals -> {"no", "wait", "woken"}]
  /\ nbytes \in [Terminals -> 0..(Full + 1)]
  /\ echo \in [Terminals -> Nat]
  /\ line \in [Terminals -> [text : Seq(Chars), is : {"read", "intact", "typed over"}]]

(***************************************************************************)
(* The line on the screen is the line in the buffer: through tabs,         *)
(* backspaces, a full buffer, Ctrl-L and switches of the display, the      *)
(* echoed columns are those of the characters a read would return.         *)
(***************************************************************************)
Tabs(t) == {i \in 0..(buffer_size[t] - 1) : keyboard_buffer[t][i] = "tab"}

EchoMatches == \A t \in Terminals : echo[t] = buffer_size[t] + 3 * Cardinality(Tabs(t))

(***************************************************************************)
(* A read returns the line that was typed, cut to nbytes, unless the user  *)
(* typed on before it was read; and never a line that was read before.     *)
(***************************************************************************)
Prefix(s, n) == SubSeq(s, 1, IF n < Len(s) THEN n ELSE Len(s))

ReadGivesLine ==
  [][ \A t \in Terminals :
        reading[t] = "woken" /\ reading'[t] = "no" =>
          /\ line[t].is # "read"
          /\ line[t].is = "intact" =>
               Returned(t) = Prefix(Append(line[t].text, "enter"), nbytes[t]) ]_vars

(***************************************************************************)
(* A reader whose terminal has a finished line returns, whichever terminal *)
(* is on display, and whatever else is typed.                              *)
(***************************************************************************)
LinesReachReaders ==
  \A t \in Terminals :
    reading[t] = "wait" /\ terminal_enable[t] = 1 ~> reading[t] = "no"

=============================================================================
