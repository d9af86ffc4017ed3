------------------------------- MODULE Blink -------------------------------
(***************************************************************************)
(* The blinking characters of the program fish (blink.S, with mp1_malloc   *)
(* and mp1_free of fish.c): a list of structures, the newest at its head,  *)
(* and the page of video memory they are drawn on.                         *)
(*                                                                         *)
(* A structure of blink_array is free when its location is 0, so a blinker *)
(* at cell 0 would be handed out again while it is in the list.  fish adds *)
(* none there, and the model has the list only: the structures that are    *)
(* not in it are the free ones.  Lengths are below 2^15, where the signed  *)
(* comparison of mp1_rtc_tasklet is that of the numbers.                   *)
(***************************************************************************)
EXTENDS Integers, Sequences, FiniteSetsExt

CONSTANTS
  Width, Height,   \* 80 by 25
  Slots            \* of blink_array, 80*25

ASSUME SizeAssumption == Width \in Nat \ {0} /\ Height \in Nat \ {0}
ASSUME SlotsAssumption == Slots \in Nat

Cells == 0..(Width * Height - 1)

VARIABLES
  list,            \* mp1_list_head and what it leads to
  screen           \* the characters at vmem_base_addr

Untouched == "old" \* what a cell holds before fish writes there

BlinkInit == list = <<>> /\ screen = [cell \in Cells |-> Untouched]

-----------------------------------------------------------------------------

Shown(b) == IF b.status = 1 THEN b.on_char ELSE b.off_char

(***************************************************************************)
(* mp1_ioctl_add: refused off the screen and when no structure is free.    *)
(***************************************************************************)
AddRefused(location) == location >= Width * Height \/ Len(list) = Slots

Add(location, on_char, off_char, on_length, off_length) ==
  IF AddRefused(location) THEN UNCHANGED <<list, screen>>
  ELSE /\ list' = << [location |-> location, on_char |-> on_char, off_char |-> off_char,
                      on_length |-> on_length, off_length |-> off_length,
                      countdown |-> on_length, status |-> 1] >> \o list
       /\ screen' = [screen EXCEPT ![location] = on_char]

(***************************************************************************)
(* mp1_rtc_tasklet: a blinker whose countdown is over changes over, and is *)
(* drawn; of two in one cell the one further down the list is drawn last.  *)
(***************************************************************************)
OverLate(b) == b.countdown < 0
Over(b) == b.countdown - 1 <= 0

Ticked(b) ==
  IF ~ Over(b) THEN [b EXCEPT !.countdown = @ - 1]
  ELSE [b EXCEPT !.status = 1 - @,
                 !.countdown = IF b.status = 1 THEN b.off_length ELSE b.on_length]

Drawn(cell) == {i \in DOMAIN list : list[i].location = cell /\ Over(list[i])}

mp1_rtc_tasklet ==
  /\ list' = [i \in DOMAIN list |-> Ticked(list[i])]
  /\ screen' = [cell \in Cells |-> IF Drawn(cell) = {} THEN screen[cell]
                                   ELSE Shown(Ticked(list[Max(Drawn(cell))]))]

(***************************************************************************)
(* mp1_find_helper, for the two that follow: the first of the list there.  *)
(***************************************************************************)
At(location) == {i \in DOMAIN list : list[i].location = location}
Found(location) == Min(At(location))

(***************************************************************************)
(* mp1_ioctl_sync: the second takes the rhythm of the first.  It is drawn  *)
(* off even when it is on: the cmovl after testb never moves.              *)
(***************************************************************************)
SyncedLengths(b, a) == [b EXCEPT !.on_length = a.on_length, !.off_length = a.off_length]
Synced(b, a) == [b EXCEPT !.on_length = a.on_length, !.off_length = a.off_length,
                          !.countdown = a.countdown, !.status = a.status]

Sync(from, to) ==
  IF At(from) = {} \/ At(to) = {} THEN UNCHANGED <<list, screen>>
  ELSE /\ list' = [list EXCEPT ![Found(to)] = Synced(@, list[Found(from)])]
       /\ screen' = [screen EXCEPT ![to] = list[Found(to)].off_char]

(***************************************************************************)
(* mp1_ioctl_remove: the cell keeps its character.                         *)
(***************************************************************************)
Remove(location) ==
  /\ list' = IF At(location) = {} THEN list
             ELSE SubSeq(list, 1, Found(location) - 1)
                  \o SubSeq(list, Found(location) + 1, Len(list))
  /\ UNCHANGED screen

=============================================================================
