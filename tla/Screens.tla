------------------------------ MODULE Screens ------------------------------
(***************************************************************************)
(* What the video code of MongOS promises, without page tables or copies:  *)
(* every terminal has a screen of its own, one of them is shown.  Output   *)
(* goes to the screen of the terminal whose turn it is, the echo of a key  *)
(* to the one that is shown, and showing another terminal changes no       *)
(* screen.  Video implements it.                                           *)
(***************************************************************************)
EXTENDS Integers

CONSTANTS NumTerminals, Texts

VARIABLES
  screen,          \* [terminal -> Texts]
  shown,           \* the terminal on the monitor
  turn             \* the terminal that has the CPU

vars == <<screen, shown, turn>>

Terminals == 0..(NumTerminals - 1)

Init ==
  /\ screen \in [Terminals -> Texts]
  /\ shown = 0
  /\ turn = 0

Output(x) ==
  /\ screen' = [screen EXCEPT ![turn] = x]
  /\ UNCHANGED <<shown, turn>>

Echo(x) ==
  /\ screen' = [screen EXCEPT ![shown] = x]
  /\ UNCHANGED <<shown, turn>>

Show(t) ==
  /\ shown' = t
  /\ UNCHANGED <<screen, turn>>

\* The turn passes on; a shell that starts there may print its first line.
PassTurn ==
  /\ turn' = (turn + 1) % NumTerminals
  /\ \/ UNCHANGED screen
     \/ \E x \in Texts : screen' = [screen EXCEPT ![turn'] = x]
  /\ UNCHANGED shown

Next ==
  \/ \E x \in Texts : Output(x) \/ Echo(x)
  \/ \E t \in Terminals : Show(t)
  \/ PassTurn

Spec == Init /\ [][Next]_vars

=============================================================================
