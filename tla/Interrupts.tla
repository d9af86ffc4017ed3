----------------------------- MODULE Interrupts -----------------------------
(***************************************************************************)
(* The two interrupt controllers, the interrupt gates and the skeletons of *)
(* the three device handlers: i8259.c, idt_init (idt.c), interrupt.S,      *)
(* pit_irq (pit.c), RTC_irq and RTC_init (rtc.c), keyboard_irq             *)
(* (keyboard.c) and the order of initialisation in entry (kernel.c).       *)
(*                                                                         *)
(* A line in service blocks the lines of lower priority until its handler  *)
(* acknowledges it (send_eoi).  Handlers enable interrupts before they     *)
(* end, so they nest, and the timer's handler leaves the others of its     *)
(* context unfinished until that context runs again.  The question is      *)
(* whether the controllers and the unfinished handlers always agree: a     *)
(* line in service without a handler left to acknowledge it is silent for  *)
(* ever.                                                                   *)
(*                                                                         *)
(* Rtc takes from here that there is one RTC_irq at a time.                *)
(***************************************************************************)
EXTENDS Integers, Sequences, FiniteSets, SequencesExt

CONSTANTS
  NumTerminals,    \* TERMINAL_SIZE
  BootWakes        \* may rtc_maxcount of a PCB be nonzero before any process?

ASSUME TerminalsAssumption == NumTerminals \in Nat \ {0}
ASSUME BootWakesAssumption == BootWakes \in BOOLEAN

Timer == 0        \* PIT_IRQ
Keyboard == 1     \* KEYBOARD_PICNUM
Cascade == 2      \* SLAVE_POS
Clock == 8        \* RTC_PICNUM
Devices == {Timer, Keyboard, Clock}

Boot == -1        \* the context of entry: its loop is never resumed
Terminals == 0..(NumTerminals - 1)
Contexts == Terminals \cup {Boot}

VARIABLES
  stage,           \* initialisations entry has done
  enabled,         \* complement of master_mask and slave_mask
  pending,         \* requests latched by the controllers
  serving,         \* their in-service bits
  regC,            \* an RTC interrupt whose register C has not been read
  turn,            \* the context that has the CPU
  stack,           \* [Contexts -> Seq]: unfinished handlers, innermost last
  iflag            \* interrupts enabled in the CPU

vars == <<stage, enabled, pending, serving, regC, turn, stack, iflag>>

Init ==
  /\ stage = 0
  /\ enabled = {} /\ pending = {} /\ serving = {}
  /\ regC = FALSE
  /\ turn = Boot
  /\ stack = [c \in Contexts |-> <<>>]
  /\ iflag = FALSE

-----------------------------------------------------------------------------
(* Initialisation, with interrupts disabled until all of it is done. *)

InitOrderNoCascade == <<Keyboard, Clock, Timer>>
InitOrder == <<Cascade, Keyboard, Clock, Timer>>

BootStep ==
  /\ stage < Len(InitOrder)
  /\ stage' = stage + 1
  /\ enabled' = enabled \cup {InitOrder[stage']}
  /\ UNCHANGED <<pending, serving, regC, turn, stack, iflag>>

\* sti, then the loop of hlt.
BootDone ==
  /\ stage = Len(InitOrder)
  /\ stage' = stage + 1
  /\ iflag' = TRUE
  /\ UNCHANGED <<enabled, pending, serving, regC, turn, stack>>

-----------------------------------------------------------------------------
(* Devices and controllers. *)

\* The RTC asks again only after its register C was read.  The timer's period
\* (10 ms) is longer than its handler.
Raise(l) ==
  /\ l \notin pending
  /\ l = Timer => Timer \notin serving
  /\ l = Clock => Clock \in enabled /\ ~regC
  /\ regC' = (regC \/ l = Clock)
  /\ pending' = pending \cup {l}
  /\ UNCHANGED <<stage, enabled, serving, turn, stack, iflag>>

OnSlave(l) == l >= 8
MasterLine(l) == IF OnSlave(l) THEN Cascade ELSE l

\* The lines the master would pass on to the CPU, and the one it chooses.
Requests ==
  {l \in pending \cap enabled :
     /\ MasterLine(l) \in enabled
     /\ l \notin serving
     /\ \A s \in serving : OnSlave(s) \/ MasterLine(l) < s}

Chosen(l) == l \in Requests /\ \A k \in Requests : MasterLine(l) <= MasterLine(k)

\* An interrupt gate: IF is clear when the handler starts.
Deliver(l) ==
  /\ iflag
  /\ Chosen(l)
  /\ pending' = pending \ {l}
  /\ serving' = serving \cup {l, MasterLine(l)}
  /\ stack' = [stack EXCEPT ![turn] = Append(@, [irq |-> l, at |-> "start"])]
  /\ iflag' = FALSE
  /\ UNCHANGED <<stage, enabled, regC, turn>>

-----------------------------------------------------------------------------
(* Handlers.  The innermost one of the running context goes on.  Its       *)
(* return (popfl, popal, iret) belongs to its last step: it only restores  *)
(* what was interrupted, a context with interrupts enabled.                *)

At(l, place) == stack[turn] # <<>> /\ Last(stack[turn]) = [irq |-> l, at |-> place]
Go(place) ==
  stack' = [stack EXCEPT ![turn] = Front(@) \o <<[Last(@) EXCEPT !.at = place]>>]
Left == [stack EXCEPT ![turn] = Front(@)]

\* What one command byte of send_eoi takes out of service.
AcknowledgedOnSlave(l) == IF l = Cascade THEN serving ELSE serving \ {l}
Acknowledged(l) == serving \ {l}

\* pit_irq: acknowledge, then go to the next terminal, resumed or started
\* with interrupts enabled.
TimerContext == (IF turn = Boot THEN 1 ELSE turn + 1) % NumTerminals

PitIrqLate ==
  /\ At(Timer, "start")
  /\ turn' = TimerContext
  /\ stack' = Left
  /\ iflag' = TRUE
  /\ UNCHANGED <<stage, enabled, pending, serving, regC>>

PitIrq ==
  /\ At(Timer, "start")
  /\ serving' = Acknowledged(Timer)
  /\ turn' = TimerContext
  /\ stack' = Left
  /\ iflag' = TRUE
  /\ UNCHANGED <<stage, enabled, pending, regC>>

\* keyboard_irq: cli, acknowledge, the work, and sti before every return.
KeyboardIrqSilent ==
  /\ At(Keyboard, "start")
  /\ stack' = Left
  /\ iflag' = TRUE
  /\ UNCHANGED <<stage, enabled, pending, serving, regC, turn>>

KeyboardIrq ==
  /\ At(Keyboard, "start")
  /\ serving' = Acknowledged(Keyboard)
  /\ stack' = Left
  /\ iflag' = TRUE
  /\ UNCHANGED <<stage, enabled, pending, regC, turn>>

\* RTC_irq, its loop: sti after a process was woken.
RtcWakesFirst ==
  /\ At(Clock, "start")
  /\ ~iflag
  /\ turn # Boot \/ BootWakes
  /\ iflag' = TRUE
  /\ serving' = serving \ {Clock, Cascade}
  /\ UNCHANGED <<stage, enabled, pending, regC, turn, stack>>

RtcWakes ==
  /\ At(Clock, "start")
  /\ ~iflag
  /\ turn # Boot \/ BootWakes
  /\ iflag' = TRUE
  /\ UNCHANGED <<stage, enabled, pending, serving, regC, turn, stack>>

\* Register C is read and thrown away.
RegCUnread == regC
RegCRead == FALSE

RtcReads ==
  /\ At(Clock, "start")
  /\ regC' = RegCRead
  /\ Go("slave")
  /\ UNCHANGED <<stage, enabled, pending, serving, turn, iflag>>

\* send_eoi, its two commands.
RtcEoiSlave ==
  /\ At(Clock, "slave")
  /\ serving' = Acknowledged(Clock)
  /\ Go("master")
  /\ UNCHANGED <<stage, enabled, pending, regC, turn, iflag>>

RtcEoiMaster ==
  /\ At(Clock, "master")
  /\ serving' = Acknowledged(Cascade)
  /\ stack' = Left
  /\ iflag' = TRUE
  /\ UNCHANGED <<stage, enabled, pending, regC, turn>>

-----------------------------------------------------------------------------
(* Programs in system calls: read_terminal, rtc_read, execute and halt     *)
(* disable interrupts; sti or the return to the program enables them.      *)

InProgram == turn # Boot /\ stack[turn] = <<>>

Cli ==
  /\ InProgram /\ iflag
  /\ iflag' = FALSE
  /\ UNCHANGED <<stage, enabled, pending, serving, regC, turn, stack>>

Sti ==
  /\ InProgram /\ ~iflag
  /\ iflag' = TRUE
  /\ UNCHANGED <<stage, enabled, pending, serving, regC, turn, stack>>

-----------------------------------------------------------------------------

Handlers ==
  \/ PitIrq \/ KeyboardIrq
  \/ RtcWakes \/ RtcReads \/ RtcEoiSlave \/ RtcEoiMaster

Next ==
  \/ BootStep \/ BootDone
  \/ \E l \in Devices : Raise(l) \/ Deliver(l)
  \/ Handlers
  \/ Cli \/ Sti

(***************************************************************************)
(* The CPU goes on and the timer keeps counting.  Strong where interrupts  *)
(* come between: they are rarer than the code they interrupt is long, so   *)
(* the clock's handler gets on in the end, and a request the controllers   *)
(* pass on again and again is taken.                                       *)
(***************************************************************************)
Fairness ==
  /\ WF_vars(BootStep) /\ WF_vars(BootDone)
  /\ WF_vars(Raise(Timer))
  /\ WF_vars(Sti)
  /\ WF_vars(PitIrq) /\ WF_vars(KeyboardIrq)
  /\ SF_vars(RtcReads \/ RtcEoiSlave \/ RtcEoiMaster)
  /\ \A l \in Devices : SF_vars(Deliver(l))

Spec == Init /\ [][Next]_vars /\ Fairness

-----------------------------------------------------------------------------

TypeOK ==
  /\ stage \in 0..(Len(InitOrder) + 1)
  /\ enabled \subseteq Devices \cup {Cascade}
  /\ pending \subseteq Devices
  /\ serving \subseteq Devices \cup {Cascade}
  /\ regC \in BOOLEAN /\ iflag \in BOOLEAN
  /\ turn \in Contexts
  /\ \A c \in Contexts :
       /\ Len(stack[c]) \in 0..2
       /\ \A i \in 1..Len(stack[c]) :
            stack[c][i] \in [irq : Devices, at : {"start", "slave", "master"}]

\* The unfinished handlers of l that are in one of the places, by context.
HandlersAt(l, places) ==
  {h \in Contexts \X (1..2) :
     /\ h[2] <= Len(stack[h[1]])
     /\ stack[h[1]][h[2]].irq = l /\ stack[h[1]][h[2]].at \in places}

Resumed(h) == h[1] # Boot \/ turn = Boot

\* l is in service because of exactly one handler, one that will go on.
Held(l, handlers) ==
  /\ Cardinality(handlers) = IF l \in serving THEN 1 ELSE 0
  /\ \A h \in handlers : Resumed(h)

(***************************************************************************)
(* "PIC will not handle another interrupt until then" (rtc.c:136): a line  *)
(* is in service exactly while one handler of it, in a context that will   *)
(* run again, has yet to acknowledge it.  So there is one RTC_irq at a     *)
(* time up to its EOI (rtc.c:119-137), though handlers nest and the timer  *)
(* leaves them unfinished in other contexts (pit.c:26-32).                 *)
(***************************************************************************)
ServiceHeld ==
  /\ Held(Timer, HandlersAt(Timer, {"start"}))
  /\ Held(Keyboard, HandlersAt(Keyboard, {"start"}))
  /\ Held(Clock, HandlersAt(Clock, {"start", "slave"}))
  /\ Held(Cascade, HandlersAt(Clock, {"start", "slave", "master"}))

(***************************************************************************)
(* "The signal from RTC just appear once" (buglog.txt:39): the RTC falls   *)
(* silent unless every interrupt it raised is still requested or has a     *)
(* handler that will read register C (rtc.c:133-134).                      *)
(***************************************************************************)
ClockAnswerable ==
  regC => Clock \in pending \/ \E h \in HandlersAt(Clock, {"start"}) : Resumed(h)

(***************************************************************************)
(* A key is answered (keyboard.c:34-36), whatever the RTC handler and the  *)
(* rotation of the terminals are in the middle of.                         *)
(***************************************************************************)
KeysAnswered == Keyboard \in pending ~> Keyboard \notin pending

(***************************************************************************)
(* The RTC, of the lowest priority, goes on interrupting: each of its      *)
(* interrupts has register C read (rtc.c:133-134), as long as programs get *)
(* to run now and then without a key or a tick outstanding.                *)
(***************************************************************************)
ProgramRuns == iflag /\ stack[turn] = <<>> /\ pending \subseteq {Clock}
ClockAnswered == []<>ProgramRuns => (regC ~> ~regC)

(***************************************************************************)
(* Preemption goes on for ever (pit.c:26-32): no handler, and no system    *)
(* call that disables interrupts, keeps a terminal from its turn.          *)
(***************************************************************************)
PreemptionGoesOn == \A t \in Terminals : []<>(turn = t)

=============================================================================
