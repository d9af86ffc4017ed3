-------------------------- MODULE InterruptsProofs --------------------------
(***************************************************************************)
(* The controllers and the unfinished handlers agree, for every number of  *)
(* terminals, when no PCB is counted before the first process              *)
(* (BootWakes = FALSE).                                                    *)
(*                                                                         *)
(* Behind it is what the stacks of handlers can look like: at most one     *)
(* RTC_irq anywhere, at the bottom of its context's stack (clk, at), and   *)
(* above it, in the context that runs and with interrupts disabled, at     *)
(* most one handler of the timer or the keyboard (brief), which ends       *)
(* before anything else happens.  The in-service bits follow from these    *)
(* three, and the context of entry, which is never resumed, holds no       *)
(* RTC_irq once it has lost the CPU.                                       *)
(***************************************************************************)
EXTENDS Interrupts, FiniteSetTheorems, SequenceTheorems, TLAPS

NoLine == -1
Absent == "none"

StartOf(l) == [irq |-> l, at |-> "start"]
ClockRec(at) == [irq |-> Clock, at |-> at]

StackOf(at, brief) ==
  IF at = Absent
  THEN IF brief = NoLine THEN <<>> ELSE <<StartOf(brief)>>
  ELSE IF brief = NoLine THEN <<ClockRec(at)>> ELSE <<ClockRec(at), StartOf(brief)>>

StacksAre(clk, at, brief) ==
  stack = [c \in Contexts |->
             StackOf(IF c = clk THEN at ELSE Absent, IF c = turn THEN brief ELSE NoLine)]

ServiceAgrees(at, brief) ==
  /\ Timer \in serving <=> brief = Timer
  /\ Keyboard \in serving <=> brief = Keyboard
  /\ Cascade \in serving <=> at # Absent
  /\ Clock \in serving <=> at \in {"start", "slave"}

Agree(clk, at, brief) ==
  /\ StacksAre(clk, at, brief)
  /\ ServiceAgrees(at, brief)
  /\ brief # NoLine => ~iflag
  /\ clk = Boot /\ at # Absent => turn = Boot /\ ~iflag /\ brief = NoLine
  /\ stage <= Len(InitOrder) => turn = Boot /\ ~iflag /\ at = Absent /\ brief = NoLine
  /\ regC => Clock \in pending \/ at = "start"

VarsTyped ==
  /\ stage \in 0..(Len(InitOrder) + 1)
  /\ enabled \subseteq Devices \cup {Cascade}
  /\ pending \subseteq Devices
  /\ serving \subseteq Devices \cup {Cascade}
  /\ regC \in BOOLEAN /\ iflag \in BOOLEAN
  /\ turn \in Contexts

Places == {Absent, "start", "slave", "master"}
Briefs == {NoLine, Timer, Keyboard}

IInv ==
  /\ VarsTyped
  /\ \E clk \in Contexts, at \in Places, brief \in Briefs : Agree(clk, at, brief)

-----------------------------------------------------------------------------

(***************************************************************************)
(* The four shapes of a stack: its end, what is under it, and the next.    *)
(***************************************************************************)
LEMMA LinesDiffer ==
  /\ Timer # Keyboard /\ Timer # Cascade /\ Timer # Clock
  /\ Keyboard # Cascade /\ Keyboard # Clock /\ Cascade # Clock
  /\ NoLine \notin Devices /\ NoLine # Timer /\ NoLine # Keyboard /\ NoLine # Clock
BY DEF Timer, Keyboard, Cascade, Clock, NoLine, Devices

LEMMA One ==
  ASSUME NEW a
  PROVE  /\ <<a>> # <<>> /\ Last(<<a>>) = a /\ Front(<<a>>) = <<>>
         /\ Append(<<>>, a) = <<a>>
BY DEF Last, Front

LEMMA Two ==
  ASSUME NEW a, NEW b
  PROVE  /\ <<a, b>> # <<>> /\ Last(<<a, b>>) = b /\ Front(<<a, b>>) = <<a>>
         /\ Append(<<a>>, b) = <<a, b>>
<1>. DEFINE s == <<a, b>>
            f == SubSeq(s, 1, 1)
<1>1. s \in Seq({a, b}) /\ Len(s) = 2 /\ s[1] = a /\ s[2] = b
  OBVIOUS
<1>2. f \in Seq({a, b}) /\ Len(f) = 1 /\ f[1] = a
  <2>. HIDE DEF s
  <2>1. QED
    BY <1>1
<1>3. f = <<a>>
  <2>. HIDE DEF f
  <2>1. QED
    BY <1>2
<1>4. Front(s) = <<a>>
  <2>. HIDE DEF s
  <2>1. QED
    BY <1>1, <1>3 DEF Front
<1>5. Last(s) = b
  BY DEF Last
<1>6. s # <<>>
  OBVIOUS
<1>7. Append(<<a>>, b) = s
  <2>. DEFINE g == Append(<<a>>, b)
  <2>1. g \in Seq({a, b}) /\ Len(g) = 2 /\ g[1] = a /\ g[2] = b
    OBVIOUS
  <2>. HIDE DEF g, s
  <2>2. \A i \in 1..2 : i = 1 \/ i = 2
    OBVIOUS
  <2>3. \A i \in 1..Len(g) : g[i] = s[i]
    BY <1>1, <2>1, <2>2
  <2>4. QED
    BY <1>1, <2>1, <2>3, SeqEqual DEF g
<1>8. QED
  BY <1>4, <1>5, <1>6, <1>7

LEMMA BriefOnTop ==
  ASSUME NEW at, NEW l, l # NoLine
  PROVE  /\ StackOf(at, l) # <<>>
         /\ Last(StackOf(at, l)) = StartOf(l)
         /\ Front(StackOf(at, l)) = StackOf(at, NoLine)
         /\ Append(StackOf(at, NoLine), StartOf(l)) = StackOf(at, l)
BY One, Two DEF StackOf

LEMMA ClockOnTop ==
  ASSUME NEW at, at # Absent
  PROVE  /\ StackOf(at, NoLine) # <<>>
         /\ Last(StackOf(at, NoLine)) = ClockRec(at)
         /\ Front(StackOf(at, NoLine)) = <<>>
         /\ Append(StackOf(Absent, NoLine), ClockRec(at)) = StackOf(at, NoLine)
BY One DEF StackOf

LEMMA NoneOnTop == StackOf(Absent, NoLine) = <<>>
BY DEF StackOf

LEMMA ClockGoes ==
  ASSUME NEW at, at # Absent, NEW place, place # Absent
  PROVE  LET s == StackOf(at, NoLine)
         IN Front(s) \o <<[Last(s) EXCEPT !.at = place]>> = StackOf(place, NoLine)
<1>1. [ClockRec(at) EXCEPT !.at = place] = ClockRec(place)
  BY DEF ClockRec
<1>2. <<>> \o <<ClockRec(place)>> = <<ClockRec(place)>>
  OBVIOUS
<1>3. StackOf(place, NoLine) = <<ClockRec(place)>>
  BY DEF StackOf
<1>4. QED
  BY <1>1, <1>2, <1>3, ClockOnTop

(***************************************************************************)
(* What the handler that goes on tells about the stacks.                   *)
(***************************************************************************)
LEMMA Running ==
  ASSUME NEW clk \in Contexts, NEW at \in Places, NEW brief \in Briefs,
         StacksAre(clk, at, brief), turn \in Contexts
  PROVE  /\ stack[turn] = StackOf(IF turn = clk THEN at ELSE Absent, brief)
         /\ \A l \in {Timer, Keyboard} : At(l, "start") => brief = l
         /\ \A place : At(Clock, place) => clk = turn /\ at = place /\ brief = NoLine
         /\ stack[turn] = <<>> => brief = NoLine /\ ~ (turn = clk /\ at # Absent)
<1>. DEFINE a == IF turn = clk THEN at ELSE Absent
            s == StackOf(a, brief)
<1>1. stack[turn] = s
  BY DEF StacksAre
<1>2. CASE brief # NoLine
  <2>1. Last(s) = StartOf(brief) /\ s # <<>>
    BY <1>2, BriefOnTop
  <2>2. QED
    BY <1>1, <1>2, <2>1, LinesDiffer DEF At, StartOf, Briefs
<1>3. CASE brief = NoLine /\ a # Absent
  <2>1. Last(s) = ClockRec(at) /\ s # <<>> /\ turn = clk /\ a = at
    BY <1>3, ClockOnTop
  <2>2. QED
    BY <1>1, <1>3, <2>1, LinesDiffer DEF At, ClockRec
<1>4. CASE brief = NoLine /\ a = Absent
  <2>1. s = <<>>
    BY <1>4, NoneOnTop
  <2>2. QED
    BY <1>1, <1>4, <2>1 DEF At
<1>5. QED
  BY <1>2, <1>3, <1>4

LEMMA TurnsType ==
  /\ Boot \in Contexts
  /\ \A c \in Terminals : c \in Contexts /\ c # Boot
  /\ turn \in Contexts => TimerContext \in Terminals
<1>1. \A c \in Terminals : c # Boot
  BY TerminalsAssumption DEF Terminals, Boot
<1>2. ASSUME turn \in Contexts
      PROVE  TimerContext \in Terminals
  <2>1. (IF turn = Boot THEN 1 ELSE turn + 1) \in Nat
    BY <1>2, TerminalsAssumption DEF Contexts, Terminals
  <2>. DEFINE n == IF turn = Boot THEN 1 ELSE turn + 1
  <2>. HIDE DEF n
  <2>2. n \in Nat => n % NumTerminals \in 0..(NumTerminals - 1)
    BY TerminalsAssumption
  <2>3. QED
    BY <2>1, <2>2 DEF TimerContext, Terminals, n
<1>3. QED
  BY <1>1, <1>2 DEF Contexts

-----------------------------------------------------------------------------

(***************************************************************************)
(* A step that changes the stack of the running context only.              *)
(***************************************************************************)
ClockIn(c, clk, at) == IF c = clk THEN at ELSE Absent

LEMMA StackChanges ==
  ASSUME NEW clk \in Contexts, NEW at, NEW brief, StacksAre(clk, at, brief),
         turn \in Contexts,
         NEW clk2 \in Contexts, NEW at2, NEW brief2,
         turn' = turn \/ brief2 = NoLine,
         stack' = [stack EXCEPT ![turn] = StackOf(ClockIn(turn, clk2, at2), brief2)],
         \A c \in Contexts : c # turn => ClockIn(c, clk2, at2) = ClockIn(c, clk, at)
  PROVE  StacksAre(clk2, at2, brief2)'
<1>. DEFINE new(c) == StackOf(ClockIn(c, clk2, at2), IF c = turn' THEN brief2 ELSE NoLine)
<1>1. stack = [c \in Contexts |->
                 StackOf(ClockIn(c, clk, at), IF c = turn THEN brief ELSE NoLine)]
  BY DEF StacksAre, ClockIn
<1>2. \A c \in Contexts : stack'[c] = new(c)
  <2>1. ASSUME NEW c \in Contexts, c # turn
        PROVE  stack'[c] = new(c)
    <3>1. stack'[c] = StackOf(ClockIn(c, clk, at), NoLine)
      BY <1>1, <2>1
    <3>2. (IF c = turn' THEN brief2 ELSE NoLine) = NoLine
      BY <2>1
    <3>3. QED
      BY <2>1, <3>1, <3>2
  <2>2. stack'[turn] = new(turn)
    BY <1>1
  <2>3. QED
    BY <2>1, <2>2
<1>3. stack' = [c \in Contexts |-> new(c)]
  <2>1. stack' = [c \in Contexts |-> stack'[c]]
    BY <1>1
  <2>. HIDE DEF new
  <2>2. QED
    BY <1>2, <2>1
<1>4. QED
  BY <1>3 DEF StacksAre, ClockIn

LEMMA StackSame ==
  ASSUME NEW clk, NEW at, NEW brief, StacksAre(clk, at, brief),
         UNCHANGED <<stack, turn>>
  PROVE  StacksAre(clk, at, brief)'
BY DEF StacksAre

(***************************************************************************)
(* Boot, and initialisation.                                               *)
(***************************************************************************)
LEMMA InterruptsInit ==
  ASSUME Init
  PROVE  IInv
<1>1. VarsTyped
  <2>1. Len(InitOrder) = 4
    BY DEF InitOrder
  <2>2. stage \in 0..(Len(InitOrder) + 1)
    BY <2>1 DEF Init
  <2>3. enabled \subseteq Devices \cup {Cascade} /\ pending \subseteq Devices
        /\ serving \subseteq Devices \cup {Cascade}
    BY DEF Init
  <2>4. regC \in BOOLEAN /\ iflag \in BOOLEAN /\ turn \in Contexts
    BY TurnsType DEF Init
  <2>5. QED
    BY <2>2, <2>3, <2>4 DEF VarsTyped
<1>2. StacksAre(Boot, Absent, NoLine)
  BY NoneOnTop DEF Init, StacksAre
<1>3. Agree(Boot, Absent, NoLine)
  BY <1>2, LinesDiffer DEF Init, Agree, ServiceAgrees, Absent
<1>4. QED
  BY <1>1, <1>3, TurnsType DEF IInv, Places, Briefs

LEMMA BootStepInv ==
  ASSUME NEW clk \in Contexts, NEW at \in Places, NEW brief \in Briefs,
         VarsTyped, Agree(clk, at, brief), BootStep
  PROVE  IInv'
<1>1. Len(InitOrder) = 4 /\ \A i \in 1..4 : InitOrder[i] \in Devices \cup {Cascade}
  BY DEF InitOrder, Devices
<1>2. stage' \in 1..4 /\ enabled' \subseteq Devices \cup {Cascade}
  BY <1>1 DEF BootStep, VarsTyped
<1>3. VarsTyped'
  BY <1>1, <1>2 DEF BootStep, VarsTyped
<1>4. Agree(clk, at, brief)'
  BY <1>1, StackSame DEF BootStep, VarsTyped, Agree, ServiceAgrees
<1>5. QED
  BY <1>3, <1>4 DEF IInv

LEMMA BootDoneInv ==
  ASSUME NEW clk \in Contexts, NEW at \in Places, NEW brief \in Briefs,
         VarsTyped, Agree(clk, at, brief), BootDone
  PROVE  IInv'
<1>1. Len(InitOrder) = 4
  BY DEF InitOrder
<1>2. VarsTyped'
  BY <1>1 DEF BootDone, VarsTyped
<1>3. Agree(clk, at, brief)'
  BY <1>1, StackSame DEF BootDone, VarsTyped, Agree, ServiceAgrees
<1>4. QED
  BY <1>2, <1>3 DEF IInv

LEMMA RaiseInv ==
  ASSUME NEW clk \in Contexts, NEW at \in Places, NEW brief \in Briefs,
         VarsTyped, Agree(clk, at, brief), NEW l \in Devices, Raise(l)
  PROVE  IInv'
<1>1. VarsTyped'
  BY DEF Raise, VarsTyped
<1>2. Agree(clk, at, brief)'
  BY StackSame DEF Raise, Agree, ServiceAgrees
<1>3. QED
  BY <1>1, <1>2 DEF IInv

(***************************************************************************)
(* An interrupt is taken only where interrupts are enabled: on top of a    *)
(* program or of RTC_irq.  The clock waits until no RTC_irq is left, for   *)
(* the line of the slave stays in service on the master until its end.     *)
(***************************************************************************)
LEMMA DeliverInv ==
  ASSUME NEW clk \in Contexts, NEW at \in Places, NEW brief \in Briefs,
         VarsTyped, Agree(clk, at, brief), NEW l \in Devices, Deliver(l)
  PROVE  IInv'
<1>1. /\ iflag /\ brief = NoLine /\ turn \in Contexts
      /\ ~ (stage <= Len(InitOrder)) /\ ~ (clk = Boot /\ at # Absent)
      /\ stack' = [stack EXCEPT ![turn] = Append(@, StartOf(l))]
      /\ serving' = serving \cup {l, MasterLine(l)}
      /\ pending' = pending \ {l} /\ iflag' = FALSE
      /\ UNCHANGED <<stage, enabled, regC, turn>>
  BY DEF Deliver, Agree, VarsTyped, StartOf, InitOrder
<1>2. stack[turn] = StackOf(ClockIn(turn, clk, at), NoLine)
  BY <1>1 DEF Agree, StacksAre, ClockIn
<1>3. CASE l \in {Timer, Keyboard}
  <2>1. MasterLine(l) = l
    BY <1>3 DEF MasterLine, OnSlave, Timer, Keyboard
  <2>2. VarsTyped'
    BY <1>1, <2>1 DEF VarsTyped
  <2>3. StacksAre(clk, at, l)'
    <3>1. Append(stack[turn], StartOf(l)) = StackOf(ClockIn(turn, clk, at), l)
      BY <1>2, <1>3, BriefOnTop, LinesDiffer
    <3>2. QED
      BY <1>1, <3>1, StackChanges DEF Agree
  <2>4. ServiceAgrees(at, l)'
    BY <1>1, <1>3, <2>1, LinesDiffer DEF Agree, ServiceAgrees
  <2>5. Agree(clk, at, l)'
    BY <1>1, <1>3, <2>3, <2>4, LinesDiffer DEF Agree
  <2>6. QED
    BY <1>3, <2>2, <2>5 DEF IInv, Briefs
<1>4. CASE l = Clock
  <2>1. MasterLine(l) = Cascade /\ ~ OnSlave(Cascade)
    BY <1>4 DEF MasterLine, OnSlave, Clock, Cascade
  <2>2. at = Absent
    <3>1. \A s \in serving : OnSlave(s) \/ MasterLine(l) < s
      BY DEF Deliver, Chosen, Requests
    <3>2. Cascade \notin serving
      BY <2>1, <3>1 DEF Cascade
    <3>3. QED
      BY <3>2 DEF Agree, ServiceAgrees
  <2>3. VarsTyped'
    BY <1>1, <2>1 DEF VarsTyped
  <2>4. StacksAre(turn, "start", NoLine)'
    <3>1. Append(stack[turn], StartOf(l)) = StackOf("start", NoLine)
      BY <1>2, <1>4, <2>2, ClockOnTop DEF ClockIn, StartOf, ClockRec, Absent
    <3>. DEFINE u == turn
    <3>2. /\ u = turn /\ u \in Contexts /\ turn' = turn
          /\ stack' = [stack EXCEPT ![turn] = StackOf(ClockIn(turn, u, "start"), NoLine)]
          /\ \A c \in Contexts : c # turn => ClockIn(c, u, "start") = ClockIn(c, clk, at)
      BY <1>1, <2>2, <3>1 DEF ClockIn
    <3>3. StacksAre(clk, at, brief)
      BY DEF Agree
    <3>4. \A v \in Contexts : v = turn => StacksAre(v, "start", NoLine)'
      BY <3>2, <3>3, StackChanges
    <3>5. QED
      BY <1>1, <3>4
  <2>5. ServiceAgrees("start", NoLine)'
    BY <1>1, <1>4, <2>1, <2>2, LinesDiffer DEF Agree, ServiceAgrees, Absent
  <2>6. Agree(turn, "start", NoLine)'
    BY <1>1, <2>4, <2>5 DEF Agree
  <2>7. QED
    BY <1>1, <2>3, <2>6 DEF IInv, Places, Briefs
<1>5. QED
  BY <1>3, <1>4 DEF Devices

-----------------------------------------------------------------------------

(***************************************************************************)
(* The brief handlers: each was on top, and takes its line out of service. *)
(***************************************************************************)
LEMMA PitIrqInv ==
  ASSUME NEW clk \in Contexts, NEW at \in Places, NEW brief \in Briefs,
         VarsTyped, Agree(clk, at, brief), PitIrq
  PROVE  IInv'
<1>1. turn \in Contexts /\ StacksAre(clk, at, brief)
  BY DEF VarsTyped, Agree
<1>2. brief = Timer /\ stack[turn] = StackOf(ClockIn(turn, clk, at), Timer)
  BY <1>1, Running DEF PitIrq, ClockIn
<1>3. ~ (stage <= Len(InitOrder)) /\ ~ (clk = Boot /\ at # Absent)
  BY <1>2, LinesDiffer DEF Agree, VarsTyped, InitOrder
<1>4. turn' \in Terminals /\ turn' \in Contexts /\ turn' # Boot
  BY <1>1, TurnsType DEF PitIrq
<1>5. VarsTyped'
  BY <1>4 DEF PitIrq, VarsTyped, Acknowledged
<1>6. StacksAre(clk, at, NoLine)'
  <2>1. stack' = [stack EXCEPT ![turn] = StackOf(ClockIn(turn, clk, at), NoLine)]
    BY <1>2, BriefOnTop, LinesDiffer DEF PitIrq, Left
  <2>2. QED
    BY <1>1, <2>1, StackChanges
<1>7. ServiceAgrees(at, NoLine)'
  BY <1>2, LinesDiffer DEF PitIrq, Acknowledged, Agree, ServiceAgrees
<1>8. Agree(clk, at, NoLine)'
  BY <1>3, <1>6, <1>7 DEF PitIrq, Agree
<1>9. QED
  BY <1>5, <1>8 DEF IInv, Briefs

LEMMA KeyboardIrqInv ==
  ASSUME NEW clk \in Contexts, NEW at \in Places, NEW brief \in Briefs,
         VarsTyped, Agree(clk, at, brief), KeyboardIrq
  PROVE  IInv'
<1>1. turn \in Contexts /\ StacksAre(clk, at, brief)
  BY DEF VarsTyped, Agree
<1>2. brief = Keyboard /\ stack[turn] = StackOf(ClockIn(turn, clk, at), Keyboard)
  BY <1>1, Running DEF KeyboardIrq, ClockIn
<1>3. ~ (stage <= Len(InitOrder)) /\ ~ (clk = Boot /\ at # Absent)
  BY <1>2, LinesDiffer DEF Agree, VarsTyped, InitOrder
<1>4. VarsTyped'
  BY DEF KeyboardIrq, VarsTyped, Acknowledged
<1>5. StacksAre(clk, at, NoLine)'
  <2>1. stack' = [stack EXCEPT ![turn] = StackOf(ClockIn(turn, clk, at), NoLine)]
    BY <1>2, BriefOnTop, LinesDiffer DEF KeyboardIrq, Left
  <2>2. QED
    BY <1>1, <2>1, StackChanges
<1>6. ServiceAgrees(at, NoLine)'
  BY <1>2, LinesDiffer DEF KeyboardIrq, Acknowledged, Agree, ServiceAgrees
<1>7. Agree(clk, at, NoLine)'
  BY <1>3, <1>5, <1>6 DEF KeyboardIrq, Agree
<1>8. QED
  BY <1>4, <1>7 DEF IInv, Briefs

(***************************************************************************)
(* RTC_irq.  It enables interrupts only where it can be resumed.           *)
(***************************************************************************)
LEMMA RtcWakesInv ==
  ASSUME ~ BootWakes,
         NEW clk \in Contexts, NEW at \in Places, NEW brief \in Briefs,
         VarsTyped, Agree(clk, at, brief), RtcWakes
  PROVE  IInv'
<1>1. clk = turn /\ at = "start" /\ brief = NoLine /\ turn # Boot
  BY Running DEF RtcWakes, VarsTyped, Agree
<1>2. ~ (stage <= Len(InitOrder))
  BY <1>1 DEF Agree, VarsTyped, InitOrder
<1>3. VarsTyped'
  BY DEF RtcWakes, VarsTyped
<1>4. Agree(clk, at, brief)'
  BY <1>1, <1>2, StackSame DEF RtcWakes, Agree, ServiceAgrees
<1>5. QED
  BY <1>3, <1>4 DEF IInv

LEMMA ClockMoves ==
  ASSUME NEW clk \in Contexts, NEW at \in Places, NEW brief \in Briefs,
         VarsTyped, Agree(clk, at, brief), NEW from, At(Clock, from), from # Absent,
         NEW place \in {"slave", "master"}, Go(place), UNCHANGED turn
  PROVE  /\ clk = turn /\ at = from /\ brief = NoLine
         /\ StacksAre(clk, place, NoLine)'
<1>1. turn \in Contexts /\ StacksAre(clk, at, brief)
  BY DEF VarsTyped, Agree
<1>2. /\ clk = turn /\ at = from /\ brief = NoLine
      /\ stack[turn] = StackOf(at, NoLine)
  BY <1>1, Running
<1>3. place # Absent
  BY DEF Absent
<1>4. stack' = [stack EXCEPT ![turn] = StackOf(ClockIn(turn, clk, place), NoLine)]
  BY <1>2, <1>3, ClockGoes DEF Go, ClockIn
<1>5. \A c \in Contexts : c # turn => ClockIn(c, clk, place) = ClockIn(c, clk, at)
  BY <1>2 DEF ClockIn
<1>6. QED
  BY <1>1, <1>2, <1>4, <1>5, StackChanges

LEMMA RtcReadsInv ==
  ASSUME NEW clk \in Contexts, NEW at \in Places, NEW brief \in Briefs,
         VarsTyped, Agree(clk, at, brief), RtcReads
  PROVE  IInv'
<1>1. /\ clk = turn /\ at = "start" /\ brief = NoLine
      /\ StacksAre(clk, "slave", NoLine)'
  BY ClockMoves DEF RtcReads, Absent
<1>2. VarsTyped'
  BY DEF RtcReads, RegCRead, VarsTyped
<1>3. Agree(clk, "slave", NoLine)'
  BY <1>1 DEF RtcReads, RegCRead, Agree, ServiceAgrees, Absent
<1>4. QED
  BY <1>2, <1>3 DEF IInv, Places, Briefs

LEMMA RtcEoiSlaveInv ==
  ASSUME NEW clk \in Contexts, NEW at \in Places, NEW brief \in Briefs,
         VarsTyped, Agree(clk, at, brief), RtcEoiSlave
  PROVE  IInv'
<1>1. /\ clk = turn /\ at = "slave" /\ brief = NoLine
      /\ StacksAre(clk, "master", NoLine)'
  BY ClockMoves DEF RtcEoiSlave, Absent
<1>2. VarsTyped'
  BY DEF RtcEoiSlave, Acknowledged, VarsTyped
<1>3. ServiceAgrees("master", NoLine)'
  BY <1>1, LinesDiffer DEF RtcEoiSlave, Acknowledged, Agree, ServiceAgrees, Absent
<1>4. Agree(clk, "master", NoLine)'
  BY <1>1, <1>3 DEF RtcEoiSlave, Agree, Absent
<1>5. QED
  BY <1>2, <1>4 DEF IInv, Places, Briefs

LEMMA RtcEoiMasterInv ==
  ASSUME NEW clk \in Contexts, NEW at \in Places, NEW brief \in Briefs,
         VarsTyped, Agree(clk, at, brief), RtcEoiMaster
  PROVE  IInv'
<1>1. turn \in Contexts /\ StacksAre(clk, at, brief)
  BY DEF VarsTyped, Agree
<1>2. /\ clk = turn /\ at = "master" /\ brief = NoLine
      /\ stack[turn] = StackOf(at, NoLine)
  BY <1>1, Running DEF RtcEoiMaster
<1>3. ~ (stage <= Len(InitOrder))
  BY <1>2 DEF Agree, VarsTyped, InitOrder, Absent
<1>4. VarsTyped'
  BY DEF RtcEoiMaster, Acknowledged, VarsTyped
<1>5. StacksAre(clk, Absent, NoLine)'
  <2>1. stack' = [stack EXCEPT ![turn] = StackOf(ClockIn(turn, clk, Absent), NoLine)]
    <3>1. at # Absent
      BY <1>2 DEF Absent
    <3>2. Front(stack[turn]) = StackOf(Absent, NoLine)
      BY <1>2, <3>1, ClockOnTop, NoneOnTop
    <3>3. ClockIn(turn, clk, Absent) = Absent
      BY DEF ClockIn
    <3>4. QED
      BY <3>2, <3>3 DEF RtcEoiMaster, Left
  <2>2. \A c \in Contexts : c # turn => ClockIn(c, clk, Absent) = ClockIn(c, clk, at)
    BY <1>2 DEF ClockIn
  <2>3. QED
    BY <1>1, <2>1, <2>2, StackChanges
<1>6. ServiceAgrees(Absent, NoLine)'
  BY <1>2, LinesDiffer DEF RtcEoiMaster, Acknowledged, Agree, ServiceAgrees, Absent
<1>7. Agree(clk, Absent, NoLine)'
  BY <1>2, <1>3, <1>6, <1>5 DEF RtcEoiMaster, Agree, Absent
<1>8. QED
  BY <1>4, <1>7 DEF IInv, Places, Briefs

(***************************************************************************)
(* Programs that disable and enable interrupts.                            *)
(***************************************************************************)
LEMMA CliStiInv ==
  ASSUME NEW clk \in Contexts, NEW at \in Places, NEW brief \in Briefs,
         VarsTyped, Agree(clk, at, brief), Cli \/ Sti
  PROVE  IInv'
<1>1. turn # Boot /\ brief = NoLine
  BY Running DEF Cli, Sti, InProgram, VarsTyped, Agree
<1>2. ~ (stage <= Len(InitOrder)) /\ ~ (clk = Boot /\ at # Absent)
  BY <1>1 DEF Agree, VarsTyped, InitOrder
<1>3. VarsTyped'
  BY DEF Cli, Sti, VarsTyped
<1>4. Agree(clk, at, brief)'
  BY <1>1, <1>2, StackSame DEF Cli, Sti, Agree, ServiceAgrees
<1>5. QED
  BY <1>3, <1>4 DEF IInv

LEMMA InterruptsStutter ==
  ASSUME NEW clk \in Contexts, NEW at \in Places, NEW brief \in Briefs,
         VarsTyped, Agree(clk, at, brief), UNCHANGED vars
  PROVE  IInv'
<1>1. VarsTyped'
  BY DEF vars, VarsTyped
<1>2. Agree(clk, at, brief)'
  BY StackSame DEF vars, Agree, ServiceAgrees
<1>3. QED
  BY <1>1, <1>2 DEF IInv

(***************************************************************************)
(* In every reachable state the unfinished handlers have that shape, and   *)
(* the in-service bits of the controllers follow from it.                  *)
(***************************************************************************)
THEOREM InterruptsInvariance ==
  ASSUME ~BootWakes
  PROVE  Spec => []IInv
<1>1. Init => IInv
  BY InterruptsInit
<1>2. IInv /\ [Next]_vars => IInv'
  <2>. SUFFICES ASSUME IInv, [Next]_vars
                PROVE  IInv'
    OBVIOUS
  <2>. PICK clk \in Contexts, at \in Places, brief \in Briefs : Agree(clk, at, brief)
    BY DEF IInv
  <2>. VarsTyped
    BY DEF IInv
  <2>1. CASE BootStep
    BY <2>1, BootStepInv
  <2>2. CASE BootDone
    BY <2>2, BootDoneInv
  <2>3. CASE \E l \in Devices : Raise(l)
    BY <2>3, RaiseInv
  <2>4. CASE \E l \in Devices : Deliver(l)
    BY <2>4, DeliverInv
  <2>5. CASE Handlers
    <3>1. CASE PitIrq
      BY <3>1, PitIrqInv
    <3>2. CASE KeyboardIrq
      BY <3>2, KeyboardIrqInv
    <3>3. CASE RtcWakes
      BY <3>3, RtcWakesInv
    <3>4. CASE RtcReads
      BY <3>4, RtcReadsInv
    <3>5. CASE RtcEoiSlave
      BY <3>5, RtcEoiSlaveInv
    <3>6. CASE RtcEoiMaster
      BY <3>6, RtcEoiMasterInv
    <3>7. QED
      BY <2>5, <3>1, <3>2, <3>3, <3>4, <3>5, <3>6 DEF Handlers
  <2>6. CASE Cli \/ Sti
    BY <2>6, CliStiInv
  <2>7. CASE UNCHANGED vars
    BY <2>7, InterruptsStutter
  <2>8. QED
    BY <2>1, <2>2, <2>3, <2>4, <2>5, <2>6, <2>7 DEF Next
<1>3. QED
  BY <1>1, <1>2, PTL DEF Spec

-----------------------------------------------------------------------------

(***************************************************************************)
(* What a stack of that shape holds, place by place.                       *)
(***************************************************************************)
LEMMA Held1 ==
  ASSUME NEW at, NEW brief
  PROVE  LET s == StackOf(at, brief)
         IN /\ Len(s) = (IF at = Absent THEN 0 ELSE 1) + (IF brief = NoLine THEN 0 ELSE 1)
            /\ at # Absent => s[1] = ClockRec(at)
            /\ brief # NoLine => s[Len(s)] = StartOf(brief)
<1>1. CASE at = Absent /\ brief = NoLine
  BY <1>1 DEF StackOf
<1>2. CASE at = Absent /\ brief # NoLine
  <2>. DEFINE b == StartOf(brief)
  <2>1. StackOf(at, brief) = <<b>>
    BY <1>2 DEF StackOf
  <2>. HIDE DEF b
  <2>2. Len(<<b>>) = 1 /\ <<b>>[1] = b
    OBVIOUS
  <2>3. QED
    BY <1>2, <2>1, <2>2 DEF b
<1>3. CASE at # Absent /\ brief = NoLine
  <2>. DEFINE a == ClockRec(at)
  <2>1. StackOf(at, brief) = <<a>>
    BY <1>3 DEF StackOf
  <2>. HIDE DEF a
  <2>2. Len(<<a>>) = 1 /\ <<a>>[1] = a
    OBVIOUS
  <2>3. QED
    BY <1>3, <2>1, <2>2 DEF a
<1>4. CASE at # Absent /\ brief # NoLine
  <2>. DEFINE a == ClockRec(at)
              b == StartOf(brief)
  <2>1. StackOf(at, brief) = <<a, b>>
    BY <1>4 DEF StackOf
  <2>. HIDE DEF a, b
  <2>2. Len(<<a, b>>) = 2 /\ <<a, b>>[1] = a /\ <<a, b>>[2] = b
    OBVIOUS
  <2>3. QED
    BY <1>4, <2>1, <2>2 DEF a, b
<1>5. QED
  BY <1>1, <1>2, <1>3, <1>4

LEMMA StacksHold ==
  ASSUME NEW clk \in Contexts, NEW at \in Places, NEW brief \in Briefs,
         turn \in Contexts, StacksAre(clk, at, brief)
  PROVE  /\ \A c \in Contexts : Len(stack[c]) \in 0..2
         /\ at # Absent => 1 <= Len(stack[clk]) /\ stack[clk][1] = ClockRec(at)
         /\ brief # NoLine => /\ Len(stack[turn]) \in 1..2
                              /\ stack[turn][Len(stack[turn])] = StartOf(brief)
         /\ \A c \in Contexts, i \in 1..2 : i <= Len(stack[c]) =>
              \/ /\ c = clk /\ i = 1 /\ at # Absent
                 /\ stack[c][i] = ClockRec(at)
              \/ /\ c = turn /\ i = Len(stack[c]) /\ brief # NoLine
                 /\ stack[c][i] = StartOf(brief)
<1>. DEFINE a(c) == IF c = clk THEN at ELSE Absent
            b(c) == IF c = turn THEN brief ELSE NoLine
<1>1. \A c \in Contexts : stack[c] = StackOf(a(c), b(c))
  BY DEF StacksAre
<1>2. \A c \in Contexts :
        /\ Len(stack[c]) = (IF a(c) = Absent THEN 0 ELSE 1) + (IF b(c) = NoLine THEN 0 ELSE 1)
        /\ a(c) # Absent => stack[c][1] = ClockRec(a(c))
        /\ b(c) # NoLine => stack[c][Len(stack[c])] = StartOf(b(c))
  <2>. HIDE DEF a, b
  <2>1. QED
    BY <1>1, Held1
<1>3. \A c \in Contexts : /\ a(c) # Absent => c = clk /\ a(c) = at
                          /\ b(c) # NoLine => c = turn /\ b(c) = brief
  OBVIOUS
<1>4. a(clk) = at /\ b(turn) = brief
  OBVIOUS
<1>. HIDE DEF a, b
<1>5. ASSUME NEW c \in Contexts
      PROVE  Len(stack[c]) \in 0..2
  <2>1. Len(stack[c]) = (IF a(c) = Absent THEN 0 ELSE 1) + (IF b(c) = NoLine THEN 0 ELSE 1)
    BY <1>2
  <2>2. QED
    BY <2>1
<1>6. at # Absent => 1 <= Len(stack[clk]) /\ stack[clk][1] = ClockRec(at)
  BY <1>2, <1>4
<1>7. brief # NoLine => /\ Len(stack[turn]) \in 1..2
                        /\ stack[turn][Len(stack[turn])] = StartOf(brief)
  <2>1. Len(stack[turn]) = (IF a(turn) = Absent THEN 0 ELSE 1)
                           + (IF b(turn) = NoLine THEN 0 ELSE 1)
    BY <1>2
  <2>2. brief # NoLine => Len(stack[turn]) \in 1..2
    BY <1>4, <2>1
  <2>3. brief # NoLine => stack[turn][Len(stack[turn])] = StartOf(brief)
    BY <1>2, <1>4
  <2>4. QED
    BY <2>2, <2>3
<1>8. ASSUME NEW c \in Contexts, NEW i \in 1..2, i <= Len(stack[c])
      PROVE  \/ /\ c = clk /\ i = 1 /\ at # Absent
                /\ stack[c][i] = ClockRec(at)
             \/ /\ c = turn /\ i = Len(stack[c]) /\ brief # NoLine
                /\ stack[c][i] = StartOf(brief)
  <2>1. \/ i = 1 /\ a(c) # Absent
        \/ i = Len(stack[c]) /\ b(c) # NoLine
    <3>1. PICK k \in 0..2 : k = Len(stack[c])
      BY <1>5
    <3>2. k = (IF a(c) = Absent THEN 0 ELSE 1) + (IF b(c) = NoLine THEN 0 ELSE 1)
      BY <1>2, <3>1
    <3>3. i <= k
      BY <1>8, <3>1
    <3>4. (i = 1 /\ a(c) # Absent) \/ (i = k /\ b(c) # NoLine)
      BY <3>2, <3>3
    <3>5. QED
      BY <3>1, <3>4
  <2>2. CASE i = 1 /\ a(c) # Absent
    BY <1>2, <1>3, <2>2
  <2>3. CASE i = Len(stack[c]) /\ b(c) # NoLine
    <3>1. PICK k \in 1..2 : k = i /\ k = Len(stack[c])
      BY <2>3
    <3>2. stack[c][k] = StartOf(b(c))
      BY <1>2, <2>3, <3>1
    <3>3. QED
      BY <1>3, <2>3, <3>1, <3>2
  <2>4. QED
    BY <2>1, <2>2, <2>3
<1>9. QED
  BY <1>5, <1>6, <1>7, <1>8

(***************************************************************************)
(* The handlers of a line: none, or the one the shape allows.              *)
(***************************************************************************)
LEMMA BriefHandlers ==
  ASSUME NEW clk \in Contexts, NEW at \in Places, NEW brief \in Briefs,
         turn \in Contexts, StacksAre(clk, at, brief), NEW l \in {Timer, Keyboard}
  PROVE  HandlersAt(l, {"start"}) =
           IF brief = l THEN {<<turn, Len(stack[turn])>>} ELSE {}
<1>1. \A x : ClockRec(x).irq = Clock
  BY DEF ClockRec
<1>2. StartOf(brief).irq = brief /\ StartOf(brief).at = "start"
  BY DEF StartOf
<1>3. ASSUME NEW c \in Contexts, NEW i \in 1..2
      PROVE  (/\ i <= Len(stack[c]) /\ stack[c][i].irq = l
              /\ stack[c][i].at \in {"start"})
             <=> (brief = l /\ c = turn /\ i = Len(stack[turn]))
  <2>1. PICK k \in 0..2 : k = Len(stack[c])
    BY StacksHold
  <2>2. l # Clock /\ l # NoLine
    BY LinesDiffer
  <2>3. i <= k => \/ stack[c][i].irq = Clock
                  \/ /\ c = turn /\ i = k /\ brief # NoLine
                     /\ stack[c][i] = StartOf(brief)
    BY <1>1, <2>1, StacksHold
  <2>4. brief = l /\ c = turn /\ i = k => stack[c][i] = StartOf(brief)
    BY <2>1, <2>2, StacksHold
  <2>5. QED
    BY <1>2, <2>1, <2>2, <2>3, <2>4
<1>4. ASSUME NEW h \in Contexts \X (1..2)
      PROVE  h \in HandlersAt(l, {"start"})
             <=> brief = l /\ h = <<turn, Len(stack[turn])>>
  <2>1. PICK c \in Contexts, i \in 1..2 : h = <<c, i>>
    OBVIOUS
  <2>2. h[1] = c /\ h[2] = i
    BY <2>1
  <2>3. h = <<turn, Len(stack[turn])>> <=> c = turn /\ i = Len(stack[turn])
    BY <2>1
  <2>4. h \in HandlersAt(l, {"start"})
        <=> (/\ i <= Len(stack[c]) /\ stack[c][i].irq = l
             /\ stack[c][i].at \in {"start"})
    BY <2>2 DEF HandlersAt
  <2>5. QED
    BY <1>3, <2>3, <2>4
<1>5. brief = l => <<turn, Len(stack[turn])>> \in Contexts \X (1..2)
  BY StacksHold, LinesDiffer
<1>6. HandlersAt(l, {"start"}) \subseteq Contexts \X (1..2)
  BY DEF HandlersAt
<1>7. QED
  BY <1>4, <1>5, <1>6

LEMMA ClockHandlers ==
  ASSUME NEW clk \in Contexts, NEW at \in Places, NEW brief \in Briefs,
         turn \in Contexts, StacksAre(clk, at, brief),
         NEW places, Absent \notin places
  PROVE  HandlersAt(Clock, places) = IF at \in places THEN {<<clk, 1>>} ELSE {}
<1>1. ClockRec(at).irq = Clock /\ ClockRec(at).at = at
  BY DEF ClockRec
<1>2. StartOf(brief).irq = brief
  BY DEF StartOf
<1>3. brief # Clock
  BY LinesDiffer DEF Briefs
<1>4. at \in places => at # Absent
  OBVIOUS
<1>5. ASSUME NEW c \in Contexts, NEW i \in 1..2
      PROVE  (/\ i <= Len(stack[c]) /\ stack[c][i].irq = Clock
              /\ stack[c][i].at \in places)
             <=> (at \in places /\ c = clk /\ i = 1)
  BY <1>1, <1>2, <1>3, <1>4, StacksHold
<1>6. \A h \in Contexts \X (1..2) :
        h \in HandlersAt(Clock, places) <=> at \in places /\ h = <<clk, 1>>
  BY <1>5 DEF HandlersAt
<1>7. <<clk, 1>> \in Contexts \X (1..2)
  OBVIOUS
<1>8. HandlersAt(Clock, places) \subseteq Contexts \X (1..2)
  BY DEF HandlersAt
<1>9. QED
  BY <1>6, <1>7, <1>8

-----------------------------------------------------------------------------

(***************************************************************************)
(* Type correctness; no context ever has more than two unfinished handlers *)
(* (interrupt.S:8-40 nests them on the kernel stack of the process).       *)
(***************************************************************************)
THEOREM HandlersTypeCorrect ==
  ASSUME ~BootWakes
  PROVE  Spec => []TypeOK
<1>1. IInv => TypeOK
  <2>. SUFFICES ASSUME IInv
                PROVE  TypeOK
    OBVIOUS
  <2>. PICK clk \in Contexts, at \in Places, brief \in Briefs : Agree(clk, at, brief)
    BY DEF IInv
  <2>1. VarsTyped /\ StacksAre(clk, at, brief)
    BY DEF IInv, Agree
  <2>2. ASSUME NEW c \in Contexts, NEW i \in 1..Len(stack[c])
        PROVE  stack[c][i] \in [irq : Devices, at : {"start", "slave", "master"}]
    <3>1. i \in 1..2 /\ i <= Len(stack[c])
      <4>1. PICK k \in 0..2 : k = Len(stack[c])
        BY <2>1, StacksHold DEF VarsTyped
      <4>2. i \in 1..k
        BY <4>1
      <4>3. i \in 1..2 /\ i <= k
        BY <4>2
      <4>4. QED
        BY <4>1, <4>3
    <3>2. \/ at # Absent /\ stack[c][i] = ClockRec(at)
          \/ brief # NoLine /\ stack[c][i] = StartOf(brief)
      BY <2>1, <3>1, StacksHold DEF VarsTyped
    <3>3. at # Absent =>
            ClockRec(at) \in [irq : Devices, at : {"start", "slave", "master"}]
      BY DEF ClockRec, Places, Devices
    <3>4. brief # NoLine =>
            StartOf(brief) \in [irq : Devices, at : {"start", "slave", "master"}]
      BY DEF StartOf, Briefs, Devices
    <3>5. QED
      BY <3>2, <3>3, <3>4
  <2>3. QED
    BY <2>1, <2>2, StacksHold DEF VarsTyped, TypeOK
<1>2. QED
  BY <1>1, InterruptsInvariance, PTL

(***************************************************************************)
(* "PIC will not handle another interrupt until then" (rtc.c:136), for     *)
(* every number of terminals: a line is in service exactly while one       *)
(* handler of it, in a context that will run again, has yet to acknowledge *)
(* it; so no line is silent for ever, and there is one RTC_irq at a time.  *)
(***************************************************************************)
THEOREM ServiceCorrect ==
  ASSUME ~BootWakes
  PROVE  Spec => []ServiceHeld
<1>1. IInv => ServiceHeld
  <2>. SUFFICES ASSUME IInv
                PROVE  ServiceHeld
    OBVIOUS
  <2>. PICK clk \in Contexts, at \in Places, brief \in Briefs : Agree(clk, at, brief)
    BY DEF IInv
  <2>1. turn \in Contexts /\ StacksAre(clk, at, brief) /\ ServiceAgrees(at, brief)
    BY DEF IInv, Agree, VarsTyped
  <2>2. Resumed(<<turn, Len(stack[turn])>>)
    BY DEF Resumed
  <2>3. at # Absent => Resumed(<<clk, 1>>)
    BY DEF Agree, Resumed
  <2>4. ASSUME NEW l \in {Timer, Keyboard}
        PROVE  Held(l, HandlersAt(l, {"start"}))
    <3>1. HandlersAt(l, {"start"}) =
            IF brief = l THEN {<<turn, Len(stack[turn])>>} ELSE {}
      BY <2>1, BriefHandlers
    <3>2. l \in serving <=> brief = l
      BY <2>1 DEF ServiceAgrees
    <3>3. QED
      BY <2>2, <3>1, <3>2, FS_EmptySet, FS_Singleton DEF Held
  <2>5. ASSUME NEW l, NEW places, Absent \notin places, l \in serving <=> at \in places
        PROVE  Held(l, HandlersAt(Clock, places))
    <3>1. HandlersAt(Clock, places) = IF at \in places THEN {<<clk, 1>>} ELSE {}
      BY <2>1, <2>5, ClockHandlers
    <3>2. at \in places => Resumed(<<clk, 1>>)
      BY <2>3, <2>5
    <3>3. QED
      BY <2>5, <3>1, <3>2, FS_EmptySet, FS_Singleton DEF Held
  <2>6. Held(Clock, HandlersAt(Clock, {"start", "slave"}))
    <3>1. Clock \in serving <=> at \in {"start", "slave"}
      BY <2>1 DEF ServiceAgrees
    <3>2. QED
      BY <2>5, <3>1 DEF Absent
  <2>7. Held(Cascade, HandlersAt(Clock, {"start", "slave", "master"}))
    <3>1. Cascade \in serving <=> at \in {"start", "slave", "master"}
      BY <2>1 DEF ServiceAgrees, Places, Absent
    <3>2. QED
      BY <2>5, <3>1 DEF Absent
  <2>8. QED
    BY <2>4, <2>6, <2>7 DEF ServiceHeld
<1>2. QED
  BY <1>1, InterruptsInvariance, PTL

(***************************************************************************)
(* "The signal from RTC just appear once" (buglog.txt:39) does not come    *)
(* back: every RTC interrupt is still requested or has a handler that will *)
(* run again and read register C (rtc.c:133-134).                          *)
(***************************************************************************)
THEOREM ClockAnswerableCorrect ==
  ASSUME ~BootWakes
  PROVE  Spec => []ClockAnswerable
<1>1. IInv => ClockAnswerable
  <2>. SUFFICES ASSUME IInv, regC, Clock \notin pending
                PROVE  \E h \in HandlersAt(Clock, {"start"}) : Resumed(h)
    BY DEF ClockAnswerable
  <2>. PICK clk \in Contexts, at \in Places, brief \in Briefs : Agree(clk, at, brief)
    BY DEF IInv
  <2>1. turn \in Contexts /\ StacksAre(clk, at, brief) /\ at = "start"
    BY DEF IInv, Agree, VarsTyped
  <2>2. HandlersAt(Clock, {"start"}) = {<<clk, 1>>}
    BY <2>1, ClockHandlers DEF Absent
  <2>3. Resumed(<<clk, 1>>)
    BY <2>1 DEF Agree, Resumed, Absent
  <2>4. QED
    BY <2>2, <2>3
<1>2. QED
  BY <1>1, InterruptsInvariance, PTL

=============================================================================
