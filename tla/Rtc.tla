-------------------------------- MODULE Rtc --------------------------------
(***************************************************************************)
(* The descriptors of a process and its virtual real-time clock: open,     *)
(* close and the closing part of halt (syscall.c), rtc_open, rtc_close,    *)
(* rtc_write, rtc_read and RTC_irq (rtc.c), over the processes as          *)
(* JobStacks describes them.                                               *)
(*                                                                         *)
(* The device interrupts at its highest rate; every PCB counts these       *)
(* interrupts down to its own rate and wakes its reader.  The clock        *)
(* belongs to the process, not to the descriptor, and execute does not     *)
(* initialise it.                                                          *)
(*                                                                         *)
(* RTC_irq enables interrupts after every process it wakes, before it      *)
(* acknowledges its own: from then on the timer may take the CPU away      *)
(* between any two instructions of its loop, which goes on when its        *)
(* terminal runs again.  Until then there is no other RTC interrupt.       *)
(***************************************************************************)
EXTENDS JobStacks, FiniteSets

CONSTANTS
  MaxFreq, MinFreq,  \* 1024 and 2 in the code
  Requests,          \* the frequencies programs ask for
  FdMax,             \* FD_ARRAY_MAX (8)
  Devices,           \* what programs open: {"rtc", "file"}
  Names,             \* {"gr", "other"}: how program names begin
  MaxDepth,          \* bound: how many programs one terminal has at a time
  PcbMemory          \* what the clocks of the PCBs may hold at boot, which
                     \* nothing initialises: a set of functions of the jobs

ASSUME FreqAssumption ==
  MaxFreq \in Nat /\ MinFreq \in 1..MaxFreq /\ Requests \subseteq Int
ASSUME FdAssumption == FdMax \in Nat /\ FdMax > 3
ASSUME JobsAssumption == IsFiniteSet(Jobs) /\ Jobs = 1..Cardinality(Jobs)
ASSUME DevicesAssumption == Devices \subseteq {"rtc", "file"}
ASSUME NamesAssumption == Names \subseteq {"gr", "other"}
ASSUME DepthAssumption == MaxDepth \in Nat
ASSUME PcbMemoryAssumption ==
  PcbMemory \subseteq [Jobs -> [maxcount : Nat, counter : Nat, trigger : Nat]]

Fds == 2..(FdMax - 1)           \* 0 and 1 are the terminal
RootFd == 2
FileFd == 3
NoTerminal == -1

VARIABLES
  name,            \* [Jobs -> Names]
  fd,              \* [Jobs -> [Fds -> {"free", "rtc", "file"}]], farray
  rtc_maxcount, rtc_counter, rtc_trigger,   \* PCB fields
  mode,            \* [Jobs -> ...]: "run", "read" while in rtc_read,
                   \* "write" between the two stores of rtc_write
  irq,             \* RTC_irq: the terminal it interrupted, the process its
                   \* loop is at, the instruction it is at, the counter it
                   \* loaded, and whether it has enabled interrupts
  orphans          \* history: the processes whose clock runs though no
                   \* program of theirs started it: boot found it running, or
                   \* a program gr* left it running

rtcvars == <<rtc_maxcount, rtc_counter, rtc_trigger>>
allrtcvars == <<jobs, turn, name, fd, rtcvars, mode, irq, orphans>>

Idle == [on |-> NoTerminal, next |-> 1, at |-> "test", seen |-> 0, open |-> FALSE]
Abandoned == -2    \* irq.on of a handler whose stack is never resumed
Current == Top(turn)
Uninterrupted == jobs[turn] # <<>> /\ irq.on # turn
Calls == Uninterrupted /\ mode[Current] = "run"
Live == UNION {OnStack(t) : t \in Terminals}

RtcInit ==
  /\ Init
  /\ name \in [Jobs -> {"other"}]
  /\ fd = [p \in Jobs |-> [i \in Fds |-> "free"]]
  /\ \E memory \in PcbMemory :
       /\ rtc_maxcount = [p \in Jobs |-> memory[p].maxcount]
       /\ rtc_counter = [p \in Jobs |-> memory[p].counter]
       /\ rtc_trigger = [p \in Jobs |-> memory[p].trigger]
  /\ mode = [p \in Jobs |-> "run"]
  /\ irq = Idle
  /\ orphans = {p \in Jobs : rtc_maxcount[p] # 0}

-----------------------------------------------------------------------------

(***************************************************************************)
(* The descriptor a call of a program named gr* is sent to.                *)
(***************************************************************************)
Forced(p, i) == IF name[p] = "gr" /\ i # RootFd THEN FileFd ELSE i

FreeFds(p) == {i \in Fds : fd[p][i] = "free"}
HasRtc(p) == \E i \in Fds : fd[p][i] = "rtc"
Lowest(i, S) == i \in S /\ \A k \in S : i <= k

(***************************************************************************)
(* open: the lowest free descriptor; rtc_open restarts the process's clock *)
(* at the lowest rate (counter first, so that its stores make one step:    *)
(* RTC_irq between them finds a lower limit).  The base shell opens        *)
(* nothing (ece391shell.c), any other program may.                         *)
(***************************************************************************)
OpenRate == MaxFreq \div MinFreq

Open(type, i) ==
  /\ Calls /\ Len(jobs[turn]) > 1
  /\ Lowest(i, FreeFds(Current))
  /\ fd' = [fd EXCEPT ![Current][i] = type]
  /\ IF type = "rtc"
     THEN /\ rtc_counter' = [rtc_counter EXCEPT ![Current] = 0]
          /\ rtc_maxcount' = [rtc_maxcount EXCEPT ![Current] = OpenRate]
          /\ rtc_trigger' = [rtc_trigger EXCEPT ![Current] = 0]
          /\ orphans' = orphans \ {Current}
     ELSE UNCHANGED <<rtcvars, orphans>>
  /\ UNCHANGED <<jobs, turn, name, mode, irq>>

(***************************************************************************)
(* close of the descriptors in S by process p: each goes to Forced(p, i),  *)
(* and rtc_close stops the clock of the process.                           *)
(***************************************************************************)
ForcedAll(p, S) == {Forced(p, i) : i \in S} \ FreeFds(p)

Closes(p, S) ==
  fd' = [fd EXCEPT ![p] = [i \in Fds |-> IF i \in ForcedAll(p, S) THEN "free" ELSE @[i]]]
StopsClock(p, S) == \E i \in ForcedAll(p, S) : fd[p][i] = "rtc"

CloseLeavesClock(p, S) == Closes(p, S) /\ UNCHANGED rtcvars

CloseFds(p, S) ==
  LET reset(f) == IF StopsClock(p, S) THEN [f EXCEPT ![p] = 0] ELSE f
  IN /\ Closes(p, S)
     /\ rtc_counter' = reset(rtc_counter)
     /\ rtc_maxcount' = reset(rtc_maxcount)
     /\ rtc_trigger' = reset(rtc_trigger)

Close(i) ==
  /\ Calls
  /\ ForcedAll(Current, {i}) # {}
  /\ CloseFds(Current, {i})
  /\ orphans' = orphans \ (IF StopsClock(Current, {i}) THEN {Current} ELSE {})
  /\ UNCHANGED <<jobs, turn, name, mode, irq>>

(***************************************************************************)
(* execute clears the descriptors of the new process and nothing of its    *)
(* clock; halt calls close for every descriptor that is open.  Of a        *)
(* program gr* these calls reach RootFd and FileFd only: an RTC in another *)
(* descriptor stays open, and goes on if no RTC was in those two.          *)
(***************************************************************************)
NewProcess(p) ==
  /\ fd' = [fd EXCEPT ![p] = [i \in Fds |-> "free"]]
  /\ \E n \in Names : name' = [name EXCEPT ![p] = n]

Execute(p) ==
  /\ Calls
  /\ Len(jobs[turn]) < MaxDepth
  /\ Launch(p) /\ Lowest(p, Free)
  /\ NewProcess(p)
  /\ UNCHANGED <<rtcvars, mode, irq, orphans>>

GrLeavesClock(p) ==
  /\ name[p] = "gr" /\ HasRtc(p) /\ rtc_maxcount[p] # 0
  /\ fd[p][RootFd] # "rtc" /\ fd[p][FileFd] # "rtc"

Halt ==
  /\ Calls
  /\ Finish
  /\ CloseFds(Current, Fds \ FreeFds(Current))
  /\ orphans' = IF GrLeavesClock(Current) THEN orphans \cup {Current}
                ELSE IF HasRtc(Current) THEN orphans \ {Current} ELSE orphans
  /\ UNCHANGED <<name, mode, irq>>

HaltBase(p) ==
  /\ Calls
  /\ Restart(p) /\ Lowest(p, Free \cup OnStack(turn))
  /\ fd' = [fd EXCEPT ![p] = [i \in Fds |-> "free"]]
  /\ name' = [name EXCEPT ![p] = "other"]
  /\ UNCHANGED <<rtcvars, mode, irq, orphans>>

-----------------------------------------------------------------------------

ReadsRtc(p) == \E i \in Fds : fd[p][Forced(p, i)] = "rtc"
WritesRtc(p) == HasRtc(p)

(***************************************************************************)
(* rtc_write: the two stores are not protected from RTC_irq.               *)
(***************************************************************************)
Rate(f) ==
  IF f > MaxFreq THEN 1
  ELSE IF f < MinFreq THEN MaxFreq \div MinFreq ELSE MaxFreq \div f

WriteMaxcount(f) ==
  /\ Calls /\ WritesRtc(Current)
  /\ rtc_maxcount' = [rtc_maxcount EXCEPT ![Current] = Rate(f)]
  /\ mode' = [mode EXCEPT ![Current] = "write"]
  /\ UNCHANGED <<jobs, turn, name, fd, rtc_counter, rtc_trigger, irq, orphans>>

WriteCounterKept ==
  /\ Uninterrupted /\ mode[Current] = "write"
  /\ mode' = [mode EXCEPT ![Current] = "run"]
  /\ UNCHANGED <<jobs, turn, name, fd, rtcvars, irq, orphans>>

WriteCounter ==
  /\ Uninterrupted /\ mode[Current] = "write"
  /\ rtc_counter' = [rtc_counter EXCEPT ![Current] = 0]
  /\ mode' = [mode EXCEPT ![Current] = "run"]
  /\ UNCHANGED <<jobs, turn, name, fd, rtc_maxcount, rtc_trigger, irq, orphans>>

(***************************************************************************)
(* rtc_read clears the trigger and spins until RTC_irq sets it.            *)
(***************************************************************************)
ReadStart ==
  /\ Calls /\ ReadsRtc(Current)
  /\ rtc_trigger' = [rtc_trigger EXCEPT ![Current] = 0]
  /\ mode' = [mode EXCEPT ![Current] = "read"]
  /\ UNCHANGED <<jobs, turn, name, fd, rtc_maxcount, rtc_counter, irq, orphans>>

ReadReturn(t) ==
  /\ turn = t /\ Uninterrupted /\ mode[Current] = "read"
  /\ rtc_trigger[Current] # 0
  /\ mode' = [mode EXCEPT ![Current] = "run"]
  /\ UNCHANGED <<jobs, turn, name, fd, rtcvars, irq, orphans>>

-----------------------------------------------------------------------------

(***************************************************************************)
(* RTC_irq: its loop over the PCBs and the acknowledgement after it.  An   *)
(* iteration tests maxcount and loads the counter, stores it incremented   *)
(* (two instructions: the Makefile asks for no optimisation), compares,    *)
(* and wakes; only the stores of the last are between cli and sti.         *)
(***************************************************************************)
RtcIrq ==
  /\ irq = Idle
  /\ irq' = [Idle EXCEPT !.on = turn]
  /\ UNCHANGED <<jobs, turn, name, fd, rtcvars, mode, orphans>>

ScansAt(place) == irq.on = turn /\ irq.next \in Jobs /\ irq.at = place

FollowingIfClock(p) ==
  IF rtc_maxcount[p] = 0 THEN irq ELSE [irq EXCEPT !.next = p + 1, !.at = "test", !.seen = 0]
Following(p) == [irq EXCEPT !.next = p + 1, !.at = "test", !.seen = 0]

ScanTest ==
  /\ ScansAt("test")
  /\ irq' = IF rtc_maxcount[irq.next] = 0 THEN Following(irq.next)
            ELSE [irq EXCEPT !.at = "store", !.seen = rtc_counter[irq.next]]
  /\ UNCHANGED <<jobs, turn, name, fd, rtcvars, mode, orphans>>

CountedDown(n) == n - 1
Counted(n) == n + 1

ScanStore ==
  /\ ScansAt("store")
  /\ rtc_counter' = [rtc_counter EXCEPT ![irq.next] = Counted(irq.seen)]
  /\ irq' = [irq EXCEPT !.at = "compare", !.seen = 0]
  /\ UNCHANGED <<jobs, turn, name, fd, rtc_maxcount, rtc_trigger, mode, orphans>>

ScanCompare ==
  /\ ScansAt("compare")
  /\ irq' = IF rtc_counter[irq.next] >= rtc_maxcount[irq.next]
            THEN [irq EXCEPT !.at = "wake"] ELSE Following(irq.next)
  /\ UNCHANGED <<jobs, turn, name, fd, rtcvars, mode, orphans>>

WakesCurrent(p) ==
  rtc_trigger' = IF jobs[turn] # <<>> /\ p = Current
                 THEN [rtc_trigger EXCEPT ![p] = 1] ELSE rtc_trigger
Wakes(p) == rtc_trigger' = [rtc_trigger EXCEPT ![p] = 1]

ScanWake ==
  /\ ScansAt("wake")
  /\ Wakes(irq.next)
  /\ rtc_counter' = [rtc_counter EXCEPT ![irq.next] = 0]
  /\ irq' = [Following(irq.next) EXCEPT !.open = TRUE]
  /\ UNCHANGED <<jobs, turn, name, fd, rtc_maxcount, mode, orphans>>

RtcScan == ScanTest \/ ScanStore \/ ScanCompare \/ ScanWake

RtcDone ==
  /\ irq.on = turn /\ irq.next \notin Jobs
  /\ irq' = Idle
  /\ UNCHANGED <<jobs, turn, name, fd, rtcvars, mode, orphans>>

(***************************************************************************)
(* pit_irq, when interrupts are enabled.  The boot loop is never resumed,  *)
(* and an RTC_irq it was caught in never goes on.                          *)
(***************************************************************************)
Interruptible == irq.on # turn \/ irq.open
BootContext == \A t \in Terminals : jobs[t] = <<>>
IrqAfterTick == IF BootContext /\ irq.on = turn THEN [irq EXCEPT !.on = Abandoned] ELSE irq

RtcTickRotate ==
  /\ Interruptible
  /\ Rotate
  /\ UNCHANGED <<name, fd, rtcvars, mode, irq, orphans>>

RtcTickFirst(p) ==
  /\ Interruptible
  /\ First(p) /\ Lowest(p, Free)
  /\ fd' = [fd EXCEPT ![p] = [i \in Fds |-> "free"]]
  /\ name' = [name EXCEPT ![p] = "other"]
  /\ irq' = IrqAfterTick
  /\ UNCHANGED <<rtcvars, mode, orphans>>

RtcTick == RtcTickRotate \/ \E p \in Jobs : RtcTickFirst(p)

RtcProgram ==
  \/ \E i \in Fds : Close(i) \/ \E type \in Devices : Open(type, i)
  \/ \E p \in Jobs : Execute(p) \/ HaltBase(p)
  \/ Halt
  \/ \E f \in Requests : WriteMaxcount(f)
  \/ WriteCounter
  \/ ReadStart
  \/ \E t \in Terminals : ReadReturn(t)

RtcNext == RtcTick \/ RtcIrq \/ RtcScan \/ RtcDone \/ RtcProgram

(***************************************************************************)
(* Both devices keep interrupting: the timer, the highest priority of the  *)
(* PIC, as soon as interrupts are enabled again, the RTC once its last     *)
(* interrupt is acknowledged.  A program or a handler that is given the    *)
(* CPU over and over gets its next instructions done: they take            *)
(* microseconds, the timer comes every few milliseconds.                   *)
(***************************************************************************)
RtcFairness ==
  /\ SF_allrtcvars(RtcTick) /\ WF_allrtcvars(RtcIrq)
  /\ SF_allrtcvars(RtcScan \/ RtcDone)
  /\ \A t \in Terminals : SF_allrtcvars(ReadReturn(t))

RtcSpec == RtcInit /\ [][RtcNext]_allrtcvars
FairRtcSpec == RtcSpec /\ RtcFairness

-----------------------------------------------------------------------------

RtcTypeOK ==
  /\ name \in [Jobs -> {"gr", "other"}]
  /\ fd \in [Jobs -> [Fds -> {"free", "rtc", "file"}]]
  /\ rtc_maxcount \in [Jobs -> Nat]
  /\ rtc_counter \in [Jobs -> Nat]
  /\ rtc_trigger \in [Jobs -> Nat]
  /\ mode \in [Jobs -> {"run", "read", "write"}]
  /\ irq \in [on : Terminals \cup {NoTerminal, Abandoned},
              next : 1..(Cardinality(Jobs) + 1),
              at : {"test", "store", "compare", "wake"},
              seen : Nat, open : BOOLEAN]
  /\ orphans \subseteq Jobs

(***************************************************************************)
(* A clock its process opened counts to its rate and no further, even when *)
(* RTC_irq comes between the two stores of rtc_write, and when close,      *)
(* open or write come between any two instructions of RTC_irq: the counter *)
(* is at its limit only until the RTC_irq that took it there resets it.  A *)
(* reader never waits for a counter that has already passed its limit.     *)
(***************************************************************************)
Resets(p) ==
  irq.on \in Terminals /\ irq.next = p /\ irq.at \in {"compare", "wake"}

CounterWithinRate ==
  \A p \in Jobs : rtc_maxcount[p] # 0 /\ HasRtc(p) /\ mode[p] # "write" =>
    rtc_counter[p] < rtc_maxcount[p] \/ Resets(p)

(***************************************************************************)
(* halt has "close all file in fd array" (syscall.c:69), and RTC_irq takes *)
(* a clock that stands for "no rtc in this process" (rtc.c:124).  Neither  *)
(* is always so, and this is exactly what is left: a process that is gone  *)
(* holds an open descriptor only if it was a program gr*, above FileFd;    *)
(* and a clock runs without a descriptor only if it ran at boot, or a      *)
(* program gr* that ended left it, until the pid's next program opens or   *)
(* closes an RTC.                                                          *)
(***************************************************************************)
NothingLeftBehind ==
  \A p \in Jobs :
    /\ p \notin Live =>
         \A i \in Fds \ FreeFds(p) : name[p] = "gr" /\ i > FileFd
    /\ rtc_maxcount[p] # 0 => HasRtc(p) \/ p \in orphans

(***************************************************************************)
(* RTC_irq acknowledges its interrupt, however often the timer takes the   *)
(* CPU away from it: the RTC is never silenced for good, unless it came    *)
(* before the first shell and found a clock running in uninitialised       *)
(* memory: the boot loop it interrupted is never resumed.                  *)
(***************************************************************************)
IrqAcknowledged == irq # Idle ~> irq = Idle \/ irq.on = Abandoned

(***************************************************************************)
(* A reader whose clock runs returns, at any rate, on any terminal, with   *)
(* any number of other readers.                                            *)
(***************************************************************************)
RunningClockWakes ==
  \A p \in Jobs :
    mode[p] = "read" /\ rtc_maxcount[p] # 0 ~> mode[p] # "read" \/ irq.on = Abandoned

=============================================================================
