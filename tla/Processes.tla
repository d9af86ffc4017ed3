----------------------------- MODULE Processes -----------------------------
(***************************************************************************)
(* The processes of MongOS and the timer that shares the one CPU among the *)
(* terminals: execute, halt, get_pid, free_pid and process_switch          *)
(* (syscall.c), pit_irq (pit.c) and err_handle (idt.c).                    *)
(*                                                                         *)
(* A terminal owns a stack of processes.  The top one, running_pid, is the *)
(* only one that can run; the others wait inside execute for their child.  *)
(* The timer hands the CPU to the next terminal, whether or not the        *)
(* running one asked for anything, and starts a shell on a terminal that   *)
(* has none.                                                               *)
(*                                                                         *)
(* execute and halt begin with cli(), so neither is interrupted, with one  *)
(* exception that this module keeps: execute calls sti() before it sets    *)
(* tss.esp0 and executes IRET (syscall.c:220-234).  The three steps Start, *)
(* SetTss and Iret are therefore separate actions and a timer tick may     *)
(* fall between any two of them.                                           *)
(*                                                                         *)
(* A kernel stack is named by the pid whose 8 KB region it is; the boot    *)
(* stack (boot.S: esp = 0x800000) is the region of pid 1.                  *)
(*                                                                         *)
(* An operator named for a mistake (NextTerminalOffByOne, ...) stands for  *)
(* a bug the code does not have; the manifest puts it in place of the      *)
(* definition after it to show which property would notice.                *)
(***************************************************************************)
EXTENDS Integers, FiniteSets

CONSTANTS
  MaxPid,          \* MAX_PID, the number of PCBs and kernel stacks (6)
  NumTerminals     \* TERMINAL_SIZE (3)

ASSUME MaxPidAssumption == MaxPid \in Nat \ {0}
ASSUME NumTerminalsAssumption == NumTerminals \in Nat \ {0}

Pid == 1..MaxPid
Terminal == 0..(NumTerminals - 1)
NoPid == -1                      \* running_pid of a terminal with no process
Boot == -1                       \* the CPU still runs the idle loop of entry()
Undefined == -2                  \* the CPU runs on a destroyed stack frame
Destroyed == 0                   \* the stack of a saved frame overwritten since

(***************************************************************************)
(* Where the context of a terminal is: "off" before its first shell,       *)
(* "enter" in execute after sti(), "iret" once tss.esp0 is set, "user" in  *)
(* its program.                                                            *)
(***************************************************************************)
Contexts == {"off", "enter", "iret", "user"}
Frames == [by : {"none", "execute", "switch"}, stack : Pid \cup {Destroyed}]

VARIABLES
  pid_st,          \* [Pid -> {0, 1}], control.h
  pid_cnt,         \* the number of pids in use
  par_pid,         \* PCB field: the process that called execute
  pcb_esp0,        \* PCB field: the kernel stack to use when rescheduled
  saved,           \* PCB fields saved_esp and saved_ebp: who saved them, and
                   \* on which stack they point
  running_pid,     \* [Terminal -> Pid \cup {NoPid}], multi_terminal
  current_tid,     \* the terminal being scheduled
  image,           \* the pid whose memory page_directory[PDE_INDEX] maps
  tss_esp0,        \* the stack the CPU takes when it leaves user mode
  cpu,             \* the terminal whose context the CPU really executes
  ctx,             \* [Terminal -> Contexts]
  kstack           \* the stack the kernel runs on (in user mode: tss_esp0's)

pcbs == <<par_pid, pcb_esp0, saved>>
pids == <<pid_st, pid_cnt>>
cpuvars == <<image, tss_esp0, cpu, ctx, kstack>>
vars == <<pids, pcbs, running_pid, current_tid, cpuvars>>

Live == {p \in Pid : pid_st[p] = 1}
Running == running_pid[current_tid]
Parents == {par_pid[p] : p \in Live}
NextTerminalOffByOne == (current_tid + 1) % (NumTerminals - 1)
NextTerminal == (current_tid + 1) % NumTerminals

(***************************************************************************)
(* The CPU is in the program of terminal current_tid, or in the open part  *)
(* of execute.  After a failed start (TickStartFails) it is in neither:    *)
(* current_tid names a terminal with no process.                           *)
(***************************************************************************)
InUser == cpu = current_tid /\ ctx[cpu] = "user"
InExecute == cpu = current_tid /\ ctx[cpu] \in {"enter", "iret"}
Interruptible == cpu = Boot \/ InUser \/ InExecute

(***************************************************************************)
(* The stack an interrupt or a system call runs on: from user mode the CPU *)
(* takes the top of tss.esp0, in the kernel it stays where it is.          *)
(***************************************************************************)
EntryStack == IF InUser THEN tss_esp0 ELSE kstack

(***************************************************************************)
(* Entering the kernel at the top of a stack writes over the frames that   *)
(* another process still has further down there, if the calls made on it   *)
(* reach that deep: both outcomes are possible, and deep chooses.          *)
(***************************************************************************)
Entered(deep) ==
  [p \in Pid |->
     IF deep /\ InUser /\ p # Running /\ saved[p].stack = tss_esp0
     THEN [by |-> saved[p].by, stack |-> Destroyed]
     ELSE saved[p]]

-----------------------------------------------------------------------------

Init ==
  /\ pid_st = [p \in Pid |-> 0]
  /\ pid_cnt = 0
  /\ par_pid = [p \in Pid |-> NoPid]
  /\ pcb_esp0 = [p \in Pid |-> p]
  /\ saved = [p \in Pid |-> [by |-> "none", stack |-> Destroyed]]
  /\ running_pid = [t \in Terminal |-> NoPid]
  /\ current_tid = 0
  /\ image = NoPid
  /\ tss_esp0 = 1
  /\ cpu = Boot
  /\ ctx = [t \in Terminal |-> "off"]
  /\ kstack = 1

(***************************************************************************)
(* get_pid takes the lowest free pid of the table st, none if it is full.  *)
(***************************************************************************)
FirstFreeIgnoresUse(st, p) == \A q \in Pid : q < p => st[q] = 1
FirstFree(st, p) == st[p] = 0 /\ \A q \in Pid : q < p => st[q] = 1
Full(st) == \A p \in Pid : st[p] = 1

FreePidForgets(p) == pid_st
FreePidOffByOne(p) == [pid_st EXCEPT ![(p % MaxPid) + 1] = 0]
FreePid(p) == [pid_st EXCEPT ![p] = 0]

(***************************************************************************)
(* execute from get_pid to sti(): process p becomes the running one of     *)
(* terminal t, child of parent (NoPid for a base shell), on the kernel     *)
(* stack s.  st and cnt are the pid table, frames and esp0s the PCB fields *)
(* as the caller left them.                                                *)
(***************************************************************************)
ParentFrameForgotten(frames, parent, s) == frames
ParentFrame(frames, parent, s) ==
  IF parent = NoPid THEN frames
  ELSE [frames EXCEPT ![parent] = [by |-> "execute", stack |-> s]]

Spawn(p, t, parent, s, st, cnt, frames, esp0s) ==
  /\ FirstFree(st, p)
  /\ pid_st' = [st EXCEPT ![p] = 1]
  /\ pid_cnt' = cnt + 1
  /\ par_pid' = [par_pid EXCEPT ![p] = parent]
  /\ running_pid' = [running_pid EXCEPT ![t] = p]
  /\ pcb_esp0' = [esp0s EXCEPT ![p] = p]
  /\ saved' = ParentFrame(frames, parent, s)
  /\ image' = p
  /\ current_tid' = t
  /\ cpu' = t
  /\ ctx' = [ctx EXCEPT ![t] = "enter"]
  /\ kstack' = s
  /\ UNCHANGED tss_esp0

(***************************************************************************)
(* execute called by the program of the running terminal.                  *)
(***************************************************************************)
Execute(p, deep) ==
  /\ InUser
  /\ Spawn(p, current_tid, Running, tss_esp0,
           pid_st, pid_cnt, Entered(deep), pcb_esp0)

(***************************************************************************)
(* The calls of execute that give up before a process exists: a NULL       *)
(* command, a name that is not an executable, a full pid table.  (What     *)
(* execute and halt return is in Shell.)                                   *)
(***************************************************************************)
ExecuteFails(deep) ==
  /\ InUser
  /\ saved' = Entered(deep)
  /\ UNCHANGED <<pids, par_pid, pcb_esp0, running_pid, current_tid, cpuvars>>

SetTss ==
  /\ InExecute /\ ctx[cpu] = "enter"
  /\ tss_esp0' = Running
  /\ ctx' = [ctx EXCEPT ![cpu] = "iret"]
  /\ UNCHANGED <<pids, pcbs, running_pid, current_tid, image, cpu, kstack>>

Iret ==
  /\ InExecute /\ ctx[cpu] = "iret"
  /\ ctx' = [ctx EXCEPT ![cpu] = "user"]
  /\ kstack' = tss_esp0
  /\ UNCHANGED <<pids, pcbs, running_pid, current_tid, image, tss_esp0, cpu>>

-----------------------------------------------------------------------------

(***************************************************************************)
(* halt, called by the program or, after an exception, by err_handle.  A   *)
(* child gives the CPU, the page mapping and the stack back to its parent, *)
(* which returns from execute.                                             *)
(***************************************************************************)
ParentStackForgotten == tss_esp0
ParentStack == par_pid[Running]

HaltChild(deep) ==
  /\ InUser /\ par_pid[Running] # NoPid
  /\ pid_st' = FreePid(Running)
  /\ pid_cnt' = pid_cnt - 1
  /\ running_pid' = [running_pid EXCEPT ![current_tid] = par_pid[Running]]
  /\ tss_esp0' = ParentStack
  /\ image' = par_pid[Running]
  /\ saved' = Entered(deep)
  /\ kstack' = ParentStack
  /\ UNCHANGED <<par_pid, pcb_esp0, current_tid, cpu, ctx>>

(***************************************************************************)
(* A base shell that ends is replaced by a new one, started on the kernel  *)
(* stack of the process that just ended.                                   *)
(***************************************************************************)
HaltBase(p, deep) ==
  /\ InUser /\ par_pid[Running] = NoPid
  /\ Spawn(p, current_tid, NoPid, tss_esp0,
           FreePid(Running), pid_cnt - 1, Entered(deep), pcb_esp0)

-----------------------------------------------------------------------------

(***************************************************************************)
(* pit_irq.  process_switch first saves the context of the process it      *)
(* interrupted, if the terminal has one.                                   *)
(***************************************************************************)
SavedEsp0 ==
  IF Running = NoPid THEN pcb_esp0 ELSE [pcb_esp0 EXCEPT ![Running] = tss_esp0]

SavedContext(deep) ==
  IF Running = NoPid THEN Entered(deep)
  ELSE [Entered(deep) EXCEPT ![Running] = [by |-> "switch", stack |-> EntryStack]]

(***************************************************************************)
(* The next terminal has a process: its frame is popped.  If that frame    *)
(* was overwritten since it was saved, the CPU goes to an undefined place  *)
(* and the model stops.                                                    *)
(***************************************************************************)
TickResume(deep) ==
  LET new == running_pid[NextTerminal] IN
  /\ Interruptible
  /\ new # NoPid
  /\ pcb_esp0' = SavedEsp0
  /\ saved' = SavedContext(deep)
  /\ image' = new
  /\ tss_esp0' = SavedEsp0[new]
  /\ current_tid' = NextTerminal
  /\ kstack' = SavedContext(deep)[new].stack
  /\ cpu' = IF SavedContext(deep)[new].stack = Destroyed THEN Undefined ELSE NextTerminal
  /\ UNCHANGED <<pids, par_pid, running_pid, ctx>>

(***************************************************************************)
(* The next terminal has no process: execute("shell") runs on the stack of *)
(* the interrupted context, under the frame just saved there.              *)
(***************************************************************************)
TickStart(p, deep) ==
  /\ Interruptible
  /\ running_pid[NextTerminal] = NoPid
  /\ Spawn(p, NextTerminal, NoPid, EntryStack,
           pid_st, pid_cnt, SavedContext(deep), SavedEsp0)

(***************************************************************************)
(* The same with no pid left: execute returns, process_switch returns, and *)
(* the interrupted program goes on while current_tid already names the     *)
(* terminal without a process.  The PCB every later system call looks up   *)
(* is then outside the table: the model stops here.                        *)
(***************************************************************************)
TickStartFails(deep) ==
  /\ Interruptible
  /\ running_pid[NextTerminal] = NoPid
  /\ Full(pid_st)
  /\ saved' = SavedContext(deep)
  /\ pcb_esp0' = SavedEsp0
  /\ current_tid' = NextTerminal
  /\ UNCHANGED <<pids, par_pid, running_pid, cpuvars>>

Tick ==
  \E deep \in BOOLEAN :
    \/ TickResume(deep)
    \/ \E p \in Pid : TickStart(p, deep)
    \/ TickStartFails(deep)

SystemCall ==
  \E deep \in BOOLEAN :
    \/ \E p \in Pid : Execute(p, deep)
    \/ \E p \in Pid : HaltBase(p, deep)
    \/ ExecuteFails(deep)
    \/ HaltChild(deep)

-----------------------------------------------------------------------------

Next == Tick \/ SetTss \/ Iret \/ SystemCall

(***************************************************************************)
(* The timer interrupts whatever runs, and the instructions between sti()  *)
(* and IRET are a handful against a timer period of milliseconds: a        *)
(* terminal that is given the CPU in them over and over gets through.      *)
(***************************************************************************)
StepOf(t, Step) == cpu = t /\ Step

Fairness ==
  /\ WF_vars(Tick)
  /\ \A t \in Terminal : SF_vars(StepOf(t, SetTss)) /\ SF_vars(StepOf(t, Iret))

Spec == Init /\ [][Next]_vars
FairSpec == Spec /\ Fairness

-----------------------------------------------------------------------------

(***************************************************************************)
(* Every variable has its type.                                            *)
(***************************************************************************)
TypeOK ==
  /\ pid_st \in [Pid -> {0, 1}]
  /\ pid_cnt \in 0..MaxPid
  /\ par_pid \in [Pid -> Pid \cup {NoPid}]
  /\ pcb_esp0 \in [Pid -> Pid]
  /\ saved \in [Pid -> Frames]
  /\ running_pid \in [Terminal -> Pid \cup {NoPid}]
  /\ current_tid \in Terminal
  /\ image \in Pid \cup {NoPid}
  /\ tss_esp0 \in Pid
  /\ cpu \in Terminal \cup {Boot, Undefined}
  /\ ctx \in [Terminal -> Contexts]
  /\ kstack \in Pid \cup {Destroyed}

(***************************************************************************)
(* The live processes form one chain per terminal: each terminal's running *)
(* process is live and its own; the parent of a live process is live and   *)
(* waits for that child only; a live process either runs or waits, never   *)
(* both and never neither.  No order of execute, halt and ticks may leak   *)
(* a pid, share one, or resume a parent whose child still runs.            *)
(***************************************************************************)
RunningAreLive == \A t \in Terminal : running_pid[t] # NoPid => running_pid[t] \in Live
RunningDistinct ==
  \A t, u \in Terminal :
    t # u /\ running_pid[t] # NoPid => running_pid[t] # running_pid[u]
ParentsAreLive == \A p \in Live : par_pid[p] # NoPid => par_pid[p] \in Live
OneChild ==
  \A p, q \in Live : par_pid[p] # NoPid /\ par_pid[p] = par_pid[q] => p = q
RunsOrWaits ==
  \A p \in Live : (p \in Parents) <=> ~ \E t \in Terminal : running_pid[t] = p

ProcessForest ==
  RunningAreLive /\ RunningDistinct /\ ParentsAreLive /\ OneChild /\ RunsOrWaits

(***************************************************************************)
(* pid_cnt counts the pids in use, through every start, restart and halt.  *)
(***************************************************************************)
PidsCounted == pid_cnt = Cardinality(Live)

(***************************************************************************)
(* In user mode the memory map and the kernel stack are those of the       *)
(* process that runs, after every switch, start, failed start and halt;    *)
(* in the open part of execute the memory map already is.                  *)
(***************************************************************************)
OwnContext ==
  /\ InUser => tss_esp0 = Running /\ image = Running
  /\ InExecute => image = Running
  /\ InExecute /\ ctx[cpu] = "iret" => tss_esp0 = Running

(***************************************************************************)
(* A program preempted in user mode and a parent waiting in execute find   *)
(* their frames where they left them, on their own kernel stacks, whatever *)
(* the other terminals did in between.                                     *)
(***************************************************************************)
PreemptedFrameKept ==
  \A t \in Terminal : t # cpu /\ ctx[t] = "user" =>
    /\ saved[running_pid[t]] = [by |-> "switch", stack |-> running_pid[t]]
    /\ pcb_esp0[running_pid[t]] = running_pid[t]
WaitingFrameKept ==
  \A p \in Live \cap Parents : saved[p] = [by |-> "execute", stack |-> p]

FramesKept == PreemptedFrameKept /\ WaitingFrameKept

(***************************************************************************)
(* A terminal has a process from its first shell on, and none while the    *)
(* boot loop runs; a terminal that the timer set aside in the middle of    *)
(* execute has a frame saved by process_switch to go back to, and once     *)
(* tss.esp0 was set, that stack in its PCB; the kernel is always on the    *)
(* stack of some process.                                                  *)
(***************************************************************************)
Coupled ==
  /\ \A t \in Terminal : ctx[t] = "off" <=> running_pid[t] = NoPid
  /\ cpu = Boot => \A t \in Terminal : ctx[t] = "off"
  /\ cpu \in Terminal => ctx[cpu] # "off"
  /\ \A t \in Terminal :
       t # cpu /\ ctx[t] = "iret" => pcb_esp0[running_pid[t]] = running_pid[t]
  /\ \A t \in Terminal :
       t # cpu /\ ctx[t] \in {"enter", "iret"} => saved[running_pid[t]].by = "switch"
  /\ cpu # Undefined => kstack \in Pid

(***************************************************************************)
(* process_switch goes to the terminal whose turn it is with its "new ebp, *)
(* esp, tss, paging" (syscall.c:657): the frame it saved of a program the  *)
(* timer set aside is still there, also if that was at the end of execute. *)
(***************************************************************************)
NoFrameDestroyed ==
  \A t \in Terminal : t # cpu /\ running_pid[t] # NoPid =>
    saved[running_pid[t]].stack # Destroyed

(***************************************************************************)
(* The model has stopped: the CPU is on a destroyed frame or in a terminal *)
(* whose start failed.                                                     *)
(***************************************************************************)
Stopped == cpu = Undefined \/ (cpu # Boot /\ cpu # current_tid)

(***************************************************************************)
(* Round robin: every terminal's program runs again and again, whatever    *)
(* the others do: start and end programs, loop, be caught by the timer     *)
(* halfway through a start.                                                *)
(***************************************************************************)
EveryTerminalRuns ==
  \A t \in Terminal : []<>((InUser /\ current_tid = t) \/ Stopped)

=============================================================================
