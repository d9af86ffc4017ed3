------------------------------- MODULE Video -------------------------------
(***************************************************************************)
(* The screens of MongOS: vid_mem, terminal_switch, display_putc           *)
(* (keyboard.c), clear and putc's target (lib.c), vidmap and paging_halt   *)
(* (syscall.c), over the processes as JobStacks describes them.            *)
(*                                                                         *)
(* A terminal that is not displayed keeps its screen in a buffer page.     *)
(* The kernel always writes through the virtual page 0xB8, a program that  *)
(* called vidmap through the user page 0x22; vid_mem points both at the    *)
(* VGA memory or at the buffer of the terminal that runs.  The timer, the  *)
(* keyboard and the system calls all move these mappings, and vidmap does  *)
(* so with interrupts enabled: its three steps are separate actions.  What *)
(* programs store through that page is not modelled, only where it leads.  *)
(***************************************************************************)
EXTENDS JobStacks

CONSTANT
  Texts            \* what a screen may show

ASSUME TextsAssumption == Texts # {}

Vga == -1                        \* the frame 0xB8000 that the monitor shows
Frames == Terminals \cup {Vga}   \* and the buffer of each terminal

VARIABLES
  display_terminal,
  page,            \* [Frames -> Texts], the contents of the frames
  kmap,            \* the frame of the kernel's page 0xB8 (page_table)
  umap,            \* page_table_usermapping[OUR_MAP]: present, frame
  bgmap,           \* [Terminals -> {0, 1}], usermapping[OUR_MAP + 1 + tid].present
  cursor_of,       \* the terminal screen_xt and screen_yt point to
  term_vidmap,     \* [Terminals -> {0, 1}], terminal_t.vidmap
  pcb_vidmap,      \* [Jobs -> {0, 1}], Pcb_t.vidmap
  vidmap_pc,       \* [Terminals -> ...], how far the program is in vidmap
  astray           \* history: why umap may not be what the running terminal
                   \* needs; vid_mem, which repairs it, empties it

mapvars == <<kmap, umap, cursor_of>>
flagvars == <<term_vidmap, pcb_vidmap>>
videovars == <<display_terminal, page, mapvars, bgmap, flagvars, vidmap_pc, astray>>
allvideovars == <<jobs, turn, videovars>>

Runs == jobs[turn] # <<>> /\ vidmap_pc[turn] = "no"
IsBase == Len(jobs[turn]) = 1

(***************************************************************************)
(* vid_mem(t) while terminal shown is displayed.                           *)
(***************************************************************************)
FrameOfOffByOne(t, shown) == IF t = shown THEN Vga ELSE t + 1
FrameOf(t, shown) == IF t = shown THEN Vga ELSE t

UserPageKeepsPresent(t, shown) == [umap EXCEPT !.frame = FrameOf(t, shown)]
UserPage(t, shown) == [present |-> term_vidmap[t], frame |-> FrameOf(t, shown)]

VidMemUserOnly(t, shown) ==
  /\ umap' = UserPage(t, shown)
  /\ cursor_of' = t
  /\ astray' = {}
  /\ UNCHANGED kmap

VidMem(t, shown) ==
  /\ kmap' = FrameOf(t, shown)
  /\ umap' = UserPage(t, shown)
  /\ cursor_of' = t
  /\ astray' = {}

(***************************************************************************)
(* Boot: the page tables as paging_init leaves them, the screen cleared.   *)
(***************************************************************************)
VideoInit ==
  /\ Init
  /\ display_terminal = 0
  /\ page \in [Frames -> Texts]
  /\ kmap = Vga
  /\ umap = [present |-> 1, frame |-> Vga]
  /\ bgmap = [t \in Terminals |-> 0]
  /\ cursor_of = 0
  /\ term_vidmap = [t \in Terminals |-> 0]
  /\ pcb_vidmap = [j \in Jobs |-> 0]
  /\ vidmap_pc = [t \in Terminals |-> "no"]
  /\ astray = {}

-----------------------------------------------------------------------------

(***************************************************************************)
(* Anything the kernel prints for the running terminal: write, printf.     *)
(***************************************************************************)
PrintLine(x) == page' = [page EXCEPT ![kmap] = x]

Write(x) ==
  /\ Runs
  /\ PrintLine(x)
  /\ UNCHANGED <<jobs, turn, display_terminal, mapvars, bgmap, flagvars,
                 vidmap_pc, astray>>

(***************************************************************************)
(* execute: it prints a line and clears the vidmap flag of the new PCB,    *)
(* but not the terminal's.                                                 *)
(***************************************************************************)
PcbCleared(j) == pcb_vidmap' = [pcb_vidmap EXCEPT ![j] = 0]

JobExecute(j, x) ==
  /\ Runs
  /\ Launch(j)
  /\ PcbCleared(j)
  /\ PrintLine(x)
  /\ UNCHANGED <<display_terminal, mapvars, bgmap, term_vidmap, vidmap_pc, astray>>

(***************************************************************************)
(* halt of a child: paging_halt unmaps the user page it thinks the child   *)
(* used, and the terminal takes over its parent's vidmap flag.  A parent   *)
(* with a page of its own loses it on the displayed terminal; on another   *)
(* the page the child mapped stays although the flag goes.                 *)
(***************************************************************************)
ParentJob == jobs[turn][Len(jobs[turn]) - 1]
ParentFlagForgotten == 0
ParentFlag == pcb_vidmap[ParentJob]

PageLeftWrong ==
  IF display_terminal = turn THEN pcb_vidmap[ParentJob] = 1
  ELSE term_vidmap[turn] # pcb_vidmap[ParentJob]

PagingHalt ==
  IF display_terminal = turn
  THEN umap' = [umap EXCEPT !.present = 0] /\ UNCHANGED bgmap
  ELSE bgmap' = [bgmap EXCEPT ![turn] = 0] /\ UNCHANGED umap

JobHalt ==
  /\ Runs
  /\ Finish
  /\ PagingHalt
  /\ term_vidmap' = [term_vidmap EXCEPT ![turn] = ParentFlag]
  /\ astray' = IF PageLeftWrong THEN astray \cup {"halt"} ELSE astray
  /\ UNCHANGED <<display_terminal, page, kmap, cursor_of, pcb_vidmap, vidmap_pc>>

\* halt of a base shell: execute("shell") prints its line.
JobRestart(j, x) ==
  /\ Runs
  /\ Restart(j)
  /\ PcbCleared(j)
  /\ PrintLine(x)
  /\ UNCHANGED <<display_terminal, mapvars, bgmap, term_vidmap, vidmap_pc, astray>>

-----------------------------------------------------------------------------

(***************************************************************************)
(* vidmap, called by any program but the base shell: set the flags, look   *)
(* which terminal is displayed, write the page table entry chosen by that. *)
(* That entry is the one programs use only on the displayed terminal, and  *)
(* a terminal switch after the look makes it the wrong frame.              *)
(***************************************************************************)
VidmapFlags ==
  /\ Runs /\ ~IsBase
  /\ pcb_vidmap' = [pcb_vidmap EXCEPT ![Top(turn)] = 1]
  /\ term_vidmap' = [term_vidmap EXCEPT ![turn] = 1]
  /\ vidmap_pc' = [vidmap_pc EXCEPT ![turn] = "flagged"]
  /\ astray' = IF term_vidmap[turn] = 1 THEN astray ELSE astray \cup {"vidmap"}
  /\ UNCHANGED <<jobs, turn, display_terminal, page, mapvars, bgmap>>

VidmapLook ==
  /\ vidmap_pc[turn] = "flagged"
  /\ vidmap_pc' = [vidmap_pc EXCEPT ![turn] =
                     IF display_terminal = turn THEN "shown" ELSE "hidden"]
  /\ UNCHANGED <<jobs, turn, display_terminal, page, mapvars, bgmap, flagvars, astray>>

VidmapMap ==
  /\ \/ /\ vidmap_pc[turn] = "shown"
        /\ umap' = [present |-> 1, frame |-> Vga]
        /\ astray' = IF display_terminal = turn THEN {} ELSE {"overtaken"}
        /\ UNCHANGED bgmap
     \/ /\ vidmap_pc[turn] = "hidden"
        /\ bgmap' = [bgmap EXCEPT ![turn] = 1]
        /\ UNCHANGED <<umap, astray>>
  /\ vidmap_pc' = [vidmap_pc EXCEPT ![turn] = "no"]
  /\ UNCHANGED <<jobs, turn, display_terminal, page, kmap, cursor_of, flagvars>>

-----------------------------------------------------------------------------

(***************************************************************************)
(* pit_irq: vid_mem for the next terminal, then process_switch; a shell it *)
(* starts prints the line of execute on that terminal's frame.  (A start   *)
(* that finds no pid ends the model of Processes and has no action here.)  *)
(***************************************************************************)
TickRotate ==
  /\ Rotate
  /\ VidMem(turn', display_terminal)
  /\ UNCHANGED <<display_terminal, page, bgmap, flagvars, vidmap_pc>>

TickFirst(j, x) ==
  /\ First(j)
  /\ VidMem(turn', display_terminal)
  /\ PcbCleared(j)
  /\ page' = [page EXCEPT ![kmap'] = x]
  /\ UNCHANGED <<display_terminal, bgmap, term_vidmap, vidmap_pc>>

Tick == TickRotate \/ \E j \in Jobs, x \in Texts : TickFirst(j, x)

(***************************************************************************)
(* keyboard_irq: display_putc and clear print on the displayed terminal    *)
(* and map the running one again.                                          *)
(***************************************************************************)
Echo(x) ==
  /\ page' = [page EXCEPT ![FrameOf(display_terminal, display_terminal)] = x]
  /\ VidMem(turn, display_terminal)
  /\ UNCHANGED <<jobs, turn, display_terminal, bgmap, flagvars, vidmap_pc>>

(***************************************************************************)
(* terminal_switch(t): the displayed screen goes to its buffer, that of t  *)
(* to the VGA memory; vid_mem(display_terminal) first makes 0xB8 the VGA   *)
(* memory, vid_mem(current_tid) maps the running terminal again.           *)
(***************************************************************************)
SwappedNotSaved(t) == [page EXCEPT ![Vga] = page[t]]
Swapped(t) == [page EXCEPT ![display_terminal] = page[Vga], ![Vga] = page[t]]

TerminalSwitch(t) ==
  /\ t # display_terminal
  /\ page' = Swapped(t)
  /\ display_terminal' = t
  /\ VidMem(turn, t)
  /\ UNCHANGED <<jobs, turn, bgmap, flagvars, vidmap_pc>>

Keyboard ==
  \/ \E x \in Texts : Echo(x)
  \/ \E t \in Terminals : TerminalSwitch(t)

Program ==
  \/ \E x \in Texts : Write(x)
  \/ \E j \in Jobs, x \in Texts : JobExecute(j, x) \/ JobRestart(j, x)
  \/ JobHalt
  \/ VidmapFlags \/ VidmapLook \/ VidmapMap

VideoNext == Tick \/ Keyboard \/ Program

VideoSpec == VideoInit /\ [][VideoNext]_allvideovars

-----------------------------------------------------------------------------

VideoTypeOK ==
  /\ display_terminal \in Terminals
  /\ page \in [Frames -> Texts]
  /\ kmap \in Frames
  /\ umap \in [present : {0, 1}, frame : Frames]
  /\ bgmap \in [Terminals -> {0, 1}]
  /\ cursor_of \in Terminals
  /\ term_vidmap \in [Terminals -> {0, 1}]
  /\ pcb_vidmap \in [Jobs -> {0, 1}]
  /\ vidmap_pc \in [Terminals -> {"no", "flagged", "shown", "hidden"}]
  /\ astray \subseteq {"vidmap", "overtaken", "halt"}

(***************************************************************************)
(* Whatever the order of ticks, key presses and system calls, what the     *)
(* kernel prints goes to the frame and moves the cursor of the terminal    *)
(* that runs (buglog.txt:624-628).                                         *)
(***************************************************************************)
KernelMapsRunning ==
  kmap = FrameOf(turn, display_terminal) /\ cursor_of = turn

(***************************************************************************)
(* A program that called vidmap keeps its screen page across ticks and     *)
(* terminal switches: the terminal remembers it while the program is on    *)
(* top, however many children it ran in between.                           *)
(***************************************************************************)
VidmapRemembered ==
  \A t \in Terminals :
    jobs[t] # <<>> /\ pcb_vidmap[Top(t)] = 1 => term_vidmap[t] = 1

(***************************************************************************)
(* "There should be separate locations for vidmap for different terminals" *)
(* (buglog.txt:595).  The page a program stores through leads to the       *)
(* screen of its own terminal, except after a vidmap whose store came      *)
(* after a terminal switch (syscall.c:597-599); and it is mapped when the  *)
(* terminal's flag says so and only then, except after a vidmap on a       *)
(* terminal that is not displayed, which maps another entry                *)
(* (syscall.c:601-604), and after a halt: paging_halt takes the page of a  *)
(* parent that has one, and leaves a hidden child's (syscall.c:516-519).   *)
(* Every tick, echo and terminal switch repairs it.                        *)
(***************************************************************************)
UserPageRight ==
  jobs[turn] # <<>> =>
    /\ "overtaken" \notin astray => umap.frame = FrameOf(turn, display_terminal)
    /\ astray = {} => umap.present = term_vidmap[turn]

(***************************************************************************)
(* Each terminal has its own screen: Video implements Screens.  The screen *)
(* of the displayed terminal is the VGA memory, that of another its        *)
(* buffer.                                                                 *)
(***************************************************************************)
ScreenOf == [t \in Terminals |-> page[FrameOf(t, display_terminal)]]

Abstract == INSTANCE Screens WITH screen <- ScreenOf, shown <- display_terminal

ImplementsScreens == Abstract!Spec

=============================================================================
