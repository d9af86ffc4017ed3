----------------------------- MODULE JobsProofs -----------------------------
(***************************************************************************)
(* What rests on the stacks of jobs: JobStacks, and Video and Rtc, whose   *)
(* steps are steps of its stacks. First what the stacks promise, for every *)
(* number of jobs and terminals: no job is on two of them, or twice on one *)
(* (JobsDistinct). Then the screens, then the virtual clocks.              *)
(***************************************************************************)
EXTENDS Video, Rtc, FiniteSetTheorems, SequenceTheorems, TLAPS

StacksTyped ==
  /\ jobs \in [Terminals -> Seq(Jobs)]
  /\ turn \in Terminals

(***************************************************************************)
(* No job is in two places.                                                *)
(***************************************************************************)
JobsDistinct ==
  \A t, u \in Terminals : \A i \in 1..Len(jobs[t]), k \in 1..Len(jobs[u]) :
    jobs[t][i] = jobs[u][k] => t = u /\ i = k

StacksOK == StacksTyped /\ JobsDistinct

-----------------------------------------------------------------------------

LEMMA NextTurnType ==
  ASSUME turn \in Terminals
  PROVE  NextTurn \in Terminals
BY NumTerminalsAssumption DEF NextTurn, Terminals

(***************************************************************************)
(* The job on top of a stack, and a job that is on none.                   *)
(***************************************************************************)
LEMMA TopJobType ==
  ASSUME StacksTyped, NEW t \in Terminals, jobs[t] # <<>>
  PROVE  /\ Len(jobs[t]) \in Nat \ {0}
         /\ Top(t) \in OnStack(t)
         /\ Top(t) \in Jobs
<1>1. jobs[t] \in Seq(Jobs)
  BY DEF StacksTyped
<1>2. Len(jobs[t]) \in Nat \ {0}
  BY <1>1
<1>3. Top(t) \in OnStack(t)
  BY <1>2 DEF Top, OnStack
<1>4. Top(t) \in Jobs
  BY <1>1, <1>2 DEF Top
<1>5. QED
  BY <1>2, <1>3, <1>4

LEMMA FreeIsElsewhere ==
  ASSUME NEW j \in Free, NEW t \in Terminals, NEW i \in 1..Len(jobs[t])
  PROVE  j \in Jobs /\ jobs[t][i] # j
<1>1. j \in Jobs /\ j \notin OnStack(t)
  BY DEF Free
<1>2. QED
  BY <1>1 DEF OnStack

-----------------------------------------------------------------------------

(***************************************************************************)
(* One stack u changes, to jobs that were on it or are free, each once.    *)
(***************************************************************************)
LEMMA OneStackChanges ==
  ASSUME StacksOK,
         NEW u \in Terminals, NEW s \in Seq(Jobs),
         jobs' = [jobs EXCEPT ![u] = s],
         turn' \in Terminals,
         \A i \in 1..Len(s) : s[i] \in Free \/ \E k \in 1..Len(jobs[u]) : s[i] = jobs[u][k],
         \A i, k \in 1..Len(s) : s[i] = s[k] => i = k
  PROVE  StacksOK'
<1>1. StacksTyped'
  BY DEF StacksOK, StacksTyped
<1>2. jobs'[u] = s /\ \A t \in Terminals : t # u => jobs'[t] = jobs[t]
  BY DEF StacksOK, StacksTyped
<1>3. ASSUME NEW t \in Terminals, t # u, NEW i \in 1..Len(s), NEW k \in 1..Len(jobs[t])
      PROVE  s[i] # jobs[t][k]
  <2>1. CASE s[i] \in Free
    BY <2>1, FreeIsElsewhere
  <2>2. CASE \E n \in 1..Len(jobs[u]) : s[i] = jobs[u][n]
    BY <1>3, <2>2 DEF StacksOK, JobsDistinct
  <2>3. QED
    BY <2>1, <2>2
<1>4. JobsDistinct'
  <2>1. SUFFICES ASSUME NEW t \in Terminals, NEW v \in Terminals,
                        NEW i \in 1..Len(jobs'[t]), NEW k \in 1..Len(jobs'[v]),
                        jobs'[t][i] = jobs'[v][k]
                 PROVE  t = v /\ i = k
    BY DEF JobsDistinct
  <2>2. CASE t # u /\ v # u
    BY <1>2, <2>1, <2>2 DEF StacksOK, JobsDistinct
  <2>3. CASE t = u /\ v # u
    BY <1>2, <1>3, <2>1, <2>3
  <2>4. CASE t # u /\ v = u
    BY <1>2, <1>3, <2>1, <2>4
  <2>5. CASE t = u /\ v = u
    BY <1>2, <2>1, <2>5
  <2>6. QED
    BY <2>2, <2>3, <2>4, <2>5
<1>5. QED
  BY <1>1, <1>4 DEF StacksOK

LEMMA StacksInit ==
  ASSUME Init
  PROVE  StacksOK
<1>1. 0 \in Terminals
  BY NumTerminalsAssumption DEF Terminals
<1>2. \A t \in Terminals : jobs[t] = <<>>
  BY DEF Init
<1>3. QED
  BY <1>1, <1>2 DEF Init, StacksOK, StacksTyped, JobsDistinct

LEMMA LaunchStacks ==
  ASSUME StacksOK, NEW j \in Jobs, Launch(j)
  PROVE  StacksOK'
<1>. DEFINE q == jobs[turn]
            s == Append(q, j)
<1>1. q \in Seq(Jobs) /\ turn \in Terminals
  BY DEF StacksOK, StacksTyped
<1>2. s \in Seq(Jobs) /\ Len(s) = Len(q) + 1 /\ Len(q) \in Nat
      /\ \A i \in 1..Len(s) : s[i] = IF i = Len(q) + 1 THEN j ELSE q[i]
  BY <1>1
<1>3. j \in Free /\ \A i \in 1..Len(q) : q[i] # j
  BY <1>1, FreeIsElsewhere DEF Launch
<1>4. \A i, k \in 1..Len(q) : q[i] = q[k] => i = k
  BY <1>1 DEF StacksOK, JobsDistinct
<1>5. jobs' = [jobs EXCEPT ![turn] = s] /\ turn' = turn
  BY DEF Launch
<1>6. \A i \in 1..Len(s) : s[i] \in Free \/ \E k \in 1..Len(q) : s[i] = q[k]
  BY <1>2, <1>3
<1>7. \A i, k \in 1..Len(s) : s[i] = s[k] => i = k
  <2>. HIDE DEF s, q
  <2>1. QED
    BY <1>2, <1>3, <1>4
<1>. HIDE DEF s
<1>8. QED
  BY <1>1, <1>2, <1>5, <1>6, <1>7, OneStackChanges

LEMMA FinishStacks ==
  ASSUME StacksOK, Finish
  PROVE  StacksOK'
<1>. DEFINE q == jobs[turn]
            s == SubSeq(q, 1, Len(q) - 1)
<1>1. q \in Seq(Jobs) /\ turn \in Terminals
  BY DEF StacksOK, StacksTyped
<1>2. s \in Seq(Jobs) /\ \A i \in 1..Len(s) : i \in 1..Len(q) /\ s[i] = q[i]
  BY <1>1
<1>3. \A i, k \in 1..Len(q) : q[i] = q[k] => i = k
  BY <1>1 DEF StacksOK, JobsDistinct
<1>4. jobs' = [jobs EXCEPT ![turn] = s] /\ turn' = turn
  BY DEF Finish
<1>5. /\ \A i \in 1..Len(s) : \E k \in 1..Len(q) : s[i] = q[k]
      /\ \A i, k \in 1..Len(s) : s[i] = s[k] => i = k
  <2>. HIDE DEF s, q
  <2>1. QED
    BY <1>2, <1>3
<1>. HIDE DEF s
<1>6. QED
  BY <1>1, <1>2, <1>4, <1>5, OneStackChanges

LEMMA RestartStacks ==
  ASSUME StacksOK, NEW j \in Jobs, Restart(j)
  PROVE  StacksOK'
<1>. DEFINE s == <<j>>
<1>1. turn \in Terminals /\ s \in Seq(Jobs) /\ Len(s) = 1 /\ s[1] = j
  BY DEF StacksOK, StacksTyped
<1>2. j \in Free \/ \E k \in 1..Len(jobs[turn]) : j = jobs[turn][k]
  BY DEF Restart, OnStack
<1>3. jobs' = [jobs EXCEPT ![turn] = s] /\ turn' = turn
  BY DEF Restart
<1>. HIDE DEF s
<1>4. /\ \A i \in 1..Len(s) : s[i] \in Free \/ \E k \in 1..Len(jobs[turn]) : s[i] = jobs[turn][k]
      /\ \A i, k \in 1..Len(s) : s[i] = s[k] => i = k
  BY <1>1, <1>2
<1>5. QED
  BY <1>1, <1>3, <1>4, OneStackChanges

LEMMA FirstStacks ==
  ASSUME StacksOK, NEW j \in Jobs, First(j)
  PROVE  StacksOK'
<1>. PICK u \in Terminals : u = turn'
  BY NextTurnType DEF First, StacksOK, StacksTyped
<1>. DEFINE s == <<j>>
<1>1. s \in Seq(Jobs) /\ Len(s) = 1 /\ s[1] = j
  OBVIOUS
<1>2. j \in Free /\ jobs' = [jobs EXCEPT ![u] = s]
  BY DEF First
<1>. HIDE DEF s
<1>3. /\ \A i \in 1..Len(s) : s[i] \in Free
      /\ \A i, k \in 1..Len(s) : s[i] = s[k] => i = k
  BY <1>1, <1>2
<1>4. turn' \in Terminals
  OBVIOUS
<1>5. QED
  BY <1>1, <1>2, <1>3, <1>4, OneStackChanges

LEMMA SameStacks ==
  ASSUME StacksOK, UNCHANGED jobs, turn' \in Terminals
  PROVE  StacksOK'
BY DEF StacksOK, StacksTyped, JobsDistinct

-----------------------------------------------------------------------------

(***************************************************************************)
(* However jobs start and end, none is ever on two stacks or twice on one: *)
(* no process runs on two terminals, none waits for itself.                *)
(***************************************************************************)
THEOREM StacksCorrect == Spec => []StacksOK
<1>1. Init => StacksOK
  BY StacksInit
<1>2. StacksOK /\ [Next]_vars => StacksOK'
  <2>. SUFFICES ASSUME StacksOK, [Next]_vars
                PROVE  StacksOK'
    OBVIOUS
  <2>1. turn \in Terminals /\ NextTurn \in Terminals
    BY NextTurnType DEF StacksOK, StacksTyped
  <2>2. CASE Rotate \/ NoShell
    BY <2>1, <2>2, SameStacks DEF Rotate, NoShell
  <2>3. CASE UNCHANGED vars
    BY <2>1, <2>3, SameStacks DEF vars
  <2>4. CASE Finish
    BY <2>4, FinishStacks
  <2>5. CASE \E j \in Jobs : Launch(j) \/ Restart(j) \/ First(j)
    BY <2>5, LaunchStacks, RestartStacks, FirstStacks
  <2>6. QED
    BY <2>2, <2>3, <2>4, <2>5 DEF Next
<1>3. QED
  BY <1>1, <1>2, PTL DEF Spec

-----------------------------------------------------------------------------

(***************************************************************************)
(* Video: where the screens lead, for every number of jobs, terminals and  *)
(* texts: its invariants and the refinement of Screens.                    *)
(*                                                                         *)
(* KernelMapsRunning and the types are inductive together. The vidmap      *)
(* flags need one more fact, about the stacks of jobs: vidmap sets the     *)
(* flag of the top job of the running terminal, and that job is not the    *)
(* top of another terminal, whose own flag may be clear (JobsDistinct).    *)
(* The user page needs that the terminal's flag is still set when vidmap   *)
(* comes to the page table (VidmapUnderWay).                               *)
(***************************************************************************)

VidmapUnderWay == \A t \in Terminals : vidmap_pc[t] # "no" => term_vidmap[t] = 1

VInv ==
  /\ StacksOK
  /\ VideoTypeOK
  /\ KernelMapsRunning
  /\ VidmapRemembered
  /\ VidmapUnderWay
  /\ UserPageRight

-----------------------------------------------------------------------------

(***************************************************************************)
(* FrameOf gives every terminal a frame of its own, the displayed one the  *)
(* VGA memory.                                                             *)
(***************************************************************************)
LEMMA FrameOfType ==
  ASSUME NEW t \in Terminals, NEW d
  PROVE  FrameOf(t, d) \in Frames
BY DEF FrameOf, Frames

LEMMA FrameOfInjective ==
  ASSUME NEW t \in Terminals, NEW u \in Terminals, NEW d, t # u
  PROVE  FrameOf(t, d) # FrameOf(u, d)
BY NumTerminalsAssumption DEF FrameOf, Vga, Terminals

(***************************************************************************)
(* The job on top of a stack is on top of no other.                        *)
(***************************************************************************)
LEMMA VideoTop ==
  ASSUME StacksOK, NEW t \in Terminals, jobs[t] # <<>>
  PROVE  Top(t) \in Jobs
BY TopJobType DEF StacksOK, Top

LEMMA TopsDiffer ==
  ASSUME StacksOK, NEW t \in Terminals, NEW u \in Terminals, t # u,
         jobs[t] # <<>>, jobs[u] # <<>>
  PROVE  Top(t) # Top(u)
<1>1. Len(jobs[t]) \in 1..Len(jobs[t]) /\ Len(jobs[u]) \in 1..Len(jobs[u])
  BY TopJobType DEF StacksOK
<1>2. QED
  BY <1>1 DEF StacksOK, JobsDistinct, Top

-----------------------------------------------------------------------------

(***************************************************************************)
(* Boot.                                                                   *)
(***************************************************************************)
LEMMA VideoInitInv ==
  ASSUME VideoInit
  PROVE  VInv
<1>1. StacksOK
  BY StacksInit DEF VideoInit
<1>2. 0 \in Terminals
  BY NumTerminalsAssumption DEF Terminals
<1>3. VideoTypeOK
  BY <1>2 DEF VideoInit, VideoTypeOK, Frames
<1>4. KernelMapsRunning
  BY DEF VideoInit, Init, KernelMapsRunning, FrameOf
<1>5. VidmapRemembered
  BY DEF VideoInit, Init, VidmapRemembered
<1>6. VidmapUnderWay /\ UserPageRight
  BY <1>2 DEF VideoInit, Init, VidmapUnderWay, UserPageRight
<1>7. QED
  BY <1>1, <1>3, <1>4, <1>5, <1>6 DEF VInv

(***************************************************************************)
(* What the kernel does for a new job leaves every flag as the invariant   *)
(* wants it: only the flag of the new job changes, to zero.  u is the      *)
(* stack the job starts on; it may be the only change of any stack.        *)
(***************************************************************************)
LEMMA NewJobRemembered ==
  ASSUME VInv, NEW j \in Jobs, NEW u \in Terminals,
         jobs'[u] # <<>> /\ Top(u)' = j,
         \A t \in Terminals : t # u => jobs'[t] = jobs[t],
         PcbCleared(j), UNCHANGED term_vidmap
  PROVE  VidmapRemembered'
<1>1. pcb_vidmap'[j] = 0
  BY DEF PcbCleared, VInv, VideoTypeOK
<1>2. ASSUME NEW t \in Terminals, t # u, jobs'[t] # <<>>, pcb_vidmap'[Top(t)'] = 1
      PROVE  term_vidmap'[t] = 1
  <2>1. jobs[t] # <<>> /\ Top(t)' = Top(t)
    BY <1>2 DEF Top
  <2>2. pcb_vidmap[Top(t)] = 1
    BY <1>2, <2>1, VideoTop DEF PcbCleared, VInv, VideoTypeOK
  <2>3. QED
    BY <2>1, <2>2 DEF VInv, VidmapRemembered
<1>3. QED
  BY <1>1, <1>2 DEF VidmapRemembered

(***************************************************************************)
(* A step that changes neither stacks nor flags.                           *)
(***************************************************************************)
LEMMA SameRemembered ==
  ASSUME VidmapRemembered, UNCHANGED jobs, UNCHANGED flagvars
  PROVE  VidmapRemembered'
BY DEF VidmapRemembered, Top, flagvars

(***************************************************************************)
(* vid_mem for terminal t while terminal d is displayed.                   *)
(***************************************************************************)
LEMMA VidMemType ==
  ASSUME VideoTypeOK, NEW t \in Terminals, NEW d, VidMem(t, d)
  PROVE  /\ kmap' \in Frames
         /\ umap' \in [present : {0, 1}, frame : Frames]
         /\ cursor_of' \in Terminals
         /\ astray' = {}
BY FrameOfType DEF VidMem, UserPage, VideoTypeOK

(***************************************************************************)
(* The user page after vid_mem, and after a step that leaves it alone.     *)
(***************************************************************************)
LEMMA VidMemRepairs ==
  ASSUME umap' = [present |-> term_vidmap'[turn'], frame |-> FrameOf(turn', display_terminal')]
  PROVE  UserPageRight'
BY DEF UserPageRight, FrameOf

LEMMA SamePageRight ==
  ASSUME UserPageRight, jobs[turn] # <<>>,
         UNCHANGED <<turn, display_terminal, umap, term_vidmap, astray>>
  PROVE  UserPageRight'
BY DEF UserPageRight, FrameOf

LEMMA SameUnderWay ==
  ASSUME VidmapUnderWay, UNCHANGED <<term_vidmap, vidmap_pc>>
  PROVE  VidmapUnderWay'
BY DEF VidmapUnderWay

-----------------------------------------------------------------------------

(***************************************************************************)
(* The programs.                                                           *)
(***************************************************************************)
LEMMA WriteInv ==
  ASSUME VInv, NEW x \in Texts, Write(x)
  PROVE  VInv'
<1>. USE DEF Write
<1>1. StacksOK'
  BY SameStacks DEF VInv, StacksOK, StacksTyped
<1>2. VideoTypeOK'
  BY DEF VInv, VideoTypeOK, PrintLine, mapvars, flagvars
<1>3. KernelMapsRunning'
  BY DEF VInv, KernelMapsRunning, mapvars
<1>4. VidmapRemembered'
  BY SameRemembered DEF VInv
<1>5. VidmapUnderWay' /\ UserPageRight'
  BY SameUnderWay, SamePageRight DEF VInv, Runs, mapvars, flagvars
<1>6. QED
  BY <1>1, <1>2, <1>3, <1>4, <1>5 DEF VInv

(***************************************************************************)
(* The job a launch or a restart puts on top.                              *)
(***************************************************************************)
LEMMA TopOfAppend ==
  ASSUME NEW s \in Seq(Jobs), NEW j \in Jobs
  PROVE  Append(s, j) # <<>> /\ Append(s, j)[Len(Append(s, j))] = j
<1>1. /\ Append(s, j) \in Seq(Jobs) /\ Len(Append(s, j)) = Len(s) + 1
      /\ Append(s, j)[Len(s) + 1] = j
  BY AppendProperties
<1>2. Len(s) + 1 # 0
  BY LenProperties
<1>3. QED
  BY <1>1, <1>2, EmptySeq

LEMMA TopOfOne ==
  ASSUME NEW j
  PROVE  <<j>> # <<>> /\ <<j>>[Len(<<j>>)] = j
<1>1. Len(<<j>>) = 1 /\ <<j>>[1] = j
  OBVIOUS
<1>2. <<j>> # <<>>
  OBVIOUS
<1>3. QED
  BY <1>1, <1>2

LEMMA JobExecuteInv ==
  ASSUME VInv, NEW j \in Jobs, NEW x \in Texts, JobExecute(j, x)
  PROVE  VInv'
<1>. USE DEF JobExecute
<1>1. StacksOK'
  BY LaunchStacks DEF VInv
<1>2. VideoTypeOK'
  BY DEF VInv, VideoTypeOK, PrintLine, PcbCleared, mapvars
<1>3. KernelMapsRunning'
  BY DEF VInv, KernelMapsRunning, Launch, mapvars
<1>4. VidmapRemembered'
  <2>1. turn \in Terminals /\ jobs[turn] \in Seq(Jobs)
    BY DEF VInv, StacksOK, StacksTyped
  <2>2. jobs'[turn] = Append(jobs[turn], j)
        /\ \A t \in Terminals : t # turn => jobs'[t] = jobs[t]
    BY DEF Launch, VInv, StacksOK, StacksTyped
  <2>3. Append(jobs[turn], j) # <<>>
        /\ Append(jobs[turn], j)[Len(Append(jobs[turn], j))] = j
    BY <2>1, TopOfAppend
  <2>. DEFINE u == turn
  <2>4. jobs'[u] # <<>> /\ jobs'[u][Len(jobs'[u])] = j
    BY <2>2, <2>3
  <2>5. QED
    BY <2>1, <2>2, <2>4, NewJobRemembered DEF Top
<1>5. VidmapUnderWay' /\ UserPageRight'
  BY SameUnderWay, SamePageRight DEF VInv, Runs, Launch, mapvars
<1>6. QED
  BY <1>1, <1>2, <1>3, <1>4, <1>5 DEF VInv

LEMMA JobRestartInv ==
  ASSUME VInv, NEW j \in Jobs, NEW x \in Texts, JobRestart(j, x)
  PROVE  VInv'
<1>. USE DEF JobRestart
<1>1. StacksOK'
  BY RestartStacks DEF VInv
<1>2. VideoTypeOK'
  BY DEF VInv, VideoTypeOK, PrintLine, PcbCleared, mapvars
<1>3. KernelMapsRunning'
  BY DEF VInv, KernelMapsRunning, Restart, mapvars
<1>4. VidmapRemembered'
  <2>1. turn \in Terminals
    BY DEF VInv, StacksOK, StacksTyped
  <2>2. jobs'[turn] = <<j>> /\ \A t \in Terminals : t # turn => jobs'[t] = jobs[t]
    BY DEF Restart, VInv, StacksOK, StacksTyped
  <2>3. QED
    BY <2>1, <2>2, TopOfOne, NewJobRemembered DEF Top
<1>5. VidmapUnderWay' /\ UserPageRight'
  BY SameUnderWay, SamePageRight DEF VInv, Runs, Restart, mapvars
<1>6. QED
  BY <1>1, <1>2, <1>3, <1>4, <1>5 DEF VInv

LEMMA JobHaltInv ==
  ASSUME VInv, JobHalt
  PROVE  VInv'
<1>. USE DEF JobHalt
<1>1. StacksOK'
  BY FinishStacks DEF VInv
<1>2. /\ turn \in Terminals /\ turn' = turn
      /\ jobs[turn] \in Seq(Jobs) /\ Len(jobs[turn]) > 1
      /\ jobs'[turn] = SubSeq(jobs[turn], 1, Len(jobs[turn]) - 1)
      /\ \A t \in Terminals : t # turn => jobs'[t] = jobs[t]
  BY DEF VInv, StacksOK, StacksTyped, Finish
<1>3. /\ Top(turn)' = jobs[turn][Len(jobs[turn]) - 1]
      /\ jobs[turn][Len(jobs[turn]) - 1] \in Jobs
  BY <1>2 DEF Top
<1>4. ParentFlag = pcb_vidmap[Top(turn)'] /\ ParentFlag \in {0, 1}
  BY <1>3 DEF ParentFlag, ParentJob, VInv, VideoTypeOK
<1>5. VideoTypeOK'
  BY <1>4 DEF VInv, VideoTypeOK, PagingHalt
<1>6. KernelMapsRunning'
  BY <1>2 DEF VInv, KernelMapsRunning
<1>7. VidmapRemembered'
  <2>1. ASSUME pcb_vidmap'[Top(turn)'] = 1
        PROVE  term_vidmap'[turn] = 1
    BY <1>2, <1>4, <2>1 DEF VInv, VideoTypeOK
  <2>2. ASSUME NEW t \in Terminals, t # turn, jobs'[t] # <<>>, pcb_vidmap'[Top(t)'] = 1
        PROVE  term_vidmap'[t] = 1
    <3>1. jobs[t] # <<>> /\ Top(t)' = Top(t)
      BY <1>2, <2>2 DEF Top
    <3>2. QED
      BY <2>2, <3>1 DEF VInv, VidmapRemembered, VideoTypeOK
  <2>3. QED
    BY <1>2, <2>1, <2>2 DEF VidmapRemembered, Top
<1>8. VidmapUnderWay'
  BY <1>2 DEF VInv, VideoTypeOK, VidmapUnderWay, Runs
<1>9. UserPageRight'
  <2>1. ParentFlag = pcb_vidmap[ParentJob]
    BY DEF ParentFlag
  <2>2. jobs[turn] # <<>> /\ UNCHANGED display_terminal
    BY DEF Runs
  <2>3. term_vidmap'[turn] = ParentFlag
    BY <1>2 DEF VInv, VideoTypeOK
  <2>4. umap'.frame = umap.frame /\ ("overtaken" \notin astray' => "overtaken" \notin astray)
    BY DEF VInv, VideoTypeOK, PagingHalt
  <2>5. ASSUME astray' = {}
        PROVE  umap'.present = ParentFlag
    <3>1. ~PageLeftWrong /\ astray = {}
      BY <2>5
    <3>2. CASE display_terminal = turn
      BY <1>4, <2>1, <3>1, <3>2 DEF PageLeftWrong, PagingHalt, VInv, VideoTypeOK
    <3>3. CASE display_terminal # turn
      <4>1. term_vidmap[turn] = ParentFlag /\ umap' = umap
        BY <2>1, <3>1, <3>3 DEF PageLeftWrong, PagingHalt
      <4>2. umap.present = term_vidmap[turn]
        BY <2>2, <3>1 DEF VInv, UserPageRight
      <4>3. QED
        BY <4>1, <4>2
    <3>4. QED
      BY <3>2, <3>3
  <2>6. "overtaken" \notin astray' => umap'.frame = FrameOf(turn', display_terminal')
    BY <1>2, <2>2, <2>4 DEF VInv, UserPageRight, FrameOf
  <2>7. QED
    BY <1>2, <2>3, <2>5, <2>6 DEF UserPageRight
<1>10. QED
  BY <1>1, <1>5, <1>6, <1>7, <1>8, <1>9 DEF VInv

(***************************************************************************)
(* vidmap: the flag of a job and that of its terminal are set in one step. *)
(* A terminal whose own flag is not set has another job on top.            *)
(***************************************************************************)
LEMMA VidmapFlagsInv ==
  ASSUME VInv, VidmapFlags
  PROVE  VInv'
<1>. USE DEF VidmapFlags
<1>1. StacksOK'
  BY SameStacks DEF VInv, StacksOK, StacksTyped
<1>2. turn \in Terminals /\ jobs[turn] # <<>> /\ Top(turn) \in Jobs
  BY VideoTop DEF VInv, StacksOK, StacksTyped, Runs
<1>3. VideoTypeOK'
  BY <1>2 DEF VInv, VideoTypeOK, mapvars
<1>4. KernelMapsRunning'
  BY DEF VInv, KernelMapsRunning, mapvars
<1>5. VidmapRemembered'
  <2>1. ASSUME NEW t \in Terminals, jobs[t] # <<>>, pcb_vidmap'[Top(t)] = 1, t # turn
        PROVE  term_vidmap'[t] = 1
    <3>1. Top(t) # Top(turn) /\ Top(t) \in Jobs
      BY <1>2, <2>1, VideoTop, TopsDiffer DEF VInv
    <3>2. pcb_vidmap[Top(t)] = 1
      BY <2>1, <3>1 DEF VInv, VideoTypeOK
    <3>3. QED
      BY <2>1, <3>2 DEF VInv, VidmapRemembered, VideoTypeOK
  <2>2. term_vidmap'[turn] = 1
    BY <1>2 DEF VInv, VideoTypeOK
  <2>3. QED
    BY <2>1, <2>2 DEF VidmapRemembered, Top
<1>6. VidmapUnderWay'
  BY <1>2 DEF VInv, VideoTypeOK, VidmapUnderWay
<1>7. UserPageRight'
  <2>1. term_vidmap'[turn] = 1 /\ UNCHANGED <<turn, display_terminal, umap>>
    BY <1>2 DEF VInv, VideoTypeOK, mapvars
  <2>2. "overtaken" \notin astray' => "overtaken" \notin astray
    OBVIOUS
  <2>3. astray' = {} => astray = {} /\ term_vidmap[turn] = 1
    OBVIOUS
  <2>4. QED
    BY <1>2, <2>1, <2>2, <2>3 DEF VInv, UserPageRight, FrameOf
<1>8. QED
  BY <1>1, <1>3, <1>4, <1>5, <1>6, <1>7 DEF VInv

LEMMA VidmapLookInv ==
  ASSUME VInv, VidmapLook
  PROVE  VInv'
<1>. USE DEF VidmapLook
<1>1. StacksOK'
  BY SameStacks DEF VInv, StacksOK, StacksTyped
<1>2. VideoTypeOK'
  BY DEF VInv, VideoTypeOK, mapvars, flagvars
<1>3. KernelMapsRunning'
  BY DEF VInv, KernelMapsRunning, mapvars
<1>4. VidmapRemembered'
  BY SameRemembered DEF VInv
<1>5. VidmapUnderWay'
  BY DEF VInv, VideoTypeOK, StacksOK, StacksTyped, VidmapUnderWay, flagvars
<1>6. UserPageRight'
  BY DEF VInv, UserPageRight, FrameOf, mapvars, flagvars
<1>7. QED
  BY <1>1, <1>2, <1>3, <1>4, <1>5, <1>6 DEF VInv

LEMMA VidmapMapInv ==
  ASSUME VInv, VidmapMap
  PROVE  VInv'
<1>. USE DEF VidmapMap
<1>1. StacksOK'
  BY SameStacks DEF VInv, StacksOK, StacksTyped
<1>2. VideoTypeOK'
  <2>1. umap' \in [present : {0, 1}, frame : Frames]
    BY DEF VInv, VideoTypeOK, Frames
  <2>2. bgmap' \in [Terminals -> {0, 1}]
    BY DEF VInv, VideoTypeOK
  <2>3. QED
    BY <2>1, <2>2 DEF VInv, VideoTypeOK, flagvars
<1>3. KernelMapsRunning'
  BY DEF VInv, KernelMapsRunning
<1>4. VidmapRemembered'
  BY SameRemembered DEF VInv
<1>5. VidmapUnderWay'
  BY DEF VInv, VideoTypeOK, VidmapUnderWay, flagvars
<1>6. UserPageRight'
  <2>1. UNCHANGED <<jobs, turn, display_terminal, term_vidmap>> /\ turn \in Terminals
    BY DEF flagvars, VInv, StacksOK, StacksTyped
  <2>2. CASE vidmap_pc[turn] = "shown"
    <3>1. umap' = [present |-> 1, frame |-> Vga] /\ term_vidmap[turn] = 1
      BY <2>1, <2>2 DEF VInv, VidmapUnderWay
    <3>2. "overtaken" \notin astray' => display_terminal = turn
      BY <2>2
    <3>3. QED
      BY <2>1, <3>1, <3>2 DEF UserPageRight, FrameOf
  <2>3. CASE vidmap_pc[turn] = "hidden"
    <3>1. UNCHANGED <<umap, astray>>
      BY <2>3
    <3>2. QED
      BY <2>1, <3>1 DEF VInv, UserPageRight, FrameOf
  <2>4. QED
    BY <2>2, <2>3
<1>7. QED
  BY <1>1, <1>2, <1>3, <1>4, <1>5, <1>6 DEF VInv

-----------------------------------------------------------------------------

(***************************************************************************)
(* The timer and the keyboard.                                             *)
(***************************************************************************)
LEMMA TickRotateInv ==
  ASSUME VInv, TickRotate
  PROVE  VInv'
<1>. USE DEF TickRotate
<1>1. turn' \in Terminals /\ UNCHANGED jobs
  BY NextTurnType DEF VInv, StacksOK, StacksTyped, Rotate
<1>2. StacksOK'
  BY <1>1, SameStacks DEF VInv
<1>. DEFINE u == turn'
<1>. HIDE DEF u
<1>3. /\ kmap' \in Frames
      /\ umap' \in [present : {0, 1}, frame : Frames]
      /\ cursor_of' \in Terminals
      /\ astray' = {}
  <2>1. u \in Terminals /\ VidMem(u, display_terminal)
    BY <1>1 DEF u
  <2>2. QED
    BY <2>1, VidMemType DEF VInv
<1>4. VideoTypeOK'
  BY <1>3 DEF VInv, VideoTypeOK, flagvars
<1>5. KernelMapsRunning'
  BY DEF KernelMapsRunning, VidMem, FrameOf
<1>6. VidmapRemembered'
  BY <1>1, SameRemembered DEF VInv
<1>7. VidmapUnderWay'
  BY SameUnderWay DEF VInv, flagvars
<1>8. UserPageRight'
  BY VidMemRepairs DEF VidMem, UserPage, FrameOf, flagvars
<1>9. QED
  BY <1>2, <1>4, <1>5, <1>6, <1>7, <1>8 DEF VInv

LEMMA TickFirstInv ==
  ASSUME VInv, NEW j \in Jobs, NEW x \in Texts, TickFirst(j, x)
  PROVE  VInv'
<1>. USE DEF TickFirst
<1>1. turn' \in Terminals
  BY NextTurnType DEF VInv, StacksOK, StacksTyped, First
<1>2. StacksOK'
  BY FirstStacks DEF VInv
<1>. DEFINE u == turn'
<1>3. u \in Terminals /\ VidMem(u, display_terminal)
  BY <1>1
<1>4. jobs'[u] = <<j>> /\ \A t \in Terminals : t # u => jobs'[t] = jobs[t]
  BY <1>1 DEF First, VInv, StacksOK, StacksTyped
<1>. HIDE DEF u
<1>5. /\ kmap' \in Frames
      /\ umap' \in [present : {0, 1}, frame : Frames]
      /\ cursor_of' \in Terminals
      /\ astray' = {}
  BY <1>3, VidMemType DEF VInv
<1>6. VideoTypeOK'
  BY <1>5 DEF VInv, VideoTypeOK, PcbCleared
<1>7. KernelMapsRunning'
  BY DEF KernelMapsRunning, VidMem, FrameOf
<1>8. VidmapRemembered'
  BY <1>3, <1>4, TopOfOne, NewJobRemembered DEF Top
<1>9. VidmapUnderWay'
  BY SameUnderWay DEF VInv, flagvars
<1>10. UserPageRight'
  BY VidMemRepairs DEF VidMem, UserPage, FrameOf, flagvars
<1>11. QED
  BY <1>2, <1>6, <1>7, <1>8, <1>9, <1>10 DEF VInv

LEMMA EchoInv ==
  ASSUME VInv, NEW x \in Texts, Echo(x)
  PROVE  VInv'
<1>. USE DEF Echo
<1>1. StacksOK'
  BY SameStacks DEF VInv, StacksOK, StacksTyped
<1>2. VideoTypeOK'
  BY VidMemType DEF VInv, StacksOK, StacksTyped, VideoTypeOK, flagvars
<1>3. KernelMapsRunning'
  BY DEF KernelMapsRunning, VidMem
<1>4. VidmapRemembered'
  BY SameRemembered DEF VInv
<1>5. VidmapUnderWay'
  BY SameUnderWay DEF VInv, flagvars
<1>6. UserPageRight'
  BY VidMemRepairs DEF VidMem, UserPage, FrameOf, flagvars
<1>7. QED
  BY <1>1, <1>2, <1>3, <1>4, <1>5, <1>6 DEF VInv

LEMMA TerminalSwitchInv ==
  ASSUME VInv, NEW t \in Terminals, TerminalSwitch(t)
  PROVE  VInv'
<1>. USE DEF TerminalSwitch
<1>1. StacksOK'
  BY SameStacks DEF VInv, StacksOK, StacksTyped
<1>2. VideoTypeOK'
  <2>1. page' \in [Frames -> Texts]
    BY DEF VInv, VideoTypeOK, Swapped, Frames
  <2>2. QED
    BY <2>1, VidMemType DEF VInv, StacksOK, StacksTyped, VideoTypeOK, flagvars
<1>3. KernelMapsRunning'
  BY DEF KernelMapsRunning, VidMem
<1>4. VidmapRemembered'
  BY SameRemembered DEF VInv
<1>5. VidmapUnderWay'
  BY SameUnderWay DEF VInv, flagvars
<1>6. UserPageRight'
  BY VidMemRepairs DEF VidMem, UserPage, FrameOf, flagvars
<1>7. QED
  BY <1>1, <1>2, <1>3, <1>4, <1>5, <1>6 DEF VInv

LEMMA VideoStutterInv ==
  ASSUME VInv, UNCHANGED allvideovars
  PROVE  VInv'
<1>. USE DEF allvideovars, videovars, mapvars, flagvars
<1>1. StacksOK'
  BY SameStacks DEF VInv, StacksOK, StacksTyped
<1>2. VideoTypeOK' /\ KernelMapsRunning'
  BY DEF VInv, VideoTypeOK, KernelMapsRunning
<1>3. VidmapRemembered'
  BY SameRemembered DEF VInv
<1>4. VidmapUnderWay'
  BY SameUnderWay DEF VInv
<1>5. UserPageRight'
  BY DEF VInv, UserPageRight, FrameOf
<1>6. QED
  BY <1>1, <1>2, <1>3, <1>4, <1>5 DEF VInv

-----------------------------------------------------------------------------

(***************************************************************************)
(* The inductive invariant holds in every state of every behaviour.        *)
(***************************************************************************)
THEOREM VideoInvariance == VideoSpec => []VInv
<1>1. VideoInit => VInv
  BY VideoInitInv
<1>2. VInv /\ [VideoNext]_allvideovars => VInv'
  <2>. SUFFICES ASSUME VInv, [VideoNext]_allvideovars
                PROVE  VInv'
    OBVIOUS
  <2>1. CASE Tick
    BY <2>1, TickRotateInv, TickFirstInv DEF Tick
  <2>2. CASE Keyboard
    BY <2>2, EchoInv, TerminalSwitchInv DEF Keyboard
  <2>3. CASE Program
    BY <2>3, WriteInv, JobExecuteInv, JobRestartInv, JobHaltInv, VidmapFlagsInv,
       VidmapLookInv, VidmapMapInv DEF Program
  <2>4. CASE UNCHANGED allvideovars
    BY <2>4, VideoStutterInv
  <2>5. QED
    BY <2>1, <2>2, <2>3, <2>4 DEF VideoNext
<1>3. QED
  BY <1>1, <1>2, PTL DEF VideoSpec

(***************************************************************************)
(* Every mapping leads to a frame of a screen, every flag is a flag.       *)
(***************************************************************************)
THEOREM VideoTypeCorrect == VideoSpec => []VideoTypeOK
<1>1. VInv => VideoTypeOK
  BY DEF VInv
<1>2. QED
  BY <1>1, VideoInvariance, PTL

(***************************************************************************)
(* No order of ticks, keys and system calls makes the kernel print on the  *)
(* screen, or move the cursor, of a terminal that does not run.            *)
(***************************************************************************)
THEOREM KernelPageCorrect == VideoSpec => []KernelMapsRunning
<1>1. VInv => KernelMapsRunning
  BY DEF VInv
<1>2. QED
  BY <1>1, VideoInvariance, PTL

(***************************************************************************)
(* A program that called vidmap is remembered by its terminal whenever it  *)
(* is on top, whatever its children and the other terminals did.           *)
(***************************************************************************)
THEOREM VidmapFlagCorrect == VideoSpec => []VidmapRemembered
<1>1. VInv => VidmapRemembered
  BY DEF VInv
<1>2. QED
  BY <1>1, VideoInvariance, PTL

(***************************************************************************)
(* The page programs store through leads to their own terminal's screen    *)
(* and is mapped for those who asked for it, after any ticks, switches,    *)
(* starts and halts, except in the three cases astray names.               *)
(***************************************************************************)
THEOREM UserPageCorrect == VideoSpec => []UserPageRight
<1>1. VInv => UserPageRight
  BY DEF VInv
<1>2. QED
  BY <1>1, VideoInvariance, PTL

-----------------------------------------------------------------------------

(***************************************************************************)
(* The frame of a terminal written to changes that terminal's screen and   *)
(* no other.                                                               *)
(***************************************************************************)
LEMMA OneScreenWritten ==
  ASSUME VideoTypeOK, NEW t \in Terminals, NEW x \in Texts,
         page' = [page EXCEPT ![FrameOf(t, display_terminal)] = x],
         UNCHANGED display_terminal
  PROVE  ScreenOf' = [ScreenOf EXCEPT ![t] = x]
<1>. DEFINE d == display_terminal
            F(u) == FrameOf(u, d)
<1>1. \A u \in Terminals : F(u) \in Frames
  BY FrameOfType
<1>2. \A u \in Terminals : u # t => F(u) # F(t)
  BY FrameOfInjective
<1>3. ScreenOf = [u \in Terminals |-> page[F(u)]]
      /\ ScreenOf' = [u \in Terminals |-> page'[F(u)]]
  BY DEF ScreenOf, FrameOf
<1>4. page' = [page EXCEPT ![F(t)] = x] /\ page \in [Frames -> Texts]
  BY DEF VideoTypeOK
<1>. HIDE DEF F
<1>5. \A u \in Terminals : page'[F(u)] = IF u = t THEN x ELSE page[F(u)]
  BY <1>1, <1>2, <1>4
<1>6. QED
  BY <1>3, <1>5

(***************************************************************************)
(* terminal_switch copies the screens of the two terminals it exchanges,   *)
(* so that no terminal's screen changes.                                   *)
(***************************************************************************)
LEMMA SwitchKeepsScreens ==
  ASSUME VideoTypeOK, NEW t \in Terminals, TerminalSwitch(t)
  PROVE  ScreenOf' = ScreenOf
<1>1. ScreenOf = [u \in Terminals |-> page[FrameOf(u, display_terminal)]]
      /\ ScreenOf' = [u \in Terminals |-> page'[FrameOf(u, t)]]
  BY DEF ScreenOf, TerminalSwitch, FrameOf
<1>2. \A u \in Terminals : page'[FrameOf(u, t)] = page[FrameOf(u, display_terminal)]
  BY NumTerminalsAssumption, SMTT(30)
  DEF VideoTypeOK, TerminalSwitch, Swapped, FrameOf, Frames, Vga, Terminals
<1>3. QED
  BY <1>1, <1>2

(***************************************************************************)
(* Every terminal has a screen of its own: no mapping a tick, a key or a   *)
(* system call leaves behind makes output or echo reach another            *)
(* terminal's, and no switch loses what a screen shows.                    *)
(***************************************************************************)
THEOREM ScreensImplemented == VideoSpec => ImplementsScreens
<1>1. VideoInit => Abstract!Init
  BY FrameOfType DEF VideoInit, Init, Abstract!Init, ScreenOf, Abstract!Terminals, Terminals
<1>2. VInv /\ [VideoNext]_allvideovars => [Abstract!Next]_(Abstract!vars)
  <2>. SUFFICES ASSUME VInv, [VideoNext]_allvideovars
                PROVE  Abstract!Next \/ UNCHANGED Abstract!vars
    OBVIOUS
  <2>. USE DEF Abstract!vars
  <2>1. /\ VideoTypeOK /\ turn \in Terminals /\ display_terminal \in Terminals
        /\ kmap = FrameOf(turn, display_terminal)
    BY DEF VInv, VideoTypeOK, StacksOK, StacksTyped, KernelMapsRunning
  <2>2. ASSUME UNCHANGED <<page, display_terminal>>
        PROVE  UNCHANGED ScreenOf
    BY <2>2 DEF ScreenOf, FrameOf
  <2>3. CASE TickRotate
    BY <2>2, <2>3 DEF TickRotate, Rotate, NextTurn, Abstract!Next, Abstract!PassTurn
  <2>4. ASSUME NEW j \in Jobs, NEW x \in Texts, TickFirst(j, x)
        PROVE  Abstract!PassTurn
    <3>. DEFINE u == turn'
    <3>1. u \in Terminals /\ u = NextTurn
      BY <2>1, <2>4, NextTurnType DEF TickFirst, First
    <3>2. page' = [page EXCEPT ![FrameOf(u, display_terminal)] = x]
          /\ UNCHANGED display_terminal
      BY <2>4 DEF TickFirst, VidMem
    <3>. HIDE DEF u
    <3>3. ScreenOf' = [ScreenOf EXCEPT ![u] = x]
      BY <2>1, <3>1, <3>2, OneScreenWritten
    <3>4. QED
      BY <3>1, <3>2, <3>3 DEF NextTurn, Abstract!PassTurn, u
  <2>5. ASSUME NEW x \in Texts, PrintLine(x), UNCHANGED <<turn, display_terminal>>
        PROVE  Abstract!Output(x)
    BY <2>1, <2>5, OneScreenWritten DEF PrintLine, Abstract!Output
  <2>6. ASSUME NEW x \in Texts, Echo(x)
        PROVE  Abstract!Echo(x)
    BY <2>1, <2>6, OneScreenWritten DEF Echo, Abstract!Echo
  <2>7. ASSUME NEW t \in Terminals, TerminalSwitch(t)
        PROVE  Abstract!Show(t)
    BY <2>1, <2>7, SwitchKeepsScreens DEF TerminalSwitch, Abstract!Show
  <2>8. CASE Tick
    BY <2>3, <2>4, <2>8 DEF Tick, Abstract!Next
  <2>9. CASE Keyboard
    BY <2>6, <2>7, <2>9 DEF Keyboard, Abstract!Next, Abstract!Terminals, Terminals
  <2>10. CASE \E x \in Texts : Write(x) \/ \E j \in Jobs : JobExecute(j, x) \/ JobRestart(j, x)
    BY <2>5, <2>10 DEF Write, JobExecute, JobRestart, Launch, Restart, Abstract!Next
  <2>11. CASE JobHalt \/ VidmapFlags \/ VidmapLook \/ VidmapMap \/ UNCHANGED allvideovars
    BY <2>2, <2>11
    DEF JobHalt, Finish, VidmapFlags, VidmapLook, VidmapMap, allvideovars, videovars
  <2>12. QED
    BY <2>8, <2>9, <2>10, <2>11 DEF VideoNext, Program
<1>3. QED
  BY <1>1, <1>2, VideoInvariance, PTL DEF VideoSpec, ImplementsScreens, Abstract!Spec

-----------------------------------------------------------------------------

(***************************************************************************)
(* Rtc: the virtual clocks, for every number of processes, terminals and   *)
(* descriptors, every frequency and whatever the PCBs hold at boot: what a *)
(* counter may reach, and what a process leaves to the next one that gets  *)
(* its pid.                                                                *)
(*                                                                         *)
(* The first needs one more fact, for the handler that is never resumed:   *)
(* before the first shell starts no process has an RTC (BootQuiet).  The   *)
(* second needs two: a base shell, which halt replaces without closing     *)
(* anything, has nothing open (BasesClean), and the clock of a pid that is *)
(* free runs only if the pid is among the orphans (GoneClean).             *)
(***************************************************************************)

BootQuiet == BootContext => \A p \in Jobs : ~ HasRtc(p)

RInv ==
  /\ StacksOK
  /\ RtcTypeOK
  /\ BootQuiet
  /\ CounterWithinRate

AllFree(p) == \A i \in Fds : fd[p][i] = "free"

Gone(p) ==
  /\ \A i \in Fds : fd[p][i] # "free" => name[p] = "gr" /\ i > FileFd
  /\ rtc_maxcount[p] # 0 => p \in orphans

ClockHeld(p) == rtc_maxcount[p] # 0 => HasRtc(p) \/ p \in orphans

GoneClean == \A p \in Free : Gone(p)
ClocksHeld == \A p \in Jobs : ClockHeld(p)
BasesClean == \A t \in Terminals : jobs[t] # <<>> => AllFree(jobs[t][1])

LInv ==
  /\ RInv
  /\ GoneClean
  /\ ClocksHeld
  /\ BasesClean

-----------------------------------------------------------------------------

(***************************************************************************)
(* A rate is a number of device interrupts.                                *)
(***************************************************************************)
LEMMA DivType ==
  ASSUME NEW a \in Nat, NEW b \in Nat \ {0}
  PROVE  a \div b \in Nat
OBVIOUS

LEMMA RateType ==
  /\ OpenRate \in Nat
  /\ \A f \in Requests : Rate(f) \in Nat
<1>1. MaxFreq \in Nat /\ MinFreq \in Nat \ {0} /\ MaxFreq \div MinFreq \in Nat
  BY FreqAssumption, DivType
<1>2. ASSUME NEW f \in Requests
      PROVE  Rate(f) \in Nat
  <2>1. f \in Int
    BY FreqAssumption
  <2>2. CASE f > MaxFreq
    BY <2>2 DEF Rate
  <2>3. CASE f < MinFreq
    BY <1>1, <2>1, <2>3 DEF Rate
  <2>4. CASE ~ (f > MaxFreq) /\ ~ (f < MinFreq)
    <3>1. f \in Nat \ {0}
      BY <1>1, <2>1, <2>4
    <3>2. MaxFreq \div f \in Nat
      BY <1>1, <3>1, DivType
    <3>3. QED
      BY <2>4, <3>2 DEF Rate
  <2>5. QED
    BY <2>2, <2>3, <2>4
<1>3. QED
  BY <1>1, <1>2 DEF OpenRate

(***************************************************************************)
(* The process whose turn it is, and the place after the last of RTC_irq's *)
(* loop.                                                                   *)
(***************************************************************************)
LEMMA CurrentType ==
  ASSUME StacksOK, jobs[turn] # <<>>
  PROVE  /\ turn \in Terminals /\ Current \in Jobs
         /\ Len(jobs[turn]) \in Nat \ {0}
BY TopJobType DEF StacksOK, StacksTyped, Current, Top

LEMMA JobsCounted ==
  /\ Cardinality(Jobs) \in Nat
  /\ \A p \in Jobs : p \in Nat /\ p + 1 \in 1..(Cardinality(Jobs) + 1)
  /\ 1 \in 1..(Cardinality(Jobs) + 1)
<1>1. Cardinality(Jobs) \in Nat
  BY JobsAssumption, FS_CardinalityType
<1>2. \A p \in Jobs : p \in 1..Cardinality(Jobs)
  BY JobsAssumption
<1>3. QED
  BY <1>1, <1>2

(***************************************************************************)
(* What a step leaves alone: the counters it does not touch, and the boot, *)
(* which is over when a terminal has a job.                                *)
(***************************************************************************)
LEMMA RatesKept ==
  ASSUME CounterWithinRate, UNCHANGED <<rtc_maxcount, rtc_counter, irq>>,
         \A p \in Jobs : HasRtc(p)' => HasRtc(p),
         \A p \in Jobs : mode[p] = "write" => mode'[p] = "write"
  PROVE  CounterWithinRate'
BY DEF CounterWithinRate, Resets, Terminals

LEMMA BootSame ==
  ASSUME BootQuiet, UNCHANGED jobs, \A p \in Jobs : HasRtc(p)' => HasRtc(p)
  PROVE  BootQuiet'
BY DEF BootQuiet, BootContext, Terminals

LEMMA BootOver ==
  ASSUME NEW t \in Terminals, jobs'[t] # <<>>
  PROVE  BootQuiet'
BY DEF BootQuiet, BootContext, Terminals

-----------------------------------------------------------------------------

(***************************************************************************)
(* Boot.                                                                   *)
(***************************************************************************)
LEMMA RtcInitInv ==
  ASSUME RtcInit
  PROVE  RInv
<1>1. StacksOK
  BY StacksInit DEF RtcInit
<1>2. PICK memory \in PcbMemory :
        /\ rtc_maxcount = [p \in Jobs |-> memory[p].maxcount]
        /\ rtc_counter = [p \in Jobs |-> memory[p].counter]
        /\ rtc_trigger = [p \in Jobs |-> memory[p].trigger]
  BY DEF RtcInit
<1>3. \A p \in Jobs : memory[p] \in [maxcount : Nat, counter : Nat, trigger : Nat]
  BY <1>2, PcbMemoryAssumption
<1>4. /\ rtc_maxcount \in [Jobs -> Nat] /\ rtc_counter \in [Jobs -> Nat]
      /\ rtc_trigger \in [Jobs -> Nat]
  BY <1>2, <1>3
<1>5. irq \in [on : Terminals \cup {NoTerminal, Abandoned},
               next : 1..(Cardinality(Jobs) + 1),
               at : {"test", "store", "compare", "wake"}, seen : Nat, open : BOOLEAN]
  BY JobsCounted DEF RtcInit, Idle
<1>6. RtcTypeOK
  BY <1>4, <1>5 DEF RtcInit, RtcTypeOK
<1>7. \A p \in Jobs : ~ HasRtc(p)
  BY DEF RtcInit, HasRtc
<1>8. QED
  BY <1>1, <1>6, <1>7 DEF RInv, BootQuiet, CounterWithinRate

(***************************************************************************)
(* Starting and ending processes, open and close.                          *)
(***************************************************************************)
LEMMA OpenInv ==
  ASSUME RInv, NEW type \in {"rtc", "file"}, NEW i \in Fds, Open(type, i)
  PROVE  RInv'
<1>1. Current \in Jobs /\ turn \in Terminals
  BY CurrentType DEF RInv, Open, Calls, Uninterrupted
<1>2. StacksOK'
  BY <1>1, SameStacks DEF Open, RInv
<1>3. /\ fd \in [Jobs -> [Fds -> {"free", "rtc", "file"}]]
      /\ fd' = [fd EXCEPT ![Current][i] = type] /\ fd[Current][i] = "free"
      /\ fd' \in [Jobs -> [Fds -> {"free", "rtc", "file"}]]
  BY <1>1 DEF Open, Lowest, FreeFds, RInv, RtcTypeOK
<1>4. BootQuiet'
  BY <1>1, BootOver DEF Open, Calls, Uninterrupted
<1>5. \A p \in Jobs : p # Current \/ type # "rtc" => (HasRtc(p)' => HasRtc(p))
  BY <1>1, <1>3 DEF HasRtc
<1>6. CASE type = "rtc"
  <2>1. /\ rtc_counter' = [rtc_counter EXCEPT ![Current] = 0]
        /\ rtc_maxcount' = [rtc_maxcount EXCEPT ![Current] = OpenRate]
        /\ rtc_trigger' = [rtc_trigger EXCEPT ![Current] = 0]
        /\ orphans' = orphans \ {Current}
        /\ UNCHANGED <<name, mode, irq>>
    BY <1>6 DEF Open
  <2>2. RtcTypeOK'
    BY <1>3, <2>1, RateType DEF RInv, RtcTypeOK
  <2>3. \A p \in Jobs : p # Current =>
          /\ rtc_counter'[p] = rtc_counter[p] /\ rtc_maxcount'[p] = rtc_maxcount[p]
          /\ HasRtc(p)' => HasRtc(p)
    BY <1>5, <2>1 DEF RInv, RtcTypeOK
  <2>4. rtc_counter'[Current] = 0 /\ rtc_maxcount'[Current] \in Nat
    BY <1>1, <2>1, RateType DEF RInv, RtcTypeOK
  <2>5. CounterWithinRate'
    BY <2>1, <2>3, <2>4 DEF RInv, CounterWithinRate, Resets, Terminals
  <2>6. QED
    BY <1>2, <1>4, <2>2, <2>5 DEF RInv
<1>7. CASE type # "rtc"
  <2>1. UNCHANGED <<name, rtcvars, mode, irq, orphans>>
    BY <1>7 DEF Open
  <2>2. RtcTypeOK'
    BY <1>3, <2>1 DEF RInv, RtcTypeOK, rtcvars
  <2>3. CounterWithinRate'
    BY <1>5, <1>7, <2>1, RatesKept DEF RInv, rtcvars
  <2>4. QED
    BY <1>2, <1>4, <2>2, <2>3 DEF RInv
<1>8. QED
  BY <1>6, <1>7

LEMMA ClosesType ==
  ASSUME RtcTypeOK, NEW p \in Jobs, NEW S, Closes(p, S)
  PROVE  /\ fd' \in [Jobs -> [Fds -> {"free", "rtc", "file"}]]
         /\ \A q \in Jobs : q # p => fd'[q] = fd[q]
         /\ \A i \in Fds : fd'[p][i] = IF i \in ForcedAll(p, S) THEN "free" ELSE fd[p][i]
BY DEF Closes, RtcTypeOK

LEMMA CloseFdsInv ==
  ASSUME RtcTypeOK, CounterWithinRate, NEW p \in Jobs, NEW S \in SUBSET Fds,
         CloseFds(p, S), UNCHANGED <<name, mode, irq>>, orphans' \subseteq Jobs
  PROVE  /\ RtcTypeOK' /\ CounterWithinRate'
         /\ \A q \in Jobs : HasRtc(q)' => HasRtc(q)
<1>1. /\ fd' \in [Jobs -> [Fds -> {"free", "rtc", "file"}]]
      /\ \A q \in Jobs : q # p => fd'[q] = fd[q]
      /\ \A i \in Fds : fd'[p][i] \in {"free", fd[p][i]}
  BY ClosesType DEF CloseFds
<1>2. \A q \in Jobs : HasRtc(q)' => HasRtc(q)
  BY <1>1 DEF HasRtc
<1>3. CASE UNCHANGED rtcvars
  <2>1. RtcTypeOK'
    BY <1>1, <1>3 DEF RtcTypeOK, rtcvars
  <2>2. QED
    BY <1>2, <1>3, <2>1, RatesKept DEF rtcvars
<1>4. CASE /\ rtc_counter' = [rtc_counter EXCEPT ![p] = 0]
           /\ rtc_maxcount' = [rtc_maxcount EXCEPT ![p] = 0]
           /\ rtc_trigger' = [rtc_trigger EXCEPT ![p] = 0]
  <2>1. RtcTypeOK'
    BY <1>1, <1>4 DEF RtcTypeOK
  <2>2. CounterWithinRate'
    BY <1>2, <1>4 DEF RtcTypeOK, CounterWithinRate, Resets, Terminals
  <2>3. QED
    BY <1>2, <2>1, <2>2
<1>5. QED
  BY <1>3, <1>4 DEF CloseFds, rtcvars

LEMMA CloseInv ==
  ASSUME RInv, NEW i \in Fds, Close(i)
  PROVE  RInv'
<1>1. Current \in Jobs /\ turn \in Terminals
  BY CurrentType DEF RInv, Close, Calls, Uninterrupted
<1>2. StacksOK'
  BY <1>1, SameStacks DEF Close, RInv
<1>3. orphans' \subseteq Jobs
  BY DEF Close, RInv, RtcTypeOK
<1>4. RtcTypeOK' /\ CounterWithinRate' /\ \A q \in Jobs : HasRtc(q)' => HasRtc(q)
  BY <1>1, <1>3, CloseFdsInv DEF Close, RInv
<1>5. QED
  BY <1>2, <1>4, BootSame DEF Close, RInv

LEMMA HaltInv ==
  ASSUME RInv, Halt
  PROVE  RInv'
<1>1. Current \in Jobs /\ turn \in Terminals
  BY CurrentType DEF RInv, Halt, Calls, Uninterrupted
<1>2. StacksOK'
  BY FinishStacks DEF Halt, RInv
<1>3. orphans' \subseteq Jobs
  BY <1>1 DEF Halt, RInv, RtcTypeOK
<1>4. RtcTypeOK' /\ CounterWithinRate'
  BY <1>1, <1>3, CloseFdsInv DEF Halt, RInv
<1>5. ~ BootContext'
  <2>1. /\ jobs[turn] \in Seq(Jobs) /\ Len(jobs[turn]) > 1
        /\ jobs'[turn] = SubSeq(jobs[turn], 1, Len(jobs[turn]) - 1)
    BY <1>1 DEF Halt, Finish, RInv, StacksOK, StacksTyped
  <2>. DEFINE n == Len(jobs[turn])
  <2>2. n \in Nat /\ n > 1 /\ Len(jobs'[turn]) = n - 1
    BY <2>1
  <2>. HIDE DEF n
  <2>3. Len(jobs'[turn]) # 0
    BY <2>2
  <2>4. jobs'[turn] # <<>>
    BY <2>3
  <2>5. QED
    BY <1>1, <2>4 DEF BootContext, Terminals
<1>6. QED
  BY <1>2, <1>4, <1>5 DEF RInv, BootQuiet

(***************************************************************************)
(* A new process: u is the terminal it starts on.                          *)
(***************************************************************************)
LEMMA NewProcessInv ==
  ASSUME RInv, NEW p \in Jobs, StacksOK', NEW u \in Terminals, jobs'[u] # <<>>,
         fd' = [fd EXCEPT ![p] = [i \in Fds |-> "free"]],
         \E n \in {"gr", "other"} : name' = [name EXCEPT ![p] = n],
         UNCHANGED <<rtcvars, mode, orphans>>,
         irq' = irq \/ (BootContext /\ irq' = [irq EXCEPT !.on = Abandoned])
  PROVE  RInv'
<1>1. fd' \in [Jobs -> [Fds -> {"free", "rtc", "file"}]]
  BY DEF RInv, RtcTypeOK
<1>2. name' \in [Jobs -> {"gr", "other"}]
  BY DEF RInv, RtcTypeOK
<1>3. irq' \in [on : Terminals \cup {NoTerminal, Abandoned},
                next : 1..(Cardinality(Jobs) + 1),
                at : {"test", "store", "compare", "wake"}, seen : Nat, open : BOOLEAN]
  BY DEF RInv, RtcTypeOK
<1>4. RtcTypeOK'
  BY <1>1, <1>2, <1>3 DEF RInv, RtcTypeOK, rtcvars
<1>5. \A q \in Jobs : HasRtc(q)' => HasRtc(q)
  BY DEF RInv, RtcTypeOK, HasRtc
<1>6. CounterWithinRate'
  <2>1. CASE irq' = irq
    BY <1>5, <2>1, RatesKept DEF RInv, rtcvars
  <2>2. CASE BootContext
    BY <1>5, <2>2 DEF RInv, BootQuiet, CounterWithinRate
  <2>3. QED
    BY <2>1, <2>2
<1>7. QED
  BY <1>4, <1>6, BootOver DEF RInv

LEMMA RtcExecuteInv ==
  ASSUME RInv, NEW p \in Jobs, Execute(p)
  PROVE  RInv'
<1>1. StacksOK'
  BY LaunchStacks DEF Execute, RInv
<1>2. turn \in Terminals /\ jobs'[turn] # <<>>
  <2>1. /\ turn \in Terminals /\ jobs[turn] \in Seq(Jobs)
        /\ jobs'[turn] = Append(jobs[turn], p)
    BY DEF Execute, Launch, RInv, StacksOK, StacksTyped
  <2>2. QED
    BY <2>1, TopOfAppend
<1>3. \E n \in {"gr", "other"} : name' = [name EXCEPT ![p] = n]
  BY NamesAssumption DEF Execute, NewProcess
<1>4. UNCHANGED <<rtcvars, mode, orphans, irq>> /\ fd' = [fd EXCEPT ![p] = [i \in Fds |-> "free"]]
  BY DEF Execute, NewProcess
<1>. DEFINE u == turn
<1>. HIDE DEF u
<1>5. u \in Terminals /\ jobs'[u] # <<>>
  BY <1>2 DEF u
<1>6. QED
  BY <1>1, <1>3, <1>4, <1>5, NewProcessInv

LEMMA RtcHaltBaseInv ==
  ASSUME RInv, NEW p \in Jobs, HaltBase(p)
  PROVE  RInv'
<1>1. StacksOK'
  BY RestartStacks DEF HaltBase, RInv
<1>2. turn \in Terminals /\ jobs'[turn] # <<>>
  BY TopOfOne DEF HaltBase, Restart, RInv, StacksOK, StacksTyped
<1>. DEFINE u == turn
<1>. HIDE DEF u
<1>3. u \in Terminals /\ jobs'[u] # <<>>
  BY <1>2 DEF u
<1>4. QED
  BY <1>1, <1>3, NewProcessInv DEF HaltBase

LEMMA RtcTickInv ==
  ASSUME RInv, RtcTick
  PROVE  RInv'
<1>1. CASE RtcTickRotate
  <2>1. turn' \in Terminals
    BY <1>1, NextTurnType DEF RtcTickRotate, Rotate, RInv, StacksOK, StacksTyped
  <2>2. StacksOK'
    BY <1>1, <2>1, SameStacks DEF RtcTickRotate, Rotate, RInv
  <2>3. RtcTypeOK'
    BY <1>1 DEF RtcTickRotate, RInv, RtcTypeOK, rtcvars
  <2>4. CounterWithinRate' /\ BootQuiet'
    BY <1>1, RatesKept, BootSame DEF RtcTickRotate, Rotate, RInv, HasRtc, rtcvars
  <2>5. QED
    BY <2>2, <2>3, <2>4 DEF RInv
<1>2. ASSUME NEW p \in Jobs, RtcTickFirst(p)
      PROVE  RInv'
  <2>1. StacksOK'
    BY <1>2, FirstStacks DEF RtcTickFirst, RInv
  <2>2. irq' = irq \/ (BootContext /\ irq' = [irq EXCEPT !.on = Abandoned])
    BY <1>2 DEF RtcTickFirst, IrqAfterTick, BootContext
  <2>. PICK u \in Terminals : u = turn'
    BY <1>2, NextTurnType DEF RtcTickFirst, First, RInv, StacksOK, StacksTyped
  <2>3. jobs'[u] # <<>>
    BY <1>2, TopOfOne DEF RtcTickFirst, First, RInv, StacksOK, StacksTyped
  <2>4. QED
    BY <1>2, <2>1, <2>2, <2>3, NewProcessInv DEF RtcTickFirst
<1>3. QED
  BY <1>1, <1>2 DEF RtcTick

-----------------------------------------------------------------------------

(***************************************************************************)
(* rtc_write and rtc_read.  Between the two stores of rtc_write the        *)
(* counter may be past the new rate; the second store clears it.           *)
(***************************************************************************)
LEMMA WriteMaxcountInv ==
  ASSUME RInv, NEW f \in Requests, WriteMaxcount(f)
  PROVE  RInv'
<1>1. Current \in Jobs /\ turn \in Terminals
  BY CurrentType DEF RInv, WriteMaxcount, Calls, Uninterrupted
<1>2. StacksOK'
  BY <1>1, SameStacks DEF WriteMaxcount, RInv
<1>3. RtcTypeOK'
  BY <1>1, RateType DEF WriteMaxcount, RInv, RtcTypeOK
<1>4. CounterWithinRate'
  BY <1>1 DEF WriteMaxcount, RInv, RtcTypeOK, CounterWithinRate, Resets, HasRtc, Terminals
<1>5. QED
  BY <1>2, <1>3, <1>4, BootSame DEF WriteMaxcount, RInv, HasRtc

LEMMA WriteCounterInv ==
  ASSUME RInv, WriteCounter
  PROVE  RInv'
<1>1. Current \in Jobs /\ turn \in Terminals
  BY CurrentType DEF RInv, WriteCounter, Uninterrupted
<1>2. StacksOK'
  BY <1>1, SameStacks DEF WriteCounter, RInv
<1>3. RtcTypeOK'
  BY <1>1 DEF WriteCounter, RInv, RtcTypeOK
<1>4. CounterWithinRate'
  <2>1. rtc_counter'[Current] = 0 /\ rtc_maxcount'[Current] \in Nat
    BY <1>1 DEF WriteCounter, RInv, RtcTypeOK
  <2>2. \A p \in Jobs : p # Current =>
          /\ rtc_counter'[p] = rtc_counter[p] /\ rtc_maxcount'[p] = rtc_maxcount[p]
          /\ mode'[p] = mode[p]
    BY <1>1 DEF WriteCounter, RInv, RtcTypeOK
  <2>3. UNCHANGED <<fd, irq>>
    BY DEF WriteCounter
  <2>4. QED
    BY <2>1, <2>2, <2>3 DEF RInv, CounterWithinRate, Resets, HasRtc, Terminals
<1>5. QED
  BY <1>2, <1>3, <1>4, BootSame DEF WriteCounter, RInv, HasRtc

LEMMA ReadStartInv ==
  ASSUME RInv, ReadStart
  PROVE  RInv'
<1>1. Current \in Jobs /\ turn \in Terminals
  BY CurrentType DEF RInv, ReadStart, Calls, Uninterrupted
<1>2. StacksOK'
  BY <1>1, SameStacks DEF ReadStart, RInv
<1>3. RtcTypeOK'
  BY <1>1 DEF ReadStart, RInv, RtcTypeOK
<1>4. \A p \in Jobs : mode[p] = "write" => mode'[p] = "write"
  BY <1>1 DEF ReadStart, Calls, RInv, RtcTypeOK
<1>5. \A p \in Jobs : HasRtc(p)' => HasRtc(p)
  BY DEF ReadStart, HasRtc
<1>6. CounterWithinRate' /\ BootQuiet'
  BY <1>4, <1>5, RatesKept, BootSame DEF ReadStart, RInv
<1>7. QED
  BY <1>2, <1>3, <1>6 DEF RInv

LEMMA ReadReturnInv ==
  ASSUME RInv, NEW t \in Terminals, ReadReturn(t)
  PROVE  RInv'
<1>1. Current \in Jobs /\ turn \in Terminals
  BY CurrentType DEF RInv, ReadReturn, Uninterrupted
<1>2. StacksOK'
  BY <1>1, SameStacks DEF ReadReturn, RInv
<1>3. RtcTypeOK'
  BY DEF ReadReturn, RInv, RtcTypeOK, rtcvars
<1>4. \A p \in Jobs : mode[p] = "write" => mode'[p] = "write"
  BY <1>1 DEF ReadReturn, RInv, RtcTypeOK
<1>5. \A p \in Jobs : HasRtc(p)' => HasRtc(p)
  BY DEF ReadReturn, HasRtc
<1>6. CounterWithinRate' /\ BootQuiet'
  BY <1>4, <1>5, RatesKept, BootSame DEF ReadReturn, RInv, rtcvars
<1>7. QED
  BY <1>2, <1>3, <1>6 DEF RInv

-----------------------------------------------------------------------------

(***************************************************************************)
(* RTC_irq.  It touches no descriptor, and only the counter of the process *)
(* it is at.                                                               *)
(***************************************************************************)
LEMMA IrqSteps ==
  ASSUME RInv, UNCHANGED <<jobs, turn, fd>>, RtcTypeOK', CounterWithinRate'
  PROVE  RInv'
<1>1. turn \in Terminals
  BY DEF RInv, StacksOK, StacksTyped
<1>2. StacksOK'
  BY <1>1, SameStacks DEF RInv
<1>3. BootQuiet'
  BY BootSame DEF RInv, HasRtc
<1>4. QED
  BY <1>2, <1>3 DEF RInv

LEMMA RtcIrqInv ==
  ASSUME RInv, RtcIrq \/ RtcDone
  PROVE  RInv'
<1>1. turn \in Terminals
  BY DEF RInv, StacksOK, StacksTyped
<1>2. irq' \in [on : Terminals \cup {NoTerminal, Abandoned},
                next : 1..(Cardinality(Jobs) + 1),
                at : {"test", "store", "compare", "wake"}, seen : Nat, open : BOOLEAN]
  <2>1. 1 \in 1..(Cardinality(Jobs) + 1)
    BY JobsCounted
  <2>2. \E o \in Terminals \cup {NoTerminal} :
          irq' = [on |-> o, next |-> 1, at |-> "test", seen |-> 0, open |-> FALSE]
    BY <1>1 DEF RtcIrq, RtcDone, Idle
  <2>3. QED
    BY <2>1, <2>2
<1>3. RtcTypeOK'
  BY <1>2 DEF RtcIrq, RtcDone, RInv, RtcTypeOK, rtcvars
<1>4. \A p \in Jobs : ~ Resets(p)
  BY DEF RtcIrq, RtcDone, Idle, Resets
<1>5. CounterWithinRate'
  BY <1>4 DEF RtcIrq, RtcDone, RInv, CounterWithinRate, HasRtc, rtcvars
<1>6. QED
  BY <1>3, <1>5, IrqSteps DEF RtcIrq, RtcDone

LEMMA FollowingType ==
  ASSUME RtcTypeOK, irq.next \in Jobs
  PROVE  /\ Following(irq.next) \in [on : Terminals \cup {NoTerminal, Abandoned},
              next : 1..(Cardinality(Jobs) + 1),
              at : {"test", "store", "compare", "wake"}, seen : Nat, open : BOOLEAN]
         /\ Following(irq.next).at = "test"
BY JobsCounted DEF Following, RtcTypeOK

LEMMA ScanTestInv ==
  ASSUME RInv, ScanTest
  PROVE  RInv'
<1>. USE DEF ScanTest, ScansAt
<1>1. RtcTypeOK'
  <2>1. rtc_counter[irq.next] \in Nat
    BY DEF RInv, RtcTypeOK
  <2>2. irq' \in [on : Terminals \cup {NoTerminal, Abandoned},
              next : 1..(Cardinality(Jobs) + 1),
              at : {"test", "store", "compare", "wake"}, seen : Nat, open : BOOLEAN]
    BY <2>1, FollowingType DEF RInv, RtcTypeOK
  <2>3. QED
    BY <2>2 DEF RInv, RtcTypeOK, rtcvars
<1>2. \A p \in Jobs : ~ Resets(p)
  BY DEF Resets
<1>3. CounterWithinRate'
  BY <1>2 DEF RInv, CounterWithinRate, HasRtc, rtcvars
<1>4. QED
  BY <1>1, <1>3, IrqSteps

LEMMA ScanStoreInv ==
  ASSUME RInv, ScanStore
  PROVE  RInv'
<1>. USE DEF ScanStore, ScansAt
<1>1. turn \in Terminals /\ Counted(irq.seen) \in Nat
  BY DEF RInv, StacksOK, StacksTyped, RtcTypeOK, Counted
<1>2. irq' \in [on : Terminals \cup {NoTerminal, Abandoned},
            next : 1..(Cardinality(Jobs) + 1),
            at : {"test", "store", "compare", "wake"}, seen : Nat, open : BOOLEAN]
  BY DEF RInv, RtcTypeOK
<1>3. RtcTypeOK'
  BY <1>1, <1>2 DEF RInv, RtcTypeOK
<1>4. ASSUME NEW p \in Jobs, p = irq.next
      PROVE  Resets(p)'
  <2>1. irq'.on = irq.on /\ irq'.next = irq.next /\ irq'.at = "compare"
    BY DEF RInv, RtcTypeOK
  <2>2. QED
    BY <1>1, <1>4, <2>1 DEF Resets, Terminals
<1>5. \A p \in Jobs : p # irq.next => rtc_counter'[p] = rtc_counter[p] /\ ~ Resets(p)
  BY DEF RInv, RtcTypeOK, Resets
<1>6. CounterWithinRate'
  <2>1. ASSUME NEW p \in Jobs, p # irq.next, rtc_maxcount'[p] # 0, HasRtc(p)', mode'[p] # "write"
        PROVE  rtc_counter'[p] < rtc_maxcount'[p]
    BY <1>5, <2>1 DEF RInv, CounterWithinRate, HasRtc
  <2>2. QED
    BY <1>4, <2>1 DEF CounterWithinRate
<1>7. QED
  BY <1>3, <1>6, IrqSteps

LEMMA ScanCompareInv ==
  ASSUME RInv, ScanCompare
  PROVE  RInv'
<1>. USE DEF ScanCompare, ScansAt
<1>1. turn \in Terminals /\ UNCHANGED <<rtc_maxcount, rtc_counter, mode, fd>>
  BY DEF RInv, StacksOK, StacksTyped, rtcvars
<1>2. RtcTypeOK'
  <2>1. irq' \in [on : Terminals \cup {NoTerminal, Abandoned},
              next : 1..(Cardinality(Jobs) + 1),
              at : {"test", "store", "compare", "wake"}, seen : Nat, open : BOOLEAN]
    BY FollowingType DEF RInv, RtcTypeOK
  <2>2. QED
    BY <2>1 DEF RInv, RtcTypeOK, rtcvars
<1>3. \A p \in Jobs : p # irq.next => ~ Resets(p)
  BY DEF Resets
<1>4. ASSUME NEW p \in Jobs, p = irq.next
      PROVE  rtc_counter[p] < rtc_maxcount[p] \/ Resets(p)'
  <2>1. CASE rtc_counter[p] >= rtc_maxcount[p]
    <3>1. irq' = [irq EXCEPT !.at = "wake"]
      BY <1>4, <2>1
    <3>2. irq'.on = irq.on /\ irq'.next = irq.next /\ irq'.at = "wake"
      BY <3>1 DEF RInv, RtcTypeOK
    <3>3. QED
      BY <1>1, <1>4, <3>2 DEF Resets, Terminals
  <2>2. CASE ~ (rtc_counter[p] >= rtc_maxcount[p])
    <3>1. rtc_counter[p] \in Nat /\ rtc_maxcount[p] \in Nat
      BY <1>4 DEF RInv, RtcTypeOK
    <3>2. QED
      BY <2>2, <3>1
  <2>3. QED
    BY <2>1, <2>2
<1>5. CounterWithinRate'
  <2>1. ASSUME NEW p \in Jobs, rtc_maxcount'[p] # 0, HasRtc(p)', mode'[p] # "write"
        PROVE  rtc_counter'[p] < rtc_maxcount'[p] \/ Resets(p)'
    <3>1. CASE p = irq.next
      BY <1>1, <1>4, <3>1
    <3>2. CASE p # irq.next
      BY <1>1, <1>3, <2>1, <3>2 DEF RInv, CounterWithinRate, HasRtc
    <3>3. QED
      BY <3>1, <3>2
  <2>2. QED
    BY <2>1 DEF CounterWithinRate
<1>6. QED
  BY <1>2, <1>5, IrqSteps

LEMMA ScanWakeInv ==
  ASSUME RInv, ScanWake
  PROVE  RInv'
<1>. USE DEF ScanWake, ScansAt
<1>1. rtc_trigger' \in [Jobs -> Nat] /\ rtc_counter' \in [Jobs -> Nat]
  BY DEF RInv, RtcTypeOK, Wakes
<1>2. irq' \in [on : Terminals \cup {NoTerminal, Abandoned},
            next : 1..(Cardinality(Jobs) + 1),
            at : {"test", "store", "compare", "wake"}, seen : Nat, open : BOOLEAN]
  BY FollowingType DEF RInv
<1>3. RtcTypeOK'
  BY <1>1, <1>2 DEF RInv, RtcTypeOK
<1>4. rtc_counter'[irq.next] = 0 /\ rtc_maxcount'[irq.next] \in Nat
  BY DEF RInv, RtcTypeOK
<1>5. \A p \in Jobs : p # irq.next => rtc_counter'[p] = rtc_counter[p] /\ ~ Resets(p)
  BY DEF RInv, RtcTypeOK, Resets
<1>6. CounterWithinRate'
  <2>1. ASSUME NEW p \in Jobs, rtc_maxcount'[p] # 0, HasRtc(p)', mode'[p] # "write"
        PROVE  rtc_counter'[p] < rtc_maxcount'[p]
    <3>1. CASE p = irq.next
      BY <1>4, <2>1, <3>1
    <3>2. CASE p # irq.next
      BY <1>5, <2>1, <3>2 DEF RInv, CounterWithinRate, HasRtc
    <3>3. QED
      BY <3>1, <3>2
  <2>2. QED
    BY <2>1 DEF CounterWithinRate
<1>7. QED
  BY <1>3, <1>6, IrqSteps

LEMMA RtcStutterInv ==
  ASSUME RInv, UNCHANGED allrtcvars
  PROVE  RInv'
<1>1. RtcTypeOK'
  BY DEF allrtcvars, rtcvars, RInv, RtcTypeOK
<1>2. CounterWithinRate'
  BY RatesKept DEF allrtcvars, rtcvars, RInv, HasRtc
<1>3. QED
  BY <1>1, <1>2, IrqSteps DEF allrtcvars

(***************************************************************************)
(* The inductive invariant holds in every state of every behaviour.        *)
(***************************************************************************)
LEMMA RtcStep == RInv /\ [RtcNext]_allrtcvars => RInv'
<1>. SUFFICES ASSUME RInv, [RtcNext]_allrtcvars
              PROVE  RInv'
  OBVIOUS
<1>1. CASE RtcTick
  BY <1>1, RtcTickInv
<1>2. CASE RtcIrq \/ RtcScan \/ RtcDone
  BY <1>2, RtcIrqInv, ScanTestInv, ScanStoreInv, ScanCompareInv, ScanWakeInv DEF RtcScan
<1>3. CASE RtcProgram
  BY <1>3, CloseInv, OpenInv, DevicesAssumption, RtcExecuteInv, RtcHaltBaseInv, HaltInv,
     WriteMaxcountInv, WriteCounterInv, ReadStartInv, ReadReturnInv DEF RtcProgram
<1>4. CASE UNCHANGED allrtcvars
  BY <1>4, RtcStutterInv
<1>5. QED
  BY <1>1, <1>2, <1>3, <1>4 DEF RtcNext

THEOREM RtcInvariance == RtcSpec => []RInv
<1>1. RtcInit => RInv
  BY RtcInitInv
<1>2. QED
  BY <1>1, RtcStep, PTL DEF RtcSpec

(***************************************************************************)
(* Every variable of the clocks keeps its type.                            *)
(***************************************************************************)
THEOREM RtcTypeCorrect == RtcSpec => []RtcTypeOK
<1>1. RInv => RtcTypeOK
  BY DEF RInv
<1>2. QED
  BY <1>1, RtcInvariance, PTL

(***************************************************************************)
(* Outside rtc_write the counter of a clock a process opened is past its   *)
(* rate only while RTC_irq is about to reset it, whatever the frequencies, *)
(* however the instructions of RTC_irq interleave with the calls of the    *)
(* programs, and whatever the PCBs held at boot.                           *)
(***************************************************************************)
THEOREM CounterCorrect == RtcSpec => []CounterWithinRate
<1>1. RInv => CounterWithinRate
  BY DEF RInv
<1>2. QED
  BY <1>1, RtcInvariance, PTL

-----------------------------------------------------------------------------

(***************************************************************************)
(* A step that leaves the descriptors, the name and the clock of p alone.  *)
(***************************************************************************)
Same(p) ==
  /\ fd'[p] = fd[p]
  /\ name'[p] = name[p]
  /\ rtc_maxcount'[p] = rtc_maxcount[p]
  /\ (p \in orphans') <=> (p \in orphans)

LEMMA SameKeeps ==
  ASSUME NEW p \in Jobs, Same(p)
  PROVE  /\ AllFree(p) => AllFree(p)'
         /\ Gone(p) => Gone(p)'
         /\ ClockHeld(p) => ClockHeld(p)'
BY DEF Same, AllFree, Gone, ClockHeld, HasRtc

(***************************************************************************)
(* The first job of a stack is a process.                                  *)
(***************************************************************************)
LEMMA BaseJob ==
  ASSUME StacksTyped, NEW t \in Terminals, jobs[t] # <<>>
  PROVE  jobs[t][1] \in Jobs /\ jobs[t][1] \in OnStack(t)
<1>1. jobs[t] \in Seq(Jobs) /\ Len(jobs[t]) \in Nat \ {0}
  BY TopJobType DEF StacksTyped
<1>2. 1 \in 1..Len(jobs[t])
  BY <1>1
<1>3. QED
  BY <1>1, <1>2 DEF OnStack

(***************************************************************************)
(* The stacks do not change, and only one process c, which is on one.      *)
(***************************************************************************)
LEMMA OneProcessChanges ==
  ASSUME LInv, UNCHANGED jobs, NEW c \in Jobs, c \notin Free,
         \A p \in Jobs : p # c => Same(p),
         ClockHeld(c)',
         \A t \in Terminals : jobs[t] # <<>> /\ jobs[t][1] = c => AllFree(c)'
  PROVE  GoneClean' /\ ClocksHeld' /\ BasesClean'
<1>1. Free' = Free
  BY DEF Free, OnStack, Terminals
<1>2. ASSUME NEW p \in Jobs, p \in Free
      PROVE  Gone(p)'
  BY <1>2, SameKeeps DEF LInv, GoneClean
<1>3. ASSUME NEW p \in Jobs
      PROVE  ClockHeld(p)'
  BY <1>3, SameKeeps DEF LInv, ClocksHeld
<1>4. ASSUME NEW t \in Terminals, jobs[t] # <<>>
      PROVE  AllFree(jobs[t][1])'
  <2>. PICK b \in Jobs : b = jobs[t][1]
    BY <1>4, BaseJob DEF LInv, RInv, StacksOK
  <2>1. AllFree(b)
    BY <1>4 DEF LInv, BasesClean
  <2>2. AllFree(b)'
    BY <1>4, <2>1, SameKeeps
  <2>3. b = jobs'[t][1]
    OBVIOUS
  <2>4. QED
    BY <2>2, <2>3 DEF AllFree
<1>5. GoneClean'
  BY <1>1, <1>2 DEF GoneClean, Free
<1>6. ClocksHeld'
  BY <1>3 DEF ClocksHeld
<1>7. BasesClean'
  BY <1>4 DEF BasesClean, AllFree, Terminals
<1>8. QED
  BY <1>5, <1>6, <1>7

LEMMA NothingOpened ==
  ASSUME LInv, UNCHANGED <<jobs, name, fd, rtc_maxcount, orphans>>
  PROVE  GoneClean' /\ ClocksHeld' /\ BasesClean'
<1>1. \A p \in Jobs : Same(p)
  BY DEF Same
<1>2. Free' = Free /\ Free \subseteq Jobs
  BY DEF Free, OnStack, Terminals
<1>3. GoneClean'
  BY <1>2 DEF GoneClean, Gone, LInv
<1>4. ClocksHeld'
  BY <1>1, SameKeeps DEF ClocksHeld, LInv
<1>5. BasesClean'
  BY DEF BasesClean, AllFree, Terminals, LInv
<1>6. QED
  BY <1>3, <1>4, <1>5

(***************************************************************************)
(* The running process, on its stack.                                      *)
(***************************************************************************)
LEMMA CurrentPlace ==
  ASSUME LInv, jobs[turn] # <<>>
  PROVE  /\ Current \in Jobs /\ Current \notin Free
         /\ Len(jobs[turn]) > 1 =>
              \A t \in Terminals : jobs[t] # <<>> => jobs[t][1] # Current
<1>1. /\ turn \in Terminals /\ Current \in Jobs
      /\ Len(jobs[turn]) \in 1..Len(jobs[turn])
      /\ Current = jobs[turn][Len(jobs[turn])]
  BY CurrentType DEF LInv, RInv, Current, Top
<1>2. Current \notin Free
  BY <1>1, FreeIsElsewhere
<1>3. ASSUME Len(jobs[turn]) > 1, NEW t \in Terminals, jobs[t] # <<>>
      PROVE  jobs[t][1] # Current
  <2>1. 1 \in 1..Len(jobs[t]) /\ Len(jobs[turn]) # 1
    <3>. DEFINE m == Len(jobs[t])
                n == Len(jobs[turn])
    <3>1. m \in Nat \ {0}
      BY <1>3, TopJobType DEF LInv, RInv, StacksOK
    <3>2. n \in Nat /\ n > 1
      BY <1>3, CurrentType DEF LInv, RInv
    <3>. HIDE DEF m, n
    <3>3. 1 \in 1..m /\ n # 1
      BY <3>1, <3>2
    <3>4. QED
      BY <3>3 DEF m, n
  <2>2. QED
    BY <1>1, <1>3, <2>1 DEF LInv, RInv, StacksOK, JobsDistinct
<1>4. QED
  BY <1>1, <1>2, <1>3

-----------------------------------------------------------------------------

LEMMA LeftInit ==
  ASSUME RtcInit
  PROVE  LInv
<1>1. RInv
  BY RtcInitInv
<1>2. \A p \in Jobs : AllFree(p)
  BY DEF RtcInit, AllFree
<1>3. \A p \in Jobs : rtc_maxcount[p] # 0 => p \in orphans
  BY DEF RtcInit
<1>4. GoneClean /\ ClocksHeld
  BY <1>2, <1>3 DEF GoneClean, ClocksHeld, Gone, ClockHeld, AllFree, Free
<1>5. BasesClean
  BY DEF RtcInit, Init, BasesClean
<1>6. QED
  BY <1>1, <1>4, <1>5 DEF LInv

(***************************************************************************)
(* open: of an RTC it makes the clock the process's own; the base shells   *)
(* open nothing.                                                           *)
(***************************************************************************)
LEMMA OpenLeaves ==
  ASSUME LInv, NEW type \in {"rtc", "file"}, NEW i \in Fds, Open(type, i)
  PROVE  GoneClean' /\ ClocksHeld' /\ BasesClean'
<1>. PICK c \in Jobs : c = Current
  BY CurrentPlace DEF Open, Calls, Uninterrupted
<1>1. /\ c \in Jobs /\ c \notin Free
      /\ \A t \in Terminals : jobs[t] # <<>> => jobs[t][1] # c
  BY CurrentPlace DEF Open, Calls, Uninterrupted
<1>2. /\ fd \in [Jobs -> [Fds -> {"free", "rtc", "file"}]]
      /\ fd' = [fd EXCEPT ![c][i] = type]
      /\ fd[c][i] = "free"
      /\ UNCHANGED <<jobs, name>>
      /\ rtc_maxcount \in [Jobs -> Nat]
      /\ \/ /\ type = "rtc"
            /\ rtc_maxcount' = [rtc_maxcount EXCEPT ![c] = OpenRate]
            /\ orphans' = orphans \ {c}
         \/ UNCHANGED <<rtc_maxcount, orphans>>
  BY DEF Open, Lowest, FreeFds, LInv, RInv, RtcTypeOK, rtcvars
<1>3. /\ fd'[c][i] = type
      /\ \A k \in Fds : k # i => fd'[c][k] = fd[c][k]
      /\ \A p \in Jobs : p # c => fd'[p] = fd[p]
  BY <1>1, <1>2
<1>4. \A p \in Jobs : p # c => Same(p)
  BY <1>1, <1>2, <1>3 DEF Same
<1>5. ClockHeld(c)'
  <2>1. CASE type = "rtc"
    BY <1>3, <2>1 DEF ClockHeld, HasRtc
  <2>2. CASE UNCHANGED <<rtc_maxcount, orphans>>
    <3>1. ClockHeld(c)
      BY <1>1 DEF LInv, ClocksHeld
    <3>2. HasRtc(c) => HasRtc(c)'
      BY <1>2, <1>3 DEF HasRtc
    <3>3. QED
      BY <2>2, <3>1, <3>2 DEF ClockHeld
  <2>3. QED
    BY <1>2, <2>1, <2>2
<1>6. QED
  BY <1>1, <1>2, <1>4, <1>5, OneProcessChanges

(***************************************************************************)
(* close: the other processes keep what they have; the closed descriptors  *)
(* are free, and either an RTC was among them and the clock stands, or the *)
(* RTCs and the clock are as before.                                       *)
(***************************************************************************)
LEMMA CloseFdsLeaves ==
  ASSUME LInv, NEW p \in Jobs, NEW S \in SUBSET Fds, CloseFds(p, S)
  PROVE  /\ \A q \in Jobs : q # p => fd'[q] = fd[q] /\ rtc_maxcount'[q] = rtc_maxcount[q]
         /\ \A i \in Fds : fd'[p][i] = IF i \in ForcedAll(p, S) THEN "free" ELSE fd[p][i]
         /\ StopsClock(p, S) => rtc_maxcount'[p] = 0
         /\ ~ StopsClock(p, S) =>
              rtc_maxcount'[p] = rtc_maxcount[p] /\ (HasRtc(p) => HasRtc(p)')
<1>1. /\ fd' \in [Jobs -> [Fds -> {"free", "rtc", "file"}]]
      /\ \A q \in Jobs : q # p => fd'[q] = fd[q]
      /\ \A i \in Fds : fd'[p][i] = IF i \in ForcedAll(p, S) THEN "free" ELSE fd[p][i]
  BY ClosesType DEF CloseFds, LInv, RInv
<1>2. /\ rtc_maxcount \in [Jobs -> Nat]
      /\ rtc_maxcount' = IF StopsClock(p, S)
                         THEN [rtc_maxcount EXCEPT ![p] = 0] ELSE rtc_maxcount
  BY DEF CloseFds, LInv, RInv, RtcTypeOK
<1>3. ~ StopsClock(p, S) => (HasRtc(p) => HasRtc(p)')
  BY <1>1 DEF StopsClock, HasRtc
<1>4. QED
  BY <1>1, <1>2, <1>3

LEMMA CloseLeaves ==
  ASSUME LInv, NEW i \in Fds, Close(i)
  PROVE  GoneClean' /\ ClocksHeld' /\ BasesClean'
<1>. PICK c \in Jobs : c = Current
  BY CurrentPlace DEF Close, Calls, Uninterrupted
<1>. DEFINE s == StopsClock(c, {i})
<1>1. c \in Jobs /\ c \notin Free /\ UNCHANGED <<jobs, name>>
  BY CurrentPlace DEF Close, Calls, Uninterrupted
<1>2. CloseFds(c, {i}) /\ {i} \in SUBSET Fds /\ orphans' = orphans \ (IF s THEN {c} ELSE {})
  BY DEF Close
<1>3. /\ \A q \in Jobs : q # c => fd'[q] = fd[q] /\ rtc_maxcount'[q] = rtc_maxcount[q]
      /\ \A k \in Fds : fd'[c][k] \in {fd[c][k], "free"}
      /\ s => rtc_maxcount'[c] = 0
      /\ ~ s => rtc_maxcount'[c] = rtc_maxcount[c] /\ (HasRtc(c) => HasRtc(c)')
  BY <1>1, <1>2, CloseFdsLeaves
<1>. HIDE DEF s
<1>4. \A p \in Jobs : p # c => Same(p)
  BY <1>1, <1>2, <1>3 DEF Same
<1>5. ClockHeld(c)'
  BY <1>1, <1>2, <1>3 DEF LInv, ClocksHeld, ClockHeld
<1>6. ASSUME NEW t \in Terminals, jobs[t] # <<>>, jobs[t][1] = c
      PROVE  AllFree(c)'
  <2>1. AllFree(c)
    BY <1>6 DEF LInv, BasesClean
  <2>2. QED
    BY <1>3, <2>1 DEF AllFree
<1>7. QED
  BY <1>1, <1>4, <1>5, <1>6, OneProcessChanges

(***************************************************************************)
(* halt of a child, the only job that becomes free: what close does not    *)
(* reach is left by a program gr*, above FileFd.                           *)
(***************************************************************************)
LEMMA HaltClears ==
  ASSUME LInv, NEW p \in Jobs, CloseFds(p, Fds \ FreeFds(p)), UNCHANGED name,
         orphans' = IF GrLeavesClock(p) THEN orphans \cup {p}
                    ELSE IF HasRtc(p) THEN orphans \ {p} ELSE orphans
  PROVE  Gone(p)'
<1>. DEFINE S == Fds \ FreeFds(p)
<1>1. S \in SUBSET Fds /\ \A i \in Fds : i \in S <=> fd[p][i] # "free"
  BY DEF FreeFds
<1>2. /\ \A i \in Fds : fd'[p][i] = IF i \in ForcedAll(p, S) THEN "free" ELSE fd[p][i]
      /\ StopsClock(p, S) => rtc_maxcount'[p] = 0
      /\ ~ StopsClock(p, S) => rtc_maxcount'[p] = rtc_maxcount[p]
  BY <1>1, CloseFdsLeaves
<1>. HIDE DEF S
<1>3. RootFd \in Fds /\ FileFd \in Fds /\ Fds \subseteq Int
      /\ \A i \in Fds : i # RootFd /\ i # FileFd => i > FileFd
  BY FdAssumption DEF RootFd, FileFd, Fds
<1>4. CASE name[p] # "gr"
  <2>1. \A i \in S : i \in ForcedAll(p, S)
    BY <1>1, <1>4 DEF ForcedAll, Forced, FreeFds
  <2>2. \A i \in Fds : fd'[p][i] = "free"
    BY <1>1, <1>2, <2>1
  <2>3. ASSUME rtc_maxcount'[p] # 0
        PROVE  p \in orphans'
    <3>1. ~ StopsClock(p, S) /\ rtc_maxcount[p] # 0
      BY <1>2, <2>3
    <3>2. ~ HasRtc(p)
      BY <1>1, <2>1, <3>1 DEF StopsClock, HasRtc
    <3>3. p \in orphans
      BY <3>1, <3>2 DEF LInv, ClocksHeld, ClockHeld
    <3>4. QED
      BY <3>2, <3>3
  <2>4. QED
    BY <2>2, <2>3 DEF Gone
<1>5. CASE name[p] = "gr"
  <2>1. RootFd \in S => RootFd \in ForcedAll(p, S)
    BY <1>1, <1>3 DEF ForcedAll, Forced, FreeFds
  <2>2. FileFd \in S => FileFd \in ForcedAll(p, S)
    BY <1>1, <1>3, <1>5 DEF ForcedAll, Forced, FreeFds, RootFd, FileFd
  <2>3. \A i \in Fds : fd'[p][i] # "free" => i > FileFd
    BY <1>1, <1>2, <1>3, <2>1, <2>2
  <2>4. ASSUME rtc_maxcount'[p] # 0
        PROVE  p \in orphans'
    <3>1. ~ StopsClock(p, S) /\ rtc_maxcount[p] # 0
      BY <1>2, <2>4
    <3>2. fd[p][RootFd] # "rtc" /\ fd[p][FileFd] # "rtc"
      BY <1>1, <1>3, <2>1, <2>2, <3>1 DEF StopsClock
    <3>3. GrLeavesClock(p) \/ ~ HasRtc(p)
      BY <1>5, <3>1, <3>2 DEF GrLeavesClock
    <3>4. ~ HasRtc(p) => p \in orphans
      BY <3>1 DEF LInv, ClocksHeld, ClockHeld
    <3>5. QED
      BY <3>3, <3>4
  <2>5. QED
    BY <1>5, <2>3, <2>4 DEF Gone
<1>6. QED
  BY <1>4, <1>5

LEMMA HaltLeaves ==
  ASSUME LInv, Halt
  PROVE  GoneClean' /\ ClocksHeld' /\ BasesClean'
<1>. PICK c \in Jobs : c = Current
  BY CurrentPlace DEF Halt, Calls, Uninterrupted
<1>. DEFINE q == jobs[turn]
<1>1. /\ c \in Jobs /\ turn \in Terminals /\ c = q[Len(q)]
      /\ q \in Seq(Jobs) /\ Len(q) \in Nat /\ Len(q) > 1
      /\ jobs \in [Terminals -> Seq(Jobs)]
      /\ jobs' = [jobs EXCEPT ![turn] = SubSeq(q, 1, Len(q) - 1)]
      /\ UNCHANGED name
  BY CurrentType
  DEF Halt, Finish, Calls, Uninterrupted, LInv, RInv, StacksOK, StacksTyped, Current, Top
<1>2. /\ Len(jobs'[turn]) = Len(q) - 1
      /\ \A i \in 1..(Len(q) - 1) : jobs'[turn][i] = q[i]
      /\ \A t \in Terminals : t # turn => jobs'[t] = jobs[t]
  BY <1>1
<1>3. /\ CloseFds(c, Fds \ FreeFds(c))
      /\ orphans' = IF GrLeavesClock(c) THEN orphans \cup {c}
                    ELSE IF HasRtc(c) THEN orphans \ {c} ELSE orphans
  BY DEF Halt
<1>4. \A p \in Jobs : p # c => Same(p)
  <2>1. \A p \in Jobs : p # c => fd'[p] = fd[p] /\ rtc_maxcount'[p] = rtc_maxcount[p]
    <3>1. Fds \ FreeFds(c) \in SUBSET Fds
      OBVIOUS
    <3>2. QED
      BY <1>1, <1>3, <3>1, CloseFdsLeaves
  <2>2. QED
    BY <1>1, <1>3, <2>1 DEF Same
<1>5. Gone(c)'
  BY <1>1, <1>3, HaltClears
<1>6. ASSUME NEW p \in Jobs, p \in Free', p # c
      PROVE  p \in Free
  <2>1. SUFFICES ASSUME NEW t \in Terminals, NEW i \in 1..Len(jobs[t]), p = jobs[t][i]
                 PROVE  FALSE
    BY <1>6 DEF Free, OnStack
  <2>2. CASE t # turn
    BY <1>2, <1>6, <2>1, <2>2 DEF Free, OnStack
  <2>3. CASE t = turn
    <3>1. i \in 1..(Len(q) - 1)
      BY <1>1, <1>6, <2>1, <2>3
    <3>2. i \in 1..Len(jobs'[turn]) /\ p = jobs'[turn][i]
      BY <1>2, <2>1, <2>3, <3>1
    <3>3. QED
      BY <1>1, <1>6, <3>2 DEF Free, OnStack
  <2>4. QED
    BY <2>2, <2>3
<1>7. GoneClean'
  <2>1. \A p \in Jobs : p \in Free' => Gone(p)'
    BY <1>4, <1>5, <1>6, SameKeeps DEF LInv, GoneClean
  <2>2. Free' \subseteq Jobs
    BY DEF Free
  <2>3. QED
    BY <2>1, <2>2 DEF GoneClean
<1>8. ClocksHeld'
  <2>1. ClockHeld(c)'
    BY <1>5 DEF Gone, ClockHeld
  <2>2. QED
    BY <1>4, <2>1, SameKeeps DEF LInv, ClocksHeld
<1>9. ASSUME NEW t \in Terminals, jobs'[t] # <<>>
      PROVE  AllFree(jobs[t][1])' /\ jobs'[t][1] = jobs[t][1]
  <2>1. jobs[t] # <<>> /\ jobs'[t][1] = jobs[t][1]
    <3>1. CASE t = turn
      BY <1>1, <1>2, <3>1
    <3>2. CASE t # turn
      BY <1>2, <1>9, <3>2
    <3>3. QED
      BY <3>1, <3>2
  <2>. PICK b \in Jobs : b = jobs[t][1]
    BY <2>1, BaseJob DEF LInv, RInv, StacksOK
  <2>2. AllFree(b)
    BY <2>1 DEF LInv, BasesClean
  <2>3. \A i \in Fds : fd'[b][i] = "free"
    <3>1. CASE b = c
      <4>1. \A i \in Fds : fd'[c][i] \in {"free", fd[c][i]}
        BY <1>3, ClosesType DEF CloseFds, LInv, RInv
      <4>2. QED
        BY <2>2, <3>1, <4>1 DEF AllFree
    <3>2. CASE b # c
      BY <1>4, <2>2, <3>2 DEF Same, AllFree
    <3>3. QED
      BY <3>1, <3>2
  <2>4. QED
    BY <2>1, <2>3 DEF AllFree
<1>10. BasesClean'
  BY <1>9 DEF BasesClean, AllFree, Terminals
<1>11. QED
  BY <1>7, <1>8, <1>10

(***************************************************************************)
(* A process starts with pid p: what the last program with it left was     *)
(* left by a program gr*, or p is the base shell that halts.               *)
(***************************************************************************)
LEMMA StartLeaves ==
  ASSUME LInv, NEW p \in Jobs, Gone(p), p \notin Free',
         fd' = [fd EXCEPT ![p] = [i \in Fds |-> "free"]],
         \A q \in Jobs : q # p => name'[q] = name[q],
         UNCHANGED <<rtc_maxcount, orphans>>,
         \A q \in Free' : Gone(q),
         \A t \in Terminals : jobs'[t] # <<>> =>
           \/ jobs'[t][1] = p
           \/ jobs[t] # <<>> /\ jobs'[t][1] = jobs[t][1]
  PROVE  GoneClean' /\ ClocksHeld' /\ BasesClean'
<1>1. fd'[p] = [i \in Fds |-> "free"] /\ \A q \in Jobs : q # p => fd'[q] = fd[q]
  BY DEF LInv, RInv, RtcTypeOK
<1>2. \A q \in Jobs : q # p => Same(q)
  BY <1>1 DEF Same
<1>3. GoneClean'
  <2>1. \A q \in Free' : q \in Jobs /\ q # p
    BY DEF Free
  <2>2. QED
    BY <1>2, <2>1, SameKeeps DEF GoneClean
<1>4. ClockHeld(p)'
  BY DEF Gone, ClockHeld
<1>5. ClocksHeld'
  BY <1>2, <1>4, SameKeeps DEF ClocksHeld, LInv
<1>6. ASSUME NEW t \in Terminals, jobs'[t] # <<>>
      PROVE  \A i \in Fds : fd'[jobs'[t][1]][i] = "free"
  <2>1. CASE jobs'[t][1] = p
    BY <1>1, <2>1
  <2>2. CASE jobs[t] # <<>> /\ jobs'[t][1] = jobs[t][1]
    <3>. PICK b \in Jobs : b = jobs[t][1]
      BY <2>2, BaseJob DEF LInv, RInv, StacksOK
    <3>1. AllFree(b)
      BY <2>2 DEF LInv, BasesClean
    <3>2. QED
      BY <1>1, <2>2, <3>1 DEF AllFree
  <2>3. QED
    BY <1>6, <2>1, <2>2
<1>7. BasesClean'
  BY <1>6 DEF BasesClean, AllFree, Terminals
<1>8. QED
  BY <1>3, <1>5, <1>7

LEMMA ExecuteLeaves ==
  ASSUME LInv, NEW p \in Jobs, Execute(p)
  PROVE  GoneClean' /\ ClocksHeld' /\ BasesClean'
<1>. DEFINE q == jobs[turn]
            s == Append(q, p)
<1>1. /\ turn \in Terminals /\ q \in Seq(Jobs) /\ q # <<>> /\ p \in Free
      /\ jobs \in [Terminals -> Seq(Jobs)]
      /\ jobs' = [jobs EXCEPT ![turn] = s]
  BY DEF Execute, Launch, LInv, RInv, StacksOK, StacksTyped
<1>2. /\ \A i \in 1..Len(q) : i \in 1..Len(s) /\ s[i] = q[i]
      /\ Len(q) \in Nat \ {0} /\ s[1] = q[1]
      /\ Len(q) + 1 \in 1..Len(s) /\ s[Len(q) + 1] = p
  BY <1>1
<1>. HIDE DEF s
<1>3. jobs'[turn] = s /\ \A t \in Terminals : t # turn => jobs'[t] = jobs[t]
  BY <1>1
<1>4. Gone(p)
  BY <1>1 DEF LInv, GoneClean
<1>5. ASSUME NEW x \in Free'
      PROVE  Gone(x)
  <2>1. ASSUME NEW t \in Terminals, NEW i \in 1..Len(jobs[t])
        PROVE  jobs[t][i] # x
    <3>1. i \in 1..Len(jobs'[t]) /\ jobs'[t][i] = jobs[t][i]
      BY <1>2, <1>3, <2>1
    <3>2. QED
      BY <1>5, <3>1 DEF Free, OnStack
  <2>2. x \in Free
    BY <1>5, <2>1 DEF Free, OnStack
  <2>3. QED
    BY <2>2 DEF LInv, GoneClean
<1>6. \A t \in Terminals : jobs'[t] # <<>> => jobs[t] # <<>> /\ jobs'[t][1] = jobs[t][1]
  BY <1>1, <1>2, <1>3
<1>7. \A x \in Jobs : x # p => name'[x] = name[x]
  BY DEF Execute, NewProcess, LInv, RInv, RtcTypeOK
<1>8. p \notin Free'
  <2>1. p \in OnStack(turn)'
    BY <1>2, <1>3 DEF OnStack, Execute, Launch
  <2>2. turn' = turn
    BY DEF Execute, Launch
  <2>3. QED
    BY <1>1, <2>1, <2>2 DEF Free, OnStack
<1>9. QED
  BY <1>4, <1>5, <1>6, <1>7, <1>8, StartLeaves DEF Execute, NewProcess, rtcvars

(***************************************************************************)
(* The stack of u is one base shell p, and was empty or one base shell.    *)
(***************************************************************************)
LEMMA ShellStarts ==
  ASSUME LInv, NEW p \in Jobs, NEW u \in Terminals,
         jobs' = [jobs EXCEPT ![u] = <<p>>],
         jobs[u] = <<>> \/ Len(jobs[u]) = 1,
         p \in Free \cup OnStack(u),
         fd' = [fd EXCEPT ![p] = [i \in Fds |-> "free"]],
         name' = [name EXCEPT ![p] = "other"],
         UNCHANGED <<rtc_maxcount, orphans>>
  PROVE  GoneClean' /\ ClocksHeld' /\ BasesClean'
<1>1. /\ jobs \in [Terminals -> Seq(Jobs)]
      /\ jobs'[u] = <<p>> /\ <<p>>[1] = p /\ Len(<<p>>) = 1
      /\ \A t \in Terminals : t # u => jobs'[t] = jobs[t]
  BY DEF LInv, RInv, StacksOK, StacksTyped
<1>2. \A x \in OnStack(u) : x \in Jobs /\ Gone(x)
  <2>1. CASE jobs[u] = <<>>
    BY <2>1 DEF OnStack
  <2>2. CASE Len(jobs[u]) = 1
    <3>1. 1..Len(jobs[u]) = {1}
      BY <2>2
    <3>2. jobs[u] # <<>> /\ OnStack(u) = {jobs[u][1]}
      BY <2>2, <3>1 DEF OnStack
    <3>. PICK b \in Jobs : b = jobs[u][1]
      BY <3>2, BaseJob DEF LInv, RInv, StacksOK
    <3>3. AllFree(b) /\ ClockHeld(b)
      BY <3>2 DEF LInv, BasesClean, ClocksHeld
    <3>4. Gone(b)
      BY <3>3 DEF AllFree, ClockHeld, Gone, HasRtc
    <3>5. QED
      BY <3>2, <3>4
  <2>3. QED
    BY <2>1, <2>2
<1>3. Gone(p)
  BY <1>2 DEF LInv, GoneClean
<1>4. ASSUME NEW x \in Free'
      PROVE  Gone(x)
  <2>1. CASE x \in OnStack(u)
    BY <1>2, <2>1
  <2>2. CASE x \notin OnStack(u)
    <3>1. ASSUME NEW t \in Terminals, t # u
          PROVE  x \notin OnStack(t)
      <4>1. OnStack(t)' = OnStack(t)
        BY <1>1, <3>1 DEF OnStack
      <4>2. QED
        BY <1>4, <4>1 DEF Free
    <3>2. x \in Free
      BY <1>4, <2>2, <3>1 DEF Free
    <3>3. QED
      BY <3>2 DEF LInv, GoneClean
  <2>3. QED
    BY <2>1, <2>2
<1>5. p \notin Free'
  <2>1. p \in {jobs'[u][i] : i \in 1..Len(jobs'[u])}
    BY <1>1
  <2>2. QED
    BY <2>1 DEF Free, OnStack
<1>6. \A t \in Terminals : jobs'[t] # <<>> =>
        \/ jobs'[t][1] = p
        \/ jobs[t] # <<>> /\ jobs'[t][1] = jobs[t][1]
  BY <1>1
<1>7. \A x \in Jobs : x # p => name'[x] = name[x]
  BY DEF LInv, RInv, RtcTypeOK
<1>8. QED
  BY <1>3, <1>4, <1>5, <1>6, <1>7, StartLeaves

LEMMA HaltBaseLeaves ==
  ASSUME LInv, NEW p \in Jobs, HaltBase(p)
  PROVE  GoneClean' /\ ClocksHeld' /\ BasesClean'
<1>1. /\ turn \in Terminals /\ Len(jobs[turn]) = 1
      /\ jobs' = [jobs EXCEPT ![turn] = <<p>>]
      /\ p \in Free \cup OnStack(turn)
      /\ UNCHANGED <<rtc_maxcount, orphans>>
  BY DEF HaltBase, Restart, LInv, RInv, StacksOK, StacksTyped, rtcvars
<1>. DEFINE u == turn
<1>2. u \in Terminals /\ Len(jobs[u]) = 1 /\ jobs' = [jobs EXCEPT ![u] = <<p>>]
      /\ p \in Free \cup OnStack(u)
  BY <1>1
<1>. HIDE DEF u
<1>3. QED
  BY <1>1, <1>2, ShellStarts DEF HaltBase

LEMMA TickLeaves ==
  ASSUME LInv, RtcTick
  PROVE  GoneClean' /\ ClocksHeld' /\ BasesClean'
<1>1. CASE RtcTickRotate
  BY <1>1, NothingOpened DEF RtcTickRotate, Rotate, rtcvars
<1>2. ASSUME NEW p \in Jobs, RtcTickFirst(p)
      PROVE  GoneClean' /\ ClocksHeld' /\ BasesClean'
  <2>. PICK u \in Terminals : u = turn'
    BY <1>2, NextTurnType DEF RtcTickFirst, First, LInv, RInv, StacksOK, StacksTyped
  <2>1. /\ jobs[u] = <<>> /\ p \in Free
        /\ jobs' = [jobs EXCEPT ![u] = <<p>>]
        /\ UNCHANGED <<rtc_maxcount, orphans>>
    BY <1>2 DEF RtcTickFirst, First, rtcvars
  <2>2. QED
    BY <1>2, <2>1, ShellStarts DEF RtcTickFirst
<1>3. QED
  BY <1>1, <1>2 DEF RtcTick

LEMMA WriteLeaves ==
  ASSUME LInv, NEW f \in Requests, WriteMaxcount(f)
  PROVE  GoneClean' /\ ClocksHeld' /\ BasesClean'
<1>. PICK c \in Jobs : c = Current
  BY CurrentPlace DEF WriteMaxcount, Calls, Uninterrupted
<1>1. /\ c \in Jobs /\ c \notin Free /\ HasRtc(c)
      /\ UNCHANGED <<jobs, name, fd, orphans>>
      /\ rtc_maxcount \in [Jobs -> Nat]
      /\ rtc_maxcount' = [rtc_maxcount EXCEPT ![c] = Rate(f)]
  BY CurrentPlace DEF WriteMaxcount, Calls, Uninterrupted, WritesRtc, LInv, RInv, RtcTypeOK
<1>2. \A p \in Jobs : p # c => Same(p)
  BY <1>1 DEF Same
<1>3. ClockHeld(c)'
  BY <1>1 DEF ClockHeld, HasRtc
<1>4. ASSUME NEW t \in Terminals, jobs[t] # <<>>, jobs[t][1] = c
      PROVE  AllFree(c)'
  BY <1>1, <1>4 DEF LInv, BasesClean, AllFree
<1>5. QED
  BY <1>1, <1>2, <1>3, <1>4, OneProcessChanges

-----------------------------------------------------------------------------

(***************************************************************************)
(* What the next program with a pid inherits, exactly: no descriptors but  *)
(* those above FileFd of a program gr*, and no running clock but one that  *)
(* ran at boot or that such a program left, however often pids are reused. *)
(***************************************************************************)
THEOREM NothingLeftCorrect == RtcSpec => []NothingLeftBehind
<1>1. RtcInit => LInv
  BY LeftInit
<1>2. LInv /\ [RtcNext]_allrtcvars => LInv'
  <2>. SUFFICES ASSUME LInv, [RtcNext]_allrtcvars
                PROVE  LInv'
    OBVIOUS
  <2>1. RInv'
    BY RtcStep DEF LInv
  <2>2. CASE RtcTick
    BY <2>1, <2>2, TickLeaves DEF LInv
  <2>3. CASE \E i \in Fds : Close(i) \/ \E type \in Devices : Open(type, i)
    BY <2>1, <2>3, CloseLeaves, OpenLeaves, DevicesAssumption DEF LInv
  <2>4. CASE \E p \in Jobs : Execute(p) \/ HaltBase(p)
    BY <2>1, <2>4, ExecuteLeaves, HaltBaseLeaves DEF LInv
  <2>5. CASE Halt
    BY <2>1, <2>5, HaltLeaves DEF LInv
  <2>6. CASE \E f \in Requests : WriteMaxcount(f)
    BY <2>1, <2>6, WriteLeaves DEF LInv
  <2>7. CASE \/ WriteCounter \/ ReadStart \/ RtcIrq \/ RtcScan \/ RtcDone
             \/ UNCHANGED allrtcvars \/ \E t \in Terminals : ReadReturn(t)
    <3>1. UNCHANGED <<jobs, name, fd, rtc_maxcount, orphans>>
      BY <2>7 DEF WriteCounter, ReadStart, ReadReturn, RtcIrq, RtcScan, ScanTest, ScanStore,
                  ScanCompare, ScanWake, RtcDone, allrtcvars, rtcvars
    <3>2. QED
      BY <2>1, <3>1, NothingOpened DEF LInv
  <2>8. QED
    BY <2>2, <2>3, <2>4, <2>5, <2>6, <2>7 DEF RtcNext, RtcProgram
<1>3. LInv => NothingLeftBehind
  BY DEF LInv, GoneClean, ClocksHeld, Gone, ClockHeld, NothingLeftBehind, Free, Live, FreeFds
<1>4. QED
  BY <1>1, <1>2, <1>3, PTL DEF RtcSpec

=============================================================================
