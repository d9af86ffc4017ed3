-------------------------- MODULE ProcessesProofs --------------------------
(***************************************************************************)
(* The invariants of Processes, for every number of pids and terminals.    *)
(*                                                                         *)
(* ProcessForest, PidsCounted, OwnContext and FramesKept hold together or  *)
(* not at all: the frame of a preempted program survives another program's *)
(* system call because no two of them own one kernel stack (ProcessForest) *)
(* and because the caller's stack is its own (OwnContext), and the caller  *)
(* gets that stack back from its PCB because the frame in it is its own    *)
(* (FramesKept).  Coupled adds what ties the contexts to the table of      *)
(* running processes.  The last part shows that Processes implements       *)
(* JobStacks: the chains of parents are stacks (JobsLinked), and each      *)
(* action does to them what an action of JobStacks does.                   *)
(***************************************************************************)
EXTENDS ProcessesJobs, FiniteSetTheorems, SequenceTheorems, WellFoundedInduction, TLAPS

IInv ==
  /\ TypeOK
  /\ ProcessForest
  /\ PidsCounted
  /\ OwnContext
  /\ FramesKept
  /\ Coupled

-----------------------------------------------------------------------------

(***************************************************************************)
(* The next terminal of the round robin is a terminal.                     *)
(***************************************************************************)
LEMMA NextTerminalType ==
  ASSUME TypeOK
  PROVE  NextTerminal \in Terminal
BY NumTerminalsAssumption DEF TypeOK, NextTerminal, Terminal

(***************************************************************************)
(* Entering the kernel leaves every saved frame a frame, and does not      *)
(* touch one that lies on its owner's stack.                               *)
(***************************************************************************)
LEMMA EnteredType ==
  ASSUME TypeOK, NEW deep
  PROVE  Entered(deep) \in [Pid -> Frames]
BY DEF TypeOK, Entered, Frames, Destroyed

LEMMA EnteredKeeps ==
  ASSUME TypeOK, OwnContext, NEW deep, NEW q \in Pid,
         saved[q].stack = q
  PROVE  Entered(deep)[q] = saved[q]
BY DEF TypeOK, OwnContext, Entered

LEMMA EnteredKeepsBy ==
  ASSUME TypeOK, NEW deep, NEW q \in Pid
  PROVE  Entered(deep)[q].by = saved[q].by
BY DEF TypeOK, Entered, Frames

(***************************************************************************)
(* What the invariant says of the process that makes a system call.        *)
(***************************************************************************)
LEMMA CallerFacts ==
  ASSUME IInv, InUser
  PROVE  /\ current_tid \in Terminal /\ cpu = current_tid
         /\ ctx[current_tid] = "user"
         /\ Running \in Pid /\ pid_st[Running] = 1
         /\ tss_esp0 = Running /\ image = Running
         /\ Running \notin Parents
BY DEF IInv, TypeOK, InUser, OwnContext, Coupled, ProcessForest, RunningAreLive,
       RunsOrWaits, Running, Live, NoPid

(***************************************************************************)
(* The pids in use are finitely many, at most MaxPid, and taking or        *)
(* freeing one changes their number by one.                                *)
(***************************************************************************)
LiveIn(st) == {p \in Pid : st[p] = 1}

LEMMA LiveFinite ==
  ASSUME NEW st
  PROVE  /\ IsFiniteSet(LiveIn(st))
         /\ Cardinality(LiveIn(st)) \in 0..MaxPid
<1>1. IsFiniteSet(Pid) /\ Cardinality(Pid) = MaxPid
  BY FS_Interval, MaxPidAssumption DEF Pid
<1>2. LiveIn(st) \in SUBSET Pid
  BY DEF LiveIn
<1>3. IsFiniteSet(LiveIn(st)) /\ Cardinality(LiveIn(st)) <= MaxPid
  BY <1>1, <1>2, FS_Subset
<1>4. QED
  BY <1>3, FS_CardinalityType, MaxPidAssumption

LEMMA TakePid ==
  ASSUME NEW st \in [Pid -> {0, 1}], NEW p \in Pid, st[p] = 0
  PROVE  Cardinality(LiveIn([st EXCEPT ![p] = 1])) = Cardinality(LiveIn(st)) + 1
<1>1. LiveIn([st EXCEPT ![p] = 1]) = LiveIn(st) \cup {p} /\ p \notin LiveIn(st)
  BY DEF LiveIn
<1>2. QED
  BY <1>1, LiveFinite, FS_AddElement, ZenonT(30)

LEMMA GivePid ==
  ASSUME NEW st \in [Pid -> {0, 1}], NEW p \in Pid, st[p] = 1
  PROVE  Cardinality(LiveIn([st EXCEPT ![p] = 0])) = Cardinality(LiveIn(st)) - 1
<1>1. LiveIn([st EXCEPT ![p] = 0]) = LiveIn(st) \ {p} /\ p \in LiveIn(st)
  BY DEF LiveIn
<1>2. QED
  BY <1>1, LiveFinite, FS_RemoveElement

-----------------------------------------------------------------------------

(***************************************************************************)
(* execute: the new process is on top of its caller, which waits.          *)
(***************************************************************************)
LEMMA ExecuteForest ==
  ASSUME IInv, NEW p \in Pid, NEW deep \in BOOLEAN, Execute(p, deep)
  PROVE  ProcessForest'
<1>. DEFINE r == Running
<1>1. /\ current_tid \in Terminal /\ r \in Pid /\ pid_st[r] = 1 /\ r \notin Parents
      /\ running_pid[current_tid] = r
  BY CallerFacts DEF Execute, Running
<1>2. /\ p # r /\ pid_st[p] = 0
      /\ pid_st' = [pid_st EXCEPT ![p] = 1]
      /\ par_pid' = [par_pid EXCEPT ![p] = r]
      /\ running_pid' = [running_pid EXCEPT ![current_tid] = p]
  BY <1>1 DEF Execute, Spawn, FirstFree
<1>3. /\ pid_st \in [Pid -> {0, 1}]
      /\ par_pid \in [Pid -> Pid \cup {NoPid}]
      /\ running_pid \in [Terminal -> Pid \cup {NoPid}]
      /\ NoPid \notin Pid
  BY DEF IInv, TypeOK, NoPid, Pid
<1>. USE <1>1, <1>2, <1>3
<1>4. Live' = Live \cup {p} /\ p \notin Live /\ r \in Live
  BY DEF Live
<1>5. p \notin Parents
  BY <1>4 DEF IInv, ProcessForest, ParentsAreLive, Parents, Live
<1>6. Parents' = Parents \cup {r}
  BY <1>4 DEF Parents, Live
<1>. HIDE DEF r
<1>7. RunningAreLive'
  BY <1>4 DEF IInv, ProcessForest, RunningAreLive
<1>8. RunningDistinct'
  BY <1>4 DEF IInv, ProcessForest, RunningDistinct, RunningAreLive
<1>9. ParentsAreLive'
  BY <1>4 DEF IInv, ProcessForest, ParentsAreLive, Live
<1>10. OneChild'
  BY <1>4 DEF IInv, ProcessForest, OneChild, Live, Parents
<1>11. RunsOrWaits'
  <2>1. \A q \in Live : (q \in Parents) <=> ~ \E t \in Terminal : running_pid[t] = q
    BY DEF IInv, ProcessForest, RunsOrWaits
  <2>2. \A t \in Terminal : running_pid[t] = r => t = current_tid
    BY DEF IInv, ProcessForest, RunningDistinct
  <2>3. \A t \in Terminal : running_pid[t] # p
    BY <1>4 DEF IInv, ProcessForest, RunningAreLive
  <2>4. QED
    BY <1>4, <1>5, <1>6, <2>1, <2>2, <2>3 DEF RunsOrWaits
<1>12. QED
  BY <1>7, <1>8, <1>9, <1>10, <1>11 DEF ProcessForest

(***************************************************************************)
(* The shell started by the timer: a tree of one process on a terminal     *)
(* that had none.                                                          *)
(***************************************************************************)
LEMMA StartForest ==
  ASSUME IInv, NEW p \in Pid, NEW deep \in BOOLEAN, TickStart(p, deep)
  PROVE  ProcessForest'
<1>. DEFINE n == NextTerminal
<1>1. n \in Terminal /\ running_pid[n] = NoPid
  BY NextTerminalType DEF IInv, TickStart
<1>2. /\ pid_st[p] = 0
      /\ pid_st' = [pid_st EXCEPT ![p] = 1]
      /\ par_pid' = [par_pid EXCEPT ![p] = NoPid]
      /\ running_pid' = [running_pid EXCEPT ![n] = p]
  BY DEF TickStart, Spawn, FirstFree
<1>3. /\ pid_st \in [Pid -> {0, 1}]
      /\ par_pid \in [Pid -> Pid \cup {NoPid}]
      /\ running_pid \in [Terminal -> Pid \cup {NoPid}]
      /\ NoPid \notin Pid
  BY DEF IInv, TypeOK, NoPid, Pid
<1>. USE <1>1, <1>2, <1>3
<1>4. Live' = Live \cup {p} /\ p \notin Live
  BY DEF Live
<1>5. p \notin Parents
  BY <1>4 DEF IInv, ProcessForest, ParentsAreLive, Parents, Live
<1>6. \A q \in Pid : q \in Parents' <=> q \in Parents
  BY <1>4 DEF Parents, Live
<1>. HIDE DEF n
<1>7. RunningAreLive'
  BY <1>4 DEF IInv, ProcessForest, RunningAreLive
<1>8. RunningDistinct'
  BY <1>4 DEF IInv, ProcessForest, RunningDistinct, RunningAreLive
<1>9. ParentsAreLive'
  BY <1>4 DEF IInv, ProcessForest, ParentsAreLive, Live
<1>10. OneChild'
  BY <1>4 DEF IInv, ProcessForest, OneChild, Live
<1>11. RunsOrWaits'
  <2>1. \A q \in Live : (q \in Parents) <=> ~ \E t \in Terminal : running_pid[t] = q
    BY DEF IInv, ProcessForest, RunsOrWaits
  <2>2. Live \subseteq Pid
    BY DEF Live
  <2>3. QED
    BY <1>4, <1>5, <1>6, <2>1, <2>2 DEF RunsOrWaits
<1>12. QED
  BY <1>7, <1>8, <1>9, <1>10, <1>11 DEF ProcessForest

(***************************************************************************)
(* halt of a child: its parent, which waited for it alone, runs again.     *)
(***************************************************************************)
LEMMA HaltChildForest ==
  ASSUME IInv, NEW deep \in BOOLEAN, HaltChild(deep)
  PROVE  ProcessForest'
<1>. DEFINE r == Running
            q == par_pid[r]
<1>1. /\ current_tid \in Terminal /\ r \in Pid /\ pid_st[r] = 1 /\ r \notin Parents
      /\ running_pid[current_tid] = r
  BY CallerFacts DEF HaltChild, Running
<1>2. /\ pid_st' = [pid_st EXCEPT ![r] = 0]
      /\ par_pid' = par_pid
      /\ running_pid' = [running_pid EXCEPT ![current_tid] = q]
      /\ q # NoPid
  BY DEF HaltChild, FreePid
<1>3. /\ pid_st \in [Pid -> {0, 1}]
      /\ par_pid \in [Pid -> Pid \cup {NoPid}]
      /\ running_pid \in [Terminal -> Pid \cup {NoPid}]
      /\ NoPid \notin Pid
  BY DEF IInv, TypeOK, NoPid, Pid
<1>. USE <1>1, <1>2, <1>3
<1>4. Live' = Live \ {r} /\ r \in Live
  BY DEF Live
<1>5. q \in Live /\ q \in Parents /\ q # r
  BY <1>4 DEF IInv, ProcessForest, ParentsAreLive, Parents
<1>6. \A x \in Live : par_pid[x] = q => x = r
  BY <1>4 DEF IInv, ProcessForest, OneChild
<1>7. \A x \in Pid : x \in Parents' <=> x \in Parents /\ x # q
  BY <1>4, <1>5, <1>6 DEF Parents, IInv, ProcessForest, OneChild
<1>8. \A t \in Terminal : running_pid[t] # q
  BY <1>5 DEF IInv, ProcessForest, RunsOrWaits
<1>9. \A t \in Terminal : running_pid[t] = r => t = current_tid
  BY DEF IInv, ProcessForest, RunningDistinct
<1>. HIDE DEF r, q
<1>10. RunningAreLive'
  BY <1>4, <1>5, <1>9 DEF IInv, ProcessForest, RunningAreLive
<1>11. RunningDistinct'
  BY <1>8 DEF IInv, ProcessForest, RunningDistinct
<1>12. ParentsAreLive'
  <2>1. \A x \in Live : par_pid[x] # r
    BY DEF Parents
  <2>2. QED
    BY <1>4, <2>1 DEF IInv, ProcessForest, ParentsAreLive
<1>13. OneChild'
  BY <1>4 DEF IInv, ProcessForest, OneChild
<1>14. RunsOrWaits'
  <2>1. \A x \in Live : (x \in Parents) <=> ~ \E t \in Terminal : running_pid[t] = x
    BY DEF IInv, ProcessForest, RunsOrWaits
  <2>2. Live \subseteq Pid
    BY DEF Live
  <2>3. QED
    BY <1>4, <1>5, <1>7, <1>8, <1>9, <2>1, <2>2 DEF RunsOrWaits
<1>15. QED
  BY <1>10, <1>11, <1>12, <1>13, <1>14 DEF ProcessForest

(***************************************************************************)
(* halt of a base shell: a new base shell takes its place, perhaps with    *)
(* the same pid.                                                           *)
(***************************************************************************)
LEMMA HaltBaseForest ==
  ASSUME IInv, NEW p \in Pid, NEW deep \in BOOLEAN, HaltBase(p, deep)
  PROVE  ProcessForest'
<1>. DEFINE r == Running
<1>1. /\ current_tid \in Terminal /\ r \in Pid /\ pid_st[r] = 1 /\ r \notin Parents
      /\ running_pid[current_tid] = r
  BY CallerFacts DEF HaltBase, Running
<1>2. /\ pid_st' = [pid_st EXCEPT ![r] = 0, ![p] = 1]
      /\ [pid_st EXCEPT ![r] = 0][p] = 0
      /\ par_pid' = [par_pid EXCEPT ![p] = NoPid]
      /\ running_pid' = [running_pid EXCEPT ![current_tid] = p]
      /\ par_pid[r] = NoPid
  BY DEF HaltBase, FreePid, Spawn, FirstFree
<1>3. /\ pid_st \in [Pid -> {0, 1}]
      /\ par_pid \in [Pid -> Pid \cup {NoPid}]
      /\ running_pid \in [Terminal -> Pid \cup {NoPid}]
      /\ NoPid \notin Pid
  BY DEF IInv, TypeOK, NoPid, Pid
<1>. USE <1>1, <1>2, <1>3
<1>4. Live' = (Live \ {r}) \cup {p} /\ r \in Live /\ (p = r \/ p \notin Live)
  BY DEF Live
<1>5. p \notin Parents
  BY <1>4 DEF IInv, ProcessForest, ParentsAreLive, Parents, Live
<1>6. \A x \in Pid : x \in Parents' <=> x \in Parents
  BY <1>4 DEF Parents, Live
<1>7. \A t \in Terminal : running_pid[t] \in {r, p} => t = current_tid
  BY <1>4 DEF IInv, ProcessForest, RunningDistinct, RunningAreLive
<1>. HIDE DEF r
<1>8. RunningAreLive'
  BY <1>4, <1>7 DEF IInv, ProcessForest, RunningAreLive
<1>9. RunningDistinct'
  BY <1>7 DEF IInv, ProcessForest, RunningDistinct
<1>10. ParentsAreLive'
  <2>1. \A x \in Live : par_pid[x] # r
    BY DEF Parents
  <2>2. QED
    BY <1>4, <2>1 DEF IInv, ProcessForest, ParentsAreLive, Live
<1>11. OneChild'
  BY <1>4 DEF IInv, ProcessForest, OneChild, Live
<1>12. RunsOrWaits'
  <2>1. \A x \in Live : (x \in Parents) <=> ~ \E t \in Terminal : running_pid[t] = x
    BY DEF IInv, ProcessForest, RunsOrWaits
  <2>2. Live \subseteq Pid
    BY DEF Live
  <2>3. QED
    BY <1>4, <1>5, <1>6, <1>7, <2>1, <2>2 DEF RunsOrWaits
<1>13. QED
  BY <1>8, <1>9, <1>10, <1>11, <1>12 DEF ProcessForest

-----------------------------------------------------------------------------

(***************************************************************************)
(* Types, and the count of pids, through the common part of every start.   *)
(***************************************************************************)
LEMMA SpawnType ==
  ASSUME TypeOK,
         NEW p \in Pid, NEW t \in Terminal, NEW parent \in Pid \cup {NoPid},
         NEW s \in Pid, NEW st \in [Pid -> {0, 1}], NEW cnt,
         cnt = Cardinality(LiveIn(st)),
         NEW frames \in [Pid -> Frames], NEW esp0s \in [Pid -> Pid],
         Spawn(p, t, parent, s, st, cnt, frames, esp0s)
  PROVE  TypeOK' /\ PidsCounted'
<1>1. pid_st' = [st EXCEPT ![p] = 1] /\ st[p] = 0 /\ pid_cnt' = cnt + 1
  BY DEF Spawn, FirstFree
<1>2. Cardinality(LiveIn(pid_st')) = pid_cnt'
  BY <1>1, TakePid
<1>3. PidsCounted'
  BY <1>2 DEF PidsCounted, Live, LiveIn
<1>4. pid_cnt' \in 0..MaxPid
  BY <1>2, LiveFinite
<1>5. pid_st' \in [Pid -> {0, 1}]
  BY <1>1
<1>6. saved' \in [Pid -> Frames]
  BY DEF Spawn, ParentFrame, Frames, Pid
<1>7. /\ par_pid' \in [Pid -> Pid \cup {NoPid}]
      /\ pcb_esp0' \in [Pid -> Pid]
      /\ running_pid' \in [Terminal -> Pid \cup {NoPid}]
      /\ current_tid' \in Terminal
      /\ image' \in Pid \cup {NoPid}
      /\ tss_esp0' \in Pid
      /\ cpu' \in Terminal \cup {Boot, Undefined}
      /\ ctx' \in [Terminal -> Contexts]
      /\ kstack' \in Pid \cup {Destroyed}
  BY DEF TypeOK, Spawn, Contexts
<1>8. QED
  BY <1>3, <1>4, <1>5, <1>6, <1>7 DEF TypeOK

(***************************************************************************)
(* What a tick may interrupt, and what process_switch saves of it: after   *)
(* it the frame of every terminal is saved, that of the interrupted one    *)
(* included.                                                               *)
(***************************************************************************)
LEMMA InterruptFacts ==
  ASSUME IInv, Interruptible
  PROVE  /\ EntryStack \in Pid
         /\ cpu = Boot \/ (cpu = current_tid /\ Running \in Pid)
         /\ cpu = Boot => Running = NoPid
         /\ \A t \in Terminal : ctx[t] # "off" => running_pid[t] \in Pid
<1>1. cpu # Undefined /\ current_tid \in Terminal
  BY DEF Interruptible, InUser, InExecute, IInv, TypeOK, Undefined, Boot, Terminal
<1>2. EntryStack \in Pid
  BY <1>1 DEF EntryStack, IInv, TypeOK, Coupled
<1>3. \A t \in Terminal : ctx[t] # "off" => running_pid[t] \in Pid
  BY DEF IInv, TypeOK, Coupled
<1>4. cpu = Boot \/ (cpu = current_tid /\ Running \in Pid)
  BY <1>1, <1>3 DEF Interruptible, InUser, InExecute, Running
<1>5. cpu = Boot => Running = NoPid
  BY <1>1 DEF IInv, Coupled, Running
<1>6. QED
  BY <1>2, <1>3, <1>4, <1>5

LEMMA SavedTypes ==
  ASSUME IInv, Interruptible, NEW deep
  PROVE  SavedEsp0 \in [Pid -> Pid] /\ SavedContext(deep) \in [Pid -> Frames]
<1>1. Entered(deep) \in [Pid -> Frames]
  BY EnteredType DEF IInv
<1>2. EntryStack \in Pid
  BY InterruptFacts
<1>3. QED
  BY <1>1, <1>2 DEF SavedEsp0, SavedContext, IInv, TypeOK, Frames

LEMMA WaitingSurvives ==
  ASSUME IInv, NEW deep, NEW q \in Live \cap Parents
  PROVE  Entered(deep)[q] = [by |-> "execute", stack |-> q]
<1>1. saved[q] = [by |-> "execute", stack |-> q] /\ q \in Pid
  BY DEF IInv, FramesKept, WaitingFrameKept, Live
<1>2. QED
  BY <1>1, EnteredKeeps DEF IInv

LEMMA PreemptedSurvives ==
  ASSUME IInv, NEW deep, NEW t \in Terminal, t # cpu, ctx[t] = "user"
  PROVE  Entered(deep)[running_pid[t]] = [by |-> "switch", stack |-> running_pid[t]]
<1>1. running_pid[t] \in Pid
  BY DEF IInv, Coupled, TypeOK
<1>2. saved[running_pid[t]] = [by |-> "switch", stack |-> running_pid[t]]
  BY DEF IInv, FramesKept, PreemptedFrameKept
<1>3. QED
  BY <1>1, <1>2, EnteredKeeps DEF IInv

LEMMA SavedSurvives ==
  ASSUME IInv, Interruptible, NEW deep
  PROVE  /\ \A t \in Terminal : ctx[t] = "user" =>
              /\ SavedContext(deep)[running_pid[t]]
                   = [by |-> "switch", stack |-> running_pid[t]]
              /\ SavedEsp0[running_pid[t]] = running_pid[t]
         /\ \A t \in Terminal : ctx[t] \in {"enter", "iret"} =>
              SavedContext(deep)[running_pid[t]].by = "switch"
         /\ \A t \in Terminal : ctx[t] = "iret" =>
              SavedEsp0[running_pid[t]] = running_pid[t]
         /\ \A q \in Live \cap Parents :
              SavedContext(deep)[q] = [by |-> "execute", stack |-> q]
<1>. DEFINE F == Entered(deep)
            r == Running
<1>1. F \in [Pid -> Frames]
  BY EnteredType DEF IInv
<1>2. /\ EntryStack \in Pid
      /\ cpu = Boot \/ (cpu = current_tid /\ r \in Pid)
      /\ cpu = Boot => r = NoPid
      /\ \A t \in Terminal : ctx[t] # "off" => running_pid[t] \in Pid
  BY InterruptFacts
<1>3. /\ pcb_esp0 \in [Pid -> Pid] /\ r = running_pid[current_tid]
      /\ current_tid \in Terminal /\ NoPid \notin Pid /\ Boot \notin Terminal
  BY DEF IInv, TypeOK, Running, NoPid, Pid, Boot, Terminal
<1>4. /\ SavedContext(deep) = IF r = NoPid THEN F
            ELSE [F EXCEPT ![r] = [by |-> "switch", stack |-> EntryStack]]
      /\ SavedEsp0 = IF r = NoPid THEN pcb_esp0
                      ELSE [pcb_esp0 EXCEPT ![r] = tss_esp0]
  BY DEF SavedContext, SavedEsp0
<1>5. \A t, u \in Terminal : t # u /\ running_pid[t] # NoPid
                               => running_pid[t] # running_pid[u]
  BY DEF IInv, ProcessForest, RunningDistinct
<1>6. \A t \in Terminal : t # cpu /\ ctx[t] = "user" =>
         /\ F[running_pid[t]] = [by |-> "switch", stack |-> running_pid[t]]
         /\ pcb_esp0[running_pid[t]] = running_pid[t]
  BY PreemptedSurvives DEF IInv, FramesKept, PreemptedFrameKept
<1>7. \A t \in Terminal : t # cpu /\ ctx[t] \in {"enter", "iret"} =>
         F[running_pid[t]].by = "switch"
  BY <1>2, EnteredKeepsBy DEF IInv, Coupled
<1>8. \A t \in Terminal : t # cpu /\ ctx[t] = "iret" =>
         pcb_esp0[running_pid[t]] = running_pid[t]
  BY DEF IInv, Coupled
<1>9. cpu = current_tid /\ ctx[cpu] = "user" => EntryStack = r /\ tss_esp0 = r
  BY DEF EntryStack, InUser, IInv, OwnContext
<1>10. cpu = current_tid /\ ctx[cpu] = "iret" => tss_esp0 = r
  BY DEF InExecute, IInv, OwnContext
<1>11. \A q \in Live \cap Parents : F[q] = [by |-> "execute", stack |-> q]
  BY WaitingSurvives
<1>12. \A q \in Live \cap Parents : q # r /\ q \in Pid
  BY <1>3 DEF IInv, ProcessForest, RunsOrWaits, Live
<1>. HIDE DEF F, r
<1>13. \A t \in Terminal : ctx[t] = "user" =>
         /\ SavedContext(deep)[running_pid[t]]
              = [by |-> "switch", stack |-> running_pid[t]]
         /\ SavedEsp0[running_pid[t]] = running_pid[t]
  BY <1>1, <1>2, <1>3, <1>4, <1>5, <1>6, <1>9
<1>14. \A t \in Terminal : ctx[t] \in {"enter", "iret"} =>
         SavedContext(deep)[running_pid[t]].by = "switch"
  BY <1>1, <1>2, <1>3, <1>4, <1>5, <1>7
<1>15. \A t \in Terminal : ctx[t] = "iret" =>
         SavedEsp0[running_pid[t]] = running_pid[t]
  BY <1>2, <1>3, <1>4, <1>5, <1>8, <1>10
<1>16. \A q \in Live \cap Parents :
         SavedContext(deep)[q] = [by |-> "execute", stack |-> q]
  BY <1>1, <1>4, <1>11, <1>12
<1>17. QED
  BY <1>13, <1>14, <1>15, <1>16

-----------------------------------------------------------------------------

(***************************************************************************)
(* Init, and then every action, keeps the invariant.                       *)
(***************************************************************************)
LEMMA InitInv ==
  ASSUME Init
  PROVE  IInv
<1>1. Live = {} /\ Parents = {}
  BY DEF Init, Live, Parents
<1>2. PidsCounted
  BY <1>1, FS_EmptySet DEF Init, PidsCounted
<1>3. TypeOK
  BY MaxPidAssumption, NumTerminalsAssumption
  DEF Init, TypeOK, Pid, Terminal, Frames, Contexts, NoPid, Boot, Destroyed
<1>4. ProcessForest
  BY <1>1 DEF Init, ProcessForest, RunningAreLive, RunningDistinct, ParentsAreLive,
              OneChild, RunsOrWaits
<1>5. OwnContext /\ FramesKept
  BY <1>1 DEF Init, OwnContext, InUser, InExecute, Boot, FramesKept,
              PreemptedFrameKept, WaitingFrameKept
<1>6. Coupled
  BY MaxPidAssumption
  DEF Init, Coupled, Boot, Terminal, NoPid, Pid, Contexts
<1>7. QED
  BY <1>2, <1>3, <1>4, <1>5, <1>6 DEF IInv

(***************************************************************************)
(* The contexts after a start.  g and e are the saved frames and the esp0  *)
(* fields just before it, as the system call or the tick left them: the    *)
(* frames of every terminal u # t and of every waiting process are good    *)
(* there.                                                                  *)
(***************************************************************************)
GoodFrames(g, e, t) ==
  /\ \A u \in Terminal : u # t /\ ctx[u] = "user" =>
       /\ g[running_pid[u]] = [by |-> "switch", stack |-> running_pid[u]]
       /\ e[running_pid[u]] = running_pid[u]
  /\ \A u \in Terminal : u # t /\ ctx[u] \in {"enter", "iret"} =>
       g[running_pid[u]].by = "switch"
  /\ \A u \in Terminal : u # t /\ ctx[u] = "iret" =>
       e[running_pid[u]] = running_pid[u]
  /\ \A q \in Live \cap Parents : g[q] = [by |-> "execute", stack |-> q]

LEMMA SpawnContexts ==
  ASSUME IInv, ProcessForest',
         NEW p \in Pid, NEW t \in Terminal, NEW parent \in Pid \cup {NoPid},
         NEW s \in Pid, NEW st \in [Pid -> {0, 1}], NEW cnt,
         NEW g \in [Pid -> Frames], NEW e \in [Pid -> Pid],
         Spawn(p, t, parent, s, st, cnt, g, e),
         parent # NoPid => parent = running_pid[t] /\ s = parent,
         \A q \in Pid : st[q] = 1 => pid_st[q] = 1,
         \A u \in Terminal : u # t => running_pid[u] # p,
         GoodFrames(g, e, t)
  PROVE  OwnContext' /\ FramesKept' /\ Coupled'
<1>1. /\ pid_st' = [st EXCEPT ![p] = 1]
      /\ par_pid' = [par_pid EXCEPT ![p] = parent]
      /\ running_pid' = [running_pid EXCEPT ![t] = p]
      /\ pcb_esp0' = [e EXCEPT ![p] = p]
      /\ image' = p /\ current_tid' = t /\ cpu' = t
      /\ ctx' = [ctx EXCEPT ![t] = "enter"]
      /\ kstack' = s /\ tss_esp0' = tss_esp0
      /\ saved' = IF parent = NoPid THEN g
                  ELSE [g EXCEPT ![parent] = [by |-> "execute", stack |-> s]]
  BY DEF Spawn, ParentFrame
<1>2. /\ ctx \in [Terminal -> Contexts]
      /\ par_pid \in [Pid -> Pid \cup {NoPid}]
      /\ running_pid \in [Terminal -> Pid \cup {NoPid}]
      /\ NoPid \notin Pid /\ Boot \notin Terminal /\ Undefined \notin Terminal
  BY DEF IInv, TypeOK, NoPid, Pid, Boot, Undefined, Terminal
<1>3. \A u \in Terminal : ctx[u] # "off" => running_pid[u] \in Pid
  BY <1>2 DEF IInv, Coupled
<1>4. \A u \in Terminal : u # t /\ running_pid[u] # NoPid =>
         running_pid[u] # running_pid[t]
  BY DEF IInv, ProcessForest, RunningDistinct
<1>5. OwnContext'
  BY <1>1, <1>2 DEF OwnContext, InUser, InExecute, Running
<1>6. PreemptedFrameKept'
  BY <1>1, <1>2, <1>3, <1>4 DEF PreemptedFrameKept, GoodFrames
<1>7. WaitingFrameKept'
  <2>. SUFFICES ASSUME NEW q \in (Live \cap Parents)'
                PROVE  saved'[q] = [by |-> "execute", stack |-> q]
    BY DEF WaitingFrameKept
  <2>1. q \in Pid /\ q # p
    BY <1>1, <1>2 DEF ProcessForest, RunsOrWaits, Live
  <2>2. CASE q = parent
    BY <1>1, <1>2, <2>1, <2>2
  <2>3. CASE q # parent
    <3>1. pid_st[q] = 1
      BY <1>1, <2>1 DEF Live
    <3>2. PICK x \in Live' : par_pid'[x] = q
      BY DEF Parents
    <3>3. x \in Pid /\ x # p
      BY <1>1, <1>2, <2>3, <3>2 DEF Live
    <3>4. x \in Live /\ par_pid[x] = q
      BY <1>1, <1>2, <3>2, <3>3 DEF Live
    <3>5. q \in Live \cap Parents
      BY <2>1, <3>1, <3>4 DEF Live, Parents
    <3>6. QED
      BY <1>1, <2>1, <2>3, <3>5 DEF GoodFrames
  <2>4. QED
    BY <2>2, <2>3
<1>8. Coupled'
  BY <1>1, <1>2, <1>3, <1>4 DEF Coupled, GoodFrames, IInv
<1>9. QED
  BY <1>5, <1>6, <1>7, <1>8 DEF FramesKept

LEMMA ExecuteInv ==
  ASSUME IInv, NEW p \in Pid, NEW deep \in BOOLEAN, Execute(p, deep)
  PROVE  IInv'
<1>. DEFINE r == Running
            F == Entered(deep)
<1>1. InUser /\ Spawn(p, current_tid, r, r, pid_st, pid_cnt, F, pcb_esp0)
  BY CallerFacts DEF Execute
<1>2. /\ current_tid \in Terminal /\ cpu = current_tid
      /\ r \in Pid /\ pid_st[r] = 1 /\ r \notin Parents /\ r = running_pid[current_tid]
      /\ tss_esp0 = r
  BY <1>1, CallerFacts DEF Running
<1>3. F \in [Pid -> Frames]
  BY EnteredType DEF IInv
<1>4. TypeOK' /\ PidsCounted'
  <2>1. pid_st \in [Pid -> {0, 1}] /\ pcb_esp0 \in [Pid -> Pid] /\ TypeOK
    BY DEF IInv, TypeOK
  <2>2. pid_cnt = Cardinality(LiveIn(pid_st))
    BY DEF IInv, PidsCounted, Live, LiveIn
  <2>3. QED
    BY <1>1, <1>2, <1>3, <2>1, <2>2, SpawnType
<1>5. ProcessForest'
  BY ExecuteForest
<1>6. \A u \in Terminal : u # current_tid => running_pid[u] # p
  BY <1>1 DEF Spawn, FirstFree, IInv, ProcessForest, RunningAreLive, Live, NoPid, Pid
<1>7. GoodFrames(F, pcb_esp0, current_tid)
  <2>1. \A q \in Live \cap Parents : F[q] = [by |-> "execute", stack |-> q]
    BY WaitingSurvives
  <2>2. \A u \in Terminal : u # current_tid /\ ctx[u] = "user" =>
          F[running_pid[u]] = [by |-> "switch", stack |-> running_pid[u]]
    BY <1>2, PreemptedSurvives
  <2>3. \A u \in Terminal : u # current_tid /\ ctx[u] \in {"enter", "iret"} =>
          F[running_pid[u]].by = "switch"
    BY <1>2, EnteredKeepsBy DEF IInv, Coupled, TypeOK
  <2>4. QED
    BY <1>2, <2>1, <2>2, <2>3
    DEF GoodFrames, IInv, Coupled, FramesKept, PreemptedFrameKept
<1>8. pid_st \in [Pid -> {0, 1}] /\ pcb_esp0 \in [Pid -> Pid]
  BY DEF IInv, TypeOK
<1>. HIDE DEF r, F
<1>9. OwnContext' /\ FramesKept' /\ Coupled'
  BY <1>1, <1>2, <1>3, <1>5, <1>6, <1>7, <1>8, SpawnContexts
<1>10. QED
  BY <1>4, <1>5, <1>9 DEF IInv

LEMMA HaltBaseInv ==
  ASSUME IInv, NEW p \in Pid, NEW deep \in BOOLEAN, HaltBase(p, deep)
  PROVE  IInv'
<1>. DEFINE r == Running
            F == Entered(deep)
            st == FreePid(r)
            cnt == pid_cnt - 1
<1>1. InUser /\ Spawn(p, current_tid, NoPid, r, st, cnt, F, pcb_esp0)
  BY CallerFacts DEF HaltBase
<1>2. /\ current_tid \in Terminal /\ cpu = current_tid
      /\ r \in Pid /\ pid_st[r] = 1 /\ r = running_pid[current_tid]
  BY <1>1, CallerFacts DEF Running
<1>3. /\ pid_st \in [Pid -> {0, 1}] /\ pcb_esp0 \in [Pid -> Pid] /\ TypeOK
      /\ F \in [Pid -> Frames]
      /\ st = [pid_st EXCEPT ![r] = 0] /\ st \in [Pid -> {0, 1}]
  BY EnteredType DEF IInv, TypeOK, FreePid
<1>4. TypeOK' /\ PidsCounted'
  <2>1. pid_cnt = Cardinality(LiveIn(pid_st))
    BY DEF IInv, PidsCounted, Live, LiveIn
  <2>2. cnt = Cardinality(LiveIn(st))
    BY <1>2, <1>3, <2>1, GivePid
  <2>. HIDE DEF r, F, st, cnt
  <2>3. QED
    BY <1>1, <1>2, <1>3, <2>2, SpawnType
<1>5. ProcessForest'
  BY HaltBaseForest
<1>6. \A u \in Terminal : u # current_tid => running_pid[u] # p
  <2>1. \A u \in Terminal : u # current_tid /\ running_pid[u] # NoPid =>
          running_pid[u] # r /\ running_pid[u] \in Live
    BY <1>2 DEF IInv, ProcessForest, RunningDistinct, RunningAreLive
  <2>2. st[p] = 0 /\ p # NoPid
    BY <1>1 DEF Spawn, FirstFree, NoPid, Pid
  <2>. HIDE DEF r, st
  <2>3. QED
    BY <1>2, <1>3, <2>1, <2>2 DEF Live
<1>7. GoodFrames(F, pcb_esp0, current_tid)
  <2>1. \A q \in Live \cap Parents : F[q] = [by |-> "execute", stack |-> q]
    BY WaitingSurvives
  <2>2. \A u \in Terminal : u # current_tid /\ ctx[u] = "user" =>
          F[running_pid[u]] = [by |-> "switch", stack |-> running_pid[u]]
    BY <1>2, PreemptedSurvives
  <2>3. \A u \in Terminal : u # current_tid /\ ctx[u] \in {"enter", "iret"} =>
          F[running_pid[u]].by = "switch"
    BY <1>2, EnteredKeepsBy DEF IInv, Coupled, TypeOK
  <2>4. QED
    BY <1>2, <2>1, <2>2, <2>3
    DEF GoodFrames, IInv, Coupled, FramesKept, PreemptedFrameKept
<1>8. \A q \in Pid : st[q] = 1 => pid_st[q] = 1
  BY <1>2, <1>3
<1>9. OwnContext' /\ FramesKept' /\ Coupled'
  <2>1. /\ current_tid \in Terminal /\ r \in Pid /\ NoPid \in Pid \cup {NoPid}
        /\ st \in [Pid -> {0, 1}] /\ F \in [Pid -> Frames] /\ pcb_esp0 \in [Pid -> Pid]
    BY <1>2, <1>3
  <2>2. Spawn(p, current_tid, NoPid, r, st, cnt, F, pcb_esp0)
    BY <1>1
  <2>. HIDE DEF r, F, st, cnt
  <2>3. QED
    BY <1>5, <1>6, <1>7, <1>8, <2>1, <2>2, SpawnContexts
<1>10. QED
  BY <1>4, <1>5, <1>9 DEF IInv

LEMMA TickStartInv ==
  ASSUME IInv, NEW p \in Pid, NEW deep \in BOOLEAN, TickStart(p, deep)
  PROVE  IInv'
<1>. DEFINE n == NextTerminal
            G == SavedContext(deep)
            E == SavedEsp0
<1>1. /\ Interruptible /\ running_pid[n] = NoPid
      /\ Spawn(p, n, NoPid, EntryStack, pid_st, pid_cnt, G, E)
  BY DEF TickStart
<1>2. /\ n \in Terminal /\ EntryStack \in Pid
      /\ G \in [Pid -> Frames] /\ E \in [Pid -> Pid]
  BY <1>1, NextTerminalType, InterruptFacts, SavedTypes DEF IInv
<1>3. /\ pid_st \in [Pid -> {0, 1}] /\ TypeOK
      /\ pid_cnt = Cardinality(LiveIn(pid_st))
  BY DEF IInv, TypeOK, PidsCounted, Live, LiveIn
<1>4. GoodFrames(G, E, n)
  BY <1>1, SavedSurvives DEF GoodFrames
<1>5. \A u \in Terminal : u # n => running_pid[u] # p
  BY <1>1 DEF Spawn, FirstFree, IInv, ProcessForest, RunningAreLive, Live, NoPid, Pid
<1>6. ProcessForest'
  BY StartForest
<1>. HIDE DEF n, G, E
<1>7. TypeOK' /\ PidsCounted'
  BY <1>1, <1>2, <1>3, SpawnType
<1>8. OwnContext' /\ FramesKept' /\ Coupled'
  BY <1>1, <1>2, <1>3, <1>4, <1>5, <1>6, SpawnContexts
<1>9. QED
  BY <1>6, <1>7, <1>8 DEF IInv

(***************************************************************************)
(* The actions that start nothing and end nothing leave the forest and the *)
(* count alone.                                                            *)
(***************************************************************************)
LEMMA SameForest ==
  ASSUME IInv, UNCHANGED <<pids, par_pid, running_pid>>
  PROVE  ProcessForest' /\ PidsCounted' /\ Live' = Live /\ Parents' = Parents
<1>1. UNCHANGED <<pid_st, pid_cnt>>
  BY DEF pids
<1>2. Live' = Live /\ Parents' = Parents
  BY <1>1 DEF Live, Parents
<1>3. QED
  BY <1>1, <1>2
  DEF IInv, ProcessForest, RunningAreLive, RunningDistinct, ParentsAreLive, OneChild,
      RunsOrWaits, PidsCounted

LEMMA TickResumeInv ==
  ASSUME IInv, NEW deep \in BOOLEAN, TickResume(deep)
  PROVE  IInv'
<1>. DEFINE n == NextTerminal
            G == SavedContext(deep)
            E == SavedEsp0
            new == running_pid[n]
<1>1. /\ Interruptible /\ new # NoPid
      /\ pcb_esp0' = E /\ saved' = G /\ image' = new
      /\ tss_esp0' = E[new] /\ current_tid' = n /\ kstack' = G[new].stack
      /\ cpu' = IF G[new].stack = Destroyed THEN Undefined ELSE n
      /\ UNCHANGED <<pids, par_pid, running_pid, ctx>>
  BY DEF TickResume
<1>2. /\ n \in Terminal /\ G \in [Pid -> Frames] /\ E \in [Pid -> Pid]
  BY <1>1, NextTerminalType, SavedTypes DEF IInv
<1>3. new \in Pid /\ ctx[n] # "off" /\ G[new].stack \in Pid \cup {Destroyed}
  BY <1>1, <1>2 DEF IInv, TypeOK, Coupled, Frames
<1>4. ProcessForest' /\ PidsCounted' /\ Live' = Live /\ Parents' = Parents
  BY <1>1, SameForest
<1>5. /\ \A t \in Terminal : ctx[t] = "user" =>
           /\ G[running_pid[t]] = [by |-> "switch", stack |-> running_pid[t]]
           /\ E[running_pid[t]] = running_pid[t]
      /\ \A t \in Terminal : ctx[t] \in {"enter", "iret"} =>
           G[running_pid[t]].by = "switch"
      /\ \A t \in Terminal : ctx[t] = "iret" => E[running_pid[t]] = running_pid[t]
      /\ \A q \in Live \cap Parents : G[q] = [by |-> "execute", stack |-> q]
  BY <1>1, SavedSurvives
<1>6. /\ pid_st' = pid_st /\ pid_cnt' = pid_cnt
      /\ Undefined \notin Terminal /\ Boot \notin Terminal /\ Undefined # Boot
  BY <1>1 DEF pids, Undefined, Boot, Terminal
<1>. HIDE DEF n, G, E
<1>7. TypeOK'
  BY <1>1, <1>2, <1>3, <1>6 DEF IInv, TypeOK
<1>8. OwnContext'
  BY <1>1, <1>2, <1>3, <1>5, <1>6 DEF OwnContext, InUser, InExecute, Running
<1>9. FramesKept'
  BY <1>1, <1>4, <1>5 DEF FramesKept, PreemptedFrameKept, WaitingFrameKept
<1>10. Coupled'
  BY <1>1, <1>2, <1>3, <1>5, <1>6 DEF Coupled, IInv
<1>11. QED
  BY <1>4, <1>7, <1>8, <1>9, <1>10 DEF IInv

LEMMA TickStartFailsInv ==
  ASSUME IInv, NEW deep \in BOOLEAN, TickStartFails(deep)
  PROVE  IInv'
<1>. DEFINE n == NextTerminal
            G == SavedContext(deep)
            E == SavedEsp0
<1>1. /\ Interruptible /\ running_pid[n] = NoPid
      /\ pcb_esp0' = E /\ saved' = G /\ current_tid' = n
      /\ UNCHANGED <<pids, par_pid, running_pid>>
      /\ UNCHANGED <<image, tss_esp0, cpu, ctx, kstack>>
  BY DEF TickStartFails, cpuvars
<1>2. /\ n \in Terminal /\ G \in [Pid -> Frames] /\ E \in [Pid -> Pid]
  BY <1>1, NextTerminalType, SavedTypes DEF IInv
<1>3. ProcessForest' /\ PidsCounted' /\ Live' = Live /\ Parents' = Parents
  BY <1>1, SameForest
<1>4. /\ \A t \in Terminal : ctx[t] = "user" =>
           /\ G[running_pid[t]] = [by |-> "switch", stack |-> running_pid[t]]
           /\ E[running_pid[t]] = running_pid[t]
      /\ \A t \in Terminal : ctx[t] \in {"enter", "iret"} =>
           G[running_pid[t]].by = "switch"
      /\ \A t \in Terminal : ctx[t] = "iret" => E[running_pid[t]] = running_pid[t]
      /\ \A q \in Live \cap Parents : G[q] = [by |-> "execute", stack |-> q]
  BY <1>1, SavedSurvives
<1>5. pid_st' = pid_st /\ pid_cnt' = pid_cnt
  BY <1>1 DEF pids
<1>6. ctx[n] = "off"
  BY <1>1, <1>2 DEF IInv, Coupled
<1>. HIDE DEF n, G, E
<1>7. TypeOK'
  BY <1>1, <1>2, <1>5 DEF IInv, TypeOK
<1>8. OwnContext'
  BY <1>1, <1>2, <1>6 DEF OwnContext, InUser, InExecute
<1>9. FramesKept'
  BY <1>1, <1>3, <1>4 DEF FramesKept, PreemptedFrameKept, WaitingFrameKept
<1>10. Coupled'
  BY <1>1, <1>4 DEF Coupled, IInv
<1>11. QED
  BY <1>3, <1>7, <1>8, <1>9, <1>10 DEF IInv

(***************************************************************************)
(* The actions of a program that keep it on the CPU: a failed execute and  *)
(* the two steps from sti() to IRET.                                       *)
(***************************************************************************)
LEMMA ExecuteFailsInv ==
  ASSUME IInv, NEW deep \in BOOLEAN, ExecuteFails(deep)
  PROVE  IInv'
<1>. DEFINE F == Entered(deep)
<1>1. /\ InUser /\ saved' = F
      /\ UNCHANGED <<pids, par_pid, running_pid>>
      /\ UNCHANGED <<pid_st, pid_cnt, par_pid, pcb_esp0, running_pid, current_tid,
                     image, tss_esp0, cpu, ctx, kstack>>
  BY DEF ExecuteFails, pids, cpuvars
<1>2. F \in [Pid -> Frames] /\ cpu \in Terminal /\ Undefined \notin Terminal
  BY <1>1, EnteredType, CallerFacts DEF IInv, Undefined, Terminal
<1>3. ProcessForest' /\ PidsCounted' /\ Live' = Live /\ Parents' = Parents
  BY <1>1, SameForest
<1>4. TypeOK'
  BY <1>1, <1>2 DEF IInv, TypeOK
<1>5. OwnContext'
  BY <1>1 DEF IInv, OwnContext, InUser, InExecute, Running
<1>6. PreemptedFrameKept'
  <2>1. \A t \in Terminal : t # cpu /\ ctx[t] = "user" =>
          F[running_pid[t]] = [by |-> "switch", stack |-> running_pid[t]]
    BY PreemptedSurvives
  <2>2. QED
    BY <1>1, <2>1 DEF IInv, FramesKept, PreemptedFrameKept
<1>7. WaitingFrameKept'
  BY <1>1, <1>3, WaitingSurvives DEF WaitingFrameKept
<1>8. Coupled'
  <2>1. \A t \in Terminal : t # cpu /\ ctx[t] \in {"enter", "iret"} =>
          F[running_pid[t]].by = "switch"
    BY EnteredKeepsBy DEF IInv, Coupled, TypeOK
  <2>2. QED
    BY <1>1, <2>1 DEF IInv, Coupled
<1>9. QED
  BY <1>3, <1>4, <1>5, <1>6, <1>7, <1>8 DEF IInv, FramesKept

LEMMA SetTssInv ==
  ASSUME IInv, SetTss
  PROVE  IInv'
<1>1. /\ cpu = current_tid /\ ctx[cpu] = "enter"
      /\ tss_esp0' = Running /\ ctx' = [ctx EXCEPT ![cpu] = "iret"]
      /\ UNCHANGED <<pids, par_pid, running_pid>>
      /\ UNCHANGED <<pid_st, pid_cnt, par_pid, pcb_esp0, saved, running_pid,
                     current_tid, image, cpu, kstack>>
  BY DEF SetTss, InExecute, pids, pcbs
<1>2. cpu \in Terminal /\ ctx \in [Terminal -> Contexts] /\ Running \in Pid
  BY <1>1 DEF IInv, TypeOK, Coupled, Running
<1>3. ProcessForest' /\ PidsCounted' /\ Live' = Live /\ Parents' = Parents
  BY <1>1, SameForest
<1>4. TypeOK'
  BY <1>1, <1>2 DEF IInv, TypeOK, Contexts
<1>5. OwnContext'
  BY <1>1, <1>2 DEF IInv, OwnContext, InUser, InExecute, Running
<1>6. FramesKept'
  BY <1>1, <1>2, <1>3 DEF IInv, FramesKept, PreemptedFrameKept, WaitingFrameKept
<1>7. Coupled'
  BY <1>1, <1>2 DEF IInv, Coupled
<1>8. QED
  BY <1>3, <1>4, <1>5, <1>6, <1>7 DEF IInv

LEMMA IretInv ==
  ASSUME IInv, Iret
  PROVE  IInv'
<1>1. /\ cpu = current_tid /\ ctx[cpu] = "iret"
      /\ kstack' = tss_esp0 /\ ctx' = [ctx EXCEPT ![cpu] = "user"]
      /\ UNCHANGED <<pids, par_pid, running_pid>>
      /\ UNCHANGED <<pid_st, pid_cnt, par_pid, pcb_esp0, saved, running_pid,
                     current_tid, image, tss_esp0, cpu>>
  BY DEF Iret, InExecute, pids, pcbs
<1>2. cpu \in Terminal /\ ctx \in [Terminal -> Contexts] /\ tss_esp0 \in Pid
  BY <1>1 DEF IInv, TypeOK
<1>3. ProcessForest' /\ PidsCounted' /\ Live' = Live /\ Parents' = Parents
  BY <1>1, SameForest
<1>4. TypeOK'
  BY <1>1, <1>2 DEF IInv, TypeOK, Contexts
<1>5. OwnContext'
  BY <1>1, <1>2 DEF IInv, OwnContext, InUser, InExecute, Running
<1>6. FramesKept'
  BY <1>1, <1>2, <1>3 DEF IInv, FramesKept, PreemptedFrameKept, WaitingFrameKept
<1>7. Coupled'
  BY <1>1, <1>2 DEF IInv, Coupled
<1>8. QED
  BY <1>3, <1>4, <1>5, <1>6, <1>7 DEF IInv

(***************************************************************************)
(* halt of a child gives its parent the CPU: the parent's terminal stays   *)
(* the same, the others are not touched.                                   *)
(***************************************************************************)
LEMMA HaltChildInv ==
  ASSUME IInv, NEW deep \in BOOLEAN, HaltChild(deep)
  PROVE  IInv'
<1>. DEFINE r == Running
            q == par_pid[r]
            F == Entered(deep)
<1>1. /\ InUser /\ q # NoPid
      /\ pid_st' = [pid_st EXCEPT ![r] = 0] /\ pid_cnt' = pid_cnt - 1
      /\ running_pid' = [running_pid EXCEPT ![current_tid] = q]
      /\ tss_esp0' = q /\ image' = q /\ saved' = F /\ kstack' = q
      /\ UNCHANGED <<par_pid, pcb_esp0, current_tid, cpu, ctx>>
  BY DEF HaltChild, FreePid, ParentStack
<1>2. /\ current_tid \in Terminal /\ cpu = current_tid /\ ctx[cpu] = "user"
      /\ r \in Pid /\ pid_st[r] = 1 /\ r = running_pid[current_tid] /\ r \notin Parents
  BY <1>1, CallerFacts DEF Running
<1>3. /\ pid_st \in [Pid -> {0, 1}]
      /\ par_pid \in [Pid -> Pid \cup {NoPid}]
      /\ running_pid \in [Terminal -> Pid \cup {NoPid}]
      /\ q \in Pid /\ F \in [Pid -> Frames]
      /\ NoPid \notin Pid /\ Undefined \notin Terminal /\ Boot \notin Terminal
  BY <1>1, <1>2, EnteredType DEF IInv, TypeOK, NoPid, Pid, Undefined, Boot, Terminal
<1>4. ProcessForest'
  BY HaltChildForest
<1>5. Cardinality(LiveIn(pid_st')) = pid_cnt'
  <2>1. pid_cnt = Cardinality(LiveIn(pid_st))
    BY DEF IInv, PidsCounted, Live, LiveIn
  <2>2. QED
    BY <1>1, <1>2, <1>3, <2>1, GivePid
<1>6. PidsCounted' /\ pid_cnt' \in 0..MaxPid
  BY <1>5, LiveFinite DEF PidsCounted, Live, LiveIn
<1>7. \A x \in (Live \cap Parents)' : x \in Live \cap Parents
  BY <1>1, <1>2, <1>3 DEF Live, Parents
<1>8. \A t \in Terminal : t # cpu /\ ctx[t] = "user" =>
        F[running_pid[t]] = [by |-> "switch", stack |-> running_pid[t]]
  BY PreemptedSurvives
<1>9. \A t \in Terminal : t # cpu /\ ctx[t] \in {"enter", "iret"} =>
        F[running_pid[t]].by = "switch"
  BY EnteredKeepsBy DEF IInv, Coupled, TypeOK
<1>10. \A x \in Live \cap Parents : F[x] = [by |-> "execute", stack |-> x]
  BY WaitingSurvives
<1>. HIDE DEF r, q, F
<1>11. TypeOK'
  BY <1>1, <1>2, <1>3, <1>6 DEF IInv, TypeOK
<1>12. OwnContext'
  BY <1>1, <1>2, <1>3 DEF OwnContext, InUser, InExecute, Running
<1>13. PreemptedFrameKept'
  BY <1>1, <1>2, <1>3, <1>8 DEF IInv, FramesKept, PreemptedFrameKept
<1>14. WaitingFrameKept'
  BY <1>1, <1>7, <1>10 DEF WaitingFrameKept
<1>15. Coupled'
  BY <1>1, <1>2, <1>3, <1>9 DEF IInv, Coupled
<1>16. QED
  BY <1>4, <1>6, <1>11, <1>12, <1>13, <1>14, <1>15 DEF IInv, FramesKept

LEMMA StutterInv ==
  ASSUME IInv, UNCHANGED vars
  PROVE  IInv'
<1>1. UNCHANGED <<pids, par_pid, running_pid>>
  BY DEF vars, pcbs
<1>2. ProcessForest' /\ PidsCounted' /\ Live' = Live /\ Parents' = Parents
  BY <1>1, SameForest
<1>3. QED
  BY <1>2
  DEF vars, pids, pcbs, cpuvars, IInv, TypeOK, OwnContext, InUser, InExecute, Running,
      FramesKept, PreemptedFrameKept, WaitingFrameKept, Coupled

-----------------------------------------------------------------------------

(***************************************************************************)
(* The inductive invariant holds in every state of every behaviour.        *)
(***************************************************************************)
THEOREM Invariance == Spec => []IInv
<1>1. Init => IInv
  BY InitInv
<1>2. IInv /\ [Next]_vars => IInv'
  <2>. SUFFICES ASSUME IInv, [Next]_vars
                PROVE  IInv'
    OBVIOUS
  <2>1. CASE Tick
    BY <2>1, TickResumeInv, TickStartInv, TickStartFailsInv DEF Tick
  <2>2. CASE SetTss
    BY <2>2, SetTssInv
  <2>3. CASE Iret
    BY <2>3, IretInv
  <2>4. CASE SystemCall
    BY <2>4, ExecuteInv, HaltBaseInv, ExecuteFailsInv, HaltChildInv DEF SystemCall
  <2>5. CASE UNCHANGED vars
    BY <2>5, StutterInv
  <2>6. QED
    BY <2>1, <2>2, <2>3, <2>4, <2>5 DEF Next
<1>3. QED
  BY <1>1, <1>2, PTL DEF Spec

(***************************************************************************)
(* Every variable keeps its type; in particular the pid counter stays      *)
(* between 0 and MaxPid.                                                   *)
(***************************************************************************)
THEOREM TypeCorrect == Spec => []TypeOK
<1>1. IInv => TypeOK
  BY DEF IInv
<1>2. QED
  BY <1>1, Invariance, PTL

(***************************************************************************)
(* No order of system calls and ticks leaks a pid, shares one between      *)
(* terminals or resumes a parent whose child still runs.                   *)
(***************************************************************************)
THEOREM ForestCorrect == Spec => []ProcessForest
<1>1. IInv => ProcessForest
  BY DEF IInv
<1>2. QED
  BY <1>1, Invariance, PTL

(***************************************************************************)
(* pid_cnt is the number of pids in use.                                   *)
(***************************************************************************)
THEOREM CountCorrect == Spec => []PidsCounted
<1>1. IInv => PidsCounted
  BY DEF IInv
<1>2. QED
  BY <1>1, Invariance, PTL

(***************************************************************************)
(* A program runs on its own kernel stack in its own memory.               *)
(***************************************************************************)
THEOREM ContextCorrect == Spec => []OwnContext
<1>1. IInv => OwnContext
  BY DEF IInv
<1>2. QED
  BY <1>1, Invariance, PTL

(***************************************************************************)
(* Preempted programs and waiting parents find their frames again.         *)
(***************************************************************************)
THEOREM FramesCorrect == Spec => []FramesKept
<1>1. IInv => FramesKept
  BY DEF IInv
<1>2. QED
  BY <1>1, Invariance, PTL

(***************************************************************************)
(* What a terminal's context says and what the tables of processes say of  *)
(* it agree: syscall.c keeps the first in the PCB and on the stacks, the   *)
(* second in multi_terminal, and pit_irq changes both at once.             *)
(***************************************************************************)
THEOREM CoupledCorrect == Spec => []Coupled
<1>1. IInv => Coupled
  BY DEF IInv
<1>2. QED
  BY <1>1, Invariance, PTL

-----------------------------------------------------------------------------

(***************************************************************************)
(* Induction on the natural numbers, for a set: the least number outside   *)
(* it would have a predecessor inside.                                     *)
(***************************************************************************)
LEMMA NatSetInduction ==
  ASSUME NEW S, 0 \in S, \A n \in Nat : n \in S => n + 1 \in S
  PROVE  Nat \subseteq S
<1>. DEFINE T == Nat \ S
<1>. SUFFICES ASSUME T # {}
              PROVE  FALSE
  OBVIOUS
<1>1. PICK m \in T : \A n \in T : ~ (<<n, m>> \in OpToRel(<, Nat))
  BY NatLessThanWellFounded, WFMin
<1>2. m \in Nat /\ m - 1 \in T
  <2>1. m \in Nat /\ m # 0
    BY <1>1
  <2>2. m - 1 \in Nat /\ (m - 1) + 1 = m
    BY <2>1
  <2>3. QED
    BY <2>1, <2>2, <1>1
<1>3. <<m - 1, m>> \in OpToRel(<, Nat)
  BY <1>2 DEF OpToRel
<1>4. QED
  BY <1>1, <1>2, <1>3

(***************************************************************************)
(* f[n] is the value reached from a by the first n of the functions g.     *)
(***************************************************************************)
Iterates(f, N, S, a, g) ==
  f \in [0..N -> S] /\ f[0] = a /\ \A n \in 1..N : f[n] = g[n][f[n - 1]]

(***************************************************************************)
(* A finite primitive recursion has a solution.                            *)
(***************************************************************************)
LEMMA Recursion ==
  ASSUME NEW N \in Nat, NEW S, NEW a \in S, NEW g \in [1..N -> [S -> S]]
  PROVE  \E f : Iterates(f, N, S, a, g)
<1>. DEFINE Ok(n, f) == f[0] = a /\ \A i \in 1..n : f[i] = g[i][f[i - 1]]
            T == {n \in Nat : n <= N => \E f \in [0..n -> S] : Ok(n, f)}
<1>1. 0 \in T
  <2>1. [i \in 0..0 |-> a] \in [0..0 -> S] /\ Ok(0, [i \in 0..0 |-> a])
    OBVIOUS
  <2>2. QED
    BY <2>1
<1>2. ASSUME NEW n \in Nat, n \in T
      PROVE  n + 1 \in T
  <2>. SUFFICES ASSUME n + 1 <= N
                PROVE  \E f \in [0..(n + 1) -> S] : Ok(n + 1, f)
    OBVIOUS
  <2>1. PICK f \in [0..n -> S] : Ok(n, f)
    BY <1>2
  <2>. DEFINE h == [i \in 0..(n + 1) |-> IF i = n + 1 THEN g[n + 1][f[n]] ELSE f[i]]
  <2>2. n + 1 \in 1..N /\ f[n] \in S
    OBVIOUS
  <2>3. h \in [0..(n + 1) -> S]
    BY <2>2
  <2>4. Ok(n + 1, h)
    <3>1. h[0] = a
      BY <2>1
    <3>2. ASSUME NEW i \in 1..(n + 1)
          PROVE  h[i] = g[i][h[i - 1]]
      <4>1. CASE i = n + 1
        BY <4>1
      <4>2. CASE i \in 1..n
        BY <4>2, <2>1
      <4>3. QED
        BY <4>1, <4>2
    <3>3. QED
      BY <3>1, <3>2
  <2>5. QED
    BY <2>3, <2>4
<1>. HIDE DEF Ok
<1>3. Nat \subseteq T
  <2>. HIDE DEF T
  <2>1. QED
    BY <1>1, <1>2, NatSetInduction
<1>4. QED
  BY <1>3 DEF Ok, Iterates

(***************************************************************************)
(* One more generation: from the chains h of at most n processes to those  *)
(* of at most n + 1.                                                       *)
(***************************************************************************)
Ancestors == Pid \cup {NoPid}
Lists == [Ancestors -> Seq(Pid)]
Extend(par, h) == [p \in Ancestors |-> IF p = NoPid THEN <<>> ELSE Append(h[par[p]], p)]

LEMMA ExtendType ==
  ASSUME NEW par \in [Pid -> Ancestors], NEW h \in Lists
  PROVE  Extend(par, h) \in Lists
<1>1. ASSUME NEW p \in Ancestors
      PROVE  (IF p = NoPid THEN <<>> ELSE Append(h[par[p]], p)) \in Seq(Pid)
  BY AppendProperties, EmptySeq DEF Ancestors, Lists
<1>2. QED
  BY <1>1 DEF Extend, Lists

(***************************************************************************)
(* The equation of Chain (ProcessesJobs) for the parents par, its          *)
(* solution, and the two cases it is used in.                              *)
(***************************************************************************)
ChainBody(par, c) ==
  [n \in 0..(MaxPid + 1) |-> [p \in Pid \cup {NoPid} |->
     IF n = 0 \/ p = NoPid THEN <<>> ELSE Append(c[n - 1][par[p]], p)]]

LEMMA ChainExists ==
  ASSUME NEW par \in [Pid -> Ancestors]
  PROVE  \E f : f = ChainBody(par, f)
<1>1. PICK N \in Nat : N = MaxPid + 1
  BY MaxPidAssumption
<1>. DEFINE none == [p \in Ancestors |-> <<>>]
            g == [n \in 1..N |-> [h \in Lists |-> Extend(par, h)]]
<1>2. none \in Lists /\ g \in [1..N -> [Lists -> Lists]]
  BY <1>1, ExtendType, EmptySeq DEF Lists
<1>3. PICK f : Iterates(f, N, Lists, none, g)
  <2>. HIDE DEF none, g
  <2>2. QED
    BY <1>2, Recursion
<1>4. ASSUME NEW n \in 0..N, NEW p \in Pid \cup {NoPid}
      PROVE  f[n][p] = IF n = 0 \/ p = NoPid THEN <<>> ELSE Append(f[n - 1][par[p]], p)
  <2>1. CASE n = 0
    BY <2>1, <1>3 DEF Ancestors, Iterates
  <2>2. CASE n # 0
    <3>1. n \in 1..N /\ n - 1 \in 0..N
      BY <2>2, <1>1
    <3>2. f[n] = Extend(par, f[n - 1])
      <4>1. f[n - 1] \in Lists /\ f[n] = g[n][f[n - 1]]
        BY <3>1, <1>3 DEF Iterates
      <4>2. QED
        BY <3>1, <4>1
    <3>3. QED
      BY <3>1, <3>2 DEF Extend, Ancestors
  <2>3. QED
    BY <2>1, <2>2
<1>5. f = ChainBody(par, f)
  BY <1>1, <1>3, <1>4, ZenonT(30) DEF Lists, Ancestors, ChainBody, Iterates
<1>6. QED
  BY <1>5

LEMMA ChainEquation ==
  ASSUME NEW par \in [Pid -> Ancestors], NEW c,
         c = CHOOSE f : f = ChainBody(par, f)
  PROVE  /\ \A p \in Ancestors : c[0][p] = <<>>
         /\ \A n \in 1..(MaxPid + 1), p \in Ancestors :
              c[n][p] = IF p = NoPid THEN <<>> ELSE Append(c[n - 1][par[p]], p)
<1>1. c = ChainBody(par, c)
  BY ChainExists
<1>2. ASSUME NEW n \in 0..(MaxPid + 1), NEW p \in Ancestors
      PROVE  c[n][p] = IF n = 0 \/ p = NoPid THEN <<>> ELSE Append(c[n - 1][par[p]], p)
  <2>. DEFINE row == [q \in Pid \cup {NoPid} |->
                        IF n = 0 \/ q = NoPid THEN <<>> ELSE Append(c[n - 1][par[q]], q)]
  <2>1. c[n] = row
    BY <1>1, Zenon DEF ChainBody
  <2>2. row[p] = IF n = 0 \/ p = NoPid THEN <<>> ELSE Append(c[n - 1][par[p]], p)
    BY DEF Ancestors
  <2>3. QED
    BY <2>1, <2>2
<1>3. QED
  BY <1>2, MaxPidAssumption

(***************************************************************************)
(* Chain before and after a step.                                          *)
(***************************************************************************)
LEMMA ChainIs ==
  Chain = CHOOSE f : f = ChainBody(par_pid, f)
BY DEF Chain, ChainBody

LEMMA ChainIsPrime ==
  Chain' = CHOOSE f : f = ChainBody(par_pid', f)
BY DEF Chain, ChainBody

(***************************************************************************)
(* The stacks js, read from the bottom up, are the processes in use: each  *)
(* process on them has the one below it for its parent, none is on them    *)
(* twice, and the top of a terminal's stack is its running process.        *)
(***************************************************************************)
Top(s) == IF s = <<>> THEN NoPid ELSE s[Len(s)]
LinkedStack(s, par) ==
  \A i \in 1..Len(s) : par[s[i]] = IF i = 1 THEN NoPid ELSE s[i - 1]
NoRepeats(js) ==
  \A t, u \in Terminal : \A i \in 1..Len(js[t]), j \in 1..Len(js[u]) :
    js[t][i] = js[u][j] => t = u /\ i = j
HoldsLive(js, st) ==
  \A p \in Pid : st[p] = 1 <=> \E t \in Terminal : \E i \in 1..Len(js[t]) : js[t][i] = p
Linked(js, par, run, st) ==
  /\ js \in [Terminal -> Seq(Pid)]
  /\ \A t \in Terminal : run[t] = Top(js[t])
  /\ \A t \in Terminal : LinkedStack(js[t], par)
  /\ NoRepeats(js)
  /\ HoldsLive(js, st)

(***************************************************************************)
(* A stack without repetitions is no higher than the pid table.            *)
(***************************************************************************)
LEMMA StackFits ==
  ASSUME NEW s \in Seq(Pid), \A i, j \in 1..Len(s) : s[i] = s[j] => i = j
  PROVE  Len(s) \in 0..MaxPid
<1>1. s \in [1..Len(s) -> Pid] /\ Len(s) \in Nat
  OBVIOUS
<1>2. s \in Injection(1..Len(s), Pid)
  BY <1>1 DEF Injection, IsInjective
<1>3. IsFiniteSet(Pid) /\ Cardinality(Pid) = MaxPid
  BY FS_Interval, MaxPidAssumption DEF Pid
<1>4. Cardinality(1..Len(s)) = Len(s)
  <2>1. PICK n \in Nat : n = Len(s)
    BY <1>1
  <2>2. Cardinality(1..n) = n
    BY FS_Interval
  <2>3. QED
    BY <2>1, <2>2
<1>5. Len(s) <= MaxPid
  BY <1>2, <1>3, <1>4, FS_Injection
<1>6. QED
  BY <1>1, <1>5, MaxPidAssumption

(***************************************************************************)
(* Following par_pid from the top of a linked stack reads the stack.       *)
(***************************************************************************)
LEMMA ChainOfStack ==
  ASSUME NEW par \in [Pid -> Ancestors], NEW c,
         c = CHOOSE f : f = ChainBody(par, f),
         NEW s \in Seq(Pid), LinkedStack(s, par),
         \A i, j \in 1..Len(s) : s[i] = s[j] => i = j
  PROVE  c[MaxPid + 1][Top(s)] = s
<1>1. /\ \A p \in Ancestors : c[0][p] = <<>>
      /\ \A n \in 1..(MaxPid + 1), p \in Ancestors :
           c[n][p] = IF p = NoPid THEN <<>> ELSE Append(c[n - 1][par[p]], p)
  BY ChainEquation
<1>2. Len(s) \in 0..MaxPid /\ s \in [1..Len(s) -> Pid]
  BY StackFits
<1>3. \A n \in 0..(MaxPid + 1) : c[n][NoPid] = <<>>
  BY <1>1, MaxPidAssumption DEF Ancestors
<1>. DEFINE Good(n) == \A i \in 1..Len(s) :
                         n <= MaxPid + 1 /\ i <= n => c[n][s[i]] = SubSeq(s, 1, i)
            T == {n \in Nat : Good(n)}
<1>4. Good(0)
  OBVIOUS
<1>5. ASSUME NEW n \in Nat, Good(n)
      PROVE  Good(n + 1)
  <2>. SUFFICES ASSUME NEW i \in 1..Len(s), n + 1 <= MaxPid + 1, i <= n + 1
                PROVE  c[n + 1][s[i]] = SubSeq(s, 1, i)
    OBVIOUS
  <2>1. PICK m : m = n + 1
    OBVIOUS
  <2>2. /\ m \in 1..(MaxPid + 1) /\ m - 1 = n /\ n \in 0..(MaxPid + 1)
        /\ s[i] \in Pid /\ s[i] # NoPid
    BY <1>2, <2>1, MaxPidAssumption DEF Pid, NoPid
  <2>3. c[m][s[i]] = Append(c[n][par[s[i]]], s[i])
    <3>1. PICK p \in Ancestors : p = s[i] /\ p # NoPid
      BY <2>2 DEF Ancestors
    <3>2. c[m][p] = Append(c[m - 1][par[p]], p)
      BY <1>1, <2>2, <3>1, ZenonT(30)
    <3>3. QED
      BY <3>1, <3>2, <2>2
  <2>4. c[n][par[s[i]]] = SubSeq(s, 1, i - 1)
    <3>1. CASE i = 1
      <4>1. par[s[i]] = NoPid
        BY <3>1 DEF LinkedStack
      <4>2. SubSeq(s, 1, 0) = <<>>
        BY SubSeqEmpty
      <4>3. QED
        <5>1. i - 1 = 0 /\ c[n][NoPid] = <<>>
          BY <3>1, <1>3, <2>2
        <5>2. QED
          BY <5>1, <4>1, <4>2
    <3>2. CASE i # 1
      <4>1. i - 1 \in 1..Len(s) /\ i - 1 <= n /\ n <= MaxPid + 1
        BY <3>2, <2>2, <1>2
      <4>2. par[s[i]] = s[i - 1]
        BY <3>2 DEF LinkedStack
      <4>3. QED
        BY <4>1, <4>2, <1>5
    <3>3. QED
      BY <3>1, <3>2
  <2>5. Append(SubSeq(s, 1, i - 1), s[i]) = SubSeq(s, 1, i)
    <3>1. SubSeq(s, 1, i) = SubSeq(s, 1, i - 1) \o <<s[i]>>
      BY SubSeqRecursiveSecond, <1>2
    <3>2. SubSeq(s, 1, i - 1) \in Seq(Pid)
      BY <1>2, SubSeqProperties
    <3>3. QED
      BY <3>1, <3>2, <2>2, AppendIsConcat
  <2>6. QED
    BY <2>1, <2>3, <2>4, <2>5
<1>6. ASSUME NEW n \in Nat
      PROVE  Good(n)
  <2>1. 0 \in T /\ \A k \in Nat : k \in T => k + 1 \in T
    <3>. HIDE DEF Good
    <3>1. QED
      BY <1>4, <1>5
  <2>2. Nat \subseteq T
    <3>. HIDE DEF T
    <3>1. QED
      BY <2>1, NatSetInduction
  <2>. HIDE DEF Good
  <2>3. QED
    BY <2>2
<1>7. CASE s = <<>>
  BY <1>7, <1>3, MaxPidAssumption DEF Top
<1>8. CASE s # <<>>
  <2>1. Len(s) \in 1..Len(s) /\ Len(s) <= MaxPid + 1
    BY <1>2, <1>8, EmptySeq, MaxPidAssumption
  <2>2. PICK m \in Nat : m = MaxPid + 1
    BY MaxPidAssumption
  <2>3. c[m][s[Len(s)]] = SubSeq(s, 1, Len(s))
    <3>1. Good(m)
      <4>. HIDE DEF Good
      <4>1. QED
        BY <1>6
    <3>2. PICK k \in 1..Len(s) : k = Len(s)
      BY <2>1
    <3>3. c[m][s[k]] = SubSeq(s, 1, k)
      <4>1. m <= MaxPid + 1 /\ k <= m
        BY <3>2, <2>1, <2>2, MaxPidAssumption
      <4>2. QED
        BY <3>1, <4>1
    <3>4. QED
      BY <3>2, <3>3
  <2>4. QED
    BY <2>2, <2>3, <1>8, SubSeqFull DEF Top
<1>9. QED
  BY <1>7, <1>8

(***************************************************************************)
(* So the stacks that JobsOf computes are the linked ones, before and      *)
(* after a step.                                                           *)
(***************************************************************************)
LEMMA LinkedJobs ==
  ASSUME NEW par \in [Pid -> Ancestors], NEW run, NEW st, NEW js,
         Linked(js, par, run, st), NEW c, c = CHOOSE f : f = ChainBody(par, f)
  PROVE  [t \in Terminal |-> c[MaxPid + 1][run[t]]] = js
<1>1. ASSUME NEW t \in Terminal
      PROVE  c[MaxPid + 1][run[t]] = js[t]
  <2>1. /\ js[t] \in Seq(Pid) /\ LinkedStack(js[t], par) /\ run[t] = Top(js[t])
        /\ \A i, j \in 1..Len(js[t]) : js[t][i] = js[t][j] => i = j
    BY DEF Linked, NoRepeats
  <2>2. QED
    BY <2>1, ChainOfStack
<1>2. QED
  BY <1>1 DEF Linked

LEMMA JobsAre ==
  ASSUME TypeOK, NEW js, Linked(js, par_pid, running_pid, pid_st)
  PROVE  JobsOf = js
BY LinkedJobs, ChainIs DEF TypeOK, Ancestors, JobsOf

LEMMA JobsArePrime ==
  ASSUME TypeOK', NEW js, Linked(js, par_pid', running_pid', pid_st')
  PROVE  JobsOf' = js
BY LinkedJobs, ChainIsPrime DEF TypeOK, Ancestors, JobsOf

(***************************************************************************)
(* A terminal without a running process has an empty stack.                *)
(***************************************************************************)
LEMMA EmptyStack ==
  ASSUME NEW s \in Seq(Pid)
  PROVE  Top(s) = NoPid <=> s = <<>>
<1>1. s # <<>> => s[Len(s)] \in Pid
  BY EmptySeq, ElementOfSeq
<1>2. QED
  BY <1>1 DEF Top, Pid, NoPid

(***************************************************************************)
(* A free process whose parent is the running one goes on top (execute).   *)
(***************************************************************************)
LEMMA Pushed ==
  ASSUME NEW js, NEW par \in [Pid -> Ancestors], NEW run \in [Terminal -> Ancestors],
         NEW st \in [Pid -> {0, 1}],
         Linked(js, par, run, st),
         NEW t \in Terminal, NEW p \in Pid, st[p] = 0
  PROVE  Linked([js EXCEPT ![t] = Append(js[t], p)], [par EXCEPT ![p] = run[t]],
                [run EXCEPT ![t] = p], [st EXCEPT ![p] = 1])
<1>. DEFINE s == js[t]
            s2 == Append(s, p)
            js2 == [js EXCEPT ![t] = s2]
            par2 == [par EXCEPT ![p] = run[t]]
            run2 == [run EXCEPT ![t] = p]
            st2 == [st EXCEPT ![p] = 1]
<1>1. /\ js \in [Terminal -> Seq(Pid)] /\ s \in Seq(Pid)
      /\ s2 \in Seq(Pid) /\ s2 # <<>> /\ Len(s2) = Len(s) + 1 /\ Len(s) \in Nat
      /\ \A i \in 1..Len(s) : s2[i] = s[i] /\ s[i] \in Pid
      /\ s2[Len(s) + 1] = p
  BY AppendProperties, LenProperties, ElementOfSeq DEF Linked
<1>2. \A u \in Terminal : \A i \in 1..Len(js[u]) : js[u][i] # p
  BY DEF Linked, HoldsLive
<1>3. js2 \in [Terminal -> Seq(Pid)] /\ js2[t] = s2 /\ \A u \in Terminal \ {t} : js2[u] = js[u]
  BY <1>1
<1>4. \A u \in Terminal : run2[u] = Top(js2[u])
  <2>1. Top(s2) = p
    BY <1>1 DEF Top
  <2>2. QED
    BY <1>3, <2>1 DEF Linked
<1>5. \A u \in Terminal : LinkedStack(js2[u], par2)
  <2>1. ASSUME NEW u \in Terminal \ {t}
        PROVE  LinkedStack(js2[u], par2)
    <3>1. \A i \in 1..Len(js[u]) : js[u][i] \in Pid /\ js[u][i] # p
      BY <1>2, <1>1, ElementOfSeq
    <3>2. LinkedStack(js[u], par2)
      BY <3>1 DEF Linked, LinkedStack
    <3>3. QED
      BY <3>2, <1>3
  <2>2. LinkedStack(s2, par2)
    <3>1. ASSUME NEW i \in 1..Len(s2)
          PROVE  par2[s2[i]] = IF i = 1 THEN NoPid ELSE s2[i - 1]
      <4>1. CASE i \in 1..Len(s)
        <5>1. s[i] \in Pid /\ s[i] # p /\ s2[i] = s[i] /\ (i # 1 => s2[i - 1] = s[i - 1])
          BY <4>1, <1>1, <1>2
        <5>2. par[s[i]] = IF i = 1 THEN NoPid ELSE s[i - 1]
          BY <4>1 DEF Linked, LinkedStack
        <5>3. QED
          BY <5>1, <5>2
      <4>2. CASE i = Len(s) + 1
        <5>1. s2[i] = p /\ par2[p] = Top(s)
          BY <4>2, <1>1 DEF Linked
        <5>2. CASE s = <<>>
          <6>1. i = 1 /\ Top(s) = NoPid
            BY <4>2, <5>2, EmptySeq DEF Top
          <6>2. QED
            BY <5>1, <6>1
        <5>3. CASE s # <<>>
          <6>1. i # 1 /\ Len(s) \in 1..Len(s) /\ i - 1 = Len(s) /\ Top(s) = s[Len(s)]
            BY <4>2, <5>3, <1>1, EmptySeq DEF Top
          <6>2. s2[i - 1] = s[Len(s)]
            BY <6>1, <1>1
          <6>3. QED
            BY <5>1, <6>1, <6>2
        <5>4. QED
          BY <5>2, <5>3
      <4>3. QED
        BY <4>1, <4>2, <1>1
    <3>2. QED
      BY <3>1 DEF LinkedStack
  <2>3. QED
    BY <2>1, <2>2, <1>3
<1>6. ASSUME NEW u \in Terminal, NEW i \in 1..Len(js2[u])
      PROVE  \/ u = t /\ i = Len(s) + 1 /\ js2[u][i] = p
             \/ i \in 1..Len(js[u]) /\ js2[u][i] = js[u][i] /\ js[u][i] # p
  <2>1. CASE u = t
    BY <2>1, <1>1, <1>2, <1>3
  <2>2. CASE u # t
    BY <2>2, <1>2, <1>3
  <2>3. QED
    BY <2>1, <2>2
<1>7. NoRepeats(js2)
  <2>. SUFFICES ASSUME NEW u \in Terminal, NEW v \in Terminal,
                       NEW i \in 1..Len(js2[u]), NEW j \in 1..Len(js2[v]), js2[u][i] = js2[v][j]
                PROVE  u = v /\ i = j
    BY DEF NoRepeats
  <2>1. QED
    BY <1>6 DEF Linked, NoRepeats
<1>8. HoldsLive(js2, st2)
  <2>1. ASSUME NEW q \in Pid, q # p, NEW u \in Terminal, NEW i \in 1..Len(js[u]), js[u][i] = q
        PROVE  \E v \in Terminal : \E j \in 1..Len(js2[v]) : js2[v][j] = q
    <3>1. i \in 1..Len(js2[u]) /\ js2[u][i] = q
      BY <2>1, <1>1, <1>3
    <3>2. QED
      BY <3>1
  <2>2. Len(s) + 1 \in 1..Len(js2[t]) /\ js2[t][Len(s) + 1] = p
    BY <1>1, <1>3
  <2>3. ASSUME NEW q \in Pid
        PROVE  st2[q] = 1 <=> \E v \in Terminal : \E j \in 1..Len(js2[v]) : js2[v][j] = q
    <3>1. CASE q = p
      BY <3>1, <2>2
    <3>2. CASE q # p
      <4>1. st2[q] = 1 <=> \E u \in Terminal : \E i \in 1..Len(js[u]) : js[u][i] = q
        BY <3>2 DEF Linked, HoldsLive
      <4>2. QED
        BY <4>1, <2>1, <3>2, <1>6
    <3>3. QED
      BY <3>1, <3>2
  <2>4. QED
    BY <2>3 DEF HoldsLive
<1>9. QED
  BY <1>3, <1>4, <1>5, <1>7, <1>8 DEF Linked

(***************************************************************************)
(* What the stack says of the running process of a terminal.               *)
(***************************************************************************)
LEMMA ParentBelow ==
  ASSUME NEW js, NEW par \in [Pid -> Ancestors], NEW run \in [Terminal -> Ancestors], NEW st,
         Linked(js, par, run, st), NEW t \in Terminal, run[t] \in Pid
  PROVE  /\ js[t] \in Seq(Pid) /\ Len(js[t]) \in Nat \ {0}
         /\ run[t] = js[t][Len(js[t])]
         /\ par[run[t]] = NoPid <=> Len(js[t]) = 1
         /\ par[run[t]] # NoPid => par[run[t]] = js[t][Len(js[t]) - 1]
<1>. DEFINE s == js[t]
<1>1. s \in Seq(Pid) /\ run[t] = Top(s) /\ NoPid \notin Pid
  BY DEF Linked, NoPid, Pid
<1>2. PICK n \in Nat \ {0} : n = Len(s) /\ run[t] = s[n] /\ n \in 1..Len(s)
  BY <1>1, EmptySeq DEF Top
<1>3. par[s[n]] = IF n = 1 THEN NoPid ELSE s[n - 1]
  BY <1>2 DEF Linked, LinkedStack
<1>4. n # 1 => s[n - 1] \in Pid
  <2>1. n # 1 => n - 1 \in 1..n
    OBVIOUS
  <2>2. QED
    BY <1>1, <1>2, <2>1, ElementOfSeq
<1>5. QED
  BY <1>1, <1>2, <1>3, <1>4

(***************************************************************************)
(* The top process is freed and its parent runs (halt of a child).         *)
(***************************************************************************)
LEMMA Popped ==
  ASSUME NEW js, NEW par \in [Pid -> Ancestors], NEW run \in [Terminal -> Ancestors],
         NEW st \in [Pid -> {0, 1}],
         Linked(js, par, run, st),
         NEW t \in Terminal, run[t] \in Pid, par[run[t]] # NoPid
  PROVE  Linked([js EXCEPT ![t] = SubSeq(js[t], 1, Len(js[t]) - 1)], par,
                [run EXCEPT ![t] = par[run[t]]], [st EXCEPT ![run[t]] = 0])
<1>. DEFINE s == js[t]
            s2 == SubSeq(s, 1, Len(s) - 1)
            js2 == [js EXCEPT ![t] = s2]
            run2 == [run EXCEPT ![t] = par[run[t]]]
            st2 == [st EXCEPT ![run[t]] = 0]
<1>1. /\ s \in Seq(Pid) /\ Len(s) \in Nat /\ Len(s) > 1
      /\ run[t] = s[Len(s)] /\ par[run[t]] = s[Len(s) - 1]
  <2>1. /\ s \in Seq(Pid) /\ Len(s) \in Nat \ {0} /\ Len(s) # 1
        /\ run[t] = s[Len(s)] /\ par[run[t]] = s[Len(s) - 1]
    BY ParentBelow
  <2>2. \A n \in Nat \ {0} : n # 1 => n \in Nat /\ n > 1
    OBVIOUS
  <2>. HIDE DEF s
  <2>3. QED
    BY <2>1, <2>2
<1>2. /\ s2 \in Seq(Pid) /\ Len(s2) = Len(s) - 1
      /\ \A i \in 1..(Len(s) - 1) : s2[i] = s[i]
  <2>1. PICK n \in Nat : n = Len(s) - 1 /\ n >= 1
    <3>1. Len(s) - 1 \in Nat /\ Len(s) - 1 >= 1
      BY <1>1
    <3>2. QED
      BY <3>1
  <2>2. \A i \in 1..n : s[i] \in Pid
    BY <1>1, <2>1, ElementOfSeq
  <2>3. SubSeq(s, 1, n) \in Seq(Pid) /\ Len(SubSeq(s, 1, n)) = n
    BY <2>1, <2>2, SubSeqProperties
  <2>4. \A i \in 1..(n - 1 + 1) : SubSeq(s, 1, n)[i] = s[1 + i - 1]
    BY <2>1, <2>2, SubSeqProperties
  <2>5. QED
    BY <2>1, <2>3, <2>4
<1>. HIDE DEF s2
<1>3. /\ js \in [Terminal -> Seq(Pid)] /\ js2 \in [Terminal -> Seq(Pid)]
      /\ js2[t] = s2 /\ \A u \in Terminal \ {t} : js2[u] = js[u]
  BY <1>2 DEF Linked
<1>4. \A u \in Terminal : run2[u] = Top(js2[u])
  <2>1. s2 # <<>> /\ s2[Len(s2)] = par[run[t]]
    BY <1>1, <1>2, EmptySeq
  <2>2. QED
    BY <1>3, <2>1 DEF Linked, Top
<1>5. ASSUME NEW u \in Terminal, NEW i \in 1..Len(js2[u])
      PROVE  i \in 1..Len(js[u]) /\ js2[u][i] = js[u][i] /\ (u = t => i # Len(s))
  <2>1. CASE u = t
    BY <2>1, <1>1, <1>2, <1>3
  <2>2. CASE u # t
    BY <2>2, <1>3
  <2>3. QED
    BY <2>1, <2>2
<1>6. ASSUME NEW u \in Terminal, NEW i \in 1..Len(js[u]), ~ (u = t /\ i = Len(s))
      PROVE  i \in 1..Len(js2[u]) /\ js2[u][i] = js[u][i]
  <2>1. CASE u = t
    BY <2>1, <1>1, <1>2, <1>3, <1>6
  <2>2. CASE u # t
    BY <2>2, <1>3
  <2>3. QED
    BY <2>1, <2>2
<1>7. \A u \in Terminal : LinkedStack(js2[u], par)
  <2>. SUFFICES ASSUME NEW u \in Terminal, NEW i \in 1..Len(js2[u])
                PROVE  par[js2[u][i]] = IF i = 1 THEN NoPid ELSE js2[u][i - 1]
    BY DEF LinkedStack
  <2>1. i \in 1..Len(js[u]) /\ js2[u][i] = js[u][i]
    BY <1>5
  <2>2. par[js[u][i]] = IF i = 1 THEN NoPid ELSE js[u][i - 1]
    BY <2>1 DEF Linked, LinkedStack
  <2>3. CASE i = 1
    BY <2>1, <2>2, <2>3
  <2>4. CASE i # 1
    <3>1. Len(js2[u]) \in Nat
      BY <1>3
    <3>2. PICK k \in 1..Len(js2[u]) : k = i - 1
      BY <2>4, <3>1
    <3>3. js2[u][k] = js[u][k]
      BY <1>5
    <3>4. QED
      BY <3>2, <3>3, <2>1, <2>2, <2>4
  <2>5. QED
    BY <2>3, <2>4
<1>8. NoRepeats(js2)
  BY <1>5 DEF Linked, NoRepeats
<1>9. HoldsLive(js2, st2)
  <2>1. Len(s) \in 1..Len(s)
    BY <1>1
  <2>2. ASSUME NEW q \in Pid
        PROVE  st2[q] = 1 <=> \E v \in Terminal : \E j \in 1..Len(js2[v]) : js2[v][j] = q
    <3>1. st[q] = 1 <=> \E u \in Terminal : \E i \in 1..Len(js[u]) : js[u][i] = q
      BY DEF Linked, HoldsLive
    <3>2. CASE q = run[t]
      <4>1. ~ \E v \in Terminal : \E j \in 1..Len(js2[v]) : js2[v][j] = q
        BY <3>2, <1>5, <1>1, <2>1 DEF Linked, NoRepeats
      <4>2. QED
        BY <4>1, <3>2
    <3>3. CASE q # run[t]
      <4>1. st2[q] = st[q]
        BY <3>3
      <4>2. (\E u \in Terminal : \E i \in 1..Len(js[u]) : js[u][i] = q)
              => \E v \in Terminal : \E j \in 1..Len(js2[v]) : js2[v][j] = q
        BY <3>3, <1>6, <1>1
      <4>3. (\E v \in Terminal : \E j \in 1..Len(js2[v]) : js2[v][j] = q)
              => \E u \in Terminal : \E i \in 1..Len(js[u]) : js[u][i] = q
        BY <1>5
      <4>4. QED
        BY <4>1, <4>2, <4>3, <3>1
    <3>4. QED
      BY <3>2, <3>3
  <2>3. QED
    BY <2>2 DEF HoldsLive
<1>10. QED
  BY <1>3, <1>4, <1>7, <1>8, <1>9 DEF Linked, s2

(***************************************************************************)
(* The only process of a terminal is freed and another one, or the same    *)
(* pid again, takes its place (halt of a base shell).                      *)
(***************************************************************************)
LEMMA Replaced ==
  ASSUME NEW js, NEW par \in [Pid -> Ancestors], NEW run \in [Terminal -> Ancestors],
         NEW st \in [Pid -> {0, 1}],
         Linked(js, par, run, st),
         NEW t \in Terminal, run[t] \in Pid, par[run[t]] = NoPid,
         NEW p \in Pid, st[p] = 0 \/ p = run[t]
  PROVE  Linked([js EXCEPT ![t] = <<p>>], [par EXCEPT ![p] = NoPid],
                [run EXCEPT ![t] = p], [[st EXCEPT ![run[t]] = 0] EXCEPT ![p] = 1])
<1>. DEFINE s == js[t]
            js2 == [js EXCEPT ![t] = <<p>>]
            par2 == [par EXCEPT ![p] = NoPid]
            run2 == [run EXCEPT ![t] = p]
            st2 == [[st EXCEPT ![run[t]] = 0] EXCEPT ![p] = 1]
<1>1. s \in Seq(Pid) /\ Len(s) = 1 /\ run[t] = s[1]
  BY ParentBelow
<1>2. /\ js \in [Terminal -> Seq(Pid)] /\ js2 \in [Terminal -> Seq(Pid)]
      /\ js2[t] = <<p>> /\ \A u \in Terminal \ {t} : js2[u] = js[u]
  BY DEF Linked
<1>3. \A u \in Terminal \ {t} : \A i \in 1..Len(js[u]) :
        js[u][i] # p /\ js[u][i] # s[1] /\ js[u][i] \in Pid
  <2>. SUFFICES ASSUME NEW u \in Terminal \ {t}, NEW i \in 1..Len(js[u])
                PROVE  js[u][i] # p /\ js[u][i] # s[1] /\ js[u][i] \in Pid
    OBVIOUS
  <2>1. js[u][i] # s[1]
    <3>1. 1 \in 1..Len(js[t]) /\ u # t
      BY <1>1
    <3>2. QED
      BY <3>1 DEF Linked, NoRepeats
  <2>2. js[u][i] \in Pid
    BY <1>2, ElementOfSeq
  <2>3. st[js[u][i]] = 1
    BY <2>2 DEF Linked, HoldsLive
  <2>4. QED
    BY <1>1, <2>1, <2>2, <2>3
<1>4. \A u \in Terminal : run2[u] = Top(js2[u])
  BY <1>2 DEF Linked, Top
<1>5. \A u \in Terminal : LinkedStack(js2[u], par2)
  <2>1. ASSUME NEW u \in Terminal \ {t}
        PROVE  LinkedStack(js2[u], par2)
    <3>1. LinkedStack(js[u], par2)
      BY <1>3 DEF Linked, LinkedStack
    <3>2. QED
      BY <3>1, <1>2
  <2>2. LinkedStack(<<p>>, par2)
    BY DEF LinkedStack
  <2>3. QED
    BY <2>1, <2>2, <1>2
<1>6. NoRepeats(js2)
  <2>. SUFFICES ASSUME NEW u \in Terminal, NEW v \in Terminal,
                       NEW i \in 1..Len(js2[u]), NEW j \in 1..Len(js2[v]), js2[u][i] = js2[v][j]
                PROVE  u = v /\ i = j
    BY DEF NoRepeats
  <2>1. CASE u = t /\ v = t
    BY <2>1, <1>2
  <2>2. CASE u = t /\ v # t
    BY <2>2, <1>2, <1>3
  <2>3. CASE u # t /\ v = t
    BY <2>3, <1>2, <1>3
  <2>4. CASE u # t /\ v # t
    BY <2>4, <1>2 DEF Linked, NoRepeats
  <2>5. QED
    BY <2>1, <2>2, <2>3, <2>4
<1>7. HoldsLive(js2, st2)
  <2>1. ASSUME NEW q \in Pid
        PROVE  st2[q] = 1 <=> \E v \in Terminal : \E j \in 1..Len(js2[v]) : js2[v][j] = q
    <3>1. st[q] = 1 <=> \E u \in Terminal : \E i \in 1..Len(js[u]) : js[u][i] = q
      BY DEF Linked, HoldsLive
    <3>2. CASE q = p
      <4>1. 1 \in 1..Len(js2[t]) /\ js2[t][1] = p
        BY <1>2
      <4>2. QED
        BY <3>2, <4>1
    <3>3. CASE q # p /\ q = run[t]
      <4>1. ~ \E v \in Terminal : \E j \in 1..Len(js2[v]) : js2[v][j] = q
        BY <3>3, <1>1, <1>2, <1>3
      <4>2. QED
        BY <4>1, <3>3
    <3>4. CASE q # p /\ q # run[t]
      <4>1. st2[q] = st[q]
        BY <3>4
      <4>2. ASSUME NEW u \in Terminal, NEW i \in 1..Len(js[u]), js[u][i] = q
            PROVE  u # t
        BY <4>2, <3>4, <1>1
      <4>3. ASSUME NEW u \in Terminal, NEW i \in 1..Len(js2[u]), js2[u][i] = q
            PROVE  u # t
        BY <4>3, <3>4, <1>2
      <4>4. QED
        BY <4>1, <4>2, <4>3, <3>1, <1>2
    <3>5. QED
      BY <3>2, <3>3, <3>4
  <2>2. QED
    BY <2>1 DEF HoldsLive
<1>8. QED
  BY <1>2, <1>4, <1>5, <1>6, <1>7 DEF Linked

(***************************************************************************)
(* The stacks of ProcessesJobs are linked; what each step has to show.     *)
(***************************************************************************)
JobsLinked == Linked(JobsOf, par_pid, running_pid, pid_st)
JobsStep == JobsLinked' /\ [Abstract!Next]_Abstract!vars

LEMMA JobsTypes ==
  ASSUME IInv
  PROVE  /\ par_pid \in [Pid -> Ancestors]
         /\ running_pid \in [Terminal -> Ancestors]
         /\ pid_st \in [Pid -> {0, 1}]
         /\ current_tid \in Terminal
BY DEF IInv, TypeOK, Ancestors

(***************************************************************************)
(* The jobs free in JobStacks are the pids free in the pid table.          *)
(***************************************************************************)
LEMMA FreeJobs ==
  ASSUME IInv, JobsLinked, NEW p \in Pid
  PROVE  p \in Abstract!Free <=> pid_st[p] = 0
<1>1. pid_st[p] \in {0, 1}
  BY DEF IInv, TypeOK
<1>2. p \in UNION {Abstract!OnStack(t) : t \in Terminal} <=>
        \E t \in Terminal : \E i \in 1..Len(JobsOf[t]) : JobsOf[t][i] = p
  BY DEF Abstract!OnStack
<1>3. Abstract!Terminals = Terminal
  BY DEF Abstract!Terminals, Terminal
<1>4. QED
  BY <1>1, <1>2, <1>3 DEF JobsLinked, Linked, HoldsLive, Abstract!Free

LEMMA SameJobs ==
  ASSUME UNCHANGED <<par_pid, running_pid>>
  PROVE  JobsOf' = JobsOf
BY DEF JobsOf, Chain

LEMMA JobsFacts ==
  ASSUME IInv, JobsLinked, NEW t \in Terminal
  PROVE  /\ JobsOf[t] \in Seq(Pid)
         /\ running_pid[t] = NoPid <=> JobsOf[t] = <<>>
BY EmptyStack DEF JobsLinked, Linked

(***************************************************************************)
(* Every step of Processes, seen on the stacks.                            *)
(***************************************************************************)
LEMMA JobsInit ==
  ASSUME Init
  PROVE  JobsLinked /\ Abstract!Init
<1>. DEFINE js == [t \in Terminal |-> <<>>]
<1>1. TypeOK
  BY InitInv DEF IInv
<1>2. Linked(js, par_pid, running_pid, pid_st)
  <2>1. js \in [Terminal -> Seq(Pid)] /\ \A t \in Terminal : Len(js[t]) = 0
    BY EmptySeq
  <2>2. QED
    BY <2>1 DEF Init, Linked, Top, LinkedStack, NoRepeats, HoldsLive
<1>3. JobsOf = js
  BY <1>1, <1>2, JobsAre
<1>4. QED
  BY <1>2, <1>3 DEF JobsLinked, Init, Abstract!Init, Abstract!Terminals, Terminal

LEMMA ExecuteJobs ==
  ASSUME IInv, JobsLinked, NEW p \in Pid, NEW deep \in BOOLEAN, Execute(p, deep)
  PROVE  JobsStep
<1>. DEFINE js2 == [JobsOf EXCEPT ![current_tid] = Append(JobsOf[current_tid], p)]
<1>1. TypeOK'
  BY ExecuteInv DEF IInv
<1>2. /\ running_pid[current_tid] \in Pid /\ current_tid' = current_tid /\ pid_st[p] = 0
      /\ par_pid' = [par_pid EXCEPT ![p] = running_pid[current_tid]]
      /\ running_pid' = [running_pid EXCEPT ![current_tid] = p]
      /\ pid_st' = [pid_st EXCEPT ![p] = 1]
  BY CallerFacts DEF Execute, Spawn, FirstFree, Running
<1>3. Linked(js2, par_pid', running_pid', pid_st')
  BY <1>2, JobsTypes, Pushed DEF JobsLinked
<1>4. JobsOf' = js2
  BY <1>1, <1>3, JobsArePrime
<1>5. JobsOf[current_tid] # <<>>
  BY <1>2, JobsFacts, JobsTypes DEF NoPid, Pid
<1>6. Abstract!Launch(p)
  BY <1>2, <1>4, <1>5, FreeJobs DEF Abstract!Launch
<1>7. QED
  BY <1>3, <1>4, <1>6 DEF JobsStep, JobsLinked, Abstract!Next

LEMMA HaltChildJobs ==
  ASSUME IInv, JobsLinked, NEW deep \in BOOLEAN, HaltChild(deep)
  PROVE  JobsStep
<1>. DEFINE s == JobsOf[current_tid]
            js2 == [JobsOf EXCEPT ![current_tid] = SubSeq(s, 1, Len(s) - 1)]
<1>1. TypeOK'
  BY HaltChildInv DEF IInv
<1>2. /\ running_pid[current_tid] \in Pid /\ current_tid' = current_tid
      /\ par_pid[running_pid[current_tid]] # NoPid
      /\ par_pid' = par_pid
      /\ running_pid' = [running_pid EXCEPT ![current_tid] = par_pid[running_pid[current_tid]]]
      /\ pid_st' = [pid_st EXCEPT ![running_pid[current_tid]] = 0]
  BY CallerFacts DEF HaltChild, Running, FreePid
<1>3. Linked(js2, par_pid', running_pid', pid_st')
  BY <1>2, JobsTypes, Popped DEF JobsLinked
<1>4. JobsOf' = js2
  BY <1>1, <1>3, JobsArePrime
<1>5. Len(s) > 1
  <2>1. Len(s) \in Nat \ {0} /\ Len(s) # 1
    BY <1>2, JobsTypes, ParentBelow DEF JobsLinked
  <2>2. \A n \in Nat \ {0} : n # 1 => n > 1
    OBVIOUS
  <2>. HIDE DEF s
  <2>3. QED
    BY <2>1, <2>2
<1>6. Abstract!Finish
  BY <1>2, <1>4, <1>5 DEF Abstract!Finish
<1>7. QED
  BY <1>3, <1>4, <1>6 DEF JobsStep, JobsLinked, Abstract!Next

LEMMA HaltBaseJobs ==
  ASSUME IInv, JobsLinked, NEW p \in Pid, NEW deep \in BOOLEAN, HaltBase(p, deep)
  PROVE  JobsStep
<1>. DEFINE r == running_pid[current_tid]
            js2 == [JobsOf EXCEPT ![current_tid] = <<p>>]
<1>1. TypeOK'
  BY HaltBaseInv DEF IInv
<1>2. /\ r \in Pid /\ current_tid' = current_tid /\ par_pid[r] = NoPid
      /\ [pid_st EXCEPT ![r] = 0][p] = 0
      /\ par_pid' = [par_pid EXCEPT ![p] = NoPid]
      /\ running_pid' = [running_pid EXCEPT ![current_tid] = p]
      /\ pid_st' = [[pid_st EXCEPT ![r] = 0] EXCEPT ![p] = 1]
  BY CallerFacts DEF HaltBase, Spawn, FirstFree, FreePid, Running
<1>3. pid_st[p] = 0 \/ p = r
  BY <1>2, JobsTypes
<1>4. Linked(js2, par_pid', running_pid', pid_st')
  BY <1>2, <1>3, JobsTypes, Replaced DEF JobsLinked
<1>5. JobsOf' = js2
  BY <1>1, <1>4, JobsArePrime
<1>6. Len(JobsOf[current_tid]) = 1 /\ r = JobsOf[current_tid][1]
  BY <1>2, JobsTypes, ParentBelow DEF JobsLinked
<1>7. p \in Abstract!Free \cup Abstract!OnStack(current_tid)
  <2>1. r \in Abstract!OnStack(current_tid)
    BY <1>6 DEF Abstract!OnStack
  <2>2. QED
    BY <2>1, <1>3, FreeJobs
<1>8. Abstract!Restart(p)
  BY <1>2, <1>5, <1>6, <1>7 DEF Abstract!Restart
<1>9. QED
  BY <1>4, <1>5, <1>8 DEF JobsStep, JobsLinked, Abstract!Next

LEMMA TickStartJobs ==
  ASSUME IInv, JobsLinked, NEW p \in Pid, NEW deep \in BOOLEAN, TickStart(p, deep)
  PROVE  JobsStep
<1>. DEFINE t == NextTerminal
            js2 == [JobsOf EXCEPT ![t] = Append(JobsOf[t], p)]
<1>1. TypeOK' /\ t \in Terminal
  BY TickStartInv, NextTerminalType DEF IInv
<1>2. /\ running_pid[t] = NoPid /\ current_tid' = t /\ pid_st[p] = 0
      /\ par_pid' = [par_pid EXCEPT ![p] = running_pid[t]]
      /\ running_pid' = [running_pid EXCEPT ![t] = p]
      /\ pid_st' = [pid_st EXCEPT ![p] = 1]
  BY DEF TickStart, Spawn, FirstFree
<1>. HIDE DEF t
<1>3. Linked(js2, par_pid', running_pid', pid_st')
  BY <1>1, <1>2, JobsTypes, Pushed DEF JobsLinked
<1>4. JobsOf' = js2
  BY <1>1, <1>3, JobsArePrime
<1>5. JobsOf[t] = <<>> /\ Append(JobsOf[t], p) = <<p>>
  <2>1. JobsOf[t] = <<>>
    BY <1>1, <1>2, JobsFacts
  <2>2. Append(<<>>, p) = <<p>>
    OBVIOUS
  <2>3. QED
    BY <2>1, <2>2
<1>6. current_tid' = Abstract!NextTurn
  BY <1>2 DEF t, NextTerminal, Abstract!NextTurn
<1>7. Abstract!First(p)
  BY <1>2, <1>4, <1>5, <1>6, FreeJobs DEF Abstract!First
<1>8. QED
  BY <1>3, <1>4, <1>7 DEF JobsStep, JobsLinked, Abstract!Next

LEMMA TickResumeJobs ==
  ASSUME IInv, JobsLinked, NEW deep \in BOOLEAN, TickResume(deep)
  PROVE  JobsStep
<1>1. /\ NextTerminal \in Terminal /\ running_pid[NextTerminal] # NoPid
      /\ current_tid' = NextTerminal /\ UNCHANGED <<par_pid, running_pid, pid_st>>
  BY NextTerminalType DEF TickResume, pids, IInv
<1>2. JobsOf' = JobsOf /\ JobsLinked'
  BY <1>1, SameJobs DEF JobsLinked
<1>3. JobsOf[NextTerminal] # <<>>
  BY <1>1, JobsFacts
<1>4. Abstract!Rotate
  BY <1>1, <1>2, <1>3 DEF Abstract!Rotate, Abstract!NextTurn, NextTerminal
<1>5. QED
  BY <1>2, <1>4 DEF JobsStep, Abstract!Next

LEMMA TickStartFailsJobs ==
  ASSUME IInv, JobsLinked, NEW deep \in BOOLEAN, TickStartFails(deep)
  PROVE  JobsStep
<1>1. /\ NextTerminal \in Terminal /\ running_pid[NextTerminal] = NoPid
      /\ current_tid' = NextTerminal /\ UNCHANGED <<par_pid, running_pid, pid_st>>
      /\ \A p \in Pid : pid_st[p] = 1
  BY NextTerminalType DEF TickStartFails, pids, IInv, Full
<1>2. JobsOf' = JobsOf /\ JobsLinked'
  BY <1>1, SameJobs DEF JobsLinked
<1>3. JobsOf[NextTerminal] = <<>>
  BY <1>1, JobsFacts
<1>4. Abstract!Free = {}
  <2>1. \A p \in Pid : p \notin Abstract!Free
    BY <1>1, FreeJobs
  <2>2. QED
    BY <2>1 DEF Abstract!Free
<1>5. Abstract!NoShell
  BY <1>1, <1>2, <1>3, <1>4 DEF Abstract!NoShell, Abstract!NextTurn, NextTerminal
<1>6. QED
  BY <1>2, <1>5 DEF JobsStep, Abstract!Next

LEMMA OtherJobs ==
  ASSUME JobsLinked, UNCHANGED <<par_pid, running_pid, pid_st, current_tid>>
  PROVE  JobsStep
<1>1. JobsOf' = JobsOf
  BY SameJobs
<1>2. QED
  BY <1>1 DEF JobsStep, JobsLinked, Abstract!vars

(***************************************************************************)
(* Every behaviour of execute, halt and pit_irq is a behaviour of the      *)
(* abstract job stacks, for any number of pids and terminals: no           *)
(* interleaving drops a waiting parent, returns past one, runs a process   *)
(* on two terminals or ends another terminal's job.                        *)
(***************************************************************************)
THEOREM JobStacksImplemented == Spec => ImplementsJobStacks
<1>1. Init => JobsLinked /\ Abstract!Init
  BY JobsInit
<1>2. IInv /\ JobsLinked /\ [Next]_vars => JobsStep
  <2>. SUFFICES ASSUME IInv, JobsLinked, [Next]_vars
                PROVE  JobsStep
    OBVIOUS
  <2>1. CASE Tick
    BY <2>1, TickResumeJobs, TickStartJobs, TickStartFailsJobs DEF Tick
  <2>2. CASE SetTss \/ Iret
    BY <2>2, OtherJobs DEF SetTss, Iret, pids, pcbs
  <2>3. CASE SystemCall
    <3>1. ASSUME NEW deep \in BOOLEAN, ExecuteFails(deep)
          PROVE  JobsStep
      BY <3>1, OtherJobs DEF ExecuteFails, pids
    <3>2. QED
      BY <2>3, <3>1, ExecuteJobs, HaltBaseJobs, HaltChildJobs DEF SystemCall
  <2>4. CASE UNCHANGED vars
    BY <2>4, OtherJobs DEF vars, pids, pcbs
  <2>5. QED
    BY <2>1, <2>2, <2>3, <2>4 DEF Next
<1>3. JobsStep => JobsLinked' /\ [Abstract!Next]_Abstract!vars
  BY DEF JobsStep
<1>4. Spec => []IInv
  BY Invariance
<1>5. QED
  BY <1>1, <1>2, <1>3, <1>4, PTL DEF Spec, ImplementsJobStacks, Abstract!Spec

=============================================================================
