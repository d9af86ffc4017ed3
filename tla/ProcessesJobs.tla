--------------------------- MODULE ProcessesJobs ---------------------------
(***************************************************************************)
(* Processes implements JobStacks: the stack of a terminal is the chain    *)
(* of par_pid fields that starts at its running process.                   *)
(***************************************************************************)
EXTENDS Processes, Sequences

(***************************************************************************)
(* Chain[n][p]: p and its ancestors, oldest first, at most n of them.      *)
(***************************************************************************)
Chain[n \in 0..(MaxPid + 1)] ==
  [p \in Pid \cup {NoPid} |->
     IF n = 0 \/ p = NoPid THEN <<>>
     ELSE Append(Chain[n - 1][par_pid[p]], p)]

JobsOf == [t \in Terminal |-> Chain[MaxPid + 1][running_pid[t]]]

Abstract == INSTANCE JobStacks WITH
  Jobs <- Pid, jobs <- JobsOf, turn <- current_tid

(***************************************************************************)
(* Every step of execute, halt and pit_irq is one step of the abstract     *)
(* stacks or changes nothing in them: no interleaving drops a waiting      *)
(* parent, returns past one, runs a process on two terminals or ends       *)
(* another terminal's job.  (A parent chain with a cycle would make a      *)
(* stack with a repeated job, which no abstract step produces.)            *)
(***************************************************************************)
ImplementsJobStacks == Abstract!Spec

=============================================================================
