----------------------------- MODULE JobStacks -----------------------------
(***************************************************************************)
(* What the process code of MongOS promises its terminals, without PCBs,   *)
(* stacks, frames or page mappings: every terminal owns a stack of jobs,   *)
(* no job is on two stacks or twice on one, only the top job of the        *)
(* terminal whose turn it is can start a job or end itself, and turns go   *)
(* round.  Processes implements it (ProcessesJobs).                        *)
(***************************************************************************)
EXTENDS Integers, Sequences

CONSTANTS Jobs, NumTerminals

ASSUME NumTerminalsAssumption == NumTerminals \in Nat \ {0}

VARIABLES
  jobs,            \* [terminal -> sequence of jobs, the last one is the top]
  turn             \* the terminal whose job has the CPU

vars == <<jobs, turn>>

Terminals == 0..(NumTerminals - 1)
NextTurn == (turn + 1) % NumTerminals
OnStack(t) == {jobs[t][i] : i \in 1..Len(jobs[t])}
Top(t) == jobs[t][Len(jobs[t])]
Free == Jobs \ UNION {OnStack(t) : t \in Terminals}

Init ==
  /\ jobs = [t \in Terminals |-> <<>>]
  /\ turn = 0

\* The top job calls execute and waits.
Launch(j) ==
  /\ jobs[turn] # <<>>
  /\ j \in Free
  /\ jobs' = [jobs EXCEPT ![turn] = Append(@, j)]
  /\ UNCHANGED turn

\* The top job ends and the one below it goes on.
Finish ==
  /\ Len(jobs[turn]) > 1
  /\ jobs' = [jobs EXCEPT ![turn] = SubSeq(@, 1, Len(@) - 1)]
  /\ UNCHANGED turn

\* The only job of a terminal ends: a new shell takes its place.
Restart(j) ==
  /\ Len(jobs[turn]) = 1
  /\ j \in Free \cup OnStack(turn)
  /\ jobs' = [jobs EXCEPT ![turn] = <<j>>]
  /\ UNCHANGED turn

\* The turn goes to a terminal that has jobs.
Rotate ==
  /\ turn' = NextTurn
  /\ jobs[turn'] # <<>>
  /\ UNCHANGED jobs

\* The turn goes to a terminal without a job and a shell is started for it,
\* unless every job is taken.
First(j) ==
  /\ turn' = NextTurn
  /\ jobs[turn'] = <<>>
  /\ j \in Free
  /\ jobs' = [jobs EXCEPT ![turn'] = <<j>>]

NoShell ==
  /\ turn' = NextTurn
  /\ jobs[turn'] = <<>>
  /\ Free = {}
  /\ UNCHANGED jobs

Next ==
  \/ Finish \/ Rotate \/ NoShell
  \/ \E j \in Jobs : Launch(j) \/ Restart(j) \/ First(j)

Spec == Init /\ [][Next]_vars

=============================================================================
