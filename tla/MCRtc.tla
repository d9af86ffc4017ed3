------------------------------- MODULE MCRtc -------------------------------
(***************************************************************************)
(* Instances of Rtc for TLC: the clocks of all PCBs stand at boot, or that *)
(* of the second runs.  If a program that opens an RTC gets that PCB, this *)
(* is over; if it becomes the shell of the second terminal, RTC_irq wakes  *)
(* it for ever, and enables interrupts before it comes to the third.       *)
(***************************************************************************)
EXTENDS Rtc

Stands == [maxcount |-> 0, counter |-> 0, trigger |-> 0]
Runs == [maxcount |-> 1, counter |-> 3, trigger |-> 1]

MCPcbMemory == {[p \in Jobs |-> IF p \in S THEN Runs ELSE Stands] : S \in {{}, {2}}}

=============================================================================
