------------------------------ MODULE MCVideo ------------------------------
(***************************************************************************)
(* The instance of Video that TLC checks.  Video compares jobs and texts   *)
(* and does nothing else with them: both are sets of model values, and     *)
(* exchanging two of them changes nothing.                                 *)
(***************************************************************************)
EXTENDS Video, TLC

Exchanges == Permutations(Jobs) \cup Permutations(Texts)

=============================================================================
