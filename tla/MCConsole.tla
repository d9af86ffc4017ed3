----------------------------- MODULE MCConsole -----------------------------
(***************************************************************************)
(* Console for TLC.  Most states have calls torn on both terminals, of     *)
(* which the properties say nothing: behaviours are followed as long as    *)
(* the keyboard has torn a call of at most one terminal since its clear.   *)
(***************************************************************************)
EXTENDS Console

OneTorn == \A t, u \in Terminals : torn[t] /\ torn[u] => t = u

=============================================================================
