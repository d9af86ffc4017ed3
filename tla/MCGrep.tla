------------------------------- MODULE MCGrep -------------------------------
(***************************************************************************)
(* Strings for TLC: one that is cut by the end of the buffer, one that     *)
(* overlaps itself.  And what the buffer holds at first: newlines, too, in *)
(* it and behind it.                                                       *)
(***************************************************************************)
EXTENDS Grep

MCPatterns == { <<"b">>, <<"a", "b">>, <<"a", "a">> }

MCGarbage == { [i \in Places |-> IF i = BUFSIZE THEN last_byte ELSE g] :
                 last_byte \in {"a", "nl"}, g \in {"null", "nl"} }

=============================================================================
