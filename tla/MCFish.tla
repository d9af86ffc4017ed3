------------------------------- MODULE MCFish -------------------------------
(***************************************************************************)
(* Instances of Fish for TLC: all pairs of texts of up to three characters *)
(* that differ in their letter, and a few longer: a row that runs into the *)
(* next, rows below the screen; and files that are missing.                *)
(***************************************************************************)
EXTENDS Fish

MCMissing == <<"missing">>
MCLonger(l) == { <<l, l, l, l, "nl", l>>, <<"nl", "nl", "nl", l>>, <<" ", l, "nl", " ", l>> }
MCTexts(l) == UNION {[1..n -> {l, " ", "nl"}] : n \in 0..3} \cup MCLonger(l) \cup {MCMissing}
MCFrames == [f \in 0..1 |-> MCTexts(IF f = 0 THEN "o" ELSE "x")]

=============================================================================
