----------------------------- MODULE MCPrograms -----------------------------
(***************************************************************************)
(* Instances of Programs for TLC.  One name is the beginning of another,   *)
(* which takes all the bytes a directory entry has, and programs also ask  *)
(* for names with an Enter at the end, for names nobody has and for the    *)
(* empty name, and read a negative number of bytes.                        *)
(***************************************************************************)
EXTENDS Programs

MCNames == { <<"a">>, <<"a", "b", "b", "a">>, <<".", "a">> }
MCRtcNames == { <<"a">> }
MCLonger == <<"a", "b">>
MCShorter == <<"a", "b", "b">>
MCAsked == MCNames \cup { <<"a", "enter">>, Root, MCLonger, <<>> }
MCArguments == MCNames \cup { Root, MCShorter }
MCCounts == {-1, 3, 4}

(***************************************************************************)
(* Bound: only a program named gr*, for which it matters, has more than    *)
(* two descriptors in use; it reads the directory in one way only.         *)
(***************************************************************************)
FewFds ==
  prog = "any" =>
    IF gr THEN
      /\ \A d \in Fds : Len(asked[d]) > 1 => Last(asked[d]) # "enter"
      /\ \A d, e \in Fds : IsOpen(d, "dir") /\ IsOpen(e, "dir") => d = e
      /\ \A d \in Fds : IsOpen(d, "dir") =>
           \A i \in 1..Len(log[d]) : log[d][i].nbytes = FILE_NAME
    ELSE farray[4] = Free

=============================================================================
