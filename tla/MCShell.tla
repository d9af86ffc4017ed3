------------------------------ MODULE MCShell ------------------------------
(***************************************************************************)
(* Instances of Shell for TLC.  One program's name is the beginning of     *)
(* another's, one takes all the bytes a directory entry has; there are a   *)
(* text, a file with the magic numbers that is too short to be a program,  *)
(* and a program longer than what execute loads.  Blocks lie apart.        *)
(***************************************************************************)
EXTENDS Shell

File(size, magic, first) ==
  [size |-> size, magic |-> magic, blocks |-> [k \in 0..5 |-> 10 * k + first]]

MCDir ==
  << [name |-> <<".">>,           type |-> "dir",  inode |-> 0],
     [name |-> <<"a">>,           type |-> "file", inode |-> 1],
     [name |-> <<"a", "b">>,      type |-> "file", inode |-> 2],
     [name |-> <<"b", "a", "b">>, type |-> "file", inode |-> 3],
     [name |-> <<"b">>,           type |-> "file", inode |-> 4],
     [name |-> <<"b", "a">>,      type |-> "file", inode |-> 5] >>

MCDisks == { [dir |-> MCDir,
              inodes |-> << File(5, TRUE, 1), File(10, TRUE, 2), File(4, TRUE, 3),
                            File(6, FALSE, 4), File(2, TRUE, 5) >>] }

MCExit == <<"b", "b">>

=============================================================================
