-------------------------------- MODULE Disk --------------------------------
(***************************************************************************)
(* The read-only disk image and what filesys.c computes from it:           *)
(* read_dentry_by_name and read_data.                                      *)
(*                                                                         *)
(* A file is a sequence of blocks anywhere on the disk; read_data copies   *)
(* from it block by block, the first and the last one in part.  A byte of  *)
(* the disk is named by its block and its place there.                     *)
(***************************************************************************)
EXTENDS Integers, SequencesExt

CONSTANTS
  BLOCK_SIZE,      \* 4096
  FILE_NAME        \* 32, the bytes of a file name in the directory

ASSUME DiskAssumption == BLOCK_SIZE \in Nat \ {0} /\ FILE_NAME \in Nat \ {0}

VARIABLES
  dir,             \* boot_b->dir_entries in use: [name, type, inode]
  inodes           \* [inode -> [size, blocks]]

disk == <<dir, inodes>>

Root == << "." >>                        \* the name of the directory itself

Smaller(a, b) == IF a < b THEN a ELSE b
FirstOf(S, none) == IF S = {} THEN none ELSE CHOOSE i \in S : \A j \in S : i <= j

(***************************************************************************)
(* read_dentry_by_name: an Enter at the end of the name is dropped, the    *)
(* first entry with the same name is taken; 0 if there is none.            *)
(***************************************************************************)
LengthOf(fname) ==
  IF fname # <<>> /\ Last(fname) = "enter" THEN Len(fname) - 1 ELSE Len(fname)

MatchesPrefix(fname, name) ==
  LengthOf(fname) <= Len(name) /\ IsPrefix(SubSeq(fname, 1, LengthOf(fname)), name)
Matches(fname, name) ==
  LengthOf(fname) = Len(name) /\ IsPrefix(SubSeq(fname, 1, LengthOf(fname)), name)

DentryByName(fname) ==
  IF LengthOf(fname) > FILE_NAME THEN 0
  ELSE FirstOf({i \in 1..Len(dir) : Matches(fname, dir[i].name)}, 0)

(***************************************************************************)
(* read_data: the bytes off to off + length of a file, as far as it goes,  *)
(* one piece per block.  When the end falls between two blocks, the last   *)
(* block it visits is the one after the end, for a piece of no bytes.      *)
(***************************************************************************)
Byte(block, k) == << block, k >>

End(f, off, length) == Smaller(off + length, f.size)

PieceFromStart(f, i, off, end) ==
  LET stop == IF i = end \div BLOCK_SIZE THEN end - i * BLOCK_SIZE ELSE BLOCK_SIZE
  IN [k \in 1..stop |-> Byte(f.blocks[i], k - 1)]

Piece(f, i, off, end) ==
  LET last == end \div BLOCK_SIZE
      begin == IF i = off \div BLOCK_SIZE THEN off - i * BLOCK_SIZE ELSE 0
      stop == IF i = last /\ (last + 1) * BLOCK_SIZE # end
              THEN end - i * BLOCK_SIZE ELSE BLOCK_SIZE
  IN [k \in 1..(stop - begin) |-> Byte(f.blocks[i], begin + k - 1)]

AtEnd(f, off, length) == off >= f.size

ReadData(f, off, length) ==
  LET end == End(f, off, length)
      first == off \div BLOCK_SIZE
  IN IF AtEnd(f, off, length) THEN <<>>
     ELSE FlattenSeq([j \in 1..(end \div BLOCK_SIZE - first + 1) |->
                        Piece(f, first + j - 1, off, end)])

(***************************************************************************)
(* A file as a whole.                                                      *)
(***************************************************************************)
Content(f) ==
  [k \in 1..f.size |-> Byte(f.blocks[(k - 1) \div BLOCK_SIZE], (k - 1) % BLOCK_SIZE)]

=============================================================================
