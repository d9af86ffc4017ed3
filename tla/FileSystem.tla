----------------------------- MODULE FileSystem -----------------------------
(***************************************************************************)
(* The system calls open, read, write and close of one process on files,   *)
(* the directory and the RTC (syscall.c, filesys.c): read_f, read_d,       *)
(* real_dir_read, mycopy, and the calls that fail.                         *)
(*                                                                         *)
(* Each descriptor keeps a position of its own.  A program whose name      *)
(* begins with gr has the descriptors of its reads and closes replaced.    *)
(* What a call returns is an operator of its own, next to the action; the  *)
(* calls of module Programs use both.  (What the RTC does: module Rtc.)    *)
(***************************************************************************)
EXTENDS Disk

CONSTANTS
  MAX_FILES,       \* 63
  Word,            \* sizeof(dst) in mycopy (4)
  Sizes,           \* the sizes of files
  Names,           \* the names of files, sequences of characters
  RtcNames,        \* those of them that may be the RTC's
  FD_ARRAY_MAX,    \* 8
  RTC_nbytes_write \* 4, the bytes of a rate for rtc_write

ASSUME FilesAssumption ==
  /\ Word \in Nat \ {0} /\ FILE_NAME % Word = 0
  /\ MAX_FILES \in Nat \ {0} /\ Sizes \subseteq Nat
  /\ FD_ARRAY_MAX \in Nat /\ FD_ARRAY_MAX >= 2 /\ RTC_nbytes_write \in Nat
ASSUME NamesAssumption ==
  /\ RtcNames \subseteq Names /\ IsFiniteSet(Names)
  /\ \A n \in Names :
       n \in Seq(Range(n)) /\ Len(n) \in 1..FILE_NAME /\ Range(n) \cap {"null", "enter"} = {}

PerFile == 1 + (CHOOSE s \in Sizes : \A z \in Sizes : z <= s) \div BLOCK_SIZE
Fds == 2..(FD_ARRAY_MAX - 1)             \* 0 and 1 are the terminal

VARIABLES
  gr,              \* the program's name begins with gr
  farray,          \* [Fds -> free, or type, inode and file_pos]
  asked,           \* [Fds -> the name each was opened with]
  log,             \* [Fds -> Seq], what each has delivered so far
  taken            \* those that delivered to a read that asked for another

fsvars == <<disk, gr, farray, asked, log, taken>>

Free == [flags |-> "free"]
IsOpen(fd, type) == farray[fd] # Free /\ farray[fd].type = type
Untouched == [i \in 0..(FILE_NAME + FILE_NAME * Word) |-> "old"]

(***************************************************************************)
(* Any disk: the directory's own entry and the files in any order, one of  *)
(* them perhaps the RTC, their blocks interleaved or not.                  *)
(***************************************************************************)
Types(name) == IF name \in RtcNames THEN {"file", "rtc"} ELSE {"file"}

FilesInit ==
  /\ \E used \in SUBSET Names :
       /\ Cardinality(used) < MAX_FILES
       /\ \E order \in SetToSeqs(used), type \in [used -> {"file", "rtc"}] :
            /\ \A n \in used : type[n] \in Types(n)
            /\ dir = << [name |-> Root, type |-> "dir", inode |-> 0] >> \o
                  [i \in 1..Len(order) |->
                     [name |-> order[i], type |-> type[order[i]], inode |-> i]]
  /\ \E spread \in BOOLEAN, size \in [1..(Len(dir) - 1) -> Sizes] :
       inodes = [i \in 1..(Len(dir) - 1) |->
         [size |-> size[i],
          blocks |-> [k \in 0..(PerFile - 1) |->
            IF spread THEN k * Len(dir) + i ELSE i * PerFile + (PerFile - k)]]]
  /\ farray = [fd \in Fds |-> Free]
  /\ asked = [fd \in Fds |-> Root]
  /\ log = [fd \in Fds |-> <<>>] /\ taken = {}

-----------------------------------------------------------------------------

(***************************************************************************)
(* The calls that fail return -1 and change nothing: with descriptors that *)
(* are out of range, free or of the wrong direction, with a negative       *)
(* number of bytes, with a name that is empty or nobody's, and every write *)
(* to a file or a directory (write_f, write_d).                            *)
(***************************************************************************)
FreeFds == {fd \in Fds : farray[fd] = Free}

RefusesOpen(fname) == fname = <<>> \/ DentryByName(fname) = 0 \/ FreeFds = {}
RefusesRead(fd, n) == fd \notin {0} \cup Fds \/ n < 0 \/ fd \in FreeFds
TakesWrite(fd, n) == fd = 1 \/ (n = RTC_nbytes_write /\ \E d \in Fds : d = fd /\ IsOpen(d, "rtc"))
RefusesWrite(fd, n) == n < 0 \/ ~TakesWrite(fd, n)
RefusesCloseRange(fd) == fd \notin Fds
RefusesClose(fd) == fd \notin Fds \/ fd \in FreeFds

(***************************************************************************)
(* "force the id": every descriptor but 2 of a program named gr* is 3.     *)
(***************************************************************************)
ForcedAll(fd) == IF gr THEN 3 ELSE fd
Forced(fd) == IF gr /\ fd # 2 THEN 3 ELSE fd

(***************************************************************************)
(* open: the lowest free descriptor.  open_f and open_d, which it calls    *)
(* last, find nothing wrong with an entry of their own type.               *)
(***************************************************************************)
OpenResult(fname) == IF RefusesOpen(fname) THEN -1 ELSE FirstOf(FreeFds, 0)

Open(fname) ==
  LET entry == dir[DentryByName(fname)]
      fd == OpenResult(fname)
  IN
  /\ \/ RefusesOpen(fname) /\ UNCHANGED <<farray, asked, log, taken>>
     \/ /\ ~RefusesOpen(fname)
        /\ farray' = [farray EXCEPT ![fd] =
             [flags |-> "open", type |-> entry.type, inode |-> entry.inode, file_pos |-> 0]]
        /\ asked' = [asked EXCEPT ![fd] = fname]
        /\ log' = [log EXCEPT ![fd] = <<>>] /\ taken' = taken \ {fd}
  /\ UNCHANGED <<disk, gr>>

CloseResult(fd) == IF RefusesClose(Forced(fd)) THEN -1 ELSE 0

Close(fd) ==
  LET d == Forced(fd) IN
  /\ \/ RefusesClose(d) /\ UNCHANGED <<farray, asked, log, taken>>
     \/ /\ ~RefusesClose(d)
        /\ farray' = [farray EXCEPT ![d] = Free]
        /\ asked' = [asked EXCEPT ![d] = Root]
        /\ log' = [log EXCEPT ![d] = <<>>] /\ taken' = taken \ {d}
  /\ UNCHANGED <<disk, gr>>

\* write: to the screen (module Console) or a rate to the RTC (module Rtc).
WriteResult(fd, n) == IF RefusesWrite(fd, n) THEN -1 ELSE n

(***************************************************************************)
(* mycopy: whole words first, then the bytes left over, for each of which  *)
(* both pointers move on by a word.                                        *)
(***************************************************************************)
MyCopy(dst, src, num) ==
  LET words == Word * (num \div Word)
      single(i) == \E k \in 0..((num % Word) - 1) : i = words + Word * k
  IN [i \in DOMAIN dst |-> IF i < words \/ single(i) THEN src[i] ELSE dst[i]]

\* The bytes of a directory entry from its name on; what follows the name's
\* FILE_NAME bytes are other fields.
Stored(name) == [i \in DOMAIN Untouched |->
  IF i < Len(name) THEN name[i + 1] ELSE IF i < FILE_NAME THEN "null" ELSE "field"]

(***************************************************************************)
(* read of a regular file (read_f, read_data), of the directory (read_d,   *)
(* real_dir_read: one name per call, 0 after the last, -1 after the last   *)
(* that a directory can hold) and of the RTC (always 0).                   *)
(***************************************************************************)
NextEntryStays(pos) == pos
NextEntry(pos) == pos + 1

Data(d, n) == ReadData(inodes[farray[d].inode], farray[d].file_pos, n)

DirResult(pos) ==
  CASE pos >= MAX_FILES -> -1 [] pos < Len(dir) -> FILE_NAME [] OTHER -> 0

ReadResult(fd, n) ==
  LET d == Forced(fd) IN
  IF RefusesRead(d, n) THEN -1
  ELSE CASE IsOpen(d, "file") -> Len(Data(d, n))
         [] IsOpen(d, "dir") -> DirResult(farray[d].file_pos)
         [] IsOpen(d, "rtc") -> 0

\* What a successful read leaves in a buffer that holds more than n bytes.
Delivered(d, n) ==
  IF IsOpen(d, "file") THEN Data(d, n)
  ELSE << [nbytes |-> n, buf |-> MyCopy(Untouched, Stored(dir[farray[d].file_pos + 1].name), n)] >>

Advanced(d, n) ==
  IF IsOpen(d, "file") THEN farray[d].file_pos + Len(Data(d, n))
  ELSE NextEntry(farray[d].file_pos)

Read(fd, n) ==
  LET d == Forced(fd) IN
  /\ d # 0                                        \* (the terminal)
  /\ \/ ReadResult(fd, n) <= 0 /\ UNCHANGED <<farray, log, taken>>
     \/ /\ ReadResult(fd, n) > 0
        /\ log' = [log EXCEPT ![d] = @ \o Delivered(d, n)]
        /\ taken' = (IF fd = d THEN taken ELSE taken \cup {d})
        /\ farray' = [farray EXCEPT ![d].file_pos = Advanced(d, n)]
  /\ UNCHANGED <<disk, gr, asked>>

-----------------------------------------------------------------------------

(***************************************************************************)
(* The file a name stands for.                                             *)
(***************************************************************************)
Named(fname) ==
  CHOOSE i \in 1..Len(dir) : dir[i].name = SubSeq(fname, 1, LengthOf(fname))

(***************************************************************************)
(* However a program cuts its reads, with however many descriptors open at *)
(* once, a descriptor delivers the bytes of the file it was opened with,   *)
(* from the first on, without a gap, a repetition or a byte of another     *)
(* file or past the end, and only to the reads that ask for it.  But if    *)
(* the program's name begins with gr (syscall.c:257), descriptors above 3  *)
(* deliver nothing: who asks for them, or for a number that is no          *)
(* descriptor, is given what follows in the file of descriptor 3, which is *)
(* then missing where 3 is asked for.                                      *)
(***************************************************************************)
ServesItsReads(fd) ==
  /\ fd \in taken => gr /\ fd = 3
  /\ gr => fd \in {2, 3} \/ log[fd] = <<>>

FilesReadInOrder ==
  \A fd \in Fds : IsOpen(fd, "file") =>
    LET f == inodes[dir[Named(asked[fd])].inode] IN
    /\ farray[fd].file_pos <= f.size
    /\ log[fd] = SubSeq(Content(f), 1, farray[fd].file_pos)
    /\ ServesItsReads(fd)

(***************************************************************************)
(* However reads of the directory are mixed with other calls, each         *)
(* delivers the next name, none is left out or delivered twice, and those  *)
(* with nbytes = FILE_NAME, as ls makes them, deliver it unchanged.        *)
(***************************************************************************)
DirListsNames ==
  \A fd \in Fds : IsOpen(fd, "dir") =>
    /\ Len(log[fd]) = farray[fd].file_pos /\ Len(log[fd]) <= Len(dir)
    /\ \A i \in 1..Len(log[fd]) : log[fd][i].nbytes = FILE_NAME =>
         \A k \in 0..(FILE_NAME - 1) : log[fd][i].buf[k] = Stored(dir[i].name)[k]

=============================================================================
