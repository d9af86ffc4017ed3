------------------------------ MODULE Programs ------------------------------
(***************************************************************************)
(* The user programs that live on the file system (src/syscalls): cat, ls, *)
(* the main loop of grep, and syserr, the repository's own test of the     *)
(* system calls' error cases; and any other program, which calls what it   *)
(* likes.  They run one after the other as the process of FileSystem.      *)
(*                                                                         *)
(* What do_one_file of grep makes of the data it reads is module Grep;     *)
(* here it reads a file to its end, in pieces of any size.                 *)
(***************************************************************************)
EXTENDS FileSystem

CONSTANTS
  Asked,           \* the names any program opens
  Arguments,       \* what users give cat
  Counts,          \* nbytes of any program's reads
  CatSizes,        \* sizeof(buf) in cat (1024)
  Pieces,          \* what grep reads at once (BUFSIZE - last)
  Longer, Shorter, \* "helloo" and "shel": names of files but for one letter
  BIG_NUM, USER,   \* 1073741823; an address in the user's page
  PDE_INDEX, PDE   \* vidmap: USER's place in the page directory, and the
                   \* bytes of an entry (2^22)

ASSUME ProgramsAssumption ==
  /\ Counts \subseteq Int /\ Pieces \subseteq Nat \ {0} /\ FD_ARRAY_MAX >= 4
  /\ \A n \in CatSizes : n \in Nat /\ n >= FILE_NAME
  /\ BIG_NUM \in Nat /\ BIG_NUM > FD_ARRAY_MAX /\ BIG_NUM > 10
  /\ PDE \in Nat \ {0} /\ USER \div PDE = PDE_INDEX /\ PDE_INDEX # 1
  /\ \A n \in {Longer, Shorter} :
       /\ n \in Seq(Range(n)) /\ n \notin Names \cup {Root}
       /\ n # <<>> /\ Last(n) # "enter"

VARIABLES
  prog, pc,        \* the program that runs and its place
  arg, chunk,      \* cat's argument and the size of its buffer
  dirfd,           \* grep: main's fd, of the directory
  fd, fname,       \* fd of cat, ls and do_one_file, and what it opened
  out,             \* what was printed, or searched: a sequence
  status,          \* what main returned
  tests, step,     \* syserr: the tests to go, the next call of the first
  failed, cnt      \* its variables fail and cnt

progvars == <<prog, pc, arg, chunk, dirfd, fd, fname, out, status, tests, step, failed, cnt>>
vars == <<fsvars, progvars>>

KeepTests == UNCHANGED <<tests, step, failed, cnt>>
KeepGrep == UNCHANGED <<fd, fname>>
KeepMain == UNCHANGED <<prog, arg, chunk, dirfd>>

Init ==
  /\ FilesInit /\ gr = FALSE
  /\ prog = "none" /\ pc = "done" /\ status = 0 /\ out = <<>>
  /\ arg = Root /\ chunk = 0 /\ dirfd = 0 /\ fd = 0 /\ fname = Root
  /\ tests = <<>> /\ step = 1 /\ failed = FALSE /\ cnt = 0

(***************************************************************************)
(* The shell runs a program: execute gives it descriptors of its own.  The *)
(* choice of syserr's user is read from the terminal; 0 is every test.     *)
(***************************************************************************)
Execute(p) ==
  /\ pc = "done"
  /\ prog' = p /\ pc' = "start"
  /\ gr' \in (CASE p = "grep" -> {TRUE} [] p = "any" -> BOOLEAN [] OTHER -> {FALSE})
  /\ farray' = [f \in Fds |-> Free]
  /\ asked' = [f \in Fds |-> Root]
  /\ log' = [f \in Fds |-> <<>>] /\ taken' = {}
  /\ arg' \in (IF p = "cat" THEN Arguments ELSE {Root})
  /\ chunk' \in (IF p = "cat" THEN CatSizes ELSE {FILE_NAME})
  /\ tests' \in (IF p = "syserr"
                 THEN { <<1, 2, 3, 4, 5, 6, 7, 8>> } \cup { <<k>> : k \in 1..8 } ELSE { <<>> })
  /\ step' = 1 /\ failed' = FALSE /\ cnt' = 0
  /\ out' = <<>> /\ status' = 0 /\ dirfd' = 0 /\ fd' = 0 /\ fname' = Root
  /\ UNCHANGED disk

Return(value) == pc' = "done" /\ status' = value
Stay == UNCHANGED <<pc, status>>

-----------------------------------------------------------------------------

(***************************************************************************)
(* Any program.                                                            *)
(***************************************************************************)
AnyCall ==
  /\ prog = "any" /\ pc = "start"
  /\ \/ \E name \in Asked : Open(name)
     \/ \E d \in -1..FD_ARRAY_MAX : Close(d) \/ \E n \in Counts : Read(d, n)
  /\ UNCHANGED progvars

(***************************************************************************)
(* cat and ls: open the argument, or the directory, and print what reads   *)
(* deliver, until they return 0.                                           *)
(***************************************************************************)
Opened == IF prog = "cat" THEN arg ELSE Root

OpenIt ==
  /\ prog \in {"cat", "ls"} /\ pc = "start"
  /\ Open(Opened)
  /\ fd' = OpenResult(Opened)
  /\ IF fd' = -1 THEN Return(2) ELSE pc' = "loop" /\ UNCHANGED status
  /\ KeepMain /\ KeepTests /\ UNCHANGED <<fname, out>>

PrintIt ==
  LET n == ReadResult(fd, chunk) IN
  /\ prog \in {"cat", "ls"} /\ pc = "loop"
  /\ Read(fd, chunk)
  /\ \/ n = 0 /\ Return(0) /\ UNCHANGED out
     \/ n = -1 /\ Return(3) /\ UNCHANGED out
     \/ n > 0 /\ WriteResult(1, n) # -1 /\ out' = out \o Delivered(fd, chunk) /\ Stay
  /\ KeepMain /\ KeepTests /\ KeepGrep

(***************************************************************************)
(* grep: read the directory through one descriptor and each file whose     *)
(* name does not begin with a dot through another (do_one_file).           *)
(***************************************************************************)
GrepOpen ==
  /\ prog = "grep" /\ pc = "start"
  /\ Open(Root)
  /\ dirfd' = OpenResult(Root)
  /\ IF dirfd' = -1 THEN Return(2) ELSE pc' = "loop" /\ UNCHANGED status
  /\ KeepTests /\ KeepGrep /\ UNCHANGED <<prog, arg, chunk, out>>

\* The name in main's buffer after a read of the directory: it ends at the
\* first null, buf[cnt] if there is none before.
NameOf(entry) ==
  LET nulls == {k \in 0..(FILE_NAME - 1) : entry.buf[k] = "null"}
  IN [k \in 1..FirstOf(nulls, FILE_NAME) |-> entry.buf[k - 1]]

GrepNext ==
  LET n == ReadResult(dirfd, FILE_NAME) IN
  /\ prog = "grep" /\ pc = "loop"
  /\ Read(dirfd, FILE_NAME)
  /\ \/ n = 0 /\ Return(0) /\ UNCHANGED fname
     \/ n = -1 /\ Return(3) /\ UNCHANGED fname
     \/ /\ n > 0
        /\ fname' = NameOf(Delivered(dirfd, FILE_NAME)[1])
        /\ pc' = (IF Head(fname') = "." THEN "loop" ELSE "file")
        /\ UNCHANGED status
  /\ KeepMain /\ KeepTests /\ UNCHANGED <<fd, out>>

OpenFile ==
  /\ prog = "grep" /\ pc = "file"
  /\ Open(fname)
  /\ fd' = OpenResult(fname)
  /\ IF fd' = -1 THEN Return(3) /\ UNCHANGED out
     ELSE pc' = "search" /\ out' = Append(out, [name |-> fname, data |-> <<>>])
          /\ UNCHANGED status
  /\ KeepMain /\ KeepTests /\ UNCHANGED fname

Search(piece) ==
  LET n == ReadResult(fd, piece) IN
  /\ prog = "grep" /\ pc = "search"
  /\ Read(fd, piece)
  /\ \/ n = -1 /\ Return(3) /\ UNCHANGED out
     \/ n = 0 /\ pc' = "close" /\ UNCHANGED <<status, out>>
     \/ n > 0 /\ out' = [out EXCEPT ![Len(out)].data = @ \o Delivered(Forced(fd), piece)] /\ Stay
  /\ KeepMain /\ KeepTests /\ KeepGrep

CloseFile ==
  /\ prog = "grep" /\ pc = "close"
  /\ Close(fd)
  /\ IF CloseResult(fd) = -1 THEN Return(3) ELSE pc' = "loop" /\ UNCHANGED status
  /\ KeepMain /\ KeepTests /\ KeepGrep /\ UNCHANGED out

-----------------------------------------------------------------------------

(***************************************************************************)
(* syserr.  A test is a sequence of calls; each must return -1, but for    *)
(* test 3, which counts the failures of its opens and closes everything    *)
(* again.  A call of vidmap that fails and of a number that is no system   *)
(* call (syscall_w) change nothing.                                        *)
(***************************************************************************)
InTurn(op, fds) == [k \in 1..Len(fds) |-> <<op, fds[k]>>]
Every(first) == [k \in 1..(FD_ARRAY_MAX - first) |-> first + k - 1]
OnBadFd(d) == << <<"read", d>>, <<"write", d>>, <<"close", d>> >>

Script(test) ==
  CASE test = 1 -> OnBadFd(-BIG_NUM)
    [] test = 2 -> OnBadFd(BIG_NUM)
    [] test = 3 -> [k \in 1..(FD_ARRAY_MAX - 1) |-> <<"open", Root>>] \o InTurn("close", Every(2))
    [] test = 4 -> << <<"open", Longer>>, <<"open", Shorter>>, <<"open", <<>> >> >>
    [] test = 5 -> InTurn("close", Every(0)) \o InTurn("read", Every(2)) \o InTurn("write", Every(2))
    [] test = 6 -> << <<"vidmap", 0>>, <<"vidmap", PDE>> >>
    [] test = 7 -> << <<"write", 0>>, <<"read", 1>> >>
    [] test = 8 -> << <<"number", BIG_NUM>>, <<"number", -BIG_NUM>>, <<"number", 0>> >>

IsSyscall(n) == n > 0 /\ n <= 10
RefusesVidmap(start) == start = 0 \/ start \div PDE # PDE_INDEX

Result(op, x) ==
  CASE op = "read" -> ReadResult(x, FILE_NAME - 1)
    [] op = "write" -> WriteResult(x, FILE_NAME - 1)
    [] op = "close" -> CloseResult(x)
    [] op = "open" -> OpenResult(x)
    [] op = "vidmap" -> IF RefusesVidmap(x) THEN -1 ELSE 0
    [] op = "number" -> IF IsSyscall(x) THEN 0 ELSE -1

Effect(op, x) ==
  CASE op = "close" -> Close(x)
    [] op = "open" -> Open(x)
    [] op = "read" -> Read(x, FILE_NAME - 1)
    [] OTHER -> UNCHANGED fsvars

\* Test 3 passes if one of its opens failed.
Unexpected(test, result) == IF test = 3 THEN FALSE ELSE result # -1
Fails(test, count) == test = 3 /\ count # 1

SysErrCall ==
  LET test == Head(tests)
      op == Script(test)[step][1]
      x == Script(test)[step][2]
      more == step < Len(Script(test))
  IN
  /\ prog = "syserr" /\ pc = "start" /\ tests # <<>>
  /\ Effect(op, x)
  /\ cnt' = (IF test = 3 /\ op = "open" /\ Result(op, x) = -1 THEN cnt + 1 ELSE cnt)
  /\ failed' = (failed \/ Unexpected(test, Result(op, x)) \/ (~more /\ Fails(test, cnt')))
  /\ step' = (IF more THEN step + 1 ELSE 1)
  /\ tests' = (IF more THEN tests ELSE Tail(tests))
  /\ Stay /\ KeepMain /\ KeepGrep /\ UNCHANGED out

SysErrEnd ==
  /\ prog = "syserr" /\ pc = "start" /\ tests = <<>>
  /\ Return(IF failed THEN 2 ELSE 0)
  /\ KeepMain /\ KeepTests /\ KeepGrep /\ UNCHANGED <<fsvars, out>>

Next ==
  \/ \E p \in {"any", "cat", "ls", "grep", "syserr"} : Execute(p)
  \/ AnyCall
  \/ OpenIt \/ PrintIt
  \/ GrepOpen \/ GrepNext \/ OpenFile \/ (\E n \in Pieces : Search(n)) \/ CloseFile
  \/ SysErrCall \/ SysErrEnd

Spec == Init /\ [][Next]_vars

-----------------------------------------------------------------------------

(***************************************************************************)
(* What the programs are for, whatever is on the disk and however long     *)
(* their reads: cat prints the whole of the file or says that there is     *)
(* none; ls prints every name once and whole; grep searches every file     *)
(* whose name does not begin with a dot to its end, each once.  They end   *)
(* well, ls and grep only if the directory has an entry to spare.          *)
(***************************************************************************)
Listed == [i \in 1..Len(out) |-> NameOf(out[i])]
AllNames == [i \in 1..Len(dir) |-> dir[i].name]
FileOf(entry) ==
  [name |-> entry.name,
   data |-> IF entry.type = "file" THEN Content(inodes[entry.inode]) ELSE <<>>]

\* What grep finds in the first n entries of the directory.
Searched ==
  LET upto[n \in 0..Len(dir)] ==
        IF n = 0 THEN <<>>
        ELSE IF Head(dir[n].name) = "." THEN upto[n - 1]
        ELSE Append(upto[n - 1], FileOf(dir[n]))
  IN upto[Len(dir)]

DirStatus == IF Len(dir) = MAX_FILES THEN 3 ELSE 0

CatDelivers ==
  LET i == DentryByName(arg) IN
  IF i = 0 THEN status = 2 /\ out = <<>>
  ELSE CASE dir[i].type = "file" -> status = 0 /\ out = Content(inodes[dir[i].inode])
         [] dir[i].type = "rtc" -> status = 0 /\ out = <<>>
         [] dir[i].type = "dir" -> status = DirStatus /\ Listed = AllNames

ProgramsDeliver ==
  pc = "done" =>
    /\ prog = "cat" => CatDelivers
    /\ prog = "ls" => status = DirStatus /\ Listed = AllNames
    /\ prog = "grep" => status = DirStatus /\ out = Searched

(***************************************************************************)
(* The repository's test program finds nothing to object to, whichever of  *)
(* its tests the user chooses.                                             *)
(***************************************************************************)
SysErrPasses == prog = "syserr" /\ pc = "done" => status = 0

=============================================================================
