-------------------------------- MODULE Shell --------------------------------
(***************************************************************************)
(* From a typed line to a program and back: the loop of the shell          *)
(* (ece391shell.c), execute with handle_command and                        *)
(* handle_execuable_check, getargs, halt's status (syscall.c) and the      *)
(* message the user gets.                                                  *)
(*                                                                         *)
(* This is one shell and the programs it starts, seen from its terminal;   *)
(* Processes has the stacks, frames and pids behind execute and halt.      *)
(* What other terminals do appears as a pid table that may be full.        *)
(* Strings are sequences of characters up to the NUL.                      *)
(***************************************************************************)
EXTENDS Disk

CONSTANTS
  MAX_ARG_LENGTH,  \* 128
  MAGIC_LEN,       \* 40, the bytes handle_execuable_check wants to read
  LoadSize,        \* PROCCESS_STACK_SIZE, the bytes execute loads (8192)
  Letters,
  ExitWord,        \* "exit"
  MaxLength,       \* bound of the model: no line is longer
  ArgCounts,       \* the values of nbytes in calls of getargs
  Statuses,        \* what programs halt with
  Disks            \* disks, as records of dir and inodes

Space == " "
EXCEPTION == 255
EXCEPT_RET == 256

ASSUME ShellAssumption ==
  /\ MAX_ARG_LENGTH \in Nat \ {0} /\ MAGIC_LEN \in Nat \ {0} /\ LoadSize \in Nat \ {0}
  /\ MaxLength \in Nat /\ ArgCounts \subseteq Nat /\ Statuses \subseteq 0..255
ASSUME LettersAssumption == Space \notin Letters /\ "enter" \notin Letters
ASSUME DisksAssumption ==
  \A d \in Disks : \A i \in 1..Len(d.dir) :
    /\ d.dir[i].name \in Seq(Range(d.dir[i].name))
    /\ d.dir[i].type = "file" => d.inodes[d.dir[i].inode].size \in Nat
ASSUME ExitAssumption == ExitWord \in Seq(Letters) \ {<<>>}

Commands == UNION {[1..n -> Letters \cup {Space}] : n \in 0..MaxLength}

VARIABLES
  turn,            \* "prompt", "read", "runs", "back"
  line,            \* what the shell has in buf after its read
  command,         \* what it has in buf when it calls execute
  name, args,      \* PCB fields
  image,           \* what execute put at the program's address
  rval,            \* what execute returned
  ended,           \* how the call of execute ended: "failed" or "full" without
                   \* a program, the program "halted" and with what status, or
                   \* raised an "exception"; "none" before
  said,            \* what the shell printed last
  got              \* what getargs returned, and the string it left

job == <<name, args, image>>
shellvars == <<disk, turn, line, command, job, rval, ended, said, got>>

NotAsked == [ret |-> 0, buf |-> <<>>]
NotEnded == [how |-> "none", status |-> 0]

ShellInit ==
  /\ \E d \in Disks : dir = d.dir /\ inodes = d.inodes
  /\ turn = "prompt"
  /\ line = <<>> /\ command = <<>>
  /\ name = <<>> /\ args = <<>> /\ image = <<>>
  /\ rval = 0 /\ ended = NotEnded
  /\ said = "prompt"
  /\ got = NotAsked

-----------------------------------------------------------------------------
(* The shell reads a line.  It ends with "\n" unless it was typed over     *)
(* before it was read.                                                     *)

WithoutNewline(s) == IF s # <<>> /\ Last(s) = "nl" THEN Front(s) ELSE s

ReadLine ==
  /\ turn = "prompt"
  /\ \E text \in Commands, end \in {<<>>, <<"nl">>} : line' = text \o end
  /\ command' = WithoutNewline(line')
  /\ turn' = "read"
  /\ UNCHANGED <<disk, job, rval, ended, said, got>>

\* The prompt of the next turn, or of the shell that replaces this one.
Prompt ==
  /\ turn' = "prompt"
  /\ line' = <<>> /\ command' = <<>>
  /\ name' = <<>> /\ args' = <<>> /\ image' = <<>>
  /\ rval' = 0 /\ ended' = NotEnded /\ said' = "prompt" /\ got' = NotAsked
  /\ UNCHANGED disk

\* strcmp(buf, "exit"): main returns, and a base shell is started again.
Exit == turn = "read" /\ command = ExitWord /\ Prompt

EmptyLine == turn = "read" /\ command = <<>> /\ Prompt

Executes == turn = "read" /\ command \notin {ExitWord, <<>>}

-----------------------------------------------------------------------------

(***************************************************************************)
(* handle_command: the name ends at the first space, after FILE_NAME       *)
(* characters or with the command; the arguments begin after the spaces    *)
(* that follow it and end at MAX_ARG_LENGTH.                               *)
(***************************************************************************)
NameLength(c) == FirstOf({i \in 1..Len(c) : c[i] = Space}, Len(c) + 1) - 1

NameEnd(c) == Smaller(NameLength(c), FILE_NAME)

ArgsStartAtOne(c) == NameEnd(c) + 2
ArgsStart(c) == FirstOf({i \in (NameEnd(c) + 1)..Len(c) : c[i] # Space}, Len(c) + 1)

NameIn(c) == SubSeq(c, 1, NameEnd(c))
ArgsOf(c) == SubSeq(c, ArgsStart(c), Smaller(Len(c), MAX_ARG_LENGTH))

(***************************************************************************)
(* The lookup.  A name of FILE_NAME characters fills execute's buffer and  *)
(* has no NUL: what lies behind it decides whether it is found.            *)
(***************************************************************************)
Found(c) ==
  IF NameEnd(c) = FILE_NAME
  THEN {0, DentryByName(NameIn(c))} ELSE {DentryByName(NameIn(c))}

(***************************************************************************)
(* handle_execuable_check: a regular file, long enough, that begins with   *)
(* the magic numbers.                                                      *)
(***************************************************************************)
IsExecutableByMagic(d) == d.type = "file" /\ inodes[d.inode].magic
IsExecutable(d) ==
  /\ d.type = "file"
  /\ Len(ReadData(inodes[d.inode], 0, MAGIC_LEN)) = MAGIC_LEN
  /\ inodes[d.inode].magic

Runnable(i) == i # 0 /\ IsExecutable(dir[i])

\* execute returns without a program: -1, but 0 when there is no pid.
ReturnsAtOnce(r, how) ==
  /\ turn' = "back"
  /\ rval' = r
  /\ ended' = [how |-> how, status |-> 0]
  /\ UNCHANGED <<disk, line, command, job, said, got>>

ExecuteFails ==
  /\ Executes
  /\ \E i \in Found(command) : ~Runnable(i)
  /\ ReturnsAtOnce(-1, "failed")

ExecuteFull ==
  /\ Executes
  /\ \E i \in Found(command) : Runnable(i)
  /\ ReturnsAtOnce(0, "full")

ExecuteRuns ==
  /\ Executes
  /\ \E i \in Found(command) :
       /\ Runnable(i)
       /\ image' = ReadData(inodes[dir[i].inode], 0, LoadSize)
  /\ name' = NameIn(command)
  /\ args' = ArgsOf(command)
  /\ turn' = "runs"
  /\ UNCHANGED <<disk, line, command, rval, ended, said, got>>

-----------------------------------------------------------------------------

(***************************************************************************)
(* getargs.  Without arguments it looks for their last character before    *)
(* the beginning of its local buffer: what is there decides what it        *)
(* returns.  strncpy ends the string only if there is room.                *)
(***************************************************************************)
Fits(n) == Len(args) <= n

Getargs(n) ==
  /\ turn = "runs" /\ got = NotAsked
  /\ \/ ~ Fits(n) /\ got' = [ret |-> -1, buf |-> <<>>]
     \/ Fits(n) /\ args = <<>> /\ got' \in [ret : {0, -1}, buf : {<<>>}]
     \/ Fits(n) /\ args # <<>>
        /\ got' = [ret |-> 0, buf |-> SubSeq(Append(args, "end"), 1, Smaller(n, Len(args) + 1))]
  /\ UNCHANGED <<disk, turn, line, command, job, rval, ended, said>>

(***************************************************************************)
(* halt: the status as execute's value.  err_handle halts a program that   *)
(* raised an exception with EXCEPTION, which is also a possible status.    *)
(***************************************************************************)
StatusKept(status) == status
ReturnValue(status) == IF status = EXCEPTION THEN EXCEPT_RET ELSE status

HaltWith(status, how) ==
  /\ turn = "runs"
  /\ turn' = "back"
  /\ rval' = ReturnValue(status)
  /\ ended' = [how |-> how, status |-> status]
  /\ UNCHANGED <<disk, line, command, job, said, got>>

Halt(status) == HaltWith(status, "halted")
Exception == HaltWith(EXCEPTION, "exception")

(***************************************************************************)
(* The shell's message, and its next turn.                                 *)
(***************************************************************************)
Message(r) ==
  CASE r = -1  -> "no such command"
    [] r = 256 -> "program terminated by exception"
    [] r = 0   -> "nothing"
    [] OTHER   -> "program terminated abnormally"

Tell ==
  /\ turn = "back" /\ said = "prompt"
  /\ said' = Message(rval)
  /\ UNCHANGED <<disk, turn, line, command, job, rval, ended, got>>

NextTurn == turn = "back" /\ said # "prompt" /\ Prompt

ShellNext ==
  \/ ReadLine \/ Exit \/ EmptyLine
  \/ ExecuteFails \/ ExecuteFull \/ ExecuteRuns
  \/ \E n \in ArgCounts : Getargs(n)
  \/ \E status \in Statuses : Halt(status)
  \/ Exception
  \/ Tell \/ NextTurn

ShellSpec == ShellInit /\ [][ShellNext]_shellvars

-----------------------------------------------------------------------------

(***************************************************************************)
(* What the user wrote after the name of the program reaches it: a line    *)
(* whose first word is a possible file name is taken apart without loss    *)
(* (handle_command, syscall.c:435-449) into that word, some spaces and     *)
(* arguments that begin with no space; and getargs (557-574) hands over    *)
(* all of these or fails, as a string if there is room for its end.        *)
(***************************************************************************)
Ran == turn \in {"runs", "back"} /\ name # <<>>
Plain(c) == NameLength(c) \in 1..FILE_NAME /\ Len(c) <= MAX_ARG_LENGTH

TakenApart(c) ==
  /\ \A i \in 1..Len(name) : name[i] # Space
  /\ args # <<>> => Head(args) # Space
  /\ \E k \in 0..Len(c) :
       /\ c = name \o [i \in 1..k |-> Space] \o args
       /\ k = 0 => args = <<>>

ArgumentsReachProgram ==
  /\ Ran /\ Plain(command) => TakenApart(command)
  /\ turn = "runs" /\ args # <<>> /\ got # NotAsked =>
       \/ got.ret = -1
       \/ got.ret = 0 /\ (got.buf = Append(args, "end") \/ got.buf = args)

(***************************************************************************)
(* The program that runs (execute, syscall.c:136-205) is the executable    *)
(* file, from its first byte on, whose whole name is the first word of the *)
(* line, newline or not; a first word longer than a file name is cut       *)
(* (handle_command, 439), and runs the program of its first FILE_NAME      *)
(* characters.  syscall.c:97 has execute fail there, since no program of   *)
(* that name exists; section 6 of the README tells the disagreement.       *)
(***************************************************************************)
IsFirstWord(w, c) ==
  /\ \A i \in 1..Len(w) : w[i] # Space
  /\ Len(w) < Len(c) => c[Len(w) + 1] = Space

IsCutWord(w, c) ==
  /\ \A i \in 1..Len(w) : w[i] # Space
  /\ Len(w) = FILE_NAME /\ Len(w) < Len(c) /\ c[Len(w) + 1] # Space

RunsNamedProgram ==
  Ran =>
    /\ IsPrefix(name, line)
    /\ IsFirstWord(name, command) \/ IsCutWord(name, command)
    /\ \E i \in 1..Len(dir) :
         LET f == inodes[dir[i].inode] IN
         /\ dir[i].type = "file" /\ f.magic /\ f.size >= MAGIC_LEN
         /\ dir[i].name = name
         /\ IsPrefix(image, Content(f)) /\ Len(image) = Smaller(f.size, LoadSize)

(***************************************************************************)
(* What the shell's message (ece391shell.c:27-33) tells, exactly.  "no     *)
(* such command" means that execute failed, and "abnormally" that the      *)
(* program halted with 1 to 254.  The other two each stand for a pair that *)
(* execute's value (syscall.c:97) should keep apart: 256 for an exception  *)
(* and for halt(255) (halt, 61), 0 for halt(0) and for no program at all   *)
(* when the pids are used up (execute, 150-153).  The cases are disjoint,  *)
(* so nothing else is confused.                                            *)
(***************************************************************************)
HaltedWith(statuses) == ended.how = "halted" /\ ended.status \in statuses

MessageTellsOutcome ==
  said # "prompt" =>
    /\ said = "no such command" <=> ended.how = "failed"
    /\ said = "program terminated abnormally" <=> HaltedWith(1..254)
    /\ said = "program terminated by exception" <=>
         ended.how = "exception" \/ HaltedWith({EXCEPTION})
    /\ said = "nothing" <=> ended.how = "full" \/ HaltedWith({0})

=============================================================================
