-------------------------------- MODULE Grep --------------------------------
(***************************************************************************)
(* do_one_file of the program grep (ece391grep.c): the lines of one file   *)
(* that contain a string, found through a buffer that a read fills from    *)
(* wherever the last unfinished line ended.                                *)
(*                                                                         *)
(* The file is read as FileSystem promises: in order, to its end, and 0    *)
(* means the end.  It may be any file of the directory, an executable with *)
(* NULs too.  The buffer is a local variable, so what it holds before the  *)
(* first read is arbitrary.                                                *)
(***************************************************************************)
EXTENDS Integers, SequencesExt

CONSTANTS
  BUFSIZE,         \* 1024; the buffer has one byte more
  Letters,
  MaxText,         \* bound of the model: the length of a file
  Patterns,        \* the strings to look for
  Garbage          \* what the buffer may hold at first

ASSUME BufferAssumption == BUFSIZE \in Nat \ {0} /\ MaxText \in Nat
ASSUME PatternsAssumption == Patterns \subseteq Seq(Letters \ {"null"}) \ {<<>>}
ASSUME LettersAssumption == "nl" \notin Letters

Texts == UNION {[1..n -> Letters \cup {"nl"}] : n \in 0..MaxText}
Places == 0..BUFSIZE

VARIABLES
  text, s,         \* the file and the string
  file_pos,        \* of the descriptor
  data, last,      \* the buffer and how much of it is valid
  cnt,             \* what the last read returned
  line_start,      \* where the next line begins
  pc,              \* "read", "lines", "done"
  out,             \* the lines printed
  behind           \* history: what the byte behind the buffer was at first

file == <<text, s, behind>>
vars == <<file, file_pos, data, last, cnt, line_start, pc, out>>

Init ==
  /\ text \in Texts /\ s \in Patterns
  /\ file_pos = 0
  /\ \E g \in Garbage : data = [i \in Places |-> g[i]]
  /\ behind = data[BUFSIZE]
  /\ last = 0 /\ cnt = 0 /\ line_start = 0
  /\ pc = "read"
  /\ out = <<>>

-----------------------------------------------------------------------------

Least(a, b) == IF a < b THEN a ELSE b

Read ==
  LET n == Least(BUFSIZE - last, Len(text) - file_pos) IN
  /\ pc = "read"
  /\ data' = [i \in Places |-> IF i \in last..(last + n - 1)
                               THEN text[file_pos + i - last + 1] ELSE data[i]]
  /\ file_pos' = file_pos + n
  /\ cnt' = n
  /\ last' = last + n
  /\ line_start' = 0
  /\ pc' = "lines"
  /\ UNCHANGED <<file, out>>

(***************************************************************************)
(* The line that begins at line_start ends at a newline or with the valid  *)
(* bytes.  The byte there is looked at even if it is not valid.            *)
(***************************************************************************)
LineEnd ==
  CHOOSE i \in line_start..last :
    /\ i = last \/ data[i] = "nl"
    /\ \A j \in line_start..(i - 1) : data[j] # "nl"

Terminated == [data EXCEPT ![LineEnd] = "null"]

\* The string that begins at place i of a buffer, as strcpy and fdputs see it.
StringAt(buffer, i) ==
  LET end == CHOOSE k \in i..BUFSIZE :
               buffer[k] = "null" /\ \A j \in i..(k - 1) : buffer[j] # "null"
  IN [k \in 1..(end - i) |-> buffer[i + k - 1]]

(***************************************************************************)
(* An unfinished line is kept for the next read, unless there is nothing   *)
(* more to read or it fills the buffer.                                    *)
(***************************************************************************)
UnfinishedAnywhere == data[LineEnd] # "nl"
UnfinishedFromStart == data[LineEnd] # "nl" /\ cnt # 0
Unfinished == data[LineEnd] # "nl" /\ cnt # 0 /\ line_start # 0

\* strcpy(data, data + line_start).
Kept ==
  LET rest == StringAt(Terminated, line_start)
  IN [i \in Places |-> IF i < Len(rest) THEN rest[i + 1]
                       ELSE IF i = Len(rest) THEN "null" ELSE Terminated[i]]

KeepLine ==
  /\ pc = "lines" /\ Unfinished
  /\ data' = Kept
  /\ last' = last - line_start
  /\ pc' = "read"
  /\ UNCHANGED <<file, file_pos, cnt, line_start, out>>

(***************************************************************************)
(* strncmp at every place of the line, those behind a NUL too; the line is *)
(* printed once, as far as its first NUL.                                  *)
(***************************************************************************)
HasPattern(line) ==
  \E i \in 1..Len(line) : IsPrefix(s, SubSeq(line, i, Len(line)))

Line == [k \in 1..(LineEnd - line_start) |-> data[line_start + k - 1]]

SearchLine ==
  LET printed == StringAt(Terminated, line_start)
      next == LineEnd + 1
  IN
  /\ pc = "lines" /\ ~Unfinished
  /\ data' = Terminated
  /\ out' = IF HasPattern(Line) THEN Append(out, printed) ELSE out
  /\ line_start' = next
  /\ IF next < last
     THEN UNCHANGED <<last, pc>>
     ELSE last' = 0 /\ pc' = IF cnt = 0 THEN "done" ELSE "read"
  /\ UNCHANGED <<file, file_pos, cnt>>

Next == Read \/ KeepLine \/ SearchLine

Spec == Init /\ [][Next]_vars /\ WF_vars(Next)

-----------------------------------------------------------------------------
(* What grep is for, without a buffer. *)

Breaks == {0, Len(text) + 1} \cup {i \in 1..Len(text) : text[i] = "nl"}

Starts == Breaks \ {Len(text) + 1}
NextBreak(b) == CHOOSE e \in Breaks : e > b /\ \A x \in Breaks : x > b => e <= x
LineAfter(b) == SubSeq(text, b + 1, NextBreak(b) - 1)

\* The lines with the string, from a break on.
WantedFrom[b \in Breaks] ==
  IF b \notin Starts THEN <<>>
  ELSE (IF HasPattern(LineAfter(b)) THEN <<LineAfter(b)>> ELSE <<>>) \o WantedFrom[NextBreak(b)]

(***************************************************************************)
(* In a file without NULs grep prints the lines with the string            *)
(* (ece391grep.c:28-57), each once, whole and in order, wherever the reads *)
(* cut them, if none is longer than its buffer; and whatever the lines     *)
(* are, every one printed is a piece of the file with the string.  If a    *)
(* newline happens to be behind the buffer (ece391grep.c:13, 33), that     *)
(* takes a file that one read can hold: in a longer one the line that is   *)
(* unfinished at the end of the first full buffer passes for a complete    *)
(* one and is searched and printed in two.  With NULs (strcpy and fdputs   *)
(* stop at the first) nothing is promised but that grep ends.              *)
(***************************************************************************)
PieceOfText(l) == \E k \in 0..(Len(text) - Len(l)) : l = SubSeq(text, k + 1, k + Len(l))

Plain == \A k \in 1..Len(text) : text[k] # "null"
Whole ==
  /\ \A b \in Starts : Len(LineAfter(b)) <= BUFSIZE
  /\ behind # "nl" \/ Len(text) <= BUFSIZE

GrepFindsLines ==
  Plain =>
    /\ \A i \in 1..Len(out) : HasPattern(out[i]) /\ PieceOfText(out[i])
    /\ pc = "done" /\ Whole => out = WantedFrom[0]

(***************************************************************************)
(* The two nested endless loops (ece391grep.c:21, 29) end, and with them   *)
(* the reads: the buffer never fills up with a line that cannot be         *)
(* searched.                                                               *)
(***************************************************************************)
GrepEnds == <>(pc = "done")

=============================================================================
