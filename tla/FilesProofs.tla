----------------------------- MODULE FilesProofs -----------------------------
(***************************************************************************)
(* Reads of files and of the directory, the programs that make them, and   *)
(* the shell that starts programs, for every disk, every size of a block,  *)
(* every length of names and lines, every number of descriptors and        *)
(* whatever programs run (FilesReadInOrder, DirListsNames, SysErrPasses,   *)
(* ProgramsDeliver; ArgumentsReachProgram, RunsNamedProgram,               *)
(* MessageTellsOutcome).                                                   *)
(*                                                                         *)
(* The proof says of each descriptor what it has delivered.  One of a file *)
(* has the inode of the file its name stands for, and delivered its bytes  *)
(* up to the position: what read_data puts together block by block is a    *)
(* part of the file without a gap (ReadDataIs).  One of the directory      *)
(* delivered the entries from the first on, as many as its position, each  *)
(* copied by mycopy, which for a whole name copies whole words only        *)
(* because a name is a number of words (FilesAssumption).  Then, of each   *)
(* program, what its variables are at each place of its code: of syserr    *)
(* (SysErrInv), and of cat, ls and grep (DeliverInv).  The shell, last,    *)
(* shares the disk with them; ShellInv says what it holds at each turn.    *)
(***************************************************************************)
EXTENDS Programs, Shell, FiniteSetTheorems, SequenceTheorems, WellFoundedInduction, TLAPS

\* What a read of the directory can deliver.
Entry(i, n) == [nbytes |-> n, buf |-> MyCopy(Untouched, Stored(dir[i].name), n)]
Entries == {Entry(i, n) : i \in 1..Len(dir), n \in Int}

IsRecord(f) ==
  f = [flags |-> f.flags, type |-> f.type, inode |-> f.inode, file_pos |-> f.file_pos]

EntriesDelivered(d) ==
  /\ log[d] \in Seq(Entries)
  /\ Len(log[d]) = farray[d].file_pos /\ Len(log[d]) <= Len(dir)
  /\ \A i \in 1..Len(log[d]) : \E n \in Int : log[d][i] = Entry(i, n)

\* A descriptor of a file has the file's inode, and delivered its first bytes.
BytesDelivered(d) ==
  LET i == Named(asked[d])
      f == inodes[dir[i].inode]
  IN /\ i \in 2..Len(dir) /\ farray[d].inode = dir[i].inode
     /\ farray[d].file_pos \in 0..f.size
     /\ log[d] = SubSeq(Content(f), 1, farray[d].file_pos)

Kept(d) ==
  /\ farray[d] # Free => IsRecord(farray[d])
  /\ IsOpen(d, "dir") => EntriesDelivered(d)
  /\ IsOpen(d, "file") => BytesDelivered(d)

\* The directory's own entry comes first, then the files, whose names differ.
DiskInv ==
  /\ Len(dir) \in 1..MAX_FILES /\ dir[1].type = "dir" /\ dir[1].name = Root
  /\ \A i \in 2..Len(dir) :
       /\ dir[i].name \in Names /\ dir[i].type \in {"file", "rtc"}
       /\ inodes[dir[i].inode].size \in Nat
       /\ \A k \in 2..Len(dir) : dir[i].name = dir[k].name => i = k

FilesInv ==
  /\ DiskInv /\ chunk \in Int
  /\ DOMAIN farray = Fds /\ DOMAIN log = Fds /\ DOMAIN asked = Fds
  /\ \A d \in Fds : Kept(d)

-----------------------------------------------------------------------------

(***************************************************************************)
(* Induction and division on the natural numbers.                          *)
(***************************************************************************)
LEMMA NatSetInduction ==
  ASSUME NEW S, 0 \in S, \A n \in Nat : n \in S => n + 1 \in S
  PROVE  Nat \subseteq S
<1>. DEFINE T == Nat \ S
<1>. SUFFICES ASSUME T # {}
              PROVE  FALSE
  OBVIOUS
<1>1. PICK m \in T : \A n \in T : ~ (<<n, m>> \in OpToRel(<, Nat))
  BY NatLessThanWellFounded, WFMin
<1>2. m \in Nat /\ m - 1 \in T
  <2>1. m \in Nat /\ m # 0
    BY <1>1
  <2>2. m - 1 \in Nat /\ (m - 1) + 1 = m
    BY <2>1
  <2>3. QED
    BY <2>1, <2>2, <1>1
<1>3. <<m - 1, m>> \in OpToRel(<, Nat)
  BY <1>2 DEF OpToRel
<1>4. QED
  BY <1>1, <1>2, <1>3

LEMMA DivIs ==
  ASSUME NEW b \in Nat \ {0}, NEW q \in Nat, NEW r \in 0..(b - 1), NEW x, x = q * b + r
  PROVE  x \div b = q /\ x % b = r
OBVIOUS

LEMMA DivMod ==
  ASSUME NEW b \in Nat \ {0}, NEW x \in Nat
  PROVE  \E q \in Nat, r \in 0..(b - 1) : x = q * b + r /\ x \div b = q /\ x % b = r
<1>. DEFINE T == {n \in Nat : \E q \in Nat, r \in 0..(b - 1) : n = q * b + r}
<1>1. 0 \in T
  <2>1. 0 \in 0..(b - 1) /\ 0 = 0 * b + 0
    OBVIOUS
  <2>2. QED
    BY <2>1
<1>2. ASSUME NEW n \in Nat, n \in T
      PROVE  n + 1 \in T
  <2>1. PICK q \in Nat, r \in 0..(b - 1) : n = q * b + r
    BY <1>2
  <2>2. CASE r + 1 \in 0..(b - 1)
    <3>1. n + 1 = q * b + (r + 1)
      BY <2>1
    <3>2. QED
      BY <2>2, <3>1
  <2>3. CASE r + 1 \notin 0..(b - 1)
    <3>1. r + 1 = b
      BY <2>3
    <3>2. (q + 1) * b = q * b + b
      OBVIOUS
    <3>3. q * b \in Nat
      OBVIOUS
    <3>4. n + 1 = (q + 1) * b + 0
      BY <2>1, <3>1, <3>2, <3>3
    <3>5. PICK p \in Nat, z \in 0..(b - 1) : p = q + 1 /\ z = 0
      OBVIOUS
    <3>6. n + 1 = p * b + z
      BY <3>4, <3>5, Zenon
    <3>7. n + 1 \in Nat
      OBVIOUS
    <3>8. QED
      BY <3>6, <3>7
  <2>4. QED
    BY <2>2, <2>3
<1>3. x \in T
  <2>. HIDE DEF T
  <2>1. QED
    BY <1>1, <1>2, NatSetInduction
<1>4. PICK q \in Nat, r \in 0..(b - 1) : x = q * b + r
  BY <1>3
<1>5. x \div b = q /\ x % b = r
  BY <1>4, DivIs
<1>6. QED
  BY <1>4, <1>5

LEMMA DivMonotonic ==
  ASSUME NEW b \in Nat \ {0}, NEW x \in Nat, NEW y \in Nat, x <= y
  PROVE  x \div b <= y \div b
OBVIOUS

(***************************************************************************)
(* FlattenSeq joins the pieces one after the other.                        *)
(***************************************************************************)
FlatBody(seqs, f) ==
  [i \in 1..Len(seqs) |-> IF i = 1 THEN seqs[i] ELSE f[i - 1] \o seqs[i]]
FlatBy(seqs) == CHOOSE f : f = FlatBody(seqs, f)

LEMMA FlatIs ==
  ASSUME NEW seqs, Len(seqs) # 0
  PROVE  FlattenSeq(seqs) = FlatBy(seqs)[Len(seqs)]
BY DEF FlattenSeq, FlatBy, FlatBody

LEMMA FlattenIs ==
  ASSUME NEW seqs, NEW n \in Nat \ {0}, Len(seqs) = n, NEW g,
         g[1] = seqs[1], \A i \in 1..n : i # 1 => g[i] = g[i - 1] \o seqs[i]
  PROVE  FlattenSeq(seqs) = g[n]
<1>. DEFINE h == [i \in 1..n |-> g[i]]
<1>1. h = FlatBody(seqs, h)
  <2>1. \A i \in 1..n : i # 1 => i - 1 \in 1..n
    OBVIOUS
  <2>2. \A i \in 1..n : i # 1 => h[i - 1] = g[i - 1]
    BY <2>1
  <2>3. \A i \in 1..n : g[i] = IF i = 1 THEN seqs[i] ELSE h[i - 1] \o seqs[i]
    BY <2>2
  <2>4. QED
    BY <2>3 DEF FlatBody
<1>2. PICK f : f = FlatBy(seqs)
  OBVIOUS
<1>3. f = FlatBody(seqs, f)
  <2>. HIDE DEF h
  <2>1. QED
    BY <1>1, <1>2 DEF FlatBy
<1>4. \A i \in 1..n : f[i] = IF i = 1 THEN seqs[i] ELSE f[i - 1] \o seqs[i]
  <2>. SUFFICES ASSUME NEW i \in 1..n
                PROVE  f[i] = IF i = 1 THEN seqs[i] ELSE f[i - 1] \o seqs[i]
    OBVIOUS
  <2>. DEFINE row == [k \in 1..Len(seqs) |-> IF k = 1 THEN seqs[k] ELSE f[k - 1] \o seqs[k]]
  <2>1. f = row
    BY <1>3 DEF FlatBody
  <2>2. row[i] = IF i = 1 THEN seqs[i] ELSE f[i - 1] \o seqs[i]
    OBVIOUS
  <2>3. QED
    BY <2>1, <2>2, Zenon
<1>. HIDE DEF h
<1>. DEFINE Same(k) == k + 1 <= n => f[k + 1] = g[k + 1]
            T == {k \in Nat : Same(k)}
<1>5. Same(0)
  <2>1. 1 \in 1..n /\ 0 + 1 = 1
    OBVIOUS
  <2>2. f[1] = seqs[1]
    BY <1>4, <2>1
  <2>3. QED
    BY <2>1, <2>2
<1>6. ASSUME NEW k \in Nat, Same(k)
      PROVE  Same(k + 1)
  <2>. SUFFICES ASSUME (k + 1) + 1 <= n
                PROVE  f[(k + 1) + 1] = g[(k + 1) + 1]
    OBVIOUS
  <2>1. PICK m \in 1..n : m = (k + 1) + 1 /\ m - 1 = k + 1 /\ m # 1
    OBVIOUS
  <2>2. f[m - 1] = g[m - 1]
    BY <1>6, <2>1
  <2>3. f[m] = f[m - 1] \o seqs[m] /\ g[m] = g[m - 1] \o seqs[m]
    BY <1>4, <2>1
  <2>4. QED
    BY <2>1, <2>2, <2>3
<1>7. Nat \subseteq T
  <2>1. 0 \in T /\ \A k \in Nat : k \in T => k + 1 \in T
    <3>. HIDE DEF Same
    <3>1. QED
      BY <1>5, <1>6
  <2>. HIDE DEF T
  <2>2. QED
    BY <2>1, NatSetInduction
<1>8. f[n] = g[n]
  <2>1. n - 1 \in Nat /\ (n - 1) + 1 = n
    OBVIOUS
  <2>2. Same(n - 1)
    <3>. HIDE DEF Same
    <3>1. QED
      BY <1>7, <2>1
  <2>3. QED
    BY <2>1, <2>2
<1>9. QED
  BY <1>2, <1>8, FlatIs

(***************************************************************************)
(* A file's content: byte r of its block q is the one after q blocks and r. *)
(***************************************************************************)
BytesOf(f) == {Byte(f.blocks[i], k) : i \in Nat, k \in 0..(BLOCK_SIZE - 1)}
BytesIn(f, S) == \A i \in Nat, k \in 0..(BLOCK_SIZE - 1) : Byte(f.blocks[i], k) \in S
HoldsBytes(C, f, q) ==
  \A r \in 0..(BLOCK_SIZE - 1), k \in 1..f.size :
    k = q * BLOCK_SIZE + r + 1 => C[k] = Byte(f.blocks[q], r)

LEMMA ContentIs ==
  ASSUME NEW f, f.size \in Nat, NEW S, NEW C, C = Content(f), BytesIn(f, S)
  PROVE  /\ C \in Seq(S) /\ Len(C) = f.size
         /\ \A q \in Nat : HoldsBytes(C, f, q)
<1>. USE DEF BytesIn
<1>. DEFINE at(k) == Byte(f.blocks[(k - 1) \div BLOCK_SIZE], (k - 1) % BLOCK_SIZE)
<1>1. PICK n \in Nat : n = f.size
  OBVIOUS
<1>2. C = [k \in 1..n |-> at(k)]
  BY <1>1 DEF Content
<1>3. PICK b \in Nat \ {0} : b = BLOCK_SIZE
  BY DiskAssumption
<1>4. ASSUME NEW k \in 1..n
      PROVE  at(k) \in S
  <2>1. PICK x \in Nat : x = k - 1
    OBVIOUS
  <2>2. PICK q \in Nat, r \in 0..(b - 1) : x \div b = q /\ x % b = r
    BY DivMod
  <2>3. at(k) = Byte(f.blocks[q], r)
    BY <1>3, <2>1, <2>2, Zenon
  <2>4. QED
    BY <1>3, <2>3
<1>5. ASSUME NEW q \in Nat, NEW r \in 0..(b - 1), NEW k \in 1..n, k = q * b + r + 1
      PROVE  at(k) = Byte(f.blocks[q], r)
  <2>1. PICK x \in Nat : x = k - 1
    OBVIOUS
  <2>2. q * b \in Nat
    OBVIOUS
  <2>3. x = q * b + r
    BY <1>5, <2>1, <2>2
  <2>4. x \div b = q /\ x % b = r
    BY <2>3, DivIs
  <2>5. QED
    BY <1>3, <2>1, <2>4, Zenon
<1>. HIDE DEF at
<1>6. C \in Seq(S)
  BY <1>2, <1>4, IsASeq
<1>7. DOMAIN C = 1..n
  BY <1>2
<1>8. Len(C) = n
  BY <1>6, <1>7, LenProperties
<1>9. \A k \in 1..n : C[k] = at(k)
  BY <1>2
<1>10. \A q \in Nat, r \in 0..(BLOCK_SIZE - 1), k \in 1..f.size :
         k = q * BLOCK_SIZE + r + 1 => C[k] = Byte(f.blocks[q], r)
  BY <1>1, <1>3, <1>5, <1>9
<1>11. QED
  BY <1>1, <1>6, <1>8, <1>10 DEF HoldsBytes

(***************************************************************************)
(* A part of one block is a part of the content.                           *)
(***************************************************************************)
CopiedFrom(P, C, x, n) == \A k \in 1..n : P[k] = C[x + k]

LEMMA CutOf ==
  ASSUME NEW S, NEW C \in Seq(S), NEW x \in Nat, NEW a \in Nat, NEW z \in Nat, a <= z,
         x + z <= Len(C), NEW P, NEW n \in Nat, n = z - a, P \in Seq(S), Len(P) = n,
         CopiedFrom(P, C, x + a, n)
  PROVE  P = SubSeq(C, x + a + 1, x + z)
<1>1. PICK m \in Nat : m = x + a + 1
  OBVIOUS
<1>2. PICK e \in Nat : e = x + z
  OBVIOUS
<1>3. \A i \in m..e : C[i] \in S
  <2>1. \A i \in m..e : i \in 1..Len(C)
    BY <1>1, <1>2, LenProperties
  <2>2. QED
    BY <2>1, ElementOfSeq
<1>4. /\ SubSeq(C, m, e) \in Seq(S)
      /\ Len(SubSeq(C, m, e)) = IF m <= e THEN e - m + 1 ELSE 0
      /\ \A i \in 1..(e - m + 1) : SubSeq(C, m, e)[i] = C[m + i - 1]
  BY <1>3, SubSeqProperties
<1>5. e - m + 1 = n
  BY <1>1, <1>2
<1>6. Len(SubSeq(C, m, e)) = n
  BY <1>4, <1>5
<1>7. \A i \in 1..n : SubSeq(C, m, e)[i] = P[i]
  <2>. SUFFICES ASSUME NEW i \in 1..n
                PROVE  SubSeq(C, m, e)[i] = P[i]
    OBVIOUS
  <2>1. m + i - 1 = x + a + i
    BY <1>1
  <2>2. SubSeq(C, m, e)[i] = C[m + i - 1]
    BY <1>4, <1>5
  <2>3. P[i] = C[x + a + i]
    BY DEF CopiedFrom
  <2>4. QED
    BY <2>1, <2>2, <2>3, Zenon
<1>8. SubSeq(C, m, e) = P
  BY <1>4, <1>6, <1>7, SeqEqual
<1>9. QED
  BY <1>1, <1>2, <1>8, Zenon

Part(f, q, a, z) == [k \in 1..(z - a) |-> Byte(f.blocks[q], a + k - 1)]

LEMMA PieceIs ==
  ASSUME NEW f, f.size \in Nat, NEW S, NEW C, C = Content(f), BytesIn(f, S),
         NEW q \in Nat, NEW a \in Nat, NEW z \in Nat, a <= z, z <= BLOCK_SIZE,
         q * BLOCK_SIZE + z <= f.size
  PROVE  Part(f, q, a, z) = SubSeq(C, q * BLOCK_SIZE + a + 1, q * BLOCK_SIZE + z)
<1>1. PICK b \in Nat \ {0} : b = BLOCK_SIZE
  BY DiskAssumption
<1>0. PICK P : P = Part(f, q, a, z)
  OBVIOUS
<1>2. PICK x \in Nat : x = q * b
  OBVIOUS
<1>3. PICK n \in Nat : n = z - a
  OBVIOUS
<1>4. C \in Seq(S) /\ Len(C) = f.size /\ HoldsBytes(C, f, q)
  BY ContentIs
<1>. DEFINE at(k) == Byte(f.blocks[q], a + k - 1)
<1>5. P = [k \in 1..n |-> at(k)]
  BY <1>0, <1>3 DEF Part
<1>6. ASSUME NEW k \in 1..n
      PROVE  at(k) \in S /\ C[x + a + k] = at(k)
  <2>1. PICK r \in 0..(b - 1) : r = a + k - 1
    BY <1>1, <1>3
  <2>2. PICK m \in 1..f.size : m = x + a + k
    <3>1. x + z <= f.size
      BY <1>1, <1>2
    <3>2. x + a + k \in 1..f.size
      BY <1>3, <3>1
    <3>3. QED
      BY <3>2
  <2>3. m = q * BLOCK_SIZE + r + 1
    BY <1>1, <1>2, <2>1, <2>2
  <2>4. at(k) = Byte(f.blocks[q], r)
    BY <2>1, Zenon
  <2>5. at(k) \in S
    BY <1>1, <2>4 DEF BytesIn
  <2>6. C[m] = at(k)
    BY <1>1, <1>4, <2>3, <2>4 DEF HoldsBytes
  <2>7. QED
    BY <2>2, <2>5, <2>6, Zenon
<1>. HIDE DEF at
<1>7. P \in Seq(S)
  <2>1. \A k \in 1..n : at(k) \in S
    BY <1>6
  <2>2. [k \in 1..n |-> at(k)] \in Seq(S)
    BY <2>1, IsASeq
  <2>3. QED
    BY <1>5, <2>2
<1>8. DOMAIN P = 1..n
  BY <1>5
<1>9. Len(P) = n
  BY <1>7, <1>8, LenProperties
<1>10. CopiedFrom(P, C, x + a, n)
  BY <1>5, <1>6 DEF CopiedFrom
<1>11. x + z <= Len(C)
  BY <1>1, <1>2, <1>4
<1>12. P = SubSeq(C, x + a + 1, x + z)
  BY <1>3, <1>4, <1>7, <1>9, <1>10, <1>11, CutOf
<1>13. QED
  BY <1>0, <1>1, <1>2, <1>12, Zenon

(***************************************************************************)
(* Where the piece of block q begins and ends, for the first block, the last *)
(* one and those between.                                                  *)
(***************************************************************************)
LEMMA Times ==
  ASSUME NEW b \in Nat, NEW p \in Nat, NEW q \in Nat
  PROVE  /\ p * b \in Nat /\ (p + 1) * b = p * b + b
         /\ p <= q => p * b <= q * b
<1>1. p * b \in Nat /\ (p + 1) * b = p * b + b
  OBVIOUS
<1>2. ASSUME p <= q
      PROVE  p * b <= q * b
  <2>1. PICK d \in Nat : q = p + d
    BY <1>2
  <2>2. q * b = p * b + d * b
    BY <2>1
  <2>3. d * b \in Nat
    OBVIOUS
  <2>4. QED
    BY <1>1, <2>2, <2>3
<1>3. QED
  BY <1>1, <1>2

LEMMA Edges ==
  ASSUME NEW b \in Nat \ {0}, NEW first \in Nat, NEW last \in Nat, NEW q \in Nat,
         first <= q, q <= last,
         NEW r \in 0..(b - 1), NEW s \in 0..(b - 1), NEW off \in Nat, NEW end \in Nat,
         off = first * b + r, end = last * b + s, off <= end,
         NEW a, a = IF q = first THEN r ELSE 0, NEW z, z = IF q = last THEN s ELSE b
  PROVE  /\ a \in Nat /\ z \in Nat /\ a <= z /\ z <= b
         /\ off <= q * b + z /\ q * b + z <= end
         /\ q * b + a = (IF q = first THEN off ELSE q * b)
         /\ q * b + z = (IF q = last THEN end ELSE (q + 1) * b)
<1>1. PICK x \in Nat, y \in Nat, w \in Nat : x = first * b /\ y = last * b /\ w = q * b
  BY Times
<1>2. x <= w /\ w <= y /\ (q + 1) * b = w + b
  BY <1>1, Times
<1>3. q # last => w + b <= y
  <2>1. q # last => q + 1 <= last
    OBVIOUS
  <2>2. q + 1 <= last => (q + 1) * b <= last * b
    BY Times
  <2>3. QED
    BY <1>1, <1>2, <2>1, <2>2
<1>4. (q = first => w = x) /\ (q = last => w = y)
  BY <1>1
<1>5. off = x + r /\ end = y + s
  BY <1>1
<1>6. QED
  <2>. SUFFICES /\ a \in Nat /\ z \in Nat /\ a <= z /\ z <= b
                /\ off <= w + z /\ w + z <= end
                /\ w + a = (IF q = first THEN off ELSE w)
                /\ w + z = (IF q = last THEN end ELSE w + b)
    BY <1>1, <1>2
  <2>1. CASE q = first /\ q = last
    BY <2>1, <1>2, <1>4, <1>5
  <2>2. CASE q = first /\ q # last
    BY <2>2, <1>2, <1>3, <1>4, <1>5
  <2>3. CASE q # first /\ q = last
    <3>1. first + 1 <= q
      BY <2>3
    <3>2. (first + 1) * b <= q * b
      BY <3>1, Times
    <3>3. x + b <= w
      BY <1>1, <3>2, Times
    <3>4. QED
      BY <2>3, <3>3, <1>2, <1>4, <1>5
  <2>4. CASE q # first /\ q # last
    BY <2>4, <1>2, <1>3, <1>5
  <2>5. QED
    BY <2>1, <2>2, <2>3, <2>4

(***************************************************************************)
(* One turn of read_data's loop, then all of them.                         *)
(***************************************************************************)
Lo(q, first, off) == IF q = first THEN off ELSE q * BLOCK_SIZE
Hi(q, last, end) == IF q = last THEN end ELSE (q + 1) * BLOCK_SIZE

LEMMA PieceCut ==
  ASSUME NEW f, f.size \in Nat, NEW S, NEW C, C = Content(f), BytesIn(f, S),
         NEW first \in Nat, NEW last \in Nat, NEW q \in Nat, first <= q, q <= last,
         NEW off \in Nat, NEW end \in Nat, off <= end, end <= f.size,
         off \div BLOCK_SIZE = first, end \div BLOCK_SIZE = last
  PROVE  Piece(f, q, off, end) = SubSeq(C, Lo(q, first, off) + 1, Hi(q, last, end))
<1>1. PICK b \in Nat \ {0} : b = BLOCK_SIZE
  BY DiskAssumption
<1>0. PICK r \in 0..(b - 1), s \in 0..(b - 1) : off = first * b + r /\ end = last * b + s
  <2>1. off \div b = first /\ end \div b = last
    BY <1>1
  <2>2. PICK r \in 0..(b - 1) : off = first * b + r
    <3>1. PICK p \in Nat, r \in 0..(b - 1) : off = p * b + r /\ off \div b = p
      BY DivMod
    <3>2. p = first
      BY <2>1, <3>1
    <3>3. QED
      BY <3>1, <3>2
  <2>3. PICK s \in 0..(b - 1) : end = last * b + s
    <3>1. PICK p \in Nat, s \in 0..(b - 1) : end = p * b + s /\ end \div b = p
      BY DivMod
    <3>2. p = last
      BY <2>1, <3>1
    <3>3. QED
      BY <3>1, <3>2
  <2>4. QED
    BY <2>2, <2>3
<1>. DEFINE a == IF q = first THEN r ELSE 0
            z == IF q = last THEN s ELSE b
<1>2. /\ a \in Nat /\ z \in Nat /\ a <= z /\ z <= b
      /\ off <= q * b + z /\ q * b + z <= end
      /\ q * b + a = (IF q = first THEN off ELSE q * b)
      /\ q * b + z = (IF q = last THEN end ELSE (q + 1) * b)
  BY <1>0, Edges
<1>3. q * b + z <= f.size
  BY <1>1, <1>2
<1>4. a = IF q = off \div BLOCK_SIZE THEN off - q * BLOCK_SIZE ELSE 0
  <2>1. PICK y \in Nat : y = first * b
    BY Times
  <2>2. q = first => q * BLOCK_SIZE = y
    BY <1>1, <2>1
  <2>3. off = y + r
    BY <1>0, <2>1
  <2>4. QED
    BY <2>2, <2>3
<1>5. z = IF q = end \div BLOCK_SIZE /\ (end \div BLOCK_SIZE + 1) * BLOCK_SIZE # end
          THEN end - q * BLOCK_SIZE ELSE BLOCK_SIZE
  <2>1. (last + 1) * b = last * b + b
    OBVIOUS
  <2>2. (last + 1) * b # end
    BY <1>0, <2>1, Times
  <2>3. (last + 1) * BLOCK_SIZE # end
    BY <1>1, <2>2
  <2>4. CASE q = last
    <3>0. PICK y \in Nat : y = last * b
      BY Times
    <3>1. end - q * BLOCK_SIZE = s
      BY <1>0, <1>1, <2>4, <3>0
    <3>2. QED
      BY <2>3, <2>4, <3>1
  <2>5. CASE q # last
    BY <1>1, <2>5
  <2>6. QED
    BY <2>4, <2>5
<1>6. Piece(f, q, off, end) = Part(f, q, a, z)
  <2>. HIDE DEF a, z
  <2>1. QED
    BY <1>4, <1>5 DEF Piece, Part
<1>7. Piece(f, q, off, end) = SubSeq(C, q * BLOCK_SIZE + a + 1, q * BLOCK_SIZE + z)
  <2>. HIDE DEF a, z
  <2>1. q * BLOCK_SIZE + z <= f.size /\ z <= BLOCK_SIZE
    BY <1>1, <1>2, <1>3, Zenon
  <2>2. a \in Nat /\ z \in Nat /\ a <= z
    BY <1>2
  <2>3. QED
    BY <1>6, <2>1, <2>2, PieceIs
<1>8. /\ q * BLOCK_SIZE + a = (IF q = first THEN off ELSE q * BLOCK_SIZE)
      /\ q * BLOCK_SIZE + z = (IF q = last THEN end ELSE (q + 1) * BLOCK_SIZE)
  <2>. HIDE DEF a, z
  <2>1. QED
    BY <1>1, <1>2
<1>9. QED
  <2>. HIDE DEF a, z
  <2>1. QED
    BY <1>7, <1>8, Zenon DEF Lo, Hi

LEMMA ReadDataIs ==
  ASSUME NEW f, f.size \in Nat, NEW off \in Nat, off < f.size, NEW length \in Nat
  PROVE  /\ End(f, off, length) \in off..f.size
         /\ ReadData(f, off, length) = SubSeq(Content(f), off + 1, End(f, off, length))
<1>. PICK C, S, end : C = Content(f) /\ S = BytesOf(f) /\ end = End(f, off, length)
  OBVIOUS
<1>0. BytesIn(f, S)
  BY DEF BytesIn, BytesOf
<1>1. PICK b \in Nat \ {0} : b = BLOCK_SIZE
  BY DiskAssumption
<1>2. end \in off..f.size /\ end \in Nat
  BY DEF End, Smaller
<1>3. PICK first \in Nat, r \in 0..(b - 1) : off = first * b + r /\ off \div b = first
  BY DivMod
<1>4. PICK last \in Nat, s \in 0..(b - 1) : end = last * b + s /\ end \div b = last
  BY <1>2, DivMod
<1>5. first <= last
  BY <1>2, <1>3, <1>4, DivMonotonic
<1>6. PICK n \in Nat \ {0} : n = last - first + 1
  BY <1>5
<1>. DEFINE piece(j) == Piece(f, first + j - 1, off, end)
            seqs == [j \in 1..n |-> piece(j)]
            lo(q) == Lo(q, first, off)
            hi(q) == Hi(q, last, end)
            g == [j \in 1..n |-> SubSeq(C, off + 1, hi(first + j - 1))]
<1>7. ReadData(f, off, length) = FlattenSeq(seqs)
  <2>1. end \div BLOCK_SIZE - off \div BLOCK_SIZE + 1 = n /\ off \div BLOCK_SIZE = first
    BY <1>1, <1>3, <1>4, <1>6
  <2>2. ~AtEnd(f, off, length)
    BY DEF AtEnd
  <2>3. QED
    BY <2>1, <2>2 DEF ReadData
<1>8. ASSUME NEW q \in Nat, first <= q, q <= last
      PROVE  Piece(f, q, off, end) = SubSeq(C, lo(q) + 1, hi(q))
  <2>1. off \div BLOCK_SIZE = first /\ end \div BLOCK_SIZE = last
    BY <1>1, <1>3, <1>4, Zenon
  <2>4. off <= end /\ end <= f.size
    BY <1>2
  <2>5. end \in Nat
    BY <1>2
  <2>6. QED
    BY <1>0, <1>8, <2>1, <2>4, <2>5, PieceCut
<1>9. ASSUME NEW q \in Nat, first <= q, q <= last
      PROVE  /\ hi(q) \in off..end
             /\ q # last => lo(q + 1) = hi(q)
             /\ q # first => lo(q) <= hi(q)
  <2>. DEFINE a == IF q = first THEN r ELSE 0
              z == IF q = last THEN s ELSE b
  <2>1. /\ a \in Nat /\ z \in Nat /\ a <= z /\ z <= b
        /\ off <= q * b + z /\ q * b + z <= end
        /\ q * b + a = (IF q = first THEN off ELSE q * b)
        /\ q * b + z = (IF q = last THEN end ELSE (q + 1) * b)
    BY <1>2, <1>3, <1>4, <1>9, Edges
  <2>2. q * b \in Nat
    BY Times
  <2>. HIDE DEF a, z
  <2>3. hi(q) = q * b + z
    BY <1>1, <2>1 DEF Hi
  <2>4. lo(q) = q * b + a
    BY <1>1, <2>1 DEF Lo
  <2>5. q # last => lo(q + 1) = hi(q)
    <3>1. q + 1 # first
      BY <1>9
    <3>2. QED
      BY <3>1 DEF Lo, Hi
  <2>. HIDE DEF lo, hi
  <2>6. QED
    BY <1>2, <2>1, <2>2, <2>3, <2>4, <2>5
<1>. HIDE DEF lo, hi
<1>10. C \in Seq(S) /\ Len(C) = f.size
  BY <1>0, ContentIs
<1>11. g[1] = seqs[1]
  <2>1. 1 \in 1..n /\ first + 1 - 1 = first
    BY <1>6
  <2>2. lo(first) = off
    BY DEF lo, Lo
  <2>3. Piece(f, first, off, end) = SubSeq(C, off + 1, hi(first))
    BY <1>5, <1>8, <2>2
  <2>4. seqs[1] = Piece(f, first + 1 - 1, off, end)
    BY <2>1
  <2>5. g[1] = SubSeq(C, off + 1, hi(first + 1 - 1))
    BY <2>1
  <2>6. QED
    BY <2>1, <2>3, <2>4, <2>5, Zenon
<1>12. ASSUME NEW i \in 1..n, i # 1
       PROVE  g[i] = g[i - 1] \o seqs[i]
  <2>1. PICK q \in Nat : q = first + i - 1
    OBVIOUS
  <2>2. PICK p \in Nat : p = q - 1
    BY <1>12, <2>1
  <2>3. PICK m \in 1..n : m = i - 1
    BY <1>12
  <2>4. first + m - 1 = p /\ p + 1 = q /\ first <= p /\ p <= last /\ p # last
        /\ first <= q /\ q <= last /\ q # first
    BY <1>6, <1>12, <2>1, <2>2, <2>3
  <2>5. g[i] = SubSeq(C, off + 1, hi(q))
    BY <2>1
  <2>6. g[m] = SubSeq(C, off + 1, hi(p))
    BY <2>4
  <2>7. lo(p + 1) = hi(p)
    BY <1>9, <2>4
  <2>8. lo(q) = hi(p) /\ lo(q) <= hi(q) /\ hi(p) \in off..end /\ hi(q) \in off..end
    BY <1>9, <2>4, <2>7
  <2>9. PICK u \in off..end, w \in off..end : u = hi(p) /\ w = hi(q) /\ u <= w
    BY <2>8
  <2>10. seqs[i] = SubSeq(C, u + 1, w)
    <3>1. seqs[i] = Piece(f, q, off, end)
      BY <2>1
    <3>2. Piece(f, q, off, end) = SubSeq(C, lo(q) + 1, hi(q))
      BY <1>8, <2>4
    <3>3. QED
      BY <2>8, <2>9, <3>1, <3>2, Zenon
  <2>11. SubSeq(C, off + 1, u) \o SubSeq(C, u + 1, w) = SubSeq(C, off + 1, w)
    <3>1. off + 1 \in 1..(Len(C) + 1)
      BY <1>10
    <3>2. u \in (off + 1 - 1)..Len(C) /\ w \in u..Len(C)
      BY <1>2, <1>10, <2>9
    <3>3. QED
      BY <1>10, <3>1, <3>2, ConcatAdjacentSubSeq
  <2>. HIDE DEF g, seqs
  <2>12. QED
    BY <2>3, <2>5, <2>6, <2>9, <2>10, <2>11, Zenon
<1>13. Len(seqs) = n
  <2>1. seqs \in Seq({piece(j) : j \in 1..n})
    <3>1. PICK T : T = {piece(j) : j \in 1..n}
      OBVIOUS
    <3>2. \A j \in 1..n : piece(j) \in T
      BY <3>1
    <3>. HIDE DEF piece
    <3>3. [j \in 1..n |-> piece(j)] \in Seq(T)
      BY <3>2, IsASeq
    <3>4. QED
      BY <3>1, <3>3
  <2>2. DOMAIN seqs = 1..n
    OBVIOUS
  <2>. HIDE DEF seqs
  <2>3. QED
    BY <2>1, <2>2, LenProperties
<1>14. g[n] = SubSeq(C, off + 1, end)
  <2>1. first + n - 1 = last /\ n \in 1..n
    BY <1>6
  <2>2. hi(last) = end
    BY DEF hi, Hi
  <2>3. g[n] = SubSeq(C, off + 1, hi(first + n - 1))
    BY <2>1
  <2>4. QED
    BY <2>1, <2>2, <2>3, Zenon
<1>. HIDE DEF g, seqs
<1>15. FlattenSeq(seqs) = g[n]
  BY <1>11, <1>12, <1>13, FlattenIs, ZenonT(90)
<1>16. QED
  BY <1>2, <1>7, <1>14, <1>15

(***************************************************************************)
(* A read goes on where the one before it ended.                           *)
(***************************************************************************)
LEMMA ReadOn ==
  ASSUME NEW f, f.size \in Nat, NEW pos \in 0..f.size, NEW n \in Nat,
         NEW data, data = ReadData(f, pos, n), Len(data) > 0,
         NEW C, C = Content(f)
  PROVE  /\ pos + Len(data) \in 0..f.size
         /\ SubSeq(C, 1, pos) \o data = SubSeq(C, 1, pos + Len(data))
<1>1. ~AtEnd(f, pos, n)
  <2>1. AtEnd(f, pos, n) => data = <<>>
    BY DEF ReadData
  <2>2. QED
    BY <2>1, EmptySeq
<1>2. pos < f.size
  BY <1>1 DEF AtEnd
<1>3. PICK S : S = BytesOf(f)
  OBVIOUS
<1>4. BytesIn(f, S)
  BY <1>3 DEF BytesIn, BytesOf
<1>5. C \in Seq(S) /\ Len(C) = f.size
  BY <1>4, ContentIs
<1>6. PICK end : end = End(f, pos, n)
  OBVIOUS
<1>7. end \in pos..f.size /\ data = SubSeq(C, pos + 1, end)
  <2>1. pos \in Nat
    OBVIOUS
  <2>2. QED
    BY <1>2, <1>6, <2>1, ReadDataIs
<1>8. \A i \in (pos + 1)..end : C[i] \in S
  <2>1. \A i \in (pos + 1)..end : i \in 1..Len(C)
    BY <1>5, <1>7
  <2>2. QED
    BY <1>5, <2>1, ElementOfSeq
<1>9. pos + Len(data) = end
  <2>1. PICK m \in Int, e \in Int : m = pos + 1 /\ e = end
    BY <1>7
  <2>2. Len(SubSeq(C, m, e)) = IF m <= e THEN e - m + 1 ELSE 0
    BY <1>8, <2>1, SubSeqProperties
  <2>3. data = SubSeq(C, m, e)
    BY <1>7, <2>1, Zenon
  <2>4. QED
    BY <1>7, <2>1, <2>2, <2>3
<1>10. SubSeq(C, 1, pos) \o SubSeq(C, pos + 1, end) = SubSeq(C, 1, end)
  <2>1. 1 \in 1..(Len(C) + 1) /\ pos \in (1 - 1)..Len(C) /\ end \in pos..Len(C)
    BY <1>5, <1>7
  <2>2. QED
    BY <1>5, <2>1, ConcatAdjacentSubSeq
<1>11. QED
  BY <1>7, <1>9, <1>10

-----------------------------------------------------------------------------

(***************************************************************************)
(* A name takes a number of words, and mycopy copies them all.             *)
(***************************************************************************)
LEMMA WholeWords == Word * (FILE_NAME \div Word) = FILE_NAME
BY FilesAssumption, DiskAssumption

LEMMA NameCopied ==
  ASSUME NEW i, NEW k \in 0..(FILE_NAME - 1)
  PROVE  Entry(i, FILE_NAME).buf[k] = Stored(dir[i].name)[k]
<1>. DEFINE src == Stored(dir[i].name)
<1>1. k \in DOMAIN Untouched /\ k < Word * (FILE_NAME \div Word)
  <2>1. FILE_NAME * Word \in Nat
    BY FilesAssumption, DiskAssumption
  <2>2. QED
    BY <2>1, WholeWords, DiskAssumption DEF Untouched
<1>2. MyCopy(Untouched, src, FILE_NAME)[k] = src[k]
  <2>. HIDE DEF src
  <2>1. QED
    BY <1>1 DEF MyCopy
<1>3. QED
  BY <1>2 DEF Entry

LEMMA LeastIs ==
  ASSUME NEW S, S \subseteq Nat, S # {}, NEW none
  PROVE  FirstOf(S, none) \in S /\ \A k \in S : FirstOf(S, none) <= k
<1>1. \E m \in S : \A k \in S : m <= k
  <2>1. PICK m \in S : \A k \in S : ~ (<<k, m>> \in OpToRel(<, Nat))
    BY NatLessThanWellFounded, WFMin
  <2>2. \A k \in S : m <= k
    <3>. SUFFICES ASSUME NEW k \in S, ~(m <= k)
                  PROVE  FALSE
      OBVIOUS
    <3>1. k \in Nat /\ m \in Nat /\ k < m
      OBVIOUS
    <3>2. <<k, m>> \in OpToRel(<, Nat)
      BY <3>1 DEF OpToRel
    <3>3. QED
      BY <2>1, <3>2
  <2>3. QED
    BY <2>2
<1>2. QED
  BY <1>1 DEF FirstOf

(***************************************************************************)
(* Any disk is as DiskInv says.                                            *)
(***************************************************************************)
LEMMA DiskMade ==
  ASSUME FilesInit
  PROVE  DiskInv
<1>1. PICK used \in SUBSET Names : Cardinality(used) < MAX_FILES /\
        \E order \in SetToSeqs(used), type \in [used -> {"file", "rtc"}] :
          dir = << [name |-> Root, type |-> "dir", inode |-> 0] >> \o
                [i \in 1..Len(order) |->
                   [name |-> order[i], type |-> type[order[i]], inode |-> i]]
  BY DEF FilesInit
<1>2. PICK order \in SetToSeqs(used), type \in [used -> {"file", "rtc"}] :
        dir = << [name |-> Root, type |-> "dir", inode |-> 0] >> \o
              [i \in 1..Len(order) |->
                 [name |-> order[i], type |-> type[order[i]], inode |-> i]]
  BY <1>1
<1>. DEFINE root == [name |-> Root, type |-> "dir", inode |-> 0]
            entry(i) == [name |-> order[i], type |-> type[order[i]], inode |-> i]
<1>3. PICK c \in Nat : c = Cardinality(used)
  BY NamesAssumption, FS_Subset, FS_CardinalityType
<1>4. /\ order \in [1..c -> used]
      /\ \A i, k \in 1..c : order[i] = order[k] => i = k
  BY <1>3 DEF SetToSeqs
<1>5. Len(order) = c
  <2>1. order \in Seq(used)
    BY <1>4
  <2>2. DOMAIN order = 1..c
    BY <1>4
  <2>3. QED
    BY <2>1, <2>2, LenProperties
<1>. DEFINE rest == [i \in 1..c |-> entry(i)]
<1>6. dir = <<root>> \o rest
  BY <1>2, <1>5
<1>7. PICK E : E = {entry(i) : i \in 1..c} \cup {root}
  OBVIOUS
<1>8. rest \in Seq(E) /\ Len(rest) = c /\ \A i \in 1..c : rest[i] = entry(i)
  <2>1. \A i \in 1..c : entry(i) \in E
    BY <1>7
  <2>2. \A i \in 1..c : rest[i] = entry(i)
    OBVIOUS
  <2>3. DOMAIN rest = 1..c
    OBVIOUS
  <2>. HIDE DEF entry
  <2>4. rest \in Seq(E)
    BY <2>1, IsASeq
  <2>. HIDE DEF rest
  <2>5. Len(rest) = c
    BY <2>3, <2>4, LenProperties
  <2>6. QED
    BY <2>2, <2>4, <2>5
<1>9. /\ Len(dir) = c + 1 /\ dir[1] = root
      /\ \A i \in 2..(c + 1) : dir[i] = entry(i - 1)
  <2>. HIDE DEF rest, root, entry
  <2>1. <<root>> \in Seq(E) /\ Len(<<root>>) = 1 /\ <<root>>[1] = root
    BY <1>7
  <2>2. /\ Len(dir) = 1 + c
        /\ \A i \in 1..(1 + c) : dir[i] = IF i <= 1 THEN <<root>>[i] ELSE rest[i - 1]
    BY <1>6, <1>8, <2>1, ConcatProperties
  <2>3. dir[1] = root
    BY <2>1, <2>2
  <2>4. ASSUME NEW i \in 2..(c + 1)
        PROVE  dir[i] = entry(i - 1)
    <3>1. i \in 1..(1 + c) /\ ~(i <= 1) /\ i - 1 \in 1..c
      OBVIOUS
    <3>2. dir[i] = rest[i - 1]
      BY <2>2, <3>1
    <3>3. QED
      BY <1>8, <3>1, <3>2
  <2>5. QED
    BY <2>2, <2>3, <2>4
<1>. HIDE DEF rest
<1>10. /\ dir[1].type = "dir" /\ dir[1].name = Root
       /\ \A i \in 2..(c + 1) :
            /\ dir[i].name = order[i - 1] /\ dir[i].inode = i - 1 /\ i - 1 \in 1..c
            /\ dir[i].type \in {"file", "rtc"}
  <2>1. dir[1].type = "dir" /\ dir[1].name = Root
    BY <1>9
  <2>2. ASSUME NEW i \in 2..(c + 1)
        PROVE  /\ dir[i].name = order[i - 1] /\ dir[i].inode = i - 1 /\ i - 1 \in 1..c
               /\ dir[i].type \in {"file", "rtc"}
    <3>1. PICK m \in 1..c : m = i - 1
      OBVIOUS
    <3>2. dir[i] = entry(m)
      BY <1>9, <3>1, Zenon
    <3>3. dir[i].name = order[m] /\ dir[i].inode = m
      BY <3>2
    <3>4. dir[i].type = type[order[m]] /\ order[m] \in used
      BY <1>4, <3>2
    <3>5. QED
      BY <3>1, <3>3, <3>4
  <2>3. QED
    BY <2>1, <2>2
<1>. HIDE DEF root, entry
<1>11. \A i \in 2..(c + 1) : dir[i].name \in Names
  BY <1>4, <1>10
<1>12. ASSUME NEW i \in 2..(c + 1)
       PROVE  inodes[dir[i].inode].size \in Nat
  <2>1. PICK spread \in BOOLEAN, size \in [1..(Len(dir) - 1) -> Sizes] :
       inodes = [k \in 1..(Len(dir) - 1) |->
         [size |-> size[k],
          blocks |-> [n \in 0..(PerFile - 1) |->
            IF spread THEN n * Len(dir) + k ELSE k * PerFile + (PerFile - n)]]]
    BY DEF FilesInit
  <2>2. dir[i].inode \in 1..(Len(dir) - 1)
    BY <1>9, <1>10
  <2>3. inodes[dir[i].inode].size = size[dir[i].inode]
    BY <2>1, <2>2
  <2>4. QED
    BY <2>2, <2>3, FilesAssumption
<1>13. ASSUME NEW i \in 2..(c + 1), NEW k \in 2..(c + 1), dir[i].name = dir[k].name
       PROVE  i = k
  <2>1. order[i - 1] = order[k - 1] /\ i - 1 \in 1..c /\ k - 1 \in 1..c
    BY <1>10, <1>13
  <2>2. i - 1 = k - 1
    BY <1>4, <2>1
  <2>3. QED
    BY <2>2
<1>14. Len(dir) \in 1..MAX_FILES
  BY <1>1, <1>3, <1>9, FilesAssumption
<1>15. QED
  BY <1>9, <1>14, <1>10, <1>11, <1>12, <1>13 DEF DiskInv

LEMMA NameIsSeq ==
  ASSUME DiskInv, NEW i \in 1..Len(dir)
  PROVE  dir[i].name \in Seq(Range(dir[i].name)) /\ Len(dir) \in Nat
<1>1. CASE i = 1
  <2>1. Root \in Seq({"."}) /\ Range(Root) = {"."}
    BY DEF Root, Range
  <2>2. QED
    BY <1>1, <2>1 DEF DiskInv
<1>2. CASE i # 1
  BY <1>2, NamesAssumption DEF DiskInv
<1>3. QED
  BY <1>1, <1>2

(***************************************************************************)
(* What read_dentry_by_name finds is the file with the name that is asked  *)
(* for, and no other entry has it.                                         *)
(***************************************************************************)
LEMMA MatchesIs ==
  ASSUME NEW asks, NEW held, held \in Seq(Range(held)), Matches(asks, held)
  PROVE  SubSeq(asks, 1, LengthOf(asks)) = held
<1>1. PICK n \in Nat : n = Len(held)
  BY LenProperties
<1>2. PICK s : s = SubSeq(asks, 1, n)
  OBVIOUS
<1>3. LengthOf(asks) = n
  BY <1>1 DEF Matches
<1>4. Len(s) = n
  <2>1. PICK S : S = {asks[i] : i \in 1..n}
    OBVIOUS
  <2>2. \A i \in 1..n : asks[i] \in S
    BY <2>1
  <2>3. Len(SubSeq(asks, 1, n)) = IF 1 <= n THEN n - 1 + 1 ELSE 0
    BY <2>2, SubSeqProperties
  <2>4. QED
    BY <1>2, <2>3
<1>5. IsPrefix(s, held)
  BY <1>2, <1>3 DEF Matches
<1>6. s = SubSeq(s, 1, n) /\ SubSeq(s, 1, n) = SubSeq(held, 1, n)
  <2>1. SubSeq(s, 1, n) = SubSeq(held, 1, n)
    BY <1>4, <1>5 DEF IsPrefix
  <2>2. s \in Seq({asks[i] : i \in 1..n})
    <3>1. PICK S : S = {asks[i] : i \in 1..n}
      OBVIOUS
    <3>2. \A i \in 1..n : asks[i] \in S
      BY <3>1
    <3>3. SubSeq(asks, 1, n) \in Seq(S)
      BY <3>2, SubSeqProperties
    <3>4. QED
      BY <1>2, <3>1, <3>3
  <2>3. SubSeq(s, 1, n) = s
    BY <1>4, <2>2, SubSeqFull
  <2>4. QED
    BY <2>1, <2>3
<1>7. SubSeq(held, 1, n) = held
  BY <1>1, SubSeqFull
<1>8. QED
  BY <1>2, <1>3, <1>6, <1>7

LEMMA FoundIs ==
  ASSUME NEW asks, NEW i, i = DentryByName(asks), i # 0
  PROVE  /\ i \in 1..Len(dir) /\ Matches(asks, dir[i].name)
         /\ \A k \in 1..Len(dir) : Matches(asks, dir[k].name) => i <= k
<1>. DEFINE M == {k \in 1..Len(dir) : Matches(asks, dir[k].name)}
<1>1. i = FirstOf(M, 0)
  BY DEF DentryByName
<1>2. M # {}
  BY <1>1 DEF FirstOf
<1>3. M \subseteq Nat
  OBVIOUS
<1>4. i \in M /\ \A k \in M : i <= k
  <2>. HIDE DEF M
  <2>1. QED
    BY <1>1, <1>2, <1>3, LeastIs, ZenonT(30)
<1>5. QED
  BY <1>4

LEMMA NamedIs ==
  ASSUME DiskInv, NEW asks, NEW i, i = DentryByName(asks), i # 0, dir[i].type # "dir"
  PROVE  i \in 2..Len(dir) /\ Named(asks) = i
<1>1. /\ i \in 1..Len(dir) /\ Matches(asks, dir[i].name)
      /\ \A k \in 1..Len(dir) : Matches(asks, dir[k].name) => i <= k
  BY FoundIs
<1>2. i # 1 /\ Len(dir) \in Nat
  BY DEF DiskInv
<1>3. i \in 2..Len(dir)
  BY <1>1, <1>2
<1>4. PICK held : held = SubSeq(asks, 1, LengthOf(asks))
  OBVIOUS
<1>5. dir[i].name = held
  BY <1>1, <1>4, NameIsSeq, MatchesIs
<1>6. ASSUME NEW k \in 1..Len(dir), dir[k].name = held
      PROVE  k = i
  <2>1. Matches(asks, dir[k].name)
    BY <1>1, <1>5, <1>6
  <2>2. i <= k
    BY <1>1, <2>1
  <2>3. k \in 2..Len(dir)
    BY <1>2, <1>3, <2>2
  <2>4. dir[i].name = dir[k].name
    BY <1>5, <1>6
  <2>5. QED
    BY <1>3, <2>3, <2>4 DEF DiskInv
<1>7. \A k \in 1..Len(dir) : dir[k].name = held <=> k = i
  BY <1>1, <1>5, <1>6
<1>8. Named(asks) = CHOOSE k \in 1..Len(dir) : dir[k].name = held
  BY <1>4 DEF Named
<1>9. QED
  BY <1>1, <1>3, <1>7, <1>8

-----------------------------------------------------------------------------

(***************************************************************************)
(* The calls.                                                              *)
(***************************************************************************)
LEMMA OthersKept ==
  ASSUME NEW e, Kept(e), UNCHANGED disk,
         farray'[e] = farray[e], asked'[e] = asked[e], log'[e] = log[e]
  PROVE  Kept(e)'
<1>1. (IsOpen(e, "dir") => EntriesDelivered(e))'
  BY DEF Kept, IsOpen, EntriesDelivered, Entries, Entry, Stored, disk
<1>2. (IsOpen(e, "file") => BytesDelivered(e))'
  BY DEF Kept, IsOpen, BytesDelivered, Named, disk
<1>3. QED
  BY <1>1, <1>2 DEF Kept, IsRecord

LEMMA DiskStays ==
  ASSUME DiskInv, UNCHANGED disk
  PROVE  DiskInv'
BY DEF DiskInv, disk

LEMMA CallsSame ==
  ASSUME FilesInv, UNCHANGED <<disk, farray, asked, log>>, chunk' \in Int
  PROVE  FilesInv'
BY OthersKept, DiskStays DEF FilesInv

LEMMA OpenKeeps ==
  ASSUME FilesInv, NEW asks, Open(asks), chunk' \in Int
  PROVE  FilesInv'
<1>1. UNCHANGED disk
  BY DEF Open
<1>2. CASE RefusesOpen(asks)
  BY <1>1, <1>2, CallsSame DEF Open
<1>3. CASE ~RefusesOpen(asks)
  <2>. DEFINE entry == dir[DentryByName(asks)]
              d == OpenResult(asks)
              new == [flags |-> "open", type |-> entry.type, inode |-> entry.inode, file_pos |-> 0]
  <2>1. /\ farray' = [farray EXCEPT ![d] = new] /\ log' = [log EXCEPT ![d] = <<>>]
        /\ asked' = [asked EXCEPT ![d] = asks]
    BY <1>3 DEF Open
  <2>2. IsRecord(new) /\ new.file_pos = 0
        /\ new.type = entry.type /\ new.inode = entry.inode
    BY DEF IsRecord
  <2>. HIDE DEF d, new
  <2>3. DOMAIN farray' = Fds /\ DOMAIN log' = Fds /\ DOMAIN asked' = Fds
    BY <2>1 DEF FilesInv
  <2>4. ASSUME NEW e \in Fds
        PROVE  Kept(e)'
    <3>1. CASE e # d
      BY <1>1, <2>1, <3>1, OthersKept DEF FilesInv
    <3>2. CASE e = d
      <4>1. farray'[e] = new /\ log'[e] = <<>> /\ asked'[e] = asks
        BY <2>1, <3>2 DEF FilesInv
      <4>2. EntriesDelivered(e)'
        BY <1>1, <2>2, <4>1 DEF FilesInv, DiskInv, EntriesDelivered, disk
      <4>3. ASSUME IsOpen(e, "file")'
            PROVE  BytesDelivered(e)'
        <5>1. entry.type = "file"
          BY <2>2, <4>1, <4>3 DEF IsOpen
        <5>2. PICK i : i = DentryByName(asks)
          OBVIOUS
        <5>3. i # 0
          BY <1>3, <5>2 DEF RefusesOpen
        <5>4. dir[i].type = "file" /\ new.inode = dir[i].inode
          BY <2>2, <5>1, <5>2
        <5>5. i \in 2..Len(dir) /\ Named(asks) = i
          BY <5>2, <5>3, <5>4, NamedIs DEF FilesInv
        <5>6. Named(asks)' = Named(asks)
          BY <1>1 DEF Named, disk
        <5>. PICK f : f = inodes[dir[i].inode]
          OBVIOUS
        <5>7. f.size \in Nat
          BY <5>5 DEF FilesInv, DiskInv
        <5>8. 0 \in 0..f.size
          BY <5>7
        <5>9. SubSeq(Content(f), 1, 0) = <<>>
          BY SubSeqEmpty
        <5>10. QED
          BY <1>1, <2>2, <4>1, <5>4, <5>5, <5>6, <5>8, <5>9 DEF BytesDelivered, disk
      <4>4. QED
        BY <2>2, <4>1, <4>2, <4>3 DEF Kept, IsRecord
    <3>3. QED
      BY <3>1, <3>2
  <2>5. QED
    BY <1>1, <2>3, <2>4, DiskStays DEF FilesInv
<1>4. QED
  BY <1>2, <1>3

LEMMA CloseKeeps ==
  ASSUME FilesInv, NEW x, Close(x), chunk' \in Int
  PROVE  FilesInv'
<1>1. UNCHANGED disk
  BY DEF Close
<1>. DEFINE d == Forced(x)
<1>2. CASE RefusesClose(d)
  BY <1>1, <1>2, CallsSame DEF Close
<1>3. CASE ~RefusesClose(d)
  <2>1. /\ farray' = [farray EXCEPT ![d] = Free] /\ log' = [log EXCEPT ![d] = <<>>]
        /\ asked' = [asked EXCEPT ![d] = Root]
    BY <1>3 DEF Close
  <2>. HIDE DEF d
  <2>2. DOMAIN farray' = Fds /\ DOMAIN log' = Fds /\ DOMAIN asked' = Fds
    BY <2>1 DEF FilesInv
  <2>3. ASSUME NEW e \in Fds
        PROVE  Kept(e)'
    <3>1. CASE e # d
      BY <1>1, <2>1, <3>1, OthersKept DEF FilesInv
    <3>2. CASE e = d
      <4>1. farray'[e] = Free
        BY <2>1, <3>2 DEF FilesInv
      <4>2. QED
        BY <4>1 DEF Kept, IsOpen
    <3>3. QED
      BY <3>1, <3>2
  <2>4. QED
    BY <1>1, <2>2, <2>3, DiskStays DEF FilesInv
<1>4. QED
  BY <1>2, <1>3

(***************************************************************************)
(* One more entry, the one at the position.                                *)
(***************************************************************************)
LEMMA OneMore ==
  ASSUME NEW d \in Fds, Len(dir) \in Nat, EntriesDelivered(d), NEW n \in Int,
         farray[d].file_pos < Len(dir), UNCHANGED dir,
         log'[d] = log[d] \o << Entry(farray[d].file_pos + 1, n) >>,
         farray'[d].file_pos = farray[d].file_pos + 1
  PROVE  EntriesDelivered(d)'
<1>. DEFINE l == log[d]
            p == farray[d].file_pos
            new == Entry(p + 1, n)
<1>1. l \in Seq(Entries) /\ Len(l) = p /\ p \in Nat
  BY DEF EntriesDelivered
<1>2. new \in Entries
  <2>1. p + 1 \in 1..Len(dir)
    BY <1>1
  <2>. HIDE DEF p
  <2>2. QED
    BY <2>1 DEF Entries
<1>. HIDE DEF new
<1>3. /\ l \o <<new>> \in Seq(Entries) /\ Len(l \o <<new>>) = p + 1
      /\ (l \o <<new>>)[p + 1] = new
      /\ \A i \in 1..p : (l \o <<new>>)[i] = l[i]
  <2>. HIDE DEF l, p
  <2>1. <<new>> \in Seq(Entries) /\ Len(<<new>>) = 1 /\ <<new>>[1] = new
    BY <1>2
  <2>2. /\ l \o <<new>> \in Seq(Entries) /\ Len(l \o <<new>>) = p + 1
        /\ \A i \in 1..(p + 1) :
             (l \o <<new>>)[i] = IF i <= p THEN l[i] ELSE <<new>>[i - p]
    BY <1>1, <2>1, ConcatProperties
  <2>3. p + 1 \in 1..(p + 1) /\ ~(p + 1 <= p) /\ (p + 1) - p = 1
    BY <1>1
  <2>4. \A i \in 1..p : i \in 1..(p + 1) /\ i <= p
    BY <1>1
  <2>5. (l \o <<new>>)[p + 1] = new
    BY <2>1, <2>2, <2>3
  <2>6. QED
    BY <2>2, <2>4, <2>5
<1>4. ASSUME NEW i \in 1..(p + 1)
      PROVE  \E m \in Int : (l \o <<new>>)[i] = Entry(i, m)
  <2>1. CASE i = p + 1
    BY <1>3, <2>1 DEF new
  <2>2. CASE i # p + 1
    <3>1. i \in 1..p
      BY <1>1, <2>2
    <3>2. QED
      BY <1>1, <1>3, <3>1 DEF EntriesDelivered
  <2>3. QED
    BY <2>1, <2>2
<1>5. Entries' = Entries /\ \A i, m : Entry(i, m)' = Entry(i, m)
  BY DEF Entries, Entry, Stored
<1>6. log'[d] = l \o <<new>> /\ farray'[d].file_pos = p + 1
  BY DEF new
<1>. HIDE DEF l, p
<1>7. p + 1 <= Len(dir)'
  BY <1>1 DEF p
<1>8. QED
  BY <1>3, <1>4, <1>5, <1>6, <1>7 DEF EntriesDelivered

LEMMA ReadKeeps ==
  ASSUME FilesInv, NEW x, NEW n \in Int, Read(x, n), chunk' \in Int
  PROVE  FilesInv'
<1>0. PICK d : d = Forced(x)
  OBVIOUS
<1>1. UNCHANGED <<disk, asked>> /\ d # 0
  BY <1>0 DEF Read
<1>2. CASE UNCHANGED <<farray, log>>
  BY <1>1, <1>2, CallsSame
<1>3. CASE /\ ReadResult(x, n) > 0
           /\ log' = [log EXCEPT ![d] = @ \o Delivered(d, n)]
           /\ farray' = [farray EXCEPT ![d].file_pos = Advanced(d, n)]
  <2>1. ~RefusesRead(d, n)
    BY <1>0, <1>3 DEF ReadResult
  <2>2. d \in Fds /\ farray[d] # Free
    BY <1>1, <2>1 DEF RefusesRead, FreeFds
  <2>3. IsRecord(farray[d]) /\ Kept(d)
    BY <2>2 DEF FilesInv, Kept
  <2>. DEFINE moved == [farray[d] EXCEPT !.file_pos = Advanced(d, n)]
  <2>4. farray' = [farray EXCEPT ![d] = moved]
    BY <1>3
  <2>5. IsRecord(moved) /\ moved.type = farray[d].type /\ moved.file_pos = Advanced(d, n)
    BY <2>3 DEF IsRecord
  <2>6. farray'[d] = moved /\ log'[d] = log[d] \o Delivered(d, n)
    BY <1>3, <2>2, <2>4 DEF FilesInv
  <2>7. ASSUME IsOpen(d, "dir")
        PROVE  EntriesDelivered(d)'
    <3>1. ~IsOpen(d, "file")
      BY <2>7 DEF IsOpen
    <3>2. DirResult(farray[d].file_pos) > 0
      BY <1>0, <1>3, <2>1, <2>7, <3>1 DEF ReadResult
    <3>3. farray[d].file_pos < Len(dir)
      BY <3>2 DEF DirResult
    <3>4. /\ Delivered(d, n) = << Entry(farray[d].file_pos + 1, n) >>
          /\ Advanced(d, n) = farray[d].file_pos + 1
      BY <3>1 DEF Delivered, Entry, Advanced, NextEntry
    <3>5. EntriesDelivered(d) /\ Len(dir) \in Nat
      BY <2>3, <2>7 DEF Kept, FilesInv, DiskInv
    <3>. HIDE DEF moved
    <3>6. UNCHANGED dir
      BY <1>1 DEF disk
    <3>7. QED
      BY <2>2, <2>5, <2>6, <3>3, <3>4, <3>5, <3>6, OneMore
  <2>8. ASSUME IsOpen(d, "file")
        PROVE  BytesDelivered(d)'
    <3>1. n \in Nat
      BY <1>0, <2>1 DEF RefusesRead
    <3>2. PICK i, f, pos : i = Named(asked[d]) /\ f = inodes[dir[i].inode] /\ pos = farray[d].file_pos
      OBVIOUS
    <3>3. /\ i \in 2..Len(dir) /\ farray[d].inode = dir[i].inode
          /\ pos \in 0..f.size /\ log[d] = SubSeq(Content(f), 1, pos)
      BY <2>3, <2>8, <3>2 DEF Kept, BytesDelivered
    <3>4. f.size \in Nat
      BY <3>2, <3>3 DEF FilesInv, DiskInv
    <3>5. PICK data : data = ReadData(f, pos, n)
      OBVIOUS
    <3>6. Data(d, n) = data
      BY <3>2, <3>3, <3>5 DEF Data
    <3>7. Delivered(d, n) = data /\ Advanced(d, n) = pos + Len(data)
      BY <2>8, <3>2, <3>6 DEF Delivered, Advanced
    <3>8. Len(data) > 0
      <4>1. ~IsOpen(d, "dir") /\ ~IsOpen(d, "rtc")
        BY <2>8 DEF IsOpen
      <4>2. ReadResult(x, n) = Len(data)
        BY <1>0, <2>1, <2>8, <3>6, <4>1 DEF ReadResult
      <4>3. QED
        BY <1>3, <4>2
    <3>9. /\ pos + Len(data) \in 0..f.size
          /\ SubSeq(Content(f), 1, pos) \o data = SubSeq(Content(f), 1, pos + Len(data))
      BY <3>1, <3>3, <3>4, <3>5, <3>8, ReadOn
    <3>10. Named(asked[d])' = i /\ inodes' = inodes /\ dir' = dir
      BY <1>1, <3>2 DEF Named, disk
    <3>11. moved.inode = farray[d].inode
      BY <2>3 DEF IsRecord
    <3>. HIDE DEF moved
    <3>12. QED
      BY <2>5, <2>6, <3>2, <3>3, <3>7, <3>9, <3>10, <3>11 DEF BytesDelivered
  <2>. HIDE DEF moved
  <2>9. DOMAIN farray' = Fds /\ DOMAIN log' = Fds /\ DOMAIN asked' = Fds
    BY <1>1, <1>3, <2>4 DEF FilesInv
  <2>10. ASSUME NEW e \in Fds
        PROVE  Kept(e)'
    <3>1. CASE e # d
      BY <1>1, <1>3, <2>4, <3>1, OthersKept DEF FilesInv
    <3>2. CASE e = d
      <4>1. IsRecord(farray[d])'
        BY <2>5, <2>6 DEF IsRecord
      <4>2. \A type : IsOpen(d, type)' => IsOpen(d, type)
        BY <2>2, <2>5, <2>6 DEF IsOpen
      <4>3. QED
        BY <2>7, <2>8, <3>2, <4>1, <4>2 DEF Kept
    <3>3. QED
      BY <3>1, <3>2
  <2>11. QED
    BY <1>1, <2>9, <2>10, DiskStays DEF FilesInv
<1>4. QED
  BY <1>0, <1>2, <1>3 DEF Read

-----------------------------------------------------------------------------

(***************************************************************************)
(* Whatever programs run, they touch descriptors only through those calls. *)
(***************************************************************************)
LEMMA ProgramsInit ==
  ASSUME Init
  PROVE  FilesInv
<1>1. DiskInv
  BY DiskMade DEF Init
<1>2. chunk \in Int /\ DOMAIN farray = Fds /\ DOMAIN log = Fds /\ DOMAIN asked = Fds
  BY DEF Init, FilesInit
<1>3. \A d \in Fds : Kept(d)
  BY DEF Init, FilesInit, Kept, IsOpen
<1>4. QED
  BY <1>1, <1>2, <1>3 DEF FilesInv

LEMMA ExecuteKeeps ==
  ASSUME FilesInv, NEW p, Execute(p)
  PROVE  FilesInv'
<1>1. chunk' \in Int
  BY ProgramsAssumption, DiskAssumption DEF Execute
<1>2. /\ UNCHANGED disk /\ farray' = [f \in Fds |-> Free]
      /\ log' = [f \in Fds |-> <<>>] /\ asked' = [f \in Fds |-> Root]
  BY DEF Execute
<1>3. \A d \in Fds : Kept(d)'
  BY <1>2 DEF Kept, IsOpen
<1>4. QED
  BY <1>1, <1>2, <1>3, DiskStays DEF FilesInv

LEMMA ProgramsStep ==
  ASSUME FilesInv, [Next]_vars
  PROVE  FilesInv'
<1>1. chunk \in Int /\ FILE_NAME \in Int
  BY DiskAssumption DEF FilesInv
<1>2. CASE \E p \in {"any", "cat", "ls", "grep", "syserr"} : Execute(p)
  BY <1>2, ExecuteKeeps
<1>3. CASE AnyCall
  <2>1. chunk' \in Int
    BY <1>1, <1>3 DEF AnyCall, progvars
  <2>2. QED
    BY <1>3, <2>1, OpenKeeps, CloseKeeps, ReadKeeps, ProgramsAssumption DEF AnyCall
<1>4. CASE OpenIt
  BY <1>1, <1>4, OpenKeeps DEF OpenIt, KeepMain
<1>5. CASE PrintIt
  BY <1>1, <1>5, ReadKeeps DEF PrintIt, KeepMain
<1>6. CASE GrepOpen
  BY <1>1, <1>6, OpenKeeps DEF GrepOpen
<1>7. CASE GrepNext
  BY <1>1, <1>7, ReadKeeps DEF GrepNext, KeepMain
<1>8. CASE OpenFile
  BY <1>1, <1>8, OpenKeeps DEF OpenFile, KeepMain
<1>9. CASE \E n \in Pieces : Search(n)
  BY <1>1, <1>9, ReadKeeps, ProgramsAssumption DEF Search, KeepMain
<1>10. CASE CloseFile
  BY <1>1, <1>10, CloseKeeps DEF CloseFile, KeepMain
<1>11. CASE SysErrCall
  <2>1. chunk' \in Int /\ FILE_NAME - 1 \in Int
    BY <1>1, <1>11 DEF SysErrCall, KeepMain
  <2>2. PICK op, x : Effect(op, x)
    BY <1>11 DEF SysErrCall
  <2>3. CASE op = "close"
    BY <2>1, <2>2, <2>3, CloseKeeps DEF Effect
  <2>4. CASE op = "open"
    BY <2>1, <2>2, <2>4, OpenKeeps DEF Effect
  <2>5. CASE op = "read"
    BY <2>1, <2>2, <2>5, ReadKeeps DEF Effect
  <2>6. CASE op \notin {"close", "open", "read"}
    <3>1. UNCHANGED fsvars
      BY <2>2, <2>6 DEF Effect
    <3>2. QED
      BY <2>1, <3>1, CallsSame DEF fsvars
  <2>7. QED
    BY <2>3, <2>4, <2>5, <2>6
<1>12. CASE SysErrEnd
  BY <1>1, <1>12, CallsSame DEF SysErrEnd, KeepMain, fsvars
<1>13. CASE UNCHANGED vars
  BY <1>1, <1>13, CallsSame DEF vars, fsvars, progvars
<1>14. QED
  BY <1>2, <1>3, <1>4, <1>5, <1>6, <1>7, <1>8, <1>9, <1>10, <1>11, <1>12, <1>13
  DEF Next

(***************************************************************************)
(* The position of each descriptor and what it delivered agree, in every   *)
(* reachable state.                                                        *)
(***************************************************************************)
THEOREM FilesInvariance == Spec => []FilesInv
BY ProgramsInit, ProgramsStep, PTL DEF Spec

(***************************************************************************)
(* However reads of the directory are mixed with other calls               *)
(* (filesys.c: read_d, real_dir_read), each delivers the next name, none   *)
(* is left out or delivered twice, and reads of FILE_NAME bytes deliver it *)
(* unchanged.                                                              *)
(***************************************************************************)
THEOREM DirectoryCorrect == Spec => []DirListsNames
<1>1. FilesInv => DirListsNames
  <2>. SUFFICES ASSUME FilesInv, NEW d \in Fds, IsOpen(d, "dir")
                PROVE  /\ Len(log[d]) = farray[d].file_pos /\ Len(log[d]) <= Len(dir)
                       /\ \A i \in 1..Len(log[d]) : log[d][i].nbytes = FILE_NAME =>
                            \A k \in 0..(FILE_NAME - 1) :
                              log[d][i].buf[k] = Stored(dir[i].name)[k]
    BY DEF DirListsNames
  <2>1. EntriesDelivered(d)
    BY DEF FilesInv, Kept
  <2>2. ASSUME NEW i \in 1..Len(log[d]), log[d][i].nbytes = FILE_NAME
        PROVE  log[d][i] = Entry(i, FILE_NAME)
    <3>1. PICK n \in Int : log[d][i] = Entry(i, n)
      BY <2>1 DEF EntriesDelivered
    <3>2. n = FILE_NAME
      BY <2>2, <3>1 DEF Entry
    <3>3. QED
      BY <3>1, <3>2
  <2>3. QED
    BY <2>1, <2>2, NameCopied DEF EntriesDelivered
<1>2. QED
  BY <1>1, FilesInvariance, PTL

(***************************************************************************)
(* Which reads a descriptor serves.  Only 3 of a program named gr* serves  *)
(* others than its own, and those above it serve nobody.                   *)
(***************************************************************************)
ServeInv ==
  /\ DOMAIN log = Fds /\ \A d \in taken : gr /\ d = 3
  /\ gr => \A d \in Fds \ {2, 3} : log[d] = <<>>

LEMMA OpenServes ==
  ASSUME ServeInv, NEW asks, Open(asks)
  PROVE  ServeInv'
<1>1. gr' = gr
  BY DEF Open
<1>2. CASE RefusesOpen(asks)
  BY <1>1, <1>2 DEF Open, ServeInv
<1>3. CASE ~RefusesOpen(asks)
  <2>. PICK d : d = OpenResult(asks)
    OBVIOUS
  <2>1. log' = [log EXCEPT ![d] = <<>>] /\ taken' = taken \ {d}
    BY <1>3 DEF Open
  <2>2. QED
    BY <1>1, <2>1 DEF ServeInv
<1>4. QED
  BY <1>2, <1>3

LEMMA CloseServes ==
  ASSUME ServeInv, NEW x, Close(x)
  PROVE  ServeInv'
<1>. PICK d : d = Forced(x)
  OBVIOUS
<1>1. gr' = gr
  BY DEF Close
<1>2. CASE RefusesClose(d)
  BY <1>1, <1>2 DEF Close, ServeInv
<1>3. CASE ~RefusesClose(d)
  <2>1. log' = [log EXCEPT ![d] = <<>>] /\ taken' = taken \ {d}
    BY <1>3 DEF Close
  <2>2. QED
    BY <1>1, <2>1 DEF ServeInv
<1>4. QED
  BY <1>2, <1>3

LEMMA ReadServes ==
  ASSUME ServeInv, NEW x, NEW n, Read(x, n)
  PROVE  ServeInv'
<1>. PICK d : d = Forced(x)
  OBVIOUS
<1>1. gr' = gr
  BY DEF Read
<1>2. CASE UNCHANGED <<log, taken>>
  BY <1>1, <1>2 DEF ServeInv
<1>3. CASE /\ log' = [log EXCEPT ![d] = @ \o Delivered(d, n)]
           /\ taken' = (IF x = d THEN taken ELSE taken \cup {d})
  <2>1. x # d => gr /\ d = 3
    BY DEF Forced
  <2>2. gr => d \in {2, 3}
    BY DEF Forced
  <2>3. \A e \in taken' : gr' /\ e = 3
    BY <1>1, <1>3, <2>1 DEF ServeInv
  <2>4. DOMAIN log' = Fds /\ \A e \in Fds \ {d} : log'[e] = log[e]
    BY <1>3 DEF ServeInv
  <2>5. gr' => \A e \in Fds \ {2, 3} : log'[e] = <<>>
    BY <1>1, <2>2, <2>4 DEF ServeInv
  <2>6. QED
    BY <2>3, <2>4, <2>5 DEF ServeInv
<1>4. QED
  BY <1>2, <1>3 DEF Read

LEMMA ServeSame ==
  ASSUME ServeInv, UNCHANGED <<gr, log, taken>>
  PROVE  ServeInv'
BY DEF ServeInv

LEMMA ServeInitial == Init => ServeInv
BY DEF Init, FilesInit, ServeInv

LEMMA ServeStep == ServeInv /\ [Next]_vars => ServeInv'
<1>. SUFFICES ASSUME ServeInv, [Next]_vars
              PROVE  ServeInv'
  OBVIOUS
<1>1. CASE \E p \in {"any", "cat", "ls", "grep", "syserr"} : Execute(p)
  BY <1>1 DEF Execute, ServeInv
<1>2. CASE AnyCall
  BY <1>2, OpenServes, CloseServes, ReadServes DEF AnyCall
<1>3. CASE OpenIt \/ GrepOpen \/ OpenFile
  BY <1>3, OpenServes DEF OpenIt, GrepOpen, OpenFile
<1>4. CASE PrintIt \/ GrepNext \/ (\E n \in Pieces : Search(n))
  BY <1>4, ReadServes DEF PrintIt, GrepNext, Search
<1>5. CASE CloseFile
  BY <1>5, CloseServes DEF CloseFile
<1>6. CASE SysErrCall
  <2>1. PICK op, x : Effect(op, x)
    BY <1>6 DEF SysErrCall
  <2>2. CASE op = "close"
    BY <2>1, <2>2, CloseServes DEF Effect
  <2>3. CASE op = "open"
    BY <2>1, <2>3, OpenServes DEF Effect
  <2>4. CASE op = "read"
    BY <2>1, <2>4, ReadServes DEF Effect
  <2>5. CASE op \notin {"close", "open", "read"}
    <3>1. UNCHANGED fsvars
      BY <2>1, <2>5 DEF Effect
    <3>2. QED
      BY <3>1, ServeSame DEF fsvars
  <2>6. QED
    BY <2>2, <2>3, <2>4, <2>5
<1>7. CASE SysErrEnd
  BY <1>7, ServeSame DEF SysErrEnd, fsvars
<1>8. CASE UNCHANGED vars
  BY <1>8, ServeSame DEF vars, fsvars
<1>9. QED
  BY <1>1, <1>2, <1>3, <1>4, <1>5, <1>6, <1>7, <1>8 DEF Next

LEMMA ServeInvariance == Spec => []ServeInv
BY ServeInitial, ServeStep, PTL DEF Spec

(***************************************************************************)
(* However a program cuts its reads, with however many descriptors open at *)
(* once (filesys.c: read_f, read_data), a descriptor delivers the bytes of *)
(* the file it was opened with, from the first on, without a gap, a        *)
(* repetition or a byte of another file or past the end, and only to the   *)
(* reads that ask for it; but of a program named gr* (syscall.c:257),      *)
(* descriptor 3 serves all reads but those of 2, and none above it serves  *)
(* any.                                                                    *)
(***************************************************************************)
THEOREM FilesCorrect == Spec => []FilesReadInOrder
<1>1. FilesInv /\ ServeInv => FilesReadInOrder
  <2>. SUFFICES ASSUME FilesInv, ServeInv, NEW d \in Fds, IsOpen(d, "file"),
                       NEW f, f = inodes[dir[Named(asked[d])].inode]
                PROVE  /\ farray[d].file_pos <= f.size
                       /\ log[d] = SubSeq(Content(f), 1, farray[d].file_pos)
                       /\ ServesItsReads(d)
    BY DEF FilesReadInOrder
  <2>1. BytesDelivered(d)
    BY DEF FilesInv, Kept
  <2>2. ServesItsReads(d)
    BY DEF ServeInv, ServesItsReads
  <2>3. QED
    BY <2>1, <2>2 DEF BytesDelivered
<1>2. QED
  BY <1>1, FilesInvariance, ServeInvariance, PTL

-----------------------------------------------------------------------------

(***************************************************************************)
(* syserr. What its tests ask for: a name no file has, the directory's     *)
(* own name, and calls in turn over the descriptors.                       *)
(***************************************************************************)
LEMMA NobodysName ==
  ASSUME DiskInv, NEW n \in {Longer, Shorter, <<>>}
  PROVE  RefusesOpen(n)
<1>1. CASE n = <<>>
  BY <1>1 DEF RefusesOpen
<1>2. CASE n # <<>>
  <2>. SUFFICES ASSUME DentryByName(n) # 0
                PROVE  FALSE
    BY DEF RefusesOpen
  <2>1. PICK i : i = DentryByName(n)
    OBVIOUS
  <2>2. i \in 1..Len(dir) /\ Matches(n, dir[i].name)
    BY <2>1, FoundIs
  <2>3. SubSeq(n, 1, LengthOf(n)) = dir[i].name
    BY <2>2, NameIsSeq, MatchesIs
  <2>4. /\ n \in Seq(Range(n)) /\ n \notin Names \cup {Root} /\ Last(n) # "enter"
    BY <1>2, ProgramsAssumption
  <2>5. LengthOf(n) = Len(n)
    BY <2>4 DEF LengthOf
  <2>6. SubSeq(n, 1, Len(n)) = n
    BY <2>4, SubSeqFull
  <2>7. dir[i].name = n
    BY <2>3, <2>5, <2>6, Zenon
  <2>8. dir[i].name \in Names \cup {Root}
    BY <2>2 DEF DiskInv
  <2>9. QED
    BY <2>4, <2>7, <2>8
<1>3. QED
  BY <1>1, <1>2

LEMMA RootFound ==
  ASSUME DiskInv
  PROVE  DentryByName(Root) = 1 /\ Root # <<>>
<1>1. Root \in Seq({"."}) /\ Len(Root) = 1 /\ Root[1] = "." /\ Root # <<>>
  BY DEF Root
<1>2. LengthOf(Root) = 1
  BY <1>1 DEF LengthOf, Last
<1>3. SubSeq(Root, 1, 1) = Root
  BY <1>1, SubSeqFull
<1>4. Matches(Root, Root)
  BY <1>1, <1>2, <1>3 DEF Matches, IsPrefix
<1>. DEFINE M == {k \in 1..Len(dir) : Matches(Root, dir[k].name)}
<1>5. 1 \in M
  BY <1>4 DEF DiskInv
<1>6. FirstOf(M, 0) = 1
  <2>1. M # {} /\ M \subseteq Nat
    BY <1>5
  <2>2. FirstOf(M, 0) \in M /\ FirstOf(M, 0) <= 1
    <3>. HIDE DEF M
    <3>1. QED
      BY <1>5, <2>1, LeastIs
  <2>3. QED
    BY <2>2
<1>7. DentryByName(Root) = FirstOf(M, 0)
  BY <1>2, DiskAssumption DEF DentryByName
<1>8. QED
  BY <1>1, <1>6, <1>7

Harmless(op, x) ==
  \/ op = "read" /\ x # 0
  \/ op = "write" /\ x # 1
  \/ op = "close"
  \/ op = "open" /\ x \in {Longer, Shorter, <<>>}
  \/ op = "vidmap" /\ RefusesVidmap(x)
  \/ op = "number" /\ ~IsSyscall(x)

AllHarmless(s) ==
  /\ Len(s) \in Nat \ {0}
  /\ \A k \in 1..Len(s) : Harmless(s[k][1], s[k][2])

Nth(op, first, k) == <<op, first + k - 1>>

LEMMA InTurnIs ==
  ASSUME NEW op, NEW first \in Nat, NEW n \in Nat, n = FD_ARRAY_MAX - first,
         NEW S, \A k \in 1..n : Nth(op, first, k) \in S
  PROVE  /\ InTurn(op, Every(first)) \in Seq(S) /\ Len(InTurn(op, Every(first))) = n
         /\ \A k \in 1..n : InTurn(op, Every(first))[k] = Nth(op, first, k)
<1>. PICK s : s = InTurn(op, Every(first))
  OBVIOUS
<1>1. PICK e : e = Every(first)
  OBVIOUS
<1>2. e = [k \in 1..n |-> first + k - 1]
  BY <1>1 DEF Every
<1>3. e \in Seq(Nat)
  <2>1. \A k \in 1..n : first + k - 1 \in Nat
    OBVIOUS
  <2>2. [k \in 1..n |-> first + k - 1] \in Seq(Nat)
    BY <2>1, IsASeq
  <2>3. QED
    BY <1>2, <2>2
<1>4. Len(e) = n
  <2>1. DOMAIN e = 1..n
    BY <1>2
  <2>2. QED
    BY <1>3, <2>1, LenProperties
<1>. DEFINE at(k) == <<op, e[k]>>
<1>5. s = [k \in 1..n |-> at(k)]
  BY <1>1, <1>4 DEF InTurn
<1>6. ASSUME NEW k \in 1..n
      PROVE  at(k) = Nth(op, first, k) /\ at(k) \in S
  <2>1. e[k] = first + k - 1
    BY <1>2
  <2>2. at(k) = Nth(op, first, k)
    BY <2>1, Zenon DEF Nth
  <2>3. QED
    BY <2>2
<1>. HIDE DEF at
<1>7. s \in Seq(S)
  <2>1. \A k \in 1..n : at(k) \in S
    BY <1>6
  <2>2. [k \in 1..n |-> at(k)] \in Seq(S)
    BY <2>1, IsASeq
  <2>3. QED
    BY <1>5, <2>2
<1>8. Len(s) = n
  <2>1. DOMAIN s = 1..n
    BY <1>5
  <2>2. QED
    BY <1>7, <2>1, LenProperties
<1>9. QED
  BY <1>5, <1>6, <1>7, <1>8

(***************************************************************************)
(* Every test but the third makes calls that must fail, whatever the       *)
(* state of the disk, as long as no descriptor is in use. The third opens  *)
(* the directory once for every descriptor, once more, and closes them     *)
(* again.                                                                  *)
(***************************************************************************)
HarmlessCalls == {t \in {"close", "read", "write"} \X Nat : Harmless(t[1], t[2])}

LEMMA TestFive ==
  AllHarmless((InTurn("close", Every(0)) \o InTurn("read", Every(2)))
                 \o InTurn("write", Every(2)))
<1>1. ASSUME NEW x \in Nat
      PROVE  /\ <<"close", x>> \in HarmlessCalls
             /\ x >= 2 => <<"read", x>> \in HarmlessCalls
             /\ x >= 2 => <<"write", x>> \in HarmlessCalls
  BY DEF HarmlessCalls, Harmless
<1>2. PICK n \in Nat, m \in Nat : n = FD_ARRAY_MAX /\ m = n - 2 /\ n > 0
  BY FilesAssumption
<1>3. PICK a, b, c, d, s :
        /\ a = InTurn("close", Every(0)) /\ b = InTurn("read", Every(2))
        /\ c = InTurn("write", Every(2)) /\ d = a \o b /\ s = d \o c
  OBVIOUS
<1>4. a \in Seq(HarmlessCalls) /\ Len(a) = n
  <2>1. ASSUME NEW k \in 1..n
        PROVE  Nth("close", 0, k) \in HarmlessCalls
    <3>1. PICK x \in Nat : x = 0 + k - 1 /\ x >= 0
      OBVIOUS
    <3>2. <<"close", x>> \in HarmlessCalls
      BY <1>1, <3>1
    <3>3. QED
      BY <3>1, <3>2, Zenon DEF Nth
  <2>2. QED
    <3>1. n = FD_ARRAY_MAX - 0
      BY <1>2
    <3>2. QED
      BY <1>3, <2>1, <3>1, InTurnIs
<1>5. b \in Seq(HarmlessCalls) /\ Len(b) = m
  <2>1. ASSUME NEW k \in 1..m
        PROVE  Nth("read", 2, k) \in HarmlessCalls
    <3>1. PICK x \in Nat : x = 2 + k - 1 /\ x >= 2
      OBVIOUS
    <3>2. <<"read", x>> \in HarmlessCalls
      BY <1>1, <3>1
    <3>3. QED
      BY <3>1, <3>2, Zenon DEF Nth
  <2>2. m = FD_ARRAY_MAX - 2
    BY <1>2
  <2>3. QED
    BY <1>3, <2>1, <2>2, InTurnIs
<1>6. c \in Seq(HarmlessCalls) /\ Len(c) = m
  <2>1. ASSUME NEW k \in 1..m
        PROVE  Nth("write", 2, k) \in HarmlessCalls
    <3>1. PICK x \in Nat : x = 2 + k - 1 /\ x >= 2
      OBVIOUS
    <3>2. <<"write", x>> \in HarmlessCalls
      BY <1>1, <3>1
    <3>3. QED
      BY <3>1, <3>2, Zenon DEF Nth
  <2>2. m = FD_ARRAY_MAX - 2
    BY <1>2
  <2>3. QED
    BY <1>3, <2>1, <2>2, InTurnIs
<1>7. d \in Seq(HarmlessCalls) /\ Len(d) = n + m
  BY <1>3, <1>4, <1>5, ConcatProperties
<1>8. s \in Seq(HarmlessCalls) /\ Len(s) = n + m + m
  <2>1. s \in Seq(HarmlessCalls) /\ Len(s) = Len(d) + Len(c)
    BY <1>3, <1>6, <1>7, ConcatProperties
  <2>2. QED
    BY <1>6, <1>7, <2>1
<1>9. \A k \in 1..Len(s) : s[k] \in HarmlessCalls
  BY <1>8, ElementOfSeq
<1>10. \A k \in 1..Len(s) : Harmless(s[k][1], s[k][2])
  BY <1>9 DEF HarmlessCalls
<1>11. Len(s) \in Nat \ {0}
  BY <1>2, <1>8
<1>12. QED
  BY <1>3, <1>10, <1>11 DEF AllHarmless

LEMMA ScriptsHarmless ==
  ASSUME NEW test \in 1..8, test # 3
  PROVE  AllHarmless(Script(test))
<1>. USE ProgramsAssumption, FilesAssumption
<1>0. BIG_NUM \in Nat /\ BIG_NUM # 0 /\ -BIG_NUM # 0 /\ BIG_NUM > 10
  OBVIOUS
<1>1. CASE test = 1
  <2>1. Script(test) = << <<"read", -BIG_NUM>>, <<"write", -BIG_NUM>>, <<"close", -BIG_NUM>> >>
    BY <1>1 DEF Script, OnBadFd
  <2>2. QED
    BY <1>0, <2>1 DEF AllHarmless, Harmless
<1>2. CASE test = 2
  <2>1. Script(test) = << <<"read", BIG_NUM>>, <<"write", BIG_NUM>>, <<"close", BIG_NUM>> >>
    BY <1>2 DEF Script, OnBadFd
  <2>2. QED
    BY <1>0, <2>1 DEF AllHarmless, Harmless
<1>4. CASE test = 4
  <2>1. Script(test) = << <<"open", Longer>>, <<"open", Shorter>>, <<"open", <<>> >> >>
    BY <1>4 DEF Script
  <2>2. QED
    BY <2>1 DEF AllHarmless, Harmless
<1>5. CASE test = 5
  <2>1. Script(test) = (InTurn("close", Every(0)) \o InTurn("read", Every(2)))
                          \o InTurn("write", Every(2))
    BY <1>5 DEF Script
  <2>2. QED
    BY <2>1, TestFive
<1>6. CASE test = 6
  <2>1. Script(test) = << <<"vidmap", 0>>, <<"vidmap", PDE>> >>
    BY <1>6 DEF Script
  <2>2. PDE \div PDE = 1
    <3>1. PICK b \in Nat \ {0} : b = PDE
      OBVIOUS
    <3>2. b = 1 * b + 0 /\ 0 \in 0..(b - 1)
      OBVIOUS
    <3>3. b \div b = 1
      BY <3>2, DivIs
    <3>4. QED
      BY <3>1, <3>3
  <2>3. RefusesVidmap(0) /\ RefusesVidmap(PDE)
    BY <2>2 DEF RefusesVidmap
  <2>4. QED
    BY <2>1, <2>3 DEF AllHarmless, Harmless
<1>7. CASE test = 7
  <2>1. Script(test) = << <<"write", 0>>, <<"read", 1>> >>
    BY <1>7 DEF Script
  <2>2. QED
    BY <2>1 DEF AllHarmless, Harmless
<1>8. CASE test = 8
  <2>1. Script(test) = << <<"number", BIG_NUM>>, <<"number", -BIG_NUM>>, <<"number", 0>> >>
    BY <1>8 DEF Script
  <2>2. ~IsSyscall(BIG_NUM) /\ ~IsSyscall(-BIG_NUM) /\ ~IsSyscall(0)
    BY <1>0 DEF IsSyscall
  <2>3. QED
    BY <2>1, <2>2 DEF AllHarmless, Harmless
<1>9. QED
  BY <1>1, <1>2, <1>4, <1>5, <1>6, <1>7, <1>8

LEMMA ScriptOfThree ==
  /\ Len(Script(3)) = 2 * FD_ARRAY_MAX - 3
  /\ \A k \in 1..(2 * FD_ARRAY_MAX - 3) :
       Script(3)[k] = IF k < FD_ARRAY_MAX THEN <<"open", Root>>
                      ELSE <<"close", k - FD_ARRAY_MAX + 2>>
<1>. PICK n \in Nat, m \in Nat : n = FD_ARRAY_MAX - 1 /\ m = FD_ARRAY_MAX - 2
  BY FilesAssumption
<1>. PICK a, b : a = [k \in 1..n |-> <<"open", Root>>] /\ b = InTurn("close", Every(2))
  OBVIOUS
<1>. PICK S : S = {<<"open", Root>>} \cup {<<"close", x>> : x \in Nat}
  OBVIOUS
<1>1. Script(3) = a \o b
  BY DEF Script
<1>2. a \in Seq(S) /\ Len(a) = n
  <2>1. \A k \in 1..n : <<"open", Root>> \in S
    OBVIOUS
  <2>2. [k \in 1..n |-> <<"open", Root>>] \in Seq(S)
    BY <2>1, IsASeq
  <2>3. a \in Seq(S) /\ DOMAIN a = 1..n
    BY <2>2
  <2>4. QED
    BY <2>3, LenProperties
<1>3. b \in Seq(S) /\ Len(b) = m /\ \A k \in 1..m : b[k] = Nth("close", 2, k)
  <2>1. \A k \in 1..m : Nth("close", 2, k) \in S
    BY DEF Nth
  <2>2. QED
    BY <2>1, InTurnIs
<1>4. /\ Len(a \o b) = n + m
      /\ \A k \in 1..(n + m) : (a \o b)[k] = IF k <= n THEN a[k] ELSE b[k - n]
  BY <1>2, <1>3, ConcatProperties
<1>5. n + m = 2 * FD_ARRAY_MAX - 3
  BY FilesAssumption
<1>6. ASSUME NEW k \in 1..(n + m)
      PROVE  (a \o b)[k] = IF k < FD_ARRAY_MAX THEN <<"open", Root>>
                           ELSE <<"close", k - FD_ARRAY_MAX + 2>>
  <2>1. CASE k < FD_ARRAY_MAX
    <3>1. k \in 1..n
      BY <2>1, FilesAssumption
    <3>2. (a \o b)[k] = a[k]
      BY <1>4, <3>1
    <3>3. a[k] = <<"open", Root>>
      BY <3>1
    <3>4. QED
      BY <2>1, <3>2, <3>3
  <2>2. CASE ~(k < FD_ARRAY_MAX)
    <3>1. PICK j \in 1..m : j = k - n
      BY <2>2, FilesAssumption
    <3>2. (a \o b)[k] = b[j]
      BY <1>4, <2>2, <3>1, FilesAssumption
    <3>3. 2 + j - 1 = k - FD_ARRAY_MAX + 2
      BY <3>1, FilesAssumption
    <3>4. b[j] = <<"close", 2 + j - 1>>
      BY <1>3, Zenon DEF Nth
    <3>5. (a \o b)[k] = <<"close", k - FD_ARRAY_MAX + 2>>
      BY <3>2, <3>3, <3>4, Zenon
    <3>6. QED
      BY <2>2, <3>5
  <2>3. QED
    BY <2>1, <2>2
<1>7. QED
  BY <1>1, <1>4, <1>5, <1>6

(***************************************************************************)
(* What the calls do: a harmless one returns -1 and touches no             *)
(* descriptor; an open takes the least free one, or fails when there is    *)
(* none; a close frees its own.                                            *)
(***************************************************************************)
LEMMA HarmlessCall ==
  ASSUME DiskInv, gr = FALSE, FreeFds = Fds, NEW op, NEW x, Harmless(op, x), Effect(op, x)
  PROVE  Result(op, x) = -1 /\ UNCHANGED <<gr, farray>>
<1>1. Forced(x) = x
  BY DEF Forced
<1>2. CASE op = "read" /\ x # 0
  <2>1. Result(op, x) = ReadResult(x, FILE_NAME - 1)
    BY <1>2, Zenon DEF Result
  <2>2. RefusesRead(x, FILE_NAME - 1)
    BY <1>2 DEF RefusesRead
  <2>3. ReadResult(x, FILE_NAME - 1) = -1
    BY <1>1, <2>2 DEF ReadResult
  <2>4. Read(x, FILE_NAME - 1)
    BY <1>2, Zenon DEF Effect
  <2>5. UNCHANGED <<gr, farray>>
    <3>1. ~(ReadResult(x, FILE_NAME - 1) > 0)
      BY <2>3
    <3>2. QED
      BY <2>4, <3>1 DEF Read
  <2>6. QED
    BY <2>1, <2>3, <2>5
<1>3. CASE op = "write" /\ x # 1
  <2>1. Result(op, x) = WriteResult(x, FILE_NAME - 1)
    BY <1>3, Zenon DEF Result
  <2>2. WriteResult(x, FILE_NAME - 1) = -1
    <3>1. \A e \in Fds : ~IsOpen(e, "rtc")
      BY DEF IsOpen, FreeFds
    <3>2. ~TakesWrite(x, FILE_NAME - 1)
      BY <1>3, <3>1 DEF TakesWrite
    <3>3. QED
      BY <3>2 DEF WriteResult, RefusesWrite
  <2>3. UNCHANGED fsvars
    BY <1>3 DEF Effect
  <2>4. QED
    BY <2>1, <2>2, <2>3 DEF fsvars
<1>4. CASE op = "close"
  <2>1. Result(op, x) = CloseResult(x)
    BY <1>4, Zenon DEF Result
  <2>2. RefusesClose(x)
    BY DEF RefusesClose
  <2>3. Close(x)
    BY <1>4, Zenon DEF Effect
  <2>4. CloseResult(x) = -1 /\ UNCHANGED <<gr, farray>>
    BY <1>1, <2>2, <2>3 DEF CloseResult, Close
  <2>5. QED
    BY <2>1, <2>4
<1>5. CASE op = "open" /\ x \in {Longer, Shorter, <<>>}
  <2>1. Result(op, x) = OpenResult(x)
    BY <1>5, Zenon DEF Result
  <2>2. RefusesOpen(x)
    BY <1>5, NobodysName
  <2>3. Open(x)
    BY <1>5, Zenon DEF Effect
  <2>4. OpenResult(x) = -1 /\ UNCHANGED <<gr, farray>>
    BY <2>2, <2>3 DEF OpenResult, Open
  <2>5. QED
    BY <2>1, <2>4
<1>6. CASE op = "vidmap" /\ RefusesVidmap(x)
  <2>1. Result(op, x) = IF RefusesVidmap(x) THEN -1 ELSE 0
    BY <1>6, Zenon DEF Result
  <2>2. UNCHANGED fsvars
    BY <1>6 DEF Effect
  <2>3. QED
    BY <1>6, <2>1, <2>2 DEF fsvars
<1>7. CASE op = "number" /\ ~IsSyscall(x)
  <2>1. Result(op, x) = IF IsSyscall(x) THEN 0 ELSE -1
    BY <1>7, Zenon DEF Result
  <2>2. UNCHANGED fsvars
    BY <1>7 DEF Effect
  <2>3. QED
    BY <1>7, <2>1, <2>2 DEF fsvars
<1>8. QED
  BY <1>2, <1>3, <1>4, <1>5, <1>6, <1>7 DEF Harmless

LEMMA OneOpened ==
  ASSUME FilesInv, NEW s \in 1..(FD_ARRAY_MAX - 2), FreeFds = {d \in Fds : d > s}, Open(Root)
  PROVE  /\ OpenResult(Root) = s + 1 /\ gr' = gr
         /\ FreeFds' = {d \in Fds : d > s + 1}
<1>1. s + 1 \in FreeFds
  BY FilesAssumption DEF Fds
<1>2. FirstOf(FreeFds, 0) = s + 1
  <2>1. FreeFds \subseteq Nat
    BY FilesAssumption DEF Fds
  <2>2. PICK m : m = FirstOf(FreeFds, 0)
    OBVIOUS
  <2>3. m \in FreeFds /\ m <= s + 1
    <3>. PICK F : F = FreeFds
      OBVIOUS
    <3>1. FirstOf(F, 0) \in F /\ \A k \in F : FirstOf(F, 0) <= k
      BY <1>1, <2>1, LeastIs
    <3>2. QED
      BY <1>1, <2>2, <3>1
  <2>4. m \in Nat /\ m > s
    BY <2>1, <2>3
  <2>5. QED
    BY <2>2, <2>3, <2>4
<1>3. ~RefusesOpen(Root)
  BY <1>1, RootFound DEF RefusesOpen, FilesInv
<1>4. OpenResult(Root) = s + 1
  BY <1>2, <1>3 DEF OpenResult
<1>. PICK new : new = [flags |-> "open", type |-> dir[DentryByName(Root)].type,
                       inode |-> dir[DentryByName(Root)].inode, file_pos |-> 0]
  OBVIOUS
<1>5. farray' = [farray EXCEPT ![s + 1] = new] /\ gr' = gr
  BY <1>3, <1>4 DEF Open
<1>6. new # Free
  <2>1. new.flags = "open" /\ Free.flags = "free"
    BY DEF Free
  <2>2. QED
    BY <2>1
<1>. PICK e : e = s + 1
  OBVIOUS
<1>7. \A d \in Fds : farray'[d] = IF d = e THEN new ELSE farray[d]
  BY <1>5 DEF FilesInv
<1>8. \A d \in Fds : farray'[d] = Free <=> d > s /\ d # e
  <2>1. \A d \in Fds : farray[d] = Free <=> d > s
    BY DEF FreeFds
  <2>2. QED
    BY <1>1, <1>6, <1>7, <2>1
<1>9. \A d \in Fds : (d > s /\ d # e) <=> d > s + 1
  BY FilesAssumption DEF Fds
<1>10. FreeFds' = {d \in Fds : farray'[d] = Free}
  BY DEF FreeFds
<1>11. QED
  BY <1>4, <1>5, <1>8, <1>9, <1>10

LEMMA NoneLeft ==
  ASSUME NEW asks, FreeFds = {}, Open(asks)
  PROVE  OpenResult(asks) = -1 /\ UNCHANGED <<gr, farray>>
BY DEF OpenResult, Open, RefusesOpen

LEMMA OneClosed ==
  ASSUME FilesInv, gr = FALSE, NEW x \in Fds, FreeFds = {d \in Fds : d < x}, Close(x)
  PROVE  gr' = gr /\ FreeFds' = {d \in Fds : d < x + 1}
<1>1. Forced(x) = x /\ ~RefusesClose(x)
  <2>1. x \in Int
    BY DEF Fds
  <2>2. QED
    BY <2>1 DEF Forced, RefusesClose
<1>2. farray' = [farray EXCEPT ![x] = Free] /\ gr' = gr
  BY <1>1 DEF Close
<1>3. \A d \in Fds : farray'[d] = Free <=> d = x \/ d < x
  <2>1. \A d \in Fds : farray'[d] = IF d = x THEN Free ELSE farray[d]
    BY <1>2 DEF FilesInv
  <2>2. \A d \in Fds : farray[d] = Free <=> d < x
    BY DEF FreeFds
  <2>3. QED
    BY <2>1, <2>2
<1>4. \A d \in Fds : (d = x \/ d < x) <=> d < x + 1
  BY DEF Fds
<1>5. FreeFds' = {d \in Fds : farray'[d] = Free}
  BY DEF FreeFds
<1>6. QED
  BY <1>2, <1>3, <1>4, <1>5

(***************************************************************************)
(* The state of syserr between two calls. FreeNow: no descriptor is in     *)
(* use but in the third test, whose opens take them from 2 on, and whose   *)
(* closes free them from 2 on. CountNow: the tests to go are in            *)
(* increasing order, so the third has not run and cnt is still 0 when it   *)
(* starts; its one failing open makes it 1.                                *)
(***************************************************************************)
Opening == tests # <<>> /\ Head(tests) = 3

FreeNow ==
  IF ~Opening THEN Fds
  ELSE IF step < FD_ARRAY_MAX THEN {d \in Fds : d > step}
  ELSE {d \in Fds : d < step - FD_ARRAY_MAX + 2}

CountNow ==
  IF Opening /\ step >= FD_ARRAY_MAX THEN cnt = 1
  ELSE (\E i \in 1..Len(tests) : tests[i] = 3) => cnt = 0

Increasing(s) == \A i, k \in 1..Len(s) : i < k => s[i] < s[k]

Passing ==
  /\ gr = FALSE /\ failed = FALSE /\ status = 0
  /\ tests \in Seq(1..8) /\ Increasing(tests)
  /\ tests # <<>> => step \in 1..Len(Script(Head(tests)))
  /\ FreeFds = FreeNow /\ CountNow

SysErrInv == FilesInv /\ (prog = "syserr" => Passing)

LEMMA ScriptLength ==
  ASSUME NEW test \in 1..8
  PROVE  Len(Script(test)) \in Nat \ {0}
BY ScriptsHarmless, ScriptOfThree, FilesAssumption, SMTT(30) DEF AllHarmless

Later(s, t) ==
  \A i \in 1..Len(t) : t[i] # Head(s) /\ \E k \in 1..Len(s) : t[i] = s[k]

LEMMA TailIs ==
  ASSUME NEW s \in Seq(1..8), s # <<>>, Increasing(s), NEW t, t = Tail(s)
  PROVE  /\ t \in Seq(1..8) /\ Increasing(t) /\ Head(s) \in 1..8 /\ Head(s) = s[1]
         /\ Later(s, t) /\ (t # <<>> => Head(t) \in 1..8) /\ 1 \in 1..Len(s)
<1>1. PICK n \in Nat \ {0} : n = Len(s)
  BY EmptySeq
<1>2. /\ t \in Seq(1..8) /\ Len(t) = n - 1 /\ Head(s) = s[1]
      /\ \A i \in 1..(n - 1) : t[i] = s[i + 1]
  BY <1>1, HeadTailProperties
<1>3. \A i \in 1..n : s[i] \in 1..8
  BY <1>1, ElementOfSeq
<1>4. Increasing(t)
  <2>. SUFFICES ASSUME NEW i \in 1..(n - 1), NEW k \in 1..(n - 1), i < k
                PROVE  t[i] < t[k]
    BY <1>2 DEF Increasing
  <2>1. i + 1 \in 1..n /\ k + 1 \in 1..n /\ i + 1 < k + 1
    OBVIOUS
  <2>2. s[i + 1] < s[k + 1]
    BY <1>1, <2>1 DEF Increasing
  <2>3. QED
    BY <1>2, <2>2
<1>5. ASSUME NEW i \in 1..(n - 1)
      PROVE  t[i] # Head(s) /\ \E k \in 1..n : t[i] = s[k]
  <2>1. PICK k \in 1..n : k = i + 1 /\ 1 \in 1..n /\ 1 < k
    OBVIOUS
  <2>2. t[i] = s[k]
    BY <1>2, <2>1
  <2>3. s[1] < s[k]
    BY <1>1, <2>1 DEF Increasing
  <2>4. s[1] \in 1..8 /\ s[k] \in 1..8
    BY <1>3, <2>1
  <2>5. QED
    BY <1>2, <2>2, <2>3, <2>4
<1>6. ASSUME t # <<>>
      PROVE  Head(t) \in 1..8
  <2>1. Len(t) \in Nat \ {0}
    BY <1>2, <1>6, EmptySeq
  <2>2. Head(t) = t[1]
    BY <1>2, <1>6, HeadTailProperties
  <2>3. QED
    BY <1>2, <2>1, <2>2, ElementOfSeq
<1>7. QED
  BY <1>1, <1>2, <1>3, <1>4, <1>5, <1>6 DEF Later

LEMMA NextTest ==
  ASSUME Passing, tests # <<>>, tests' = Tail(tests), step' = 1,
         gr' = gr, failed' = FALSE, status' = status,
         FreeFds' = Fds, \/ cnt' = cnt /\ ~Opening
                         \/ Opening
  PROVE  Passing'
<1>. PICK s, t : s = tests /\ t = Tail(s)
  OBVIOUS
<1>0. s \in Seq(1..8) /\ s # <<>> /\ Increasing(s) /\ tests' = t
  BY DEF Passing
<1>1. /\ t \in Seq(1..8) /\ Increasing(t) /\ Head(s) \in 1..8
      /\ Later(s, t) /\ (t # <<>> => Head(t) \in 1..8)
  BY <1>0, TailIs
<1>2. t # <<>> => 1 \in 1..Len(Script(Head(t)))
  <2>1. t # <<>> => Len(Script(Head(t))) \in Nat \ {0}
    BY <1>1, ScriptLength
  <2>2. QED
    BY <2>1
<1>3. FreeNow' = Fds
  <2>1. {d \in Fds : d > 1} = Fds
    BY DEF Fds
  <2>2. 1 < FD_ARRAY_MAX
    BY FilesAssumption
  <2>3. QED
    BY <2>1, <2>2 DEF FreeNow
<1>4. CountNow'
  <2>1. ~(step' >= FD_ARRAY_MAX)
    BY FilesAssumption
  <2>2. SUFFICES ASSUME NEW i \in 1..Len(t), t[i] = 3
                 PROVE  cnt' = 0
    BY <1>0, <2>1 DEF CountNow
  <2>3. Head(s) # 3 /\ \E k \in 1..Len(s) : s[k] = 3
    BY <1>1, <2>2 DEF Later
  <2>4. ~Opening
    BY <2>3 DEF Opening
  <2>5. cnt = 0
    BY <2>3, <2>4 DEF Passing, CountNow
  <2>6. QED
    BY <2>4, <2>5
<1>5. QED
  BY <1>0, <1>1, <1>2, <1>3, <1>4 DEF Passing

(***************************************************************************)
(* Each call of syserr leaves that state to the next one, of the same      *)
(* test or of the first call of the next test.                             *)
(***************************************************************************)
LEMMA SameTest ==
  ASSUME Passing, tests # <<>>, step < Len(Script(Head(tests))), tests' = tests,
         step' = step + 1, gr' = gr, failed' = FALSE, status' = status,
         FreeFds' = FreeNow', CountNow'
  PROVE  Passing'
<1>1. PICK t, n : t = Head(tests) /\ n = Len(Script(t))
  OBVIOUS
<1>2. t \in 1..8
  BY <1>1, TailIs DEF Passing
<1>3. n \in Nat
  BY <1>1, <1>2, ScriptLength
<1>4. step \in 1..n
  BY <1>1 DEF Passing
<1>5. step + 1 \in 1..n
  BY <1>1, <1>3, <1>4
<1>6. tests' # <<>> => step' \in 1..Len(Script(Head(tests')))
  BY <1>1, <1>5
<1>7. QED
  BY <1>6 DEF Passing

LEMMA CallPasses ==
  ASSUME FilesInv, Passing, SysErrCall
  PROVE  Passing'
<1>. PICK test, op, x, n :
       /\ test = Head(tests) /\ op = Script(test)[step][1] /\ x = Script(test)[step][2]
       /\ n = Len(Script(test))
  OBVIOUS
<1>1. /\ tests # <<>> /\ Effect(op, x) /\ status' = status
      /\ cnt' = (IF test = 3 /\ op = "open" /\ Result(op, x) = -1 THEN cnt + 1 ELSE cnt)
      /\ failed' = (failed \/ Unexpected(test, Result(op, x)) \/ (~(step < n) /\ Fails(test, cnt')))
      /\ step' = (IF step < n THEN step + 1 ELSE 1)
      /\ tests' = (IF step < n THEN tests ELSE Tail(tests))
  BY DEF SysErrCall, Stay
<1>2. test \in 1..8
  BY <1>1, TailIs DEF Passing
<1>3. n \in Nat \ {0} /\ step \in 1..n
  BY <1>1, <1>2, ScriptLength DEF Passing
<1>4. CASE test # 3
  <2>1. ~Opening /\ FreeFds = Fds /\ gr = FALSE
    BY <1>4 DEF Opening, Passing, FreeNow
  <2>2. Harmless(op, x)
    BY <1>2, <1>3, <1>4, ScriptsHarmless DEF AllHarmless
  <2>3. Result(op, x) = -1 /\ gr' = gr /\ farray' = farray
    BY <1>1, <2>1, <2>2, HarmlessCall DEF FilesInv
  <2>4. cnt' = cnt /\ failed' = FALSE
    BY <1>1, <1>4, <2>3 DEF Unexpected, Fails, Passing
  <2>5. FreeFds' = Fds
    BY <2>1, <2>3 DEF FreeFds
  <2>6. CASE step < n
    <3>1. ~Opening'
      BY <1>1, <2>1, <2>6 DEF Opening
    <3>2. FreeNow' = Fds
      BY <3>1 DEF FreeNow
    <3>3. CountNow'
      BY <1>1, <2>1, <2>4, <2>6, <3>1 DEF CountNow, Passing
    <3>4. QED
      BY <1>1, <2>3, <2>4, <2>5, <2>6, <3>2, <3>3, SameTest
  <2>7. CASE ~(step < n)
    BY <1>1, <2>1, <2>3, <2>4, <2>5, <2>7, NextTest
  <2>8. QED
    BY <2>6, <2>7
<1>5. CASE test = 3
  <2>1. Opening /\ failed = FALSE /\ gr = FALSE
    BY <1>1, <1>5 DEF Opening, Passing
  <2>2. /\ n = 2 * FD_ARRAY_MAX - 3
        /\ Script(3)[step] = IF step < FD_ARRAY_MAX THEN <<"open", Root>>
                             ELSE <<"close", step - FD_ARRAY_MAX + 2>>
    BY <1>3, <1>5, ScriptOfThree
  <2>3. failed' = (~(step < n) /\ cnt' # 1)
    BY <1>1, <1>5, <2>1 DEF Unexpected, Fails
  <2>4. \E i \in 1..Len(tests) : tests[i] = 3
    BY <1>1, <1>5, TailIs DEF Passing
  <2>5. CASE step < FD_ARRAY_MAX - 1
    <3>1. op = "open" /\ x = Root
      BY <1>3, <1>5, <2>2, <2>5, FilesAssumption, SMTT(30)
    <3>2. FreeFds = {d \in Fds : d > step}
      BY <1>3, <2>1, <2>5, FilesAssumption DEF Passing, FreeNow
    <3>3. Open(Root)
      BY <1>1, <3>1, Zenon DEF Effect
    <3>4. Result(op, x) = OpenResult(Root)
      BY <3>1, Zenon DEF Result
    <3>5. step \in 1..(FD_ARRAY_MAX - 2)
      BY <1>3, <2>5, FilesAssumption
    <3>6. /\ OpenResult(Root) = step + 1 /\ gr' = gr
          /\ FreeFds' = {d \in Fds : d > step + 1}
      BY <3>2, <3>3, <3>5, OneOpened
    <3>7. Result(op, x) # -1
      BY <3>4, <3>5, <3>6
    <3>8. step < n
      BY <2>2, <3>5, FilesAssumption
    <3>9. cnt = 0
      BY <2>4, <2>5, <3>5, FilesAssumption DEF Passing, CountNow
    <3>10. cnt' = 0 /\ failed' = FALSE /\ step' = step + 1 /\ tests' = tests
      BY <1>1, <2>3, <3>7, <3>8, <3>9
    <3>11. ~(step' >= FD_ARRAY_MAX) /\ step' < FD_ARRAY_MAX
      BY <2>5, <3>5, <3>10, FilesAssumption
    <3>12. Opening'
      BY <2>1, <3>10 DEF Opening
    <3>13. FreeNow' = {d \in Fds : d > step + 1}
      BY <3>10, <3>11, <3>12 DEF FreeNow
    <3>14. CountNow'
      BY <3>10, <3>11 DEF CountNow
    <3>15. QED
      BY <1>1, <3>6, <3>8, <3>10, <3>13, <3>14, SameTest
  <2>6. CASE step = FD_ARRAY_MAX - 1
    <3>1. op = "open" /\ x = Root
      BY <1>3, <1>5, <2>2, <2>6, FilesAssumption
    <3>2. FreeFds = {}
      <4>1. FreeFds = {d \in Fds : d > step}
        BY <1>3, <2>1, <2>6, FilesAssumption DEF Passing, FreeNow
      <4>2. QED
        BY <2>6, <4>1, FilesAssumption DEF Fds
    <3>3. Open(Root)
      BY <1>1, <3>1, Zenon DEF Effect
    <3>4. Result(op, x) = OpenResult(Root)
      BY <3>1, Zenon DEF Result
    <3>5. OpenResult(Root) = -1 /\ gr' = gr /\ farray' = farray
      BY <3>2, <3>3, NoneLeft
    <3>6. cnt = 0
      BY <2>4, <2>6, FilesAssumption DEF Passing, CountNow
    <3>7. cnt' = 1 /\ failed' = FALSE
      <4>1. op = "open" /\ Result(op, x) = -1
        BY <3>1, <3>4, <3>5
      <4>2. cnt' = cnt + 1
        BY <1>1, <1>5, <4>1
      <4>3. cnt' = 1
        BY <3>6, <4>2
      <4>4. QED
        BY <2>3, <4>3
    <3>8. FreeFds' = {}
      BY <3>2, <3>5 DEF FreeFds
    <3>9. CASE step < n
      <4>1. step' = FD_ARRAY_MAX /\ step' = step + 1 /\ tests' = tests
        BY <1>1, <2>6, <3>9, FilesAssumption
      <4>2. Opening'
        BY <2>1, <4>1 DEF Opening
      <4>3. FreeNow' = {d \in Fds : d < 2}
        BY <4>1, <4>2, FilesAssumption DEF FreeNow
      <4>4. {d \in Fds : d < 2} = {}
        BY DEF Fds
      <4>5. CountNow'
        BY <3>7, <4>1, <4>2, FilesAssumption DEF CountNow
      <4>6. QED
        BY <1>1, <3>5, <3>7, <3>8, <3>9, <4>1, <4>3, <4>4, <4>5, SameTest
    <3>10. CASE ~(step < n)
      <4>1. Fds = {}
        BY <2>2, <2>6, <3>10, FilesAssumption DEF Fds
      <4>2. QED
        BY <1>1, <2>1, <3>5, <3>7, <3>8, <3>10, <4>1, NextTest
    <3>11. QED
      BY <3>9, <3>10
  <2>7. CASE step >= FD_ARRAY_MAX
    <3>1. op = "close" /\ x = step - FD_ARRAY_MAX + 2
      BY <1>3, <1>5, <2>2, <2>7, FilesAssumption
    <3>2. x \in Fds /\ FreeFds = {d \in Fds : d < x}
      <4>1. x \in Fds
        BY <1>3, <2>2, <2>7, <3>1, FilesAssumption DEF Fds
      <4>2. FreeFds = {d \in Fds : d < step - FD_ARRAY_MAX + 2}
        BY <1>3, <2>1, <2>7, FilesAssumption DEF Passing, FreeNow
      <4>3. QED
        BY <3>1, <4>1, <4>2, Zenon
    <3>3. Close(x)
      BY <1>1, <3>1, Zenon DEF Effect
    <3>4. gr' = gr /\ FreeFds' = {d \in Fds : d < x + 1}
      BY <2>1, <3>2, <3>3, OneClosed
    <3>5. cnt = 1 /\ cnt' = 1 /\ failed' = FALSE
      BY <1>1, <2>1, <2>3, <2>7, <3>1 DEF Passing, CountNow
    <3>6. CASE step < n
      <4>1. step' = step + 1 /\ tests' = tests
        BY <1>1, <3>6
      <4>2. Opening' /\ step' >= FD_ARRAY_MAX /\ ~(step' < FD_ARRAY_MAX)
        BY <1>3, <2>1, <2>7, <4>1, FilesAssumption DEF Opening
      <4>3. FreeNow' = {d \in Fds : d < (step + 1) - FD_ARRAY_MAX + 2}
        BY <4>1, <4>2 DEF FreeNow
      <4>4. (step + 1) - FD_ARRAY_MAX + 2 = x + 1
        BY <1>3, <3>1, FilesAssumption
      <4>5. CountNow'
        BY <3>5, <4>2 DEF CountNow
      <4>6. FreeFds' = FreeNow'
        BY <3>4, <4>3, <4>4, Zenon
      <4>7. QED
        BY <1>1, <3>4, <3>5, <3>6, <4>1, <4>5, <4>6, SameTest
    <3>7. CASE ~(step < n)
      <4>1. x = FD_ARRAY_MAX - 1
        BY <1>3, <2>2, <3>1, <3>7, FilesAssumption
      <4>2. \A d \in Fds : d < x + 1
        BY <4>1, FilesAssumption DEF Fds
      <4>3. FreeFds' = Fds
        BY <3>4, <4>2
      <4>4. QED
        BY <1>1, <2>1, <3>4, <3>5, <3>7, <4>3, NextTest
    <3>8. QED
      BY <3>6, <3>7
  <2>8. QED
    BY <1>3, <2>5, <2>6, <2>7, FilesAssumption
<1>6. QED
  BY <1>4, <1>5

LEMMA ExecutePasses ==
  ASSUME NEW p, Execute(p), prog' = "syserr"
  PROVE  Passing'
<1>1. p = "syserr" /\ step' = 1 /\ failed' = FALSE /\ cnt' = 0 /\ status' = 0
  BY DEF Execute
<1>2. gr' = FALSE
  BY <1>1 DEF Execute
<1>3. tests' \in { <<1, 2, 3, 4, 5, 6, 7, 8>> } \cup { <<k>> : k \in 1..8 }
  BY <1>1 DEF Execute
<1>4. tests' \in Seq(1..8) /\ Increasing(tests') /\ tests' # <<>> /\ Head(tests') \in 1..8
  <2>1. CASE tests' = <<1, 2, 3, 4, 5, 6, 7, 8>>
    BY <2>1 DEF Increasing
  <2>2. CASE \E k \in 1..8 : tests' = <<k>>
    BY <2>2 DEF Increasing
  <2>3. QED
    BY <1>3, <2>1, <2>2
<1>5. 1 \in 1..Len(Script(Head(tests')))
  BY <1>4, ScriptLength, SMTT(30)
<1>6. FreeFds' = Fds
  BY DEF Execute, FreeFds
<1>7. FreeNow' = Fds
  <2>1. {d \in Fds : d > 1} = Fds
    BY DEF Fds
  <2>2. 1 < FD_ARRAY_MAX
    BY FilesAssumption
  <2>3. QED
    BY <1>1, <2>1, <2>2 DEF FreeNow
<1>8. CountNow'
  BY <1>1, FilesAssumption DEF CountNow
<1>9. QED
  BY <1>1, <1>2, <1>4, <1>5, <1>6, <1>7, <1>8 DEF Passing

LEMMA SysErrStep ==
  ASSUME SysErrInv, [Next]_vars
  PROVE  SysErrInv'
<1>1. FilesInv'
  BY ProgramsStep DEF SysErrInv
<1>. SUFFICES ASSUME prog' = "syserr"
              PROVE  Passing'
  BY <1>1 DEF SysErrInv
<1>2. CASE \E p \in {"any", "cat", "ls", "grep", "syserr"} : Execute(p)
  BY <1>2, ExecutePasses
<1>3. CASE SysErrCall
  BY <1>3, CallPasses DEF SysErrInv, SysErrCall
<1>4. CASE SysErrEnd
  <2>1. Passing /\ status' = 0
    BY <1>4 DEF SysErrEnd, Return, SysErrInv, Passing
  <2>2. UNCHANGED <<tests, step, failed, cnt, farray, gr>>
    BY <1>4 DEF SysErrEnd, KeepTests, fsvars
  <2>3. QED
    BY <2>1, <2>2 DEF Passing, FreeNow, CountNow, Opening, FreeFds
<1>5. CASE UNCHANGED vars
  <2>1. Passing
    BY <1>5 DEF SysErrInv, vars, progvars
  <2>2. UNCHANGED <<status, tests, step, failed, cnt, farray, gr>>
    BY <1>5 DEF vars, progvars, fsvars
  <2>3. QED
    BY <2>1, <2>2 DEF Passing, FreeNow, CountNow, Opening, FreeFds
<1>6. CASE \/ AnyCall \/ OpenIt \/ PrintIt \/ GrepOpen \/ GrepNext \/ OpenFile
           \/ (\E n \in Pieces : Search(n)) \/ CloseFile
  <2>1. prog' = prog /\ prog # "syserr"
    BY <1>6 DEF AnyCall, OpenIt, PrintIt, GrepOpen, GrepNext, OpenFile, Search, CloseFile,
                KeepMain, progvars
  <2>2. QED
    BY <2>1
<1>7. QED
  BY <1>2, <1>3, <1>4, <1>5, <1>6 DEF Next

(***************************************************************************)
(* The repository's own test of the error cases (ece391syserr.c) ends      *)
(* without an objection to the calls of filesys.c, rtc.c and syscall.c,    *)
(* whichever test the user chooses and whatever ran before it: no earlier  *)
(* program and no earlier test leaves it a descriptor in use or a count    *)
(* that is not 0.                                                          *)
(***************************************************************************)
THEOREM SysErrCorrect == Spec => []SysErrPasses
<1>1. Init => SysErrInv
  BY ProgramsInit DEF SysErrInv, Init
<1>2. SysErrInv => SysErrPasses
  BY DEF SysErrInv, SysErrPasses, Passing
<1>3. QED
  BY <1>1, <1>2, SysErrStep, PTL DEF Spec

-----------------------------------------------------------------------------

(***************************************************************************)
(* The programs that print and search. A name that ends at its first null  *)
(* is the name on the disk, whatever the size of the buffer it was read    *)
(* into, if that holds a whole name.                                       *)
(***************************************************************************)
LEMMA NameHas ==
  ASSUME DiskInv, NEW i \in 1..Len(dir), NEW s, s = dir[i].name
  PROVE  /\ s \in Seq(Range(s)) /\ Len(s) \in 1..FILE_NAME
         /\ \A k \in 1..Len(s) : s[k] # "null" /\ s[k] # "enter"
<1>1. CASE i = 1
  <2>1. s = <<".">>
    BY <1>1 DEF DiskInv, Root
  <2>2. s \in Seq(Range(s))
    BY NameIsSeq
  <2>3. Len(s) = 1 /\ s[1] = "." /\ 1 \in 1..FILE_NAME
    BY <2>1, DiskAssumption
  <2>4. QED
    BY <2>2, <2>3
<1>2. CASE i # 1
  <2>1. s \in Names
    BY <1>2 DEF DiskInv
  <2>2. /\ s \in Seq(Range(s)) /\ Len(s) \in 1..FILE_NAME
        /\ Range(s) \cap {"null", "enter"} = {}
    BY <2>1, NamesAssumption
  <2>3. \A k \in 1..Len(s) : s[k] \in Range(s)
    BY <2>2, ElementOfSeq
  <2>4. QED
    BY <2>2, <2>3
<1>3. QED
  BY <1>1, <1>2

LEMMA BytesCopied ==
  ASSUME NEW i, NEW n \in Int, n >= FILE_NAME, NEW k \in 0..(FILE_NAME - 1)
  PROVE  Entry(i, n).buf[k] = Stored(dir[i].name)[k]
<1>. DEFINE src == Stored(dir[i].name)
<1>1. PICK w \in Nat \ {0}, p \in Nat, q \in Nat :
        w = Word /\ p = FILE_NAME \div Word /\ q = n \div Word
  BY FilesAssumption, DiskAssumption
<1>2. p <= q
  BY <1>1, FilesAssumption, DiskAssumption, DivMonotonic
<1>3. w * p <= w * q
  <2>1. p * w <= q * w /\ p * w = w * p /\ q * w = w * q
    BY <1>2, Times
  <2>2. QED
    BY <2>1
<1>4. k < Word * (n \div Word)
  <2>1. w * p = FILE_NAME
    BY <1>1, WholeWords
  <2>2. w * p \in Nat /\ w * q \in Nat
    OBVIOUS
  <2>3. k < w * q
    BY <1>3, <2>1, <2>2
  <2>4. QED
    BY <1>1, <2>3
<1>5. k \in DOMAIN Untouched
  <2>1. FILE_NAME * Word \in Nat
    BY FilesAssumption, DiskAssumption
  <2>2. QED
    BY <2>1, DiskAssumption DEF Untouched
<1>6. MyCopy(Untouched, src, n)[k] = src[k]
  <2>. HIDE DEF src
  <2>1. QED
    BY <1>4, <1>5 DEF MyCopy
<1>7. QED
  BY <1>6 DEF Entry

LEMMA EntryName ==
  ASSUME DiskInv, NEW i \in 1..Len(dir), NEW n \in Int, n >= FILE_NAME
  PROVE  NameOf(Entry(i, n)) = dir[i].name
<1>. PICK s, buf : s = dir[i].name /\ buf = Entry(i, n).buf
  OBVIOUS
<1>. PICK N \in Nat \ {0} : N = FILE_NAME
  BY DiskAssumption
<1>1. /\ s \in Seq(Range(s)) /\ Len(s) \in 1..N
      /\ \A k \in 1..Len(s) : s[k] # "null"
  BY NameHas
<1>. PICK m \in 1..N : m = Len(s)
  BY <1>1
<1>2. \A k \in 0..(N - 1) : buf[k] = IF k < m THEN s[k + 1] ELSE "null"
  <2>. SUFFICES ASSUME NEW k \in 0..(N - 1)
                PROVE  buf[k] = IF k < m THEN s[k + 1] ELSE "null"
    OBVIOUS
  <2>1. buf[k] = Stored(s)[k]
    BY BytesCopied
  <2>2. k \in DOMAIN Untouched
    <3>1. FILE_NAME * Word \in Nat
      BY FilesAssumption, DiskAssumption
    <3>2. QED
      BY <3>1 DEF Untouched
  <2>3. Stored(s)[k] = IF k < m THEN s[k + 1] ELSE "null"
    BY <2>2 DEF Stored
  <2>4. QED
    BY <2>1, <2>3
<1>. DEFINE nulls == {k \in 0..(N - 1) : buf[k] = "null"}
<1>3. nulls = {k \in 0..(N - 1) : k >= m}
  <2>1. ASSUME NEW k \in 0..(N - 1)
        PROVE  buf[k] = "null" <=> k >= m
    <3>1. CASE k < m
      <4>1. k + 1 \in 1..m
        BY <3>1
      <4>2. QED
        BY <1>1, <1>2, <3>1, <4>1
    <3>2. CASE ~(k < m)
      BY <1>2, <3>2
    <3>3. QED
      BY <3>1, <3>2
  <2>2. QED
    BY <2>1
<1>4. FirstOf(nulls, N) = m
  <2>1. CASE m = N
    <3>1. nulls = {}
      BY <1>3, <2>1
    <3>2. QED
      BY <2>1, <3>1 DEF FirstOf
  <2>2. CASE m < N
    <3>1. m \in nulls /\ nulls \subseteq Nat /\ \A k \in nulls : k >= m
      BY <1>3, <2>2, SMTT(30)
    <3>. HIDE DEF nulls
    <3>2. PICK l : l = FirstOf(nulls, N)
      OBVIOUS
    <3>3. l \in nulls /\ \A k \in nulls : l <= k
      BY <3>1, <3>2, LeastIs
    <3>4. QED
      BY <3>1, <3>2, <3>3
  <2>3. QED
    BY <2>1, <2>2
<1>. DEFINE shown == [k \in 1..m |-> buf[k - 1]]
<1>5. NameOf(Entry(i, n)) = shown
  BY <1>4 DEF NameOf
<1>6. shown = [k \in 1..m |-> s[k]]
  <2>1. \A k \in 1..m : buf[k - 1] = s[k]
    <3>. SUFFICES ASSUME NEW k \in 1..m
                  PROVE  buf[k - 1] = s[k]
      OBVIOUS
    <3>1. k - 1 \in 0..(N - 1) /\ k - 1 < m /\ (k - 1) + 1 = k
      OBVIOUS
    <3>2. QED
      BY <1>2, <3>1
  <2>2. QED
    BY <2>1
<1>7. s = [k \in 1..m |-> s[k]]
  BY <1>1, LenProperties
<1>8. QED
  BY <1>5, <1>6, <1>7, Zenon

(***************************************************************************)
(* A function defined by recursion on the numbers up to N exists.          *)
(***************************************************************************)
Iterates(f, N, S, a, g) ==
  f \in [0..N -> S] /\ f[0] = a /\ \A n \in 1..N : f[n] = g[n][f[n - 1]]

LEMMA Recursion ==
  ASSUME NEW N \in Nat, NEW S, NEW a \in S, NEW g \in [1..N -> [S -> S]]
  PROVE  \E f : Iterates(f, N, S, a, g)
<1>. DEFINE Ok(n, f) == f[0] = a /\ \A i \in 1..n : f[i] = g[i][f[i - 1]]
            T == {n \in Nat : n <= N => \E f \in [0..n -> S] : Ok(n, f)}
<1>1. 0 \in T
  <2>1. [i \in 0..0 |-> a] \in [0..0 -> S] /\ Ok(0, [i \in 0..0 |-> a])
    OBVIOUS
  <2>2. QED
    BY <2>1
<1>2. ASSUME NEW n \in Nat, n \in T
      PROVE  n + 1 \in T
  <2>. SUFFICES ASSUME n + 1 <= N
                PROVE  \E f \in [0..(n + 1) -> S] : Ok(n + 1, f)
    OBVIOUS
  <2>1. PICK f \in [0..n -> S] : Ok(n, f)
    BY <1>2
  <2>. DEFINE h == [i \in 0..(n + 1) |-> IF i = n + 1 THEN g[n + 1][f[n]] ELSE f[i]]
  <2>2. n + 1 \in 1..N /\ f[n] \in S
    OBVIOUS
  <2>3. h \in [0..(n + 1) -> S]
    BY <2>2
  <2>4. Ok(n + 1, h)
    <3>1. h[0] = a
      BY <2>1
    <3>2. ASSUME NEW i \in 1..(n + 1)
          PROVE  h[i] = g[i][h[i - 1]]
      <4>1. CASE i = n + 1
        BY <4>1
      <4>2. CASE i \in 1..n
        BY <4>2, <2>1
      <4>3. QED
        BY <4>1, <4>2
    <3>3. QED
      BY <3>1, <3>2
  <2>5. QED
    BY <2>3, <2>4
<1>. HIDE DEF Ok
<1>3. Nat \subseteq T
  <2>. HIDE DEF T
  <2>1. QED
    BY <1>1, <1>2, NatSetInduction
<1>4. QED
  BY <1>3 DEF Ok, Iterates

(***************************************************************************)
(* What grep finds in the first n entries of the directory: Searched, for  *)
(* each n.                                                                 *)
(***************************************************************************)
SearchedBody(f) ==
  [n \in 0..Len(dir) |->
     IF n = 0 THEN <<>>
     ELSE IF Head(dir[n].name) = "." THEN f[n - 1]
     ELSE Append(f[n - 1], FileOf(dir[n]))]
SearchedTo == CHOOSE f : f = SearchedBody(f)
Skipped(n) == Head(dir[n].name) = "."
Results == {FileOf(dir[i]) : i \in 1..Len(dir)}

LEMMA SearchedIs == Searched = SearchedTo[Len(dir)]
BY DEF Searched, SearchedTo, SearchedBody

LEMMA SearchedExists ==
  ASSUME Len(dir) \in Nat
  PROVE  \E f : f = SearchedBody(f) /\ \A n \in 0..Len(dir) : f[n] \in Seq(Results)
<1>1. PICK N \in Nat : N = Len(dir)
  OBVIOUS
<1>. DEFINE S == Seq(Results)
            more(n, s) == IF Skipped(n) THEN s ELSE Append(s, FileOf(dir[n]))
            g == [n \in 1..N |-> [s \in S |-> more(n, s)]]
<1>2. <<>> \in S
  BY EmptySeq
<1>3. ASSUME NEW n \in 1..N, NEW s \in S
      PROVE  more(n, s) \in S
  <2>1. FileOf(dir[n]) \in Results
    BY <1>1 DEF Results
  <2>2. Append(s, FileOf(dir[n])) \in S
    BY <2>1, AppendProperties
  <2>3. QED
    BY <2>2
<1>. HIDE DEF more, S
<1>4. g \in [1..N -> [S -> S]]
  BY <1>3
<1>5. PICK f : Iterates(f, N, S, <<>>, g)
  <2>. HIDE DEF g
  <2>1. QED
    BY <1>2, <1>4, Recursion
<1>6. ASSUME NEW n \in 0..N
      PROVE  f[n] = (IF n = 0 THEN <<>>
                     ELSE IF Head(dir[n].name) = "." THEN f[n - 1]
                     ELSE Append(f[n - 1], FileOf(dir[n])))
  <2>1. CASE n = 0
    BY <2>1, <1>5 DEF Iterates
  <2>2. CASE n # 0
    <3>1. n \in 1..N /\ n - 1 \in 0..N
      BY <2>2
    <3>2. f[n - 1] \in S /\ f[n] = g[n][f[n - 1]]
      BY <3>1, <1>5 DEF Iterates
    <3>3. f[n] = more(n, f[n - 1])
      BY <3>1, <3>2
    <3>4. QED
      BY <3>3, <2>2 DEF more, Skipped
  <2>3. QED
    BY <2>1, <2>2
<1>7. PICK D : D = 0..N /\ f = [n \in D |-> f[n]]
  BY <1>5 DEF Iterates
<1>8. f = SearchedBody(f)
  BY <1>1, <1>6, <1>7 DEF SearchedBody
<1>9. \A n \in 0..N : f[n] \in S
  BY <1>5 DEF Iterates
<1>10. QED
  BY <1>1, <1>8, <1>9 DEF S

LEMMA SearchedSteps ==
  ASSUME Len(dir) \in Nat
  PROVE  /\ SearchedTo[0] = <<>>
         /\ \A n \in 1..Len(dir) :
              SearchedTo[n] = IF Skipped(n) THEN SearchedTo[n - 1]
                              ELSE Append(SearchedTo[n - 1], FileOf(dir[n]))
<1>1. PICK f : f = SearchedTo
  OBVIOUS
<1>2. f = SearchedBody(f)
  BY <1>1, SearchedExists DEF SearchedTo
<1>3. ASSUME NEW n \in 0..Len(dir)
      PROVE  f[n] = (IF n = 0 THEN <<>>
                     ELSE IF Head(dir[n].name) = "." THEN f[n - 1]
                     ELSE Append(f[n - 1], FileOf(dir[n])))
  <2>. DEFINE row == [k \in 0..Len(dir) |->
                        IF k = 0 THEN <<>>
                        ELSE IF Head(dir[k].name) = "." THEN f[k - 1]
                        ELSE Append(f[k - 1], FileOf(dir[k]))]
  <2>1. f = row
    BY <1>2 DEF SearchedBody
  <2>2. row[n] = (IF n = 0 THEN <<>>
                  ELSE IF Head(dir[n].name) = "." THEN f[n - 1]
                  ELSE Append(f[n - 1], FileOf(dir[n])))
    OBVIOUS
  <2>3. QED
    BY <2>1, <2>2, Zenon
<1>4. f[0] = <<>>
  BY <1>3
<1>5. ASSUME NEW n \in 1..Len(dir)
      PROVE  f[n] = IF Skipped(n) THEN f[n - 1] ELSE Append(f[n - 1], FileOf(dir[n]))
  <2>1. n \in 0..Len(dir) /\ n # 0
    OBVIOUS
  <2>2. QED
    BY <1>3, <2>1 DEF Skipped
<1>6. QED
  BY <1>1, <1>4, <1>5

LEMMA SearchedStays ==
  ASSUME UNCHANGED disk
  PROVE  /\ SearchedTo' = SearchedTo /\ Searched' = Searched /\ DirStatus' = DirStatus
         /\ AllNames' = AllNames
         /\ \A n : FileOf(dir[n])' = FileOf(dir[n]) /\ Skipped(n)' = Skipped(n)
         /\ \A s : DentryByName(s)' = DentryByName(s)
<1>1. dir' = dir /\ inodes' = inodes
  BY DEF disk
<1>2. SearchedTo' = SearchedTo
  BY <1>1 DEF SearchedTo, SearchedBody, FileOf, Content
<1>3. Searched' = Searched
  BY <1>1 DEF Searched, FileOf, Content
<1>4. DirStatus' = DirStatus /\ AllNames' = AllNames
  BY <1>1 DEF DirStatus, AllNames
<1>5. \A n : FileOf(dir[n])' = FileOf(dir[n]) /\ Skipped(n)' = Skipped(n)
  BY <1>1 DEF FileOf, Content, Skipped
<1>6. \A s : DentryByName(s)' = DentryByName(s)
  BY <1>1 DEF DentryByName, Matches
<1>7. QED
  BY <1>2, <1>3, <1>4, <1>5, <1>6

(***************************************************************************)
(* What the calls do for a program that uses them as cat, ls and grep do:  *)
(* an open of a name on the disk takes the least free descriptor; a read   *)
(* delivers the next piece; when a read returns 0, the whole file, or the  *)
(* whole directory, has been delivered.                                    *)
(***************************************************************************)
LEMMA SearchedSeq ==
  ASSUME Len(dir) \in Nat, NEW n \in 0..Len(dir)
  PROVE  SearchedTo[n] \in Seq(Results)
<1>. DEFINE Is(k) == k <= Len(dir) => SearchedTo[k] \in Seq(Results)
            T == {k \in Nat : Is(k)}
<1>1. Is(0)
  BY SearchedSteps, EmptySeq
<1>2. ASSUME NEW k \in Nat, Is(k)
      PROVE  Is(k + 1)
  <2>. SUFFICES ASSUME k + 1 <= Len(dir)
                PROVE  SearchedTo[k + 1] \in Seq(Results)
    OBVIOUS
  <2>1. PICK m \in 1..Len(dir) : m = k + 1 /\ m - 1 = k
    OBVIOUS
  <2>2. SearchedTo[m - 1] \in Seq(Results)
    BY <1>2, <2>1
  <2>3. FileOf(dir[m]) \in Results
    BY DEF Results
  <2>4. Append(SearchedTo[m - 1], FileOf(dir[m])) \in Seq(Results)
    BY <2>2, <2>3, AppendProperties
  <2>5. QED
    BY <2>1, <2>2, <2>4, SearchedSteps
<1>3. Nat \subseteq T
  <2>1. 0 \in T /\ \A k \in Nat : k \in T => k + 1 \in T
    <3>. HIDE DEF Is
    <3>1. QED
      BY <1>1, <1>2
  <2>. HIDE DEF T
  <2>2. QED
    BY <2>1, NatSetInduction
<1>4. QED
  BY <1>3

Elsewhere(d) ==
  \A e \in Fds \ {d} :
    farray'[e] = farray[e] /\ asked'[e] = asked[e] /\ log'[e] = log[e]

LEMMA OpenDoes ==
  ASSUME FilesInv, NEW s, Open(s), ~RefusesOpen(s), NEW d, d = OpenResult(s)
  PROVE  /\ d \in FreeFds /\ \A e \in FreeFds : d <= e
         /\ FreeFds' = FreeFds \ {d} /\ farray'[d] # Free
         /\ farray'[d].type = dir[DentryByName(s)].type /\ farray'[d].file_pos = 0
         /\ asked'[d] = s /\ log'[d] = <<>> /\ gr' = gr /\ UNCHANGED disk
         /\ Elsewhere(d)
<1>1. FreeFds # {} /\ FreeFds \subseteq Nat
  BY FilesAssumption DEF RefusesOpen, FreeFds, Fds
<1>2. d = FirstOf(FreeFds, 0)
  BY DEF OpenResult
<1>3. d \in FreeFds /\ \A e \in FreeFds : d <= e
  <2>. PICK F : F = FreeFds
    OBVIOUS
  <2>1. QED
    BY <1>1, <1>2, LeastIs, ZenonT(30)
<1>. PICK new : new = [flags |-> "open", type |-> dir[DentryByName(s)].type,
                       inode |-> dir[DentryByName(s)].inode, file_pos |-> 0]
  OBVIOUS
<1>4. /\ farray' = [farray EXCEPT ![d] = new] /\ log' = [log EXCEPT ![d] = <<>>]
      /\ asked' = [asked EXCEPT ![d] = s] /\ gr' = gr /\ UNCHANGED disk
  BY DEF Open
<1>5. d \in Fds
  BY <1>3 DEF FreeFds
<1>6. farray'[d] = new /\ asked'[d] = s /\ log'[d] = <<>>
  BY <1>4, <1>5 DEF FilesInv
<1>7. Elsewhere(d)
  BY <1>4 DEF FilesInv, Elsewhere
<1>8. new # Free /\ new.type = dir[DentryByName(s)].type /\ new.file_pos = 0
  <2>1. new.flags = "open" /\ Free.flags = "free"
    BY DEF Free
  <2>2. QED
    BY <2>1
<1>9. FreeFds' = FreeFds \ {d}
  <2>1. \A e \in Fds : farray'[e] = Free <=> farray[e] = Free /\ e # d
    BY <1>6, <1>7, <1>8 DEF Elsewhere
  <2>2. FreeFds' = {e \in Fds : farray'[e] = Free}
    BY DEF FreeFds
  <2>3. QED
    BY <2>1, <2>2 DEF FreeFds
<1>10. QED
  BY <1>3, <1>4, <1>6, <1>7, <1>8, <1>9

LEMMA WholeFile ==
  ASSUME FilesInv, NEW d \in Fds, IsOpen(d, "file"), NEW n \in Nat \ {0},
         NEW f, f = inodes[dir[Named(asked[d])].inode]
  PROVE  /\ Len(Data(d, n)) \in Nat
         /\ Len(Data(d, n)) = 0 => log[d] = Content(f)
<1>1. BytesDelivered(d)
  BY DEF FilesInv, Kept
<1>2. PICK i, pos, data :
        i = Named(asked[d]) /\ pos = farray[d].file_pos /\ data = ReadData(f, pos, n)
  OBVIOUS
<1>3. /\ i \in 2..Len(dir) /\ farray[d].inode = dir[i].inode /\ f = inodes[dir[i].inode]
      /\ pos \in 0..f.size /\ log[d] = SubSeq(Content(f), 1, pos)
  BY <1>1, <1>2 DEF BytesDelivered
<1>4. Data(d, n) = data
  BY <1>2, <1>3 DEF Data
<1>5. f.size \in Nat
  BY <1>3 DEF FilesInv, DiskInv
<1>6. PICK C, S : C = Content(f) /\ S = BytesOf(f)
  OBVIOUS
<1>. PICK N \in Nat : N = f.size
  BY <1>5
<1>7. C \in Seq(S) /\ Len(C) = N
  <2>1. BytesIn(f, S)
    BY <1>6 DEF BytesIn, BytesOf
  <2>2. QED
    BY <1>5, <1>6, <2>1, ContentIs
<1>8. CASE pos < f.size
  <2>1. PICK end : end = End(f, pos, n)
    OBVIOUS
  <2>2. end \in pos..f.size /\ data = SubSeq(C, pos + 1, end)
    <3>1. pos \in Nat /\ n \in Nat
      BY <1>3
    <3>2. QED
      BY <1>2, <1>5, <1>6, <1>8, <2>1, <3>1, ReadDataIs
  <2>3. end > pos
    BY <1>3, <1>5, <1>8, <2>1 DEF End, Smaller
  <2>4. PICK m \in Nat, e \in Nat : m = pos + 1 /\ e = end /\ m <= e /\ 1 <= m /\ e <= N
    <3>1. pos \in Nat /\ end \in Nat
      BY <1>3, <2>2
    <3>2. pos + 1 \in Nat /\ pos + 1 <= end /\ 1 <= pos + 1 /\ end <= N
      BY <2>2, <2>3, <3>1
    <3>3. QED
      BY <3>1, <3>2
  <2>5. \A k \in m..e : C[k] \in S
    <3>1. \A k \in m..e : k \in 1..Len(C)
      BY <1>7, <2>4
    <3>2. QED
      BY <1>7, <3>1, ElementOfSeq
  <2>6. Len(SubSeq(C, m, e)) = e - m + 1
    BY <2>4, <2>5, SubSeqProperties
  <2>7. Len(data) = e - m + 1
    BY <2>2, <2>4, <2>6, Zenon
  <2>8. QED
    BY <1>4, <2>4, <2>7
<1>9. CASE ~(pos < f.size)
  <2>1. pos = f.size /\ AtEnd(f, pos, n)
    BY <1>3, <1>5, <1>9 DEF AtEnd
  <2>2. data = <<>>
    BY <1>2, <2>1 DEF ReadData
  <2>3. Len(data) = 0
    BY <2>2
  <2>4. SubSeq(C, 1, pos) = C
    BY <1>7, <2>1, SubSeqFull
  <2>5. QED
    BY <1>3, <1>4, <1>6, <2>3, <2>4
<1>10. QED
  BY <1>8, <1>9

LEMMA WholeDirectory ==
  ASSUME FilesInv, NEW d \in Fds, IsOpen(d, "dir"),
         NEW pos, pos = farray[d].file_pos, NEW r, r = DirResult(pos)
  PROVE  /\ pos \in 0..Len(dir) /\ r \in Int /\ Len(dir) \in Nat
         /\ r > 0 => pos < Len(dir)
         /\ r = 0 => pos = Len(dir) /\ DirStatus = 0
         /\ r = -1 => pos = Len(dir) /\ DirStatus = 3
         /\ r \in {-1, 0} \/ r > 0
<1>1. EntriesDelivered(d)
  BY DEF FilesInv, Kept
<1>2. Len(dir) \in 1..MAX_FILES /\ Len(log[d]) \in Nat
  BY <1>1 DEF FilesInv, DiskInv, EntriesDelivered
<1>3. pos \in 0..Len(dir)
  BY <1>1, <1>2 DEF EntriesDelivered
<1>4. PICK F \in Nat \ {0}, M \in Nat : F = FILE_NAME /\ M = MAX_FILES
  BY DiskAssumption, FilesAssumption
<1>5. r = IF pos >= M THEN -1 ELSE IF pos < Len(dir) THEN F ELSE 0
  <2>1. CASE pos >= M
    BY <1>2, <1>3, <1>4, <2>1 DEF DirResult
  <2>2. CASE ~(pos >= M)
    BY <1>2, <1>3, <1>4, <2>2 DEF DirResult
  <2>3. QED
    BY <2>1, <2>2
<1>6. DirStatus = IF Len(dir) = M THEN 3 ELSE 0
  BY <1>4 DEF DirStatus
<1>7. PICK l \in Nat : l = Len(dir) /\ pos \in 0..l /\ l <= M
  <2>1. PICK l : l = Len(dir)
    OBVIOUS
  <2>2. l \in 1..M
    BY <1>2, <1>4, <2>1
  <2>3. QED
    BY <1>3, <2>1, <2>2
<1>8. CASE pos >= M
  BY <1>4, <1>5, <1>6, <1>7, <1>8
<1>9. CASE ~(pos >= M) /\ pos < l
  BY <1>4, <1>5, <1>6, <1>7, <1>9
<1>10. CASE ~(pos >= M) /\ ~(pos < l)
  BY <1>4, <1>5, <1>6, <1>7, <1>10
<1>11. QED
  BY <1>8, <1>9, <1>10

LEMMA ReadDoes ==
  ASSUME FilesInv, NEW x, NEW n \in Nat \ {0}, Read(x, n), NEW d \in Fds, d = Forced(x),
         farray[d] # Free, farray[d].type \in {"file", "dir", "rtc"}
  PROVE  /\ ReadResult(x, n) = CASE IsOpen(d, "file") -> Len(Data(d, n))
                                 [] IsOpen(d, "dir") -> DirResult(farray[d].file_pos)
                                 [] IsOpen(d, "rtc") -> 0
         /\ FreeFds' = FreeFds /\ farray'[d] # Free /\ farray'[d].type = farray[d].type
         /\ gr' = gr /\ asked' = asked /\ UNCHANGED disk /\ Elsewhere(d)
         /\ IF ReadResult(x, n) > 0
            THEN log'[d] = log[d] \o Delivered(d, n) /\ farray'[d].file_pos = Advanced(d, n)
            ELSE log'[d] = log[d] /\ farray'[d] = farray[d]
<1>1. ~RefusesRead(d, n)
  BY DEF RefusesRead, FreeFds
<1>2. ReadResult(x, n) = CASE IsOpen(d, "file") -> Len(Data(d, n))
                           [] IsOpen(d, "dir") -> DirResult(farray[d].file_pos)
                           [] IsOpen(d, "rtc") -> 0
  BY <1>1, Zenon DEF ReadResult
<1>3. gr' = gr /\ asked' = asked /\ UNCHANGED disk
  BY DEF Read
<1>4. CASE UNCHANGED <<farray, log>> /\ ~(ReadResult(x, n) > 0)
  <2>1. Elsewhere(d) /\ FreeFds' = FreeFds
    BY <1>3, <1>4 DEF Elsewhere, FreeFds
  <2>2. farray' = farray /\ log' = log
    BY <1>4
  <2>. PICK r : r = ReadResult(x, n)
    OBVIOUS
  <2>3. ~(r > 0)
    BY <1>4
  <2>4. QED
    BY <1>2, <1>3, <2>1, <2>2, <2>3, Zenon
<1>5. CASE /\ ReadResult(x, n) > 0
           /\ log' = [log EXCEPT ![d] = @ \o Delivered(d, n)]
           /\ farray' = [farray EXCEPT ![d].file_pos = Advanced(d, n)]
  <2>1. IsRecord(farray[d])
    BY DEF FilesInv, Kept
  <2>. DEFINE moved == [farray[d] EXCEPT !.file_pos = Advanced(d, n)]
  <2>2. farray' = [farray EXCEPT ![d] = moved]
    BY <1>5
  <2>3. /\ moved.type = farray[d].type /\ moved.file_pos = Advanced(d, n)
        /\ moved.flags = farray[d].flags /\ IsRecord(moved)
    BY <2>1 DEF IsRecord
  <2>4. moved # Free
    <3>1. DOMAIN moved = {"flags", "type", "inode", "file_pos"}
      BY <2>3 DEF IsRecord
    <3>2. DOMAIN Free = {"flags"}
      BY DEF Free
    <3>3. "type" \in DOMAIN moved /\ "type" \notin DOMAIN Free
      BY <3>1, <3>2
    <3>. HIDE DEF moved
    <3>4. QED
      BY <3>3
  <2>. HIDE DEF moved
  <2>5. farray'[d] = moved /\ log'[d] = log[d] \o Delivered(d, n)
    BY <1>5, <2>2 DEF FilesInv
  <2>6. Elsewhere(d)
    BY <1>3, <1>5, <2>2 DEF FilesInv, Elsewhere
  <2>7. FreeFds' = FreeFds
    <3>1. \A e \in Fds : farray'[e] = Free <=> farray[e] = Free
      BY <2>4, <2>5, <2>6 DEF Elsewhere
    <3>2. QED
      BY <3>1 DEF FreeFds
  <2>8. QED
    BY <1>2, <1>3, <1>5, <2>3, <2>4, <2>5, <2>6, <2>7, Zenon
<1>6. QED
  <2>1. PICK r : r = ReadResult(x, n)
    OBVIOUS
  <2>2. r \in Int
    <3>1. CASE IsOpen(d, "file")
      <4>1. r = Len(Data(d, n))
        BY <1>2, <2>1, <3>1 DEF IsOpen
      <4>2. QED
        BY <3>1, <4>1, WholeFile
    <3>2. CASE IsOpen(d, "dir")
      <4>1. r = DirResult(farray[d].file_pos)
        BY <1>2, <2>1, <3>2 DEF IsOpen
      <4>2. QED
        BY <3>2, <4>1, WholeDirectory
    <3>3. CASE IsOpen(d, "rtc")
      BY <1>2, <2>1, <3>3 DEF IsOpen
    <3>4. QED
      BY <3>1, <3>2, <3>3 DEF IsOpen
  <2>3. r <= 0 => ~(r > 0)
    BY <2>2
  <2>4. \/ ReadResult(x, n) <= 0 /\ UNCHANGED <<farray, log>>
        \/ /\ ReadResult(x, n) > 0
           /\ log' = [log EXCEPT ![d] = @ \o Delivered(d, n)]
           /\ farray' = [farray EXCEPT ![d].file_pos = Advanced(d, n)]
    BY Zenon DEF Read
  <2>5. QED
    BY <1>4, <1>5, <2>1, <2>3, <2>4

(***************************************************************************)
(* cat and ls. Between two reads they have printed what their descriptor   *)
(* delivered, and nothing else (Printed).                                  *)
(***************************************************************************)
Printed ==
  /\ fd \in Fds /\ farray[fd] # Free /\ asked[fd] = Opened /\ out = log[fd]
  /\ DentryByName(Opened) # 0 /\ farray[fd].type = dir[DentryByName(Opened)].type
  /\ IsOpen(fd, "rtc") => out = <<>>
  /\ IsOpen(fd, "dir") => \A k \in 1..Len(out) : out[k] = Entry(k, chunk)

Printing ==
  /\ gr = FALSE /\ chunk \in Nat \ {0} /\ chunk >= FILE_NAME
  /\ pc = "start" => FreeFds = Fds /\ out = <<>>
  /\ pc = "loop" => Printed
  /\ pc = "done" => ProgramsDeliver

LEMMA TypeOfEntry ==
  ASSUME DiskInv, NEW s, NEW i, i = DentryByName(s), i # 0
  PROVE  /\ i \in 1..Len(dir) /\ dir[i].type \in {"file", "dir", "rtc"}
         /\ s = Root => dir[i].type = "dir"
<1>1. i \in 1..Len(dir)
  BY FoundIs
<1>2. dir[i].type \in {"file", "dir", "rtc"}
  <2>1. CASE i = 1
    BY <2>1 DEF DiskInv
  <2>2. CASE i # 1
    <3>1. i \in 2..Len(dir)
      BY <1>1, <2>2
    <3>2. QED
      BY <3>1 DEF DiskInv
  <2>3. QED
    BY <2>1, <2>2
<1>3. s = Root => dir[i].type = "dir"
  BY RootFound DEF DiskInv
<1>4. QED
  BY <1>1, <1>2, <1>3

Told(i) ==
  /\ dir[i].type = "file" => status' = 0 /\ out' = Content(inodes[dir[i].inode])
  /\ dir[i].type = "rtc" => status' = 0 /\ out' = <<>>
  /\ dir[i].type = "dir" => status' = DirStatus /\ Listed' = AllNames

LEMMA ToldRight ==
  ASSUME DiskInv, prog \in {"cat", "ls"}, UNCHANGED <<disk, prog, arg>>,
         NEW i, i = DentryByName(Opened), i # 0, Told(i)
  PROVE  ProgramsDeliver'
<1>1. dir[i].type \in {"file", "dir", "rtc"} /\ (prog = "ls" => dir[i].type = "dir")
  BY TypeOfEntry DEF Opened
<1>2. /\ dir' = dir /\ inodes' = inodes /\ prog' = prog /\ arg' = arg
      /\ DirStatus' = DirStatus /\ AllNames' = AllNames
      /\ \A s : DentryByName(s)' = DentryByName(s)
  BY SearchedStays DEF disk
<1>3. CASE prog = "ls"
  BY <1>1, <1>2, <1>3 DEF ProgramsDeliver, Told
<1>4. CASE prog = "cat"
  <2>1. DentryByName(arg)' = i
    <3>1. DentryByName(arg) = i
      BY <1>4 DEF Opened
    <3>2. QED
      BY <1>2, <3>1 DEF DentryByName, Matches
  <2>2. Content(inodes[dir[i].inode])' = Content(inodes[dir[i].inode])
    BY <1>2 DEF Content
  <2>3. CASE dir[i].type = "file"
    <3>1. CatDelivers'
      BY <1>2, <2>1, <2>2, <2>3 DEF Told, CatDelivers
    <3>2. QED
      BY <1>2, <1>4, <3>1 DEF ProgramsDeliver
  <2>4. CASE dir[i].type = "rtc"
    <3>1. CatDelivers'
      BY <1>2, <2>1, <2>4 DEF Told, CatDelivers
    <3>2. QED
      BY <1>2, <1>4, <3>1 DEF ProgramsDeliver
  <2>5. CASE dir[i].type = "dir"
    <3>1. CatDelivers'
      BY <1>2, <2>1, <2>5 DEF Told, CatDelivers
    <3>2. QED
      BY <1>2, <1>4, <3>1 DEF ProgramsDeliver
  <2>6. QED
    BY <1>1, <2>3, <2>4, <2>5
<1>5. QED
  BY <1>3, <1>4

LEMMA ListedAll ==
  ASSUME FilesInv, NEW d \in Fds, IsOpen(d, "dir"), chunk >= FILE_NAME, out = log[d],
         farray[d].file_pos = Len(dir), \A k \in 1..Len(out) : out[k] = Entry(k, chunk)
  PROVE  Listed = AllNames
<1>1. Len(out) = Len(dir)
  BY DEF FilesInv, Kept, EntriesDelivered
<1>2. ASSUME NEW k \in 1..Len(dir)
      PROVE  NameOf(out[k]) = dir[k].name
  <2>1. out[k] = Entry(k, chunk)
    BY <1>1
  <2>2. NameOf(Entry(k, chunk)) = dir[k].name
    BY EntryName DEF FilesInv
  <2>3. QED
    BY <2>1, <2>2
<1>3. QED
  BY <1>1, <1>2, Zenon DEF Listed, AllNames

LEMMA EmptyNobody ==
  ASSUME DiskInv
  PROVE  DentryByName(<<>>) = 0
<1>. SUFFICES ASSUME DentryByName(<<>>) # 0
              PROVE  FALSE
  OBVIOUS
<1>1. PICK i \in 1..Len(dir) : Matches(<<>>, dir[i].name)
  BY FoundIs
<1>2. LengthOf(<<>>) = 0
  BY DEF LengthOf
<1>3. Len(dir[i].name) \in 1..FILE_NAME
  BY NameHas
<1>4. QED
  BY <1>1, <1>2, <1>3 DEF Matches

LEMMA OpenItPrints ==
  ASSUME FilesInv, Printing, OpenIt
  PROVE  Printing'
<1>. PICK s, d : s = Opened /\ d = OpenResult(s)
  OBVIOUS
<1>1. /\ Open(s) /\ fd' = d /\ gr' = gr /\ UNCHANGED <<disk, prog, arg, chunk, out>>
      /\ IF d = -1 THEN pc' = "done" /\ status' = 2 ELSE pc' = "loop"
      /\ prog \in {"cat", "ls"} /\ FreeFds = Fds /\ out = <<>>
  BY DEF OpenIt, Open, Return, KeepMain, Printing
<1>2. Opened' = s
  BY <1>1 DEF Opened
<1>3. DentryByName(s)' = DentryByName(s)
  BY <1>1, SearchedStays
<1>4. gr' = FALSE /\ chunk' = chunk /\ chunk \in Nat \ {0} /\ chunk >= FILE_NAME
  BY <1>1 DEF Printing
<1>5. Fds # {}
  <2>1. 2 \in Fds
    BY ProgramsAssumption, FilesAssumption DEF Fds
  <2>2. QED
    BY <2>1
<1>6. CASE RefusesOpen(s)
  <2>1. d = -1
    BY <1>6 DEF OpenResult
  <2>2. DentryByName(s) = 0
    BY <1>1, <1>5, <1>6, EmptyNobody DEF RefusesOpen, FilesInv
  <2>3. prog = "cat"
    <3>1. prog = "ls" => s = Root
      BY DEF Opened
    <3>2. QED
      BY <1>1, <2>2, <3>1, RootFound DEF FilesInv
  <2>4. s = arg /\ arg' = arg
    BY <1>1, <2>3 DEF Opened
  <2>5. DentryByName(arg)' = 0
    BY <1>1, <2>2, <2>4 DEF DentryByName, Matches, disk
  <2>6. pc' = "done" /\ status' = 2 /\ out' = <<>> /\ prog' = "cat"
    BY <1>1, <2>1, <2>3
  <2>7. CatDelivers'
    BY <2>5, <2>6 DEF CatDelivers
  <2>8. ProgramsDeliver'
    BY <2>6, <2>7 DEF ProgramsDeliver
  <2>9. QED
    BY <1>4, <2>6, <2>8 DEF Printing
<1>7. CASE ~RefusesOpen(s)
  <2>1. /\ d \in FreeFds /\ farray'[d] # Free
        /\ farray'[d].type = dir[DentryByName(s)].type
        /\ asked'[d] = s /\ log'[d] = <<>>
    BY <1>1, <1>7, OpenDoes
  <2>2. d \in Fds /\ d # -1
    BY <2>1, FilesAssumption DEF FreeFds, Fds
  <2>3. DentryByName(s) # 0 /\ dir' = dir
    BY <1>1, <1>7 DEF RefusesOpen, disk
  <2>4. out' = <<>> /\ pc' = "loop"
    BY <1>1, <2>2
  <2>5. /\ DentryByName(Opened)' = DentryByName(s)
    BY <1>2, <2>3 DEF DentryByName, Matches
  <2>6. Printed'
    BY <1>1, <1>2, <2>1, <2>2, <2>3, <2>4, <2>5 DEF Printed
  <2>7. QED
    BY <1>4, <2>4, <2>6 DEF Printing
<1>8. QED
  BY <1>6, <1>7

(***************************************************************************)
(* A read of one of them adds to what is printed what it adds to what the  *)
(* descriptor delivered, and the last one leaves all of it printed.        *)
(***************************************************************************)
AllEntries(d, n) == \A k \in 1..Len(log[d]) : log[d][k] = Entry(k, n)

LEMMA EntryGrows ==
  ASSUME FilesInv, NEW d \in Fds, IsOpen(d, "dir"), NEW n, UNCHANGED disk,
         NEW pos, pos = farray[d].file_pos, pos < Len(dir),
         log'[d] = log[d] \o << Entry(pos + 1, n) >>,
         AllEntries(d, n), n \in Int
  PROVE  AllEntries(d, n)'
<1>. PICK l, new : l = log[d] /\ new = Entry(pos + 1, n)
  OBVIOUS
<1>1. l \in Seq(Entries) /\ Len(l) = pos /\ pos \in Nat /\ Len(dir) \in Nat
  <2>1. EntriesDelivered(d)
    BY DEF FilesInv, Kept
  <2>2. QED
    BY <2>1 DEF EntriesDelivered, FilesInv, DiskInv
<1>2. new \in Entries
  <2>1. pos + 1 \in 1..Len(dir)
    BY <1>1
  <2>2. QED
    BY <2>1 DEF Entries
<1>3. /\ Len(l \o <<new>>) = pos + 1
      /\ \A k \in 1..(pos + 1) : (l \o <<new>>)[k] = IF k <= pos THEN l[k] ELSE <<new>>[k - pos]
  <2>1. PICK w : w = <<new>> /\ w \in Seq(Entries) /\ Len(w) = 1
    <3>1. <<new>> \in Seq(Entries) /\ Len(<<new>>) = 1
      BY <1>2
    <3>2. QED
      BY <3>1
  <2>2. /\ Len(l \o w) = Len(l) + Len(w)
        /\ \A k \in 1..(Len(l) + Len(w)) :
             (l \o w)[k] = IF k <= Len(l) THEN l[k] ELSE w[k - Len(l)]
    <3>. PICK S : S = Entries
      OBVIOUS
    <3>1. l \in Seq(S) /\ w \in Seq(S)
      BY <1>1, <2>1
    <3>2. QED
      BY <3>1, ConcatProperties
  <2>3. QED
    BY <1>1, <2>1, <2>2
<1>4. ASSUME NEW k \in 1..(pos + 1)
      PROVE  (l \o <<new>>)[k] = Entry(k, n)
  <2>1. CASE k <= pos
    <3>1. k \in 1..Len(l)
      BY <1>1, <2>1
    <3>2. l[k] = Entry(k, n)
      BY <3>1 DEF AllEntries
    <3>3. QED
      BY <1>3, <2>1, <3>2
  <2>2. CASE ~(k <= pos)
    <3>1. k = pos + 1 /\ k - pos = 1
      BY <1>1, <2>2, SMTT(30)
    <3>2. <<new>>[1] = new
      OBVIOUS
    <3>3. (l \o <<new>>)[k] = new
      BY <1>3, <2>2, <3>1, <3>2
    <3>4. QED
      BY <3>1, <3>3, Zenon
  <2>3. QED
    BY <2>1, <2>2
<1>5. \A k : Entry(k, n)' = Entry(k, n)
  BY DEF Entry, Stored, disk
<1>6. log'[d] = l \o <<new>>
  OBVIOUS
<1>7. QED
  BY <1>3, <1>4, <1>5, <1>6 DEF AllEntries

LEMMA PrintItPrints ==
  ASSUME FilesInv, Printing, PrintIt
  PROVE  Printing'
<1>. PICK s, d, n, i, r :
       s = Opened /\ d = fd /\ n = chunk /\ i = DentryByName(s) /\ r = ReadResult(d, n)
  OBVIOUS
<1>1. /\ Read(d, n) /\ UNCHANGED <<prog, arg, chunk, fd>>
      /\ prog \in {"cat", "ls"} /\ Printed
      /\ n \in Nat \ {0} /\ n >= FILE_NAME /\ gr = FALSE
      /\ \/ r = 0 /\ pc' = "done" /\ status' = 0 /\ out' = out
         \/ r = -1 /\ pc' = "done" /\ status' = 3 /\ out' = out
         \/ r > 0 /\ out' = out \o Delivered(d, n) /\ pc' = pc
  BY DEF PrintIt, Return, Stay, KeepMain, KeepGrep, Printing
<1>2. /\ d \in Fds /\ farray[d] # Free /\ asked[d] = s /\ out = log[d]
      /\ i # 0 /\ farray[d].type = dir[i].type
      /\ IsOpen(d, "rtc") => out = <<>>
      /\ IsOpen(d, "dir") => \A k \in 1..Len(out) : out[k] = Entry(k, n)
  BY <1>1 DEF Printed
<1>3. /\ i \in 1..Len(dir) /\ dir[i].type \in {"file", "dir", "rtc"}
      /\ d = Forced(d)
  BY <1>1, <1>2, TypeOfEntry DEF FilesInv, Forced
<1>4. /\ r = CASE IsOpen(d, "file") -> Len(Data(d, n))
               [] IsOpen(d, "dir") -> DirResult(farray[d].file_pos)
               [] IsOpen(d, "rtc") -> 0
      /\ farray'[d] # Free /\ farray'[d].type = farray[d].type
      /\ gr' = gr /\ asked' = asked /\ UNCHANGED disk
      /\ IF r > 0
         THEN log'[d] = log[d] \o Delivered(d, n) /\ farray'[d].file_pos = Advanced(d, n)
         ELSE log'[d] = log[d] /\ farray'[d] = farray[d]
  BY <1>1, <1>2, <1>3, ReadDoes, ZenonT(30)
<1>5. gr' = FALSE /\ chunk' = n /\ Opened' = s /\ UNCHANGED disk
  BY <1>1, <1>4 DEF Opened
<1>6. pc = "loop"
  BY DEF PrintIt
<1>7. IsOpen(d, "file") => r = Len(Data(d, n))
  BY <1>4 DEF IsOpen
<1>8. IsOpen(d, "dir") => r = DirResult(farray[d].file_pos)
  BY <1>4 DEF IsOpen
<1>9. IsOpen(d, "rtc") => r = 0
  BY <1>4 DEF IsOpen
<1>10. \A type : IsOpen(d, type) <=> dir[i].type = type
  BY <1>2 DEF IsOpen
<1>11. CASE /\ pc' = "done" /\ out' = out
            /\ \/ r = 0 /\ status' = 0
               \/ r = -1 /\ status' = 3
  <2>1. ASSUME dir[i].type = "file"
        PROVE  status' = 0 /\ out' = Content(inodes[dir[i].inode])
    <3>1. IsOpen(d, "file")
      BY <1>10, <2>1
    <3>2. Named(asked[d]) = i
      BY <1>2, <2>1, NamedIs DEF FilesInv
    <3>. PICK f : f = inodes[dir[i].inode]
      OBVIOUS
    <3>3. Len(Data(d, n)) \in Nat /\ (Len(Data(d, n)) = 0 => log[d] = Content(f))
      BY <1>1, <1>2, <3>1, <3>2, WholeFile
    <3>4. r # -1
      BY <1>7, <3>1, <3>3
    <3>5. QED
      BY <1>2, <1>7, <1>11, <3>1, <3>3, <3>4
  <2>2. ASSUME dir[i].type = "rtc"
        PROVE  status' = 0 /\ out' = <<>>
    <3>1. IsOpen(d, "rtc")
      BY <1>10, <2>2
    <3>2. QED
      BY <1>2, <1>9, <1>11, <3>1
  <2>3. ASSUME dir[i].type = "dir"
        PROVE  status' = DirStatus /\ Listed' = AllNames
    <3>1. IsOpen(d, "dir")
      BY <1>10, <2>3
    <3>. PICK pos : pos = farray[d].file_pos
      OBVIOUS
    <3>2. /\ r = 0 => pos = Len(dir) /\ DirStatus = 0
          /\ r = -1 => pos = Len(dir) /\ DirStatus = 3
      BY <1>2, <1>8, <3>1, WholeDirectory
    <3>3. pos = Len(dir) /\ status' = DirStatus
      BY <1>11, <3>2
    <3>4. Listed = AllNames
      BY <1>1, <1>2, <3>1, <3>3, ListedAll
    <3>5. Listed' = Listed
      BY <1>11 DEF Listed
    <3>6. QED
      BY <3>3, <3>4, <3>5
  <2>4. Told(i)
    BY <2>1, <2>2, <2>3 DEF Told
  <2>5. ProgramsDeliver'
    BY <1>1, <1>2, <1>5, <2>4, ToldRight DEF FilesInv
  <2>6. QED
    BY <1>1, <1>5, <1>11, <2>5 DEF Printing
<1>12. CASE r > 0 /\ out' = out \o Delivered(d, n) /\ pc' = pc
  <2>1. out' = log'[d]
    BY <1>2, <1>4, <1>12
  <2>2. IsOpen(d, "rtc")' => FALSE
    BY <1>2, <1>4, <1>9, <1>12 DEF IsOpen
  <2>3. ASSUME IsOpen(d, "dir")'
        PROVE  AllEntries(d, n)'
    <3>1. IsOpen(d, "dir") /\ ~IsOpen(d, "file")
      BY <1>2, <1>4, <2>3 DEF IsOpen
    <3>. PICK pos : pos = farray[d].file_pos
      OBVIOUS
    <3>2. pos < Len(dir)
      BY <1>2, <1>8, <1>12, <3>1, WholeDirectory
    <3>3. Delivered(d, n) = << Entry(pos + 1, n) >>
      BY <3>1 DEF Delivered, Entry
    <3>4. log'[d] = log[d] \o << Entry(pos + 1, n) >>
      BY <1>4, <1>12, <3>3
    <3>5. AllEntries(d, n)
      BY <1>2, <3>1 DEF AllEntries
    <3>6. QED
      <4>1. n \in Int /\ d \in Fds /\ UNCHANGED disk /\ IsOpen(d, "dir")
        BY <1>1, <1>2, <1>5, <3>1
      <4>2. QED
        BY <3>2, <3>4, <3>5, <4>1, EntryGrows
  <2>4. DentryByName(Opened)' = i /\ dir' = dir
    BY <1>5 DEF DentryByName, Matches, disk
  <2>5. fd' = d /\ d \in Fds /\ farray'[d] # Free /\ asked'[d] = Opened'
        /\ DentryByName(Opened)' # 0 /\ farray'[d].type = dir[i].type
    BY <1>1, <1>2, <1>4, <1>5, <2>4
  <2>6. Printed'
    <3>1. IsOpen(fd, "rtc")' => out' = <<>>
      BY <2>2, <2>5
    <3>2. IsOpen(fd, "dir")' => \A k \in 1..Len(out') : out'[k] = Entry(k, chunk)'
      <4>1. ASSUME IsOpen(d, "dir")', NEW k \in 1..Len(log'[d])
            PROVE  log'[d][k] = Entry(k, n)'
        BY <2>3, <4>1 DEF AllEntries
      <4>2. \A k : Entry(k, chunk)' = Entry(k, n)'
        BY <1>5 DEF Entry
      <4>3. fd' = d
        BY <2>5
      <4>4. IsOpen(fd, "dir")' => IsOpen(d, "dir")'
        BY <4>3 DEF IsOpen
      <4>5. QED
        BY <2>1, <4>1, <4>2, <4>4
    <3>3. QED
      BY <2>1, <2>4, <2>5, <3>1, <3>2 DEF Printed
  <2>7. QED
    BY <1>1, <1>5, <1>6, <1>12, <2>6 DEF Printing
<1>13. QED
  BY <1>1, <1>11, <1>12

(***************************************************************************)
(* grep. The name it reads from the directory is on the disk, at the       *)
(* entry it was read from; and what a read of the file adds to its last    *)
(* result.                                                                 *)
(***************************************************************************)
LEMMA NameFound ==
  ASSUME DiskInv, NEW i \in 1..Len(dir), ~Skipped(i), NEW s, s = dir[i].name
  PROVE  DentryByName(s) = i /\ s # <<>> /\ dir[i].type \in {"file", "rtc"}
<1>0. Head(Root) = "."
  BY DEF Root
<1>1. i # 1 /\ i \in 2..Len(dir)
  BY <1>0 DEF DiskInv, Skipped
<1>2. /\ s \in Seq(Range(s)) /\ Len(s) \in 1..FILE_NAME
      /\ \A k \in 1..Len(s) : s[k] # "enter"
  BY NameHas
<1>3. s # <<>> /\ LengthOf(s) = Len(s)
  <2>1. s[Len(s)] # "enter"
    BY <1>2
  <2>2. s # <<>>
    BY <1>2
  <2>3. QED
    BY <2>1, <2>2 DEF LengthOf, Last
<1>4. SubSeq(s, 1, Len(s)) = s
  BY <1>2, SubSeqFull
<1>5. Matches(s, s)
  BY <1>3, <1>4 DEF Matches, IsPrefix
<1>. DEFINE M == {k \in 1..Len(dir) : Matches(s, dir[k].name)}
<1>6. DentryByName(s) = FirstOf(M, 0)
  BY <1>2, <1>3, DiskAssumption DEF DentryByName
<1>7. i \in M /\ M \subseteq Nat /\ M # {}
  BY <1>5
<1>8. \A k \in M : k = i
  <2>. SUFFICES ASSUME NEW k \in 1..Len(dir), Matches(s, dir[k].name)
                PROVE  k = i
    OBVIOUS
  <2>1. dir[k].name = s
    <3>1. SubSeq(s, 1, LengthOf(s)) = dir[k].name
      BY NameIsSeq, MatchesIs
    <3>2. QED
      BY <1>3, <1>4, <3>1
  <2>2. k # 1
    BY <1>0, <2>1 DEF DiskInv, Skipped
  <2>3. k \in 2..Len(dir)
    BY <2>2
  <2>4. QED
    BY <1>1, <2>1, <2>3 DEF DiskInv
<1>9. FirstOf(M, 0) = i
  <2>. HIDE DEF M
  <2>1. FirstOf(M, 0) \in M
    BY <1>7, LeastIs
  <2>2. QED
    BY <1>8, <2>1
<1>10. QED
  BY <1>1, <1>3, <1>6, <1>9 DEF DiskInv

Hit(s, data) == [name |-> s, data |-> data]

LEMMA DataChanged ==
  ASSUME NEW of, NEW old, NEW new
  PROVE  [Hit(of, old) EXCEPT !.data = new] = Hit(of, new) /\ Hit(of, old).data = old
<1>. SUFFICES ASSUME NEW x, x = [name |-> of, data |-> old],
                     NEW y, y = [name |-> of, data |-> new]
              PROVE  [x EXCEPT !.data = new] = y /\ x.data = old
  BY Zenon DEF Hit
<1>. QED
  OBVIOUS

MoreFound(r, more) == [r EXCEPT ![Len(r)].data = @ \o more]

LastFound(r, s, of, data) == r = Append(s, Hit(of, data))

LEMMA LastChanged ==
  ASSUME NEW S, NEW s \in Seq(S), NEW of, NEW old, NEW more, NEW r,
         LastFound(r, s, of, old), NEW new, new = old \o more
  PROVE  LastFound(MoreFound(r, more), s, of, new)
<1>. PICK x, y : x = Hit(of, old) /\ y = Hit(of, new)
  OBVIOUS
<1>0. r = Append(s, x)
  BY DEF LastFound
<1>. PICK T : T = S \cup {x, y}
  OBVIOUS
<1>. PICK n \in Nat : n = Len(s)
  BY LenProperties
<1>1. s \in Seq(T)
  <2>1. s \in [1..n -> S]
    BY LenProperties
  <2>2. \A k \in 1..n : s[k] \in T
    BY <2>1
  <2>3. s = [k \in 1..n |-> s[k]]
    BY <2>1
  <2>4. [k \in 1..n |-> s[k]] \in Seq(T)
    BY <2>2, IsASeq
  <2>5. QED
    BY <2>3, <2>4
<1>2. /\ r \in Seq(T) /\ Len(r) = n + 1 /\ r[n + 1] = x
      /\ \A k \in 1..n : r[k] = s[k]
  BY <1>1, <1>0, AppendProperties
<1>. PICK q : q = Append(s, y)
  OBVIOUS
<1>3. /\ q \in Seq(T) /\ Len(q) = n + 1 /\ q[n + 1] = y
      /\ \A k \in 1..n : q[k] = s[k]
  BY <1>1, AppendProperties
<1>4. [x EXCEPT !.data = @ \o more] = y
  <2>1. [x EXCEPT !.data = new] = y /\ x.data = old
    BY DataChanged, Zenon
  <2>2. QED
    BY <2>1, Zenon
<1>. DEFINE z == [r EXCEPT ![n + 1] = y]
<1>5. [r EXCEPT ![Len(r)].data = @ \o more] = z
  <2>1. [r EXCEPT ![Len(r)].data = @ \o more]
          = [r EXCEPT ![n + 1] = [r[n + 1] EXCEPT !.data = @ \o more]]
    BY <1>2
  <2>2. [r[n + 1] EXCEPT !.data = @ \o more] = y
    BY <1>2, <1>4
  <2>3. QED
    BY <2>1, <2>2
<1>6. z = q
  <2>1. DOMAIN r = 1..(n + 1) /\ DOMAIN q = 1..(n + 1)
    BY <1>2, <1>3, LenProperties
  <2>2. r = [k \in 1..(n + 1) |-> r[k]] /\ q = [k \in 1..(n + 1) |-> q[k]]
    BY <1>2, <1>3, LenProperties
  <2>3. z = [k \in 1..(n + 1) |-> IF k = n + 1 THEN y ELSE r[k]]
    BY <2>1, <2>2
  <2>4. \A k \in 1..(n + 1) : q[k] = IF k = n + 1 THEN y ELSE r[k]
    BY <1>2, <1>3
  <2>5. [k \in 1..(n + 1) |-> IF k = n + 1 THEN y ELSE r[k]] = [k \in 1..(n + 1) |-> q[k]]
    BY <2>4
  <2>6. QED
    BY <2>2, <2>3, <2>5
<1>7. MoreFound(r, more) = q
  BY <1>5, <1>6 DEF MoreFound
<1>8. QED
  BY <1>7 DEF LastFound

(***************************************************************************)
(* Here is the last entry grep has read, through descriptor 2. It has      *)
(* searched all entries up to it (Looping, Closing), or all before it      *)
(* (AtFile), or all before it and the part of it that descriptor 3         *)
(* delivered (Searching). No other descriptor is in use: the drivers it    *)
(* uses know a descriptor by force (Forced), and find 2 for the directory  *)
(* and 3 for the file only because the file is closed before the next one  *)
(* is opened.                                                              *)
(***************************************************************************)
Here == farray[2].file_pos
InUse(fds) == FreeFds = Fds \ fds
Listing == dirfd = 2 /\ IsOpen(2, "dir")
OnFile == Here \in 1..Len(dir) /\ fname = dir[Here].name /\ ~Skipped(Here)

Looping == Listing /\ InUse({2}) /\ out = SearchedTo[Here]
AtFile == Listing /\ OnFile /\ InUse({2}) /\ out = SearchedTo[Here - 1]
Searching ==
  /\ Listing /\ OnFile /\ InUse({2, 3})
  /\ fd = 3 /\ asked[3] = fname /\ farray[3].type = dir[Here].type
  /\ IsOpen(3, "rtc") => log[3] = <<>>
  /\ out = Append(SearchedTo[Here - 1], Hit(fname, log[3]))
Closing == Listing /\ InUse({2, 3}) /\ fd = 3 /\ out = SearchedTo[Here]

Grepping ==
  /\ gr = TRUE
  /\ pc = "start" => InUse({}) /\ out = <<>>
  /\ pc = "loop" => Looping
  /\ pc = "file" => AtFile
  /\ pc = "search" => Searching
  /\ pc = "close" => Closing
  /\ pc = "done" => ProgramsDeliver

LEMMA TwoFds == {2, 3} \subseteq Fds /\ 2 \in Fds /\ 3 \in Fds /\ \A d \in Fds : d \in Nat /\ d >= 2
BY FilesAssumption, ProgramsAssumption DEF Fds

LEMMA SearchNext ==
  ASSUME Len(dir) \in Nat, NEW n \in 1..Len(dir)
  PROVE  SearchedTo[n] = IF Skipped(n) THEN SearchedTo[n - 1]
                         ELSE Append(SearchedTo[n - 1], FileOf(dir[n]))
BY SearchedSteps

LEMMA GrepOpens ==
  ASSUME FilesInv, Grepping, GrepOpen
  PROVE  Grepping'
<1>. PICK d : d = OpenResult(Root)
  OBVIOUS
<1>1. /\ Open(Root) /\ dirfd' = d /\ out' = out /\ pc = "start"
      /\ IF d = -1 THEN pc' = "done" ELSE pc' = "loop"
      /\ InUse({}) /\ out = <<>> /\ gr = TRUE
  BY DEF GrepOpen, Return, Grepping
<1>2. ~RefusesOpen(Root)
  BY <1>1, RootFound, TwoFds DEF RefusesOpen, FilesInv, InUse
<1>3. /\ d \in FreeFds /\ \A e \in FreeFds : d <= e
      /\ FreeFds' = FreeFds \ {d} /\ farray'[d] # Free
      /\ farray'[d].type = dir[DentryByName(Root)].type /\ farray'[d].file_pos = 0
      /\ gr' = gr /\ UNCHANGED disk
  BY <1>1, <1>2, OpenDoes
<1>4. d = 2
  BY <1>1, <1>3, TwoFds DEF InUse
<1>5. farray'[2].type = "dir"
  BY <1>3, <1>4, RootFound DEF FilesInv, DiskInv
<1>6. Listing' /\ InUse({2})' /\ Here' = 0
  BY <1>1, <1>3, <1>4, <1>5 DEF Listing, InUse, IsOpen, Here
<1>7. SearchedTo[0] = <<>> /\ SearchedTo' = SearchedTo
  BY <1>3, SearchedSteps, SearchedStays DEF FilesInv, DiskInv
<1>8. Looping'
  BY <1>1, <1>6, <1>7 DEF Looping
<1>9. QED
  BY <1>1, <1>3, <1>4, <1>8 DEF Grepping

LEMMA GrepDone ==
  ASSUME UNCHANGED <<disk, prog>>, prog = "grep", out' = SearchedTo[Len(dir)],
         status' = DirStatus
  PROVE  ProgramsDeliver'
<1>1. prog' = "grep" /\ DirStatus' = DirStatus /\ Searched' = Searched
  BY SearchedStays
<1>2. QED
  BY <1>1, SearchedIs DEF ProgramsDeliver

LEMMA GrepReadsName ==
  ASSUME FilesInv, Grepping, GrepNext
  PROVE  Grepping'
<1>. PICK n, r, pos : n = FILE_NAME /\ r = ReadResult(2, n) /\ pos = Here
  OBVIOUS
<1>1. /\ Listing /\ InUse({2}) /\ out = SearchedTo[pos] /\ gr = TRUE /\ prog = "grep"
      /\ dirfd = 2 /\ IsOpen(2, "dir")
  BY DEF GrepNext, Grepping, Looping, Listing
<1>2. /\ Read(2, n) /\ UNCHANGED <<prog, dirfd, out>>
      /\ \/ r = 0 /\ pc' = "done" /\ status' = 0
         \/ r = -1 /\ pc' = "done" /\ status' = 3
         \/ /\ r > 0 /\ fname' = NameOf(Delivered(2, n)[1])
            /\ pc' = (IF Head(fname') = "." THEN "loop" ELSE "file")
  BY <1>1 DEF GrepNext, Return, KeepMain
<1>3. n \in Nat \ {0} /\ 2 \in Fds /\ Forced(2) = 2
  BY DiskAssumption, TwoFds DEF Forced
<1>4. farray[2] # Free /\ farray[2].type = "dir" /\ ~IsOpen(2, "file")
  BY <1>1 DEF IsOpen
<1>5. /\ r = DirResult(pos) /\ FreeFds' = FreeFds
      /\ farray'[2] # Free /\ farray'[2].type = "dir" /\ gr' = gr /\ UNCHANGED disk
      /\ r > 0 => farray'[2].file_pos = Advanced(2, n)
  <2>1. /\ r = CASE IsOpen(2, "file") -> Len(Data(2, n))
                 [] IsOpen(2, "dir") -> DirResult(farray[2].file_pos)
                 [] IsOpen(2, "rtc") -> 0
        /\ FreeFds' = FreeFds /\ farray'[2] # Free /\ farray'[2].type = farray[2].type
        /\ gr' = gr /\ asked' = asked /\ UNCHANGED disk
        /\ IF r > 0
           THEN log'[2] = log[2] \o Delivered(2, n) /\ farray'[2].file_pos = Advanced(2, n)
           ELSE log'[2] = log[2] /\ farray'[2] = farray[2]
    BY <1>2, <1>3, <1>4, ReadDoes, ZenonT(30)
  <2>2. r = DirResult(pos)
    BY <1>1, <1>4, <2>1 DEF IsOpen, Here
  <2>3. QED
    BY <1>4, <2>1, <2>2
<1>6. /\ pos \in 0..Len(dir) /\ Len(dir) \in Nat
      /\ r > 0 => pos < Len(dir)
      /\ r = 0 => pos = Len(dir) /\ DirStatus = 0
      /\ r = -1 => pos = Len(dir) /\ DirStatus = 3
  BY <1>1, <1>3, <1>5, WholeDirectory DEF Here
<1>7. Listing' /\ InUse({2})'
  BY <1>1, <1>2, <1>5 DEF Listing, InUse, IsOpen
<1>8. SearchedTo' = SearchedTo /\ dir' = dir
  BY <1>5, SearchedStays DEF disk
<1>9. CASE r = 0 /\ pc' = "done" /\ status' = 0
  <2>1. ProgramsDeliver'
    BY <1>1, <1>2, <1>5, <1>6, <1>9, GrepDone
  <2>2. QED
    BY <1>1, <1>5, <1>9, <2>1 DEF Grepping
<1>10. CASE r = -1 /\ pc' = "done" /\ status' = 3
  <2>1. ProgramsDeliver'
    BY <1>1, <1>2, <1>5, <1>6, <1>10, GrepDone
  <2>2. QED
    BY <1>1, <1>5, <1>10, <2>1 DEF Grepping
<1>11. CASE /\ r > 0 /\ fname' = NameOf(Delivered(2, n)[1])
            /\ pc' = (IF Head(fname') = "." THEN "loop" ELSE "file")
  <2>. PICK m \in 1..Len(dir) : m = pos + 1 /\ m - 1 = pos
    BY <1>6, <1>11
  <2>1. Delivered(2, n) = << Entry(m, n) >> /\ Advanced(2, n) = m
    BY <1>4 DEF Delivered, Entry, Advanced, NextEntry, Here
  <2>2. fname' = dir[m].name
    <3>1. Delivered(2, n)[1] = Entry(m, n)
      BY <2>1
    <3>2. NameOf(Entry(m, n)) = dir[m].name
      BY <1>3, EntryName DEF FilesInv
    <3>3. QED
      BY <1>11, <3>1, <3>2
  <2>3. Here' = m
    BY <1>5, <1>11, <2>1 DEF Here
  <2>4. SearchedTo[m] = IF Skipped(m) THEN out ELSE Append(out, FileOf(dir[m]))
    BY <1>1, <1>6, SearchNext
  <2>5. Skipped(m) <=> Head(fname') = "."
    BY <2>2 DEF Skipped
  <2>6. CASE Skipped(m)
    <3>1. out' = SearchedTo'[Here']
      BY <1>2, <1>8, <2>3, <2>4, <2>6
    <3>2. Looping' /\ pc' = "loop"
      BY <1>7, <1>11, <2>5, <2>6, <3>1 DEF Looping
    <3>3. QED
      BY <1>1, <1>5, <3>2 DEF Grepping
  <2>7. CASE ~Skipped(m)
    <3>1. OnFile'
      BY <1>8, <2>2, <2>3, <2>7 DEF OnFile, Skipped
    <3>2. Here' - 1 = pos
      BY <2>3
    <3>3. out' = SearchedTo'[Here' - 1]
      BY <1>1, <1>2, <1>8, <3>2
    <3>4. AtFile' /\ pc' = "file"
      BY <1>7, <1>11, <2>5, <2>7, <3>1, <3>3 DEF AtFile
    <3>5. QED
      BY <1>1, <1>5, <3>4 DEF Grepping
  <2>8. QED
    BY <2>6, <2>7
<1>12. QED
  BY <1>2, <1>9, <1>10, <1>11

LEMMA GrepOpensFile ==
  ASSUME FilesInv, Grepping, OpenFile
  PROVE  Grepping'
<1>. PICK s, d, pos : s = fname /\ d = OpenResult(s) /\ pos = Here
  OBVIOUS
<1>1. /\ Listing /\ OnFile /\ InUse({2}) /\ out = SearchedTo[pos - 1] /\ gr = TRUE
      /\ IsOpen(2, "dir")
  BY DEF OpenFile, Grepping, AtFile, Listing
<1>2. /\ Open(s) /\ fd' = d /\ UNCHANGED <<dirfd, fname>>
      /\ IF d = -1 THEN pc' = "done"
         ELSE pc' = "search" /\ out' = Append(out, [name |-> s, data |-> <<>>])
  BY DEF OpenFile, Return, KeepMain
<1>3. pos \in 1..Len(dir) /\ s = dir[pos].name /\ ~Skipped(pos)
  BY <1>1 DEF OnFile
<1>4. DentryByName(s) = pos /\ s # <<>>
  BY <1>3, NameFound DEF FilesInv
<1>5. 3 \in FreeFds
  BY <1>1, TwoFds DEF InUse
<1>6. ~RefusesOpen(s)
  BY <1>3, <1>4, <1>5 DEF RefusesOpen
<1>7. /\ d \in FreeFds /\ \A e \in FreeFds : d <= e
      /\ FreeFds' = FreeFds \ {d} /\ farray'[d] # Free
      /\ farray'[d].type = dir[DentryByName(s)].type
      /\ asked'[d] = s /\ log'[d] = <<>> /\ gr' = gr /\ UNCHANGED disk
      /\ Elsewhere(d)
  BY <1>2, <1>6, OpenDoes
<1>8. d = 3
  <2>1. d <= 3 /\ d \in Fds /\ d # 2
    BY <1>1, <1>5, <1>7 DEF InUse
  <2>2. QED
    BY <2>1, TwoFds
<1>9. farray'[2] = farray[2]
  BY <1>7, <1>8, TwoFds DEF Elsewhere
<1>10. Here' = pos /\ dir' = dir
  BY <1>7, <1>9 DEF Here, disk
<1>11. Listing'
  BY <1>1, <1>2, <1>9 DEF Listing, IsOpen
<1>12. OnFile'
  BY <1>2, <1>3, <1>10 DEF OnFile, Skipped
<1>13. InUse({2, 3})'
  BY <1>1, <1>7, <1>8 DEF InUse
<1>14. pc' = "search" /\ out' = Append(SearchedTo[pos - 1], Hit(s, <<>>))
  BY <1>1, <1>2, <1>8 DEF Hit
<1>15. SearchedTo' = SearchedTo
  BY <1>7, SearchedStays
<1>16. /\ fd' = 3 /\ asked'[3] = fname' /\ farray'[3].type = dir'[Here'].type
       /\ log'[3] = <<>>
  BY <1>2, <1>4, <1>7, <1>8, <1>10
<1>17. out' = Append(SearchedTo'[Here' - 1], Hit(fname', log'[3]))
  BY <1>2, <1>10, <1>14, <1>15, <1>16, Zenon
<1>18. Searching'
  BY <1>11, <1>12, <1>13, <1>16, <1>17 DEF Searching
<1>19. QED
  BY <1>1, <1>7, <1>14, <1>18 DEF Grepping

LEMMA GrepSearches ==
  ASSUME FilesInv, Grepping, NEW n \in Pieces, Search(n)
  PROVE  Grepping'
<1>. PICK r, pos, s, old : r = ReadResult(3, n) /\ pos = Here /\ s = fname /\ old = log[3]
  OBVIOUS
<1>1. /\ Listing /\ OnFile /\ InUse({2, 3}) /\ fd = 3
      /\ asked[3] = s /\ farray[3].type = dir[pos].type
      /\ IsOpen(3, "rtc") => old = <<>>
      /\ out = Append(SearchedTo[pos - 1], Hit(s, old)) /\ gr = TRUE
      /\ IsOpen(2, "dir") /\ pc = "search"
  BY DEF Search, Grepping, Searching, Listing
<1>2. n \in Nat \ {0} /\ 3 \in Fds /\ 2 \in Fds \ {3} /\ Forced(3) = 3
  BY <1>1, TwoFds, ProgramsAssumption DEF Forced
<1>3. /\ Read(3, n) /\ UNCHANGED <<dirfd, fd, fname>>
      /\ \/ r = -1
         \/ r = 0 /\ pc' = "close" /\ out' = out
         \/ /\ r > 0 /\ pc' = pc
            /\ out' = [out EXCEPT ![Len(out)].data = @ \o Delivered(3, n)]
  BY <1>1, <1>2 DEF Search, Stay, KeepMain, KeepGrep
<1>4. pos \in 1..Len(dir) /\ s = dir[pos].name /\ ~Skipped(pos)
  BY <1>1 DEF OnFile
<1>5. DentryByName(s) = pos /\ dir[pos].type \in {"file", "rtc"} /\ pos # 0
  BY <1>4, NameFound DEF FilesInv
<1>6. farray[3] # Free
  BY <1>1, <1>2 DEF InUse, FreeFds
<1>7. /\ r = CASE IsOpen(3, "file") -> Len(Data(3, n))
               [] IsOpen(3, "dir") -> DirResult(farray[3].file_pos)
               [] IsOpen(3, "rtc") -> 0
      /\ FreeFds' = FreeFds /\ farray'[3] # Free /\ farray'[3].type = farray[3].type
      /\ gr' = gr /\ asked' = asked /\ UNCHANGED disk /\ Elsewhere(3)
      /\ IF r > 0
         THEN log'[3] = old \o Delivered(3, n) /\ farray'[3].file_pos = Advanced(3, n)
         ELSE log'[3] = old /\ farray'[3] = farray[3]
  <2>1. farray[3].type \in {"file", "dir", "rtc"}
    BY <1>1, <1>5
  <2>2. QED
    BY <1>2, <1>3, <1>6, <2>1, ReadDoes, ZenonT(30)
<1>8. farray'[2] = farray[2]
  BY <1>2, <1>7 DEF Elsewhere
<1>9. Here' = pos /\ dir' = dir /\ SearchedTo' = SearchedTo
  BY <1>7, <1>8, SearchedStays DEF Here, disk
<1>10. Listing'
  BY <1>1, <1>3, <1>8 DEF Listing, IsOpen
<1>11. InUse({2, 3})' /\ fd' = 3
  BY <1>1, <1>3, <1>7 DEF InUse
<1>. PICK f : f = inodes[dir[pos].inode]
  OBVIOUS
<1>12. r \in Nat /\ (r = 0 => Hit(s, old) = FileOf(dir[pos]))
      /\ (r > 0 => ~IsOpen(3, "rtc"))
  <2>1. CASE dir[pos].type = "file"
    <3>1. IsOpen(3, "file") /\ ~IsOpen(3, "rtc")
      BY <1>1, <1>6, <2>1 DEF IsOpen
    <3>2. r = Len(Data(3, n))
      BY <1>7, <3>1 DEF IsOpen
    <3>3. Named(asked[3]) = pos
      BY <1>1, <1>5, <2>1, NamedIs DEF FilesInv
    <3>4. Len(Data(3, n)) \in Nat /\ (Len(Data(3, n)) = 0 => old = Content(f))
      BY <1>2, <3>1, <3>3, WholeFile
    <3>5. FileOf(dir[pos]) = Hit(s, Content(f))
      BY <1>4, <2>1 DEF FileOf, Hit
    <3>6. QED
      BY <3>1, <3>2, <3>4, <3>5
  <2>2. CASE dir[pos].type = "rtc"
    <3>1. IsOpen(3, "rtc") /\ ~IsOpen(3, "file") /\ ~IsOpen(3, "dir")
      BY <1>1, <1>6, <2>2 DEF IsOpen
    <3>2. r = 0 /\ old = <<>>
      BY <1>1, <1>7, <3>1
    <3>3. FileOf(dir[pos]) = Hit(s, <<>>)
      BY <1>4, <2>2 DEF FileOf, Hit
    <3>4. QED
      BY <3>2, <3>3
  <2>3. QED
    BY <1>5, <2>1, <2>2
<1>13. CASE r = 0 /\ pc' = "close" /\ out' = out
  <2>1. SearchedTo[pos] = Append(SearchedTo[pos - 1], FileOf(dir[pos]))
    <3>1. Len(dir) \in Nat
      BY DEF FilesInv, DiskInv
    <3>2. SearchedTo[pos] = IF Skipped(pos) THEN SearchedTo[pos - 1]
                            ELSE Append(SearchedTo[pos - 1], FileOf(dir[pos]))
      BY <1>4, <3>1, SearchNext
    <3>3. QED
      BY <1>4, <3>2
  <2>2. out' = SearchedTo'[Here']
    BY <1>1, <1>9, <1>12, <1>13, <2>1
  <2>3. Closing'
    BY <1>10, <1>11, <2>2 DEF Closing
  <2>4. QED
    BY <1>1, <1>7, <1>13, <2>3 DEF Grepping
<1>14. CASE /\ r > 0 /\ pc' = pc
            /\ out' = [out EXCEPT ![Len(out)].data = @ \o Delivered(3, n)]
  <2>1. SearchedTo[pos - 1] \in Seq(Results)
    <3>1. pos - 1 \in 0..Len(dir) /\ Len(dir) \in Nat
      BY <1>4 DEF FilesInv, DiskInv
    <3>2. QED
      BY <3>1, SearchedSeq
  <2>2. out' = Append(SearchedTo[pos - 1], Hit(s, old \o Delivered(3, n)))
    <3>. PICK base, S, more, q, new :
           /\ base = SearchedTo[pos - 1] /\ S = Results /\ more = Delivered(3, n)
           /\ q = out /\ new = old \o Delivered(3, n)
      OBVIOUS
    <3>1. base \in Seq(S) /\ LastFound(q, base, s, old)
      BY <1>1, <2>1 DEF LastFound
    <3>2. LastFound(MoreFound(q, more), base, s, new)
      BY <3>1, LastChanged
    <3>3. out' = MoreFound(q, more)
      BY <1>14, Zenon DEF MoreFound
    <3>4. QED
      BY <3>2, <3>3, Zenon DEF LastFound
  <2>3. log'[3] = old \o Delivered(3, n)
    BY <1>7, <1>14
  <2>4. fname' = s
    BY <1>3
  <2>5. out' = Append(SearchedTo'[Here' - 1], Hit(fname', log'[3]))
    BY <1>9, <2>2, <2>3, <2>4, Zenon
  <2>6. OnFile'
    BY <1>4, <1>9, <2>4 DEF OnFile, Skipped
  <2>7. ~IsOpen(3, "rtc")'
    BY <1>6, <1>7, <1>12, <1>14 DEF IsOpen
  <2>8. asked'[3] = fname' /\ farray'[3].type = dir'[Here'].type
    BY <1>1, <1>7, <1>9, <2>4
  <2>9. Searching'
    BY <1>10, <1>11, <2>5, <2>6, <2>7, <2>8 DEF Searching
  <2>10. QED
    BY <1>1, <1>7, <1>14, <2>9 DEF Grepping
<1>15. QED
  BY <1>3, <1>12, <1>13, <1>14

LEMMA GrepCloses ==
  ASSUME FilesInv, Grepping, CloseFile
  PROVE  Grepping'
<1>. PICK pos : pos = Here
  OBVIOUS
<1>1. /\ Listing /\ InUse({2, 3}) /\ fd = 3 /\ out = SearchedTo[pos]
      /\ gr = TRUE /\ IsOpen(2, "dir")
  BY DEF CloseFile, Grepping, Closing, Listing
<1>2. /\ Close(3) /\ UNCHANGED <<dirfd, out>>
      /\ IF CloseResult(3) = -1 THEN pc' = "done" ELSE pc' = "loop"
  BY <1>1 DEF CloseFile, Return, KeepMain
<1>3. Forced(3) = 3 /\ ~RefusesClose(3)
  BY <1>1, TwoFds DEF Forced, RefusesClose, InUse
<1>4. CloseResult(3) # -1 /\ pc' = "loop"
  BY <1>2, <1>3 DEF CloseResult
<1>5. farray' = [farray EXCEPT ![3] = Free] /\ gr' = gr /\ UNCHANGED disk
  BY <1>2, <1>3 DEF Close
<1>6. /\ \A e \in Fds : farray'[e] = IF e = 3 THEN Free ELSE farray[e]
      /\ farray'[2] = farray[2]
  BY <1>5, TwoFds DEF FilesInv
<1>7. InUse({2})'
  <2>1. \A e \in Fds : farray[e] = Free <=> e \notin {2, 3}
    BY <1>1 DEF InUse, FreeFds
  <2>2. \A e \in Fds : farray'[e] = Free <=> e # 2
    BY <1>6, <2>1
  <2>3. FreeFds' = {e \in Fds : farray'[e] = Free}
    BY DEF FreeFds
  <2>4. QED
    BY <2>2, <2>3 DEF InUse
<1>8. Here' = pos /\ SearchedTo' = SearchedTo
  BY <1>5, <1>6, SearchedStays DEF Here
<1>9. Listing'
  BY <1>1, <1>2, <1>6 DEF Listing, IsOpen
<1>10. Looping'
  BY <1>1, <1>2, <1>7, <1>8, <1>9 DEF Looping
<1>11. QED
  BY <1>1, <1>4, <1>5, <1>10 DEF Grepping

(***************************************************************************)
(* Whatever ran before, a program starts with no descriptor in use and     *)
(* nothing printed; and no step of it leaves the invariant.                *)
(***************************************************************************)
DeliverInv ==
  /\ FilesInv
  /\ prog \in {"cat", "ls"} => Printing
  /\ prog = "grep" => Grepping

LEMMA ExecuteStarts ==
  ASSUME FilesInv, NEW p \in {"any", "cat", "ls", "grep", "syserr"}, Execute(p)
  PROVE  (prog' \in {"cat", "ls"} => Printing') /\ (prog' = "grep" => Grepping')
<1>1. prog' = p /\ pc' = "start" /\ out' = <<>> /\ status' = 0
  BY DEF Execute
<1>2. FreeFds' = Fds
  BY DEF Execute, FreeFds
<1>3. ASSUME p \in {"cat", "ls"}
      PROVE  Printing'
  <2>1. gr' = FALSE
    <3>1. (CASE p = "grep" -> {TRUE} [] p = "any" -> BOOLEAN [] OTHER -> {FALSE}) = {FALSE}
      BY <1>3
    <3>2. QED
      BY <3>1 DEF Execute
  <2>2. chunk' \in Nat /\ chunk' > 0 /\ chunk' >= FILE_NAME
    BY <1>3, ProgramsAssumption, DiskAssumption DEF Execute
  <2>3. QED
    BY <1>1, <1>2, <2>1, <2>2 DEF Printing
<1>4. ASSUME p = "grep"
      PROVE  Grepping'
  <2>1. gr' = TRUE
    <3>1. (CASE p = "grep" -> {TRUE} [] p = "any" -> BOOLEAN [] OTHER -> {FALSE}) = {TRUE}
      BY <1>4
    <3>2. QED
      BY <3>1 DEF Execute
  <2>2. InUse({})'
    BY <1>2 DEF InUse, Fds
  <2>3. QED
    BY <1>1, <2>1, <2>2 DEF Grepping
<1>5. QED
  BY <1>1, <1>3, <1>4

LEMMA DeliverStep ==
  ASSUME DeliverInv, [Next]_vars
  PROVE  DeliverInv'
<1>1. FilesInv /\ FilesInv'
  BY ProgramsStep DEF DeliverInv
<1>2. SUFFICES (prog' \in {"cat", "ls"} => Printing') /\ (prog' = "grep" => Grepping')
  BY <1>1 DEF DeliverInv
<1>3. CASE \E p \in {"any", "cat", "ls", "grep", "syserr"} : Execute(p)
  BY <1>1, <1>3, ExecuteStarts
<1>4. CASE OpenIt
  <2>1. prog \in {"cat", "ls"} /\ prog' = prog
    BY <1>4 DEF OpenIt, KeepMain
  <2>2. QED
    BY <1>1, <1>4, <2>1, OpenItPrints DEF DeliverInv
<1>5. CASE PrintIt
  <2>1. prog \in {"cat", "ls"} /\ prog' = prog
    BY <1>5 DEF PrintIt, KeepMain
  <2>2. QED
    BY <1>1, <1>5, <2>1, PrintItPrints DEF DeliverInv
<1>6. CASE GrepOpen \/ GrepNext \/ OpenFile \/ (\E n \in Pieces : Search(n)) \/ CloseFile
  <2>1. prog = "grep" /\ prog' = prog
    BY <1>6 DEF GrepOpen, GrepNext, OpenFile, Search, CloseFile, KeepMain
  <2>2. QED
    BY <1>1, <1>6, <2>1, GrepOpens, GrepReadsName, GrepOpensFile, GrepSearches, GrepCloses
       DEF DeliverInv
<1>7. CASE AnyCall \/ SysErrCall \/ SysErrEnd
  <2>1. prog' \in {"any", "syserr"}
    BY <1>7 DEF AnyCall, SysErrCall, SysErrEnd, KeepMain, progvars
  <2>2. QED
    BY <2>1
<1>8. CASE UNCHANGED vars
  <2>1. /\ UNCHANGED <<dir, inodes, farray, gr, asked, log>>
        /\ UNCHANGED <<prog, pc, arg, chunk, dirfd, fd, fname, out, status>>
    BY <1>8 DEF vars, fsvars, progvars, disk
  <2>2. SearchedTo' = SearchedTo
    BY <2>1, SearchedStays DEF disk
  <2>3. Searched' = Searched
    BY <2>1, SearchedStays DEF disk
  <2>4. ProgramsDeliver' <=> ProgramsDeliver
    BY <2>1, <2>3 DEF ProgramsDeliver, CatDelivers, Listed, AllNames, DirStatus, DentryByName
  <2>5. Printing' <=> Printing
    BY <2>1, <2>4 DEF Printing, Printed, Opened, IsOpen, FreeFds, DentryByName, Entry
  <2>6. Grepping' <=> Grepping
    BY <2>1, <2>2, <2>4 DEF Grepping, Looping, AtFile, Searching, Closing, Listing, OnFile,
       InUse, Here, IsOpen, FreeFds, Skipped
  <2>7. QED
    BY <2>1, <2>5, <2>6 DEF DeliverInv
<1>9. QED
  BY <1>3, <1>4, <1>5, <1>6, <1>7, <1>8 DEF Next

(***************************************************************************)
(* What the programs promise (ece391cat.c, ece391ls.c, ece391grep.c): cat  *)
(* prints the whole of its file, and no more, or fails for a name that is  *)
(* not on the disk; ls prints every name of the directory, whole and in    *)
(* order; grep searches the whole of every file whose name does not begin  *)
(* with a dot, each once. Reads of any size and a disk of any number of    *)
(* files give the same result.                                             *)
(***************************************************************************)
THEOREM ProgramsCorrect == Spec => []ProgramsDeliver
<1>1. Init => DeliverInv
  BY ProgramsInit DEF DeliverInv, Init
<1>2. DeliverInv => ProgramsDeliver
  BY DEF DeliverInv, Printing, Grepping, ProgramsDeliver
<1>3. QED
  BY <1>1, <1>2, DeliverStep, PTL DEF Spec

-----------------------------------------------------------------------------

(***************************************************************************)
(* A line and its parts (handle_command): the first of some places, or     *)
(* none; where the name ends, and where the arguments begin.               *)
(***************************************************************************)
LEMMA FirstOfIs ==
  ASSUME NEW S, S \subseteq Nat, NEW none
  PROVE  \/ S = {} /\ FirstOf(S, none) = none
         \/ FirstOf(S, none) \in S /\ \A k \in S : FirstOf(S, none) <= k
<1>1. CASE S = {}
  BY <1>1 DEF FirstOf
<1>2. CASE S # {}
  BY <1>2, LeastIs
<1>3. QED
  BY <1>1, <1>2

LEMMA NameLengthIs ==
  ASSUME NEW S, NEW c \in Seq(S), NEW m, m = NameLength(c)
  PROVE  /\ m \in 0..Len(c) /\ \A i \in 1..m : c[i] # Space
         /\ m < Len(c) => c[m + 1] = Space
<1>. PICK n \in Nat : n = Len(c)
  BY LenProperties
<1>. PICK T : T = {i \in 1..n : c[i] = Space}
  OBVIOUS
<1>. PICK f : f = FirstOf(T, n + 1)
  OBVIOUS
<1>1. m = f - 1
  BY DEF NameLength
<1>2. \/ T = {} /\ f = n + 1
      \/ f \in T /\ \A k \in T : f <= k
  <2>1. T \subseteq Nat
    OBVIOUS
  <2>2. QED
    BY <2>1, FirstOfIs
<1>3. CASE T = {} /\ f = n + 1
  <2>1. m = n
    BY <1>1, <1>3
  <2>2. \A i \in 1..n : i \notin T
    BY <1>3
  <2>3. \A i \in 1..n : c[i] # Space
    BY <2>2
  <2>4. QED
    BY <2>1, <2>3
<1>4. CASE f \in T /\ \A k \in T : f <= k
  <2>1. f \in 1..n /\ c[f] = Space /\ m + 1 = f
    BY <1>1, <1>4
  <2>2. \A i \in 1..m : i \in 1..n /\ i < f
    BY <1>1, <2>1
  <2>3. \A i \in 1..m : i \notin T
    BY <1>4, <2>2
  <2>4. \A i \in 1..m : c[i] # Space
    BY <2>2, <2>3
  <2>5. m \in 0..n
    BY <1>1, <2>1
  <2>6. QED
    BY <2>1, <2>4, <2>5
<1>5. QED
  BY <1>2, <1>3, <1>4

LEMMA ArgsStartIs ==
  ASSUME NEW S, NEW c \in Seq(S), NEW e \in 0..Len(c), e = NameEnd(c), NEW a, a = ArgsStart(c)
  PROVE  /\ a \in (e + 1)..(Len(c) + 1) /\ \A i \in (e + 1)..(a - 1) : c[i] = Space
         /\ a <= Len(c) => c[a] # Space
<1>. PICK n \in Nat : n = Len(c)
  BY LenProperties
<1>. PICK T : T = {i \in (e + 1)..n : c[i] # Space}
  OBVIOUS
<1>. PICK none : none = n + 1
  OBVIOUS
<1>1. a = FirstOf(T, none)
  BY DEF ArgsStart
<1>2. \/ T = {} /\ a = n + 1
      \/ a \in T /\ \A k \in T : a <= k
  <2>1. T \subseteq Nat
    OBVIOUS
  <2>2. \/ T = {} /\ FirstOf(T, none) = none
        \/ FirstOf(T, none) \in T /\ \A k \in T : FirstOf(T, none) <= k
    BY <2>1, FirstOfIs
  <2>3. QED
    BY <1>1, <2>2
<1>3. CASE T = {} /\ a = n + 1
  BY <1>3
<1>4. CASE a \in T /\ \A k \in T : a <= k
  <2>1. a \in (e + 1)..n /\ c[a] # Space
    BY <1>4
  <2>2. \A i \in (e + 1)..(a - 1) : i \notin T
    BY <1>4, <2>1
  <2>3. QED
    BY <2>1, <2>2
<1>5. QED
  BY <1>2, <1>3, <1>4

(***************************************************************************)
(* A part of a sequence, and what its elements are.                        *)
(***************************************************************************)
LEMMA CutIs ==
  ASSUME NEW S, NEW c \in Seq(S), NEW m \in Nat \ {0}, NEW k \in Nat, k <= Len(c),
         NEW s, s = SubSeq(c, m, k)
  PROVE  /\ s \in Seq(S) /\ Len(s) = (IF m <= k THEN k - m + 1 ELSE 0)
         /\ \A i \in 1..(k - m + 1) : s[i] = c[m + i - 1]
<1>. PICK n \in Nat : n = Len(c)
  BY LenProperties
<1>1. \A i \in m..k : c[i] \in S
  <2>1. \A i \in m..k : i \in 1..Len(c)
    OBVIOUS
  <2>2. QED
    BY <2>1, ElementOfSeq
<1>2. QED
  BY <1>1, SubSeqProperties

(***************************************************************************)
(* A stretch of spaces is so many spaces.                                  *)
(***************************************************************************)
Blanks(k) == [i \in 1..k |-> Space]

AllBlank(c, m, j) == \A i \in m..j : c[i] = Space

LEMMA BlanksIs ==
  ASSUME NEW S, NEW c \in Seq(S), NEW m \in Nat \ {0}, NEW j \in Nat, j <= Len(c), m <= j + 1,
         AllBlank(c, m, j)
  PROVE  SubSeq(c, m, j) = Blanks(j - m + 1)
<1>. PICK k : k = j - m + 1
  OBVIOUS
<1>. PICK s : s = SubSeq(c, m, j)
  OBVIOUS
<1>1. k \in Nat
  OBVIOUS
<1>2. s \in Seq(S) /\ Len(s) = k /\ \A i \in 1..k : s[i] = c[m + i - 1]
  BY <1>1, CutIs
<1>3. \A i \in 1..k : s[i] = Space
  <2>. USE DEF AllBlank
  <2>1. \A i \in 1..k : m + i - 1 \in m..j
    BY <1>1
  <2>2. QED
    BY <1>2, <2>1
<1>4. s \in [1..k -> S]
  BY <1>2, LenProperties
<1>5. s = [i \in 1..k |-> s[i]]
  BY <1>4
<1>6. QED
  BY <1>3, <1>5 DEF Blanks

(***************************************************************************)
(* The characters of a command.  Its name ends inside of it.               *)
(***************************************************************************)
Chars == Letters \cup {Space}

LEMMA NameEndIs ==
  ASSUME NEW S, NEW c \in Seq(S), NEW e, e = NameEnd(c)
  PROVE  e \in 0..Len(c) /\ e <= NameLength(c) /\ e <= FILE_NAME
<1>. PICK m : m = NameLength(c)
  OBVIOUS
<1>1. m \in 0..Len(c) /\ Len(c) \in Nat
  BY NameLengthIs, LenProperties
<1>2. e = IF m < FILE_NAME THEN m ELSE FILE_NAME
  BY DEF NameEnd, Smaller
<1>3. QED
  BY <1>1, <1>2, DiskAssumption

(***************************************************************************)
(* A command whose name is short enough is its name, the spaces behind it, *)
(* and its arguments.                                                      *)
(***************************************************************************)
LEMMA BlanksBetween ==
  ASSUME NEW S, NEW c \in Seq(S), NEW e \in Nat, NEW a \in Nat, e + 1 <= a, a <= Len(c) + 1,
         AllBlank(c, e + 1, a - 1)
  PROVE  SubSeq(c, e + 1, a - 1) = Blanks(a - (e + 1))
<1>1. PICK n \in Nat : n = Len(c)
  BY LenProperties
<1>2. e + 1 \in Nat \ {0} /\ a - 1 \in Nat /\ a - 1 <= n /\ e + 1 <= (a - 1) + 1
  BY <1>1
<1>3. (a - 1) - (e + 1) + 1 = a - (e + 1)
  OBVIOUS
<1>4. SubSeq(c, e + 1, a - 1) = Blanks((a - 1) - (e + 1) + 1)
  BY <1>1, <1>2, BlanksIs
<1>5. QED
  BY <1>3, <1>4

LEMMA Apart ==
  ASSUME NEW c \in Seq(Chars), Plain(c), name = NameIn(c), args = ArgsOf(c)
  PROVE  TakenApart(c)
<1>. PICK n \in Nat : n = Len(c)
  BY LenProperties
<1>. PICK e \in Nat : e = NameEnd(c)
  <2>1. NameEnd(c) \in 0..Len(c)
    BY NameEndIs
  <2>2. QED
    BY <2>1
<1>1. /\ 1 <= e /\ e <= n /\ \A i \in 1..e : c[i] # Space
      /\ e < n => c[e + 1] = Space
  <2>1. PICK m : m = NameLength(c)
    OBVIOUS
  <2>2. m \in 1..FILE_NAME
    BY <2>1 DEF Plain
  <2>3. e = m
    BY <2>1, <2>2, DiskAssumption DEF NameEnd, Smaller
  <2>4. m \in 0..n /\ (\A i \in 1..m : c[i] # Space) /\ (m < n => c[m + 1] = Space)
    BY <2>1, NameLengthIs
  <2>5. QED
    BY <2>2, <2>3, <2>4
<1>0. /\ ArgsStart(c) \in (e + 1)..(n + 1)
      /\ \A i \in (e + 1)..(ArgsStart(c) - 1) : c[i] = Space
      /\ ArgsStart(c) <= n => c[ArgsStart(c)] # Space
  <2>1. e \in 0..Len(c)
    BY <1>1
  <2>2. QED
    BY <2>1, ArgsStartIs
<1>. PICK a \in Nat : a = ArgsStart(c)
  BY <1>0
<1>2. /\ e + 1 <= a /\ a <= n + 1 /\ \A i \in (e + 1)..(a - 1) : c[i] = Space
      /\ a <= n => c[a] # Space
  BY <1>0
<1>3. name = SubSeq(c, 1, e) /\ args = SubSeq(c, a, n)
  <2>1. Smaller(Len(c), MAX_ARG_LENGTH) = n
    BY ShellAssumption DEF Plain, Smaller
  <2>2. QED
    BY <2>1 DEF NameIn, ArgsOf
<1>4. 1 <= e /\ e <= n /\ e + 1 <= a /\ a <= n + 1
  BY <1>1, <1>2
<1>10. a - (e + 1) \in Nat
  BY <1>4
<1>. PICK k \in Nat : k = a - (e + 1)
  BY <1>10
<1>5. \A i \in 1..Len(name) : name[i] # Space
  <2>1. Len(name) = e /\ \A i \in 1..e : name[i] = c[i]
    <3>. PICK s : s = name
      OBVIOUS
    <3>1. /\ Len(s) = (IF 1 <= e THEN e - 1 + 1 ELSE 0)
          /\ \A i \in 1..(e - 1 + 1) : s[i] = c[1 + i - 1]
      BY <1>1, <1>3, CutIs
    <3>2. QED
      BY <1>1, <3>1
  <2>2. QED
    BY <1>1, <2>1
<1>6. args # <<>> => Head(args) # Space
  <2>1. CASE a <= n
    <3>1. a \in 1..Len(c) /\ n \in a..Len(c)
      BY <1>4, <2>1
    <3>2. Head(SubSeq(c, a, n)) = c[a]
      BY <3>1, HeadTailOfSubSeq
    <3>3. QED
      BY <1>2, <1>3, <2>1, <3>2
  <2>2. CASE a > n
    BY <1>3, <1>4, <2>2, SubSeqEmpty
  <2>3. QED
    BY <1>4, <2>1, <2>2
<1>7. c = name \o Blanks(k) \o args
  <2>1. SubSeq(c, e + 1, a - 1) = Blanks(k)
    <3>1. AllBlank(c, e + 1, a - 1) /\ e + 1 <= a /\ a <= Len(c) + 1
      BY <1>2, <1>4 DEF AllBlank
    <3>2. QED
      BY <3>1, BlanksBetween, ZenonT(30)
  <2>2. SubSeq(c, 1, e) \o SubSeq(c, e + 1, a - 1) = SubSeq(c, 1, a - 1)
    <3>1. 1 \in 1..(Len(c) + 1) /\ e \in (1 - 1)..Len(c) /\ a - 1 \in e..Len(c)
      BY <1>4
    <3>2. QED
      BY <3>1, ConcatAdjacentSubSeq
  <2>3. SubSeq(c, 1, a - 1) \o SubSeq(c, a, n) = SubSeq(c, 1, n)
    <3>. PICK z : z = a - 1
      OBVIOUS
    <3>1. 1 \in 1..(Len(c) + 1) /\ z \in (1 - 1)..Len(c) /\ n \in z..Len(c) /\ z + 1 = a
      BY <1>4
    <3>2. SubSeq(c, 1, z) \o SubSeq(c, z + 1, n) = SubSeq(c, 1, n)
      BY <3>1, ConcatAdjacentSubSeq
    <3>3. QED
      BY <3>1, <3>2
  <2>4. SubSeq(c, 1, n) = c
    BY SubSeqFull
  <2>5. QED
    BY <1>3, <2>1, <2>2, <2>3, <2>4, Zenon
<1>8. k \in 0..Len(c) /\ (k = 0 => args = <<>>)
  <2>1. k \in 0..n
    BY <1>4
  <2>2. k = 0 => a = n + 1
    <3>. SUFFICES ASSUME k = 0
                  PROVE  a = n + 1
      OBVIOUS
    <3>1. a = e + 1
      BY <1>4
    <3>2. ~(a <= n)
      BY <1>1, <1>2, <1>4, <3>1
    <3>3. QED
      BY <1>4, <3>2
  <2>3. a = n + 1 => args = <<>>
    BY <1>3, <1>4, SubSeqEmpty
  <2>4. QED
    BY <2>1, <2>2, <2>3
<1>9. QED
  BY <1>5, <1>6, <1>7, <1>8 DEF TakenApart, Blanks

(***************************************************************************)
(* What the shell says of each value, and that it never says the same of   *)
(* two kinds of outcome.                                                   *)
(***************************************************************************)
LEMMA MessageIs ==
  ASSUME NEW r \in Int
  PROVE  /\ r = -1 => Message(r) = "no such command"
         /\ r = 256 => Message(r) = "program terminated by exception"
         /\ r = 0 => Message(r) = "nothing"
         /\ r \notin {-1, 0, 256} => Message(r) = "program terminated abnormally"
<1>1. -1 # 256 /\ -1 # 0 /\ 256 # 0
  OBVIOUS
<1>2. CASE r = -1
  BY <1>1, <1>2, Zenon DEF Message
<1>3. CASE r = 256
  BY <1>1, <1>3, Zenon DEF Message
<1>4. CASE r = 0
  BY <1>1, <1>4, Zenon DEF Message
<1>5. CASE r \notin {-1, 0, 256}
  BY <1>1, <1>5, Zenon DEF Message
<1>6. QED
  BY <1>1, <1>2, <1>3, <1>4, <1>5, Zenon

LEMMA MessagesDiffer ==
  /\ "no such command" # "nothing" /\ "no such command" # "prompt"
  /\ "no such command" # "program terminated by exception"
  /\ "no such command" # "program terminated abnormally"
  /\ "nothing" # "prompt" /\ "nothing" # "program terminated by exception"
  /\ "nothing" # "program terminated abnormally"
  /\ "prompt" # "program terminated by exception"
  /\ "prompt" # "program terminated abnormally"
BY Zenon

LEMMA SpaceIs == Space # "enter" /\ Space # "nl"
BY Zenon DEF Space

(***************************************************************************)
(* The name is the beginning of the command, and has no Enter at its end   *)
(* that read_dentry_by_name would drop.                                    *)
(***************************************************************************)
Begins(s, t) == Len(s) <= Len(t) /\ \A i \in 1..Len(s) : s[i] = t[i]

LEMMA BeginsIsPrefix ==
  ASSUME NEW S, NEW s \in Seq(S), NEW t \in Seq(S), Begins(s, t)
  PROVE  IsPrefix(s, t)
<1>1. PICK n \in Nat, k \in Nat : n = Len(s) /\ k = Len(t)
  BY LenProperties
<1>2. n <= k /\ \A i \in 1..n : s[i] = t[i]
  BY <1>1 DEF Begins
<1>3. SubSeq(t, 1, n) = s
  <2>1. PICK u : u = SubSeq(t, 1, n)
    OBVIOUS
  <2>2. u \in Seq(S) /\ Len(u) = (IF 1 <= n THEN n - 1 + 1 ELSE 0)
        /\ \A i \in 1..(n - 1 + 1) : u[i] = t[1 + i - 1]
    BY <1>1, <1>2, <2>1, CutIs
  <2>3. Len(u) = n /\ \A i \in 1..n : u[i] = t[i]
    BY <2>2
  <2>4. u = s
    BY <1>1, <1>2, <2>2, <2>3, SeqEqual
  <2>5. QED
    BY <2>1, <2>4
<1>4. SubSeq(s, 1, n) = s
  BY <1>1, SubSeqFull
<1>5. QED
  BY <1>1, <1>2, <1>3, <1>4 DEF IsPrefix

LEMMA BeginsOn ==
  ASSUME NEW S, NEW s \in Seq(S), NEW t \in Seq(S), NEW u \in Seq(S), Begins(s, t), Begins(t, u)
  PROVE  Begins(s, u)
BY LenProperties DEF Begins

LEMMA CutBegins ==
  ASSUME NEW S, NEW t \in Seq(S), NEW n \in Nat, n <= Len(t)
  PROVE  SubSeq(t, 1, n) \in Seq(S) /\ Len(SubSeq(t, 1, n)) = n /\ Begins(SubSeq(t, 1, n), t)
<1>1. PICK u : u = SubSeq(t, 1, n)
  OBVIOUS
<1>2. u \in Seq(S) /\ Len(u) = (IF 1 <= n THEN n - 1 + 1 ELSE 0)
      /\ \A i \in 1..(n - 1 + 1) : u[i] = t[1 + i - 1]
  BY <1>1, CutIs
<1>3. Len(u) = n /\ \A i \in 1..n : u[i] = t[i]
  BY <1>2
<1>4. QED
  BY <1>1, <1>2, <1>3 DEF Begins

LEMMA NameInIs ==
  ASSUME NEW c \in Seq(Chars), NEW s, s = NameIn(c)
  PROVE  s \in Seq(Chars) /\ Begins(s, c) /\ LengthOf(s) = Len(s)
<1>1. PICK e \in Nat : e = NameEnd(c) /\ e <= Len(c) /\ e <= NameLength(c)
  <2>1. NameEnd(c) \in 0..Len(c) /\ Len(c) \in Nat
    BY NameEndIs, LenProperties
  <2>2. NameEnd(c) \in Nat /\ NameEnd(c) <= Len(c)
    BY <2>1
  <2>3. QED
    BY <2>2, NameEndIs
<1>2. s = SubSeq(c, 1, e)
  BY <1>1 DEF NameIn
<1>3. s \in Seq(Chars) /\ Len(s) = e /\ Begins(s, c)
  BY <1>1, <1>2, CutBegins
<1>4. ASSUME s # <<>>
      PROVE  Last(s) # "enter"
  <2>1. e \in 1..e /\ Last(s) = s[e]
    BY <1>3, <1>4, EmptySeq DEF Last
  <2>2. s[e] = c[e] /\ e \in 1..Len(c)
    BY <1>1, <1>3, <2>1 DEF Begins
  <2>3. c[e] \in Chars
    BY <2>2, ElementOfSeq
  <2>4. c[e] # Space
    <3>1. PICK m : m = NameLength(c)
      OBVIOUS
    <3>2. m \in 0..Len(c) /\ \A i \in 1..m : c[i] # Space
      BY <3>1, NameLengthIs
    <3>3. QED
      BY <1>1, <2>1, <3>1, <3>2
  <2>5. QED
    BY <2>1, <2>2, <2>3, <2>4, SpaceIs, LettersAssumption DEF Chars
<1>5. QED
  BY <1>3, <1>4 DEF LengthOf

(***************************************************************************)
(* A read from the beginning of a file delivers its first bytes, as many   *)
(* as there are; a file that is long enough for the check has all it looks *)
(* at.                                                                     *)
(***************************************************************************)
LEMMA FirstBytes ==
  ASSUME NEW f, f.size \in Nat \ {0}, NEW n \in Nat
  PROVE  /\ Len(ReadData(f, 0, n)) = Smaller(f.size, n)
         /\ IsPrefix(ReadData(f, 0, n), Content(f))
<1>1. PICK z \in Nat : z = f.size /\ 0 < z
  OBVIOUS
<1>2. PICK m \in Nat : m = End(f, 0, n) /\ m = Smaller(z, n) /\ m <= z
  BY <1>1 DEF End, Smaller
<1>3. PICK C : C = Content(f)
  OBVIOUS
<1>4. ReadData(f, 0, n) = SubSeq(C, 1, m)
  <2>1. ReadData(f, 0, n) = SubSeq(C, 0 + 1, m)
    <3>1. ReadData(f, 0, n) = SubSeq(Content(f), 0 + 1, End(f, 0, n))
      BY <1>1, ReadDataIs
    <3>2. QED
      BY <1>2, <1>3, <3>1, Zenon
  <2>2. QED
    BY <2>1
<1>5. PICK S : S = BytesOf(f)
  OBVIOUS
<1>6. C \in Seq(S) /\ Len(C) = z
  <2>1. BytesIn(f, S)
    BY <1>5 DEF BytesIn, BytesOf
  <2>2. QED
    BY <1>1, <1>3, <2>1, ContentIs
<1>7. SubSeq(C, 1, m) \in Seq(S) /\ Len(SubSeq(C, 1, m)) = m /\ Begins(SubSeq(C, 1, m), C)
  BY <1>2, <1>6, CutBegins
<1>8. IsPrefix(SubSeq(C, 1, m), C)
  BY <1>6, <1>7, BeginsIsPrefix
<1>9. QED
  BY <1>1, <1>2, <1>3, <1>4, <1>7, <1>8

LEMMA LongEnough ==
  ASSUME NEW f, f.size \in Nat, Len(ReadData(f, 0, MAGIC_LEN)) = MAGIC_LEN
  PROVE  f.size \in Nat \ {0} /\ f.size >= MAGIC_LEN
<1>1. f.size # 0
  <2>. SUFFICES ASSUME f.size = 0
                PROVE  FALSE
    OBVIOUS
  <2>1. ReadData(f, 0, MAGIC_LEN) = <<>>
    BY DEF ReadData, AtEnd
  <2>2. QED
    BY <2>1, ShellAssumption, EmptySeq
<1>2. MAGIC_LEN = Smaller(f.size, MAGIC_LEN)
  BY <1>1, FirstBytes, ShellAssumption
<1>3. QED
  BY <1>1, <1>2, ShellAssumption DEF Smaller

(***************************************************************************)
(* The invariant: what of a command is in the PCB and in memory at each    *)
(* turn, and how what execute returned and what the shell said come from   *)
(* the end of the program.                                                 *)
(***************************************************************************)
Loaded(i) ==
  LET f == inodes[dir[i].inode] IN
  /\ dir[i].type = "file" /\ f.magic /\ f.size >= MAGIC_LEN
  /\ dir[i].name = name
  /\ IsPrefix(image, Content(f)) /\ Len(image) = Smaller(f.size, LoadSize)

Disklike ==
  \A i \in 1..Len(dir) :
    /\ dir[i].name \in Seq(Range(dir[i].name))
    /\ dir[i].type = "file" => inodes[dir[i].inode].size \in Nat

Ready == name = <<>> /\ args = <<>> /\ ended = NotEnded /\ said = "prompt" /\ got = NotAsked

Returned ==
  \/ ended = [how |-> "failed", status |-> 0] /\ rval = -1
  \/ ended = [how |-> "full", status |-> 0] /\ rval = 0
  \/ \E st \in 0..255 :
       ended = [how |-> "halted", status |-> st] /\ rval = ReturnValue(st)
  \/ ended = [how |-> "exception", status |-> EXCEPTION] /\ rval = EXCEPT_RET

Handed(g, s) ==
  \/ g.ret = -1
  \/ g.ret = 0 /\ (g.buf = Append(s, "end") \/ g.buf = s)

Turns ==
  /\ turn \in {"prompt", "read"} => Ready
  /\ turn = "runs" => ended = NotEnded /\ said = "prompt"
  /\ turn = "back" => Returned
  /\ said # "prompt" => turn = "back" /\ said = Message(rval)

ShellInv ==
  /\ Disklike
  /\ command \in Seq(Chars) /\ line \in Seq(Chars \cup {"nl"}) /\ Begins(command, line)
  /\ args \in Seq(Chars)
  /\ turn \in {"prompt", "read", "runs", "back"} /\ Turns
  /\ name # <<>> => name = NameIn(command) /\ args = ArgsOf(command)
                    /\ \E i \in 1..Len(dir) : Loaded(i)
  /\ args # <<>> /\ got # NotAsked => Handed(got, args)

(***************************************************************************)
(* It holds when the shell starts.                                         *)
(***************************************************************************)
LEMMA InitHolds ==
  ShellInit => ShellInv
<1>. SUFFICES ASSUME ShellInit
              PROVE  ShellInv
  OBVIOUS
<1>1. Disklike
  <2>1. PICK d \in Disks : dir = d.dir /\ inodes = d.inodes
    BY DEF ShellInit
  <2>2. QED
    BY <2>1, DisksAssumption DEF Disklike
<1>2. /\ command = <<>> /\ line = <<>> /\ args = <<>> /\ name = <<>>
      /\ turn = "prompt" /\ ended = NotEnded /\ said = "prompt" /\ got = NotAsked
  BY DEF ShellInit
<1>3. <<>> \in Seq(Chars) /\ <<>> \in Seq(Chars \cup {"nl"}) /\ Begins(<<>>, <<>>)
  BY EmptySeq DEF Begins
<1>4. QED
  BY <1>1, <1>2, <1>3, Zenon DEF ShellInv, Turns, Ready

(***************************************************************************)
(* It survives each step.  What the shell runs is what it read, without    *)
(* the newline.                                                            *)
(***************************************************************************)
LEMMA DiskAlike ==
  ASSUME Disklike, UNCHANGED disk
  PROVE  Disklike'
BY DEF Disklike, disk

LEMMA LoadedAlike ==
  ASSUME UNCHANGED <<disk, job>>, \E i \in 1..Len(dir) : Loaded(i)
  PROVE  (\E i \in 1..Len(dir) : Loaded(i))'
BY DEF Loaded, disk, job

LEMMA TypedLine ==
  ASSUME NEW text \in Commands, NEW end \in {<<>>, <<"nl">>}, NEW l, l = text \o end
  PROVE  /\ l \in Seq(Chars \cup {"nl"})
         /\ WithoutNewline(l) \in Seq(Chars) /\ Begins(WithoutNewline(l), l)
<1>. DEFINE All == Chars \cup {"nl"}
<1>1. PICK n \in Nat : text \in [1..n -> Chars]
  BY ShellAssumption DEF Commands, Chars
<1>2. text \in Seq(Chars) /\ Len(text) = n
  <2>1. text = [i \in 1..n |-> text[i]] /\ \A i \in 1..n : text[i] \in Chars
    BY <1>1
  <2>2. [i \in 1..n |-> text[i]] \in Seq(Chars)
    BY <2>1, IsASeq
  <2>3. text \in Seq(Chars)
    BY <2>1, <2>2
  <2>4. QED
    BY <1>1, <2>3, LenProperties
<1>3. text \in Seq(All)
  BY <1>2, SeqMonotonic
<1>4. CASE end = <<>>
  <2>1. l = text
    BY <1>2, <1>4, ConcatEmptySeq
  <2>2. CASE WithoutNewline(l) = l
    <3>1. Begins(l, l)
      BY <1>3, <2>1, LenProperties DEF Begins
    <3>2. QED
      BY <1>2, <1>3, <2>1, <2>2, <3>1
  <2>3. CASE l # <<>> /\ WithoutNewline(l) = Front(l)
    <3>1. n - 1 \in Nat /\ n - 1 <= n
      BY <1>2, <2>1, <2>3, EmptySeq
    <3>2. Front(l) = SubSeq(text, 1, n - 1)
      BY <1>2, <2>1 DEF Front
    <3>3. Front(l) \in Seq(Chars) /\ Begins(Front(l), text)
      BY <1>2, <3>1, <3>2, CutBegins
    <3>4. QED
      BY <1>3, <2>1, <2>3, <3>3
  <2>4. QED
    BY <2>2, <2>3 DEF WithoutNewline
<1>5. CASE end = <<"nl">>
  <2>1. <<"nl">> \in Seq(All) /\ Len(<<"nl">>) = 1 /\ <<"nl">>[1] = "nl"
    OBVIOUS
  <2>2. /\ l \in Seq(All) /\ Len(l) = n + 1
        /\ \A i \in 1..(n + 1) : l[i] = IF i <= n THEN text[i] ELSE <<"nl">>[i - n]
    BY <1>2, <1>3, <1>5, <2>1, ConcatProperties
  <2>3. l # <<>> /\ Last(l) = "nl"
    <3>1. n + 1 \in 1..(n + 1) /\ ~(n + 1 <= n) /\ (n + 1) - n = 1
      OBVIOUS
    <3>2. l[n + 1] = "nl"
      BY <2>1, <2>2, <3>1
    <3>3. l # <<>>
      BY <2>2, EmptySeq
    <3>4. QED
      BY <2>2, <3>2, <3>3 DEF Last
  <2>4. WithoutNewline(l) = Front(l) /\ Front(l) = SubSeq(l, 1, n)
    BY <2>2, <2>3 DEF WithoutNewline, Front
  <2>5. /\ SubSeq(l, 1, n) \in Seq(All) /\ Len(SubSeq(l, 1, n)) = n
        /\ Begins(SubSeq(l, 1, n), l)
    <3>1. n <= Len(l)
      BY <2>2
    <3>. HIDE DEF All
    <3>2. QED
      BY <2>2, <3>1, CutBegins
  <2>6. SubSeq(l, 1, n) = text
    <3>1. \A i \in 1..n : SubSeq(l, 1, n)[i] = text[i]
      BY <2>2, <2>5 DEF Begins
    <3>2. QED
      BY <1>2, <1>3, <2>5, <3>1, SeqEqual
  <2>7. QED
    BY <1>2, <2>2, <2>4, <2>5, <2>6
<1>6. QED
  BY <1>4, <1>5

LEMMA ReadLineKeeps ==
  ASSUME ShellInv, ReadLine
  PROVE  ShellInv'
<1>1. PICK text \in Commands, end \in {<<>>, <<"nl">>} : line' = text \o end
  BY DEF ReadLine
<1>2. /\ line' \in Seq(Chars \cup {"nl"})
      /\ command' \in Seq(Chars) /\ Begins(command, line)'
  <2>1. command' = WithoutNewline(line')
    BY DEF ReadLine
  <2>2. /\ line' \in Seq(Chars \cup {"nl"}) /\ WithoutNewline(line') \in Seq(Chars)
        /\ Begins(WithoutNewline(line'), line')
    BY <1>1, TypedLine
  <2>3. QED
    BY <2>1, <2>2 DEF Begins
<1>3. /\ turn = "prompt" /\ turn' = "read"
      /\ UNCHANGED <<disk, name, args, image, rval, ended, said, got>>
  BY DEF ReadLine, job
<1>4. Disklike' /\ Ready /\ args \in Seq(Chars)
  BY <1>3, DiskAlike DEF ShellInv, Turns
<1>5. Ready'
  BY <1>3, <1>4 DEF Ready, NotAsked, NotEnded
<1>6. Turns' /\ name' = <<>> /\ args' = <<>> /\ got' = NotAsked'
  <2>1. said' = "prompt" /\ name' = <<>> /\ args' = <<>> /\ got' = NotAsked'
    BY <1>5 DEF Ready
  <2>2. QED
    BY <1>3, <1>5, <2>1 DEF Turns
<1>7. args' \in Seq(Chars)
  BY <1>3, <1>4
<1>8. QED
  BY <1>2, <1>3, <1>4, <1>6, <1>7 DEF ShellInv

LEMMA PromptKeeps ==
  ASSUME ShellInv, Prompt
  PROVE  ShellInv'
<1>1. /\ turn' = "prompt" /\ line' = <<>> /\ command' = <<>> /\ name' = <<>> /\ args' = <<>>
      /\ ended' = NotEnded /\ said' = "prompt" /\ got' = NotAsked /\ UNCHANGED disk
  BY DEF Prompt
<1>2. Disklike'
  BY <1>1, DiskAlike DEF ShellInv
<1>3. Ready' /\ Turns'
  BY <1>1 DEF Ready, Turns, NotAsked, NotEnded
<1>4. <<>> \in Seq(Chars) /\ <<>> \in Seq(Chars \cup {"nl"}) /\ Begins(<<>>, <<>>)
  BY EmptySeq DEF Begins
<1>5. Begins(command, line)'
  BY <1>1, <1>4 DEF Begins
<1>6. QED
  BY <1>1, <1>2, <1>3, <1>4, <1>5 DEF ShellInv, NotAsked

(***************************************************************************)
(* execute fails, and execute runs a program: the entry that it found has  *)
(* the name that was asked for (MatchesIs), and its first bytes are in     *)
(* memory.                                                                 *)
(***************************************************************************)
LEMMA ReturnsKeep ==
  ASSUME ShellInv, NEW r \in {-1, 0}, NEW how, Executes, ReturnsAtOnce(r, how),
         how = IF r = -1 THEN "failed" ELSE "full"
  PROVE  ShellInv'
<1>1. /\ turn = "read" /\ turn' = "back" /\ rval' = r
      /\ ended' = [how |-> how, status |-> 0]
      /\ UNCHANGED <<disk, line, command, name, args, image, said, got>>
  BY DEF Executes, ReturnsAtOnce, job
<1>2. Ready
  BY <1>1 DEF ShellInv, Turns
<1>3. Returned'
  BY <1>1 DEF Returned
<1>4. Turns' /\ name' = <<>> /\ args' = <<>>
  <2>1. said' = "prompt" /\ name' = <<>> /\ args' = <<>>
    BY <1>1, <1>2 DEF Ready
  <2>2. QED
    BY <1>1, <1>3, <2>1 DEF Turns
<1>5. /\ Disklike' /\ command' \in Seq(Chars) /\ line' \in Seq(Chars \cup {"nl"})
      /\ Begins(command, line)' /\ args' \in Seq(Chars)
  BY <1>1, DiskAlike DEF ShellInv, Begins
<1>6. QED
  BY <1>1, <1>4, <1>5 DEF ShellInv

LEMMA ArgsOfType ==
  ASSUME NEW c \in Seq(Chars)
  PROVE  ArgsOf(c) \in Seq(Chars)
<1>1. PICK n \in Nat : n = Len(c)
  BY LenProperties
<1>2. PICK e \in Nat : e = NameEnd(c) /\ e \in 0..Len(c)
  <2>1. NameEnd(c) \in 0..Len(c)
    BY NameEndIs
  <2>2. QED
    BY <1>1, <2>1
<1>3. ArgsStart(c) \in (e + 1)..(Len(c) + 1)
  BY <1>2, ArgsStartIs
<1>4. PICK m \in Nat \ {0}, k \in Nat : m = ArgsStart(c) /\ k = Smaller(Len(c), MAX_ARG_LENGTH) /\ k <= n
  <2>1. ArgsStart(c) \in Nat \ {0}
    BY <1>1, <1>2, <1>3
  <2>2. Smaller(n, MAX_ARG_LENGTH) \in Nat /\ Smaller(n, MAX_ARG_LENGTH) <= n
    BY ShellAssumption DEF Smaller
  <2>3. QED
    BY <1>1, <2>1, <2>2
<1>5. SubSeq(c, m, k) \in Seq(Chars)
  BY <1>1, <1>4, CutIs
<1>6. QED
  BY <1>4, <1>5 DEF ArgsOf

LEMMA RunsKeeps ==
  ASSUME ShellInv, ExecuteRuns
  PROVE  ShellInv'
<1>1. /\ turn = "read" /\ turn' = "runs" /\ name' = NameIn(command) /\ args' = ArgsOf(command)
      /\ UNCHANGED <<disk, line, command, rval, ended, said, got>>
  BY DEF Executes, ExecuteRuns
<1>2. Ready /\ Disklike /\ command \in Seq(Chars)
  BY <1>1 DEF ShellInv, Turns
<1>3. PICK i \in Found(command) :
        Runnable(i) /\ image' = ReadData(inodes[dir[i].inode], 0, LoadSize)
  BY DEF ExecuteRuns
<1>4. PICK asks : asks = NameIn(command)
  OBVIOUS
<1>5. i = DentryByName(asks) /\ i # 0 /\ IsExecutable(dir[i])
  BY <1>3, <1>4 DEF Found, Runnable
<1>6. i \in 1..Len(dir) /\ Matches(asks, dir[i].name)
  BY <1>5, FoundIs
<1>7. dir[i].name = asks
  <2>1. dir[i].name \in Seq(Range(dir[i].name))
    BY <1>2, <1>6 DEF Disklike
  <2>2. SubSeq(asks, 1, LengthOf(asks)) = dir[i].name
    BY <1>6, <2>1, MatchesIs
  <2>3. asks \in Seq(Chars) /\ LengthOf(asks) = Len(asks)
    BY <1>2, <1>4, NameInIs
  <2>4. SubSeq(asks, 1, Len(asks)) = asks
    BY <2>3, SubSeqFull
  <2>5. QED
    BY <2>2, <2>3, <2>4
<1>8. PICK f : f = inodes[dir[i].inode]
  OBVIOUS
<1>9. dir[i].type = "file" /\ f.magic /\ Len(ReadData(f, 0, MAGIC_LEN)) = MAGIC_LEN
  BY <1>5, <1>8 DEF IsExecutable
<1>10. f.size \in Nat
  BY <1>2, <1>6, <1>8, <1>9 DEF Disklike
<1>11. f.size \in Nat \ {0} /\ f.size >= MAGIC_LEN
  BY <1>9, <1>10, LongEnough
<1>12. Len(image') = Smaller(f.size, LoadSize) /\ IsPrefix(image', Content(f))
  BY <1>3, <1>8, <1>11, FirstBytes, ShellAssumption
<1>13. Loaded(i)'
  <2>1. dir' = dir /\ inodes' = inodes /\ f = inodes'[dir'[i].inode]
    BY <1>1, <1>8 DEF disk
  <2>2. dir'[i].type = "file" /\ dir'[i].name = name'
    BY <1>1, <1>4, <1>7, <1>9, <2>1
  <2>3. QED
    BY <1>9, <1>11, <1>12, <2>1, <2>2 DEF Loaded
<1>14. (\E k \in 1..Len(dir) : Loaded(k))'
  <2>1. i \in 1..Len(dir')
    BY <1>1, <1>6 DEF disk
  <2>2. QED
    BY <1>13, <2>1
<1>15. Turns' /\ got' = NotAsked'
  BY <1>1, <1>2 DEF Turns, Ready, NotEnded, NotAsked
<1>16. /\ Disklike' /\ command' \in Seq(Chars) /\ line' \in Seq(Chars \cup {"nl"})
       /\ Begins(command, line)'
  BY <1>1, DiskAlike DEF ShellInv, Begins
<1>17. args' \in Seq(Chars) /\ name' = NameIn(command)' /\ args' = ArgsOf(command)'
  <2>1. args' \in Seq(Chars)
    BY <1>1, <1>2, ArgsOfType
  <2>2. QED
    BY <1>1, <2>1
<1>18. QED
  BY <1>1, <1>14, <1>15, <1>16, <1>17 DEF ShellInv

(***************************************************************************)
(* getargs gives all of the arguments, with their end if there is room;    *)
(* halt and the message do not touch them.                                 *)
(***************************************************************************)
LEMMA StringHanded ==
  ASSUME NEW s \in Seq(Chars), NEW n \in Nat, Len(s) <= n, NEW b,
         b = SubSeq(Append(s, "end"), 1, Smaller(n, Len(s) + 1))
  PROVE  b = Append(s, "end") \/ b = s
<1>1. PICK m \in Nat : m = Len(s)
  BY LenProperties
<1>2. PICK S : S = Chars \cup {"end"}
  OBVIOUS
<1>3. s \in Seq(S) /\ "end" \in S
  BY <1>2, SeqMonotonic
<1>4. PICK t : t = Append(s, "end")
  OBVIOUS
<1>5. /\ t \in Seq(S) /\ Len(t) = m + 1 /\ \A i \in 1..m : t[i] = s[i]
  BY <1>1, <1>3, <1>4, AppendProperties
<1>6. CASE n = m
  <2>1. Smaller(n, Len(s) + 1) = m
    BY <1>1, <1>6 DEF Smaller
  <2>2. b = SubSeq(t, 1, m)
    BY <1>4, <2>1
  <2>3. m \in Nat /\ m <= Len(t)
    BY <1>5
  <2>4. b \in Seq(S) /\ Len(b) = m /\ Begins(b, t)
    BY <1>5, <2>2, <2>3, CutBegins
  <2>5. \A i \in 1..m : b[i] = s[i]
    BY <1>5, <2>4 DEF Begins
  <2>6. b = s
    BY <1>1, <1>3, <2>4, <2>5, SeqEqual
  <2>7. QED
    BY <2>6
<1>7. CASE n # m
  <2>1. Smaller(n, Len(s) + 1) = m + 1
    BY <1>1, <1>7 DEF Smaller
  <2>2. b = SubSeq(t, 1, Len(t))
    BY <1>4, <1>5, <2>1
  <2>3. b = t
    BY <1>5, <2>2, SubSeqFull
  <2>4. QED
    BY <1>4, <2>3
<1>8. QED
  BY <1>6, <1>7

LEMMA GetargsKeeps ==
  ASSUME ShellInv, NEW n \in ArgCounts, Getargs(n)
  PROVE  ShellInv'
<1>1. turn = "runs" /\ UNCHANGED <<disk, turn, line, command, name, args, image, rval, ended, said>>
  BY DEF Getargs, job
<1>2. n \in Nat /\ args \in Seq(Chars)
  BY ShellAssumption DEF ShellInv
<1>3. args # <<>> => Handed(got', args)
  <2>. SUFFICES ASSUME args # <<>>
                PROVE  Handed(got', args)
    OBVIOUS
  <2>1. CASE got' = [ret |-> -1, buf |-> <<>>]
    <3>1. got'.ret = -1
      BY <2>1
    <3>2. QED
      BY <3>1 DEF Handed
  <2>2. CASE Fits(n) /\ got' = [ret |-> 0, buf |-> SubSeq(Append(args, "end"), 1, Smaller(n, Len(args) + 1))]
    <3>1. PICK b : b = SubSeq(Append(args, "end"), 1, Smaller(n, Len(args) + 1))
      OBVIOUS
    <3>2. b = Append(args, "end") \/ b = args
      BY <1>2, <2>2, <3>1, StringHanded DEF Fits
    <3>3. got'.ret = 0 /\ got'.buf = b
      BY <2>2, <3>1
    <3>4. QED
      BY <3>2, <3>3 DEF Handed
  <2>3. QED
    BY <2>1, <2>2 DEF Getargs
<1>4. /\ Disklike' /\ command' \in Seq(Chars) /\ line' \in Seq(Chars \cup {"nl"})
      /\ Begins(command, line)' /\ args' \in Seq(Chars)
  BY <1>1, DiskAlike DEF ShellInv, Begins
<1>5. Turns'
  <2>1. turn' = "runs" /\ ended' = NotEnded /\ said' = "prompt"
    BY <1>1 DEF ShellInv, Turns
  <2>2. QED
    BY <2>1 DEF Turns, NotEnded
<1>6. name' # <<>> => name' = NameIn(command') /\ args' = ArgsOf(command')
                      /\ (\E i \in 1..Len(dir) : Loaded(i))'
  BY <1>1, LoadedAlike DEF ShellInv, job
<1>7. args' # <<>> /\ got' # NotAsked' => Handed(got', args')
  BY <1>1, <1>3
<1>8. QED
  BY <1>1, <1>4, <1>5, <1>6, <1>7 DEF ShellInv, Handed

LEMMA HaltKeeps ==
  ASSUME ShellInv, NEW st \in 0..255, NEW how \in {"halted", "exception"},
         how = "exception" => st = EXCEPTION, HaltWith(st, how)
  PROVE  ShellInv'
<1>1. /\ turn = "runs" /\ turn' = "back" /\ rval' = ReturnValue(st)
      /\ ended' = [how |-> how, status |-> st]
      /\ UNCHANGED <<disk, line, command, name, args, image, said, got>>
  BY DEF HaltWith, job
<1>2. Returned'
  BY <1>1 DEF Returned, ReturnValue, EXCEPTION, EXCEPT_RET
<1>3. Turns'
  <2>1. said' = "prompt"
    BY <1>1 DEF ShellInv, Turns
  <2>2. QED
    BY <1>1, <1>2, <2>1 DEF Turns
<1>4. /\ Disklike' /\ command' \in Seq(Chars) /\ line' \in Seq(Chars \cup {"nl"})
      /\ Begins(command, line)' /\ args' \in Seq(Chars)
  BY <1>1, DiskAlike DEF ShellInv, Begins
<1>5. name' # <<>> => name' = NameIn(command') /\ args' = ArgsOf(command')
                      /\ (\E i \in 1..Len(dir) : Loaded(i))'
  BY <1>1, LoadedAlike DEF ShellInv, job
<1>6. args' # <<>> /\ got' # NotAsked' => Handed(got', args')
  BY <1>1 DEF ShellInv, NotAsked
<1>7. QED
  BY <1>1, <1>3, <1>4, <1>5, <1>6 DEF ShellInv, Handed

LEMMA TellKeeps ==
  ASSUME ShellInv, Tell
  PROVE  ShellInv'
<1>1. /\ turn = "back" /\ turn' = "back" /\ said' = Message(rval)
      /\ UNCHANGED <<disk, line, command, name, args, image, rval, ended, got>>
  BY DEF Tell, job
<1>2. Returned'
  BY <1>1 DEF ShellInv, Turns, Returned, NotEnded
<1>3. Turns'
  BY <1>1, <1>2 DEF Turns, Message
<1>4. /\ Disklike' /\ command' \in Seq(Chars) /\ line' \in Seq(Chars \cup {"nl"})
      /\ Begins(command, line)' /\ args' \in Seq(Chars)
  BY <1>1, DiskAlike DEF ShellInv, Begins
<1>5. name' # <<>> => name' = NameIn(command') /\ args' = ArgsOf(command')
                      /\ (\E i \in 1..Len(dir) : Loaded(i))'
  BY <1>1, LoadedAlike DEF ShellInv, job
<1>6. args' # <<>> /\ got' # NotAsked' => Handed(got', args')
  BY <1>1 DEF ShellInv, NotAsked
<1>7. QED
  BY <1>1, <1>3, <1>4, <1>5, <1>6 DEF ShellInv, Handed

(***************************************************************************)
(* No step leaves the invariant.                                           *)
(***************************************************************************)
LEMMA ShellStep ==
  ASSUME ShellInv, [ShellNext]_shellvars
  PROVE  ShellInv'
<1>1. CASE ReadLine
  BY <1>1, ReadLineKeeps
<1>2. CASE Exit \/ EmptyLine \/ NextTurn
  BY <1>2, PromptKeeps DEF Exit, EmptyLine, NextTurn
<1>3. CASE ExecuteFails \/ ExecuteFull
  <2>1. CASE ExecuteFails
    BY <2>1, ReturnsKeep DEF ExecuteFails
  <2>2. CASE ExecuteFull
    BY <2>2, ReturnsKeep DEF ExecuteFull
  <2>3. QED
    BY <1>3, <2>1, <2>2
<1>4. CASE ExecuteRuns
  BY <1>4, RunsKeeps
<1>5. CASE \E n \in ArgCounts : Getargs(n)
  BY <1>5, GetargsKeeps
<1>6. CASE \E st \in Statuses : Halt(st)
  BY <1>6, HaltKeeps, ShellAssumption DEF Halt
<1>7. CASE Exception
  BY <1>7, HaltKeeps DEF Exception, EXCEPTION
<1>8. CASE Tell
  BY <1>8, TellKeeps
<1>9. CASE UNCHANGED shellvars
  <2>1. UNCHANGED <<disk, turn, line, command, name, args, image, rval, ended, said, got>>
    BY <1>9 DEF shellvars, job
  <2>2. /\ Disklike' /\ command' \in Seq(Chars) /\ line' \in Seq(Chars \cup {"nl"})
        /\ Begins(command, line)' /\ args' \in Seq(Chars)
    BY <2>1, DiskAlike DEF ShellInv, Begins
  <2>3. Turns'
    BY <2>1, ZenonT(30) DEF ShellInv, Turns, Ready, Returned, NotEnded, NotAsked, Message
  <2>4. name' # <<>> => name' = NameIn(command') /\ args' = ArgsOf(command')
                        /\ (\E i \in 1..Len(dir) : Loaded(i))'
    BY <2>1, LoadedAlike DEF ShellInv, job
  <2>5. args' # <<>> /\ got' # NotAsked' => Handed(got', args')
    BY <2>1 DEF ShellInv, NotAsked
  <2>6. QED
    BY <2>1, <2>2, <2>3, <2>4, <2>5 DEF ShellInv, Handed
<1>10. QED
  BY <1>1, <1>2, <1>3, <1>4, <1>5, <1>6, <1>7, <1>8, <1>9 DEF ShellNext

(***************************************************************************)
(* The invariant holds of the shell, whatever is typed, on every disk.     *)
(***************************************************************************)
THEOREM ShellInvariance == ShellSpec => []ShellInv
<1>1. ShellInit => ShellInv
  BY InitHolds
<1>2. ShellInv /\ [ShellNext]_shellvars => ShellInv'
  BY ShellStep
<1>3. QED
  BY <1>1, <1>2, PTL DEF ShellSpec

(***************************************************************************)
(* A command whose first word is a possible file name reaches the program  *)
(* without loss: PCB name and args are its parts (handle_command,          *)
(* syscall.c:435-449), and getargs hands over all arguments or fails       *)
(* (557-574).                                                              *)
(***************************************************************************)
THEOREM ArgumentsCorrect == ShellSpec => []ArgumentsReachProgram
<1>1. ShellInv => ArgumentsReachProgram
  <2>. SUFFICES ASSUME ShellInv
                PROVE  ArgumentsReachProgram
    OBVIOUS
  <2>1. Ran /\ Plain(command) => TakenApart(command)
    BY Apart DEF ShellInv, Ran
  <2>2. args # <<>> /\ got # NotAsked => Handed(got, args)
    BY DEF ShellInv
  <2>3. QED
    BY <2>1, <2>2 DEF ArgumentsReachProgram, Handed
<1>2. QED
  BY <1>1, ShellInvariance, PTL

(***************************************************************************)
(* The name in the PCB is the first word of the command, or a cut one.     *)
(***************************************************************************)
LEMMA WordTaken ==
  ASSUME NEW c \in Seq(Chars), NEW w, w = NameIn(c)
  PROVE  IsFirstWord(w, c) \/ IsCutWord(w, c)
<1>1. PICK n \in Nat : n = Len(c)
  BY LenProperties
<1>2. PICK m : m = NameLength(c)
  OBVIOUS
<1>3. m \in 0..n /\ (\A i \in 1..m : c[i] # Space) /\ (m < n => c[m + 1] = Space)
  BY <1>1, <1>2, NameLengthIs
<1>4. PICK e \in Nat : e = NameEnd(c) /\ e <= m /\ e <= FILE_NAME /\ (e = m \/ e = FILE_NAME)
  <2>1. Smaller(m, FILE_NAME) \in Nat
    BY <1>3, DiskAssumption DEF Smaller
  <2>2. NameEnd(c) = Smaller(m, FILE_NAME)
    BY <1>2 DEF NameEnd
  <2>3. QED
    BY <1>3, <2>1, <2>2, DiskAssumption DEF Smaller
<1>5. /\ Len(w) = e /\ \A i \in 1..e : w[i] = c[i]
  <2>1. w = SubSeq(c, 1, e) /\ e <= Len(c)
    BY <1>1, <1>3, <1>4 DEF NameIn
  <2>2. Len(w) = e /\ Begins(w, c)
    BY <2>1, CutBegins
  <2>3. QED
    BY <2>2 DEF Begins
<1>6. \A i \in 1..Len(w) : w[i] # Space
  BY <1>3, <1>4, <1>5
<1>7. CASE e = m
  BY <1>1, <1>3, <1>5, <1>6, <1>7 DEF IsFirstWord
<1>8. CASE e # m
  <2>1. e = FILE_NAME /\ e + 1 \in 1..m /\ e < n
    BY <1>3, <1>4, <1>8
  <2>2. c[e + 1] # Space
    BY <1>3, <2>1
  <2>3. QED
    BY <1>1, <1>5, <1>6, <2>1, <2>2 DEF IsCutWord
<1>9. QED
  BY <1>7, <1>8

(***************************************************************************)
(* The program in memory is the executable file whose whole name is the    *)
(* first word of the line, or the first FILE_NAME characters of a longer   *)
(* one, from its first byte on (execute, syscall.c:136-205, and            *)
(* handle_command, 435-449).                                               *)
(***************************************************************************)
THEOREM NamedProgramCorrect == ShellSpec => []RunsNamedProgram
<1>1. ShellInv => RunsNamedProgram
  <2>. SUFFICES ASSUME ShellInv, Ran
                PROVE  /\ IsPrefix(name, line)
                       /\ IsFirstWord(name, command) \/ IsCutWord(name, command)
                       /\ \E i \in 1..Len(dir) : Loaded(i)
    BY DEF RunsNamedProgram, Loaded
  <2>1. \E i \in 1..Len(dir) : Loaded(i)
    BY DEF ShellInv, Ran
  <2>2. name = NameIn(command) /\ command \in Seq(Chars)
    BY DEF ShellInv, Ran
  <2>3. IsFirstWord(name, command) \/ IsCutWord(name, command)
    BY <2>2, WordTaken
  <2>4. IsPrefix(name, line)
    <3>1. PICK S : S = Chars \cup {"nl"}
      OBVIOUS
    <3>2. line \in Seq(S) /\ Begins(command, line)
      BY <3>1 DEF ShellInv
    <3>3. name \in Seq(Chars) /\ Begins(name, command)
      BY <2>2, NameInIs
    <3>4. name \in Seq(S) /\ command \in Seq(S)
      BY <2>2, <3>1, <3>3, SeqMonotonic
    <3>5. Begins(name, line)
      BY <3>2, <3>3, <3>4, BeginsOn
    <3>6. QED
      BY <3>2, <3>4, <3>5, BeginsIsPrefix
  <2>5. QED
    BY <2>1, <2>3, <2>4
<1>2. QED
  BY <1>1, ShellInvariance, PTL

(***************************************************************************)
(* The ends of a call of execute that the value it returns tells apart,    *)
(* and those that it does not.                                             *)
(***************************************************************************)
ToldBy(r) ==
  /\ r = -1 <=> ended.how = "failed"
  /\ r \in 1..254 <=> HaltedWith(1..254)
  /\ r = 256 <=> ended.how = "exception" \/ HaltedWith({EXCEPTION})
  /\ r = 0 <=> ended.how = "full" \/ HaltedWith({0})

LEMMA ValueTells ==
  ASSUME Returned
  PROVE  /\ rval \in {-1, 0, 256} \cup 1..254
         /\ ToldBy(rval)
<1>1. CASE ended = [how |-> "failed", status |-> 0] /\ rval = -1
  BY <1>1 DEF ToldBy, HaltedWith
<1>2. CASE ended = [how |-> "full", status |-> 0] /\ rval = 0
  BY <1>2 DEF ToldBy, HaltedWith
<1>3. CASE ended = [how |-> "exception", status |-> EXCEPTION] /\ rval = EXCEPT_RET
  BY <1>3 DEF ToldBy, HaltedWith, EXCEPT_RET
<1>4. ASSUME NEW st \in 0..255,
             ended = [how |-> "halted", status |-> st], rval = ReturnValue(st)
      PROVE  rval \in {-1, 0, 256} \cup 1..254 /\ ToldBy(rval)
  <2>1. ended.how = "halted" /\ ended.status = st
    BY <1>4
  <2>2. \/ st = 255 /\ rval = 256
        \/ st \in 0..254 /\ rval = st
    BY <1>4 DEF ReturnValue, EXCEPTION, EXCEPT_RET
  <2>3. QED
    BY <2>1, <2>2 DEF ToldBy, HaltedWith, EXCEPTION
<1>5. QED
  BY <1>1, <1>2, <1>3, <1>4 DEF Returned

(***************************************************************************)
(* What the shell says corresponds to the ends of execute's call exactly   *)
(* as stated, the two confusions included (halt, syscall.c:61; execute,    *)
(* 150-153; ece391shell.c:27-33).                                          *)
(***************************************************************************)
THEOREM MessageCorrect == ShellSpec => []MessageTellsOutcome
<1>1. ShellInv => MessageTellsOutcome
  <2>. SUFFICES ASSUME ShellInv, said # "prompt"
                PROVE  MessageTellsOutcome
    BY Zenon DEF MessageTellsOutcome
  <2>1. Returned /\ said = Message(rval)
    BY Zenon DEF ShellInv, Turns
  <2>2. PICK r \in Int : r = rval /\ r \in {-1, 0, 256} \cup 1..254 /\ ToldBy(r)
    BY <2>1, ValueTells
  <2>3. PICK m : m = said
    OBVIOUS
  <2>4. /\ m = "no such command" <=> r = -1
        /\ m = "program terminated by exception" <=> r = 256
        /\ m = "nothing" <=> r = 0
        /\ m = "program terminated abnormally" <=> r \in 1..254
    <3>1. m = Message(r)
      BY <2>1, <2>2, <2>3
    <3>2. /\ r = -1 => m = "no such command"
          /\ r = 256 => m = "program terminated by exception"
          /\ r = 0 => m = "nothing"
          /\ r \notin {-1, 0, 256} => m = "program terminated abnormally"
      BY <3>1, MessageIs
    <3>3. r = -1 \/ r = 256 \/ r = 0 \/ (r \in 1..254 /\ r \notin {-1, 0, 256})
      BY <2>2
    <3>4. -1 # 256 /\ -1 # 0 /\ 256 # 0 /\ -1 \notin 1..254 /\ 0 \notin 1..254 /\ 256 \notin 1..254
      OBVIOUS
    <3>5. QED
      BY <3>2, <3>3, <3>4, MessagesDiffer, Zenon
  <2>5. QED
    BY <2>2, <2>3, <2>4, Zenon DEF MessageTellsOutcome, ToldBy
<1>2. QED
  BY <1>1, ShellInvariance, PTL

=============================================================================
