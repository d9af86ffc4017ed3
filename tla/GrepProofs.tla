------------------------------ MODULE GrepProofs ------------------------------
(***************************************************************************)
(* grep prints the lines with the string for every file without NULs,      *)
(* every string, every size of the buffer and whatever the buffer holds at *)
(* first (GrepFindsLines).                                                 *)
(*                                                                         *)
(* The proof relates the buffer to the file.  The valid bytes are the last *)
(* ones read, so the byte at place i of the buffer is the one at place     *)
(* file_pos - last + i of the file, unless a line before it was ended      *)
(* there by a NUL (BufferHolds); what is printed is therefore a piece of   *)
(* the file.  If no line is longer than the buffer, the place where the    *)
(* next line begins follows a newline of the file, but for a line that     *)
(* fills the buffer: then its newline is still to be read, and looks like  *)
(* an empty line (Progress).  The lines wanted are those printed so far    *)
(* and those wanted from that newline on.  A newline that happens to be    *)
(* behind the buffer breaks this only when the buffer fills up before the  *)
(* file ends.                                                              *)
(***************************************************************************)
EXTENDS Grep, SequenceTheorems, WellFoundedInduction, TLAPS

Chars == (Letters \ {"null"}) \cup {"nl"}

\* The places of the file of the first byte of the buffer and of the next line.
First == file_pos - last
Reached == IF pc = "lines" THEN First + line_start ELSE First

TypeInv ==
  /\ text \in Seq(Chars) /\ s \in Seq(Letters \ {"null"}) /\ s # <<>>
  /\ pc \in {"read", "lines", "done"}
  /\ file_pos \in Nat /\ last \in Nat /\ cnt \in Nat /\ line_start \in Nat
  /\ last <= file_pos /\ file_pos <= Len(text) /\ last <= BUFSIZE
  /\ out \in Seq(Seq(Chars))

HoldsFrom(i) == \A k \in i..(last - 1) : data[k] = text[First + k + 1]

BufferHolds ==
  /\ DOMAIN data = Places /\ (behind # "nl" => data[BUFSIZE] # "nl")
  /\ pc = "read" => HoldsFrom(0) /\ last < BUFSIZE
  /\ pc = "lines" => HoldsFrom(line_start) /\ line_start <= last

\* A read that stops short of the end of the buffer, or reads nothing, is at the end of the file.
ReadsFill ==
  /\ pc = "lines" => (last < BUFSIZE \/ cnt = 0 => file_pos = Len(text))
  /\ pc = "done" => last = 0 /\ file_pos = Len(text)

PiecesFound == \A i \in 1..Len(out) : HasPattern(out[i]) /\ PieceOfText(out[i])

\* What is printed, and what is wanted from the next line on, are all the lines wanted.
FoundUpTo(b) == out \o WantedFrom[b] = WantedFrom[0]
AtLine == (pc = "lines" /\ line_start # 0) \/ (pc = "read" /\ last # 0)
Progress ==
  \E b \in Breaks : (b = Reached \/ (b = Reached + 1 /\ ~ AtLine)) /\ FoundUpTo(b)

GrepInv == TypeInv /\ BufferHolds /\ ReadsFill /\ PiecesFound /\ (Whole => Progress)

\* Of a file with NULs nothing is claimed.
PlainInv == Plain => GrepInv

-----------------------------------------------------------------------------

(***************************************************************************)
(* Induction on the natural numbers, and least elements.                   *)
(***************************************************************************)
LEMMA LeastIs ==
  ASSUME NEW T \in SUBSET Nat, T # {}
  PROVE  \E m \in T : \A n \in T : m <= n
<1>1. PICK m \in T : \A n \in T : ~ (<<n, m>> \in OpToRel(<, Nat))
  BY NatLessThanWellFounded, WFMin
<1>2. ASSUME NEW n \in T
      PROVE  m <= n
  <2>1. ~ (n < m)
    BY <1>1 DEF OpToRel
  <2>2. QED
    BY <2>1
<1>3. QED
  BY <1>2

LEMMA NatSetInduction ==
  ASSUME NEW S, 0 \in S, \A n \in Nat : n \in S => n + 1 \in S
  PROVE  Nat \subseteq S
<1>. DEFINE T == Nat \ S
<1>. SUFFICES ASSUME T # {}
              PROVE  FALSE
  OBVIOUS
<1>1. PICK m \in T : \A n \in T : m <= n
  BY LeastIs
<1>2. m - 1 \in Nat /\ (m - 1) + 1 = m
  <2>1. m # 0
    OBVIOUS
  <2>2. QED
    BY <2>1
<1>3. m - 1 \in T
  BY <1>2
<1>4. m <= m - 1
  BY <1>1, <1>3
<1>5. QED
  BY <1>4

(***************************************************************************)
(* The lines of a text and those with a string, named by text and string.  *)
(***************************************************************************)
BreaksOf(t) == {0, Len(t) + 1} \cup {i \in 1..Len(t) : t[i] = "nl"}
NextOf(t, b) ==
  CHOOSE e \in BreaksOf(t) : e > b /\ \A x \in BreaksOf(t) : x > b => e <= x
LineOf(t, b) == SubSeq(t, b + 1, NextOf(t, b) - 1)
Has(p, line) == \E i \in 1..Len(line) : IsPrefix(p, SubSeq(line, i, Len(line)))
IfWanted(p, line) == IF Has(p, line) THEN <<line>> ELSE <<>>
WantedBody(t, p, f) ==
  [b \in BreaksOf(t) |-> IF b = Len(t) + 1 THEN <<>>
                         ELSE IfWanted(p, LineOf(t, b)) \o f[NextOf(t, b)]]
WantedBy(t, p) == CHOOSE f : f = WantedBody(t, p, f)

LEMMA NamedByText ==
  /\ Breaks = BreaksOf(text) /\ Starts = BreaksOf(text) \ {Len(text) + 1}
  /\ \A b : NextBreak(b) = NextOf(text, b) /\ LineAfter(b) = LineOf(text, b)
  /\ \A line : HasPattern(line) <=> Has(s, line)
<1>1. Breaks = BreaksOf(text)
  BY DEF Breaks, BreaksOf
<1>2. \A b : NextBreak(b) = NextOf(text, b)
  BY <1>1, Zenon DEF NextBreak, NextOf
<1>3. QED
  BY <1>1, <1>2, Zenon DEF Starts, LineAfter, LineOf, HasPattern, Has

LEMMA WantedByText == WantedFrom = WantedBy(text, s)
<1>1. ASSUME NEW f
      PROVE  [b \in Breaks |-> IF b \notin Starts THEN <<>>
                ELSE (IF HasPattern(LineAfter(b)) THEN <<LineAfter(b)>> ELSE <<>>)
                     \o f[NextBreak(b)]]
             = WantedBody(text, s, f)
  <2>1. ASSUME NEW b \in Breaks
        PROVE  (IF b \notin Starts THEN <<>>
                ELSE (IF HasPattern(LineAfter(b)) THEN <<LineAfter(b)>> ELSE <<>>)
                     \o f[NextBreak(b)])
               = IF b = Len(text) + 1 THEN <<>>
                 ELSE IfWanted(s, LineOf(text, b)) \o f[NextOf(text, b)]
    BY NamedByText, Zenon DEF Starts, IfWanted
  <2>2. QED
    BY <2>1, NamedByText, Zenon DEF WantedBody
<1>2. QED
  BY <1>1, Zenon DEF WantedFrom, WantedBy

LEMMA BreaksIs ==
  ASSUME NEW t, t \in Seq(Chars)
  PROVE  /\ BreaksOf(t) \subseteq 0..(Len(t) + 1) /\ BreaksOf(t) \subseteq Nat
         /\ 0 \in BreaksOf(t) /\ Len(t) + 1 \in BreaksOf(t)
         /\ \A b \in BreaksOf(t) : b = 0 \/ b = Len(t) + 1 \/ (b \in 1..Len(t) /\ t[b] = "nl")
<1>. PICK n \in Nat : n = Len(t)
  BY LenProperties
<1>. QED
  BY DEF BreaksOf

LEMMA NextIs ==
  ASSUME NEW t, t \in Seq(Chars), NEW b \in BreaksOf(t), b # Len(t) + 1
  PROVE  /\ NextOf(t, b) \in BreaksOf(t) /\ NextOf(t, b) > b
         /\ \A x \in BreaksOf(t) : x > b => NextOf(t, b) <= x
<1>. PICK n \in Nat : n = Len(t)
  BY LenProperties
<1>. DEFINE T == {x \in BreaksOf(t) : x > b}
<1>1. T \in SUBSET Nat
  BY BreaksIs
<1>2. n + 1 \in T
  BY BreaksIs
<1>3. PICK m \in T : \A x \in T : m <= x
  BY <1>1, <1>2, LeastIs
<1>4. QED
  BY <1>3 DEF NextOf

LEMMA NextUnique ==
  ASSUME NEW t, t \in Seq(Chars), NEW b \in BreaksOf(t), NEW e \in BreaksOf(t), e > b,
         \A x \in BreaksOf(t) : x > b => e <= x
  PROVE  NextOf(t, b) = e
<1>. PICK n \in Nat : n = Len(t)
  BY LenProperties
<1>1. BreaksOf(t) \subseteq Nat /\ b # n + 1
  BY BreaksIs
<1>2. PICK x : x = NextOf(t, b)
  OBVIOUS
<1>3. x \in BreaksOf(t) /\ x > b /\ x <= e
  BY <1>1, <1>2, NextIs
<1>4. e <= x
  BY <1>3
<1>5. QED
  BY <1>1, <1>2, <1>3, <1>4

LEMMA LineIs ==
  ASSUME NEW t, t \in Seq(Chars), NEW b \in BreaksOf(t), b # Len(t) + 1
  PROVE  LineOf(t, b) \in Seq(Chars) /\ Len(LineOf(t, b)) = NextOf(t, b) - b - 1
<1>. PICK n \in Nat : n = Len(t)
  BY LenProperties
<1>1. PICK e \in Nat : e = NextOf(t, b) /\ e > b /\ e <= n + 1
  BY BreaksIs, NextIs
<1>2. b \in Nat
  BY BreaksIs
<1>3. \A i \in (b + 1)..(e - 1) : t[i] \in Chars
  <2>1. \A i \in (b + 1)..(e - 1) : i \in 1..Len(t)
    BY <1>1, <1>2
  <2>2. QED
    BY <2>1, ElementOfSeq
<1>4. PICK l : l = SubSeq(t, b + 1, e - 1)
  OBVIOUS
<1>5. l \in Seq(Chars) /\ Len(l) = IF b + 1 <= e - 1 THEN (e - 1) - (b + 1) + 1 ELSE 0
  BY <1>1, <1>2, <1>3, <1>4, SubSeqProperties
<1>6. QED
  BY <1>1, <1>2, <1>4, <1>5 DEF LineOf

LEMMA EmptyLine ==
  ASSUME NEW p, NEW l \in Seq(Chars), Len(l) = 0
  PROVE  IfWanted(p, l) = <<>>
BY DEF IfWanted, Has

LEMMA IfWantedType ==
  ASSUME NEW p, NEW l \in Seq(Chars)
  PROVE  IfWanted(p, l) \in Seq(Seq(Chars))
<1>1. <<l>> \in Seq(Seq(Chars))
  OBVIOUS
<1>2. QED
  BY <1>1, EmptySeq DEF IfWanted

(***************************************************************************)
(* The lines wanted are well defined: from the last break backwards.       *)
(***************************************************************************)
Unfolds(t, p, f, b) ==
  f[b] = IF b = Len(t) + 1 THEN <<>> ELSE IfWanted(p, LineOf(t, b)) \o f[NextOf(t, b)]

LEMMA WantedExists ==
  ASSUME NEW t, t \in Seq(Chars), NEW p
  PROVE  \E f : f = WantedBody(t, p, f)
<1>. PICK N \in Nat : N = Len(t) + 1
  BY LenProperties
<1>. DEFINE B == BreaksOf(t)
            Ok(n, f) == \A b \in B : b + n >= N => Unfolds(t, p, f, b)
            T == {n \in Nat : \E f : Ok(n, f)}
<1>1. B \subseteq Nat /\ \A b \in B : b <= N
  BY BreaksIs
<1>2. 0 \in T
  <2>. DEFINE f == [b \in B |-> <<>>]
  <2>1. \A b \in B : b + 0 >= N => b = Len(t) + 1
    BY <1>1
  <2>2. Ok(0, f)
    BY <2>1 DEF Unfolds
  <2>3. QED
    BY <2>2
<1>3. ASSUME NEW n \in Nat, n \in T
      PROVE  n + 1 \in T
  <2>1. PICK f : Ok(n, f)
    BY <1>3
  <2>. DEFINE h == [b \in B |-> IF b + (n + 1) = N
                                THEN IF b = Len(t) + 1 THEN <<>>
                                     ELSE IfWanted(p, LineOf(t, b)) \o f[NextOf(t, b)]
                                ELSE f[b]]
  <2>2. ASSUME NEW b \in B, b + (n + 1) >= N
        PROVE  Unfolds(t, p, h, b)
    <3>1. ASSUME b # Len(t) + 1
          PROVE  h[NextOf(t, b)] = f[NextOf(t, b)]
      <4>1. PICK e \in B : e = NextOf(t, b) /\ e > b
        BY <3>1, NextIs
      <4>2. e + (n + 1) # N
        BY <4>1, <1>1, <2>2
      <4>3. QED
        BY <4>1, <4>2
    <3>2. CASE b + (n + 1) = N
      <4>1. h[b] = IF b = Len(t) + 1 THEN <<>>
                   ELSE IfWanted(p, LineOf(t, b)) \o f[NextOf(t, b)]
        BY <3>2
      <4>. HIDE DEF h
      <4>2. QED
        BY <4>1, <3>1, Zenon DEF Unfolds
    <3>3. CASE b + (n + 1) # N
      <4>1. b + n >= N
        BY <3>3, <2>2, <1>1
      <4>2. Unfolds(t, p, f, b)
        BY <4>1, <2>1
      <4>3. h[b] = f[b]
        BY <3>3
      <4>. HIDE DEF h
      <4>4. QED
        BY <4>2, <4>3, <3>1, Zenon DEF Unfolds
    <3>4. QED
      BY <3>2, <3>3
  <2>. HIDE DEF h
  <2>3. Ok(n + 1, h) /\ n + 1 \in Nat
    BY <2>2
  <2>. HIDE DEF Ok
  <2>4. QED
    BY <2>3
<1>4. N \in T
  <2>. HIDE DEF T
  <2>1. QED
    BY <1>2, <1>3, NatSetInduction
<1>5. PICK f : Ok(N, f)
  BY <1>4
<1>6. \A b \in B : Unfolds(t, p, f, b)
  BY <1>1, <1>5
<1>. DEFINE g == [b \in B |-> f[b]]
<1>7. ASSUME NEW b \in B
      PROVE  g[b] = IF b = Len(t) + 1 THEN <<>>
                    ELSE IfWanted(p, LineOf(t, b)) \o g[NextOf(t, b)]
  <2>1. b # Len(t) + 1 => g[NextOf(t, b)] = f[NextOf(t, b)]
    BY NextIs
  <2>2. g[b] = f[b]
    OBVIOUS
  <2>. HIDE DEF g
  <2>3. QED
    BY <1>6, <2>1, <2>2, Zenon DEF Unfolds
<1>8. g = WantedBody(t, p, g)
  <2>1. g = [b \in B |-> IF b = Len(t) + 1 THEN <<>>
                         ELSE IfWanted(p, LineOf(t, b)) \o g[NextOf(t, b)]]
    <3>1. g = [b \in B |-> g[b]]
      OBVIOUS
    <3>. HIDE DEF g
    <3>2. QED
      BY <3>1, <1>7, Zenon
  <2>. HIDE DEF g
  <2>2. QED
    BY <2>1, Zenon DEF WantedBody
<1>9. QED
  BY <1>8

LEMMA WantedUnfolds ==
  ASSUME NEW t, t \in Seq(Chars), NEW p, NEW b \in BreaksOf(t)
  PROVE  Unfolds(t, p, WantedBy(t, p), b)
<1>1. PICK f : f = WantedBy(t, p)
  OBVIOUS
<1>2. f = WantedBody(t, p, f)
  BY <1>1, WantedExists, Zenon DEF WantedBy
<1>. DEFINE row == [x \in BreaksOf(t) |-> IF x = Len(t) + 1 THEN <<>>
                      ELSE IfWanted(p, LineOf(t, x)) \o f[NextOf(t, x)]]
<1>3. f = row
  BY <1>2, Zenon DEF WantedBody
<1>4. row[b] = IF b = Len(t) + 1 THEN <<>> ELSE IfWanted(p, LineOf(t, b)) \o f[NextOf(t, b)]
  OBVIOUS
<1>. HIDE DEF row
<1>5. QED
  BY <1>1, <1>3, <1>4, Zenon DEF Unfolds

LEMMA WantedType ==
  ASSUME NEW t, t \in Seq(Chars), NEW p, NEW b \in BreaksOf(t)
  PROVE  WantedBy(t, p)[b] \in Seq(Seq(Chars))
<1>. PICK N \in Nat : N = Len(t) + 1
  BY LenProperties
<1>1. PICK w : w = WantedBy(t, p)
  OBVIOUS
<1>. DEFINE B == BreaksOf(t)
            Ok(n) == \A x \in B : x + n >= N => w[x] \in Seq(Seq(Chars))
            T == {n \in Nat : Ok(n)}
<1>2. B \subseteq Nat /\ \A x \in B : x <= N
  BY BreaksIs
<1>3. \A x \in B : Unfolds(t, p, w, x)
  BY <1>1, WantedUnfolds
<1>4. w[N] = <<>>
  BY <1>3, BreaksIs, Zenon DEF Unfolds
<1>5. Ok(0)
  <2>1. \A x \in B : x + 0 >= N => x = N
    BY <1>2
  <2>2. QED
    BY <2>1, <1>4, EmptySeq
<1>6. ASSUME NEW n \in Nat, Ok(n)
      PROVE  Ok(n + 1)
  <2>. SUFFICES ASSUME NEW x \in B, x + (n + 1) >= N
                PROVE  w[x] \in Seq(Seq(Chars))
    OBVIOUS
  <2>1. CASE x = N
    BY <2>1, <1>4, EmptySeq
  <2>2. CASE x # N
    <3>1. PICK e \in B : e = NextOf(t, x) /\ e > x
      BY <2>2, NextIs
    <3>2. e + n >= N
      BY <3>1, <1>2
    <3>3. w[e] \in Seq(Seq(Chars))
      BY <3>2, <1>6
    <3>4. IfWanted(p, LineOf(t, x)) \in Seq(Seq(Chars))
      BY <2>2, LineIs, IfWantedType
    <3>5. w[x] = IfWanted(p, LineOf(t, x)) \o w[e]
      BY <3>1, <2>2, <1>3, Zenon DEF Unfolds
    <3>6. QED
      BY <3>3, <3>4, <3>5, ConcatProperties
  <2>3. QED
    BY <2>1, <2>2
<1>7. N \in T
  <2>1. 0 \in T /\ \A n \in Nat : n \in T => n + 1 \in T
    <3>. HIDE DEF Ok
    <3>1. QED
      BY <1>5, <1>6
  <2>. HIDE DEF T
  <2>2. QED
    BY <2>1, NatSetInduction
<1>8. Ok(N)
  BY <1>7
<1>9. QED
  BY <1>1, <1>2, <1>8

(***************************************************************************)
(* One line further.                                                       *)
(***************************************************************************)
Joins(ab, a, b) == ab = a \o b

LEMMA Associative ==
  ASSUME NEW S, NEW a \in Seq(S), NEW b \in Seq(S), NEW c \in Seq(S),
         NEW ab, Joins(ab, a, b), NEW bc, Joins(bc, b, c),
         NEW l, Joins(l, ab, c), NEW r, Joins(r, a, bc)
  PROVE  l = r
<1>1. PICK i \in Nat, j \in Nat, k \in Nat : i = Len(a) /\ j = Len(b) /\ k = Len(c)
  BY LenProperties
<1>2. ab \in Seq(S)
  BY ConcatProperties DEF Joins
<1>3. bc \in Seq(S)
  BY ConcatProperties DEF Joins
<1>4. l \in Seq(S)
  BY <1>2, ConcatProperties DEF Joins
<1>5. r \in Seq(S)
  BY <1>3, ConcatProperties DEF Joins
<1>6. /\ Len(ab) = i + j
      /\ \A n \in 1..(i + j) : ab[n] = IF n <= i THEN a[n] ELSE b[n - i]
  BY <1>1, ConcatProperties DEF Joins
<1>7. /\ Len(bc) = j + k
      /\ \A n \in 1..(j + k) : bc[n] = IF n <= j THEN b[n] ELSE c[n - j]
  BY <1>1, ConcatProperties DEF Joins
<1>8. /\ Len(l) = (i + j) + k
      /\ \A n \in 1..((i + j) + k) : l[n] = IF n <= i + j THEN ab[n] ELSE c[n - (i + j)]
  BY <1>1, <1>2, <1>6, ConcatProperties DEF Joins
<1>9. /\ Len(r) = i + (j + k)
      /\ \A n \in 1..(i + (j + k)) : r[n] = IF n <= i THEN a[n] ELSE bc[n - i]
  <2>1. /\ Len(a \o bc) = Len(a) + Len(bc)
        /\ \A n \in 1..(Len(a) + Len(bc)) : (a \o bc)[n] = IF n <= Len(a) THEN a[n]
                                                         ELSE bc[n - Len(a)]
    BY <1>3, ConcatProperties
  <2>2. QED
    BY <2>1, <1>1, <1>7, Zenon DEF Joins
<1>10. Len(l) = Len(r)
  BY <1>8, <1>9
<1>11. ASSUME NEW n \in 1..Len(l)
       PROVE  l[n] = r[n]
  <2>1. n \in 1..(i + j + k)
    BY <1>8
  <2>2. CASE n <= i
    <3>1. l[n] = ab[n] /\ ab[n] = a[n]
      BY <2>1, <2>2, <1>6, <1>8
    <3>2. r[n] = a[n]
      BY <2>1, <2>2, <1>9
    <3>3. QED
      BY <3>1, <3>2
  <2>3. CASE i < n /\ n <= i + j
    <3>1. n - i \in 1..(j + k) /\ n - i <= j
      BY <2>1, <2>3
    <3>2. r[n] = b[n - i]
      BY <2>1, <2>3, <3>1, <1>7, <1>9
    <3>3. QED
      BY <2>1, <2>3, <3>2, <1>6, <1>8
  <2>4. CASE i + j < n
    <3>1. n - i \in 1..(j + k) /\ ~ (n - i <= j) /\ (n - i) - j = n - (i + j)
      BY <2>1, <2>4
    <3>2. r[n] = bc[n - i]
      BY <2>1, <2>4, <1>9
    <3>3. bc[n - i] = c[(n - i) - j]
      BY <3>1, <1>7
    <3>4. l[n] = c[n - (i + j)]
      BY <2>1, <2>4, <1>8
    <3>5. QED
      BY <3>1, <3>2, <3>3, <3>4
  <2>5. QED
    BY <2>1, <2>2, <2>3, <2>4
<1>12. QED
  BY <1>4, <1>5, <1>10, <1>11, SeqEqual

FoundTo(o, t, p, b, w) == o \o WantedBy(t, p)[b] = w

LEMMA OneLineFurther ==
  ASSUME NEW t, t \in Seq(Chars), NEW p, NEW b \in BreaksOf(t), b # Len(t) + 1,
         NEW o \in Seq(Seq(Chars)), NEW w, FoundTo(o, t, p, b, w),
         NEW next, Joins(next, o, IfWanted(p, LineOf(t, b)))
  PROVE  FoundTo(next, t, p, NextOf(t, b), w)
<1>1. PICK e \in BreaksOf(t) : e = NextOf(t, b)
  BY NextIs
<1>2. PICK l \in Seq(Seq(Chars)) : l = IfWanted(p, LineOf(t, b))
  BY LineIs, IfWantedType
<1>3. PICK v \in Seq(Seq(Chars)) : v = WantedBy(t, p)[e]
  BY WantedType
<1>4. WantedBy(t, p)[b] = l \o v
  BY <1>1, <1>2, <1>3, WantedUnfolds, Zenon DEF Unfolds
<1>5. PICK lv : lv = l \o v
  OBVIOUS
<1>6. PICK x : x = next \o v
  OBVIOUS
<1>7. PICK y : y = o \o lv
  OBVIOUS
<1>8. Joins(next, o, l) /\ Joins(lv, l, v) /\ Joins(x, next, v) /\ Joins(y, o, lv)
  BY <1>2, <1>5, <1>6, <1>7, Zenon DEF Joins
<1>9. x = y
  BY <1>2, <1>3, <1>8, Associative
<1>10. QED
  BY <1>1, <1>3, <1>4, <1>5, <1>6, <1>7, <1>9, Zenon DEF FoundTo

\* The line after a last newline is empty, and so wanted by nobody.
LEMMA LastWanted ==
  ASSUME NEW t, t \in Seq(Chars), NEW p, NEW b \in BreaksOf(t), b >= Len(t)
  PROVE  WantedBy(t, p)[b] = <<>>
<1>. PICK n \in Nat : n = Len(t)
  BY LenProperties
<1>1. PICK w : w = WantedBy(t, p)
  OBVIOUS
<1>2. w[n + 1] = <<>>
  BY <1>1, WantedUnfolds, BreaksIs, Zenon DEF Unfolds
<1>3. CASE b = n + 1
  BY <1>1, <1>2, <1>3
<1>4. CASE b # n + 1
  <2>1. b = n
    BY <1>4, BreaksIs
  <2>2. PICK e \in Nat : e = NextOf(t, b) /\ e > b /\ e <= n + 1
    BY <1>4, NextIs, BreaksIs
  <2>3. e = n + 1
    BY <2>1, <2>2
  <2>4. LineOf(t, b) \in Seq(Chars) /\ Len(LineOf(t, b)) = 0
    <3>1. LineOf(t, b) \in Seq(Chars) /\ Len(LineOf(t, b)) = NextOf(t, b) - b - 1
      BY <1>4, LineIs
    <3>2. NextOf(t, b) - b - 1 = 0
      BY <2>1, <2>2, <2>3
    <3>3. QED
      BY <3>1, <3>2
  <2>5. w[b] = <<>> \o w[e]
    BY <1>1, <1>4, <2>2, <2>4, EmptyLine, WantedUnfolds, Zenon DEF Unfolds
  <2>6. QED
    BY <1>1, <1>2, <2>3, <2>5
<1>5. QED
  BY <1>3, <1>4

-----------------------------------------------------------------------------

(***************************************************************************)
(* The end of a line in the buffer, and the string that begins at a place. *)
(***************************************************************************)
EndIn(d, i, z) ==
  CHOOSE k \in i..z : (k = z \/ d[k] = "nl") /\ \A j \in i..(k - 1) : d[j] # "nl"

NoNewline(d, i, k) == \A j \in i..(k - 1) : d[j] # "nl"

LEMMA EndIs ==
  ASSUME NEW d, NEW i \in Nat, NEW z \in Nat, i <= z, NEW e, e = EndIn(d, i, z)
  PROVE  e \in i..z /\ (e = z \/ d[e] = "nl") /\ NoNewline(d, i, e)
<1>. DEFINE T == {k \in i..z : k = z \/ d[k] = "nl"}
<1>1. T \in SUBSET Nat /\ z \in T
  OBVIOUS
<1>2. PICK k \in T : \A j \in T : k <= j
  BY <1>1, LeastIs
<1>3. \A j \in i..(k - 1) : d[j] # "nl"
  BY <1>2
<1>4. QED
  BY <1>2, <1>3 DEF EndIn, NoNewline

LEMMA LineEndIs ==
  ASSUME TypeInv, line_start <= last
  PROVE  /\ LineEnd \in line_start..last /\ LineEnd \in Nat
         /\ LineEnd = last \/ data[LineEnd] = "nl"
         /\ NoNewline(data, line_start, LineEnd)
<1>1. LineEnd = EndIn(data, line_start, last)
  BY DEF LineEnd, EndIn
<1>2. line_start \in Nat /\ last \in Nat
  BY DEF TypeInv
<1>3. /\ LineEnd \in line_start..last
      /\ LineEnd = last \/ data[LineEnd] = "nl"
      /\ NoNewline(data, line_start, LineEnd)
  BY <1>1, <1>2, EndIs
<1>4. LineEnd \in Nat
  BY <1>2, <1>3
<1>5. QED
  BY <1>3, <1>4

FromPlace(buffer, i, n) == [k \in 1..n |-> buffer[i + k - 1]]

LEMMA StringIs ==
  ASSUME NEW buffer, NEW i \in Nat, NEW e \in Nat, i <= e, e <= BUFSIZE, buffer[e] = "null",
         \A k \in i..(e - 1) : buffer[k] # "null"
  PROVE  StringAt(buffer, i) = FromPlace(buffer, i, e - i)
<1>. PICK z \in Nat : z = BUFSIZE
  BY BufferAssumption
<1>. DEFINE Ends(k) == buffer[k] = "null" /\ \A j \in i..(k - 1) : buffer[j] # "null"
<1>1. e \in i..z /\ Ends(e)
  OBVIOUS
<1>2. ASSUME NEW k \in i..z, Ends(k)
      PROVE  k = e
  BY <1>2
<1>3. (CHOOSE k \in i..z : Ends(k)) = e
  <2>. HIDE DEF Ends
  <2>1. QED
    BY <1>1, <1>2
<1>4. StringAt(buffer, i)
      = LET end == CHOOSE k \in i..z : Ends(k) IN [k \in 1..(end - i) |-> buffer[i + k - 1]]
  BY DEF StringAt
<1>. HIDE DEF Ends
<1>5. QED
  BY <1>3, <1>4, Zenon DEF FromPlace

AgreesFrom(t, q, n, buffer, i) == \A k \in 1..n : buffer[i + k - 1] = t[q + k]

LEMMA PieceIs ==
  ASSUME NEW t, t \in Seq(Chars), NEW q \in Nat, NEW n \in Nat, q + n <= Len(t),
         NEW buffer, NEW i \in Nat, AgreesFrom(t, q, n, buffer, i),
         NEW l, l = FromPlace(buffer, i, n)
  PROVE  l \in Seq(Chars) /\ Len(l) = n /\ l = SubSeq(t, q + 1, q + n)
<1>1. ASSUME NEW k \in 1..n
      PROVE  l[k] = t[q + k] /\ t[q + k] \in Chars
  <2>1. q + k \in 1..Len(t)
    BY LenProperties
  <2>2. t[q + k] \in Chars
    BY <2>1, ElementOfSeq
  <2>3. QED
    BY <2>2 DEF FromPlace, AgreesFrom
<1>2. l = [k \in 1..n |-> l[k]]
  BY DEF FromPlace
<1>3. l \in Seq(Chars)
  <2>. DEFINE at(k) == l[k]
  <2>1. \A k \in 1..n : at(k) \in Chars
    BY <1>1
  <2>. HIDE DEF at
  <2>2. [k \in 1..n |-> at(k)] \in Seq(Chars)
    BY <2>1, IsASeq
  <2>3. QED
    BY <1>2, <2>2, Zenon DEF at
<1>4. Len(l) = n
  <2>1. DOMAIN l = 1..n
    BY DEF FromPlace
  <2>2. QED
    BY <1>3, <2>1, LenProperties
<1>5. PICK a \in Nat, z \in Nat : a = q + 1 /\ z = q + n
  OBVIOUS
<1>6. PICK u : u = SubSeq(t, a, z)
  OBVIOUS
<1>7. \A k \in a..z : t[k] \in Chars
  <2>1. \A k \in a..z : k \in 1..Len(t)
    BY <1>5, LenProperties
  <2>2. QED
    BY <2>1, ElementOfSeq
<1>8. /\ u \in Seq(Chars) /\ Len(u) = IF a <= z THEN z - a + 1 ELSE 0
      /\ \A k \in 1..(z - a + 1) : u[k] = t[a + k - 1]
  BY <1>6, <1>7, SubSeqProperties
<1>9. z - a + 1 = n
  BY <1>5
<1>10. Len(u) = n
  BY <1>5, <1>8
<1>11. \A k \in 1..n : u[k] = l[k]
  <2>. SUFFICES ASSUME NEW k \in 1..n
                PROVE  u[k] = l[k]
    OBVIOUS
  <2>1. a + k - 1 = q + k
    BY <1>5
  <2>2. QED
    BY <1>1, <1>8, <1>9, <2>1
<1>12. u = l
  BY <1>3, <1>4, <1>8, <1>10, <1>11, SeqEqual
<1>13. QED
  BY <1>3, <1>4, <1>5, <1>6, <1>12

(***************************************************************************)
(* A line that begins at a break and goes on for n bytes without a newline *)
(* ends there, if a break follows or lines are not longer.                 *)
(***************************************************************************)
LEMMA LineEndsThere ==
  ASSUME NEW t, t \in Seq(Chars), NEW b \in BreaksOf(t), NEW n \in Nat, b + n <= Len(t),
         \A k \in (b + 1)..(b + n) : t[k] # "nl",
         b + n + 1 \in BreaksOf(t) \/ Len(LineOf(t, b)) <= n
  PROVE  /\ b # Len(t) + 1 /\ b + n + 1 \in BreaksOf(t)
         /\ NextOf(t, b) = b + n + 1 /\ LineOf(t, b) = SubSeq(t, b + 1, b + n)
<1>. PICK z \in Nat : z = Len(t)
  BY LenProperties
<1>1. b \in Nat /\ b # z + 1
  BY BreaksIs
<1>2. PICK e \in BreaksOf(t) : e = NextOf(t, b) /\ e > b /\ \A x \in BreaksOf(t) : x > b => e <= x
  BY <1>1, NextIs
<1>3. e \in Nat /\ (e = z + 1 \/ t[e] = "nl")
  BY <1>1, <1>2, BreaksIs
<1>4. e >= b + n + 1
  BY <1>1, <1>2, <1>3
<1>5. e <= b + n + 1
  <2>1. CASE b + n + 1 \in BreaksOf(t)
    BY <1>1, <1>2, <2>1
  <2>2. CASE Len(LineOf(t, b)) <= n
    <3>1. Len(LineOf(t, b)) = e - b - 1
      BY <1>1, <1>2, LineIs
    <3>2. QED
      BY <1>1, <1>3, <2>2, <3>1
  <2>3. QED
    BY <2>1, <2>2
<1>6. e = b + n + 1 /\ e - 1 = b + n
  BY <1>1, <1>3, <1>4, <1>5
<1>7. QED
  BY <1>1, <1>2, <1>6 DEF LineOf

-----------------------------------------------------------------------------

(***************************************************************************)
(* What the string at the next line is: a piece of the file.               *)
(***************************************************************************)
LEMMA FileAt ==
  ASSUME TypeInv, BufferHolds, pc = "lines",
         NEW e \in Nat, e = LineEnd, NEW l, l = StringAt(Terminated, line_start)
  PROVE  /\ line_start <= e /\ e <= last /\ (e = last \/ data[e] = "nl")
         /\ First \in Nat /\ First + last = file_pos /\ First + e <= Len(text)
         /\ \A k \in (First + line_start + 1)..(First + e) : text[k] # "nl"
         /\ l \in Seq(Chars) /\ Len(l) = e - line_start
         /\ l = SubSeq(text, First + line_start + 1, First + e) /\ Line = l
<1>1. PICK i \in Nat, z \in Nat, p \in Nat, m \in Nat :
        i = line_start /\ z = last /\ p = file_pos /\ m = Len(text)
  BY LenProperties DEF TypeInv
<1>2. z <= p /\ p <= m /\ i <= z /\ z <= BUFSIZE /\ text \in Seq(Chars)
  BY <1>1 DEF TypeInv, BufferHolds
<1>3. e \in i..z /\ (e = z \/ data[e] = "nl") /\ NoNewline(data, i, e)
  BY <1>1, <1>2, LineEndIs
<1>4. PICK f \in Nat : f = First /\ f + z = p
  BY <1>1, <1>2 DEF First
<1>5. \A k \in i..(z - 1) : data[k] = text[f + k + 1]
  BY <1>1, <1>4 DEF BufferHolds, HoldsFrom
<1>6. \A k \in i..(e - 1) : k \in i..(z - 1) /\ f + k + 1 \in 1..m
  BY <1>2, <1>3, <1>4
<1>7. ASSUME NEW k \in i..(e - 1)
      PROVE  data[k] # "nl" /\ data[k] # "null" /\ data[k] = text[f + k + 1]
  <2>1. data[k] = text[f + k + 1]
    BY <1>5, <1>6
  <2>2. text[f + k + 1] \in Chars
    BY <1>1, <1>2, <1>6, ElementOfSeq
  <2>3. data[k] # "nl"
    BY <1>3 DEF NoNewline
  <2>4. QED
    BY <2>1, <2>2, <2>3 DEF Chars
<1>8. ASSUME NEW k \in (f + i + 1)..(f + e)
      PROVE  text[k] # "nl"
  <2>1. PICK j \in i..(e - 1) : k = f + j + 1
    <3>1. k - f - 1 \in i..(e - 1) /\ k = f + (k - f - 1) + 1
      BY <1>3
    <3>2. QED
      BY <3>1
  <2>2. QED
    BY <1>7, <2>1
<1>9. PICK d : d = Terminated
  OBVIOUS
<1>10. d = [data EXCEPT ![e] = "null"] /\ e \in DOMAIN data
  BY <1>2, <1>3, <1>9, BufferAssumption DEF Terminated, BufferHolds, Places
<1>11. d[e] = "null" /\ \A k \in i..(e - 1) : d[k] = data[k]
  BY <1>6, <1>10, <1>2, BufferAssumption DEF BufferHolds, Places
<1>12. l = FromPlace(d, i, e - i)
  <2>1. i <= e /\ e <= BUFSIZE
    BY <1>2, <1>3, BufferAssumption
  <2>2. \A k \in i..(e - 1) : d[k] # "null"
    BY <1>7, <1>11
  <2>3. StringAt(d, i) = FromPlace(d, i, e - i)
    BY <2>1, <2>2, <1>11, StringIs
  <2>4. QED
    BY <1>1, <1>9, <2>3
<1>13. PICK n \in Nat, q \in Nat : n = e - i /\ q = f + i
  BY <1>3
<1>14. AgreesFrom(text, q, n, d, i)
  <2>. SUFFICES ASSUME NEW k \in 1..n
                PROVE  d[i + k - 1] = text[q + k]
    BY DEF AgreesFrom
  <2>1. i + k - 1 \in i..(e - 1) /\ f + (i + k - 1) + 1 = q + k
    BY <1>13, <1>3
  <2>2. QED
    BY <2>1, <1>7, <1>11
<1>15. q + n <= m /\ q + n = f + e
  BY <1>2, <1>3, <1>4, <1>13
<1>16. l \in Seq(Chars) /\ Len(l) = n /\ l = SubSeq(text, q + 1, q + n)
  <2>1. PICK v : v = FromPlace(d, i, n)
    OBVIOUS
  <2>2. text \in Seq(Chars) /\ i \in Nat /\ n \in Nat /\ q \in Nat
    BY <1>1, <1>2, <1>13
  <2>3. q + n <= Len(text)
    BY <1>1, <1>15
  <2>4. v \in Seq(Chars) /\ Len(v) = n /\ v = SubSeq(text, q + 1, q + n)
    BY <1>14, <2>1, <2>2, <2>3, PieceIs, SMTT(60)
  <2>5. l = v
    BY <1>12, <1>13, <2>1
  <2>6. QED
    BY <2>4, <2>5
<1>17. /\ i <= e /\ e <= z /\ f + e <= m
       /\ f + i + 1 = q + 1 /\ q + n = f + e
  BY <1>3, <1>13, <1>15
<1>18. l = SubSeq(text, f + i + 1, f + e)
  BY <1>16, <1>17
<1>19. Line = l
  <2>1. PICK v : v = FromPlace(data, i, n)
    OBVIOUS
  <2>2. text \in Seq(Chars) /\ i \in Nat /\ n \in Nat /\ q \in Nat /\ q + n <= Len(text)
    BY <1>1, <1>2, <1>13, <1>15
  <2>3. AgreesFrom(text, q, n, data, i)
    <3>. SUFFICES ASSUME NEW k \in 1..n
                  PROVE  data[i + k - 1] = text[q + k]
      BY DEF AgreesFrom
    <3>1. i + k - 1 \in i..(e - 1) /\ f + (i + k - 1) + 1 = q + k
      BY <1>13, <1>3
    <3>2. QED
      BY <3>1, <1>7
  <2>4. v = SubSeq(text, q + 1, q + n)
    BY <2>1, <2>2, <2>3, PieceIs, SMTT(60)
  <2>5. Line = v
    BY <1>1, <1>13, <2>1 DEF Line, FromPlace
  <2>6. QED
    BY <1>16, <2>4, <2>5
<1>20. QED
  BY <1>1, <1>3, <1>4, <1>8, <1>13, <1>16, <1>17, <1>18, <1>19

(***************************************************************************)
(* The initial states and each action.                                     *)
(***************************************************************************)
LEMMA GrepInitial == Init => PlainInv
<1>. SUFFICES ASSUME Init, Plain
              PROVE  GrepInv
  BY DEF PlainInv
<1>1. text \in Seq(Chars) /\ Len(text) \in Nat
  <2>1. PICK n \in 0..MaxText : text \in [1..n -> Letters \cup {"nl"}]
    BY DEF Init, Texts
  <2>2. n \in Nat /\ \A i \in 1..n : text[i] \in Chars
    <3>1. n \in Nat /\ \A i \in 1..n : text[i] \in Letters \cup {"nl"}
      BY <2>1, BufferAssumption
    <3>2. text \in Seq(Letters \cup {"nl"})
      <4>. DEFINE char(i) == text[i]
      <4>1. [i \in 1..n |-> char(i)] \in Seq(Letters \cup {"nl"})
        BY <3>1, IsASeq
      <4>2. text = [i \in 1..n |-> char(i)]
        BY <2>1
      <4>3. QED
        BY <4>1, <4>2
    <3>3. Len(text) = n
      BY <2>1, <3>1, <3>2, LenProperties
    <3>4. QED
      BY <3>1, <3>3 DEF Plain, Chars
  <2>. DEFINE at(i) == text[i]
  <2>3. [i \in 1..n |-> at(i)] \in Seq(Chars)
    BY <2>2, IsASeq
  <2>4. text = [i \in 1..n |-> at(i)]
    BY <2>1
  <2>5. QED
    BY <2>3, <2>4, LenProperties
<1>2. s \in Seq(Letters \ {"null"}) /\ s # <<>>
  BY PatternsAssumption DEF Init
<1>3. file_pos = 0 /\ last = 0 /\ cnt = 0 /\ line_start = 0 /\ pc = "read" /\ out = <<>>
  BY DEF Init
<1>4. out \in Seq(Seq(Chars)) /\ Len(out) = 0
  BY <1>3, EmptySeq
<1>5. TypeInv
  BY <1>1, <1>2, <1>3, <1>4, BufferAssumption DEF TypeInv
<1>6. BufferHolds
  <2>1. PICK g \in Garbage : data = [i \in Places |-> g[i]]
    BY DEF Init
  <2>2. DOMAIN data = Places /\ (behind # "nl" => data[BUFSIZE] # "nl")
    BY <2>1 DEF Init
  <2>3. QED
    BY <2>2, <1>3, BufferAssumption DEF BufferHolds, HoldsFrom
<1>7. ReadsFill
  BY <1>3 DEF ReadsFill
<1>8. PiecesFound
  BY <1>4 DEF PiecesFound
<1>9. Progress
  <2>1. Reached = 0
    BY <1>3 DEF Reached, First
  <2>2. 0 \in Breaks
    BY DEF Breaks
  <2>3. WantedFrom[0] \in Seq(Seq(Chars))
    BY <1>1, WantedByText, BreaksIs, WantedType
  <2>4. FoundUpTo(0)
    BY <1>3, <2>3, ConcatEmptySeq DEF FoundUpTo
  <2>5. QED
    BY <2>1, <2>2, <2>4 DEF Progress
<1>10. QED
  BY <1>5, <1>6, <1>7, <1>8, <1>9 DEF GrepInv

\* The file and the string stay, and with them what is wanted.
LEMMA SameFile ==
  ASSUME UNCHANGED file
  PROVE  /\ text' = text /\ s' = s /\ behind' = behind /\ (Plain' <=> Plain)
         /\ Breaks' = Breaks /\ WantedFrom' = WantedFrom
         /\ Whole' <=> Whole
         /\ \A line : HasPattern(line)' <=> HasPattern(line)
<1>1. text' = text /\ s' = s /\ behind' = behind
  BY DEF file
<1>2. Breaks' = BreaksOf(text') /\ Starts' = BreaksOf(text') \ {Len(text') + 1}
  BY DEF Breaks, BreaksOf, Starts
<1>3. \A b : NextBreak(b)' = NextOf(text', b)
  BY <1>2, Zenon DEF NextBreak, NextOf
<1>4. /\ \A b : LineAfter(b)' = LineOf(text', b)
      /\ \A line : HasPattern(line)' <=> Has(s', line)
  BY <1>3, Zenon DEF LineAfter, LineOf, HasPattern, Has
<1>5. WantedFrom' = WantedBy(text', s')
  <2>1. ASSUME NEW f
        PROVE  [b \in Breaks' |-> IF b \notin Starts' THEN <<>>
                  ELSE (IF HasPattern(LineAfter(b))' THEN <<LineAfter(b)'>> ELSE <<>>)
                       \o f[NextBreak(b)']]
               = WantedBody(text', s', f)
    <3>1. ASSUME NEW b \in Breaks'
          PROVE  (IF b \notin Starts' THEN <<>>
                  ELSE (IF HasPattern(LineAfter(b))' THEN <<LineAfter(b)'>> ELSE <<>>)
                       \o f[NextBreak(b)'])
                 = IF b = Len(text') + 1 THEN <<>>
                   ELSE IfWanted(s', LineOf(text', b)) \o f[NextOf(text', b)]
      BY <1>2, <1>3, <1>4, Zenon DEF IfWanted
    <3>2. QED
      BY <3>1, <1>2, Zenon DEF WantedBody
  <2>2. QED
    BY <2>1, Zenon DEF WantedFrom, WantedBy
<1>6. Whole' <=> Whole
  BY <1>1, <1>2, <1>4, NamedByText, Zenon DEF Whole
<1>7. Plain' <=> Plain
  BY <1>1 DEF Plain
<1>8. QED
  BY <1>1, <1>2, <1>4, <1>5, <1>6, <1>7, NamedByText, WantedByText, Zenon

LEMMA ReadKeeps ==
  ASSUME GrepInv, Read
  PROVE  GrepInv'
<1>. DEFINE c == Least(BUFSIZE - last, Len(text) - file_pos)
<1>1. TypeInv /\ BufferHolds /\ PiecesFound /\ text \in Seq(Chars)
  BY DEF GrepInv, TypeInv
<1>2. PICK z \in Nat, p \in Nat, m \in Nat, N \in Nat :
        z = last /\ p = file_pos /\ m = Len(text) /\ N = BUFSIZE
  BY <1>1, BufferAssumption, LenProperties DEF TypeInv
<1>3. z <= p /\ p <= m /\ z < N /\ pc = "read"
  BY <1>1, <1>2 DEF TypeInv, BufferHolds, Read
<1>4. PICK n \in Nat : n = c /\ n <= N - z /\ n <= m - p /\ (n = N - z \/ n = m - p)
  <2>1. N - z \in Nat /\ m - p \in Nat
    BY <1>3
  <2>2. c = IF N - z < m - p THEN N - z ELSE m - p
    BY <1>2 DEF Least
  <2>3. c \in Nat /\ c <= N - z /\ c <= m - p /\ (c = N - z \/ c = m - p)
    BY <2>1, <2>2
  <2>4. QED
    BY <2>3
<1>. HIDE DEF c
<1>5. /\ data' = [i \in Places |-> IF i \in z..(z + n - 1) THEN text[p + i - z + 1]
                                   ELSE data[i]]
      /\ file_pos' = p + n /\ cnt' = n /\ last' = z + n /\ line_start' = 0 /\ pc' = "lines"
      /\ out' = out /\ UNCHANGED file
  BY <1>2, <1>4 DEF Read, c
<1>6. text' = text /\ s' = s /\ behind' = behind
  BY <1>5 DEF file
<1>7. TypeInv'
  <2>1. p + n \in Nat /\ z + n \in Nat /\ z + n <= p + n /\ p + n <= m /\ z + n <= N
    BY <1>3, <1>4
  <2>2. QED
    BY <2>1, <1>1, <1>2, <1>4, <1>5, <1>6 DEF TypeInv
<1>8. PICK f \in Nat : f = p - z /\ First = f /\ First' = f /\ f + z = p
  BY <1>2, <1>3, <1>4, <1>5 DEF First
<1>9. BufferHolds'
  <2>1. \A i \in 0..(z - 1) : data[i] = text[f + i + 1]
    BY <1>2, <1>3, <1>8, <1>1 DEF BufferHolds, HoldsFrom
  <2>2. ASSUME NEW k \in 0..(z + n - 1)
        PROVE  data'[k] = text'[f + k + 1]
    <3>1. k \in Places
      BY <1>2, <1>3, <1>4 DEF Places
    <3>2. CASE k \in 0..(z - 1)
      BY <3>1, <3>2, <2>1, <1>5, <1>6
    <3>3. CASE k \in z..(z + n - 1)
      <4>1. p + k - z + 1 = f + k + 1
        BY <1>8
      <4>2. data'[k] = text[p + k - z + 1]
        BY <3>1, <3>3, <1>5
      <4>3. QED
        BY <4>1, <4>2, <1>6
    <3>4. QED
      BY <3>2, <3>3
  <2>3. HoldsFrom(0)'
    <3>1. last' - 1 = z + n - 1
      BY <1>5
    <3>2. QED
      BY <2>2, <3>1, <1>8, Zenon DEF HoldsFrom
  <2>4. N \in Places /\ N \notin z..(z + n - 1)
    BY <1>2, <1>4 DEF Places
  <2>5. DOMAIN data' = Places /\ (behind' # "nl" => data'[BUFSIZE] # "nl")
    BY <2>4, <1>1, <1>2, <1>5, <1>6 DEF BufferHolds
  <2>6. QED
    BY <2>3, <2>5, <1>5 DEF BufferHolds
<1>10. ReadsFill'
  <2>1. z + n < N \/ n = 0 => p + n = m
    BY <1>3, <1>4
  <2>2. QED
    BY <2>1, <1>2, <1>5, <1>6 DEF ReadsFill
<1>11. PiecesFound'
  BY <1>1, <1>5, <1>6, SameFile DEF PiecesFound, PieceOfText
<1>12. ASSUME Whole
       PROVE  Progress'
  <2>1. Reached = f /\ Reached' = f
    BY <1>3, <1>5, <1>8 DEF Reached
  <2>2. PICK b \in Breaks : (b = Reached \/ b = Reached + 1) /\ FoundUpTo(b)
    BY <1>12 DEF GrepInv, Progress
  <2>3. FoundUpTo(b)'
    BY <2>2, <1>5, SameFile DEF FoundUpTo
  <2>4. ~ AtLine' /\ b \in Breaks'
    BY <1>5, SameFile DEF AtLine
  <2>5. QED
    BY <2>1, <2>2, <2>3, <2>4 DEF Progress
<1>13. QED
  BY <1>5, <1>7, <1>9, <1>10, <1>11, <1>12, SameFile DEF GrepInv

LEMMA KeepLineKeeps ==
  ASSUME GrepInv, KeepLine
  PROVE  GrepInv'
<1>1. TypeInv /\ BufferHolds /\ PiecesFound /\ text \in Seq(Chars)
  BY DEF GrepInv, TypeInv
<1>2. PICK z \in Nat, p \in Nat, i \in Nat, N \in Nat :
        z = last /\ p = file_pos /\ i = line_start /\ N = BUFSIZE
  BY <1>1, BufferAssumption DEF TypeInv
<1>3. /\ pc = "lines" /\ data[LineEnd] # "nl" /\ i # 0
      /\ data' = Kept /\ last' = z - i /\ pc' = "read"
      /\ file_pos' = p /\ cnt' = cnt /\ line_start' = i /\ out' = out /\ UNCHANGED file
  BY <1>2 DEF KeepLine, Unfinished
<1>4. text' = text /\ s' = s /\ behind' = behind
  BY <1>3 DEF file
<1>5. i <= z /\ z <= N /\ z <= p
  BY <1>1, <1>2, <1>3 DEF BufferHolds, TypeInv
<1>6. LineEnd = z
  BY <1>1, <1>2, <1>3, <1>5, LineEndIs
<1>7. PICK l : l = StringAt(Terminated, i)
  OBVIOUS
<1>8. PICK f \in Nat : f = First /\ f + z = p
  BY <1>2, <1>5 DEF First
<1>9. /\ l \in Seq(Chars) /\ Len(l) = z - i
      /\ l = SubSeq(text, f + i + 1, f + z) /\ f + z <= Len(text)
  BY <1>1, <1>2, <1>3, <1>6, <1>7, <1>8, FileAt
<1>10. PICK n \in Nat : n = z - i /\ n < N
  BY <1>3, <1>5
<1>11. data' = [k \in Places |-> IF k < n THEN l[k + 1]
                                 ELSE IF k = n THEN "null" ELSE Terminated[k]]
  BY <1>2, <1>3, <1>7, <1>9, <1>10, Zenon DEF Kept
<1>12. TypeInv'
  BY <1>1, <1>2, <1>3, <1>4, <1>5, <1>10 DEF TypeInv
<1>13. First' = f + i
  BY <1>2, <1>3, <1>5, <1>8 DEF First
<1>14. BufferHolds'
  <2>1. ASSUME NEW k \in 0..(n - 1)
        PROVE  data'[k] = text'[f + i + k + 1]
    <3>1. k \in Places /\ k < n
      BY <1>2, <1>10 DEF Places
    <3>2. data'[k] = l[k + 1]
      BY <1>11, <3>1
    <3>3. PICK a \in Nat, e \in Nat, j \in Nat : a = f + i + 1 /\ e = f + z /\ j = k + 1
      OBVIOUS
    <3>4. \A x \in a..e : text[x] \in Chars
      <4>1. \A x \in a..e : x \in 1..Len(text)
        BY <1>1, <1>9, <3>3, LenProperties
      <4>2. QED
        BY <1>1, <4>1, ElementOfSeq
    <3>5. j \in 1..(e - a + 1)
      BY <1>10, <3>3
    <3>6. SubSeq(text, a, e)[j] = text[a + j - 1]
      BY <3>4, <3>5, SubSeqProperties
    <3>7. a + j - 1 = f + i + k + 1
      BY <3>3
    <3>8. QED
      BY <1>4, <1>9, <3>2, <3>3, <3>6, <3>7
  <2>2. HoldsFrom(0)'
    BY <2>1, <1>3, <1>10, <1>13 DEF HoldsFrom
  <2>3. N \in Places /\ ~ (N < n) /\ N # n
    BY <1>2, <1>10 DEF Places
  <2>4. behind # "nl" => Terminated[N] # "nl"
    BY <2>3, <1>1, <1>2 DEF Terminated, BufferHolds
  <2>5. DOMAIN data' = Places /\ (behind' # "nl" => data'[BUFSIZE] # "nl")
    BY <2>3, <2>4, <1>2, <1>4, <1>11
  <2>6. QED
    BY <2>2, <2>5, <1>2, <1>3, <1>10 DEF BufferHolds
<1>15. ReadsFill'
  BY <1>3 DEF ReadsFill
<1>16. PiecesFound'
  BY <1>1, <1>3, <1>4, SameFile DEF PiecesFound, PieceOfText
<1>17. ASSUME Whole
       PROVE  Progress'
  <2>1. Reached = f + i /\ Reached' = f + i /\ AtLine
    BY <1>2, <1>3, <1>8, <1>13 DEF Reached, AtLine
  <2>2. f + i \in Breaks /\ FoundUpTo(f + i)
    BY <1>17, <2>1 DEF GrepInv, Progress
  <2>3. FoundUpTo(f + i)' /\ f + i \in Breaks'
    BY <2>2, <1>3, SameFile DEF FoundUpTo
  <2>4. QED
    BY <2>1, <2>3 DEF Progress
<1>18. QED
  BY <1>3, <1>12, <1>14, <1>15, <1>16, <1>17, SameFile DEF GrepInv

(***************************************************************************)
(* SearchLine.  The break that follows the line is the next one, and what  *)
(* is wanted from the line on is the line, if wanted, and what is wanted   *)
(* from that break on.                                                     *)
(***************************************************************************)
LEMMA NextBreakIs ==
  ASSUME GrepInv, SearchLine, Whole, NEW e \in Nat, e = LineEnd,
         First + line_start \in Breaks, NEW l, l = StringAt(Terminated, line_start)
  PROVE  /\ First + line_start # Len(text) + 1 /\ First + e + 1 \in Breaks
         /\ NextOf(text, First + line_start) = First + e + 1
         /\ LineOf(text, First + line_start) = l
<1>1. TypeInv /\ BufferHolds /\ ReadsFill /\ text \in Seq(Chars)
  BY DEF GrepInv, TypeInv
<1>2. pc = "lines" /\ ~ Unfinished
  BY DEF SearchLine
<1>3. /\ line_start <= e /\ e <= last /\ (e = last \/ data[e] = "nl")
      /\ First \in Nat /\ First + last = file_pos /\ First + e <= Len(text)
      /\ \A k \in (First + line_start + 1)..(First + e) : text[k] # "nl"
      /\ l = SubSeq(text, First + line_start + 1, First + e)
  BY <1>1, <1>2, FileAt
<1>4. PICK f \in Nat, i \in Nat, z \in Nat, p \in Nat, m \in Nat, N \in Nat \ {0} :
        f = First /\ i = line_start /\ z = last /\ p = file_pos /\ m = Len(text) /\ N = BUFSIZE
  BY <1>1, <1>3, BufferAssumption, LenProperties DEF TypeInv
<1>5. PICK b \in BreaksOf(text) : b = f + i
  BY <1>4, NamedByText
<1>6. PICK n \in Nat : n = e - i /\ b + n = f + e
  BY <1>3, <1>4, <1>5
<1>7. b + n + 1 \in BreaksOf(text) \/ Len(LineOf(text, b)) <= n
  <2>1. CASE e # z
    <3>1. text[f + e + 1] = "nl"
      <4>1. e \in i..(z - 1)
        BY <1>3, <1>4, <2>1
      <4>2. data[e] = text[f + e + 1]
        BY <4>1, <1>1, <1>2, <1>4 DEF BufferHolds, HoldsFrom
      <4>3. QED
        BY <4>2, <1>3, <1>4, <2>1
    <3>2. f + e + 1 \in 1..m
      BY <1>1, <1>3, <1>4, <2>1 DEF TypeInv
    <3>3. QED
      BY <3>1, <3>2, <1>4, <1>6 DEF BreaksOf
  <2>2. CASE e = z /\ p = m
    <3>1. b + n + 1 = Len(text) + 1
      BY <2>2, <1>3, <1>4, <1>6
    <3>2. QED
      BY <3>1 DEF BreaksOf
  <2>3. CASE e = z /\ p # m
    <3>1. z = N /\ cnt # 0
      BY <2>3, <1>1, <1>2, <1>4 DEF ReadsFill, TypeInv
    <3>2. data[e] # "nl"
      <4>1. z <= p /\ p <= m
        BY <1>1, <1>4 DEF TypeInv
      <4>2. ~ (m <= N)
        BY <2>3, <3>1, <4>1
      <4>3. behind # "nl"
        BY <4>2, <1>4 DEF Whole
      <4>4. QED
        BY <2>3, <3>1, <4>3, <1>1, <1>4 DEF BufferHolds
    <3>3. line_start = 0
      BY <3>1, <3>2, <1>2 DEF Unfinished
    <3>4. n = N
      BY <2>3, <3>1, <3>3, <1>4, <1>6
    <3>5. b # m + 1
      BY <1>3, <1>4, <1>5, <1>6
    <3>6. Len(LineOf(text, b)) <= BUFSIZE
      BY <3>5, <1>4, NamedByText DEF Whole
    <3>7. QED
      BY <3>4, <3>6, <1>4
  <2>4. QED
    BY <2>1, <2>2, <2>3
<1>8. b + n <= Len(text) /\ \A k \in (b + 1)..(b + n) : text[k] # "nl"
  BY <1>3, <1>4, <1>5, <1>6
<1>9. /\ b # Len(text) + 1 /\ b + n + 1 \in BreaksOf(text)
      /\ NextOf(text, b) = b + n + 1 /\ LineOf(text, b) = SubSeq(text, b + 1, b + n)
  BY <1>1, <1>7, <1>8, LineEndsThere
<1>10. QED
  BY <1>3, <1>4, <1>5, <1>6, <1>9, NamedByText

LEMMA SearchedOut ==
  ASSUME GrepInv, SearchLine, NEW l, l = StringAt(Terminated, line_start)
  PROVE  /\ l \in Seq(Chars) /\ PieceOfText(l)
         /\ out' = out \o IfWanted(s, l) /\ out' = (IF Has(s, l) THEN Append(out, l) ELSE out)
<1>1. TypeInv /\ BufferHolds /\ pc = "lines" /\ text \in Seq(Chars) /\ out \in Seq(Seq(Chars))
  BY DEF GrepInv, SearchLine, TypeInv
<1>2. PICK e \in Nat : e = LineEnd
  BY <1>1, LineEndIs DEF BufferHolds
<1>3. /\ line_start <= e /\ First \in Nat /\ First + e <= Len(text)
      /\ l \in Seq(Chars) /\ Len(l) = e - line_start
      /\ l = SubSeq(text, First + line_start + 1, First + e) /\ Line = l
  BY <1>1, <1>2, FileAt
<1>4. PICK f \in Nat, i \in Nat, m \in Nat : f = First /\ i = line_start /\ m = Len(text)
  BY <1>1, <1>3, LenProperties DEF TypeInv
<1>5. PieceOfText(l)
  <2>1. f + i \in 0..(m - Len(l)) /\ f + i + Len(l) = f + e
    BY <1>3, <1>4
  <2>2. l = SubSeq(text, (f + i) + 1, (f + i) + Len(l))
    BY <2>1, <1>3, <1>4
  <2>3. QED
    BY <2>1, <2>2, <1>4 DEF PieceOfText
<1>6. out' = IF Has(s, l) THEN Append(out, l) ELSE out
  BY <1>3, NamedByText, Zenon DEF SearchLine
<1>7. Append(out, l) = out \o <<l>> /\ out \o <<>> = out
  BY <1>1, <1>3, AppendIsConcat, ConcatEmptySeq, ZenonT(30)
<1>8. out' = out \o IfWanted(s, l)
  BY <1>6, <1>7, Zenon DEF IfWanted
<1>9. QED
  BY <1>3, <1>5, <1>6, <1>8

LEMMA SearchLineProgress ==
  ASSUME GrepInv, SearchLine, Whole, NEW e \in Nat, e = LineEnd
  PROVE  Progress'
<1>1. TypeInv /\ BufferHolds /\ ReadsFill /\ text \in Seq(Chars) /\ out \in Seq(Seq(Chars))
  BY DEF GrepInv, TypeInv
<1>2. pc = "lines" /\ UNCHANGED file
  BY DEF SearchLine
<1>3. PICK l \in Seq(Chars) : l = StringAt(Terminated, line_start)
  BY SearchedOut
<1>4. /\ line_start <= e /\ e <= last /\ (e = last \/ data[e] = "nl")
      /\ First \in Nat /\ First + last = file_pos /\ First + e <= Len(text)
      /\ Len(l) = e - line_start
  BY <1>1, <1>2, <1>3, FileAt
<1>5. PICK f \in Nat, i \in Nat, z \in Nat, p \in Nat, m \in Nat :
        f = First /\ i = line_start /\ z = last /\ p = file_pos /\ m = Len(text)
  BY <1>1, <1>4, LenProperties DEF TypeInv
<1>6. f + z = p /\ i <= e /\ e <= z /\ f + e <= m
  BY <1>4, <1>5
<1>7. /\ line_start' = e + 1 /\ file_pos' = p
      /\ e + 1 < z => last' = z /\ pc' = "lines"
      /\ ~ (e + 1 < z) => last' = 0 /\ pc' \in {"read", "done"}
  BY <1>2, <1>5 DEF SearchLine
<1>8. /\ e < z => Reached' = f + e + 1
      /\ e = z => Reached' = f + e /\ ~ AtLine'
  <2>1. CASE e + 1 < z
    BY <2>1, <1>6, <1>7 DEF Reached, First
  <2>2. CASE ~ (e + 1 < z)
    <3>1. Reached' = p /\ ~ AtLine'
      BY <2>2, <1>7 DEF Reached, First, AtLine
    <3>2. QED
      BY <3>1, <2>2, <1>6
  <2>3. QED
    BY <2>1, <2>2
<1>9. out' = out \o IfWanted(s, l)
  BY <1>3, SearchedOut
<1>10. /\ Breaks = BreaksOf(text) /\ Breaks' = Breaks
       /\ WantedFrom = WantedBy(text, s) /\ WantedFrom' = WantedFrom
  BY <1>2, SameFile, NamedByText, WantedByText
<1>11. PICK b \in Breaks : (b = f + i \/ (b = f + i + 1 /\ ~ AtLine)) /\ FoundUpTo(b)
  BY <1>2, <1>5 DEF GrepInv, Progress, Reached
<1>12. CASE b = f + i
  <2>1. /\ b # Len(text) + 1 /\ f + e + 1 \in Breaks
        /\ NextOf(text, b) = f + e + 1 /\ LineOf(text, b) = l
    BY <1>3, <1>5, <1>11, <1>12, NextBreakIs
  <2>2. PICK n \in Breaks : n = f + e + 1
    BY <2>1
  <2>3. out \o WantedBy(text, s)[b] = WantedBy(text, s)[0]
    BY <1>10, <1>11 DEF FoundUpTo
  <2>4. out' \o WantedBy(text, s)[NextOf(text, b)] = WantedBy(text, s)[0]
    <3>1. b \in BreaksOf(text)
      BY <1>10
    <3>2. PICK o : o = out'
      OBVIOUS
    <3>3. Joins(o, out, IfWanted(s, LineOf(text, b)))
      BY <1>9, <2>1, <3>2, Zenon DEF Joins
    <3>4. PICK w : w = WantedBy(text, s)[0]
      OBVIOUS
    <3>5. FoundTo(out, text, s, b, w)
      BY <2>3, <3>4, Zenon DEF FoundTo
    <3>6. FoundTo(o, text, s, NextOf(text, b), w)
      BY <1>1, <2>1, <3>1, <3>3, <3>5, OneLineFurther
    <3>7. QED
      BY <3>2, <3>4, <3>6, Zenon DEF FoundTo
  <2>5. out' \o WantedFrom'[n] = WantedFrom'[0]
    BY <1>10, <2>1, <2>2, <2>4, Zenon
  <2>6. FoundUpTo(n)'
    BY <2>5 DEF FoundUpTo
  <2>7. n = Reached' \/ (n = Reached' + 1 /\ ~ AtLine')
    BY <2>2, <1>6, <1>8
  <2>8. QED
    BY <2>6, <2>7, <1>10 DEF Progress
<1>13. CASE b = f + i + 1 /\ ~ AtLine
  <2>1. i = 0
    BY <1>13, <1>2, <1>5 DEF AtLine
  <2>2. e = 0
    <3>1. CASE z = 0
      BY <3>1, <1>6
    <3>2. CASE z # 0
      <4>1. b = f + 1 /\ b \in 1..m
        BY <2>1, <3>2, <1>13, <1>1, <1>5, <1>6 DEF TypeInv
      <4>2. text[b] = "nl"
        <5>1. b # 0 /\ b # Len(text) + 1 /\ b \in BreaksOf(text)
          BY <4>1, <1>5, <1>10
        <5>2. QED
          BY <5>1, <1>1, BreaksIs
      <4>3. 0 \in i..(z - 1) /\ b = f + 0 + 1
        BY <4>1, <2>1, <3>2
      <4>4. data[0] = text[f + 0 + 1]
        BY <4>3, <1>1, <1>2, <1>5 DEF BufferHolds, HoldsFrom
      <4>5. NoNewline(data, line_start, e)
        BY <1>1, <1>2, LineEndIs DEF BufferHolds
      <4>6. ~ (0 \in 0..(e - 1))
        BY <4>2, <4>3, <4>4, <4>5, <2>1, <1>5 DEF NoNewline
      <4>7. QED
        BY <4>6
    <3>3. QED
      BY <3>1, <3>2
  <2>3. out' = out
    <3>1. Len(l) = 0
      BY <2>1, <2>2, <1>4, <1>5
    <3>2. out' = out \o <<>>
      BY <3>1, <1>9, EmptyLine
    <3>3. QED
      BY <3>2, <1>1, ConcatEmptySeq
  <2>4. FoundUpTo(b)'
    BY <2>3, <1>10, <1>11 DEF FoundUpTo
  <2>5. b = Reached' \/ (b = Reached' + 1 /\ ~ AtLine')
    BY <2>1, <2>2, <1>6, <1>8, <1>13
  <2>6. QED
    BY <2>4, <2>5, <1>10, <1>11 DEF Progress
<1>14. QED
  BY <1>11, <1>12, <1>13

LEMMA SearchLineKeeps ==
  ASSUME GrepInv, SearchLine
  PROVE  GrepInv'
<1>1. TypeInv /\ BufferHolds /\ ReadsFill /\ PiecesFound /\ out \in Seq(Seq(Chars))
  BY DEF GrepInv, TypeInv
<1>2. PICK e \in Nat : e = LineEnd /\ e \in line_start..last
  BY <1>1, LineEndIs DEF BufferHolds, SearchLine
<1>3. PICK l \in Seq(Chars) :
        /\ l = StringAt(Terminated, line_start) /\ PieceOfText(l)
        /\ out' = IF Has(s, l) THEN Append(out, l) ELSE out
  BY SearchedOut
<1>4. PICK i \in Nat, z \in Nat, p \in Nat, N \in Nat :
        i = line_start /\ z = last /\ p = file_pos /\ N = BUFSIZE
  BY <1>1, BufferAssumption DEF TypeInv
<1>5. /\ pc = "lines" /\ UNCHANGED file /\ cnt' = cnt
      /\ data' = [data EXCEPT ![e] = "null"]
      /\ line_start' = e + 1 /\ file_pos' = p
      /\ e + 1 < z => last' = z /\ pc' = "lines"
      /\ ~ (e + 1 < z) => last' = 0 /\ pc' = IF cnt = 0 THEN "done" ELSE "read"
  BY <1>2, <1>4 DEF SearchLine, Terminated
<1>6. text' = text /\ s' = s /\ behind' = behind /\ \A line : HasPattern(line)' <=> HasPattern(line)
  BY <1>5, SameFile
<1>7. z <= p /\ z <= N /\ p <= Len(text) /\ e \in Places
  BY <1>1, <1>2, <1>4 DEF TypeInv, Places
<1>8. out' \in Seq(Seq(Chars))
  BY <1>1, <1>3, AppendProperties
<1>9. TypeInv'
  BY <1>1, <1>4, <1>5, <1>6, <1>7, <1>8 DEF TypeInv
<1>10. BufferHolds'
  <2>1. DOMAIN data' = Places /\ (behind' # "nl" => data'[BUFSIZE] # "nl")
    BY <1>1, <1>4, <1>5, <1>6, <1>7 DEF BufferHolds, Places
  <2>2. CASE e + 1 < z
    <3>1. last' = z /\ pc' = "lines" /\ First' = First
      BY <2>2, <1>4, <1>5 DEF First
    <3>2. ASSUME NEW k \in (e + 1)..(z - 1)
          PROVE  data'[k] = text'[First + k + 1]
      <4>1. k \in i..(z - 1) /\ k # e /\ k \in Places
        BY <1>2, <1>4, <1>7 DEF Places
      <4>2. data[k] = text[First + k + 1]
        BY <4>1, <1>1, <1>4, <1>5 DEF BufferHolds, HoldsFrom
      <4>3. data'[k] = data[k]
        BY <4>1, <1>1, <1>5 DEF BufferHolds
      <4>4. QED
        BY <4>2, <4>3, <1>6
    <3>3. HoldsFrom(e + 1)'
      BY <3>1, <3>2 DEF HoldsFrom
    <3>4. QED
      BY <2>1, <2>2, <3>1, <3>3, <1>5 DEF BufferHolds
  <2>3. CASE ~ (e + 1 < z)
    <3>1. last' = 0 /\ pc' # "lines"
      BY <2>3, <1>5
    <3>2. HoldsFrom(0)'
      BY <3>1 DEF HoldsFrom
    <3>3. QED
      BY <2>1, <3>1, <3>2, BufferAssumption DEF BufferHolds
  <2>4. QED
    BY <2>2, <2>3
<1>11. ReadsFill'
  BY <1>1, <1>4, <1>5, <1>6 DEF ReadsFill
<1>12. PiecesFound'
  <2>1. \A line : PieceOfText(line)' <=> PieceOfText(line)
    BY <1>6 DEF PieceOfText
  <2>2. CASE ~ Has(s, l)
    BY <2>1, <2>2, <1>1, <1>3, <1>6 DEF PiecesFound
  <2>3. CASE Has(s, l)
    <3>1. /\ out' = Append(out, l) /\ Len(out) \in Nat /\ Len(out') = Len(out) + 1
          /\ \A k \in 1..Len(out) : out'[k] = out[k]
          /\ out'[Len(out) + 1] = l
      BY <2>3, <1>1, <1>3, AppendProperties, LenProperties
    <3>2. HasPattern(l) /\ PieceOfText(l)
      BY <2>3, <1>3, NamedByText
    <3>3. ASSUME NEW k \in 1..Len(out')
          PROVE  HasPattern(out'[k]) /\ PieceOfText(out'[k])
      <4>1. CASE k \in 1..Len(out)
        BY <4>1, <3>1, <1>1 DEF PiecesFound
      <4>2. CASE k \notin 1..Len(out)
        <5>1. k = Len(out) + 1
          BY <4>2, <3>1
        <5>2. QED
          BY <5>1, <3>1, <3>2
      <4>3. QED
        BY <4>1, <4>2
    <3>4. QED
      BY <3>3, <2>1, <1>6 DEF PiecesFound
  <2>4. QED
    BY <2>2, <2>3
<1>13. ASSUME Whole
       PROVE  Progress'
  BY <1>2, <1>13, SearchLineProgress
<1>14. QED
  BY <1>5, <1>9, <1>10, <1>11, <1>12, <1>13, SameFile DEF GrepInv

LEMMA GrepInductive == PlainInv /\ [Next]_vars => PlainInv'
<1>. SUFFICES ASSUME PlainInv, [Next]_vars, Plain'
              PROVE  GrepInv'
  BY DEF PlainInv
<1>0. GrepInv
  <2>1. UNCHANGED file
    BY DEF Next, Read, KeepLine, SearchLine, vars
  <2>2. QED
    BY <2>1, SameFile DEF PlainInv
<1>1. CASE Read
  BY <1>0, <1>1, ReadKeeps
<1>2. CASE KeepLine
  BY <1>0, <1>2, KeepLineKeeps
<1>3. CASE SearchLine
  BY <1>0, <1>3, SearchLineKeeps
<1>4. CASE UNCHANGED vars
  <2>1. /\ UNCHANGED file
        /\ UNCHANGED <<file_pos, data, last, cnt, line_start, pc, out>>
    BY <1>4 DEF vars
  <2>2. /\ text' = text /\ s' = s /\ behind' = behind /\ file_pos' = file_pos /\ data' = data /\ last' = last
        /\ cnt' = cnt /\ line_start' = line_start /\ pc' = pc /\ out' = out
    BY <2>1 DEF file
  <2>3. TypeInv' /\ BufferHolds' /\ ReadsFill'
    BY <1>0, <2>2 DEF GrepInv, TypeInv, BufferHolds, HoldsFrom, First, ReadsFill
  <2>4. PiecesFound'
    BY <1>0, <2>1, <2>2, SameFile DEF GrepInv, PiecesFound, PieceOfText
  <2>5. ASSUME Whole
        PROVE  Progress'
    <3>1. Reached' = Reached /\ AtLine' = AtLine
      BY <2>2 DEF Reached, First, AtLine
    <3>2. PICK b \in Breaks : (b = Reached \/ (b = Reached + 1 /\ ~ AtLine)) /\ FoundUpTo(b)
      BY <1>0, <2>5 DEF GrepInv, Progress
    <3>3. FoundUpTo(b)' /\ b \in Breaks'
      BY <2>1, <2>2, <3>2, SameFile DEF FoundUpTo
    <3>4. QED
      BY <3>1, <3>2, <3>3 DEF Progress
  <2>6. QED
    BY <2>1, <2>3, <2>4, <2>5, SameFile DEF GrepInv
<1>5. QED
  BY <1>1, <1>2, <1>3, <1>4 DEF Next

LEMMA GrepInvariance == Spec => []PlainInv
<1>1. QED
  BY GrepInitial, GrepInductive, PTL DEF Spec

-----------------------------------------------------------------------------

(***************************************************************************)
(* In every file without NULs, the lines with the string are printed once, *)
(* whole and in order, wherever the reads of the buffer cut the lines, if  *)
(* none is longer than the buffer (ece391grep.c:28-57); and every line     *)
(* printed is a piece of the file with the string, however long the lines  *)
(* are.  What the buffer holds at first is arbitrary: only a newline       *)
(* behind it (ece391grep.c:33) can break a line, and only in a file that   *)
(* is longer than the buffer.                                              *)
(***************************************************************************)
THEOREM GrepCorrect == Spec => []GrepFindsLines
<1>1. PlainInv => GrepFindsLines
  <2>. SUFFICES ASSUME GrepInv
                PROVE  GrepFindsLines
    BY DEF PlainInv, GrepFindsLines
  <2>1. TypeInv /\ ReadsFill /\ PiecesFound /\ text \in Seq(Chars) /\ out \in Seq(Seq(Chars))
    BY DEF GrepInv, TypeInv
  <2>2. ASSUME pc = "done", Whole
        PROVE  out = WantedFrom[0]
    <3>1. Reached = Len(text) /\ Len(text) \in Nat
      BY <2>1, <2>2, LenProperties DEF ReadsFill, Reached, First, TypeInv
    <3>2. PICK b \in Breaks : (b = Reached \/ b = Reached + 1) /\ FoundUpTo(b)
      BY <2>2 DEF GrepInv, Progress
    <3>3. b \in BreaksOf(text) /\ b >= Len(text)
      BY <3>1, <3>2, NamedByText
    <3>4. WantedFrom[b] = <<>>
      BY <2>1, <3>3, LastWanted, WantedByText
    <3>5. out \o <<>> = WantedFrom[0]
      BY <3>2, <3>4 DEF FoundUpTo
    <3>6. QED
      BY <2>1, <3>5, ConcatEmptySeq
  <2>3. QED
    BY <2>1, <2>2 DEF GrepFindsLines, PiecesFound
<1>2. QED
  BY <1>1, GrepInvariance, PTL

=============================================================================
