-------------------------- MODULE Listfile_proofs --------------------------
(***************************************************************************)
(* Proofs about the replay of a listfile: the buffers handed to the parser *)
(* are pieces of the file that follow each other, each of whole frames     *)
(* (ReplayTheorem).                                                        *)
(***************************************************************************)
EXTENDS MCListfile, SequenceTheorems, WellFoundedInduction, TLAPS

-----------------------------------------------------------------------------
(***************************************************************************)
(* Numbers and sequences                                                   *)
(***************************************************************************)
\* Every non-empty set of natural numbers has a least element.
LEMMA SmallestNumber ==
    ASSUME NEW T, T \subseteq Nat, T # {}
    PROVE  \E x \in T : \A y \in T : ~(y < x)
<1>1. PICK x \in T : \A y \in T : <<y, x>> \notin OpToRel(<, Nat)
  BY NatLessThanWellFounded, WFMin
<1>2. \A y \in T : y < x => <<y, x>> \in OpToRel(<, Nat)
  BY DEF OpToRel
<1> QED BY <1>1, <1>2

\* A set that holds 0 and the successor of each of its numbers holds all numbers.
LEMMA AllNumbers ==
    ASSUME NEW S, 0 \in S, \A n \in Nat : n \in S => n + 1 \in S
    PROVE  \A n \in Nat : n \in S
<1> SUFFICES ASSUME NEW m \in Nat, m \notin S PROVE FALSE
  OBVIOUS
<1> DEFINE T == {n \in Nat : n \notin S}
<1>1. T \subseteq Nat /\ T # {}
  OBVIOUS
<1> HIDE DEF T
<1>2. PICK x \in T : \A y \in T : ~(y < x)
  BY <1>1, SmallestNumber
<1>3. x \in Nat /\ x \notin S
  BY <1>2 DEF T
<1>4. x - 1 \in Nat /\ (x - 1) + 1 = x
  BY <1>3
<1>5. x - 1 \notin T
  BY <1>2, <1>3
<1>6. x - 1 \in S
  BY <1>4, <1>5 DEF T
<1> QED BY <1>3, <1>4, <1>6

\* The piece of a sequence after its first a elements up to element b
Piece(w, a, b) == SubSeq(w, a + 1, b)

\* The length and the elements of a piece.
LEMMA PieceIs ==
    ASSUME NEW S, NEW w \in Seq(S), NEW a \in Nat, NEW b \in Nat, a <= b, b <= Len(w)
    PROVE  /\ Piece(w, a, b) \in Seq(S) /\ Len(Piece(w, a, b)) = b - a
           /\ \A i \in 1..(b - a) : Piece(w, a, b)[i] = w[a + i]
BY DEF Piece

\* Sequences of one length with the same elements are the same.
LEMMA SameSeq ==
    ASSUME NEW S, NEW s \in Seq(S), NEW t \in Seq(S), Len(s) = Len(t),
           \A i \in 1..Len(s) : s[i] = t[i]
    PROVE  s = t
OBVIOUS

\* Pieces that follow each other make a piece.
LEMMA PiecesJoin ==
    ASSUME NEW S, NEW w \in Seq(S), NEW a \in Nat, NEW b \in Nat, NEW c \in Nat,
           a <= b, b <= c, c <= Len(w)
    PROVE  Piece(w, a, b) \o Piece(w, b, c) = Piece(w, a, c)
<1> DEFINE p == Piece(w, a, b)
           q == Piece(w, b, c)
           r == Piece(w, a, c)
<1>1. b <= Len(w) /\ a <= c
  OBVIOUS
<1>2. p \in Seq(S) /\ Len(p) = b - a /\ \A i \in 1..(b - a) : p[i] = w[a + i]
  BY <1>1, PieceIs
<1>3. q \in Seq(S) /\ Len(q) = c - b /\ \A i \in 1..(c - b) : q[i] = w[b + i]
  BY PieceIs
<1>4. r \in Seq(S) /\ Len(r) = c - a /\ \A i \in 1..(c - a) : r[i] = w[a + i]
  BY <1>1, PieceIs
<1> HIDE DEF p, q, r
<1>5. /\ p \o q \in Seq(S) /\ Len(p \o q) = Len(p) + Len(q)
      /\ \A i \in 1..(Len(p) + Len(q)) : (p \o q)[i] = IF i <= Len(p) THEN p[i] ELSE q[i - Len(p)]
  <2>1. p \in Seq(S) /\ q \in Seq(S)
    BY <1>2, <1>3
  <2> QED BY <2>1, ConcatProperties
<1>6. Len(p \o q) = c - a
  BY <1>2, <1>3, <1>5
<1>7. ASSUME NEW i \in 1..(c - a) PROVE (p \o q)[i] = r[i]
  <2>1. CASE i <= b - a
    <3>1. i \in 1..(b - a) /\ i \in 1..(Len(p) + Len(q)) /\ i <= Len(p)
      BY <2>1, <1>2, <1>3
    <3> QED BY <3>1, <1>2, <1>4, <1>5
  <2>2. CASE ~(i <= b - a)
    <3> DEFINE j == i - (b - a)
    <3>1. /\ j \in 1..(c - b) /\ b + j = a + i
          /\ i \in 1..(Len(p) + Len(q)) /\ ~(i <= Len(p)) /\ i - Len(p) = j
      BY <2>2, <1>2, <1>3
    <3> HIDE DEF j
    <3>2. (p \o q)[i] = q[j] /\ q[j] = w[b + j]
      BY <3>1, <1>3, <1>5
    <3> QED BY <3>1, <3>2, <1>2, <1>4
  <2> QED BY <2>1, <2>2
<1>8. p \o q = r
  BY <1>4, <1>5, <1>6, <1>7, SameSeq
<1> QED BY <1>8 DEF p, q, r

\* A piece of a piece is a piece.
LEMMA PieceOfPiece ==
    ASSUME NEW S, NEW w \in Seq(S), NEW a \in Nat, NEW b \in Nat, a <= b, b <= Len(w),
           NEW i \in Nat, NEW j \in Nat, i <= j, j <= b - a
    PROVE  Piece(Piece(w, a, b), i, j) = Piece(w, a + i, a + j)
<1> DEFINE p == Piece(w, a, b)
           q == Piece(p, i, j)
           r == Piece(w, a + i, a + j)
<1>1. p \in Seq(S) /\ Len(p) = b - a /\ \A k \in 1..(b - a) : p[k] = w[a + k]
  BY PieceIs
<1>2. a + i \in Nat /\ a + j \in Nat /\ a + i <= a + j /\ a + j <= Len(w)
  OBVIOUS
<1>3. r \in Seq(S) /\ Len(r) = (a + j) - (a + i) /\ \A k \in 1..((a + j) - (a + i)) : r[k] = w[(a + i) + k]
  BY <1>2, PieceIs
<1> HIDE DEF p
<1>a. p \in Seq(S) /\ j <= Len(p)
  BY <1>1
<1>4. q \in Seq(S) /\ Len(q) = j - i /\ \A k \in 1..(j - i) : q[k] = p[i + k]
  BY <1>a, PieceIs
<1> HIDE DEF q, r
<1>5. (a + j) - (a + i) = j - i
  OBVIOUS
<1>6. ASSUME NEW k \in 1..(j - i) PROVE q[k] = r[k]
  <2>1. i + k \in 1..(b - a) /\ a + (i + k) = (a + i) + k
    OBVIOUS
  <2>2. p[i + k] = w[a + (i + k)]
    BY <2>1, <1>1
  <2> QED BY <2>1, <2>2, <1>3, <1>4, <1>5
<1>7. q = r
  BY <1>3, <1>4, <1>5, <1>6, SameSeq
<1> QED BY <1>7 DEF p, q, r

-----------------------------------------------------------------------------
(***************************************************************************)
(* Chains: sequences of pieces, each of which starts where the last ended  *)
(***************************************************************************)
Chain(R, b, p, q) ==
    \E g : /\ g[0] = p /\ g[Len(b)] = q
           /\ \A i \in 1..Len(b) : <<g[i - 1], b[i], g[i]>> \in R

\* An empty chain ends where it starts.
LEMMA ChainEmpty == ASSUME NEW R, NEW p, NEW q PROVE Chain(R, <<>>, p, q) <=> p = q
<1>1. Len(<<>>) = 0 /\ 1..0 = {}
  OBVIOUS
<1>2. ASSUME p = q PROVE Chain(R, <<>>, p, q)
  <2> DEFINE g == [i \in {0} |-> p]
  <2>1. g[0] = p
    OBVIOUS
  <2> HIDE DEF g
  <2> QED BY <2>1, <1>1, <1>2 DEF Chain
<1>3. ASSUME Chain(R, <<>>, p, q) PROVE p = q
  BY <1>1, <1>3 DEF Chain
<1> QED BY <1>2, <1>3

\* A chain grows at its end.
LEMMA ChainAppend ==
    ASSUME NEW R, NEW S, NEW b \in Seq(S), NEW x \in S, NEW p, NEW q, NEW q2,
           Chain(R, b, p, q), <<q, x, q2>> \in R
    PROVE  Chain(R, Append(b, x), p, q2)
<1>1. PICK g : /\ g[0] = p /\ g[Len(b)] = q
               /\ \A i \in 1..Len(b) : <<g[i - 1], b[i], g[i]>> \in R
  BY DEF Chain
<1> DEFINE n == Len(b)
           c == Append(b, x)
           h == [i \in 0..(n + 1) |-> IF i = n + 1 THEN q2 ELSE g[i]]
<1>2. n \in Nat /\ Len(c) = n + 1 /\ c[n + 1] = x /\ \A i \in 1..n : c[i] = b[i]
  OBVIOUS
<1> HIDE DEF n, c
<1>3. h[n + 1] = q2 /\ \A i \in 0..n : h[i] = g[i]
  BY <1>2
<1> HIDE DEF h
<1>4. h[0] = p /\ h[n] = q
  BY <1>1, <1>2, <1>3 DEF n
<1>5. ASSUME NEW i \in 1..(n + 1) PROVE <<h[i - 1], c[i], h[i]>> \in R
  <2>1. CASE i = n + 1
    <3>1. i - 1 = n
      BY <2>1, <1>2
    <3> QED BY <3>1, <2>1, <1>2, <1>3, <1>4
  <2>2. CASE i # n + 1
    <3>1. i \in 1..n /\ i - 1 \in 0..n /\ i \in 0..n
      BY <2>2, <1>2
    <3> QED BY <3>1, <1>1, <1>2, <1>3 DEF n
  <2> QED BY <2>1, <2>2
<1>6. Chain(R, c, p, q2)
  BY <1>2, <1>3, <1>4, <1>5 DEF Chain
<1> QED BY <1>6 DEF c

\* A chain shrinks at its start.
LEMMA ChainTail ==
    ASSUME NEW R, NEW S, NEW b \in Seq(S), b # <<>>, NEW p, NEW q, Chain(R, b, p, q)
    PROVE  \E p2 : <<p, Head(b), p2>> \in R /\ Chain(R, Tail(b), p2, q)
<1>1. PICK g : /\ g[0] = p /\ g[Len(b)] = q
               /\ \A i \in 1..Len(b) : <<g[i - 1], b[i], g[i]>> \in R
  BY DEF Chain
<1> DEFINE n == Len(b)
           c == Tail(b)
           h == [i \in 0..(n - 1) |-> g[i + 1]]
<1>2. n \in Nat \ {0} /\ Len(c) = n - 1 /\ b[1] = Head(b) /\ \A i \in 1..(n - 1) : c[i] = b[i + 1]
  OBVIOUS
<1> HIDE DEF n, c
<1>3. \A i \in 0..(n - 1) : h[i] = g[i + 1]
  OBVIOUS
<1> HIDE DEF h
<1>4. h[0] = g[1] /\ h[n - 1] = q
  <2>1. 0 \in 0..(n - 1) /\ n - 1 \in 0..(n - 1) /\ (n - 1) + 1 = n /\ 0 + 1 = 1
    BY <1>2
  <2>2. h[0] = g[0 + 1] /\ h[n - 1] = g[(n - 1) + 1]
    BY <2>1, <1>3
  <2> QED BY <2>1, <2>2, <1>1 DEF n
<1>5. ASSUME NEW i \in 1..(n - 1) PROVE <<h[i - 1], c[i], h[i]>> \in R
  <2>1. i + 1 \in 1..n /\ (i + 1) - 1 = i /\ (i - 1) + 1 = i /\ i - 1 \in 0..(n - 1) /\ i \in 0..(n - 1)
    BY <1>2
  <2>2. <<g[(i + 1) - 1], b[i + 1], g[i + 1]>> \in R
    BY <2>1, <1>1 DEF n
  <2>3. h[i - 1] = g[(i - 1) + 1] /\ h[i] = g[i + 1] /\ c[i] = b[i + 1]
    BY <2>1, <1>2, <1>3
  <2> QED BY <2>1, <2>2, <2>3
<1>6. Chain(R, c, g[1], q)
  BY <1>2, <1>4, <1>5 DEF Chain
<1>7. <<p, Head(b), g[1]>> \in R
  <2>1. 1 \in 1..n /\ 1 - 1 = 0
    BY <1>2
  <2>2. <<g[1 - 1], b[1], g[1]>> \in R
    BY <2>1, <1>1 DEF n
  <2> QED BY <2>1, <2>2, <1>1, <1>2
<1> QED BY <1>6, <1>7 DEF c

-----------------------------------------------------------------------------
(***************************************************************************)
(* FlattenSeq                                                              *)
(***************************************************************************)
FlatBody(ss, f, i) == IF i = 1 THEN ss[i] ELSE f[i - 1] \o ss[i]
IsFlat(ss, f) == f = [i \in 1..Len(ss) |-> FlatBody(ss, f, i)]

\* The recursive function of FlattenSeq exists.
LEMMA FlatExists == ASSUME NEW ss, Len(ss) \in Nat PROVE \E f : IsFlat(ss, f)
<1> DEFINE Part(k) == \E f : f = [i \in 1..k |-> FlatBody(ss, f, i)]
           S == {k \in Nat : Part(k)}
<1>1. 0 \in S
  <2> DEFINE f == [i \in {} |-> 0]
  <2>1. 1..0 = {}
    OBVIOUS
  <2>2. f = [i \in 1..0 |-> FlatBody(ss, f, i)]
    BY <2>1
  <2>3. Part(0)
    BY <2>2
  <2> QED BY <2>3
<1>2. ASSUME NEW k \in Nat, k \in S PROVE k + 1 \in S
  <2>1. PICK f : f = [i \in 1..k |-> FlatBody(ss, f, i)]
    BY <1>2
  <2> DEFINE g == [i \in 1..(k + 1) |-> IF i = k + 1 THEN FlatBody(ss, f, k + 1) ELSE f[i]]
  <2>2. \A i \in 1..k : g[i] = f[i]
    OBVIOUS
  <2>3. ASSUME NEW i \in 1..(k + 1) PROVE g[i] = FlatBody(ss, g, i)
    <3>1. i # 1 => i - 1 \in 1..k
      OBVIOUS
    <3>2. FlatBody(ss, g, i) = FlatBody(ss, f, i)
      <4> HIDE DEF g
      <4> QED BY <3>1, <2>2 DEF FlatBody
    <3>3. i # k + 1 => i \in 1..k
      OBVIOUS
    <3>4. i # k + 1 => f[i] = FlatBody(ss, f, i)
      BY <3>3, <2>1
    <3>5. g[i] = IF i = k + 1 THEN FlatBody(ss, f, k + 1) ELSE f[i]
      OBVIOUS
    <3> HIDE DEF g
    <3> QED BY <3>2, <3>4, <3>5
  <2>4. g = [i \in 1..(k + 1) |-> g[i]]
    OBVIOUS
  <2> HIDE DEF g
  <2>5. g = [i \in 1..(k + 1) |-> FlatBody(ss, g, i)]
    BY <2>3, <2>4
  <2>6. Part(k + 1)
    BY <2>5
  <2> QED BY <2>6
<1> HIDE DEF S
<1>3. Len(ss) \in S
  BY <1>1, <1>2, AllNumbers
<1> QED BY <1>3 DEF S, IsFlat

\* What is put together step by step
LEMMA FlatSteps ==
    ASSUME NEW ss, Len(ss) \in Nat \ {0}
    PROVE  \E f : /\ RW!FlattenSeq(ss) = f[Len(ss)] /\ f[1] = ss[1]
                  /\ \A i \in 2..Len(ss) : f[i] = f[i - 1] \o ss[i]
<1> DEFINE f == CHOOSE f : IsFlat(ss, f)
<1>1. RW!FlattenSeq(ss) = f[Len(ss)]
  BY DEF RW!FlattenSeq, IsFlat, FlatBody
<1>2. IsFlat(ss, f)
  BY FlatExists
<1> HIDE DEF f
<1>3. 1 \in 1..Len(ss) /\ \A i \in 2..Len(ss) : i \in 1..Len(ss) /\ i # 1
  OBVIOUS
<1>4. \A i \in 1..Len(ss) : f[i] = FlatBody(ss, f, i)
  BY <1>2 DEF IsFlat
<1>5. f[1] = ss[1] /\ \A i \in 2..Len(ss) : f[i] = f[i - 1] \o ss[i]
  BY <1>3, <1>4 DEF FlatBody
<1> QED BY <1>1, <1>5

\* Nothing put together is nothing.
LEMMA FlatEmpty == RW!FlattenSeq(<<>>) = <<>>
BY DEF RW!FlattenSeq

-----------------------------------------------------------------------------
(***************************************************************************)
(* Words in frames                                                         *)
(***************************************************************************)
FrameWords == (DOMAIN FrameSizes) \X Nat
Size(x) == FrameSizes[x[1]]

\* The words w start with a header, and every word is followed by the next one of its
\* frame or, at the end of the frame, by a header.
Follows(x, y) == IF x[2] = Size(x) THEN y[2] = 1 ELSE y[1] = x[1] /\ y[2] = x[2] + 1
Framed(w) ==
    /\ w \in Seq(FrameWords)
    /\ \A i \in 1..Len(w) : w[i][2] \in 1..Size(w[i])
    /\ Len(w) > 0 => w[1][2] = 1
    /\ \A i \in 1..Len(w) : i < Len(w) => Follows(w[i], w[i + 1])

\* A frame ends at place c.
Ends(w, c) == c = 0 \/ w[c][2] = Size(w[c])

\* No complete frame starts after place c and ends by place m.
Cut(w, c, m) == c < m => c + Size(w[c + 1]) > m

\* A word of a frame has a frame, whose size is known.
LEMMA SizeType ==
    ASSUME NEW x \in FrameWords
    PROVE  Size(x) \in Nat \ {0} /\ x[1] \in DOMAIN FrameSizes /\ x[2] \in Nat
<1>1. x[1] \in DOMAIN FrameSizes /\ x[2] \in Nat
  BY DEF FrameWords
<1> QED BY <1>1, ReplayAssumption DEF Size

\* After the end of a frame a header follows.
LEMMA HeaderNext ==
    ASSUME NEW w, Framed(w), NEW c \in Nat, c < Len(w), Ends(w, c)
    PROVE  w[c + 1][2] = 1
<1>1. Len(w) \in Nat
  BY DEF Framed
<1>2. CASE c = 0
  BY <1>1, <1>2 DEF Framed
<1>3. CASE c # 0
  <2>1. c \in 1..Len(w) /\ w[c][2] = Size(w[c])
    BY <1>1, <1>3 DEF Ends
  <2>2. Follows(w[c], w[c + 1])
    BY <2>1 DEF Framed
  <2> QED BY <2>1, <2>2 DEF Follows
<1> QED BY <1>2, <1>3

\* The words of a frame follow its header.
LEMMA InFrame ==
    ASSUME NEW w, Framed(w), NEW c \in Nat, c < Len(w), Ends(w, c)
    PROVE  \A j \in Nat : 1 <= j /\ j <= Size(w[c + 1]) /\ c + j <= Len(w)
                            => w[c + j][1] = w[c + 1][1] /\ w[c + j][2] = j
<1> DEFINE f == w[c + 1][1]
           z == Size(w[c + 1])
           S == {j \in Nat : 1 <= j /\ j <= z /\ c + j <= Len(w) => w[c + j][1] = f /\ w[c + j][2] = j}
<1>1. Len(w) \in Nat /\ w \in Seq(FrameWords)
  BY DEF Framed
<1>2. c + 1 \in 1..Len(w) /\ w[c + 1] \in FrameWords
  BY <1>1
<1>3. z \in Nat
  BY <1>2, SizeType
<1>4. z = FrameSizes[f]
  BY DEF Size
<1> HIDE DEF z
<1>5. 0 \in S
  OBVIOUS
<1>6. ASSUME NEW k \in Nat, k \in S PROVE k + 1 \in S
  <2> SUFFICES ASSUME k + 1 <= z, c + (k + 1) <= Len(w)
               PROVE  w[c + (k + 1)][1] = f /\ w[c + (k + 1)][2] = k + 1
    OBVIOUS
  <2>1. CASE k = 0
    <3>1. c + (k + 1) = c + 1 /\ k + 1 = 1
      BY <2>1
    <3> QED BY <3>1, HeaderNext
  <2>2. CASE k # 0
    <3>1. /\ c + k \in 1..Len(w) /\ c + k < Len(w) /\ (c + k) + 1 = c + (k + 1)
          /\ 1 <= k /\ k <= z /\ c + k <= Len(w) /\ k # z
      BY <2>2, <1>1, <1>3
    <3>2. w[c + k][1] = f /\ w[c + k][2] = k
      BY <3>1, <1>6
    <3>3. Follows(w[c + k], w[(c + k) + 1])
      BY <3>1 DEF Framed
    <3>4. Size(w[c + k]) = z
      BY <3>2, <1>4 DEF Size
    <3> QED BY <3>1, <3>2, <3>3, <3>4 DEF Follows
  <2> QED BY <2>1, <2>2
<1>7. \A j \in Nat : j \in S
  <2> HIDE DEF S
  <2> QED BY <1>5, <1>6, AllNumbers
<1> QED BY <1>7 DEF z

\* The end of a frame that is there is the end of a frame.
LEMMA FrameEnd ==
    ASSUME NEW w, Framed(w), NEW c \in Nat, c < Len(w), Ends(w, c), c + Size(w[c + 1]) <= Len(w)
    PROVE  Ends(w, c + Size(w[c + 1]))
<1> DEFINE z == Size(w[c + 1])
<1>1. Len(w) \in Nat /\ w \in Seq(FrameWords)
  BY DEF Framed
<1>2. c + 1 \in 1..Len(w) /\ w[c + 1] \in FrameWords
  BY <1>1
<1>3. z \in Nat /\ 1 <= z
  BY <1>2, SizeType
<1>4. w[c + z][1] = w[c + 1][1] /\ w[c + z][2] = z
  <2>1. \A j \in Nat : 1 <= j /\ j <= Size(w[c + 1]) /\ c + j <= Len(w)
                            => w[c + j][1] = w[c + 1][1] /\ w[c + j][2] = j
    BY InFrame
  <2>2. z <= z
    BY <1>3
  <2> QED BY <2>1, <2>2, <1>3
<1>5. Size(w[c + z]) = z
  BY <1>4 DEF Size
<1> QED BY <1>4, <1>5 DEF Ends

\* A file that was cut off is still framed.
LEMMA PrefixFramed ==
    ASSUME NEW w, Framed(w), NEW n \in Nat, n <= Len(w)
    PROVE  Framed(SubSeq(w, 1, n))
<1> DEFINE v == SubSeq(w, 1, n)
<1>1. Len(w) \in Nat /\ w \in Seq(FrameWords)
  BY DEF Framed
<1>2. v \in Seq(FrameWords) /\ Len(v) = n /\ \A i \in 1..n : v[i] = w[i]
  BY <1>1
<1> HIDE DEF v
<1>3. \A i \in 1..n : i \in 1..Len(w) /\ (i < n => i < Len(w) /\ i + 1 \in 1..n)
  BY <1>1
<1>4. \A i \in 1..n : v[i][2] \in 1..Size(v[i])
  BY <1>2, <1>3 DEF Framed
<1>5. n > 0 => v[1][2] = 1
  <2> SUFFICES ASSUME n > 0 PROVE v[1][2] = 1
    OBVIOUS
  <2>1. 1 \in 1..n /\ Len(w) > 0
    BY <1>1
  <2> QED BY <2>1, <1>2 DEF Framed
<1>6. ASSUME NEW i \in 1..n, i < n PROVE Follows(v[i], v[i + 1])
  <2>1. Follows(w[i], w[i + 1])
    BY <1>3, <1>6 DEF Framed
  <2> QED BY <2>1, <1>2, <1>3, <1>6
<1>7. Framed(v)
  BY <1>2, <1>4, <1>5, <1>6 DEF Framed
<1> QED BY <1>7 DEF v

\* Words that end with the last one of a frame
Whole(w) == Framed(w) /\ Ends(w, Len(w))

\* Whole frames after whole frames are whole frames.
LEMMA WholeJoin ==
    ASSUME NEW u, NEW v, Whole(u), Whole(v), Len(v) > 0
    PROVE  Whole(u \o v)
<1> DEFINE s == u \o v
           n == Len(u)
           m == Len(v)
<1>1. u \in Seq(FrameWords) /\ v \in Seq(FrameWords) /\ n \in Nat /\ m \in Nat
  BY DEF Whole, Framed
<1>2. /\ s \in Seq(FrameWords) /\ Len(s) = n + m
      /\ \A i \in 1..(n + m) : s[i] = IF i <= n THEN u[i] ELSE v[i - n]
  BY <1>1, ConcatProperties
<1> HIDE DEF s
<1>3. ASSUME NEW i \in 1..(n + m)
      PROVE  \/ i <= n /\ i \in 1..n /\ s[i] = u[i]
             \/ ~(i <= n) /\ i - n \in 1..m /\ s[i] = v[i - n]
  BY <1>1, <1>2
<1>u. (\A i \in 1..n : u[i][2] \in 1..Size(u[i])) /\ (n > 0 => u[1][2] = 1)
      /\ (\A i \in 1..n : i < n => Follows(u[i], u[i + 1])) /\ Ends(u, n)
  BY DEF Whole, Framed
<1>v. (\A i \in 1..m : v[i][2] \in 1..Size(v[i])) /\ v[1][2] = 1 /\ m > 0
      /\ (\A i \in 1..m : i < m => Follows(v[i], v[i + 1])) /\ Ends(v, m)
  BY DEF Whole, Framed
<1> HIDE DEF n, m
<1>4. \A i \in 1..(n + m) : s[i][2] \in 1..Size(s[i])
  BY <1>3, <1>u, <1>v
<1>5. s[1][2] = 1
  <2>1. 1 \in 1..(n + m)
    BY <1>1, <1>v
  <2>2. CASE 1 <= n
    BY <2>1, <2>2, <1>1, <1>3, <1>u
  <2>3. CASE ~(1 <= n)
    <3>1. n = 0 /\ 1 - n = 1
      BY <2>3, <1>1
    <3> QED BY <2>1, <2>3, <3>1, <1>3, <1>v
  <2> QED BY <2>2, <2>3
<1>6. ASSUME NEW i \in 1..(n + m), i < n + m PROVE Follows(s[i], s[i + 1])
  <2>1. i + 1 \in 1..(n + m)
    BY <1>1, <1>6
  <2>2. CASE i < n
    <3>1. i <= n /\ i + 1 <= n /\ i \in 1..n
      BY <2>2, <1>1
    <3>2. s[i] = u[i] /\ s[i + 1] = u[i + 1]
      BY <3>1, <2>1, <1>3
    <3> QED BY <3>1, <3>2, <2>2, <1>u
  <2>3. CASE i = n
    <3>1. i <= n /\ ~(i + 1 <= n) /\ (i + 1) - n = 1 /\ n # 0
      BY <2>3, <1>1
    <3>2. s[i] = u[n] /\ s[i + 1] = v[1]
      BY <3>1, <2>1, <2>3, <1>3
    <3>3. u[n][2] = Size(u[n])
      BY <3>1, <1>u DEF Ends
    <3> QED BY <3>2, <3>3, <1>v DEF Follows
  <2>4. CASE i > n
    <3>1. ~(i <= n) /\ ~(i + 1 <= n) /\ (i + 1) - n = (i - n) + 1 /\ i - n \in 1..m /\ i - n < m
      BY <2>4, <1>1, <1>6
    <3>2. s[i] = v[i - n] /\ s[i + 1] = v[(i - n) + 1]
      BY <3>1, <2>1, <1>3
    <3> QED BY <3>1, <3>2, <1>v
  <2> QED BY <2>2, <2>3, <2>4, <1>1
<1>7. Ends(s, n + m)
  <2>1. n + m \in 1..(n + m) /\ ~(n + m <= n) /\ (n + m) - n = m /\ m # 0
    BY <1>1, <1>v
  <2>2. s[n + m] = v[m]
    BY <2>1, <1>3
  <2> QED BY <2>1, <2>2, <1>v DEF Ends
<1>8. Whole(s)
  BY <1>2, <1>4, <1>5, <1>6, <1>7 DEF Whole, Framed
<1> QED BY <1>8 DEF s

\* The words of one frame.
LEMMA FrameWhole ==
    ASSUME NEW f \in DOMAIN FrameSizes
    PROVE  LET v == [i \in 1..FrameSizes[f] |-> <<f, i>>] IN Whole(v) /\ Len(v) > 0
<1> DEFINE z == FrameSizes[f]
           v == [i \in 1..z |-> <<f, i>>]
<1>1. z \in Nat \ {0}
  BY ReplayAssumption
<1>2. \A i \in 1..z : <<f, i>> \in FrameWords /\ Size(<<f, i>>) = z
  BY DEF FrameWords, Size
<1>z. z = FrameSizes[f]
  OBVIOUS
<1> HIDE DEF z
<1>3. v \in Seq(FrameWords) /\ Len(v) = z
  BY <1>1, <1>2
<1>4. \A i \in 1..z : v[i][1] = f /\ v[i][2] = i /\ Size(v[i]) = z
  BY <1>2
<1> HIDE DEF v
<1>5. \A i \in 1..z : v[i][2] \in 1..Size(v[i])
  BY <1>1, <1>4
<1>6. v[1][2] = 1
  BY <1>1, <1>4
<1>7. ASSUME NEW i \in 1..z, i < z PROVE Follows(v[i], v[i + 1])
  <2>1. i + 1 \in 1..z /\ i # z
    BY <1>1, <1>7
  <2> QED BY <2>1, <1>4 DEF Follows
<1>8. Ends(v, z)
  BY <1>1, <1>4 DEF Ends
<1>9. Whole(v) /\ Len(v) > 0
  BY <1>1, <1>3, <1>5, <1>6, <1>7, <1>8 DEF Whole, Framed
<1> QED BY <1>9 DEF v, z

\* The words of the listfile are those of whole frames.
LEMMA WordsWhole == Whole(RW!Words)
<1> DEFINE ss == [f \in DOMAIN FrameSizes |-> [i \in 1..FrameSizes[f] |-> <<f, i>>]]
           n == Len(FrameSizes)
<1>1. n \in Nat /\ DOMAIN FrameSizes = 1..n
  BY ReplayAssumption
<1>2. Len(ss) = n
  BY <1>1
<1>3. \A f \in 1..n : Whole(ss[f]) /\ Len(ss[f]) > 0
  BY <1>1, FrameWhole
<1>4. RW!Words = RW!FlattenSeq(ss)
  BY DEF RW!Words
<1>5. CASE n = 0
  <2>1. ss = <<>>
    BY <1>1, <1>5
  <2>2. RW!Words = <<>>
    BY <2>1, <1>4, FlatEmpty
  <2> QED BY <2>2 DEF Whole, Framed, Ends
<1> HIDE DEF ss, n
<1>6. CASE n # 0
  <2>1. PICK g : /\ RW!FlattenSeq(ss) = g[Len(ss)] /\ g[1] = ss[1]
                 /\ \A i \in 2..Len(ss) : g[i] = g[i - 1] \o ss[i]
    BY <1>1, <1>2, <1>6, FlatSteps
  <2> DEFINE S == {k \in Nat : k + 1 <= n => Whole(g[k + 1])}
  <2>2. 0 \in S
    BY <2>1, <1>1, <1>3, <1>6
  <2>3. ASSUME NEW k \in Nat, k \in S PROVE k + 1 \in S
    <3> SUFFICES ASSUME (k + 1) + 1 <= n PROVE Whole(g[(k + 1) + 1])
      OBVIOUS
    <3> DEFINE j == (k + 1) + 1
    <3>1. j \in 2..n /\ j \in 1..n /\ j - 1 = k + 1 /\ k + 1 <= n
      BY <1>1
    <3> HIDE DEF j
    <3>2. Whole(g[j - 1])
      BY <3>1, <2>3
    <3>3. g[j] = g[j - 1] \o ss[j]
      BY <3>1, <2>1, <1>2
    <3>4. Whole(ss[j]) /\ Len(ss[j]) > 0
      BY <3>1, <1>3
    <3>5. Whole(g[j - 1] \o ss[j])
      BY <3>2, <3>4, WholeJoin
    <3> QED BY <3>3, <3>5 DEF j
  <2>4. n - 1 \in S
    <3> HIDE DEF S
    <3>1. n - 1 \in Nat
      BY <1>1, <1>6
    <3> QED BY <2>2, <2>3, <3>1, AllNumbers
  <2>5. Whole(g[n])
    <3>1. (n - 1) + 1 = n /\ n <= n
      BY <1>1
    <3> QED BY <2>4, <3>1
  <2> QED BY <2>1, <2>5, <1>2, <1>4
<1> QED BY <1>5, <1>6

-----------------------------------------------------------------------------
(***************************************************************************)
(* fixup_buffer()                                                          *)
(***************************************************************************)
MovedBody(data, g, i) ==
    IF i > Len(data) THEN 0
    ELSE LET skip == RW!SkipCount(data, i)
         IN  IF skip = 0 \/ i + skip - 1 > Len(data) THEN Len(data) - i + 1
             ELSE g[i + skip]
IsMoved(data, g) == g = [i \in 1..(Len(data) + 1) |-> MovedBody(data, g, i)]

\* The words to skip are those of the frame; they are unknown only when the
\* frame is not all there.
LEMMA SkipType ==
    ASSUME NEW data \in Seq(FrameWords), NEW i \in 1..Len(data)
    PROVE  /\ RW!SkipCount(data, i) \in Nat
           /\ RW!SkipCount(data, i) # 0 => RW!SkipCount(data, i) = Size(data[i])
           /\ RW!SkipCount(data, i) = 0 => i + Size(data[i]) - 1 > Len(data)
<1> DEFINE f == data[i][1]
           n == Len(data)
<1>1. n \in Nat /\ data[i] \in FrameWords
  OBVIOUS
<1>2. f \in DOMAIN FrameSizes /\ Size(data[i]) \in Nat \ {0} /\ Size(data[i]) = FrameSizes[f]
  BY <1>1, SizeType DEF Size
<1>3. RW!HeaderWords(f) = 2 => FrameSizes[f] >= 2
  BY <1>2, ReplayAssumption DEF RW!HeaderWords
<1>4. RW!HeaderWords(f) \in {1, 2}
  BY DEF RW!HeaderWords
<1>5. RW!SkipCount(data, i) = IF n - i + 1 < RW!HeaderWords(f) THEN 0 ELSE FrameSizes[f]
  BY DEF RW!SkipCount
<1> HIDE DEF f, n
<1> QED BY <1>1, <1>2, <1>3, <1>4, <1>5 DEF n

\* The recursive function of fixup_buffer() exists, as every skip goes forward.
LEMMA MovedExists ==
    ASSUME NEW data \in Seq(FrameWords)
    PROVE  \E g : IsMoved(data, g)
<1> DEFINE n == Len(data)
           Part(k) == \E g : g = [i \in ((n + 1) - k)..(n + 1) |-> MovedBody(data, g, i)]
           S == {k \in Nat : k <= n => Part(k)}
<1>1. n \in Nat
  OBVIOUS
<1>s. \A i \in 1..n : RW!SkipCount(data, i) \in Nat
  BY SkipType
<1>2. 0 \in S
  <2> DEFINE g == [i \in ((n + 1) - 0)..(n + 1) |-> 0]
  <2>1. \A i \in ((n + 1) - 0)..(n + 1) : i > Len(data)
    BY <1>1
  <2>2. \A i \in ((n + 1) - 0)..(n + 1) : MovedBody(data, g, i) = 0
    BY <2>1 DEF MovedBody
  <2>3. g = [i \in ((n + 1) - 0)..(n + 1) |-> MovedBody(data, g, i)]
    BY <2>2
  <2>4. Part(0)
    BY <2>3
  <2> QED BY <2>4
<1>3. ASSUME NEW k \in Nat, k \in S PROVE k + 1 \in S
  <2> SUFFICES ASSUME k + 1 <= n PROVE Part(k + 1)
    BY <1>1
  <2>1. PICK h : h = [i \in ((n + 1) - k)..(n + 1) |-> MovedBody(data, h, i)]
    BY <1>1, <1>3
  <2> DEFINE j == (n + 1) - (k + 1)
             e == n + 1
             g == [i \in j..e |-> IF i = j THEN MovedBody(data, h, j) ELSE h[i]]
  <2>2. j \in 1..n /\ (n + 1) - k = j + 1 /\ e \in Nat /\ \A i \in j..e : i # j => i \in (j + 1)..e
    BY <1>1
  <2>g. \A i \in j..e : g[i] = IF i = j THEN MovedBody(data, h, j) ELSE h[i]
    OBVIOUS
  <2>d. g = [i \in j..e |-> g[i]]
    OBVIOUS
  <2>e. e = n + 1
    OBVIOUS
  <2>h. \A i \in (j + 1)..e : h[i] = MovedBody(data, h, i)
    BY <2>1, <2>2
  <2> HIDE DEF j, e, g
  <2>3. ASSUME NEW i \in j..e PROVE MovedBody(data, g, i) = MovedBody(data, h, i)
    <3>1. CASE i > n
      BY <3>1 DEF MovedBody
    <3>2. CASE ~(i > n)
      <4> DEFINE skip == RW!SkipCount(data, i)
      <4>1. i \in 1..n /\ skip \in Nat
        BY <3>2, <2>2, <2>e, <1>1, <1>s
      <4> HIDE DEF skip
      <4>2. CASE skip = 0 \/ i + skip - 1 > n
        BY <4>2 DEF MovedBody, skip
      <4>3. CASE ~(skip = 0 \/ i + skip - 1 > n)
        <5>1. i + skip \in j..e /\ i + skip # j
          BY <4>1, <4>3, <2>2, <2>e, <1>1
        <5>2. g[i + skip] = h[i + skip]
          BY <5>1, <2>g
        <5> QED BY <5>2, <3>2, <4>3 DEF MovedBody, skip
      <4> QED BY <4>2, <4>3
    <3> QED BY <3>1, <3>2
  <2>4. ASSUME NEW i \in j..e PROVE g[i] = MovedBody(data, g, i)
    <3>1. CASE i = j
      BY <3>1, <2>3, <2>g
    <3>2. CASE i # j
      <4>1. i \in (j + 1)..e
        BY <3>2, <2>2
      <4> QED BY <4>1, <3>2, <2>3, <2>g, <2>h
    <3> QED BY <3>1, <3>2
  <2>5. g = [i \in j..e |-> MovedBody(data, g, i)]
    BY <2>4, <2>d
  <2>6. \E gg : gg = [i \in j..e |-> MovedBody(data, gg, i)]
    BY <2>5
  <2> QED BY <2>6 DEF j, e
<1>4. n \in S
  <2> HIDE DEF S, n
  <2> QED BY <1>1, <1>2, <1>3, AllNumbers
<1>5. PICK g : g = [i \in ((n + 1) - n)..(n + 1) |-> MovedBody(data, g, i)]
  BY <1>1, <1>4
<1>6. (n + 1) - n = 1
  BY <1>1
<1>7. g = [i \in 1..(n + 1) |-> MovedBody(data, g, i)]
  BY <1>5, <1>6
<1> QED BY <1>7 DEF IsMoved

\* What fixup_buffer() returns, word for word of the way.
LEMMA MovedSteps ==
    ASSUME NEW data \in Seq(FrameWords)
    PROVE  \E g : RW!fixup_buffer(data) = g[1] /\ \A i \in 1..(Len(data) + 1) : g[i] = MovedBody(data, g, i)
<1> DEFINE g == CHOOSE g : IsMoved(data, g)
<1>1. RW!fixup_buffer(data) = g[1]
  BY DEF RW!fixup_buffer, IsMoved, MovedBody
<1>2. IsMoved(data, g)
  BY MovedExists
<1> HIDE DEF g
<1>3. \A i \in 1..(Len(data) + 1) : g[i] = MovedBody(data, g, i)
  BY <1>2 DEF IsMoved
<1> QED BY <1>1, <1>3

\* fixup_buffer() cuts a buffer that starts with a frame behind its last whole frame.
LEMMA FixupCuts ==
    ASSUME NEW w, Framed(w), NEW a \in Nat, NEW m \in Nat, a <= m, m <= Len(w), Ends(w, a)
    PROVE  \E c \in a..m : /\ RW!fixup_buffer(Piece(w, a, m)) = m - c
                           /\ Ends(w, c) /\ Cut(w, c, m)
<1> DEFINE data == Piece(w, a, m)
           n == m - a
           Good(x) == \E c \in a..m : x = m - c /\ Ends(w, c) /\ Cut(w, c, m)
<1>1. w \in Seq(FrameWords) /\ Len(w) \in Nat /\ n \in Nat
  BY DEF Framed
<1>2. data \in Seq(FrameWords) /\ Len(data) = n /\ \A i \in 1..n : data[i] = w[a + i]
  BY <1>1, PieceIs
<1>n. a + n = m
  BY <1>1
<1> HIDE DEF data, n
<1>3. PICK g : RW!fixup_buffer(data) = g[1] /\ \A i \in 1..(Len(data) + 1) : g[i] = MovedBody(data, g, i)
  BY <1>2, MovedSteps
<1> DEFINE S == {k \in Nat : \A i \in 1..(n + 1) : i + k >= n + 1 /\ Ends(w, a + (i - 1)) => Good(g[i])}
<1> HIDE DEF Good
<1>4. 0 \in S
  <2> SUFFICES ASSUME NEW i \in 1..(n + 1), i + 0 >= n + 1, Ends(w, a + (i - 1)) PROVE Good(g[i])
    OBVIOUS
  <2>1. i > n /\ a + (i - 1) = m
    BY <1>1, <1>n
  <2>2. g[i] = 0
    BY <2>1, <1>2, <1>3 DEF MovedBody
  <2>3. m \in a..m /\ m - m = 0 /\ Cut(w, m, m)
    BY <1>1 DEF Cut
  <2> QED BY <2>1, <2>2, <2>3 DEF Good
<1>5. ASSUME NEW k \in Nat, k \in S PROVE k + 1 \in S
  <2> SUFFICES ASSUME NEW i \in 1..(n + 1), i + (k + 1) >= n + 1, Ends(w, a + (i - 1)) PROVE Good(g[i])
    BY <1>5
  <2>1. CASE i > n
    <3>1. i + k >= n + 1
      BY <2>1, <1>1
    <3> QED BY <3>1, <1>5
  <2>2. CASE ~(i > n)
    <3> DEFINE c == a + (i - 1)
               z == Size(w[c + 1])
               skip == RW!SkipCount(data, i)
    <3>1. /\ i \in 1..n /\ c \in Nat /\ c < Len(w) /\ c < m /\ c \in a..m
          /\ c + 1 = a + i /\ c + 1 \in 1..Len(w) /\ m - c = n - i + 1
      BY <2>2, <1>1, <1>n
    <3>2. w[c + 1] \in FrameWords /\ data[i] = w[c + 1] /\ z \in Nat \ {0}
      <4> HIDE DEF c
      <4>1. w[c + 1] \in FrameWords
        BY <3>1, <1>1
      <4>2. data[i] = w[a + i]
        BY <3>1, <1>2
      <4>3. data[i] = w[c + 1]
        BY <4>2, <3>1
      <4>4. z \in Nat \ {0}
        BY <4>1, SizeType
      <4> QED BY <4>1, <4>3, <4>4
    <3>3. skip \in Nat /\ (skip # 0 => skip = z) /\ (skip = 0 => i + z - 1 > n)
      <4>1. i \in 1..Len(data)
        BY <3>1, <1>2
      <4>2. /\ RW!SkipCount(data, i) \in Nat
            /\ RW!SkipCount(data, i) # 0 => RW!SkipCount(data, i) = Size(data[i])
            /\ RW!SkipCount(data, i) = 0 => i + Size(data[i]) - 1 > Len(data)
        BY <4>1, <1>2, SkipType
      <4> QED BY <4>2, <3>2, <1>2
    <3>e. Ends(w, c)
      OBVIOUS
    <3>g. g[i] = IF skip = 0 \/ i + skip - 1 > n THEN n - i + 1 ELSE g[i + skip]
      BY <2>2, <1>2, <1>3 DEF MovedBody
    <3>c. c = a + (i - 1)
      OBVIOUS
    <3>z. z = Size(w[c + 1])
      OBVIOUS
    <3> HIDE DEF c, z, skip
    <3>4. CASE skip = 0 \/ i + skip - 1 > n
      <4>1. i + z - 1 > n
        BY <3>4, <3>3, <1>1
      <4>2. c + z > m
        BY <4>1, <3>1, <3>2, <1>1
      <4>3. Cut(w, c, m)
        BY <4>2, <3>z DEF Cut
      <4>4. g[i] = m - c
        BY <3>4, <3>g, <3>1
      <4> QED BY <4>3, <4>4, <3>e, <3>1 DEF Good
    <3>5. CASE ~(skip = 0 \/ i + skip - 1 > n)
      <4>1. skip = z /\ ~(i + z - 1 > n)
        BY <3>5, <3>3
      <4>2. c + z <= Len(w) /\ i + z \in 1..(n + 1) /\ (i + z) + k >= n + 1 /\ a + ((i + z) - 1) = c + z
        BY <4>1, <3>1, <3>2, <3>c, <1>1, <1>n
      <4>3. Ends(w, c + z)
        BY <4>2, <3>1, <3>e, <3>z, FrameEnd
      <4>4. Good(g[i + z])
        BY <4>2, <4>3, <1>5
      <4> QED BY <4>1, <4>4, <3>5, <3>g
    <3> QED BY <3>4, <3>5
  <2> QED BY <2>1, <2>2
<1>6. n \in S
  <2> HIDE DEF S
  <2> QED BY <1>1, <1>4, <1>5, AllNumbers
<1>7. 1 \in 1..(n + 1) /\ 1 + n >= n + 1 /\ a + (1 - 1) = a
  BY <1>1
<1>8. Good(g[1])
  BY <1>6, <1>7
<1> QED BY <1>8, <1>3 DEF Good, data

-----------------------------------------------------------------------------
(***************************************************************************)
(* Buffers of whole frames                                                 *)
(***************************************************************************)
\* Non-empty pieces of w from the end of a frame to the end of a frame
FramePieces(w) ==
    {t \in Nat \X Seq(FrameWords) \X Nat :
        /\ t[1] < t[3] /\ t[3] <= Len(w) /\ t[2] = Piece(w, t[1], t[3])
        /\ Ends(w, t[1]) /\ Ends(w, t[3])}

\* What a piece of whole frames is.
LEMMA FramePieceOf ==
    ASSUME NEW w, NEW p, NEW b, NEW q, <<p, b, q>> \in FramePieces(w)
    PROVE  /\ p \in Nat /\ q \in Nat /\ p < q /\ q <= Len(w) /\ b \in Seq(FrameWords)
           /\ b = Piece(w, p, q) /\ Ends(w, p) /\ Ends(w, q)
BY DEF FramePieces

\* What makes a piece of whole frames.
LEMMA FramePieceIn ==
    ASSUME NEW w, NEW p \in Nat, NEW b \in Seq(FrameWords), NEW q \in Nat, p < q, q <= Len(w),
           b = Piece(w, p, q), Ends(w, p), Ends(w, q)
    PROVE  <<p, b, q>> \in FramePieces(w)
BY DEF FramePieces

\* A buffer starts with a header and ends with the last word of a frame.
WholeBuffer(b) == b[1][2] = 1 /\ RW!Last(b)[2] = FrameSizes[RW!Last(b)[1]]

\* Such a piece is a buffer of whole frames and not empty.
LEMMA PieceWhole ==
    ASSUME NEW w, Framed(w), NEW p \in Nat, NEW q \in Nat, p < q, q <= Len(w),
           Ends(w, p), Ends(w, q)
    PROVE  WholeBuffer(Piece(w, p, q)) /\ Piece(w, p, q) # <<>>
<1> DEFINE b == Piece(w, p, q)
           n == q - p
<1>1. w \in Seq(FrameWords) /\ Len(w) \in Nat /\ n \in Nat \ {0} /\ p + n = q
  BY DEF Framed
<1>2. b \in Seq(FrameWords) /\ Len(b) = n /\ \A i \in 1..n : b[i] = w[p + i]
  <2>1. p <= q /\ n = q - p
    OBVIOUS
  <2> HIDE DEF n
  <2>2. b \in Seq(FrameWords) /\ Len(b) = q - p /\ \A i \in 1..(q - p) : b[i] = w[p + i]
    BY <2>1, <1>1, PieceIs
  <2> QED BY <2>1, <2>2
<1> HIDE DEF b, n
<1>3. b[1] = w[p + 1] /\ b[n] = w[q]
  BY <1>1, <1>2
<1>4. w[p + 1][2] = 1
  <2>1. p < Len(w)
    BY <1>1
  <2> QED BY <2>1, HeaderNext
<1>5. w[q][2] = Size(w[q])
  BY DEF Ends
<1>6. RW!Last(b) = w[q]
  BY <1>2, <1>3 DEF RW!Last
<1>7. b # <<>>
  BY <1>1, <1>2
<1>8. WholeBuffer(b)
  BY <1>3, <1>4, <1>5, <1>6 DEF WholeBuffer, Size
<1> QED BY <1>7, <1>8 DEF b

\* A piece that ends where it starts is empty.
LEMMA PieceEmpty ==
    ASSUME NEW w \in Seq(FrameWords), NEW p \in Nat, p <= Len(w)
    PROVE  Piece(w, p, p) = <<>>
<1>1. p <= p /\ p - p = 0
  OBVIOUS
<1>2. Piece(w, p, p) \in Seq(FrameWords) /\ Len(Piece(w, p, p)) = 0
  BY <1>1, PieceIs
<1> QED BY <1>2

\* Buffers that follow each other hold a piece of the file.
LEMMA ChainFlat ==
    ASSUME NEW w, Framed(w), NEW ss \in Seq(Seq(FrameWords)), NEW p \in Nat, NEW q, p <= Len(w),
           Chain(FramePieces(w), ss, p, q)
    PROVE  /\ q \in Nat /\ p <= q /\ q <= Len(w)
           /\ RW!FlattenSeq(ss) = Piece(w, p, q)
           /\ \A i \in 1..Len(ss) : WholeBuffer(ss[i])
<1> DEFINE n == Len(ss)
<1>0. w \in Seq(FrameWords) /\ Len(w) \in Nat /\ n \in Nat
  BY DEF Framed
<1>1. PICK g : /\ g[0] = p /\ g[n] = q
               /\ \A i \in 1..n : <<g[i - 1], ss[i], g[i]>> \in FramePieces(w)
  BY DEF Chain
<1>2. \A i \in 1..n : /\ g[i - 1] \in Nat /\ g[i] \in Nat /\ g[i - 1] < g[i] /\ g[i] <= Len(w)
                      /\ ss[i] = Piece(w, g[i - 1], g[i]) /\ Ends(w, g[i - 1]) /\ Ends(w, g[i])
  <2> SUFFICES ASSUME NEW i \in 1..n
               PROVE  /\ g[i - 1] \in Nat /\ g[i] \in Nat /\ g[i - 1] < g[i] /\ g[i] <= Len(w)
                      /\ ss[i] = Piece(w, g[i - 1], g[i]) /\ Ends(w, g[i - 1]) /\ Ends(w, g[i])
    OBVIOUS
  <2>1. <<g[i - 1], ss[i], g[i]>> \in FramePieces(w)
    BY <1>1
  <2> QED BY <2>1, FramePieceOf
<1>3. \A i \in 1..n : WholeBuffer(ss[i])
  BY <1>2, PieceWhole
<1>4. CASE n = 0
  <2>1. ss = <<>>
    BY <1>4
  <2>2. RW!FlattenSeq(ss) = <<>>
    BY <2>1, FlatEmpty
  <2>3. p = q
    BY <1>1, <1>4
  <2>4. Piece(w, p, p) = <<>>
    BY <1>0, PieceEmpty
  <2> QED BY <2>2, <2>3, <2>4, <1>0, <1>3
<1>5. CASE n # 0
  <2>1. PICK h : /\ RW!FlattenSeq(ss) = h[n] /\ h[1] = ss[1]
                 /\ \A i \in 2..n : h[i] = h[i - 1] \o ss[i]
    BY <1>0, <1>5, FlatSteps
  <2> HIDE DEF n
  <2> DEFINE Good(k) == g[k] \in Nat /\ p <= g[k] /\ g[k] <= Len(w) /\ h[k] = Piece(w, p, g[k])
             S == {k \in Nat : k + 1 <= n => Good(k + 1)}
  <2>2. Good(1)
    <3>1. 1 \in 1..n /\ 1 - 1 = 0
      BY <1>0, <1>5
    <3>2. g[1] \in Nat /\ g[0] < g[1] /\ g[1] <= Len(w) /\ ss[1] = Piece(w, g[0], g[1])
      BY <3>1, <1>2
    <3> QED BY <3>2, <2>1, <1>1
  <2>3. ASSUME NEW k \in 1..n, k + 1 <= n, Good(k) PROVE Good(k + 1)
    <3>1. k + 1 \in 1..n /\ k + 1 \in 2..n /\ (k + 1) - 1 = k
      BY <1>0, <2>3
    <3>2. /\ g[k] \in Nat /\ g[k + 1] \in Nat /\ g[k] < g[k + 1] /\ g[k + 1] <= Len(w)
          /\ ss[k + 1] = Piece(w, g[k], g[k + 1])
      BY <3>1, <1>2
    <3>3. h[k + 1] = h[k] \o ss[k + 1]
      BY <3>1, <2>1
    <3>4. h[k + 1] = Piece(w, p, g[k]) \o Piece(w, g[k], g[k + 1])
      BY <3>2, <3>3, <2>3
    <3>5. p <= g[k] /\ g[k] <= g[k + 1]
      BY <3>2, <2>3
    <3>6. Piece(w, p, g[k]) \o Piece(w, g[k], g[k + 1]) = Piece(w, p, g[k + 1])
      <4> DEFINE x == g[k]
                 y == g[k + 1]
      <4>1. x \in Nat /\ y \in Nat /\ p <= x /\ x <= y /\ y <= Len(w)
        BY <3>2, <3>5
      <4> HIDE DEF x, y
      <4>2. Piece(w, p, x) \o Piece(w, x, y) = Piece(w, p, y)
        BY <4>1, <1>0, PiecesJoin
      <4> QED BY <4>2 DEF x, y
    <3>7. p <= g[k + 1]
      BY <3>2, <3>5
    <3> QED BY <3>2, <3>4, <3>6, <3>7
  <2> HIDE DEF Good
  <2>4. 0 \in S
    BY <2>2
  <2>5. ASSUME NEW k \in Nat, k \in S PROVE k + 1 \in S
    <3> SUFFICES ASSUME (k + 1) + 1 <= n PROVE Good((k + 1) + 1)
      OBVIOUS
    <3>1. k + 1 \in 1..n /\ k + 1 <= n
      BY <1>0
    <3>2. Good(k + 1)
      BY <3>1, <2>5
    <3> QED BY <3>1, <3>2, <2>3
  <2>6. n - 1 \in S
    <3> HIDE DEF S
    <3>1. n - 1 \in Nat
      BY <1>0, <1>5
    <3> QED BY <2>4, <2>5, <3>1, AllNumbers
  <2>7. Good(n)
    <3>1. (n - 1) + 1 = n /\ n <= n
      BY <1>0
    <3> QED BY <2>6, <3>1
  <2> QED BY <2>1, <2>7, <1>1, <1>3 DEF Good, n
<1> QED BY <1>4, <1>5

-----------------------------------------------------------------------------
(***************************************************************************)
(* The replay                                                              *)
(***************************************************************************)
ReplayTypes ==
    /\ Framed(file) /\ pos \in Nat /\ pos <= Len(file)
    /\ parsed \in Seq(Seq(FrameWords)) /\ filled \in Seq(Seq(FrameWords))
    /\ parsing \in Seq(FrameWords) /\ previousData \in Seq(FrameWords)
    /\ emptyBuffers \in Int /\ hasBuffer \in BOOLEAN /\ eof \in BOOLEAN

\* The buffers the parser is done with, the one it has, the queue and what was cut off
\* follow each other in the file; no whole frame is held back.
Placed(c1, c2, c3) ==
    /\ c1 <= c2 /\ c2 <= c3 /\ c3 <= pos
    /\ Chain(FramePieces(file), parsed, 0, c1)
    /\ parsing = Piece(file, c1, c2) /\ Ends(file, c1) /\ Ends(file, c2)
    /\ Chain(FramePieces(file), filled, c2, c3) /\ Ends(file, c3)
    /\ Cut(file, c3, pos)
    /\ (eof => pos = Len(file)) /\ (~eof => previousData = Piece(file, c3, pos))

\* After the end of the file the worker reads no more.
Ending == \/ wpc \in {"put_back", "ended"}
          \/ wpc \in {"set_state", "set_desired"} /\ then \in {"put_back", "ended"}
EofEnds == (eof => started /\ Ending) /\ (wpc = "none" \/ started)

ReplayData == ReplayTypes /\ RW!SnoopBuffersConserved /\ \E c1, c2, c3 \in Nat : Placed(c1, c2, c3)
ReplayInv == ReplayData /\ EofEnds

\* Every step keeps the worker from reading on after the end of the file.
LEMMA EofEndsStep == ASSUME EofEnds, RW!Next PROVE EofEnds'
<1> USE DEF EofEnds, Ending, RW!Goto, RW!SetState, RW!dataVars, RW!userVars
<1>1. CASE RW!ReadPreamble  BY <1>1 DEF RW!ReadPreamble
<1>2. CASE RW!WriteState    BY <1>2 DEF RW!WriteState
<1>3. CASE RW!WriteDesired  BY <1>3 DEF RW!WriteDesired
<1>4. CASE RW!Running       BY <1>4 DEF RW!Running
<1>5. CASE RW!Loop          BY <1>5 DEF RW!Loop
<1>6. CASE RW!Branch        BY <1>6 DEF RW!Branch
<1>7. CASE RW!NoBuffer      BY <1>7 DEF RW!NoBuffer
<1>8. CASE RW!Read          BY <1>8 DEF RW!Read, RW!GotBuffer
<1>9. CASE RW!EndOfFile     BY <1>9 DEF RW!EndOfFile, RW!GotBuffer
<1>10. CASE RW!maybePutBackSnoopBuffer  BY <1>10 DEF RW!maybePutBackSnoopBuffer
<1>11. CASE RW!Parser  BY <1>11 DEF RW!Parser, RW!ParserDequeue, RW!ParserDone
<1>12. CASE RW!start   BY <1>12 DEF RW!start
<1>13. CASE RW!pause   BY <1>13 DEF RW!pause
<1>14. CASE RW!resume  BY <1>14 DEF RW!resume
<1>15. CASE RW!stop    BY <1>15 DEF RW!stop
<1>16. CASE RW!StopRequest  BY <1>16 DEF RW!StopRequest
<1>17. CASE RW!StopReturns  BY <1>17 DEF RW!StopReturns
<1> QED BY <1>1, <1>2, <1>3, <1>4, <1>5, <1>6, <1>7, <1>8, <1>9, <1>10, <1>11, <1>12,
           <1>13, <1>14, <1>15, <1>16, <1>17 DEF RW!Next, RW!Worker

\* What the data are in
dataParts == <<RW!fileVars, RW!dataVars, RW!queueVars>>

\* The state of the data is about these variables.
LEMMA DataUnchanged == ASSUME ReplayData, UNCHANGED dataParts PROVE ReplayData'
BY DEF ReplayData, ReplayTypes, RW!SnoopBuffersConserved, Placed, dataParts, RW!fileVars,
       RW!dataVars, RW!queueVars

\* The other steps leave the data alone.
LEMMA QuietSteps ==
    ASSUME RW!Next
    PROVE  RW!Read \/ RW!EndOfFile \/ RW!maybePutBackSnoopBuffer \/ RW!Parser \/ UNCHANGED dataParts
<1> USE DEF dataParts, RW!fileVars, RW!dataVars, RW!queueVars
<1>1. CASE RW!ReadPreamble  BY <1>1 DEF RW!ReadPreamble
<1>2. CASE RW!WriteState    BY <1>2 DEF RW!WriteState
<1>3. CASE RW!WriteDesired  BY <1>3 DEF RW!WriteDesired
<1>4. CASE RW!Running       BY <1>4 DEF RW!Running
<1>5. CASE RW!Loop          BY <1>5 DEF RW!Loop
<1>6. CASE RW!Branch        BY <1>6 DEF RW!Branch
<1>7. CASE RW!NoBuffer      BY <1>7 DEF RW!NoBuffer
<1>12. CASE RW!start   BY <1>12 DEF RW!start
<1>13. CASE RW!pause   BY <1>13 DEF RW!pause
<1>14. CASE RW!resume  BY <1>14 DEF RW!resume
<1>15. CASE RW!stop    BY <1>15 DEF RW!stop
<1>16. CASE RW!StopRequest  BY <1>16 DEF RW!StopRequest
<1>17. CASE RW!StopReturns  BY <1>17 DEF RW!StopReturns
<1> QED BY <1>1, <1>2, <1>3, <1>4, <1>5, <1>6, <1>7, <1>12,
           <1>13, <1>14, <1>15, <1>16, <1>17 DEF RW!Next, RW!Worker

-----------------------------------------------------------------------------
\* The buffers that the worker and the parser have
InHand == IF hasBuffer THEN 1 ELSE 0
AtParser == IF parsing # <<>> THEN 1 ELSE 0
BufferSum == emptyBuffers + Len(filled) + InHand + AtParser

\* A step that keeps the number of buffers loses none.
LEMMA BuffersKept ==
    ASSUME ReplayData, BufferSum' = BufferSum
    PROVE  RW!SnoopBuffersConserved'
<1>1. BufferSum = Buffers
  BY DEF ReplayData, RW!SnoopBuffersConserved, BufferSum, InHand, AtParser
<1>2. BufferSum' = Buffers
  BY <1>1
<1> QED BY <1>2 DEF RW!SnoopBuffersConserved, BufferSum, InHand, AtParser

\* A buffer changes hands.
LEMMA Exchange ==
    ASSUME NEW e \in Int, NEW n \in Int, NEW h \in Int, NEW x \in Int, NEW e2 \in Int, e2 + 1 = e + h
    PROVE  /\ e2 + n + 1 + x = e + n + h + x
           /\ e2 + (n + 1) + 0 + x = e + n + h + x
OBVIOUS

\* The numbers of buffers are numbers.
LEMMA BufferNumbers ==
    ASSUME ReplayTypes
    PROVE  emptyBuffers \in Int /\ Len(filled) \in Nat /\ InHand \in Nat /\ AtParser \in Nat
<1>1. emptyBuffers \in Int /\ Len(filled) \in Nat
  BY DEF ReplayTypes
<1>2. InHand \in Nat
  BY DEF InHand
<1>3. AtParser \in Nat
  BY DEF AtParser
<1> QED BY <1>1, <1>2, <1>3

\* A worker that has a buffer or takes one has one more than before, or no fewer.
LEMMA BufferTaken ==
    ASSUME ReplayTypes, emptyBuffers' = IF hasBuffer THEN emptyBuffers ELSE emptyBuffers - 1
    PROVE  emptyBuffers' \in Int /\ emptyBuffers' + 1 = emptyBuffers + InHand
<1>1. emptyBuffers \in Int
  BY DEF ReplayTypes
<1>2. CASE hasBuffer
  <2>1. emptyBuffers' = emptyBuffers /\ InHand = 1
    BY <1>2 DEF InHand
  <2> QED BY <2>1, <1>1
<1>3. CASE ~hasBuffer
  <2>1. emptyBuffers' = emptyBuffers - 1 /\ InHand = 0
    BY <1>3 DEF InHand
  <2> QED BY <2>1, <1>1
<1> QED BY <1>2, <1>3

\* A step that takes a buffer, and keeps it or passes it on, keeps their number.
LEMMA BufferMoved ==
    ASSUME ReplayData, AtParser' = AtParser,
           emptyBuffers' = IF hasBuffer THEN emptyBuffers ELSE emptyBuffers - 1,
           \/ InHand' = 1 /\ Len(filled') = Len(filled)
           \/ InHand' = 0 /\ Len(filled') = Len(filled) + 1
    PROVE  RW!SnoopBuffersConserved'
<1>t. ReplayTypes
  BY DEF ReplayData
<1>1. emptyBuffers \in Int /\ Len(filled) \in Nat /\ InHand \in Nat /\ AtParser \in Nat
  BY <1>t, BufferNumbers
<1>2. emptyBuffers' \in Int /\ emptyBuffers' + 1 = emptyBuffers + InHand
  BY <1>t, BufferTaken
<1> DEFINE e == emptyBuffers
           n == Len(filled)
           h == InHand
           x == AtParser
           e2 == emptyBuffers'
<1>3. /\ e \in Int /\ n \in Int /\ h \in Int /\ x \in Int /\ e2 \in Int /\ e2 + 1 = e + h
      /\ BufferSum = e + n + h + x
  BY <1>1, <1>2 DEF BufferSum
<1>4. BufferSum' = e2 + n + 1 + x \/ BufferSum' = e2 + (n + 1) + 0 + x
  BY DEF BufferSum
<1> HIDE DEF e, n, h, x, e2
<1>5. e2 + n + 1 + x = e + n + h + x /\ e2 + (n + 1) + 0 + x = e + n + h + x
  BY <1>3, Exchange
<1>6. BufferSum' = BufferSum
  BY <1>3, <1>4, <1>5
<1> QED BY <1>6, BuffersKept

\* maybePutBackSnoopBuffer() keeps the buffers.
LEMMA PutBackStep == ASSUME ReplayData, RW!maybePutBackSnoopBuffer PROVE ReplayData'
<1>1. emptyBuffers' = IF hasBuffer THEN emptyBuffers + 1 ELSE emptyBuffers
  BY DEF RW!maybePutBackSnoopBuffer
<1>2. hasBuffer' = FALSE
  BY DEF RW!maybePutBackSnoopBuffer
<1>3. /\ file' = file /\ pos' = pos /\ previousData' = previousData /\ eof' = eof
      /\ filled' = filled /\ parsing' = parsing /\ parsed' = parsed
  BY DEF RW!maybePutBackSnoopBuffer, RW!fileVars
<1>t. ReplayTypes
  BY DEF ReplayData
<1>4. emptyBuffers \in Int /\ Len(filled) \in Nat /\ InHand \in Nat /\ AtParser \in Nat
  BY <1>t, BufferNumbers
<1>5. emptyBuffers' = emptyBuffers + InHand
  <2>1. CASE hasBuffer
    BY <2>1, <1>1 DEF InHand
  <2>2. CASE ~hasBuffer
    <3>1. emptyBuffers' = emptyBuffers /\ InHand = 0
      BY <2>2, <1>1 DEF InHand
    <3> QED BY <3>1, <1>4
  <2> QED BY <2>1, <2>2
<1>6. emptyBuffers' \in Int
  BY <1>4, <1>5
<1>7. ReplayTypes'
  BY <1>2, <1>3, <1>6, <1>t DEF ReplayTypes
<1>8. InHand' = 0 /\ AtParser' = AtParser /\ Len(filled') = Len(filled)
  BY <1>2, <1>3 DEF InHand, AtParser
<1>9. BufferSum' = BufferSum
  BY <1>4, <1>5, <1>8 DEF BufferSum
<1>10. RW!SnoopBuffersConserved'
  BY <1>9, BuffersKept
<1>11. PICK c1, c2, c3 \in Nat : Placed(c1, c2, c3)
  BY DEF ReplayData
<1>12. Placed(c1, c2, c3)'
  BY <1>3, <1>11 DEF Placed
<1> QED BY <1>7, <1>10, <1>12 DEF ReplayData

\* The parser takes the buffer that comes next.
LEMMA DequeueStep == ASSUME ReplayData, RW!ParserDequeue PROVE ReplayData'
<1>1. /\ parsing = <<>> /\ filled # <<>>
      /\ parsing' = Head(filled) /\ filled' = Tail(filled)
      /\ file' = file /\ pos' = pos /\ previousData' = previousData /\ eof' = eof
      /\ hasBuffer' = hasBuffer /\ emptyBuffers' = emptyBuffers /\ parsed' = parsed
  BY DEF RW!ParserDequeue, RW!fileVars, RW!dataVars
<1>t. ReplayTypes
  BY DEF ReplayData
<1>2. PICK c1, c2, c3 \in Nat : Placed(c1, c2, c3)
  BY DEF ReplayData
<1>f. file \in Seq(FrameWords) /\ Len(file) \in Nat
  BY <1>t DEF ReplayTypes, Framed
<1>3. PICK d : <<c2, Head(filled), d>> \in FramePieces(file) /\ Chain(FramePieces(file), Tail(filled), d, c3)
  BY <1>1, <1>2, <1>t, ChainTail DEF Placed, ReplayTypes
<1>4. /\ d \in Nat /\ c2 < d /\ d <= Len(file) /\ Head(filled) \in Seq(FrameWords)
      /\ Head(filled) = Piece(file, c2, d) /\ Ends(file, d)
  BY <1>3, FramePieceOf
<1>5. Tail(filled) \in Seq(Seq(FrameWords)) /\ Len(Tail(filled)) = Len(filled) - 1 /\ Len(filled) \in Nat
  BY <1>1, <1>t DEF ReplayTypes
<1>6. ReplayTypes'
  BY <1>1, <1>4, <1>5, <1>t DEF ReplayTypes
<1>7. Framed(file)
  BY <1>t DEF ReplayTypes
<1>8. Head(filled) # <<>>
  <2>1. Piece(file, c2, d) # <<>>
    BY <1>2, <1>4, <1>7, PieceWhole DEF Placed
  <2> QED BY <2>1, <1>4
<1>9. RW!SnoopBuffersConserved'
  <2>1. emptyBuffers \in Int /\ Len(filled) \in Nat /\ InHand \in Nat /\ AtParser \in Nat
    BY <1>t, BufferNumbers
  <2>2. Len(filled') = Len(filled) - 1 /\ parsing' # <<>>
    BY <1>1, <1>5, <1>8
  <2>3. AtParser = 0 /\ AtParser' = 1
    BY <2>2, <1>1 DEF AtParser
  <2>4. InHand' = InHand /\ emptyBuffers' = emptyBuffers
    BY <1>1 DEF InHand
  <2>5. BufferSum' = BufferSum
    BY <2>1, <2>2, <2>3, <2>4 DEF BufferSum
  <2> QED BY <2>5, BuffersKept
<1>10. c1 = c2
  <2> SUFFICES ASSUME c1 # c2 PROVE FALSE
    OBVIOUS
  <2>1. c1 < c2 /\ c2 <= Len(file)
    BY <1>2, <1>4, <1>f DEF Placed
  <2>2. Piece(file, c1, c2) # <<>>
    BY <2>1, <1>2, <1>7, PieceWhole DEF Placed
  <2> QED BY <2>2, <1>1, <1>2 DEF Placed
<1>11. d <= c3
  BY <1>3, <1>4, <1>5, <1>7, ChainFlat
<1>12. Placed(c2, d, c3)'
  <2>1. c2 <= d
    BY <1>4
  <2> QED BY <2>1, <1>1, <1>2, <1>3, <1>4, <1>10, <1>11 DEF Placed
<1> QED BY <1>4, <1>6, <1>9, <1>12 DEF ReplayData

\* The parser gives the buffer back.
LEMMA DoneStep == ASSUME ReplayData, RW!ParserDone PROVE ReplayData'
<1>1. /\ parsing # <<>> /\ parsed' = Append(parsed, parsing) /\ parsing' = <<>>
      /\ emptyBuffers' = emptyBuffers + 1
      /\ file' = file /\ pos' = pos /\ previousData' = previousData /\ eof' = eof
      /\ hasBuffer' = hasBuffer /\ filled' = filled
  BY DEF RW!ParserDone, RW!fileVars, RW!dataVars
<1>t. ReplayTypes
  BY DEF ReplayData
<1>2. PICK c1, c2, c3 \in Nat : Placed(c1, c2, c3)
  BY DEF ReplayData
<1>f. file \in Seq(FrameWords) /\ Len(file) \in Nat /\ Len(filled) \in Nat
  BY <1>t DEF ReplayTypes, Framed
<1>3. ReplayTypes'
  BY <1>1, <1>t DEF ReplayTypes
<1>4. RW!SnoopBuffersConserved'
  <2>1. emptyBuffers \in Int /\ Len(filled) \in Nat /\ InHand \in Nat /\ AtParser \in Nat
    BY <1>t, BufferNumbers
  <2>2. AtParser = 1 /\ AtParser' = 0
    BY <1>1 DEF AtParser
  <2>3. InHand' = InHand /\ emptyBuffers' = emptyBuffers + 1 /\ Len(filled') = Len(filled)
    BY <1>1 DEF InHand
  <2>4. BufferSum' = BufferSum
    BY <2>1, <2>2, <2>3 DEF BufferSum
  <2> QED BY <2>4, BuffersKept
<1>5. c2 <= Len(file)
  BY <1>2, <1>t, <1>f DEF Placed, ReplayTypes
<1>6. Piece(file, c2, c2) = <<>>
  BY <1>5, <1>f, PieceEmpty
<1>7. c1 < c2
  <2>1. c1 # c2
    BY <1>1, <1>2, <1>6 DEF Placed
  <2> QED BY <2>1, <1>2 DEF Placed
<1>8. <<c1, parsing, c2>> \in FramePieces(file)
  BY <1>2, <1>5, <1>7, <1>t, FramePieceIn DEF Placed, ReplayTypes
<1>9. Chain(FramePieces(file), Append(parsed, parsing), 0, c2)
  BY <1>2, <1>8, <1>t, ChainAppend DEF Placed, ReplayTypes
<1>10. Placed(c2, c2, c3)'
  BY <1>1, <1>2, <1>6, <1>9 DEF Placed
<1> QED BY <1>3, <1>4, <1>10 DEF ReplayData

-----------------------------------------------------------------------------
\* The smaller one of two numbers.
LEMMA MinOfTwo ==
    ASSUME NEW x \in Int, NEW y \in Int
    PROVE  RW!Min({x, y}) \in Int /\ RW!Min({x, y}) \in {x, y} /\ RW!Min({x, y}) <= x /\ RW!Min({x, y}) <= y
<1>1. \E z \in {x, y} : \A t \in {x, y} : z <= t
  OBVIOUS
<1> DEFINE z == RW!Min({x, y})
<1>2. z \in {x, y} /\ \A t \in {x, y} : z <= t
  BY <1>1 DEF RW!Min
<1> HIDE DEF z
<1>3. z \in Int /\ z \in {x, y} /\ z <= x /\ z <= y
  BY <1>2
<1> QED BY <1>3 DEF z

\* What a read gives: nothing only at the end of the file, as a frame that is held back
\* fits into a buffer.
LEMMA ReadGives ==
    ASSUME ReplayTypes, NEW c \in Nat, c <= pos, Ends(file, c), Cut(file, c, pos),
           previousData = Piece(file, c, pos)
    PROVE  /\ RW!BytesRead \in Int /\ pos + RW!BytesRead <= Len(file)
           /\ RW!BytesRead = 0 => pos = Len(file)
<1> DEFINE n == Len(previousData)
           l == Len(file)
           r == RW!BytesRead
<1>1. file \in Seq(FrameWords) /\ l \in Nat /\ pos \in Nat /\ pos <= l /\ Capacity \in Nat
  BY ReplayAssumption DEF ReplayTypes, Framed
<1>2. n = pos - c
  BY <1>1, PieceIs
<1>3. r = RW!Min({Capacity - n, l - pos})
  BY DEF RW!BytesRead
<1> HIDE DEF n, l, r
<1>4. Capacity - n \in Int /\ l - pos \in Int
  BY <1>1, <1>2
<1>5. r \in Int /\ (r = Capacity - n \/ r = l - pos) /\ r <= l - pos
  BY <1>3, <1>4, MinOfTwo
<1>6. ASSUME r = 0, pos # l PROVE FALSE
  <2>1. pos < l /\ Capacity = n
    BY <1>1, <1>2, <1>4, <1>5, <1>6
  <2>2. c + 1 \in 1..l /\ c + 1 \in 1..Len(file)
    BY <2>1, <1>1 DEF l
  <2>3. file[c + 1] \in FrameWords
    BY <2>2, <1>1
  <2>4. Size(file[c + 1]) \in Nat \ {0} /\ Size(file[c + 1]) <= Capacity
    BY <2>3, SizeType, ReplayAssumption DEF Size
  <2>5. c < pos => c + Size(file[c + 1]) > pos
    BY DEF Cut
  <2> HIDE DEF Size
  <2> QED BY <2>1, <2>4, <2>5, <1>1, <1>2
<1> QED BY <1>1, <1>5, <1>6 DEF l, r

\* At the end of the file only an incomplete frame is dropped.
LEMMA EndStep == ASSUME ReplayInv, RW!EndOfFile PROVE ReplayData'
<1>1. /\ RW!BytesRead = 0
      /\ previousData' = <<>> /\ hasBuffer' = TRUE /\ eof' = TRUE
      /\ emptyBuffers' = IF hasBuffer THEN emptyBuffers ELSE emptyBuffers - 1
      /\ file' = file /\ pos' = pos /\ filled' = filled /\ parsing' = parsing /\ parsed' = parsed
  BY DEF RW!EndOfFile, RW!TakeBuffer, RW!fileVars
<1>2. ~eof
  BY DEF ReplayInv, EofEnds, Ending, RW!EndOfFile, RW!GotBuffer
<1>t. ReplayTypes
  BY DEF ReplayInv, ReplayData
<1>3. PICK c1, c2, c3 \in Nat : Placed(c1, c2, c3)
  BY DEF ReplayInv, ReplayData
<1>4. pos = Len(file)
  BY <1>1, <1>2, <1>3, <1>t, ReadGives DEF Placed
<1>5. emptyBuffers' \in Int /\ emptyBuffers' + 1 = emptyBuffers + InHand
  BY <1>1, <1>t, BufferTaken
<1>6. ReplayTypes'
  <2>1. previousData' \in Seq(FrameWords)
    BY <1>1
  <2> QED BY <2>1, <1>1, <1>5, <1>t DEF ReplayTypes
<1>7. RW!SnoopBuffersConserved'
  <2>1. InHand' = 1 /\ AtParser' = AtParser /\ Len(filled') = Len(filled)
    BY <1>1 DEF InHand, AtParser
  <2>2. ReplayData
    BY DEF ReplayInv
  <2> QED BY <2>1, <2>2, <1>1, BufferMoved
<1>8. Placed(c1, c2, c3)'
  BY <1>1, <1>3, <1>4 DEF Placed
<1> QED BY <1>6, <1>7, <1>8 DEF ReplayData

\* A read continues the file, and the buffer is cut behind its last whole frame.
LEMMA ReadBufferStep == ASSUME ReplayInv, RW!Read PROVE ReplayData'
<1> DEFINE r == RW!BytesRead
           m == pos + r
           data == previousData \o SubSeq(file, pos + 1, pos + r)
           kept == Len(data) - RW!fixup_buffer(data)
<1>1. /\ r > 0 /\ pos' = m
      /\ previousData' = SubSeq(data, kept + 1, Len(data))
      /\ IF kept > 0
         THEN /\ filled' = Append(filled, SubSeq(data, 1, kept)) /\ hasBuffer' = FALSE
              /\ emptyBuffers' = IF hasBuffer THEN emptyBuffers ELSE emptyBuffers - 1
         ELSE /\ filled' = filled /\ hasBuffer' = TRUE
              /\ emptyBuffers' = IF hasBuffer THEN emptyBuffers ELSE emptyBuffers - 1
      /\ file' = file /\ eof' = eof /\ parsing' = parsing /\ parsed' = parsed
  BY DEF RW!Read, RW!TakeBuffer, RW!fileVars
<1>2. ~eof
  BY DEF ReplayInv, EofEnds, Ending, RW!Read, RW!GotBuffer
<1>t. ReplayTypes
  BY DEF ReplayInv, ReplayData
<1>f. Framed(file) /\ file \in Seq(FrameWords) /\ Len(file) \in Nat /\ pos \in Nat /\ pos <= Len(file)
  <2>1. Framed(file) /\ pos \in Nat /\ pos <= Len(file)
    BY <1>t DEF ReplayTypes
  <2>2. file \in Seq(FrameWords) /\ Len(file) \in Nat
    BY <2>1 DEF Framed
  <2> QED BY <2>1, <2>2
<1>3. PICK c1, c2, c3 \in Nat : Placed(c1, c2, c3)
  BY DEF ReplayInv, ReplayData
<1>4. r \in Int /\ m <= Len(file)
  BY <1>2, <1>3, <1>t, ReadGives DEF Placed
<1>5. data = Piece(file, c3, pos) \o Piece(file, pos, m)
  BY <1>2, <1>3 DEF Placed, Piece
<1>m. m = pos + r
  OBVIOUS
<1> HIDE DEF r, m, data
<1>6. m \in Nat /\ pos <= m /\ c3 <= pos /\ c3 <= m
  BY <1>1, <1>3, <1>4, <1>f, <1>m DEF Placed
<1>7. data = Piece(file, c3, m)
  <2>1. Piece(file, c3, pos) \o Piece(file, pos, m) = Piece(file, c3, m)
    BY <1>4, <1>6, <1>f, PiecesJoin
  <2> QED BY <2>1, <1>5
<1>8. PICK c \in c3..m : RW!fixup_buffer(data) = m - c /\ Ends(file, c) /\ Cut(file, c, m)
  <2>1. \E c \in c3..m : /\ RW!fixup_buffer(Piece(file, c3, m)) = m - c
                         /\ Ends(file, c) /\ Cut(file, c, m)
    BY <1>3, <1>4, <1>6, <1>f, FixupCuts DEF Placed
  <2> QED BY <2>1, <1>7
<1>9. data \in Seq(FrameWords) /\ Len(data) = m - c3
  <2>1. file \in Seq(FrameWords) /\ c3 \in Nat /\ m \in Nat /\ c3 <= m /\ m <= Len(file)
    BY <1>4, <1>6, <1>f
  <2>2. Piece(file, c3, m) \in Seq(FrameWords) /\ Len(Piece(file, c3, m)) = m - c3
    BY <2>1, PieceIs
  <2> QED BY <2>2, <1>7
<1>u. /\ file' = file /\ pos' = m /\ eof' = eof /\ parsing' = parsing /\ parsed' = parsed
  BY <1>1
<1>v. /\ emptyBuffers \in Int /\ Len(filled) \in Nat /\ InHand \in Nat /\ AtParser \in Nat
      /\ eof \in BOOLEAN /\ filled \in Seq(Seq(FrameWords))
      /\ parsed \in Seq(Seq(FrameWords)) /\ parsing \in Seq(FrameWords)
  BY <1>t, BufferNumbers DEF ReplayTypes
<1>w. ReplayData
  BY DEF ReplayInv
<1>10. c \in Nat /\ c3 <= c /\ c <= m /\ c <= Len(file)
  BY <1>4, <1>6, <1>8, <1>f
<1>11. kept = c - c3
  BY <1>6, <1>8, <1>9, <1>10
<1> HIDE DEF kept
<1>12. previousData' = Piece(file, c, m)
  <2>1. /\ kept \in Nat /\ m - c3 \in Nat /\ kept <= m - c3 /\ m - c3 <= m - c3
        /\ c3 + kept = c /\ c3 + (m - c3) = m
    BY <1>6, <1>10, <1>11
  <2>2. previousData' = Piece(data, kept, m - c3)
    BY <1>1, <1>9 DEF Piece
  <2>3. Piece(Piece(file, c3, m), kept, m - c3) = Piece(file, c3 + kept, c3 + (m - c3))
    BY <2>1, <1>4, <1>6, <1>f, PieceOfPiece
  <2> QED BY <2>1, <2>2, <2>3, <1>7
<1>13. SubSeq(data, 1, kept) = Piece(file, c3, c)
  <2>1. /\ 0 \in Nat /\ kept \in Nat /\ 0 <= kept /\ kept <= m - c3
        /\ c3 + kept = c /\ c3 + 0 = c3 /\ 0 + 1 = 1
    BY <1>6, <1>10, <1>11
  <2>2. SubSeq(data, 1, kept) = Piece(data, 0, kept)
    BY <2>1 DEF Piece
  <2>3. Piece(Piece(file, c3, m), 0, kept) = Piece(file, c3 + 0, c3 + kept)
    BY <2>1, <1>4, <1>6, <1>f, PieceOfPiece
  <2> QED BY <2>1, <2>2, <2>3, <1>7
<1>14. Piece(file, c, m) \in Seq(FrameWords) /\ Piece(file, c3, c) \in Seq(FrameWords)
  BY <1>4, <1>6, <1>10, <1>f, PieceIs
<1>15. CASE kept > 0
  <2>1. /\ filled' = Append(filled, Piece(file, c3, c)) /\ hasBuffer' = FALSE
        /\ emptyBuffers' = IF hasBuffer THEN emptyBuffers ELSE emptyBuffers - 1
    BY <1>1, <1>13, <1>15
  <2>2. filled' \in Seq(Seq(FrameWords)) /\ Len(filled') = Len(filled) + 1 /\ Len(filled) \in Nat
    BY <2>1, <1>14, <1>t DEF ReplayTypes
  <2>e. emptyBuffers' \in Int /\ hasBuffer' \in BOOLEAN /\ emptyBuffers' + 1 = emptyBuffers + InHand
    BY <2>1, <1>t, BufferTaken
  <2>3. ReplayTypes'
    BY <2>e, <2>2, <1>u, <1>v, <1>4, <1>6, <1>12, <1>14, <1>f DEF ReplayTypes
  <2>4. RW!SnoopBuffersConserved'
    <3>1. InHand' = 0 /\ AtParser' = AtParser
      BY <2>1, <1>u DEF InHand, AtParser
    <3> QED BY <3>1, <2>1, <2>2, <1>w, BufferMoved
  <2>5. <<c3, Piece(file, c3, c), c>> \in FramePieces(file)
    <3>1. c3 < c
      BY <1>10, <1>11, <1>15
    <3> QED BY <3>1, <1>3, <1>8, <1>10, <1>14, FramePieceIn DEF Placed
  <2>6. Chain(FramePieces(file), filled', c2, c)
    BY <2>1, <2>5, <1>3, <1>14, <1>t, ChainAppend DEF Placed, ReplayTypes
  <2>7. c1 <= c2 /\ c2 <= c
    BY <1>3, <1>10 DEF Placed
  <2>8. Placed(c1, c2, c)'
    BY <2>6, <2>7, <1>u, <1>2, <1>3, <1>8, <1>10, <1>12 DEF Placed
  <2> QED BY <2>3, <2>4, <2>8, <1>10 DEF ReplayData
<1>16. CASE ~(kept > 0)
  <2>1. /\ filled' = filled /\ hasBuffer' = TRUE
        /\ emptyBuffers' = IF hasBuffer THEN emptyBuffers ELSE emptyBuffers - 1
    BY <1>1, <1>16
  <2>e. emptyBuffers' \in Int /\ hasBuffer' \in BOOLEAN /\ emptyBuffers' + 1 = emptyBuffers + InHand
    BY <2>1, <1>t, BufferTaken
  <2>2. ReplayTypes'
    BY <2>1, <2>e, <1>u, <1>v, <1>4, <1>6, <1>12, <1>14, <1>f DEF ReplayTypes
  <2>3. filled' = filled
    BY <2>1
  <2>4. RW!SnoopBuffersConserved'
    <3>1. InHand' = 1 /\ AtParser' = AtParser
      BY <2>1, <1>u DEF InHand, AtParser
    <3> QED BY <3>1, <2>1, <2>3, <1>w, BufferMoved
  <2>5. c = c3
    BY <1>10, <1>11, <1>16
  <2>6. Placed(c1, c2, c)'
    BY <2>1, <2>5, <1>u, <1>2, <1>3, <1>8, <1>10, <1>12 DEF Placed
  <2> QED BY <2>2, <2>4, <2>6, <1>10 DEF ReplayData
<1> QED BY <1>15, <1>16

\* Every step of a replay keeps the invariant.
LEMMA ReplayStep == ASSUME ReplayInv, RW!Next PROVE ReplayInv'
<1>1. EofEnds'
  BY EofEndsStep DEF ReplayInv
<1>2. ReplayData
  BY DEF ReplayInv
<1>3. CASE RW!Read  BY <1>1, <1>3, ReadBufferStep DEF ReplayInv
<1>4. CASE RW!EndOfFile  BY <1>1, <1>4, EndStep DEF ReplayInv
<1>5. CASE RW!maybePutBackSnoopBuffer  BY <1>1, <1>2, <1>5, PutBackStep DEF ReplayInv
<1>6. CASE RW!ParserDequeue  BY <1>1, <1>2, <1>6, DequeueStep DEF ReplayInv
<1>7. CASE RW!ParserDone  BY <1>1, <1>2, <1>7, DoneStep DEF ReplayInv
<1>8. CASE UNCHANGED dataParts  BY <1>1, <1>2, <1>8, DataUnchanged DEF ReplayInv
<1> QED BY <1>3, <1>4, <1>5, <1>6, <1>7, <1>8, QuietSteps DEF RW!Parser

\* The invariant is about the variables of the replay.
LEMMA ReplayStays == ASSUME ReplayInv, UNCHANGED replayVars PROVE ReplayInv'
<1>1. ReplayData'
  BY DataUnchanged DEF ReplayInv, replayVars, dataParts, RW!fileVars, RW!dataVars, RW!queueVars
<1>2. EofEnds'
  BY DEF ReplayInv, replayVars, EofEnds, Ending
<1> QED BY <1>1, <1>2 DEF ReplayInv

\* It holds when a replay starts.
LEMMA ReplayStarts == ASSUME RW!Init PROVE ReplayInv
<1>1. PICK n \in Truncations : file = SubSeq(RW!Words, 1, Len(RW!Words) - n)
  BY DEF RW!Init
<1>2. Framed(RW!Words)
  BY WordsWhole DEF Whole
<1>3. Len(RW!Words) - n \in Nat /\ Len(RW!Words) - n <= Len(RW!Words)
  <2>1. Len(RW!Words) \in Nat
    BY <1>2 DEF Framed
  <2>2. n \in 0..Len(RW!Words)
    BY ReplayAssumption
  <2> QED BY <2>1, <2>2
<1>4. Framed(file)
  BY <1>1, <1>2, <1>3, PrefixFramed
<1>5. file \in Seq(FrameWords) /\ Len(file) \in Nat
  BY <1>4 DEF Framed
<1>6. /\ pos = 0 /\ previousData = <<>> /\ hasBuffer = FALSE /\ eof = FALSE
      /\ emptyBuffers = Buffers /\ filled = <<>> /\ parsing = <<>> /\ parsed = <<>> /\ wpc = "none"
  BY DEF RW!Init
<1>7. ReplayTypes
  <2>1. <<>> \in Seq(Seq(FrameWords)) /\ <<>> \in Seq(FrameWords)
    OBVIOUS
  <2>2. 0 \in Nat /\ 0 <= Len(file) /\ Buffers \in Int
    BY <1>5, ReplayAssumption
  <2> QED BY <2>1, <2>2, <1>4, <1>6 DEF ReplayTypes
<1>8. RW!SnoopBuffersConserved
  BY <1>6, ReplayAssumption DEF RW!SnoopBuffersConserved
<1>9. Placed(0, 0, 0)
  <2>1. Piece(file, 0, 0) = <<>>
    BY <1>5, PieceEmpty
  <2>2. Chain(FramePieces(file), <<>>, 0, 0)
    BY ChainEmpty
  <2> QED BY <2>1, <2>2, <1>6 DEF Placed, Ends, Cut
<1>10. ReplayData
  BY <1>7, <1>8, <1>9 DEF ReplayData
<1> QED BY <1>6, <1>10 DEF ReplayInv, EofEnds

\* It implies what the runs check.
LEMMA ReplayImplies == ASSUME ReplayInv PROVE ReplayFaithful
<1>t. ReplayTypes /\ RW!SnoopBuffersConserved
  BY DEF ReplayInv, ReplayData
<1>f. Framed(file) /\ file \in Seq(FrameWords) /\ Len(file) \in Nat /\ pos \in Nat /\ pos <= Len(file)
  <2>1. Framed(file) /\ pos \in Nat /\ pos <= Len(file)
    BY <1>t DEF ReplayTypes
  <2>2. file \in Seq(FrameWords) /\ Len(file) \in Nat
    BY <2>1 DEF Framed
  <2> QED BY <2>1, <2>2
<1>1. PICK c1, c2, c3 \in Nat : Placed(c1, c2, c3)
  BY DEF ReplayInv, ReplayData
<1>2. /\ c1 <= c2 /\ c2 <= c3 /\ c3 <= Len(file) /\ c1 <= Len(file)
      /\ c2 <= Len(file) /\ 0 <= c1 /\ c1 <= c3 /\ 0 <= Len(file)
  BY <1>1, <1>f DEF Placed
<1>3. RW!FlattenSeq(parsed) = Piece(file, 0, c1) /\ \A i \in 1..Len(parsed) : WholeBuffer(parsed[i])
  BY <1>1, <1>2, <1>f, <1>t, ChainFlat DEF Placed, ReplayTypes
<1>4. RW!FlattenSeq(filled) = Piece(file, c2, c3) /\ \A i \in 1..Len(filled) : WholeBuffer(filled[i])
  BY <1>1, <1>2, <1>f, <1>t, ChainFlat DEF Placed, ReplayTypes
<1>5. RW!Passed = Piece(file, 0, c3)
  <2>1. RW!Passed = (Piece(file, 0, c1) \o Piece(file, c1, c2)) \o Piece(file, c2, c3)
    BY <1>1, <1>3, <1>4 DEF RW!Passed, Placed
  <2>2. Piece(file, 0, c1) \o Piece(file, c1, c2) = Piece(file, 0, c2)
    BY <1>2, <1>f, PiecesJoin
  <2>3. 0 <= c2
    BY <1>2
  <2>4. Piece(file, 0, c2) \o Piece(file, c2, c3) = Piece(file, 0, c3)
    BY <2>3, <1>2, <1>f, PiecesJoin
  <2> QED BY <2>1, <2>2, <2>4
<1>6. RW!Passed \in Seq(FrameWords) /\ Len(RW!Passed) = c3
  <2>1. 0 \in Nat /\ 0 <= c3 /\ c3 - 0 = c3
    OBVIOUS
  <2>3. file \in Seq(FrameWords) /\ c3 \in Nat /\ c3 <= Len(file)
    BY <1>2, <1>f
  <2>2. Piece(file, 0, c3) \in Seq(FrameWords) /\ Len(Piece(file, 0, c3)) = c3 - 0
    BY <2>1, <2>3, PieceIs
  <2> QED BY <2>1, <2>2, <1>5
<1>7. RW!IsPrefix(RW!Passed, file)
  <2>1. SubSeq(RW!Passed, 1, c3) = RW!Passed
    BY <1>6
  <2>2. SubSeq(file, 1, c3) = RW!Passed
    BY <1>5 DEF Piece
  <2> QED BY <2>1, <2>2, <1>2, <1>6 DEF RW!IsPrefix
<1>8. parsing # <<>> => WholeBuffer(parsing)
  <2> SUFFICES ASSUME parsing # <<>> PROVE WholeBuffer(parsing)
    OBVIOUS
  <2>1. c1 # c2
    BY <1>1, <1>2, <1>f, PieceEmpty DEF Placed
  <2>2. c1 < c2
    BY <2>1, <1>2
  <2>3. WholeBuffer(Piece(file, c1, c2))
    BY <2>2, <1>1, <1>2, <1>f, PieceWhole DEF Placed
  <2> QED BY <2>3, <1>1 DEF Placed
<1>9. ASSUME NEW b \in RW!ToSet(parsed) \cup RW!ToSet(filled) \cup ({parsing} \ {<<>>}) PROVE WholeBuffer(b)
  <2>1. DOMAIN parsed = 1..Len(parsed) /\ DOMAIN filled = 1..Len(filled)
    BY <1>t DEF ReplayTypes
  <2>2. CASE b \in RW!ToSet(parsed)
    BY <2>1, <2>2, <1>3 DEF RW!ToSet
  <2>3. CASE b \in RW!ToSet(filled)
    BY <2>1, <2>3, <1>4 DEF RW!ToSet
  <2>4. CASE b \in {parsing} \ {<<>>}
    BY <2>4, <1>8
  <2> QED BY <2>2, <2>3, <2>4
<1>10. RW!WholeFramesInOrder
  BY <1>7, <1>9 DEF RW!WholeFramesInOrder, WholeBuffer
<1>11. RW!ReplayComplete
  <2> SUFFICES ASSUME eof, NEW i \in DOMAIN file,
                      i + FrameSizes[file[i][1]] - file[i][2] <= Len(file), ~(i <= c3)
               PROVE  FALSE
    BY <1>6 DEF RW!ReplayComplete
  <2> DEFINE l == Len(file)
             z == Size(file[c3 + 1])
             j == i - c3
  <2>1. i \in 1..l /\ i > c3 /\ c3 < l /\ c3 + 1 \in 1..Len(file)
    BY <1>2, <1>f
  <2>2. file[c3 + 1] \in FrameWords
    BY <2>1, <1>f
  <2>3. z \in Nat
    BY <2>2, SizeType
  <2>4. c3 + z > l
    BY <2>1, <1>1 DEF Placed, Cut
  <2>5. j \in Nat /\ 1 <= j /\ j <= z /\ c3 + j <= Len(file) /\ c3 + j = i
    <3> HIDE DEF z
    <3> QED BY <2>1, <2>3, <2>4, <1>f
  <2>6. \A k \in Nat : 1 <= k /\ k <= Size(file[c3 + 1]) /\ c3 + k <= Len(file)
                        => file[c3 + k][1] = file[c3 + 1][1] /\ file[c3 + k][2] = k
    BY <2>1, <1>1, <1>f, InFrame DEF Placed
  <2> HIDE DEF j
  <2>7. file[i][1] = file[c3 + 1][1] /\ file[i][2] = j
    BY <2>5, <2>6
  <2>8. FrameSizes[file[i][1]] = z
    BY <2>7 DEF Size
  <2>9. i + z - j <= l
    BY <2>7, <2>8
  <2>10. l \in Nat
    BY <1>f
  <2> HIDE DEF z, l
  <2> QED BY <2>1, <2>3, <2>4, <2>5, <2>9, <2>10
<1> QED BY <1>10, <1>11, <1>t DEF ReplayFaithful

\* A replay hands on whole frames in the order of the listfile, all of them when it
\* ends by itself, and no snoop buffer is lost (ReplayWorker::Private::loop,
\* fixup_buffer), whatever the frames, the buffers and the place the file is cut off.
THEOREM ReplayTheorem == ListfileSpec => []ReplayFaithful
<1>1. ListfileInit => ReplayInv
  BY ReplayStarts DEF ListfileInit
<1>2. ReplayInv /\ [ListfileNext]_listfileVars => ReplayInv'
  <2> SUFFICES ASSUME ReplayInv, [ListfileNext]_listfileVars PROVE ReplayInv'
    OBVIOUS
  <2>1. RW!Next \/ UNCHANGED replayVars
    BY DEF ListfileNext, listfileVars
  <2> QED BY <2>1, ReplayStep, ReplayStays
<1>3. ReplayInv => ReplayFaithful
  BY ReplayImplies
<1> QED BY <1>1, <1>2, <1>3, PTL DEF ListfileSpec
=============================================================================
