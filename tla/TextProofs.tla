----------------------------- MODULE TextProofs -----------------------------
(***************************************************************************)
(* What the operators of Text return: the rolling buffers stay sequences   *)
(* of texts within their caps, and nothing is found in an empty text.      *)
(***************************************************************************)
EXTENDS Text, TLAPS, SequenceTheorems, FiniteSetTheorems

(* A non-empty set of naturals has a least element: the index at which     *)
(* the code's shedding loops stop.                                         *)
LEMMA LeastNat ==
  ASSUME NEW S, S \subseteq Nat, S # {}
  PROVE  \E n \in S : \A m \in S : ~(m < n)
<1>1. IsWellFoundedOn(OpToRel(<, Nat), Nat)  BY NatLessThanWellFounded
<1>2. \E x \in S : \A y \in S : ~ (<<y, x>> \in OpToRel(<, Nat))
  BY <1>1, WFMin
<1>3. \A x, y \in Nat : y < x => <<y, x>> \in OpToRel(<, Nat)
  BY DEF OpToRel
<1>. QED  BY <1>2, <1>3

(* DropHead keeps a suffix.                                                *)
LEMMA DropHeadSuffix ==
  ASSUME NEW S, NEW q \in Seq(S), NEW k \in 0..Len(q)
  PROVE  /\ DropHead(q, k) \in Seq(S)
         /\ Len(DropHead(q, k)) = Len(q) - k
         /\ \A i \in 1..(Len(q) - k) : DropHead(q, k)[i] = q[i + k]
<1>1. \A i \in (k + 1)..Len(q) : q[i] \in S  BY ElementOfSeq
<1>. QED  BY <1>1, SubSeqProperties DEF DropHead

(* A suffix of the same length is the whole.                               *)
LEMMA DropNothing ==
  ASSUME NEW S, NEW q \in Seq(S)
  PROVE  DropHead(q, 0) = q
BY SubSeqFull DEF DropHead

(* Nothing is left when every chunk is dropped.                            *)
LEMMA DropEverything ==
  ASSUME NEW S, NEW q \in Seq(S)
  PROVE  /\ DropHead(q, Len(q)) = <<>>
         /\ Bytes(DropHead(q, Len(q))) = 0
<1>1. DropHead(q, Len(q)) = <<>>  BY SubSeqEmpty, LenProperties DEF DropHead
<1>. QED  BY <1>1, EmptySeq DEF Bytes, FlattenSeq

(* No value occurs in an empty text.                                       *)
LEMMA NothingInEmptyText ==
  ASSUME NEW S, NEW v \in Seq(S)
  PROVE  ~HasText(<<>>, v)
<1>1. CASE v = <<>>  BY <1>1 DEF HasText
<1>2. CASE v # <<>>
  <2>1. Len(v) \in Nat \ {0}  BY <1>2, EmptySeq
  <2>2. Len(<<>>) = 0  BY EmptySeq
  <2>. QED  BY <2>1, <2>2 DEF HasText
<1>. QED  BY <1>1, <1>2

(* The join of no chunks is the empty text.                                *)
LEMMA JoinNothing == Join(<<>>) = <<>>
BY EmptySeq DEF Join, FlattenSeq

(* A trailing window is a text over the same atoms.                        *)
LEMMA TrailingWindowIsText ==
  ASSUME NEW S, NEW c \in Seq(S), NEW n \in Nat
  PROVE  TrailingWindow(c, n) \in Seq(S)
<1>1. CASE Len(c) > n
  <2>1. \A i \in (Len(c) - n + 1)..Len(c) : c[i] \in S
    BY <1>1, ElementOfSeq, LenProperties
  <2>. QED  BY <1>1, <2>1, SubSeqProperties, LenProperties DEF TrailingWindow
<1>2. CASE ~(Len(c) > n)  BY <1>2 DEF TrailingWindow
<1>. QED  BY <1>1, <1>2

(* A buffer with a chunk appended, before anything is dropped, and whether *)
(* the caps hold once k chunks are.                                        *)
Pushed(q, c, maxBytes) == Append(q, TrailingWindow(c, maxBytes))
Fits(all, k, maxChunks, maxBytes) ==
  Len(all) - k <= maxChunks /\ Bytes(DropHead(all, k)) <= maxBytes

(* What pushing a chunk does: as little as possible is dropped from the    *)
(* head for the caps to hold.                                              *)
LEMMA PushChunkDrops ==
  ASSUME NEW S, NEW q \in Seq(Seq(S)), NEW c \in Seq(S),
         NEW maxChunks \in Nat, NEW maxBytes \in Nat
  PROVE  /\ Pushed(q, c, maxBytes) \in Seq(Seq(S))
         /\ \E d \in 0..Len(Pushed(q, c, maxBytes)) :
              /\ PushChunk(q, c, maxChunks, maxBytes) = DropHead(Pushed(q, c, maxBytes), d)
              /\ Fits(Pushed(q, c, maxBytes), d, maxChunks, maxBytes)
              /\ \A j \in 0..Len(Pushed(q, c, maxBytes)) :
                   j < d => ~Fits(Pushed(q, c, maxBytes), j, maxChunks, maxBytes)
<1> DEFINE all == Append(q, TrailingWindow(c, maxBytes))
<1>1. all \in Seq(Seq(S)) /\ Len(all) \in Nat
  <2>1. TrailingWindow(c, maxBytes) \in Seq(S)  BY TrailingWindowIsText
  <2>. QED  BY <2>1, AppendProperties, LenProperties
<1> HIDE DEF all
<1> DEFINE fits(k) == /\ Len(all) - k <= maxChunks
                      /\ Bytes(DropHead(all, k)) <= maxBytes
           F       == {k \in 0..Len(all) : fits(k)}
           P(k)    == fits(k) /\ \A j \in 0..Len(all) : j < k => ~fits(j)
<1>2. Len(all) \in F
  <2>1. Bytes(DropHead(all, Len(all))) = 0  BY <1>1, DropEverything
  <2>. QED  BY <1>1, <2>1
<1>3. F \subseteq Nat /\ F # {}
  <2>1. F \subseteq Nat  BY <1>1
  <2> HIDE DEF F
  <2>. QED  BY <1>2, <2>1
<1>4. PICK n \in F : \A m \in F : ~(m < n)  BY <1>3, LeastNat
<1>5. \E k \in 0..Len(all) : P(k)  BY <1>4
<1> DEFINE drop == CHOOSE k \in 0..Len(all) : P(k)
<1>6. drop \in 0..Len(all) /\ P(drop)  BY <1>5
<1>7. PushChunk(q, c, maxChunks, maxBytes) = DropHead(all, drop)
  BY DEF PushChunk, all
<1> HIDE DEF drop
<1>8. all = Pushed(q, c, maxBytes)  BY DEF all, Pushed
<1>9. \A k \in 0..Len(all) : fits(k) <=> Fits(all, k, maxChunks, maxBytes)  BY DEF Fits
<1> HIDE DEF fits
<1>. QED  BY <1>1, <1>6, <1>7, <1>8, <1>9

(* The rolling buffer holds texts, at most maxChunks of them, whatever was *)
(* pushed (appendFragment, appendFlow).                                    *)
LEMMA PushChunkBounded ==
  ASSUME NEW S, NEW q \in Seq(Seq(S)), NEW c \in Seq(S),
         NEW maxChunks \in Nat, NEW maxBytes \in Nat
  PROVE  /\ PushChunk(q, c, maxChunks, maxBytes) \in Seq(Seq(S))
         /\ Len(PushChunk(q, c, maxChunks, maxBytes)) <= maxChunks
         /\ Bytes(PushChunk(q, c, maxChunks, maxBytes)) <= maxBytes
<1> DEFINE all == Pushed(q, c, maxBytes)
<1>1. PICK d \in 0..Len(all) :
        /\ all \in Seq(Seq(S)) /\ PushChunk(q, c, maxChunks, maxBytes) = DropHead(all, d)
        /\ Len(all) - d <= maxChunks /\ Bytes(DropHead(all, d)) <= maxBytes
  BY PushChunkDrops DEF Fits
<1> HIDE DEF all
<1>. QED  BY <1>1, DropHeadSuffix

(* What is dropped in two goes, and what is dropped before appending.      *)
LEMMA DropTwice ==
  ASSUME NEW S, NEW q \in Seq(S), NEW d \in 0..Len(q), NEW k \in 0..(Len(q) - d)
  PROVE  DropHead(DropHead(q, d), k) = DropHead(q, d + k)
<1> DEFINE r == DropHead(q, d)
           a == DropHead(r, k)
           b == DropHead(q, d + k)
<1>0. Len(q) \in Nat /\ d \in Nat /\ k \in Nat /\ d + k \in 0..Len(q)  BY LenProperties
<1>1. /\ r \in Seq(S) /\ Len(r) = Len(q) - d
      /\ \A i \in 1..(Len(q) - d) : r[i] = q[i + d]
  BY DropHeadSuffix
<1> HIDE DEF r
<1>2. /\ a \in Seq(S) /\ Len(a) = Len(q) - d - k
      /\ \A i \in 1..(Len(q) - d - k) : a[i] = r[i + k]
  <2>1. k \in 0..Len(r)  BY <1>1
  <2>2. /\ a \in Seq(S) /\ Len(a) = Len(r) - k
        /\ \A i \in 1..(Len(r) - k) : a[i] = r[i + k]
    BY <1>1, <2>1, DropHeadSuffix
  <2> HIDE DEF a
  <2>. QED  BY <1>1, <2>2
<1>3. /\ b \in Seq(S) /\ Len(b) = Len(q) - (d + k)
      /\ \A i \in 1..(Len(q) - (d + k)) : b[i] = q[i + (d + k)]
  BY <1>0, DropHeadSuffix
<1> HIDE DEF a, b
<1>4. \A i \in 1..Len(a) : a[i] = b[i]
  <2> SUFFICES ASSUME NEW i \in 1..Len(a) PROVE a[i] = b[i]  OBVIOUS
  <2>1. /\ i \in 1..(Len(q) - d - k) /\ i \in 1..(Len(q) - (d + k))
        /\ i + k \in 1..(Len(q) - d) /\ (i + k) + d = i + (d + k)
    BY <1>0, <1>2
  <2>2. a[i] = r[i + k] /\ r[i + k] = q[(i + k) + d]  BY <1>1, <1>2, <2>1
  <2>3. b[i] = q[i + (d + k)]  BY <1>3, <2>1
  <2>. QED  BY <2>1, <2>2, <2>3
<1>5. Len(a) = Len(b)  BY <1>0, <1>2, <1>3
<1>6. a = b  BY <1>2, <1>3, <1>4, <1>5, SeqEqual
<1>. QED  BY <1>6 DEF a, b, r

LEMMA DropAppend ==
  ASSUME NEW S, NEW q \in Seq(S), NEW x \in S, NEW k \in 0..Len(q)
  PROVE  DropHead(Append(q, x), k) = Append(DropHead(q, k), x)
<1> DEFINE p == Append(q, x)
           r == DropHead(q, k)
           a == DropHead(p, k)
           b == Append(r, x)
<1>0. Len(q) \in Nat /\ k \in Nat  BY LenProperties
<1>1. /\ p \in Seq(S) /\ Len(p) = Len(q) + 1 /\ p[Len(q) + 1] = x
      /\ \A i \in 1..Len(q) : p[i] = q[i]
  BY AppendProperties
<1>2. /\ r \in Seq(S) /\ Len(r) = Len(q) - k
      /\ \A i \in 1..(Len(q) - k) : r[i] = q[i + k]
  BY DropHeadSuffix
<1> HIDE DEF p, r
<1>3. /\ a \in Seq(S) /\ Len(a) = Len(q) + 1 - k
      /\ \A i \in 1..(Len(q) + 1 - k) : a[i] = p[i + k]
  <2>1. k \in 0..Len(p)  BY <1>0, <1>1
  <2>2. /\ a \in Seq(S) /\ Len(a) = Len(p) - k
        /\ \A i \in 1..(Len(p) - k) : a[i] = p[i + k]
    BY <1>1, <2>1, DropHeadSuffix
  <2> HIDE DEF a
  <2>. QED  BY <1>1, <2>2
<1>4. /\ b \in Seq(S) /\ Len(b) = Len(q) - k + 1 /\ b[Len(q) - k + 1] = x
      /\ \A i \in 1..(Len(q) - k) : b[i] = r[i]
  BY <1>2, AppendProperties
<1> HIDE DEF a, b
<1>5. \A i \in 1..Len(a) : a[i] = b[i]
  <2> SUFFICES ASSUME NEW i \in 1..Len(a) PROVE a[i] = b[i]  OBVIOUS
  <2>1. CASE i = Len(q) - k + 1
    <3>1. i + k = Len(q) + 1 /\ i \in 1..(Len(q) + 1 - k)  BY <1>0, <1>3, <2>1
    <3>. QED  BY <1>1, <1>3, <1>4, <2>1, <3>1
  <2>2. CASE i # Len(q) - k + 1
    <3>1. i \in 1..(Len(q) + 1 - k)  BY <1>3
    <3>2. i \in 1..(Len(q) - k) /\ i + k \in 1..Len(q)  BY <1>0, <2>2, <3>1
    <3>. QED  BY <1>1, <1>2, <1>3, <1>4, <3>1, <3>2
  <2>. QED  BY <2>1, <2>2
<1>6. Len(a) = Len(b)  BY <1>0, <1>3, <1>4
<1>7. a = b  BY <1>3, <1>4, <1>5, <1>6, SeqEqual
<1>. QED  BY <1>7 DEF a, b, p, r

Distinct(q) == \A i, j \in DOMAIN q : i # j => q[i] # q[j]

(* Appending a list of other values keeps a list free of repetitions.      *)
LEMMA ConcatDistinct ==
  ASSUME NEW S, NEW a \in Seq(S), NEW b \in Seq(S),
         Distinct(a), Distinct(b), ToSet(a) \cap ToSet(b) = {}
  PROVE  /\ a \o b \in Seq(S) /\ Len(a \o b) = Len(a) + Len(b)
         /\ ToSet(a \o b) = ToSet(a) \cup ToSet(b)
         /\ Distinct(a \o b)
<1> DEFINE q == a \o b
<1>1. /\ q \in Seq(S) /\ Len(q) = Len(a) + Len(b)
      /\ \A i \in 1..(Len(a) + Len(b)) :
           q[i] = IF i <= Len(a) THEN a[i] ELSE b[i - Len(a)]
  BY ConcatProperties
<1>2. /\ Len(a) \in Nat /\ DOMAIN a = 1..Len(a)
      /\ Len(b) \in Nat /\ DOMAIN b = 1..Len(b)
      /\ DOMAIN q = 1..(Len(a) + Len(b))
  BY <1>1, LenProperties
<1> HIDE DEF q
<1>3. ToSet(q) = ToSet(a) \cup ToSet(b)
  <2>1. \A i \in 1..Len(a) : i \in DOMAIN q /\ q[i] = a[i]  BY <1>1, <1>2
  <2>2. \A i \in 1..Len(b) : i + Len(a) \in DOMAIN q /\ q[i + Len(a)] = b[i]
    BY <1>1, <1>2
  <2>3. \A i \in DOMAIN q :
          \/ i \in DOMAIN a /\ q[i] = a[i]
          \/ i - Len(a) \in DOMAIN b /\ q[i] = b[i - Len(a)]
    BY <1>1, <1>2
  <2>. QED  BY <1>2, <2>1, <2>2, <2>3 DEF ToSet
<1>4. Distinct(q)
  <2> SUFFICES ASSUME NEW i \in DOMAIN q, NEW j \in DOMAIN q, i < j
               PROVE  q[i] # q[j]
    BY <1>2 DEF Distinct
  <2>1. CASE j <= Len(a)  BY <1>1, <1>2, <2>1 DEF Distinct
  <2>2. CASE i > Len(a)
    <3>1. /\ q[i] = b[i - Len(a)] /\ i - Len(a) \in DOMAIN b
          /\ q[j] = b[j - Len(a)] /\ j - Len(a) \in DOMAIN b
          /\ i - Len(a) # j - Len(a)
      BY <1>1, <1>2, <2>2
    <3>. QED  BY <3>1 DEF Distinct
  <2>3. CASE i <= Len(a) /\ j > Len(a)
    <3>1. q[i] = a[i] /\ i \in DOMAIN a  BY <1>1, <1>2, <2>3
    <3>2. q[j] = b[j - Len(a)] /\ j - Len(a) \in DOMAIN b  BY <1>1, <1>2, <2>3
    <3>. QED  BY <3>1, <3>2 DEF ToSet
  <2>. QED  BY <1>2, <2>1, <2>2, <2>3
<1>. QED  BY <1>1, <1>3, <1>4 DEF q

(* A suffix of a list free of repetitions is free of them and brings       *)
(* nothing new.                                                            *)
LEMMA DropHeadDistinct ==
  ASSUME NEW S, NEW q \in Seq(S), NEW k \in 0..Len(q), Distinct(q)
  PROVE  Distinct(DropHead(q, k)) /\ ToSet(DropHead(q, k)) \subseteq ToSet(q)
<1> DEFINE d == DropHead(q, k)
<1>1. /\ d \in Seq(S) /\ Len(d) = Len(q) - k
      /\ \A i \in 1..(Len(q) - k) : d[i] = q[i + k]
  BY DropHeadSuffix
<1>2. Len(q) \in Nat /\ DOMAIN q = 1..Len(q) /\ DOMAIN d = 1..(Len(q) - k)
  BY <1>1, LenProperties
<1> HIDE DEF d
<1>3. \A i \in DOMAIN d : i + k \in DOMAIN q /\ d[i] = q[i + k]  BY <1>1, <1>2
<1>4. Distinct(d)  BY <1>2, <1>3 DEF Distinct
<1>5. ToSet(d) \subseteq ToSet(q)  BY <1>3 DEF ToSet
<1>. QED  BY <1>4, <1>5 DEF d
-----------------------------------------------------------------------------
(* The join of chunks, one chunk after the other: Flattens(f, c, n) says   *)
(* that f holds the join of the first i chunks at i, up to n.              *)
Flattens(f, c, n) ==
  f = [i \in 1..n |-> IF i = 1 THEN c[i] ELSE f[i - 1] \o c[i]]

LEMMA FlattensExists ==
  ASSUME NEW c, NEW n \in Nat
  PROVE  \E f : Flattens(f, c, n)
<1> DEFINE Bad == {m \in Nat : ~ \E f : Flattens(f, c, m)}
<1> SUFFICES ASSUME Bad # {} PROVE FALSE  OBVIOUS
<1>1. PICK m \in Bad : \A k \in Bad : ~(k < m)
  <2>1. Bad \subseteq Nat  OBVIOUS
  <2> HIDE DEF Bad
  <2>. QED  BY <2>1, LeastNat
<1>2. m \in Nat /\ ~ \E f : Flattens(f, c, m)  OBVIOUS
<1>3. CASE m = 0
  <2>1. 1..0 = {}  OBVIOUS
  <2> DEFINE f == [i \in 1..0 |-> c[i]]
  <2>2. Flattens(f, c, 0)  BY <2>1 DEF Flattens
  <2>. QED  BY <1>2, <1>3, <2>2
<1>4. CASE m # 0
  <2>1. m - 1 \in Nat /\ m - 1 < m  BY <1>2, <1>4
  <2>2. m - 1 \notin Bad
    <3> HIDE DEF Bad
    <3>. QED  BY <1>1, <2>1
  <2>3. PICK f : Flattens(f, c, m - 1)  BY <2>1, <2>2
  <2> DEFINE g == [i \in 1..m |-> IF i = m THEN (IF m = 1 THEN c[m] ELSE f[m - 1] \o c[m]) ELSE f[i]]
  <2>4. Flattens(g, c, m)
    <3>0. DOMAIN f = 1..(m - 1)  BY <2>3 DEF Flattens
    <3>1. \A i \in 1..(m - 1) : f[i] = IF i = 1 THEN c[i] ELSE f[i - 1] \o c[i]
      BY <2>3 DEF Flattens
    <3>2. \A i \in 1..m : g[i] = IF i = 1 THEN c[i] ELSE g[i - 1] \o c[i]
      <4> SUFFICES ASSUME NEW i \in 1..m
                   PROVE  g[i] = IF i = 1 THEN c[i] ELSE g[i - 1] \o c[i]
        OBVIOUS
      <4>1. CASE i = m /\ m = 1  BY <4>1
      <4>2. CASE i = m /\ m # 1
        <5>1. m - 1 \in 1..m /\ m - 1 # m  BY <1>2, <1>4, <4>2
        <5>. QED  BY <4>2, <5>1
      <4>3. CASE i # m
        <5>1. i \in 1..(m - 1) /\ (i # 1 => i - 1 \in 1..m /\ i - 1 # m)  BY <1>2, <4>3
        <5>. QED  BY <3>1, <4>3, <5>1
      <4>. QED  BY <4>1, <4>2, <4>3
    <3>3. g = [i \in 1..m |-> g[i]]  OBVIOUS
    <3> HIDE DEF g
    <3>4. g = [i \in 1..m |-> IF i = 1 THEN c[i] ELSE g[i - 1] \o c[i]]  BY <3>2, <3>3
    <3>. QED  BY <3>4 DEF Flattens
  <2>. QED  BY <1>2, <2>4
<1>. QED  BY <1>3, <1>4

(* It holds texts if the chunks are.                                       *)
LEMMA FlattensTexts ==
  ASSUME NEW S, NEW c \in Seq(Seq(S)), NEW f, Flattens(f, c, Len(c))
  PROVE  \A i \in 1..Len(c) : f[i] \in Seq(S)
<1> DEFINE Bad == {i \in Nat : i \in 1..Len(c) /\ f[i] \notin Seq(S)}
<1> SUFFICES ASSUME Bad # {} PROVE FALSE  BY LenProperties
<1>1. PICK i \in Bad : \A j \in Bad : ~(j < i)
  <2>1. Bad \subseteq Nat  OBVIOUS
  <2> HIDE DEF Bad
  <2>. QED  BY <2>1, LeastNat
<1>2. i \in 1..Len(c) /\ f[i] \notin Seq(S) /\ Len(c) \in Nat  BY LenProperties
<1>3. /\ f[i] = IF i = 1 THEN c[i] ELSE f[i - 1] \o c[i]
      /\ c[i] \in Seq(S)
  BY <1>2, ElementOfSeq DEF Flattens
<1>4. CASE i = 1  BY <1>2, <1>3, <1>4
<1>5. CASE i # 1
  <2>1. i - 1 \in 1..Len(c) /\ i - 1 < i /\ i - 1 \in Nat  BY <1>2, <1>5
  <2>2. i - 1 \notin Bad
    <3> HIDE DEF Bad
    <3>. QED  BY <1>1, <2>1
  <2>3. f[i - 1] \in Seq(S)  BY <2>1, <2>2
  <2>4. f[i - 1] \o c[i] \in Seq(S)  BY <1>3, <2>3, ConcatProperties
  <2>. QED  BY <1>2, <1>3, <1>5, <2>4
<1>. QED  BY <1>4, <1>5

(* What Join computes.                                                     *)
LEMMA JoinFlattens ==
  ASSUME NEW S, NEW c \in Seq(Seq(S)), c # <<>>
  PROVE  \E f : Flattens(f, c, Len(c)) /\ Join(c) = f[Len(c)] /\ Join(c) \in Seq(S)
<1>1. Len(c) \in Nat \ {0}  BY EmptySeq, LenProperties
<1> DEFINE f == CHOOSE f : f = [i \in 1..Len(c) |-> IF i = 1 THEN c[i] ELSE f[i - 1] \o c[i]]
<1>2. Flattens(f, c, Len(c))
  <2>1. \E g : Flattens(g, c, Len(c))  BY <1>1, FlattensExists
  <2>. QED  BY <2>1 DEF Flattens
<1>3. Join(c) = f[Len(c)]  BY <1>1 DEF Join, FlattenSeq
<1> HIDE DEF f
<1>4. f[Len(c)] \in Seq(S)
  <2>1. Len(c) \in 1..Len(c)  BY <1>1
  <2>. QED  BY <1>2, <2>1, FlattensTexts
<1>. QED  BY <1>2, <1>3, <1>4

(* A chunk appended to the chunks is its text appended to the join.        *)
LEMMA JoinAppend ==
  ASSUME NEW S, NEW c \in Seq(Seq(S)), NEW x \in Seq(S)
  PROVE  /\ Join(c) \in Seq(S)
         /\ Join(Append(c, x)) = Join(c) \o x
<1> DEFINE d == Append(c, x)
           n == Len(c)
<1>1. /\ d \in Seq(Seq(S)) /\ Len(d) = n + 1 /\ n \in Nat
      /\ \A i \in 1..n : d[i] = c[i]
      /\ d[n + 1] = x
  BY AppendProperties, LenProperties
<1>2. d # <<>>  BY <1>1, EmptySeq
<1> HIDE DEF d
<1>3. PICK g : Flattens(g, d, n + 1) /\ Join(d) = g[n + 1]  BY <1>1, <1>2, JoinFlattens
<1>4. CASE c = <<>>
  <2>1. n = 0  BY <1>4, EmptySeq
  <2>2. Join(c) = <<>>  BY <1>4, JoinNothing
  <2>3. g[1] = d[1]  BY <1>3, <2>1 DEF Flattens
  <2>4. <<>> \o x = x /\ <<>> \in Seq(S)  BY ConcatEmptySeq
  <2>. QED  BY <1>1, <1>3, <2>1, <2>2, <2>3, <2>4 DEF d
<1>5. CASE c # <<>>
  <2>1. PICK f : Flattens(f, c, n) /\ Join(c) = f[n] /\ Join(c) \in Seq(S)  BY <1>5, JoinFlattens
  <2>2. n # 0  BY <1>1, <1>5, EmptySeq
  <2>3. g[n + 1] = g[n] \o x
    <3>1. n + 1 \in 1..(n + 1) /\ n + 1 # 1 /\ (n + 1) - 1 = n  BY <1>1, <2>2
    <3>2. g[n + 1] = g[(n + 1) - 1] \o d[n + 1]  BY <1>3, <3>1 DEF Flattens
    <3>. QED  BY <1>1, <3>1, <3>2
  <2>4. f[n] = g[n]
    <3> DEFINE Bad == {i \in Nat : i \in 1..n /\ f[i] # g[i]}
    <3> SUFFICES ASSUME Bad # {} PROVE FALSE
      <4>1. n \in Nat /\ n \in 1..n  BY <1>1, <2>2
      <4>. QED  BY <4>1
    <3>1. PICK i \in Bad : \A j \in Bad : ~(j < i)
      <4>1. Bad \subseteq Nat  OBVIOUS
      <4> HIDE DEF Bad
      <4>. QED  BY <4>1, LeastNat
    <3>2. i \in 1..n /\ i \in 1..(n + 1) /\ f[i] # g[i]  BY <1>1
    <3>3. /\ f[i] = IF i = 1 THEN c[i] ELSE f[i - 1] \o c[i]
          /\ g[i] = IF i = 1 THEN d[i] ELSE g[i - 1] \o d[i]
          /\ c[i] = d[i]
      BY <1>1, <1>3, <2>1, <3>2 DEF Flattens
    <3>4. i # 1 /\ f[i - 1] # g[i - 1]  BY <3>2, <3>3
    <3>5. i - 1 \in 1..n /\ i - 1 < i /\ i - 1 \in Nat  BY <1>1, <3>2, <3>4
    <3>6. i - 1 \in Bad  BY <3>4, <3>5
    <3> HIDE DEF Bad
    <3>. QED  BY <3>1, <3>5, <3>6
  <2>. QED  BY <1>3, <2>1, <2>3, <2>4 DEF d
<1>. QED  BY <1>4, <1>5
-----------------------------------------------------------------------------
(* The first n atoms of a text, or all of it if it has fewer.              *)
Cut(s, n) == SubSeq(s, 1, IF Len(s) < n THEN Len(s) ELSE n)

LEMMA CutText ==
  ASSUME NEW S, NEW s \in Seq(S), NEW n \in Nat
  PROVE  /\ Cut(s, n) \in Seq(S) /\ Len(Cut(s, n)) = IF Len(s) < n THEN Len(s) ELSE n
         /\ \A i \in 1..Len(Cut(s, n)) : Cut(s, n)[i] = s[i]
<1> DEFINE m == IF Len(s) < n THEN Len(s) ELSE n
<1>1. Len(s) \in Nat  BY LenProperties
<1>2. m \in Nat /\ m <= Len(s)  BY <1>1
<1> HIDE DEF m
<1>3. \A i \in 1..m : s[i] \in S  BY <1>1, <1>2, ElementOfSeq
<1>4. SubSeq(s, 1, m) \in Seq(S) /\ Len(SubSeq(s, 1, m)) = m
  BY <1>1, <1>2, <1>3, SubSeqProperties
<1>5. \A i \in 1..m : SubSeq(s, 1, m)[i] = s[i]
  <2>1. \A i \in 1..(m - 1 + 1) : SubSeq(s, 1, m)[i] = s[1 + i - 1]
    BY <1>2, <1>3, SubSeqProperties
  <2>2. m - 1 + 1 = m /\ \A i \in 1..m : 1 + i - 1 = i  BY <1>2
  <2>. QED  BY <2>1, <2>2
<1>. QED  BY <1>4, <1>5 DEF Cut, m

LEMMA CutNothing == ASSUME NEW n \in Nat PROVE Cut(<<>>, n) = <<>>
<1>1. (IF Len(<<>>) < n THEN Len(<<>>) ELSE n) = 0  BY EmptySeq
<1>. QED  BY <1>1, SubSeqEmpty DEF Cut

(* Nothing that follows a text as long as the cut shows in it, ...         *)
LEMMA CutFull ==
  ASSUME NEW S, NEW s \in Seq(S), NEW x \in Seq(S), NEW n \in Nat, n <= Len(s)
  PROVE  Cut(s \o x, n) = Cut(s, n)
<1>1. Len(s) \in Nat /\ Len(x) \in Nat  BY LenProperties
<1>2. /\ s \o x \in Seq(S) /\ Len(s \o x) = Len(s) + Len(x)
      /\ \A i \in 1..Len(s) : (s \o x)[i] = s[i]
  BY <1>1, ConcatProperties
<1> DEFINE a == Cut(s \o x, n)
           b == Cut(s, n)
<1>3. a \in Seq(S) /\ Len(a) = n /\ \A i \in 1..n : a[i] = (s \o x)[i]
  <2>1. /\ a \in Seq(S) /\ Len(a) = IF Len(s \o x) < n THEN Len(s \o x) ELSE n
        /\ \A i \in 1..Len(a) : a[i] = (s \o x)[i]
    BY <1>2, CutText
  <2>2. ~(Len(s \o x) < n)  BY <1>1, <1>2
  <2> HIDE DEF a
  <2>. QED  BY <2>1, <2>2
<1>4. b \in Seq(S) /\ Len(b) = n /\ \A i \in 1..n : b[i] = s[i]
  BY <1>1, CutText
<1>5. \A i \in 1..n : a[i] = b[i]  BY <1>1, <1>2, <1>3, <1>4
<1> HIDE DEF a, b
<1>6. a = b  BY <1>3, <1>4, <1>5, SeqEqual
<1>. QED  BY <1>6 DEF a, b

(* ... and a shorter one is followed by what there is room for.            *)
LEMMA CutMore ==
  ASSUME NEW S, NEW s \in Seq(S), NEW x \in Seq(S), NEW n \in Nat, Len(s) < n
  PROVE  /\ Cut(s, n) = s /\ n - Len(s) \in Nat
         /\ Cut(s \o x, n) = s \o Cut(x, n - Len(s))
<1>1. Len(s) \in Nat /\ Len(x) \in Nat  BY LenProperties
<1>2. /\ s \o x \in Seq(S) /\ Len(s \o x) = Len(s) + Len(x)
      /\ \A i \in 1..(Len(s) + Len(x)) :
           (s \o x)[i] = IF i <= Len(s) THEN s[i] ELSE x[i - Len(s)]
  BY <1>1, ConcatProperties
<1> DEFINE r == n - Len(s)
           c == Cut(x, r)
           m == IF Len(x) < r THEN Len(x) ELSE r
           a == Cut(s \o x, n)
           b == s \o c
<1>3. r \in Nat /\ m \in Nat /\ m <= Len(x)  BY <1>1
<1>4. c \in Seq(S) /\ Len(c) = m /\ \A i \in 1..m : c[i] = x[i]  BY <1>3, CutText
<1>5. a \in Seq(S) /\ Len(a) = Len(s) + m /\ \A i \in 1..(Len(s) + m) : a[i] = (s \o x)[i]
  <2>1. /\ a \in Seq(S) /\ Len(a) = IF Len(s \o x) < n THEN Len(s \o x) ELSE n
        /\ \A i \in 1..Len(a) : a[i] = (s \o x)[i]
    BY <1>2, CutText
  <2>2. (IF Len(s \o x) < n THEN Len(s \o x) ELSE n) = Len(s) + m  BY <1>1, <1>2
  <2> HIDE DEF a, m
  <2>. QED  BY <2>1, <2>2
<1> HIDE DEF c, a, m
<1>6. /\ b \in Seq(S) /\ Len(b) = Len(s) + m
      /\ \A i \in 1..(Len(s) + m) : b[i] = IF i <= Len(s) THEN s[i] ELSE c[i - Len(s)]
  BY <1>1, <1>3, <1>4, ConcatProperties
<1>7. \A i \in 1..(Len(s) + m) : a[i] = b[i]
  <2> SUFFICES ASSUME NEW i \in 1..(Len(s) + m) PROVE a[i] = b[i]  OBVIOUS
  <2>1. i \in 1..(Len(s) + Len(x))  BY <1>1, <1>3
  <2>2. i > Len(s) => i - Len(s) \in 1..m  BY <1>1, <1>3
  <2> HIDE DEF b
  <2>3. a[i] = IF i <= Len(s) THEN s[i] ELSE x[i - Len(s)]  BY <1>2, <1>5, <2>1
  <2>4. b[i] = IF i <= Len(s) THEN s[i] ELSE c[i - Len(s)]  BY <1>6
  <2>5. ~(i <= Len(s)) => c[i - Len(s)] = x[i - Len(s)]  BY <1>1, <1>3, <1>4, <2>2
  <2>. QED  BY <2>3, <2>4, <2>5
<1> HIDE DEF b
<1>8. a = b  BY <1>1, <1>3, <1>5, <1>6, <1>7, SeqEqual
<1>9. Cut(s, n) = s
  <2>1. Cut(s, n) \in Seq(S) /\ Len(Cut(s, n)) = Len(s) /\ \A i \in 1..Len(s) : Cut(s, n)[i] = s[i]
    BY <1>1, CutText
  <2>. QED  BY <2>1, SeqEqual
<1>. QED  BY <1>3, <1>8, <1>9 DEF a, b, c
-----------------------------------------------------------------------------
(* The newest n of a list.                                                 *)
Newest(q, n) == DropHead(q, Len(q) - n)

(* A prefix of a list of chunks, one chunk longer.                         *)
LEMMA RunOneMore ==
  ASSUME NEW S, NEW c \in Seq(Seq(S)), NEW k \in Nat, NEW m \in Nat, k <= m, m + 1 <= Len(c)
  PROVE  /\ SubSeq(c, k + 1, m) \in Seq(Seq(S)) /\ c[m + 1] \in Seq(S)
         /\ SubSeq(c, k + 1, m + 1) = Append(SubSeq(c, k + 1, m), c[m + 1])
<1>0. Len(c) \in Nat  BY LenProperties
<1>1. \A i \in (k + 1)..m : c[i] \in Seq(S)  BY <1>0, ElementOfSeq
<1>2. SubSeq(c, k + 1, m) \in Seq(Seq(S))  BY <1>1, SubSeqProperties
<1>3. c[m + 1] \in Seq(S)  BY <1>0, ElementOfSeq
<1>4. k + 1 \in 1..Len(c) /\ m + 1 \in (k + 1)..Len(c) /\ (m + 1) - 1 = m  BY <1>0
<1>5. SubSeq(c, k + 1, m + 1) = SubSeq(c, k + 1, (m + 1) - 1) \o <<c[m + 1]>>
  BY <1>4, SubSeqRecursiveSecond
<1>6. Append(SubSeq(c, k + 1, m), c[m + 1]) = SubSeq(c, k + 1, m) \o <<c[m + 1]>>
  BY <1>2, <1>3, AppendIsConcat
<1>. QED  BY <1>2, <1>3, <1>4, <1>5, <1>6

(* The same from the first chunk on.                                       *)
LEMMA FirstOneMore ==
  ASSUME NEW S, NEW c \in Seq(Seq(S)), NEW m \in Nat, m + 1 <= Len(c)
  PROVE  /\ SubSeq(c, 1, m) \in Seq(Seq(S))
         /\ SubSeq(c, 1, m + 1) = Append(SubSeq(c, 1, m), c[m + 1])
<1> DEFINE z == 0
<1>1. z \in Nat /\ z <= m /\ z + 1 = 1  OBVIOUS
<1> HIDE DEF z
<1>2. /\ SubSeq(c, z + 1, m) \in Seq(Seq(S))
      /\ SubSeq(c, z + 1, m + 1) = Append(SubSeq(c, z + 1, m), c[m + 1])
  BY <1>1, RunOneMore
<1>. QED  BY <1>1, <1>2

(* The join of chunks is that of the first k followed by that of the rest. *)
LEMMA JoinSplit ==
  ASSUME NEW S, NEW c \in Seq(Seq(S)), NEW k \in 0..Len(c)
  PROVE  /\ Join(SubSeq(c, 1, k)) \in Seq(S) /\ Join(DropHead(c, k)) \in Seq(S)
         /\ Join(c) = Join(SubSeq(c, 1, k)) \o Join(DropHead(c, k))
<1> DEFINE head(m) == Join(SubSeq(c, 1, m))
           mid(m)  == Join(SubSeq(c, k + 1, m))
           Bad     == {m \in Nat : m \in k..Len(c) /\ head(m) # head(k) \o mid(m)}
<1>0. Len(c) \in Nat /\ k \in Nat /\ Len(c) \in k..Len(c)  BY LenProperties
<1>1. \A m \in k..Len(c) : head(m) \in Seq(S) /\ mid(m) \in Seq(S)
  <2> SUFFICES ASSUME NEW m \in k..Len(c) PROVE head(m) \in Seq(S) /\ mid(m) \in Seq(S)
    OBVIOUS
  <2>1. \A i \in 1..m : c[i] \in Seq(S)  BY <1>0, ElementOfSeq
  <2>2. SubSeq(c, 1, m) \in Seq(Seq(S)) /\ SubSeq(c, k + 1, m) \in Seq(Seq(S))
    BY <1>0, <2>1, SubSeqProperties
  <2>3. <<>> \in Seq(S)  OBVIOUS
  <2>. QED  BY <2>2, <2>3, JoinAppend
<1>2. SubSeq(c, 1, Len(c)) = c  BY SubSeqFull
<1> SUFFICES ASSUME Bad # {} PROVE FALSE
  <2>1. head(Len(c)) = head(k) \o mid(Len(c))  BY <1>0
  <2>2. k \in k..Len(c)  BY <1>0
  <2>. QED  BY <1>0, <1>1, <1>2, <2>1, <2>2 DEF DropHead
<1>3. PICK m \in Bad : \A j \in Bad : ~(j < m)
  <2>1. Bad \subseteq Nat  OBVIOUS
  <2> HIDE DEF Bad
  <2>. QED  BY <2>1, LeastNat
<1>4. m \in Nat /\ m \in k..Len(c) /\ head(m) # head(k) \o mid(m)  OBVIOUS
<1>5. CASE m = k
  <2>1. SubSeq(c, k + 1, k) = <<>>  BY <1>0, SubSeqEmpty
  <2>2. mid(k) = <<>>  BY <2>1, JoinNothing
  <2>3. head(k) \in Seq(S)  BY <1>1, <1>4, <1>5
  <2> HIDE DEF head, mid
  <2>4. head(k) \o <<>> = head(k)  BY <2>3, ConcatEmptySeq
  <2>. QED  BY <1>4, <1>5, <2>2, <2>4
<1>6. CASE m # k
  <2> DEFINE l == m - 1
  <2>1. l \in Nat /\ l \in k..Len(c) /\ l < m /\ l + 1 = m /\ k <= l /\ l + 1 <= Len(c)
    BY <1>0, <1>4, <1>6
  <2> HIDE DEF l
  <2>2. l \notin Bad
    <3> HIDE DEF Bad
    <3>. QED  BY <1>3, <2>1
  <2>3. head(l) = head(k) \o mid(l)  BY <2>1, <2>2
  <2>4. /\ SubSeq(c, k + 1, l) \in Seq(Seq(S)) /\ c[l + 1] \in Seq(S)
        /\ SubSeq(c, k + 1, l + 1) = Append(SubSeq(c, k + 1, l), c[l + 1])
    BY <1>0, <2>1, RunOneMore
  <2>5. /\ SubSeq(c, 1, l) \in Seq(Seq(S))
        /\ SubSeq(c, 1, l + 1) = Append(SubSeq(c, 1, l), c[l + 1])
    BY <1>0, <2>1, FirstOneMore
  <2>7. mid(m) = mid(l) \o c[l + 1]  BY <2>1, <2>4, JoinAppend
  <2>8. head(m) = head(l) \o c[l + 1]  BY <2>1, <2>4, <2>5, JoinAppend
  <2>9. head(k) \in Seq(S) /\ mid(l) \in Seq(S)
    <3>1. k \in k..Len(c)  BY <1>0
    <3>. QED  BY <1>1, <2>1, <3>1
  <2> HIDE DEF head, mid
  <2>10. (head(k) \o mid(l)) \o c[l + 1] = head(k) \o (mid(l) \o c[l + 1])
    <3> DEFINE g == head(k)
               h == mid(l)
               z == c[l + 1]
    <3>1. g \in Seq(S) /\ h \in Seq(S) /\ z \in Seq(S)  BY <2>4, <2>9
    <3> HIDE DEF g, h, z
    <3>2. (g \o h) \o z = g \o (h \o z)  BY ONLY <3>1, ConcatAssociative, SMTT(30)
    <3>. QED  BY <3>2 DEF g, h, z
  <2>. QED  BY <1>4, <2>3, <2>7, <2>8, <2>10
<1>. QED  BY <1>5, <1>6

(* A text is found between any two others.                                 *)
LEMMA FoundBetween ==
  ASSUME NEW S, NEW a \in Seq(S), NEW b \in Seq(S), NEW c \in Seq(S), b # <<>>
  PROVE  HasText((a \o b) \o c, b)
<1> DEFINE ab  == a \o b
           all == ab \o c
           i   == Len(a) + 1
           t   == SubSeq(all, i, i + Len(b) - 1)
<1>0. Len(a) \in Nat /\ Len(b) \in Nat \ {0} /\ Len(c) \in Nat  BY LenProperties, EmptySeq
<1>1. /\ ab \in Seq(S) /\ Len(ab) = Len(a) + Len(b)
      /\ \A j \in 1..(Len(a) + Len(b)) : ab[j] = IF j <= Len(a) THEN a[j] ELSE b[j - Len(a)]
  BY ConcatProperties
<1> HIDE DEF ab
<1>2. /\ all \in Seq(S) /\ Len(all) = Len(ab) + Len(c)
      /\ \A j \in 1..(Len(ab) + Len(c)) : all[j] = IF j <= Len(ab) THEN ab[j] ELSE c[j - Len(ab)]
  <2>1. ab \in Seq(S)  BY <1>1
  <2>. QED  BY <2>1, ConcatProperties
<1> HIDE DEF all
<1>3. \A j \in i..(i + Len(b) - 1) : all[j] \in S  BY <1>0, <1>1, <1>2, ElementOfSeq
<1>4. /\ t \in Seq(S) /\ Len(t) = Len(b)
      /\ \A j \in 1..Len(b) : t[j] = all[i + j - 1]
  <2>1. i \in Int /\ i + Len(b) - 1 \in Int /\ i <= i + Len(b) - 1
        /\ (i + Len(b) - 1) - i + 1 = Len(b)
    BY <1>0
  <2> HIDE DEF i
  <2>2. /\ t \in Seq(S) /\ Len(t) = (i + Len(b) - 1) - i + 1
        /\ \A j \in 1..((i + Len(b) - 1) - i + 1) : t[j] = all[i + j - 1]
    BY <1>3, <2>1, SubSeqProperties
  <2> HIDE DEF t
  <2>. QED  BY <2>1, <2>2
<1> HIDE DEF t
<1>5. \A j \in 1..Len(t) : t[j] = b[j]
  <2> SUFFICES ASSUME NEW j \in 1..Len(b) PROVE t[j] = b[j]  BY <1>4
  <2>1. /\ i + j - 1 \in 1..(Len(ab) + Len(c)) /\ i + j - 1 <= Len(ab)
        /\ i + j - 1 \in 1..(Len(a) + Len(b)) /\ ~(i + j - 1 <= Len(a))
        /\ (i + j - 1) - Len(a) = j
    BY <1>0, <1>1
  <2>. QED  BY <1>1, <1>2, <1>4, <2>1
<1>6. t = b  BY <1>4, <1>5, SeqEqual
<1>7. i \in 1..(Len(all) - Len(b) + 1)  BY <1>0, <1>1, <1>2
<1>. QED  BY <1>6, <1>7 DEF HasText, t, all, ab

(* Of the chunks of a buffer the newest are kept as long as they fit:      *)
(* appendFlow drops no more than it has to.                                *)
LEMMA NewestKept ==
  ASSUME NEW S, NEW q \in Seq(Seq(S)), NEW x \in Seq(S),
         NEW maxChunks \in Nat, NEW maxBytes \in Nat, NEW n \in 1..(Len(q) + 1),
         n <= maxChunks, Bytes(Newest(Append(q, x), n)) <= maxBytes
  PROVE  /\ n <= Len(PushChunk(q, x, maxChunks, maxBytes))
         /\ Newest(PushChunk(q, x, maxChunks, maxBytes), n) = Newest(Append(q, x), n)
<1> DEFINE all == Append(q, x)
           r   == PushChunk(q, x, maxChunks, maxBytes)
           k   == Len(q) + 1 - n
<1>0. Len(q) \in Nat /\ Len(x) \in Nat /\ k \in 0..Len(q)  BY LenProperties
<1>1. all \in Seq(Seq(S)) /\ Len(all) = Len(q) + 1  BY AppendProperties
<1>2. TrailingWindow(x, maxBytes) = x
  <2>1. Newest(all, n) = Append(DropHead(q, k), x)
    <3>1. Len(all) - n = k  BY <1>1
    <3>. QED  BY <1>0, <3>1, DropAppend DEF Newest
  <2>2. DropHead(q, k) \in Seq(Seq(S))  BY <1>0, DropHeadSuffix
  <2>3. Join(DropHead(q, k)) \in Seq(S) /\ Join(Newest(all, n)) = Join(DropHead(q, k)) \o x
    BY <2>1, <2>2, JoinAppend
  <2>4. Len(Join(Newest(all, n))) = Len(Join(DropHead(q, k))) + Len(x)
    BY <2>3, ConcatProperties
  <2>5. Len(Join(DropHead(q, k))) \in Nat  BY <2>3, LenProperties
  <2>6. Len(x) <= maxBytes  BY <1>0, <2>4, <2>5 DEF Bytes, Join
  <2>. QED  BY <1>0, <2>6 DEF TrailingWindow
<1>3. Pushed(q, x, maxBytes) = all  BY <1>2 DEF Pushed
<1> HIDE DEF all
<1>4. PICK d \in 0..Len(all) :
        /\ r = DropHead(all, d)
        /\ \A j \in 0..Len(all) : j < d => ~Fits(all, j, maxChunks, maxBytes)
  BY <1>3, PushChunkDrops
<1> HIDE DEF r
<1>5. k \in 0..Len(all) /\ Len(all) - k = n /\ Len(all) - n = k  BY <1>0, <1>1
<1>6. Fits(all, k, maxChunks, maxBytes)  BY <1>5 DEF Fits, Newest, all
<1>7. d <= k /\ d \in Nat /\ k \in Nat  BY <1>4, <1>5, <1>6
<1>8. Len(r) = Len(all) - d  BY <1>1, <1>4, DropHeadSuffix
<1>9. n <= Len(r) /\ Len(r) - n = k - d /\ k - d \in 0..(Len(all) - d) /\ d + (k - d) = k
  BY <1>1, <1>5, <1>7, <1>8
<1>10. Newest(r, n) = DropHead(all, k)
  <2>1. DropHead(DropHead(all, d), k - d) = DropHead(all, d + (k - d))
    BY <1>1, <1>9, DropTwice
  <2>. QED  BY <1>4, <1>9, <2>1 DEF Newest
<1>11. Newest(all, n) = DropHead(all, k)  BY <1>5 DEF Newest
<1>. QED  BY <1>9, <1>10, <1>11 DEF r, all
=============================================================================
