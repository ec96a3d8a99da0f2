--------------------------- MODULE EvidenceProofs ---------------------------
(***************************************************************************)
(* Proofs about Evidence, for any queue size, retention and number of      *)
(* trips and crashes: what is stored is one chain whose tip the sink       *)
(* knows, a change in it shows, and Close leaves nothing behind.           *)
(***************************************************************************)
EXTENDS Evidence, TLAPS, SequenceTheorems, FiniteSetTheorems

(***************************************************************************)
(* Chains.  A hash holds the hash before it, so records come from no set   *)
(* fixed beforehand: a store is a sequence of what it holds.               *)
(***************************************************************************)
IsStore(s) == s \in Seq({s[i] : i \in DOMAIN s})

IsRecord(rec) ==
  /\ rec = [ts |-> rec.ts, seq |-> rec.seq, prev |-> rec.prev, hash |-> rec.hash]
  /\ rec.ts \in Nat \ {0} /\ rec.seq \in Nat

(* A store that verifies; a JSONL file holds its chain from the start.     *)
Chain(backend, s) ==
  /\ IsStore(s) /\ VerifyChain(s)
  /\ \A i \in DOMAIN s : IsRecord(s[i]) /\ (backend = "jsonl" => s[i].seq = i - 1)

(* In the order of the trips.                                              *)
Sorted(s) == \A i, j \in DOMAIN s : i < j => s[i].ts < s[j].ts

LEMMA RecordNumbers == \A rec : IsRecord(rec) => rec.ts \in Nat /\ rec.seq \in Nat
BY DEF IsRecord

LEMMA StoreLen ==
  ASSUME NEW s, IsStore(s)
  PROVE  Len(s) \in Nat /\ DOMAIN s = 1..Len(s)
BY LenProperties DEF IsStore

(* Anything indexed from 1 on is a store.                                  *)
LEMMA StoreIntro ==
  ASSUME NEW n \in Nat, NEW s, s = [i \in 1..n |-> s[i]]
  PROVE  IsStore(s) /\ Len(s) = n /\ DOMAIN s = 1..n
<1> DEFINE S == {s[i] : i \in DOMAIN s}
<1>1. DOMAIN s = 1..n  OBVIOUS
<1>2. s \in [1..n -> S]  BY <1>1
<1>3. s \in Seq(S)  BY <1>2, SeqDef
<1>. QED  BY <1>1, <1>3, LenProperties DEF IsStore

LEMMA StoreAppend ==
  ASSUME NEW s, IsStore(s), NEW x
  PROVE  /\ IsStore(Append(s, x)) /\ Len(Append(s, x)) = Len(s) + 1
         /\ DOMAIN Append(s, x) = 1..(Len(s) + 1) /\ Append(s, x) # <<>>
         /\ \A i \in 1..Len(s) : Append(s, x)[i] = s[i]
         /\ Append(s, x)[Len(s) + 1] = x
<1> DEFINE S == {s[i] : i \in DOMAIN s}
           a == Append(s, x)
<1>1. s \in Seq(S) /\ s \in Seq(S \cup {x})
  <2>1. s \in Seq(S)  BY DEF IsStore
  <2>2. Len(s) \in Nat /\ s \in [1..Len(s) -> S]  BY <2>1, LenProperties
  <2>3. s \in [1..Len(s) -> S \cup {x}]  BY <2>2
  <2>. QED  BY <2>1, <2>2, <2>3, SeqDef
<1>2. /\ a \in Seq(S \cup {x}) /\ Len(a) = Len(s) + 1 /\ Len(s) \in Nat
      /\ \A i \in 1..Len(s) : a[i] = s[i]
      /\ a[Len(s) + 1] = x
  BY <1>1, AppendProperties, LenProperties
<1> HIDE DEF a
<1>3. a \in [1..Len(a) -> S \cup {x}] /\ a # <<>>  BY <1>2, LenProperties, EmptySeq
<1>4. a = [i \in 1..(Len(s) + 1) |-> a[i]]  BY <1>2, <1>3
<1>5. IsStore(a) /\ DOMAIN a = 1..(Len(s) + 1)  BY <1>2, <1>4, StoreIntro
<1>. QED  BY <1>2, <1>3, <1>5 DEF a

LEMMA StoreNonEmpty ==
  ASSUME NEW s, IsStore(s)
  PROVE  s = <<>> <=> Len(s) = 0
BY EmptySeq DEF IsStore

(* A record sealed with the tip of a chain makes a longer chain, whose tip *)
(* is the record.                                                          *)
LEMMA ChainGrows ==
  ASSUME NEW b, NEW s, Chain(b, s), NEW n \in Nat \ {0}, NEW tip, tip = ChainTip(b, s)
  PROVE  /\ Chain(b, Append(s, Seal(n, tip)))
         /\ ChainTip(b, Append(s, Seal(n, tip))) = [seq |-> tip.seq + 1, hash |-> Seal(n, tip).hash]
         /\ tip.seq \in Nat
<1> DEFINE rec == Seal(n, tip)
           a   == Append(s, rec)
<1>1. IsStore(s) /\ Len(s) \in Nat /\ DOMAIN s = 1..Len(s) /\ (s = <<>> <=> Len(s) = 0)
  BY StoreLen, StoreNonEmpty DEF Chain
<1>2. /\ IsStore(a) /\ Len(a) = Len(s) + 1 /\ DOMAIN a = 1..(Len(s) + 1) /\ a # <<>>
      /\ \A i \in 1..Len(s) : a[i] = s[i]
      /\ a[Len(s) + 1] = rec
  BY <1>1, StoreAppend
<1>3. CASE s = <<>>
  <2>1. tip.seq = 0 /\ tip.hash = <<>>  BY <1>3 DEF ChainTip
  <2>2. /\ rec.ts = n /\ rec.seq = 0 /\ rec.prev = <<>> /\ rec.hash = HashOf(rec)
        /\ IsRecord(rec)
    BY <2>1 DEF Seal, HashOf, IsRecord
  <2> HIDE DEF rec, a
  <2>3. DOMAIN a = {1} /\ a[1] = rec /\ Len(a) = 1  BY <1>1, <1>2, <1>3
  <2>4. VerifyChain(a)  BY <2>2, <2>3 DEF VerifyChain
  <2>5. Chain(b, a)
    <3>1. \A i \in DOMAIN a : i = 1  BY <2>3
    <3>2. IsRecord(a[1]) /\ (b = "jsonl" => a[1].seq = 1 - 1)  BY <2>2, <2>3
    <3>3. \A i \in DOMAIN a : IsRecord(a[i]) /\ (b = "jsonl" => a[i].seq = i - 1)
      BY <3>1, <3>2
    <3>. QED  BY <1>2, <2>4, <3>3 DEF Chain
  <2>6. ChainTip(b, a) = [seq |-> 1, hash |-> rec.hash]
    <3>1. ChainTip(b, a) = [seq |-> IF b = "jsonl" THEN Len(a) ELSE a[Len(a)].seq + 1,
                            hash |-> a[Len(a)].hash]
      BY <1>2 DEF ChainTip
    <3>2. a[Len(a)] = rec /\ rec.seq + 1 = 1  BY <2>2, <2>3
    <3>. QED  BY <2>3, <3>1, <3>2
  <2>. QED  BY <2>1, <2>5, <2>6 DEF rec, a
<1>4. CASE s # <<>>
  <2> DEFINE l == Len(s)
  <2>1. l \in DOMAIN s /\ l >= 1  BY <1>1, <1>4
  <2>2. /\ IsRecord(s[l]) /\ s[l].hash = HashOf(s[l])
        /\ b = "jsonl" => s[l].seq = l - 1
    BY <2>1 DEF Chain, VerifyChain
  <2>3. tip.seq = s[l].seq + 1 /\ tip.hash = s[l].hash /\ tip.seq \in Nat
        /\ (b = "jsonl" => tip.seq = l)
    BY <1>1, <1>4, <2>1, <2>2 DEF ChainTip, IsRecord
  <2>4. /\ rec.ts = n /\ rec.seq = tip.seq /\ rec.prev = s[l].hash /\ rec.hash = HashOf(rec)
        /\ IsRecord(rec)
    BY <2>3 DEF Seal, HashOf, IsRecord
  <2> HIDE DEF rec, a
  <2>5. a[l + 1] = rec /\ a[l] = s[l]  BY <1>1, <1>2, <2>1
  <2>6. VerifyChain(a)
    <3> SUFFICES ASSUME NEW i \in 1..(l + 1)
                 PROVE  /\ a[i].hash = HashOf(a[i])
                        /\ i = 1 /\ a[i].seq = 0 => a[i].prev = <<>>
                        /\ i > 1 => a[i].seq = a[i - 1].seq + 1 /\ a[i].prev = a[i - 1].hash
      BY <1>2 DEF VerifyChain
    <3>1. CASE i = l + 1
      <4>1. i > 1 /\ i # 1 /\ i - 1 = l  BY <1>1, <2>1, <3>1
      <4>. QED  BY <2>3, <2>4, <2>5, <3>1, <4>1
    <3>2. CASE i # l + 1
      <4>1. i \in 1..l /\ a[i] = s[i] /\ (i > 1 => a[i - 1] = s[i - 1])  BY <1>1, <1>2, <3>2
      <4>2. /\ s[i].hash = HashOf(s[i])
            /\ i = 1 /\ s[i].seq = 0 => s[i].prev = <<>>
            /\ i > 1 => s[i].seq = s[i - 1].seq + 1 /\ s[i].prev = s[i - 1].hash
        BY <1>1, <4>1 DEF Chain, VerifyChain
      <4>. QED  BY <4>1, <4>2
    <3>. QED  BY <3>1, <3>2
  <2>7. \A i \in DOMAIN a : IsRecord(a[i]) /\ (b = "jsonl" => a[i].seq = i - 1)
    <3>1. IsRecord(a[l + 1]) /\ (b = "jsonl" => a[l + 1].seq = l + 1 - 1)
      BY <1>1, <2>3, <2>4, <2>5
    <3>2. \A i \in 1..l : IsRecord(a[i]) /\ (b = "jsonl" => a[i].seq = i - 1)
      BY <1>1, <1>2 DEF Chain
    <3>3. \A i \in DOMAIN a : i \in 1..l \/ i = l + 1  BY <1>1, <1>2
    <3>. QED  BY <3>1, <3>2, <3>3
  <2>8. Chain(b, a)  BY <1>2, <2>6, <2>7 DEF Chain
  <2>9. ChainTip(b, a) = [seq |-> tip.seq + 1, hash |-> rec.hash]
    BY <1>2, <2>3, <2>4, <2>5 DEF ChainTip
  <2>. QED  BY <2>3, <2>8, <2>9 DEF rec, a
<1>. QED  BY <1>3, <1>4

LEMMA SortedGrows ==
  ASSUME NEW s, IsStore(s), Sorted(s), NEW x, x.ts \in Nat,
         \A i \in DOMAIN s : s[i].ts < x.ts
  PROVE  Sorted(Append(s, x))
<1> DEFINE a == Append(s, x)
<1>1. Len(s) \in Nat /\ DOMAIN s = 1..Len(s)  BY StoreLen
<1>2. /\ DOMAIN a = 1..(Len(s) + 1)
      /\ \A i \in 1..Len(s) : a[i] = s[i]
      /\ a[Len(s) + 1] = x
  BY StoreAppend
<1> HIDE DEF a
<1>3. \A i \in DOMAIN a : i \in DOMAIN s \/ i = Len(s) + 1  BY <1>1, <1>2
<1>4. \A i, j \in DOMAIN a : i < j => i \in DOMAIN s  BY <1>1, <1>2
<1>5. Sorted(a)  BY <1>1, <1>2, <1>3, <1>4 DEF Sorted
<1>. QED  BY <1>5 DEF a

(* From a store in the order of its trips, pruning takes the oldest rows   *)
(* and leaves the others as they are.                                      *)
LEMMA PruneIsSuffix ==
  ASSUME NEW s, IsStore(s), Sorted(s), \A i \in DOMAIN s : s[i].ts \in Nat,
         NEW o, o = Len(s) - MaxRecords, o > 0
  PROVE  Prune(s) = [k \in 1..MaxRecords |-> s[o + k]]
<1> DEFINE Older(i) == {j \in DOMAIN s : s[j].ts < s[i].ts}
           keep     == {i \in DOMAIN s : Cardinality(Older(i)) >= o}
           Before(i) == {j \in keep : j < i}
<1>1. Len(s) \in Nat /\ DOMAIN s = 1..Len(s) /\ MaxRecords \in Nat \ {0} /\ o \in Nat
  BY StoreLen, EvidenceAssumption
<1>2. \A i \in DOMAIN s : Cardinality(Older(i)) = i - 1
  <2> SUFFICES ASSUME NEW i \in DOMAIN s PROVE Cardinality(Older(i)) = i - 1
    OBVIOUS
  <2>1. \A j \in DOMAIN s : s[j].ts < s[i].ts <=> j < i
    BY <1>1 DEF Sorted
  <2>2. Older(i) = 1..(i - 1)  BY <1>1, <2>1
  <2>3. i \in Int /\ i >= 1  BY <1>1
  <2>4. Cardinality(1..(i - 1)) = i - 1
    <3>1. CASE i = 1  BY <2>3, <3>1, FS_Interval
    <3>2. CASE i > 1  BY <2>3, <3>2, FS_Interval
    <3>. QED  BY <2>3, <3>1, <3>2
  <2> HIDE DEF Older
  <2>. QED  BY <2>2, <2>4
<1> HIDE DEF Older
<1>3. keep = (o + 1)..Len(s)  BY <1>1, <1>2
<1> HIDE DEF keep
<1>4. Cardinality(keep) = MaxRecords  BY <1>1, <1>3, FS_Interval
<1>5. \A i \in keep : Cardinality(Before(i)) = i - 1 - o
  <2> SUFFICES ASSUME NEW i \in keep PROVE Cardinality(Before(i)) = i - 1 - o
    OBVIOUS
  <2>1. Before(i) = (o + 1)..(i - 1)  BY <1>1, <1>3
  <2>2. i \in Int /\ i >= o + 1  BY <1>1, <1>3
  <2> HIDE DEF Before
  <2>3. CASE i = o + 1
    <3>1. Cardinality((o + 1)..(i - 1)) = 0  BY <1>1, <2>2, <2>3, FS_Interval
    <3>. QED  BY <1>1, <2>1, <2>3, <3>1
  <2>4. CASE i > o + 1
    <3>1. Cardinality((o + 1)..(i - 1)) = (i - 1) - (o + 1) + 1
      BY <1>1, <2>2, <2>4, FS_Interval
    <3>. QED  BY <1>1, <2>1, <2>2, <3>1
  <2>. QED  BY <1>1, <2>2, <2>3, <2>4
<1> HIDE DEF Before
<1>6. ASSUME NEW k \in 1..MaxRecords
      PROVE  (CHOOSE i \in keep : Cardinality(Before(i)) = k - 1) = o + k
  <2>1. o + k \in keep  BY <1>1, <1>3
  <2>2. ASSUME NEW i \in keep
        PROVE  Cardinality(Before(i)) = k - 1 <=> i = o + k
    <3>1. Cardinality(Before(i)) = i - 1 - o  BY <1>5
    <3>2. i \in Int /\ k \in Int  BY <1>1, <1>3
    <3>. QED  BY <1>1, <3>1, <3>2
  <2>. QED  BY <2>1, <2>2
<1>7. Prune(s) = Subsequence(s, keep)  BY <1>1 DEF Prune, keep, Older
<1>8. Subsequence(s, keep) = [k \in 1..MaxRecords |->
                         s[CHOOSE i \in keep : Cardinality(Before(i)) = k - 1]]
  BY <1>4 DEF Subsequence, Before
<1>. QED  BY <1>6, <1>7, <1>8

(* Pruning a chain in order leaves a chain in order with the same tip, and *)
(* nothing in it that was not there.                                       *)
LEMMA PruneKeepsChain ==
  ASSUME NEW s, Chain("sqlite", s), Sorted(s)
  PROVE  /\ Chain("sqlite", Prune(s)) /\ Sorted(Prune(s))
         /\ ChainTip("sqlite", Prune(s)) = ChainTip("sqlite", s)
         /\ \A i \in DOMAIN Prune(s) : \E j \in DOMAIN s : Prune(s)[i] = s[j]
<1> DEFINE o == Len(s) - MaxRecords
           p == Prune(s)
<1>1. /\ IsStore(s) /\ Len(s) \in Nat /\ DOMAIN s = 1..Len(s)
      /\ (s = <<>> <=> Len(s) = 0) /\ MaxRecords \in Nat \ {0} /\ o \in Int
      /\ o = Len(s) - MaxRecords
  BY StoreLen, StoreNonEmpty, EvidenceAssumption DEF Chain
<1> HIDE DEF o
<1>2. CASE o <= 0
  <2>1. p = s  BY <1>1, <1>2 DEF Prune
  <2>. QED  BY <2>1
<1>3. CASE o > 0
  <2>1. \A i \in DOMAIN s : s[i].ts \in Nat /\ s[i].seq \in Nat
    <3>1. \A i \in DOMAIN s : IsRecord(s[i])  BY DEF Chain
    <3>. QED  BY <3>1, RecordNumbers
  <2>2. p = [k \in 1..MaxRecords |-> s[o + k]]
    <3>1. IsStore(s) /\ Sorted(s) /\ o = Len(s) - MaxRecords /\ o > 0  BY <1>1, <1>3
    <3>2. \A i \in DOMAIN s : s[i].ts \in Nat  BY <2>1
    <3>3. Prune(s) = [k \in 1..MaxRecords |-> s[o + k]]  BY ONLY <3>1, <3>2, PruneIsSuffix
    <3>. QED  BY <3>3
  <2> HIDE DEF p
  <2>3. p = [i \in 1..MaxRecords |-> p[i]]  BY <2>2
  <2>4. IsStore(p) /\ Len(p) = MaxRecords /\ DOMAIN p = 1..MaxRecords /\ p # <<>>
    <3>1. IsStore(p) /\ Len(p) = MaxRecords /\ DOMAIN p = 1..MaxRecords
      BY <1>1, <2>3, StoreIntro
    <3>. QED  BY <1>1, <3>1, StoreNonEmpty
  <2>5. \A k \in DOMAIN p : /\ p[k] = s[o + k] /\ o + k \in DOMAIN s /\ o + k > 1
                            /\ k > 1 => k - 1 \in DOMAIN p /\ p[k - 1] = s[o + k - 1]
    BY <1>1, <1>3, <2>2, <2>4
  <2>6. VerifyChain(p)
    <3> SUFFICES ASSUME NEW i \in DOMAIN p
                 PROVE  /\ p[i].hash = HashOf(p[i])
                        /\ i = 1 /\ p[i].seq = 0 => p[i].prev = <<>>
                        /\ i > 1 => p[i].seq = p[i - 1].seq + 1 /\ p[i].prev = p[i - 1].hash
      BY DEF VerifyChain
    <3>0. PICK j \in DOMAIN s : j = o + i  BY <2>5
    <3>1. p[i] = s[j] /\ j > 1 /\ (i > 1 => p[i - 1] = s[j - 1])
      <4>1. p[i] = s[o + i] /\ o + i > 1 /\ (i > 1 => p[i - 1] = s[o + i - 1])  BY <2>5
      <4>2. o \in Int /\ i \in Int  BY <1>1, <2>4
      <4>. QED  BY <3>0, <4>1, <4>2
    <3>2. /\ s[j].hash = HashOf(s[j])
          /\ s[j].seq = s[j - 1].seq + 1 /\ s[j].prev = s[j - 1].hash
      BY <3>1 DEF Chain, VerifyChain
    <3>3. j - 1 \in DOMAIN s  BY <1>1, <3>1
    <3>4. s[j].seq # 0  BY <2>1, <3>2, <3>3
    <3>. QED  BY <3>1, <3>2, <3>4
  <2>7. Chain("sqlite", p)  BY <2>4, <2>5, <2>6 DEF Chain
  <2>8. Sorted(p)
    <3> SUFFICES ASSUME NEW i \in DOMAIN p, NEW j \in DOMAIN p, i < j
                 PROVE  p[i].ts < p[j].ts
      BY DEF Sorted
    <3>1. o + i < o + j  BY <1>1, <2>4
    <3>. QED  BY <2>5, <3>1 DEF Sorted
  <2>9. p[Len(p)] = s[Len(s)]
    <3>1. MaxRecords \in DOMAIN p /\ o + MaxRecords = Len(s)  BY <1>1, <2>4
    <3>. QED  BY <2>4, <2>5, <3>1
  <2>10. ChainTip("sqlite", p) = ChainTip("sqlite", s)
    <3>1. s # <<>>  BY <1>1, <1>3
    <3>. QED  BY <2>4, <2>9, <3>1 DEF ChainTip
  <2>11. \A i \in DOMAIN p : \E j \in DOMAIN s : p[i] = s[j]  BY <2>5
  <2>. QED  BY <2>7, <2>8, <2>10, <2>11 DEF p
<1>. QED  BY <1>1, <1>2, <1>3

(* A chain that verifies shows every change: a record missing between two  *)
(* others, an edited one, and an edited one hashed again before another.   *)
LEMMA ChainShowsChanges ==
  ASSUME NEW b, NEW s, Chain(b, s), NEW i \in DOMAIN s
  PROVE  /\ i > 1 /\ i < Len(s) =>
              ~VerifyChain(SubSeq(s, 1, i - 1) \o SubSeq(s, i + 1, Len(s)))
         /\ LET edited == [s[i] EXCEPT !.ts = 0]
                rehashed == [edited EXCEPT !.hash = HashOf(edited)]
            IN  /\ ~VerifyChain([s EXCEPT ![i] = edited])
                /\ i < Len(s) => ~VerifyChain([s EXCEPT ![i] = rehashed])
<1> DEFINE edited   == [s[i] EXCEPT !.ts = 0]
           rehashed == [edited EXCEPT !.hash = HashOf(edited)]
<1>1. IsStore(s) /\ Len(s) \in Nat /\ DOMAIN s = 1..Len(s) /\ i \in Int
  BY StoreLen DEF Chain
<1>2. \A j \in DOMAIN s : /\ IsRecord(s[j]) /\ s[j].hash = HashOf(s[j])
                          /\ j > 1 => s[j].seq = s[j - 1].seq + 1 /\ s[j].prev = s[j - 1].hash
  BY DEF Chain, VerifyChain
<1>3. ASSUME i > 1, i < Len(s)
      PROVE  ~VerifyChain(SubSeq(s, 1, i - 1) \o SubSeq(s, i + 1, Len(s)))
  <2> DEFINE S == {s[j] : j \in DOMAIN s}
             u == SubSeq(s, 1, i - 1)
             v == SubSeq(s, i + 1, Len(s))
             d == u \o v
  <2>1. s \in Seq(S)  BY <1>1 DEF IsStore
  <2>2. u \in Seq(S) /\ Len(u) = i - 1 /\ \A j \in 1..(i - 1) : u[j] = s[j]
    <3>1. \A j \in 1..(i - 1) : s[j] \in S  BY <1>1, <1>3
    <3>. QED  BY <1>1, <1>3, <2>1, <3>1, SubSeqProperties
  <2>3. v \in Seq(S) /\ Len(v) = Len(s) - i /\ \A j \in 1..(Len(s) - i) : v[j] = s[i + j]
    <3>1. \A j \in (i + 1)..Len(s) : s[j] \in S  BY <1>1, <1>3
    <3> HIDE DEF S
    <3>2. /\ v \in Seq(S) /\ Len(v) = IF i + 1 <= Len(s) THEN Len(s) - (i + 1) + 1 ELSE 0
          /\ \A j \in 1..(Len(s) - (i + 1) + 1) : v[j] = s[i + 1 + j - 1]
      BY <1>1, <1>3, <3>1, SubSeqProperties
    <3>3. \A j \in 1..(Len(s) - i) : i + 1 + j - 1 = i + j  BY <1>1
    <3>. QED  BY <1>1, <1>3, <3>2, <3>3
  <2> HIDE DEF u, v, S
  <2>4. /\ d \in Seq(S) /\ Len(d) = Len(u) + Len(v)
        /\ \A j \in 1..(Len(u) + Len(v)) : d[j] = IF j <= Len(u) THEN u[j] ELSE v[j - Len(u)]
    BY <2>2, <2>3, ConcatProperties
  <2> HIDE DEF d
  <2>5. DOMAIN d = 1..(Len(s) - 1)
    <3>1. DOMAIN d = 1..Len(d)  BY <2>4, LenProperties
    <3>2. Len(d) = Len(s) - 1  BY <1>1, <2>2, <2>3, <2>4
    <3>. QED  BY <3>1, <3>2
  <2>6. PICK m \in DOMAIN s : m = i - 1  BY <1>1, <1>3
  <2>7. PICK n \in DOMAIN s : n = i + 1  BY <1>1, <1>3
  <2>8. i \in DOMAIN d /\ d[i] = s[n] /\ d[m] = s[m]
    <3>1. i \in 1..(Len(u) + Len(v)) /\ ~(i <= Len(u)) /\ i - Len(u) = 1
      BY <1>1, <1>3, <2>2, <2>3
    <3>2. d[i] = v[1]  BY <2>4, <3>1
    <3>3. 1 \in 1..(Len(s) - i)  BY <1>1, <1>3
    <3>4. v[1] = s[i + 1]  BY <2>3, <3>3
    <3>5. m \in 1..(Len(u) + Len(v)) /\ m <= Len(u) /\ m \in 1..(i - 1)
      BY <1>1, <1>3, <2>2, <2>3, <2>6
    <3>6. d[m] = u[m] /\ u[m] = s[m]  BY <2>2, <2>4, <3>5
    <3>. QED  BY <1>1, <1>3, <2>5, <2>7, <3>2, <3>4, <3>6
  <2>9. s[n].seq = s[i].seq + 1 /\ s[i].seq = s[m].seq + 1 /\ s[m].seq \in Nat
    <3>1. n > 1 /\ n - 1 = i /\ i - 1 = m  BY <1>1, <2>6, <2>7
    <3>2. s[n].seq = s[n - 1].seq + 1  BY <1>2, <3>1
    <3>3. s[i].seq = s[i - 1].seq + 1  BY <1>2, <1>3
    <3>4. s[m].seq \in Nat  BY <1>2 DEF IsRecord
    <3>. QED  BY <3>1, <3>2, <3>3, <3>4
  <2>10. d[i].seq # d[i - 1].seq + 1  BY <2>6, <2>8, <2>9
  <2>11. ~VerifyChain(d)  BY <1>3, <2>8, <2>10 DEF VerifyChain
  <2>. QED  BY <2>11 DEF d, u, v
<1>4. /\ edited.ts = 0 /\ edited.hash = s[i].hash /\ HashOf(edited) # s[i].hash
      /\ rehashed.hash = HashOf(edited)
  <2>1. /\ s[i] = [ts |-> s[i].ts, seq |-> s[i].seq, prev |-> s[i].prev, hash |-> s[i].hash]
        /\ s[i].ts # 0 /\ s[i].hash = <<s[i].ts, s[i].seq, s[i].prev>>
    BY <1>2 DEF IsRecord, HashOf
  <2>2. /\ edited = [ts |-> 0, seq |-> s[i].seq, prev |-> s[i].prev, hash |-> s[i].hash]
    BY <2>1
  <2>3. HashOf(edited) = <<0, s[i].seq, s[i].prev>>  BY <2>2 DEF HashOf
  <2>4. HashOf(edited) # s[i].hash  BY <2>1, <2>3
  <2>5. rehashed.hash = HashOf(edited)  BY <2>2
  <2>. QED  BY <2>2, <2>4, <2>5
<1> HIDE DEF edited, rehashed
<1>5. ~VerifyChain([s EXCEPT ![i] = edited])
  <2> DEFINE e == [s EXCEPT ![i] = edited]
  <2>1. i \in DOMAIN e /\ e[i] = edited  BY <1>1
  <2> HIDE DEF e
  <2>2. ~VerifyChain(e)  BY <1>4, <2>1 DEF VerifyChain
  <2>. QED  BY <2>2 DEF e
<1>6. ASSUME i < Len(s) PROVE ~VerifyChain([s EXCEPT ![i] = rehashed])
  <2> DEFINE e == [s EXCEPT ![i] = rehashed]
  <2>1. PICK n \in DOMAIN s : n = i + 1  BY <1>1, <1>6
  <2>2. n > 1 /\ n # i /\ n - 1 = i  BY <1>1, <2>1
  <2>3. e[i] = rehashed /\ e[n] = s[n] /\ n \in DOMAIN e  BY <1>1, <2>2
  <2>4. s[n].prev = s[i].hash
    <3>1. s[n].prev = s[n - 1].hash  BY <1>2, <2>2
    <3>. QED  BY <2>2, <3>1
  <2> HIDE DEF e
  <2>5. ~VerifyChain(e)
    <3>1. e[n].prev # e[n - 1].hash  BY <1>4, <2>2, <2>3, <2>4
    <3>. QED  BY <2>2, <2>3, <3>1 DEF VerifyChain
  <2>. QED  BY <2>5 DEF e
<1>. QED  BY <1>3, <1>5, <1>6 DEF edited, rehashed
-----------------------------------------------------------------------------
(***************************************************************************)
(* The inductive invariant.                                                *)
(***************************************************************************)

(* The sink has its fields, and an Emit is under way exactly when it has a *)
(* record.                                                                 *)
Shape ==
  /\ inner = [open |-> inner.open, store |-> inner.store, cut |-> inner.cut, tip |-> inner.tip]
  /\ inner.open \in BOOLEAN
  /\ emit.at = "none" => emit = NoEmit
  /\ emit.at # "none" => emit.rec # 0

(* What is on its way is in the order of the trips: in hand, in the queue, *)
(* in Emit.                                                                *)
InOrder ==
  /\ \A i, j \in DOMAIN queue : i < j => queue[i] < queue[j]
  /\ \A i \in DOMAIN queue : hand < queue[i]
  /\ emit.rec # 0 => hand < emit.rec /\ \A i \in DOMAIN queue : queue[i] < emit.rec

(* The store is a chain whose tip an open sink has; without a record that  *)
(* overtook another it is in the order of the trips, before all that is on *)
(* its way.                                                                *)
Stored ==
  Orderly =>
    /\ Chain(cfg.backend, inner.store)
    /\ inner.open => inner.tip = ChainTip(cfg.backend, inner.store)
    /\ \A i \in DOMAIN inner.store : inner.store[i].ts <= trips
    /\ ~overtaken =>
         /\ Sorted(inner.store)
         /\ \A i \in DOMAIN inner.store :
              /\ hand # 0 => inner.store[i].ts < hand
              /\ \A j \in DOMAIN queue : inner.store[i].ts < queue[j]
              /\ emit.rec # 0 => inner.store[i].ts < emit.rec

(* What was accepted is accounted for or on its way, and nothing is on its *)
(* way when Close has drained the queue and no Emit raced it.              *)
Accounted ==
  inner.cut = "none" =>
    accepted \subseteq settled \cup lost \cup {queue[i] : i \in DOMAIN queue} \cup {hand}
Shutdown ==
  /\ closed <=> closing # "no"
  /\ closed /\ emit.at = "checked" => raced
  /\ closing \in {"draining", "drained", "closed"} => worker # "running"
  /\ closing \in {"drained", "closed"} /\ ~raced => queue = <<>> /\ hand = 0

IInv == TypeOK /\ Shape /\ InOrder /\ Stored /\ Accounted /\ Shutdown

(* A write to the inner sink, of a record newer than all that is stored    *)
(* unless one was overtaken.                                               *)
LEMMA WriteStep ==
  ASSUME TypeOK, Shape, Stored, NEW n \in 1..trips, NEW out \in Outcomes, InnerEmit(n, out),
         Orderly /\ ~overtaken => \A i \in DOMAIN inner.store : inner.store[i].ts < n
  PROVE  /\ inner' = [open |-> inner.open, store |-> inner'.store, cut |-> inner'.cut,
                      tip |-> inner'.tip]
         /\ inner'.cut \in {"none", "tail", "inside"}
         /\ inner'.cut = "none" => inner.cut = "none" /\ settled' = settled \cup {n}
         /\ settled' \subseteq settled \cup {n} /\ settled \subseteq settled'
         /\ inner'.cut = "none" /\ (cfg.backend = "jsonl" \/ ~overtaken) =>
              /\ Chain(cfg.backend, inner'.store)
              /\ inner.open => inner'.tip = ChainTip(cfg.backend, inner'.store)
              /\ \A i \in DOMAIN inner'.store : inner'.store[i].ts <= trips
              /\ ~overtaken => /\ Sorted(inner'.store)
                               /\ \A i \in DOMAIN inner'.store : inner'.store[i].ts <= n
<1> DEFINE rec   == Seal(n, inner.tip)
           grown == IF inner.cut = "tail" THEN inner.store ELSE Append(inner.store, rec)
           kept  == IF cfg.backend = "sqlite" /\ out # "unpruned" THEN Prune(grown) ELSE grown
<1>1. /\ inner = [open |-> inner.open, store |-> inner.store, cut |-> inner.cut, tip |-> inner.tip]
      /\ inner.cut \in {"none", "tail", "inside"}
      /\ n \in Nat \ {0} /\ n <= trips /\ trips \in Nat
      /\ cfg.backend \in {"jsonl", "sqlite"} /\ overtaken \in BOOLEAN
  BY EvidenceAssumption DEF TypeOK, Shape
<1>2. CASE out = "not_written"
  <2>1. inner' = inner /\ settled' = settled \cup {n}  BY <1>2 DEF InnerEmit, InnerAfter
  <2>2. Orderly /\ ~overtaken => \A i \in DOMAIN inner.store : inner.store[i].ts <= n
    <3> SUFFICES ASSUME Orderly, ~overtaken, NEW i \in DOMAIN inner.store
                 PROVE  inner.store[i].ts <= n
      OBVIOUS
    <3>1. inner.store[i].ts < n /\ inner.store[i].ts \in Nat  BY DEF Stored, Chain, IsRecord
    <3>. QED  BY <1>1, <3>1
  <2>. QED  BY <1>1, <2>1, <2>2 DEF Stored, Orderly
<1>3. CASE out = "cut"
  <2>1. inner' = [inner EXCEPT !.cut = "tail"] /\ settled' = settled \cup {n}
    BY <1>3 DEF InnerEmit, InnerAfter
  <2>. QED  BY <1>1, <2>1
<1>4. CASE out \in {"ok", "unpruned", "no_copy"}
  <2>1. /\ inner' = [inner EXCEPT !.tip = [seq |-> @.seq + 1, hash |-> rec.hash],
                                  !.cut = IF @ = "tail" THEN "inside" ELSE @,
                                  !.store = kept]
        /\ inner.open
    BY <1>4 DEF InnerEmit, InnerAfter, Possible
  <2>2. /\ inner' = [open |-> inner.open, store |-> kept,
                     cut |-> IF inner.cut = "tail" THEN "inside" ELSE inner.cut,
                     tip |-> [seq |-> inner.tip.seq + 1, hash |-> rec.hash]]
    <3> HIDE DEF kept, rec
    <3>. QED  BY <1>1, <2>1
  <2>3. /\ settled' \subseteq settled \cup {n} /\ settled \subseteq settled'
        /\ inner.cut # "tail" => settled' = settled \cup {n}
    BY DEF InnerEmit
  <2>4. /\ inner'.store = kept /\ inner'.tip = [seq |-> inner.tip.seq + 1, hash |-> rec.hash]
        /\ inner'.cut = IF inner.cut = "tail" THEN "inside" ELSE inner.cut
    <3> HIDE DEF kept, rec
    <3>. QED  BY <2>2
  <2>5. ASSUME inner.cut = "none", cfg.backend = "jsonl" \/ ~overtaken
        PROVE  /\ Chain(cfg.backend, kept)
               /\ inner'.tip = ChainTip(cfg.backend, kept)
               /\ \A i \in DOMAIN kept : kept[i].ts <= trips
               /\ ~overtaken => /\ Sorted(kept)
                                /\ \A i \in DOMAIN kept : kept[i].ts <= n
    <3> DEFINE s == inner.store
               b == cfg.backend
    <3>1. /\ Chain(b, s) /\ inner.tip = ChainTip(b, s)
          /\ \A i \in DOMAIN s : s[i].ts <= trips /\ s[i].ts \in Nat
          /\ ~overtaken => Sorted(s) /\ \A i \in DOMAIN s : s[i].ts < n
          /\ IsStore(s)
      BY <2>1, <2>5 DEF Stored, Orderly, Chain, IsRecord
    <3>2. grown = Append(s, rec) /\ rec.ts = n  BY <2>5 DEF Seal
    <3>3. /\ Chain(b, grown)
          /\ ChainTip(b, grown) = [seq |-> inner.tip.seq + 1, hash |-> rec.hash]
      BY <1>1, <3>1, <3>2, ChainGrows
    <3> HIDE DEF rec
    <3>4. /\ DOMAIN grown = 1..(Len(s) + 1) /\ DOMAIN s = 1..Len(s) /\ Len(s) \in Nat
          /\ \A i \in 1..Len(s) : grown[i] = s[i]
          /\ grown[Len(s) + 1] = rec
      BY <3>1, <3>2, StoreAppend, StoreLen
    <3>5. ~overtaken => Sorted(grown)  BY <1>1, <3>1, <3>2, SortedGrows
    <3> HIDE DEF grown, s
    <3>6. \A i \in DOMAIN grown : i \in DOMAIN s \/ i = Len(s) + 1  BY <3>4
    <3>7. /\ \A i \in DOMAIN grown : grown[i].ts <= trips
          /\ ~overtaken => \A i \in DOMAIN grown : grown[i].ts <= n
      <4> SUFFICES ASSUME NEW i \in DOMAIN grown
                   PROVE  grown[i].ts <= trips /\ (~overtaken => grown[i].ts <= n)
        OBVIOUS
      <4>1. CASE i = Len(s) + 1  BY <1>1, <3>2, <3>4, <4>1
      <4>2. CASE i \in DOMAIN s
        <5>1. grown[i] = s[i]  BY <3>4, <4>2
        <5>2. ~overtaken => s[i].ts < n  BY <3>1, <4>2
        <5>3. s[i].ts <= trips /\ s[i].ts \in Nat  BY <3>1, <4>2
        <5>. QED  BY <1>1, <5>1, <5>2, <5>3
      <4>. QED  BY <3>6, <4>1, <4>2
    <3>8. CASE kept = grown
      BY <2>4, <3>3, <3>5, <3>7, <3>8
    <3>9. CASE kept = Prune(grown) /\ b = "sqlite"
      <4>1. ~overtaken /\ Sorted(grown) /\ Chain("sqlite", grown)  BY <2>5, <3>3, <3>5, <3>9
      <4>2. /\ Chain(b, kept) /\ Sorted(kept)
            /\ ChainTip(b, kept) = ChainTip(b, grown)
            /\ \A i \in DOMAIN kept : \E j \in DOMAIN grown : kept[i] = grown[j]
        BY <3>9, <4>1, PruneKeepsChain
      <4> HIDE DEF kept
      <4>. QED  BY <2>4, <3>3, <3>7, <4>1, <4>2
    <3>. QED  BY <1>1, <3>8, <3>9 DEF kept
  <2> HIDE DEF kept, rec
  <2>. QED  BY <1>1, <2>2, <2>3, <2>4, <2>5
<1>. QED  BY <1>2, <1>3, <1>4 DEF Outcomes
-----------------------------------------------------------------------------
(***************************************************************************)
(* Every step keeps the invariant.                                         *)
(***************************************************************************)
LEMMA QueueGrows ==
  ASSUME NEW m \in Nat, NEW q \in Seq(1..m), NEW n \in Nat, m <= n, NEW x \in 1..n
  PROVE  /\ q \in Seq(1..n) /\ Len(q) \in Nat /\ DOMAIN q = 1..Len(q)
         /\ Append(q, x) \in Seq(1..n) /\ Len(Append(q, x)) = Len(q) + 1
         /\ DOMAIN Append(q, x) = 1..(Len(q) + 1)
         /\ \A i \in DOMAIN q : Append(q, x)[i] = q[i] /\ q[i] \in 1..m
         /\ Append(q, x)[Len(q) + 1] = x
         /\ \A i \in DOMAIN Append(q, x) : i \in DOMAIN q \/ i = Len(q) + 1
<1>1. Len(q) \in Nat /\ DOMAIN q = 1..Len(q) /\ q \in [1..Len(q) -> 1..m]
  BY LenProperties
<1>2. q \in [1..Len(q) -> 1..n]  BY <1>1
<1>3. q \in Seq(1..n)  BY <1>1, <1>2, SeqDef
<1>4. /\ Append(q, x) \in Seq(1..n) /\ Len(Append(q, x)) = Len(q) + 1
      /\ \A i \in 1..Len(q) : Append(q, x)[i] = q[i]
      /\ Append(q, x)[Len(q) + 1] = x
  BY <1>3, AppendProperties
<1>5. DOMAIN Append(q, x) = 1..(Len(q) + 1)  BY <1>4, LenProperties
<1>. QED  BY <1>1, <1>3, <1>4, <1>5

(* A record newer than all that is on its way joins the queue.             *)
LEMMA EnqueueInOrder ==
  ASSUME TypeOK, InOrder, NEW n \in Nat \ {0}, trips <= trips', trips' \in Nat, n <= trips',
         queue' = Append(queue, n), \A i \in DOMAIN queue : queue[i] < n,
         hand < n
  PROVE  /\ queue' \in Seq(1..trips') /\ Len(queue') = Len(queue) + 1
         /\ \A i, j \in DOMAIN queue' : i < j => queue'[i] < queue'[j]
         /\ \A i \in DOMAIN queue' : hand < queue'[i]
         /\ {queue'[i] : i \in DOMAIN queue'} = {queue[i] : i \in DOMAIN queue} \cup {n}
<1>1. trips \in Nat /\ queue \in Seq(1..trips) /\ n \in 1..trips'  BY DEF TypeOK
<1>2. /\ Len(queue) \in Nat /\ DOMAIN queue = 1..Len(queue)
      /\ queue' \in Seq(1..trips') /\ Len(queue') = Len(queue) + 1
      /\ DOMAIN queue' = 1..(Len(queue) + 1)
      /\ \A i \in DOMAIN queue : queue'[i] = queue[i]
      /\ queue'[Len(queue) + 1] = n
      /\ \A i \in DOMAIN queue' : i \in DOMAIN queue \/ i = Len(queue) + 1
  BY <1>1, QueueGrows
<1>3. \A i, j \in DOMAIN queue' : i < j => i \in DOMAIN queue  BY <1>2
<1>4. \A i, j \in DOMAIN queue' : i < j => queue'[i] < queue'[j]
  BY <1>2, <1>3 DEF InOrder
<1>5. \A i \in DOMAIN queue' : hand < queue'[i]  BY <1>2 DEF InOrder
<1>6. Len(queue) + 1 \in DOMAIN queue' /\ \A i \in DOMAIN queue : i \in DOMAIN queue'
  BY <1>2
<1>7. {queue'[i] : i \in DOMAIN queue'} = {queue[i] : i \in DOMAIN queue} \cup {n}
  BY <1>2, <1>6
<1>. QED  BY <1>2, <1>4, <1>5, <1>7

LEMMA EmitKeeps == IInv /\ Emit => IInv'
<1> SUFFICES ASSUME IInv, Emit PROVE IInv'
  OBVIOUS
<1> USE DEF IInv
<1>1. /\ trips \in Nat /\ trips + 1 <= MaxTrips /\ trips' = trips + 1 /\ trips' \in 0..MaxTrips
      /\ MaxTrips \in Nat /\ queue \in Seq(1..trips) /\ hand \in 0..trips /\ QueueSize \in Nat
      /\ Len(queue) \in Nat
  BY EvidenceAssumption, LenProperties DEF TypeOK, Emit
<1>2. /\ queue \in Seq(1..trips') /\ \A i \in DOMAIN queue : queue[i] \in 1..trips
      /\ trips' \in 1..trips'
  BY <1>1, QueueGrows
<1>3. \A i \in DOMAIN queue : queue[i] < trips'  BY <1>1, <1>2
<1>4. hand < trips'  BY <1>1
<1>5. /\ UNCHANGED <<cfg, closed, worker, hand, closing, inner, crashes, lost, raced, overtaken>>
      /\ emit = NoEmit /\ emit.at = "none" /\ emit.rec = 0
  BY DEF Emit, NoEmit
<1>6. /\ hand' \in 0..trips' /\ lost' \subseteq 1..trips'
      /\ accepted \subseteq 1..trips' /\ settled \subseteq 1..trips'
      /\ crashes' \in 0..MaxCrashes
  BY <1>1, <1>5 DEF TypeOK
<1>7. Orderly =>
        /\ \A i \in DOMAIN inner.store : inner.store[i].ts <= trips' /\ inner.store[i].ts < trips'
  <2> SUFFICES ASSUME Orderly, NEW i \in DOMAIN inner.store
               PROVE  inner.store[i].ts <= trips' /\ inner.store[i].ts < trips'
    OBVIOUS
  <2>1. inner.store[i].ts <= trips /\ inner.store[i].ts \in Nat  BY DEF Stored, Chain, IsRecord
  <2>. QED  BY <1>1, <2>1
<1>8. CASE \E at \in {"direct", "checked"} :
             /\ emit' = [rec |-> trips', at |-> at] /\ (at = "checked" => ~closed)
             /\ UNCHANGED <<queue, accepted, settled>>
  <2>1. /\ emit'.rec = trips' /\ emit'.rec # 0 /\ emit'.at \in {"direct", "checked"}
        /\ emit' \in [rec : 0..trips', at : {"none", "checked", "direct"}]
        /\ emit'.at = "checked" => ~closed
    BY <1>1, <1>8
  <2>2. TypeOK'  BY <1>1, <1>2, <1>5, <1>6, <1>8, <2>1 DEF TypeOK
  <2>3. Shape'  BY <1>5, <2>1 DEF Shape
  <2>4. InOrder'  BY <1>3, <1>4, <1>5, <1>8, <2>1 DEF InOrder
  <2>5. Stored'  BY <1>5, <1>7, <1>8, <2>1 DEF Stored, Orderly
  <2>6. Accounted' /\ Shutdown'  BY <1>5, <1>8, <2>1 DEF Accounted, Shutdown
  <2>. QED  BY <2>2, <2>3, <2>4, <2>5, <2>6
<1>9. CASE /\ ~closed /\ accepted' = accepted \cup {trips'} /\ settled' = settled \cup {trips'}
           /\ UNCHANGED <<queue, emit>>
  <2>1. TypeOK'
    <3>1. accepted' \subseteq 1..trips' /\ settled' \subseteq 1..trips'
      BY <1>2, <1>6, <1>9
    <3>2. emit' \in [rec : 0..trips', at : {"none", "checked", "direct"}]
      BY <1>1, <1>5, <1>9 DEF NoEmit
    <3>. QED  BY <1>1, <1>2, <1>5, <1>6, <1>9, <3>1, <3>2 DEF TypeOK
  <2>2. Shape' /\ InOrder'  BY <1>5, <1>9 DEF Shape, InOrder
  <2>3. Stored'  BY <1>5, <1>7, <1>9 DEF Stored, Orderly
  <2>4. Accounted' /\ Shutdown'  BY <1>5, <1>9 DEF Accounted, Shutdown
  <2>. QED  BY <2>1, <2>2, <2>3, <2>4
<1>10. CASE /\ ~closed /\ accepted' = accepted \cup {trips'} /\ Len(queue) < QueueSize
            /\ queue' = Append(queue, trips') /\ UNCHANGED <<emit, settled>>
  <2>1. /\ queue' \in Seq(1..trips') /\ Len(queue') = Len(queue) + 1
        /\ \A i, j \in DOMAIN queue' : i < j => queue'[i] < queue'[j]
        /\ \A i \in DOMAIN queue' : hand < queue'[i]
        /\ {queue'[i] : i \in DOMAIN queue'} = {queue[i] : i \in DOMAIN queue} \cup {trips'}
    <3>1. PICK n \in Nat \ {0} : n = trips' /\ n <= trips' /\ trips' \in Nat /\ trips <= trips'
      BY <1>1
    <3>. QED  BY <1>3, <1>4, <1>10, <3>1, EnqueueInOrder
  <2>2. TypeOK'
    <3>1. accepted' \subseteq 1..trips' /\ settled' \subseteq 1..trips' /\ Len(queue') <= QueueSize
      BY <1>1, <1>2, <1>6, <1>10, <2>1
    <3>2. emit' \in [rec : 0..trips', at : {"none", "checked", "direct"}]
      BY <1>1, <1>5, <1>10 DEF NoEmit
    <3>. QED  BY <1>1, <1>5, <1>6, <2>1, <3>1, <3>2 DEF TypeOK
  <2>3. Shape' /\ InOrder'  BY <1>5, <1>10, <2>1 DEF Shape, InOrder
  <2>4. Stored'
    <3> SUFFICES ASSUME Orderly
                 PROVE  \A i \in DOMAIN inner.store :
                          /\ inner.store[i].ts <= trips'
                          /\ ~overtaken => \A j \in DOMAIN queue' : inner.store[i].ts < queue'[j]
      BY <1>5, <1>10 DEF Stored, Orderly
    <3> TAKE i \in DOMAIN inner.store
    <3>1. ASSUME ~overtaken, NEW j \in DOMAIN queue' PROVE inner.store[i].ts < queue'[j]
      <4>1. queue'[j] = trips' \/ \E k \in DOMAIN queue : queue'[j] = queue[k]  BY <2>1
      <4>. QED  BY <1>7, <3>1, <4>1 DEF Stored
    <3>. QED  BY <1>7, <3>1
  <2>5. Accounted' /\ Shutdown'  BY <1>5, <1>10, <2>1 DEF Accounted, Shutdown
  <2>. QED  BY <2>2, <2>3, <2>4, <2>5
<1>. QED  BY <1>8, <1>9, <1>10 DEF Emit

LEMMA EmitEnqueueKeeps == IInv /\ EmitEnqueue => IInv'
<1> SUFFICES ASSUME IInv, EmitEnqueue PROVE IInv'
  OBVIOUS
<1> USE DEF IInv
<1>1. /\ emit.at = "checked" /\ Len(queue) < QueueSize /\ emit' = NoEmit
      /\ queue' = Append(queue, emit.rec) /\ accepted' = accepted \cup {emit.rec}
      /\ UNCHANGED <<cfg, trips, closed, worker, hand, closing, inner, crashes, settled, lost,
                     raced, overtaken>>
  BY DEF EmitEnqueue
<1>2. /\ emit.rec \in Nat \ {0} /\ emit.rec <= trips /\ trips \in Nat /\ QueueSize \in Nat
      /\ Len(queue) \in Nat /\ emit.rec \in 1..trips
      /\ hand < emit.rec /\ \A i \in DOMAIN queue : queue[i] < emit.rec
  BY <1>1, EvidenceAssumption, LenProperties DEF TypeOK, Shape, InOrder
<1>3. /\ queue' \in Seq(1..trips') /\ Len(queue') = Len(queue) + 1
      /\ \A i, j \in DOMAIN queue' : i < j => queue'[i] < queue'[j]
      /\ \A i \in DOMAIN queue' : hand < queue'[i]
      /\ {queue'[i] : i \in DOMAIN queue'} = {queue[i] : i \in DOMAIN queue} \cup {emit.rec}
  <2>1. PICK n \in Nat \ {0} : n = emit.rec  BY <1>2
  <2>2. trips <= trips' /\ trips' \in Nat /\ n <= trips'  BY <1>1, <1>2, <2>1
  <2>. QED  BY <1>1, <1>2, <2>1, <2>2, EnqueueInOrder
<1>4. emit' \in [rec : 0..trips', at : {"none", "checked", "direct"}] /\ emit'.rec = 0 /\ emit'.at = "none"
  BY <1>1, <1>2 DEF NoEmit
<1>5. TypeOK'
  <2>1. Len(queue') <= QueueSize  BY <1>1, <1>2, <1>3
  <2>2. accepted' \subseteq 1..trips'
    <3>1. trips' = trips /\ accepted' = accepted \cup {emit.rec}  BY <1>1
    <3>. QED  BY <1>2, <3>1 DEF TypeOK
  <2>. QED  BY <1>1, <1>3, <1>4, <2>1, <2>2 DEF TypeOK
<1>6. Shape' /\ InOrder'  BY <1>1, <1>3, <1>4 DEF Shape, InOrder
<1>7. Stored'
  <2> SUFFICES ASSUME Orderly, ~overtaken, NEW i \in DOMAIN inner.store, NEW j \in DOMAIN queue'
               PROVE  inner.store[i].ts < queue'[j]
    BY <1>1, <1>4 DEF Stored, Orderly
  <2>1. queue'[j] = emit.rec \/ \E k \in DOMAIN queue : queue'[j] = queue[k]  BY <1>3
  <2>. QED  BY <1>2, <2>1 DEF Stored
<1>8. Accounted' /\ Shutdown'  BY <1>1, <1>3, <1>4 DEF Accounted, Shutdown
<1>. QED  BY <1>5, <1>6, <1>7, <1>8

LEMMA TakeKeeps == IInv /\ Take => IInv'
<1> SUFFICES ASSUME IInv, Take PROVE IInv'
  OBVIOUS
<1> USE DEF IInv
<1>1. /\ Draining /\ hand = 0 /\ queue # <<>> /\ hand' = Head(queue) /\ queue' = Tail(queue)
      /\ UNCHANGED <<cfg, trips, emit, closed, worker, closing, inner, crashes, accepted,
                     settled, lost, raced, overtaken>>
  BY DEF Take
<1>2. queue \in Seq(1..trips) /\ Len(queue) \in Nat /\ DOMAIN queue = 1..Len(queue) /\ trips \in Nat
  BY LenProperties DEF TypeOK
<1>3. /\ Head(queue) = queue[1] /\ Tail(queue) \in Seq(1..trips)
      /\ Len(Tail(queue)) = Len(queue) - 1
      /\ \A i \in 1..Len(Tail(queue)) : Tail(queue)[i] = queue[i + 1]
  BY <1>1, <1>2, HeadTailProperties
<1>4. Len(queue) >= 1  BY <1>1, <1>2, EmptySeq
<1>5. DOMAIN queue' = 1..(Len(queue) - 1)  BY <1>1, <1>3, LenProperties
<1>6. /\ hand' = queue[1] /\ 1 \in DOMAIN queue /\ queue[1] \in 1..trips
      /\ \A i \in DOMAIN queue' : i + 1 \in DOMAIN queue /\ queue'[i] = queue[i + 1]
  BY <1>1, <1>2, <1>3, <1>4, <1>5
<1>7. /\ \A i, j \in DOMAIN queue' : i < j => queue'[i] < queue'[j]
      /\ \A i \in DOMAIN queue' : hand' < queue'[i]
  <2>1. \A i, j \in DOMAIN queue' : i < j => i + 1 < j + 1  BY <1>5
  <2>2. \A i \in DOMAIN queue' : 1 < i + 1  BY <1>5
  <2>. QED  BY <1>6, <2>1, <2>2 DEF InOrder
<1>8. {queue[i] : i \in DOMAIN queue} \subseteq {queue'[i] : i \in DOMAIN queue'} \cup {hand'}
  <2> SUFFICES ASSUME NEW i \in DOMAIN queue
               PROVE  queue[i] = hand' \/ \E k \in DOMAIN queue' : queue[i] = queue'[k]
    OBVIOUS
  <2>1. CASE i = 1  BY <1>6, <2>1
  <2>2. CASE i # 1
    <3>1. i - 1 \in DOMAIN queue' /\ (i - 1) + 1 = i  BY <1>2, <1>5, <2>2
    <3>2. PICK k \in DOMAIN queue' : k + 1 = i  BY <3>1
    <3>. QED  BY <1>6, <3>2
  <2>. QED  BY <2>1, <2>2
<1>9. TypeOK'
  <2>1. hand' \in 0..trips' /\ Len(queue') <= QueueSize
    BY <1>1, <1>2, <1>3, <1>6, EvidenceAssumption DEF TypeOK
  <2>. QED  BY <1>1, <1>3, <2>1 DEF TypeOK
<1>10. Shape' /\ InOrder'
  <2>1. emit.rec # 0 => hand' < emit.rec /\ \A i \in DOMAIN queue' : queue'[i] < emit.rec
    BY <1>6 DEF InOrder
  <2>. QED  BY <1>1, <1>7, <2>1 DEF Shape, InOrder
<1>11. Stored'
  <2> SUFFICES ASSUME Orderly, ~overtaken, NEW i \in DOMAIN inner.store
               PROVE  /\ inner.store[i].ts < hand'
                      /\ \A j \in DOMAIN queue' : inner.store[i].ts < queue'[j]
    BY <1>1 DEF Stored, Orderly
  <2>. QED  BY <1>6 DEF Stored
<1>12. Accounted'
  <2>1. 0 \notin accepted  BY DEF TypeOK
  <2>. QED  BY <1>1, <1>8, <2>1 DEF Accounted
<1>13. Shutdown'
  <2>1. closing \notin {"drained", "closed"} \/ raced  BY <1>1 DEF Shutdown
  <2>. QED  BY <1>1, <2>1 DEF Shutdown
<1>. QED  BY <1>9, <1>10, <1>11, <1>12, <1>13

LEMMA WriteKeeps == IInv /\ Write => IInv'
<1> SUFFICES ASSUME IInv, NEW out \in Outcomes, EmitInner(out) PROVE IInv'
  BY DEF Write
<1> USE DEF IInv
<1>1. /\ hand # 0 /\ InnerEmit(hand, out) /\ hand' = 0
      /\ UNCHANGED <<cfg, trips, emit, queue, closed, worker, closing, crashes, accepted,
                     lost, raced, overtaken>>
  BY DEF EmitInner
<1>2. PICK n \in 1..trips : n = hand  BY <1>1 DEF TypeOK
<1>3. n \in Nat /\ trips \in Nat  BY DEF TypeOK
<1>4. /\ inner' = [open |-> inner.open, store |-> inner'.store, cut |-> inner'.cut,
                   tip |-> inner'.tip]
      /\ inner'.cut \in {"none", "tail", "inside"}
      /\ inner'.cut = "none" => inner.cut = "none" /\ settled' = settled \cup {n}
      /\ settled' \subseteq settled \cup {n} /\ settled \subseteq settled'
      /\ inner'.cut = "none" /\ (cfg.backend = "jsonl" \/ ~overtaken) =>
           /\ Chain(cfg.backend, inner'.store)
           /\ inner.open => inner'.tip = ChainTip(cfg.backend, inner'.store)
           /\ \A i \in DOMAIN inner'.store : inner'.store[i].ts <= trips
           /\ ~overtaken => /\ Sorted(inner'.store)
                            /\ \A i \in DOMAIN inner'.store : inner'.store[i].ts <= n
  <2>1. InnerEmit(n, out)  BY <1>1, <1>2
  <2>2. Orderly /\ ~overtaken => \A i \in DOMAIN inner.store : inner.store[i].ts < n
    BY <1>1, <1>2 DEF Stored
  <2>. QED  BY <2>1, <2>2, WriteStep
<1>5. inner'.open = inner.open  BY <1>4
<1>6. TypeOK'
  <2>1. hand' \in 0..trips' /\ settled' \subseteq 1..trips'  BY <1>1, <1>3, <1>4 DEF TypeOK
  <2>. QED  BY <1>1, <1>4, <2>1 DEF TypeOK
<1>7. Shape'  BY <1>1, <1>4, <1>5 DEF Shape
<1>8. InOrder'
  <2>1. \A i \in DOMAIN queue : 0 < queue[i]
    <3>1. queue \in Seq(1..trips)  BY DEF TypeOK
    <3>2. \A i \in DOMAIN queue : queue[i] \in 1..trips  BY <3>1, LenProperties
    <3>. QED  BY <1>3, <3>2
  <2>2. emit.rec # 0 => 0 < emit.rec  BY <1>3 DEF TypeOK
  <2>. QED  BY <1>1, <2>1, <2>2 DEF InOrder
<1>9. Stored'
  <2> SUFFICES ASSUME inner'.cut = "none", cfg.backend = "jsonl" \/ ~overtaken,
                      ~overtaken, NEW i \in DOMAIN inner'.store
               PROVE  /\ \A j \in DOMAIN queue : inner'.store[i].ts < queue[j]
                      /\ emit.rec # 0 => inner'.store[i].ts < emit.rec
    BY <1>1, <1>4, <1>5 DEF Stored, Orderly
  <2>1. inner'.store[i].ts <= n /\ inner'.store[i].ts \in Nat
    BY <1>4 DEF Chain, IsRecord
  <2>2. \A j \in DOMAIN queue : n < queue[j] /\ queue[j] \in Nat
    <3>1. queue \in Seq(1..trips)  BY DEF TypeOK
    <3>2. \A j \in DOMAIN queue : queue[j] \in 1..trips  BY <3>1, LenProperties
    <3>. QED  BY <1>2, <1>3, <3>2 DEF InOrder
  <2>3. emit.rec # 0 => n < emit.rec /\ emit.rec \in Nat  BY <1>2, <1>3 DEF InOrder, TypeOK
  <2>. QED  BY <1>3, <2>1, <2>2, <2>3
<1>10. Accounted'  BY <1>1, <1>2, <1>4 DEF Accounted
<1>11. Shutdown'  BY <1>1 DEF Shutdown
<1>. QED  BY <1>6, <1>7, <1>8, <1>9, <1>10, <1>11

LEMMA WriteDirectKeeps == IInv /\ WriteDirect => IInv'
<1> SUFFICES ASSUME IInv, NEW out \in Outcomes, EmitDirect(out) PROVE IInv'
  BY DEF WriteDirect
<1> USE DEF IInv
<1>1. /\ emit.at = "direct" /\ InnerEmit(emit.rec, out) /\ emit' = NoEmit
      /\ accepted' = IF out = "ok" THEN accepted \cup {emit.rec} ELSE accepted
      /\ overtaken' = (overtaken \/ queue # <<>> \/ hand # 0)
      /\ UNCHANGED <<cfg, trips, queue, closed, worker, hand, closing, crashes, lost, raced>>
  BY DEF EmitDirect
<1>2. PICK n \in 1..trips : n = emit.rec  BY <1>1 DEF TypeOK, Shape
<1>3. n \in Nat /\ n # 0 /\ trips \in Nat  BY DEF TypeOK
<1>4. /\ inner' = [open |-> inner.open, store |-> inner'.store, cut |-> inner'.cut,
                   tip |-> inner'.tip]
      /\ inner'.cut \in {"none", "tail", "inside"}
      /\ inner'.cut = "none" => inner.cut = "none" /\ settled' = settled \cup {n}
      /\ settled' \subseteq settled \cup {n} /\ settled \subseteq settled'
      /\ inner'.cut = "none" /\ (cfg.backend = "jsonl" \/ ~overtaken) =>
           /\ Chain(cfg.backend, inner'.store)
           /\ inner.open => inner'.tip = ChainTip(cfg.backend, inner'.store)
           /\ \A i \in DOMAIN inner'.store : inner'.store[i].ts <= trips
           /\ ~overtaken => /\ Sorted(inner'.store)
                            /\ \A i \in DOMAIN inner'.store : inner'.store[i].ts <= n
  <2>1. InnerEmit(n, out)  BY <1>1, <1>2
  <2>2. Orderly /\ ~overtaken => \A i \in DOMAIN inner.store : inner.store[i].ts < n
    BY <1>2, <1>3 DEF Stored
  <2>. QED  BY <2>1, <2>2, WriteStep
<1>5. inner'.open = inner.open  BY <1>4
<1>6. emit' \in [rec : 0..trips', at : {"none", "checked", "direct"}] /\ emit'.rec = 0 /\ emit'.at = "none"
  BY <1>1, <1>3 DEF NoEmit
<1>7. TypeOK'
  <2>1. settled' \subseteq 1..trips' /\ accepted' \subseteq 1..trips'
    BY <1>1, <1>2, <1>4 DEF TypeOK
  <2>2. overtaken' \in BOOLEAN  BY <1>1
  <2>. QED  BY <1>1, <1>4, <1>6, <2>1, <2>2 DEF TypeOK
<1>8. Shape'  BY <1>1, <1>4, <1>5, <1>6 DEF Shape
<1>9. InOrder'  BY <1>1, <1>6 DEF InOrder
<1>10. Stored'
  <2>1. overtaken => overtaken'  BY <1>1
  <2>2. ~overtaken' => queue' = <<>> /\ hand' = 0 /\ emit'.rec = 0  BY <1>1, <1>6
  <2>3. DOMAIN <<>> = {}  OBVIOUS
  <2>. QED  BY <1>1, <1>4, <1>5, <2>1, <2>2, <2>3 DEF Stored, Orderly
<1>11. Accounted'  BY <1>1, <1>2, <1>4 DEF Accounted
<1>12. Shutdown'  BY <1>1, <1>6 DEF Shutdown
<1>. QED  BY <1>7, <1>8, <1>9, <1>10, <1>11, <1>12

(* The steps of Emit, of the worker and of Close that move no record.      *)
LEMMA ControlKeeps ==
  IInv /\ (EmitDone \/ WorkerReturns \/ Close \/ CloseDrains \/ CloseDrained \/ CloseInner) => IInv'
<1> SUFFICES ASSUME IInv,
                    EmitDone \/ WorkerReturns \/ Close \/ CloseDrains \/ CloseDrained \/ CloseInner
             PROVE  IInv'
  OBVIOUS
<1> USE DEF IInv
<1>1. CASE EmitDone
  <2>1. /\ emit'.rec = emit.rec /\ emit'.at = "direct" /\ emit.at = "checked" /\ emit.rec # 0
        /\ emit' \in [rec : 0..trips, at : {"none", "checked", "direct"}]
    BY <1>1 DEF EmitDone, TypeOK, Shape
  <2>. QED  BY <1>1, <2>1 DEF EmitDone, TypeOK, Shape, InOrder, Stored, Orderly, Accounted, Shutdown
<1>2. CASE WorkerReturns
  BY <1>2 DEF WorkerReturns, TypeOK, Shape, InOrder, Stored, Orderly, Accounted, Shutdown
<1>3. CASE Close
  <2>1. raced' \in BOOLEAN  BY <1>3 DEF Close
  <2>2. TypeOK'  BY <1>3, <2>1 DEF Close, TypeOK
  <2>3. Shape' /\ InOrder' /\ Stored' /\ Accounted'
    BY <1>3 DEF Close, Shape, InOrder, Stored, Orderly, Accounted
  <2>4. Shutdown'  BY <1>3 DEF Close, Shutdown
  <2>. QED  BY <2>2, <2>3, <2>4
<1>4. CASE CloseDrains
  BY <1>4 DEF CloseDrains, TypeOK, Shape, InOrder, Stored, Orderly, Accounted, Shutdown
<1>5. CASE CloseDrained
  BY <1>5 DEF CloseDrained, TypeOK, Shape, InOrder, Stored, Orderly, Accounted, Shutdown
<1>6. CASE CloseInner
  <2>1. /\ inner' = [open |-> FALSE, store |-> inner.store, cut |-> inner.cut, tip |-> inner.tip]
        /\ inner'.open = FALSE /\ inner'.store = inner.store /\ inner'.cut = inner.cut
        /\ inner'.tip = inner.tip
    BY <1>6 DEF CloseInner, Shape
  <2>2. TypeOK' /\ Shape' /\ InOrder'  BY <1>6, <2>1 DEF CloseInner, TypeOK, Shape, InOrder
  <2>3. Stored' /\ Accounted' /\ Shutdown'
    BY <1>6, <2>1 DEF CloseInner, Stored, Orderly, Accounted, Shutdown
  <2>. QED  BY <2>2, <2>3
<1>. QED  BY <1>1, <1>2, <1>3, <1>4, <1>5, <1>6

LEMMA CrashKeeps == IInv /\ Crash => IInv'
<1> SUFFICES ASSUME IInv, Crash PROVE IInv'
  OBVIOUS
<1> USE DEF IInv
<1>1. /\ crashes < MaxCrashes /\ crashes' = crashes + 1 /\ lost' = lost \cup Pending
      /\ worker' = "none" /\ closing' = "closed" /\ closed' = TRUE
      /\ queue' = <<>> /\ hand' = 0 /\ emit' = NoEmit
      /\ UNCHANGED <<cfg, trips, accepted, settled, raced, overtaken>>
  BY DEF Crash
<1>2. PICK cut \in BOOLEAN : inner' = [inner EXCEPT !.open = FALSE, !.cut = IF cut THEN "tail" ELSE @]
  BY DEF Crash
<1>3. /\ inner' = [open |-> FALSE, store |-> inner.store,
                   cut |-> IF cut THEN "tail" ELSE inner.cut, tip |-> inner.tip]
      /\ inner'.open = FALSE /\ inner'.store = inner.store /\ inner'.tip = inner.tip
      /\ inner'.cut = IF cut THEN "tail" ELSE inner.cut
  BY <1>2 DEF Shape
<1>4. trips \in Nat /\ queue \in Seq(1..trips) /\ \A i \in DOMAIN queue : queue[i] \in 1..trips
  BY LenProperties DEF TypeOK
<1>5. Pending \subseteq 1..trips  BY <1>4 DEF Pending, TypeOK
<1>6. queue' \in Seq(1..trips) /\ Len(queue') = 0 /\ DOMAIN queue' = {}  BY <1>1, EmptySeq
<1>7. emit' \in [rec : 0..trips, at : {"none", "checked", "direct"}] /\ emit'.rec = 0 /\ emit'.at = "none"
  BY <1>1, <1>4 DEF NoEmit
<1>8. TypeOK'
  <2>1. crashes' \in 0..MaxCrashes /\ hand' \in 0..trips' /\ Len(queue') <= QueueSize
    BY <1>1, <1>4, <1>6, EvidenceAssumption DEF TypeOK
  <2>2. lost' \subseteq 1..trips'  BY <1>1, <1>5 DEF TypeOK
  <2>3. inner'.cut \in {"none", "tail", "inside"}  BY <1>3 DEF TypeOK
  <2>. QED  BY <1>1, <1>6, <1>7, <2>1, <2>2, <2>3 DEF TypeOK
<1>9. Shape' /\ InOrder'  BY <1>1, <1>3, <1>6, <1>7 DEF Shape, InOrder
<1>10. Stored'
  <2>1. Orderly' => Orderly /\ ~inner'.open  BY <1>1, <1>3 DEF Orderly
  <2>. QED  BY <1>1, <1>3, <1>6, <1>7, <2>1 DEF Stored
<1>11. Accounted'
  <2>1. 0 \notin accepted  BY DEF TypeOK
  <2>2. inner'.cut = "none" => inner.cut = "none"  BY <1>3
  <2>. QED  BY <1>1, <2>1, <2>2 DEF Accounted, Pending
<1>12. Shutdown'  BY <1>1, <1>7 DEF Shutdown
<1>. QED  BY <1>8, <1>9, <1>10, <1>11, <1>12

LEMMA RestartKeeps == IInv /\ Restart => IInv'
<1> SUFFICES ASSUME IInv, Restart PROVE IInv'
  OBVIOUS
<1> USE DEF IInv
<1>1. /\ worker = "none" /\ inner.cut = "none"
      /\ inner' = [inner EXCEPT !.open = TRUE, !.tip = ChainTip(cfg.backend, inner.store)]
      /\ worker' = "running" /\ closed' = FALSE /\ closing' = "no"
      /\ UNCHANGED <<cfg, trips, emit, queue, hand, crashes, accepted, settled, lost, raced, overtaken>>
  BY DEF Restart
<1>2. /\ inner' = [open |-> TRUE, store |-> inner.store, cut |-> inner.cut,
                   tip |-> ChainTip(cfg.backend, inner.store)]
      /\ inner'.open = TRUE /\ inner'.store = inner.store /\ inner'.cut = inner.cut
      /\ inner'.tip = ChainTip(cfg.backend, inner.store)
  BY <1>1 DEF Shape
<1>3. TypeOK'  BY <1>1, <1>2 DEF TypeOK
<1>4. Shape'  BY <1>1, <1>2 DEF Shape
<1>5. InOrder'  BY <1>1 DEF InOrder
<1>6. Stored'  BY <1>1, <1>2 DEF Stored, Orderly
<1>7. Accounted'  BY <1>1, <1>2 DEF Accounted
<1>8. Shutdown'  BY <1>1 DEF Shutdown
<1>. QED  BY <1>3, <1>4, <1>5, <1>6, <1>7, <1>8

LEMMA StutterKeeps == IInv /\ UNCHANGED vars => IInv'
BY DEF vars, IInv, TypeOK, Shape, InOrder, Stored, Orderly, Accounted, Shutdown

LEMMA EvidenceInv == Spec => []IInv
<1>1. Init => IInv
  <2> SUFFICES ASSUME Init PROVE IInv
    OBVIOUS
  <2>1. /\ queue = <<>> /\ <<>> \in Seq(1..trips) /\ Len(<<>>) = 0 /\ DOMAIN <<>> = {}
    BY EmptySeq DEF Init
  <2>2. TypeOK
    <3>1. trips \in 0..MaxTrips /\ crashes \in 0..MaxCrashes /\ hand \in 0..trips
      BY EvidenceAssumption DEF Init
    <3>2. emit \in [rec : 0..trips, at : {"none", "checked", "direct"}]  BY DEF Init, NoEmit
    <3>3. Len(queue) <= QueueSize  BY <2>1, EvidenceAssumption
    <3>4. inner.cut = "none"  BY DEF Init
    <3>5. queue \in Seq(1..trips)  BY <2>1
    <3>. QED  BY <3>1, <3>2, <3>3, <3>4, <3>5 DEF Init, TypeOK
  <2>3. Shape /\ InOrder /\ Accounted /\ Shutdown
    BY <2>1 DEF Init, Shape, InOrder, Accounted, Shutdown, NoEmit
  <2>4. inner.store = <<>> /\ inner.tip = [seq |-> 0, hash |-> <<>>]  BY DEF Init
  <2>5. IsStore(<<>>)  BY EmptySeq DEF IsStore
  <2>6. Stored
    BY <2>1, <2>4, <2>5 DEF Stored, Chain, VerifyChain, Sorted, ChainTip
  <2>. QED  BY <2>2, <2>3, <2>6 DEF IInv
<1>2. IInv /\ [Next]_vars => IInv'
  BY EmitKeeps, EmitEnqueueKeeps, TakeKeeps, WriteKeeps, WriteDirectKeeps, ControlKeeps,
     CrashKeeps, RestartKeeps, StutterKeeps DEF Next
<1>. QED  BY <1>1, <1>2, PTL DEF Spec
-----------------------------------------------------------------------------
(***************************************************************************)
(* The theorems.                                                           *)
(***************************************************************************)

(* The pipeline keeps its types, and its queue its capacity, through every *)
(* interleaving of Emit, worker, Close, crash and restart.                 *)
THEOREM EvidenceTypeOK == Spec => []TypeOK
BY EvidenceInv, PTL DEF IInv

(* What either store holds verifies (VerifyChain), after any failed write, *)
(* pruning, crash and restart.                                             *)
THEOREM StoreVerifies == Spec => []ChainIntact
<1>1. IInv => ChainIntact  BY DEF IInv, Stored, ChainIntact, Chain
<1>. QED  BY <1>1, EvidenceInv, PTL

(* The tip an open sink has in memory is the one scanJSONLChainTip and     *)
(* loadSQLiteChainTip would read back.                                     *)
THEOREM RestartFindsTip == Spec => []TipSurvives
<1>1. IInv => TipSurvives  BY DEF IInv, Stored, TipSurvives
<1>. QED  BY <1>1, EvidenceInv, PTL

(* VerifyChain tells a stored chain from the same chain with a record      *)
(* deleted from between two others, edited, or edited and hashed again     *)
(* before another.                                                         *)
THEOREM ChangesShow == Spec => []TamperDetected
<1>1. IInv => TamperDetected
  <2> SUFFICES ASSUME IInv, Orderly, NEW i \in DOMAIN inner.store
               PROVE  /\ i > 1 /\ i < Len(inner.store) =>
                           ~VerifyChain(SubSeq(inner.store, 1, i - 1)
                                          \o SubSeq(inner.store, i + 1, Len(inner.store)))
                      /\ LET edited == [inner.store[i] EXCEPT !.ts = 0]
                             rehashed == [edited EXCEPT !.hash = HashOf(edited)]
                         IN  /\ ~VerifyChain([inner.store EXCEPT ![i] = edited])
                             /\ i < Len(inner.store) =>
                                  ~VerifyChain([inner.store EXCEPT ![i] = rehashed])
    BY Zenon DEF TamperDetected
  <2>1. PICK s : s = inner.store  OBVIOUS
  <2>2. PICK b : b = cfg.backend  OBVIOUS
  <2>3. Chain(b, s)  BY <2>1, <2>2 DEF IInv, Stored
  <2>4. i \in DOMAIN s  BY <2>1
  <2>. QED  BY <2>1, <2>3, <2>4, ChainShowsChanges, Zenon
<1>. QED  BY <1>1, EvidenceInv, PTL

(* Once Close has closed the store, every record whose Emit returned nil   *)
(* is written or its loss was logged or counted, unless an Emit was past   *)
(* its closed check when Close began.                                      *)
THEOREM CloseLosesNothing == Spec => []DrainedOnClose
<1>1. IInv => DrainedOnClose
  <2> SUFFICES ASSUME IInv, closing = "closed", ~raced, inner.cut = "none"
               PROVE  accepted \subseteq settled \cup lost
    BY DEF DrainedOnClose
  <2>1. queue = <<>> /\ hand = 0 /\ DOMAIN queue = {}  BY DEF IInv, Shutdown
  <2>2. 0 \notin accepted  BY DEF IInv, TypeOK
  <2>. QED  BY <2>1, <2>2 DEF IInv, Accounted
<1>. QED  BY <1>1, EvidenceInv, PTL
=============================================================================
