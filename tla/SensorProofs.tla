---------------------------- MODULE SensorProofs ----------------------------
(***************************************************************************)
(* Proofs about the sensor: the kernel programs (module Probes) and what   *)
(* the readers make of their records (module Sensor).                      *)
(***************************************************************************)
EXTENDS Sensor, TextProofs

(***************************************************************************)
(* The ring buffers as lists.                                              *)
(***************************************************************************)
IsList(q) == q \in Seq(Range(q))

LEMMA ListAppend ==
  ASSUME NEW q, NEW x, IsList(q)
  PROVE  /\ IsList(Append(q, x)) /\ Len(q) \in Nat /\ Len(Append(q, x)) = Len(q) + 1
         /\ \A i \in 1..Len(q) : Append(q, x)[i] = q[i]
         /\ Append(q, x)[Len(q) + 1] = x
<1> DEFINE S == Range(q) \cup {x}
           r == Append(q, x)
<1>1. q \in Seq(S)  BY DEF IsList
<1>2. /\ r \in Seq(S) /\ Len(r) = Len(q) + 1 /\ Len(q) \in Nat
      /\ \A i \in 1..Len(q) : r[i] = q[i]
      /\ r[Len(q) + 1] = x
  BY <1>1, AppendProperties, LenProperties
<1>3. DOMAIN r = 1..Len(r) /\ Len(r) \in Nat  BY <1>2, LenProperties
<1> HIDE DEF r
<1>4. r \in Seq(Range(r))
  <2>1. r = [i \in 1..Len(r) |-> r[i]]  BY <1>2, <1>3
  <2>2. \A i \in 1..Len(r) : r[i] \in Range(r)  BY <1>3 DEF Range
  <2>. QED  BY <1>3, <2>1, <2>2
<1>. QED  BY <1>2, <1>4 DEF IsList, r

LEMMA ListTake ==
  ASSUME NEW q, IsList(q), q # <<>>
  PROVE  /\ IsList(Tail(q)) /\ Len(q) \in Nat \ {0} /\ Len(Tail(q)) = Len(q) - 1
         /\ Head(q) = q[1]
         /\ \A i \in 1..(Len(q) - 1) : Tail(q)[i] = q[i + 1]
<1> DEFINE r == Tail(q)
<1>1. q \in Seq(Range(q))  BY DEF IsList
<1>2. /\ r \in Seq(Range(q)) /\ Len(r) = Len(q) - 1 /\ Len(q) \in Nat \ {0}
      /\ \A i \in 1..Len(r) : r[i] = q[i + 1]
      /\ Head(q) = q[1]
  BY <1>1, HeadTailProperties, LenProperties, EmptySeq
<1>3. DOMAIN r = 1..Len(r) /\ Len(r) \in Nat  BY <1>2, LenProperties
<1> HIDE DEF r
<1>4. r \in Seq(Range(r))
  <2>1. r = [i \in 1..Len(r) |-> r[i]]  BY <1>2, <1>3
  <2>2. \A i \in 1..Len(r) : r[i] \in Range(r)  BY <1>3 DEF Range
  <2>. QED  BY <1>3, <2>1, <2>2
<1>. QED  BY <1>2, <1>4 DEF IsList, r
-----------------------------------------------------------------------------
(***************************************************************************)
(* The kernel programs.                                                    *)
(***************************************************************************)

(* gather_iov as a loop: Gathers(f, iov, limit, n) says that f holds the   *)
(* state after i iovecs at i, up to n.                                     *)
Nil == [out |-> <<>>, stop |-> FALSE]
Gathers(f, iov, limit, n) ==
  f = [i \in 0..n |-> IF i = 0 THEN Nil
                      ELSE copy_iovec(f[i - 1], iov[i], limit, limit - Len(f[i - 1].out))]

LEMMA GathersExists ==
  ASSUME NEW iov, NEW limit, NEW n \in Nat
  PROVE  \E f : Gathers(f, iov, limit, n)
<1> DEFINE More(f, i) == copy_iovec(f[i - 1], iov[i], limit, limit - Len(f[i - 1].out))
           Bad == {m \in Nat : ~ \E f : Gathers(f, iov, limit, m)}
<1> SUFFICES ASSUME Bad # {} PROVE FALSE  OBVIOUS
<1>1. PICK m \in Bad : \A k \in Bad : ~(k < m)
  <2>1. Bad \subseteq Nat  OBVIOUS
  <2> HIDE DEF Bad
  <2>. QED  BY <2>1, LeastNat
<1>2. m \in Nat /\ ~ \E f : Gathers(f, iov, limit, m)  OBVIOUS
<1>3. CASE m = 0
  <2> DEFINE f == [i \in 0..0 |-> Nil]
  <2>1. \A i \in 0..0 : i = 0  OBVIOUS
  <2>2. Gathers(f, iov, limit, 0)  BY <2>1 DEF Gathers
  <2>. QED  BY <1>2, <1>3, <2>2
<1>4. CASE m # 0
  <2>1. m - 1 \in Nat /\ m - 1 < m  BY <1>2, <1>4
  <2>2. m - 1 \notin Bad
    <3> HIDE DEF Bad
    <3>. QED  BY <1>1, <2>1
  <2>3. PICK f : Gathers(f, iov, limit, m - 1)  BY <2>1, <2>2
  <2> DEFINE g == [i \in 0..m |-> IF i = m THEN More(f, m) ELSE f[i]]
  <2>4. Gathers(g, iov, limit, m)
    <3>1. \A i \in 0..(m - 1) : f[i] = IF i = 0 THEN Nil ELSE More(f, i)
      BY <2>3 DEF Gathers
    <3>2. \A i \in 0..m : g[i] = IF i = 0 THEN Nil ELSE More(g, i)
      <4> SUFFICES ASSUME NEW i \in 0..m PROVE g[i] = IF i = 0 THEN Nil ELSE More(g, i)
        OBVIOUS
      <4>1. i # 0 => i - 1 \in 0..m /\ i - 1 # m  BY <1>2
      <4>2. i # 0 => g[i - 1] = f[i - 1]  BY <4>1
      <4>3. CASE i = m  BY <1>4, <4>2, <4>3
      <4>4. CASE i # m
        <5>1. i \in 0..(m - 1)  BY <1>2, <4>4
        <5>2. g[i] = f[i]  BY <4>4
        <5>. QED  BY <3>1, <4>2, <5>1, <5>2
      <4>. QED  BY <4>3, <4>4
    <3>3. g = [i \in 0..m |-> g[i]]  OBVIOUS
    <3> HIDE DEF g
    <3>4. g = [i \in 0..m |-> IF i = 0 THEN Nil ELSE More(g, i)]  BY <3>2, <3>3
    <3>. QED  BY <3>4 DEF Gathers
  <2>. QED  BY <1>2, <2>4
<1>. QED  BY <1>3, <1>4

(* The iovecs up to n can be read, and their texts joined.                 *)
AllRead(iov, n) == \A i \in 1..n : iov[i] \notin {Unmapped, BadIovec}
Bare(v) == IF Nothing(v) THEN <<>> ELSE v
Run(iov, n) == Join([i \in 1..n |-> Bare(iov[i])])

LEMMA BareText ==
  ASSUME NEW v \in Iovecs, v \notin {Unmapped, BadIovec}
  PROVE  Bare(v) \in Seq(Atoms)
<1>1. v = NULL \/ v \in Seq(Atoms)  BY DEF Iovecs
<1>. QED  BY <1>1 DEF Bare, Nothing

LEMMA RunStep ==
  ASSUME NEW iov \in Seq(Iovecs), NEW n \in Nat, n + 1 <= Len(iov), AllRead(iov, n + 1)
  PROVE  Run(iov, n) \in Seq(Atoms) /\ Run(iov, n + 1) = Run(iov, n) \o Bare(iov[n + 1])
<1> DEFINE c == [i \in 1..n |-> Bare(iov[i])]
           d == [i \in 1..(n + 1) |-> Bare(iov[i])]
           x == Bare(iov[n + 1])
<1>1. \A i \in 1..(n + 1) : Bare(iov[i]) \in Seq(Atoms)
  <2> SUFFICES ASSUME NEW i \in 1..(n + 1) PROVE Bare(iov[i]) \in Seq(Atoms)  OBVIOUS
  <2>1. Len(iov) \in Nat  BY LenProperties
  <2>2. i \in 1..Len(iov)  BY <2>1
  <2>3. iov[i] \in Iovecs /\ iov[i] \notin {Unmapped, BadIovec}  BY <2>2, ElementOfSeq DEF AllRead
  <2>. QED  BY <2>3, BareText
<1>2. c \in Seq(Seq(Atoms)) /\ x \in Seq(Atoms)
  <2>1. \A i \in 1..n : Bare(iov[i]) \in Seq(Atoms)  BY <1>1
  <2>2. n + 1 \in 1..(n + 1)  OBVIOUS
  <2>. QED  BY <1>1, <2>1, <2>2
<1>3. d = Append(c, x)
  <2>1. d \in Seq(Seq(Atoms)) /\ Len(d) = n + 1  BY <1>1
  <2>2. Len(c) = n  OBVIOUS
  <2>3. /\ Append(c, x) \in Seq(Seq(Atoms)) /\ Len(Append(c, x)) = n + 1
        /\ \A i \in 1..n : Append(c, x)[i] = c[i]
        /\ Append(c, x)[n + 1] = x
    <3> HIDE DEF c, x
    <3>. QED  BY <1>2, <2>2, AppendProperties
  <2>4. \A i \in 1..(n + 1) : d[i] = Append(c, x)[i]
    <3>1. \A i \in 1..n : d[i] = c[i]  OBVIOUS
    <3>2. d[n + 1] = x  OBVIOUS
    <3> HIDE DEF d, c, x
    <3> SUFFICES ASSUME NEW i \in 1..(n + 1) PROVE d[i] = Append(c, x)[i]  OBVIOUS
    <3>3. CASE i \in 1..n  BY <2>3, <3>1, <3>3
    <3>4. CASE i = n + 1  BY <2>3, <3>2, <3>4
    <3>5. i \in 1..n \/ i = n + 1  OBVIOUS
    <3>. QED  BY <3>3, <3>4, <3>5
  <2> HIDE DEF d, c, x
  <2>. QED  BY <2>1, <2>3, <2>4, SeqEqual
<1> HIDE DEF c, d, x
<1>4. Join(c) \in Seq(Atoms) /\ Join(d) = Join(c) \o x  BY <1>2, <1>3, JoinAppend
<1>. QED  BY <1>4 DEF Run, c, d, x

LEMMA RunNothing == ASSUME NEW iov PROVE Run(iov, 0) = <<>>
<1>1. [i \in 1..0 |-> Bare(iov[i])] = <<>>  OBVIOUS
<1>. QED  BY <1>1, JoinNothing DEF Run

(* One iovec that can be read, as the loop copies it.                      *)
LEMMA CopyReadable ==
  ASSUME NEW limit \in Nat, NEW run \in Seq(Atoms), NEW v \in Iovecs,
         v \notin {Unmapped, BadIovec}, NEW acc, acc.out = Cut(run, limit),
         acc.stop \in BOOLEAN, acc.stop => Len(run) >= limit,
         NEW new, new = copy_iovec(acc, v, limit, limit - Len(acc.out))
  PROVE  /\ new.out = Cut(run \o Bare(v), limit)
         /\ new.stop \in BOOLEAN /\ (new.stop => Len(run \o Bare(v)) >= limit)
<1> DEFINE x == Bare(v)
<1>1. x \in Seq(Atoms)  BY BareText
<1>2. Len(run) \in Nat /\ Len(x) \in Nat  BY <1>1, LenProperties
<1>3. run \o x \in Seq(Atoms) /\ Len(run \o x) = Len(run) + Len(x)  BY <1>1, ConcatProperties
<1>4. Len(acc.out) = IF Len(run) < limit THEN Len(run) ELSE limit  BY CutText
<1> HIDE DEF x
<1> SUFFICES /\ new.out = Cut(run \o x, limit)
             /\ new.stop \in BOOLEAN /\ (new.stop => Len(run \o x) >= limit)
  BY DEF x
<1>5. CASE Len(run) >= limit
  <2>1. Len(acc.out) >= limit  BY <1>2, <1>4, <1>5
  <2>2. new.out = acc.out /\ new.stop = TRUE  BY <2>1 DEF copy_iovec
  <2>3. Cut(run \o x, limit) = Cut(run, limit)  BY <1>1, <1>2, <1>5, CutFull
  <2>4. Len(run \o x) >= limit  BY <1>2, <1>3, <1>5
  <2>. QED  BY <2>2, <2>3, <2>4
<1>6. CASE Len(run) < limit
  <2>1. Cut(run, limit) = run /\ Cut(run \o x, limit) = run \o Cut(x, limit - Len(run))
    BY <1>1, <1>6, CutMore
  <2>2. ~acc.stop /\ acc.out = run /\ ~(Len(acc.out) >= limit)  BY <1>2, <1>6, <2>1
  <2>3. CASE Nothing(v)
    <3>1. v \notin {BadIovec, Unmapped} /\ new = acc
      BY <2>2, <2>3 DEF copy_iovec
    <3>2. x = <<>> /\ run \o x = run  BY <2>3, ConcatEmptySeq DEF x, Bare
    <3>3. new.out = Cut(run \o x, limit)  BY <2>1, <2>2, <3>1, <3>2
    <3>4. ~new.stop /\ new.stop \in BOOLEAN  BY <2>2, <3>1
    <3>. QED  BY <3>3, <3>4
  <2>4. CASE ~Nothing(v)
    <3>1. x = v  BY <2>4 DEF Bare, x
    <3>2. new = [out |-> acc.out \o Cut(v, limit - Len(acc.out)), stop |-> FALSE]
      BY <2>2, <2>4 DEF copy_iovec, Cut
    <3>3. new.out = acc.out \o Cut(v, limit - Len(acc.out)) /\ new.stop = FALSE  BY <3>2
    <3>4. new.out = Cut(run \o x, limit)  BY <2>1, <2>2, <3>1, <3>3
    <3>. QED  BY <3>3, <3>4
  <2>. QED  BY <2>3, <2>4
<1>. QED  BY <1>2, <1>5, <1>6

(* After the loop the buffer holds the readable run, cut at the limit.     *)
LEMMA LoopGathers ==
  ASSUME NEW limit \in Nat, NEW iov \in Seq(Iovecs), NEW n \in Nat, n <= Len(iov),
         NEW f, Gathers(f, iov, limit, n),
         NEW u \in 0..n, AllRead(iov, u), \A m \in (u + 1)..n : ~AllRead(iov, m)
  PROVE  Run(iov, u) \in Seq(Atoms) /\ f[n].out = Cut(Run(iov, u), limit)
<1> DEFINE Upto(i) == IF i <= u THEN i ELSE u
           Good(i) == /\ f[i].out = Cut(Run(iov, Upto(i)), limit)
                      /\ f[i].stop \in BOOLEAN
                      /\ f[i].stop => i > u \/ Len(Run(iov, i)) >= limit
                      /\ i > u => f[i].stop
                      /\ Run(iov, Upto(i)) \in Seq(Atoms)
           Bad == {i \in Nat : i \in 0..n /\ ~Good(i)}
<1>0. Len(iov) \in Nat  BY LenProperties
<1>1. Bad = {}
  <2> SUFFICES ASSUME Bad # {} PROVE FALSE  OBVIOUS
  <2>1. PICK i \in Bad : \A j \in Bad : ~(j < i)
    <3>1. Bad \subseteq Nat  OBVIOUS
    <3> HIDE DEF Bad
    <3>. QED  BY <3>1, LeastNat
  <2>2. i \in 0..n /\ ~Good(i)  OBVIOUS
  <2>3. CASE i = 0
    <3>1. f[0] = Nil  BY <2>2, <2>3 DEF Gathers
    <3>2. Run(iov, 0) = <<>> /\ <<>> \in Seq(Atoms) /\ Len(<<>>) = 0  BY RunNothing
    <3>3. Cut(<<>>, limit) = <<>>  BY CutNothing
    <3>4. Upto(0) = 0 /\ ~(0 > u)  OBVIOUS
    <3>5. Good(0)
      <4> HIDE DEF Upto
      <4>1. f[0].out = <<>> /\ f[0].stop = FALSE  BY <3>1 DEF Nil
      <4>. QED  BY <3>2, <3>3, <3>4, <4>1
    <3>. QED  BY <2>2, <2>3, <3>5
  <2>4. CASE i # 0
    <3> DEFINE k == i - 1
    <3>1. k \in Nat /\ k \in 0..n /\ k < i /\ i = k + 1 /\ i \in 1..Len(iov)
      BY <1>0, <2>2, <2>4
    <3>2. Good(k)
      <4>1. k \notin Bad
        <5> HIDE DEF Bad
        <5>. QED  BY <2>1, <3>1
      <4>. QED  BY <3>1, <4>1
    <3>3. f[i] = copy_iovec(f[k], iov[i], limit, limit - Len(f[k].out))
      BY <2>2, <2>4 DEF Gathers
    <3>4. iov[i] \in Iovecs  BY <3>1, ElementOfSeq
    <3> HIDE DEF k
    <3>5. CASE i <= u
      <4>1. AllRead(iov, i) /\ iov[i] \notin {Unmapped, BadIovec}  BY <3>1, <3>5 DEF AllRead
      <4>2. Run(iov, k) \in Seq(Atoms) /\ Run(iov, i) = Run(iov, k) \o Bare(iov[i])
        BY <3>1, <4>1, RunStep
      <4>3. /\ f[k].out = Cut(Run(iov, k), limit)
            /\ f[k].stop \in BOOLEAN /\ (f[k].stop => Len(Run(iov, k)) >= limit)
        BY <3>1, <3>2, <3>5
      <4>4. /\ f[i].out = Cut(Run(iov, i), limit)
            /\ f[i].stop \in BOOLEAN /\ (f[i].stop => Len(Run(iov, i)) >= limit)
        <5> DEFINE run == Run(iov, k)
                   v   == iov[i]
                   acc == f[k]
                   new == f[i]
        <5>1. /\ run \in Seq(Atoms) /\ v \in Iovecs /\ v \notin {Unmapped, BadIovec}
              /\ acc.out = Cut(run, limit) /\ acc.stop \in BOOLEAN
              /\ acc.stop => Len(run) >= limit
              /\ new = copy_iovec(acc, v, limit, limit - Len(acc.out))
          BY <3>3, <3>4, <4>1, <4>2, <4>3
        <5> HIDE DEF run, v, acc, new
        <5>2. /\ new.out = Cut(run \o Bare(v), limit)
              /\ new.stop \in BOOLEAN /\ (new.stop => Len(run \o Bare(v)) >= limit)
          BY <5>1, CopyReadable, SMTT(30)
        <5>. QED  BY <4>2, <5>2 DEF run, v, new
      <4>5. Run(iov, i) \in Seq(Atoms)
        BY <3>4, <4>1, <4>2, BareText, ConcatProperties
      <4>6. Good(i)  BY <3>1, <3>5, <4>4, <4>5
      <4>. QED  BY <2>2, <4>6
    <3>6. CASE i = u + 1
      <4>1. iov[i] \in {Unmapped, BadIovec}
        <5>1. ~AllRead(iov, i)  BY <2>2, <3>6
        <5>. QED  BY <3>1, <3>6, <5>1 DEF AllRead
      <4>2. f[i] = [out |-> f[k].out, stop |-> TRUE]  BY <3>3, <4>1 DEF copy_iovec
      <4>3. Upto(k) = u /\ Upto(i) = u /\ i > u  BY <3>1, <3>6
      <4>4. Good(i)  BY <3>2, <4>2, <4>3
      <4>. QED  BY <2>2, <4>4
    <3>7. CASE i > u + 1
      <4>1. k > u /\ Upto(k) = u /\ Upto(i) = u /\ i > u  BY <3>1, <3>7
      <4>2. f[k].stop  BY <3>2, <4>1
      <4>3. f[i] = [out |-> f[k].out, stop |-> TRUE]  BY <3>3, <4>2 DEF copy_iovec
      <4>4. Good(i)  BY <3>2, <4>1, <4>3
      <4>. QED  BY <2>2, <4>4
    <3>. QED  BY <2>2, <3>5, <3>6, <3>7
  <2>. QED  BY <2>3, <2>4
<1>2. Good(n) /\ Upto(n) = u
  <2>1. n \in 0..n  OBVIOUS
  <2>2. Good(n)  BY <1>1, <2>1
  <2>. QED  BY <2>2
<1>. QED  BY <1>2

(* There is a longest run of iovecs that can be read, ...                  *)
LEMMA LongestRun ==
  ASSUME NEW iov \in Seq(Iovecs)
  PROVE  \E u \in 0..Len(iov) :
           /\ u <= IOV_MAX /\ AllRead(iov, u)
           /\ \A m \in (u + 1)..Len(iov) : m <= IOV_MAX => ~AllRead(iov, m)
<1> DEFINE n == iovcnt(iov)
<1>0. /\ Len(iov) \in Nat /\ IOV_MAX \in Nat
      /\ n \in Nat /\ n <= Len(iov) /\ n <= IOV_MAX /\ (n < Len(iov) => n = IOV_MAX)
  BY LenProperties, ProbesAssumption DEF iovcnt
<1> HIDE DEF n
<1>1. CASE AllRead(iov, n)
  <2>1. n \in 0..Len(iov) /\ \A m \in (n + 1)..Len(iov) : ~(m <= IOV_MAX)  BY <1>0
  <2>. QED  BY <1>0, <1>1, <2>1
<1>2. CASE ~AllRead(iov, n)
  <2> DEFINE Bad == {m \in Nat : ~AllRead(iov, m)}
  <2>1. PICK b \in Bad : \A m \in Bad : ~(m < b)
    <3>1. Bad \subseteq Nat /\ Bad # {}  BY <1>0, <1>2
    <3> HIDE DEF Bad
    <3>. QED  BY <3>1, LeastNat
  <2>2. b \in Nat /\ ~AllRead(iov, b)  OBVIOUS
  <2>3. b # 0  BY <2>2 DEF AllRead
  <2>4. AllRead(iov, b - 1)
    <3>1. b - 1 \in Nat /\ b - 1 < b  BY <2>2, <2>3
    <3>2. b - 1 \notin Bad
      <4> HIDE DEF Bad
      <4>. QED  BY <2>1, <3>1
    <3>. QED  BY <3>1, <3>2
  <2>5. b <= n
    <3>1. n \in Bad  BY <1>0, <1>2
    <3> HIDE DEF Bad
    <3>. QED  BY <1>0, <2>1, <2>2, <3>1
  <2>6. \A m \in b..Len(iov) : ~AllRead(iov, m)  BY <1>0, <2>2 DEF AllRead
  <2>7. b - 1 \in 0..Len(iov) /\ b - 1 <= IOV_MAX /\ (b - 1) + 1 = b  BY <1>0, <2>2, <2>3, <2>5
  <2>. QED  BY <2>4, <2>6, <2>7
<1>. QED  BY <1>1, <1>2

(* ... which is what a record should hold, ...                             *)
LEMMA LongestReadableIs ==
  ASSUME NEW iov \in Seq(Iovecs), NEW cap
  PROVE  \E u \in 0..iovcnt(iov) :
           /\ AllRead(iov, u) /\ \A m \in (u + 1)..iovcnt(iov) : ~AllRead(iov, m)
           /\ LongestReadable(iov, cap) = Cut(Run(iov, u), cap)
<1> DEFINE Upto(n) == /\ n <= IOV_MAX /\ AllRead(iov, n)
                      /\ \A m \in (n + 1)..Len(iov) : m <= IOV_MAX => ~AllRead(iov, m)
           u == CHOOSE n \in 0..Len(iov) : Upto(n)
<1>1. u \in 0..Len(iov) /\ Upto(u)  BY LongestRun
<1>2. LongestReadable(iov, cap) = Cut(Run(iov, u), cap)
  BY DEF LongestReadable, Cut, Run, Bare, AllRead
<1> HIDE DEF u
<1>3. Len(iov) \in Nat /\ IOV_MAX \in Nat  BY LenProperties, ProbesAssumption
<1>4. u \in 0..iovcnt(iov) /\ \A m \in (u + 1)..iovcnt(iov) : ~AllRead(iov, m)
  BY <1>1, <1>3 DEF iovcnt
<1>. QED  BY <1>1, <1>2, <1>4

(* ... and what gather_iov gathers.                                        *)
LEMMA Gathered ==
  ASSUME payload_limit \in Nat, NEW iov \in Seq(Iovecs)
  PROVE  /\ gather_iov(iov) = LongestReadable(iov, payload_limit)
         /\ gather_iov(iov) \in Seq(Atoms) /\ Len(gather_iov(iov)) <= payload_limit
<1> DEFINE n == iovcnt(iov)
           limit == payload_limit
           f == CHOOSE f : f = [i \in 0..n |->
                  IF i = 0 THEN [out |-> <<>>, stop |-> FALSE]
                  ELSE copy_iovec(f[i - 1], iov[i], limit, limit - Len(f[i - 1].out))]
<1>0. n \in Nat /\ n <= Len(iov)  BY LenProperties, ProbesAssumption DEF iovcnt
<1>1. Gathers(f, iov, limit, n)
  <2>1. \E g : Gathers(g, iov, limit, n)  BY <1>0, GathersExists
  <2>. QED  BY <2>1 DEF Gathers, Nil
<1>2. gather_iov(iov) = f[n].out  BY DEF gather_iov
<1>3. limit \in Nat  OBVIOUS
<1> HIDE DEF f, limit
<1>4. PICK u \in 0..n :
        /\ AllRead(iov, u) /\ \A m \in (u + 1)..n : ~AllRead(iov, m)
        /\ LongestReadable(iov, limit) = Cut(Run(iov, u), limit)
  BY LongestReadableIs
<1> HIDE DEF n
<1>5. Run(iov, u) \in Seq(Atoms) /\ f[n].out = Cut(Run(iov, u), limit)
  BY <1>0, <1>1, <1>3, <1>4, LoopGathers
<1>6. /\ Cut(Run(iov, u), limit) \in Seq(Atoms)
      /\ Len(Cut(Run(iov, u), limit)) = IF Len(Run(iov, u)) < limit THEN Len(Run(iov, u)) ELSE limit
  BY <1>3, <1>5, CutText
<1>7. Len(Run(iov, u)) \in Nat  BY <1>5, LenProperties
<1>8. Len(Cut(Run(iov, u), limit)) <= limit  BY <1>3, <1>6, <1>7
<1>. QED  BY <1>2, <1>4, <1>5, <1>6, <1>8 DEF limit

(* One buffer is an array of one iovec.                                    *)
LEMMA ReadExactly ==
  ASSUME payload_limit \in Nat, NEW buf \in Seq(Atoms)
  PROVE  /\ read_payload(buf) = LongestReadable(<<buf>>, payload_limit)
         /\ Len(read_payload(buf)) = IF Len(buf) < payload_limit THEN Len(buf) ELSE payload_limit
<1> DEFINE iov == <<buf>>
<1>1. iov \in Seq(Iovecs) /\ Len(iov) = 1 /\ iov[1] = buf  BY DEF Iovecs
<1>2. buf \notin {Unmapped, BadIovec}  BY ProbesAssumption
<1>3. iovcnt(iov) = 1  BY <1>1, ProbesAssumption DEF iovcnt
<1>4. AllRead(iov, 1)  BY <1>1, <1>2 DEF AllRead
<1> HIDE DEF iov
<1>5. PICK u \in 0..1 : /\ \A m \in (u + 1)..1 : ~AllRead(iov, m)
                        /\ LongestReadable(iov, payload_limit) = Cut(Run(iov, u), payload_limit)
  BY <1>1, <1>3, LongestReadableIs
<1>6. u = 1  BY <1>4, <1>5
<1>7. Run(iov, 1) = buf
  <2>1. Run(iov, 1) = Run(iov, 0) \o Bare(iov[1])
    <3> DEFINE n == 0
    <3>1. n \in Nat /\ n + 1 = 1  OBVIOUS
    <3> HIDE DEF n
    <3>2. n + 1 <= Len(iov) /\ AllRead(iov, n + 1)  BY <1>1, <1>4, <3>1
    <3>3. Run(iov, n + 1) = Run(iov, n) \o Bare(iov[n + 1])
      BY <1>1, <3>1, <3>2, RunStep
    <3>. QED  BY <3>1, <3>3 DEF n
  <2>2. Bare(buf) = buf
    <3>1. buf # NULL  BY ProbesAssumption
    <3>. QED  BY <3>1 DEF Bare, Nothing
  <2>3. Run(iov, 0) = <<>>  BY RunNothing
  <2>4. <<>> \o buf = buf  BY ConcatEmptySeq
  <2>. QED  BY <1>1, <2>1, <2>2, <2>3, <2>4
<1>8. read_payload(buf) = Cut(buf, payload_limit)  BY DEF read_payload, clamp_cap, Cut
<1>9. Len(Cut(buf, payload_limit)) = IF Len(buf) < payload_limit THEN Len(buf) ELSE payload_limit
  BY CutText
<1>. QED  BY <1>5, <1>6, <1>7, <1>8, <1>9 DEF iov

(* What a task passed that can be gathered is gathered.                    *)
LEMMA RunGrows ==
  ASSUME NEW iov \in Seq(Iovecs), NEW u \in 0..Len(iov), AllRead(iov, u), NEW i \in 1..u
  PROVE  Run(iov, u) \in Seq(Atoms) /\ Len(Run(iov, u)) >= Len(Bare(iov[i]))
<1> DEFINE Good(k) == Run(iov, k) \in Seq(Atoms) /\ Len(Run(iov, k)) >= Len(Bare(iov[i]))
           Bad == {k \in Nat : k \in i..u /\ ~Good(k)}
<1>0. Len(iov) \in Nat /\ u \in Nat /\ i \in 1..Len(iov)  BY LenProperties
<1>1. ASSUME NEW k \in Nat, k + 1 <= u
      PROVE  /\ Run(iov, k) \in Seq(Atoms) /\ Run(iov, k + 1) \in Seq(Atoms)
             /\ Bare(iov[k + 1]) \in Seq(Atoms)
             /\ Len(Run(iov, k + 1)) = Len(Run(iov, k)) + Len(Bare(iov[k + 1]))
  <2>1. AllRead(iov, k + 1) /\ k + 1 <= Len(iov)  BY <1>0, <1>1 DEF AllRead
  <2>2. Run(iov, k) \in Seq(Atoms) /\ Run(iov, k + 1) = Run(iov, k) \o Bare(iov[k + 1])
    BY <2>1, RunStep
  <2>3. k + 1 \in 1..Len(iov) /\ k + 1 \in 1..(k + 1)  BY <1>0, <2>1
  <2>4. iov[k + 1] \in Iovecs /\ iov[k + 1] \notin {Unmapped, BadIovec}
    BY <2>1, <2>3, ElementOfSeq DEF AllRead
  <2>5. Bare(iov[k + 1]) \in Seq(Atoms)  BY <2>4, BareText
  <2>. QED  BY <2>2, <2>5, ConcatProperties
<1>2. Bad = {}
  <2> SUFFICES ASSUME Bad # {} PROVE FALSE  OBVIOUS
  <2>1. PICK k \in Bad : \A j \in Bad : ~(j < k)
    <3>1. Bad \subseteq Nat  OBVIOUS
    <3> HIDE DEF Bad
    <3>. QED  BY <3>1, LeastNat
  <2>2. k \in Nat /\ k \in i..u /\ ~Good(k)  OBVIOUS
  <2> DEFINE j == k - 1
  <2>3. j \in Nat /\ j + 1 = k /\ j < k /\ j + 1 <= u  BY <1>0, <2>2
  <2> HIDE DEF j
  <2>4. /\ Run(iov, j) \in Seq(Atoms) /\ Run(iov, k) \in Seq(Atoms)
        /\ Bare(iov[k]) \in Seq(Atoms)
        /\ Len(Run(iov, k)) = Len(Run(iov, j)) + Len(Bare(iov[k]))
    BY <1>1, <2>3
  <2>5. Len(Run(iov, j)) \in Nat /\ Len(Bare(iov[k])) \in Nat  BY <2>4, LenProperties
  <2>6. CASE k = i  BY <2>2, <2>4, <2>5, <2>6
  <2>7. CASE k # i
    <3>1. j \in i..u  BY <1>0, <2>2, <2>3, <2>7
    <3>2. j \notin Bad
      <4> HIDE DEF Bad
      <4>. QED  BY <2>1, <2>3
    <3>3. Good(j)  BY <2>3, <3>1, <3>2
    <3>4. Len(Bare(iov[i])) \in Nat
      <4> DEFINE h == i - 1
      <4>1. h \in Nat /\ h + 1 = i /\ h + 1 <= u  BY <1>0
      <4> HIDE DEF h
      <4>2. Bare(iov[i]) \in Seq(Atoms)  BY <1>1, <4>1
      <4>. QED  BY <4>2, LenProperties
    <3>. QED  BY <2>2, <2>4, <2>5, <3>3, <3>4
  <2>. QED  BY <2>6, <2>7
<1>3. u \in Nat /\ u \in i..u  BY <1>0
<1>4. Good(u)  BY <1>2, <1>3
<1>. QED  BY <1>4

LEMMA GatherableGathered ==
  ASSUME payload_limit \in Nat \ {0}, NEW iov \in Seq(Iovecs), Gatherable(iov)
  PROVE  gather_iov(iov) # <<>>
<1>1. PICK i \in 1..Len(iov) : /\ i <= IOV_MAX /\ Readable(iov[i]) /\ iov[i] # <<>>
                               /\ \A j \in 1..i : iov[j] \notin {Unmapped, BadIovec}
  BY DEF Gatherable
<1>2. AllRead(iov, i)  BY <1>1 DEF AllRead
<1>3. PICK u \in 0..iovcnt(iov) :
        /\ AllRead(iov, u) /\ \A m \in (u + 1)..iovcnt(iov) : ~AllRead(iov, m)
        /\ LongestReadable(iov, payload_limit) = Cut(Run(iov, u), payload_limit)
  BY LongestReadableIs
<1>4. Len(iov) \in Nat /\ IOV_MAX \in Nat  BY LenProperties, ProbesAssumption
<1>5. u \in 0..Len(iov) /\ i \in 1..iovcnt(iov)  BY <1>1, <1>4 DEF iovcnt
<1>6. i \in 1..u  BY <1>2, <1>3, <1>4, <1>5
<1>7. Run(iov, u) \in Seq(Atoms) /\ Len(Run(iov, u)) >= Len(Bare(iov[i]))
  BY <1>3, <1>5, <1>6, RunGrows
<1>8. Len(Bare(iov[i])) \in Nat \ {0}
  <2>1. iov[i] \in Iovecs  BY ElementOfSeq
  <2>2. iov[i] \in Seq(Atoms) /\ iov[i] # <<>>  BY <1>1, <2>1 DEF Iovecs, Readable
  <2>3. iov[i] # NULL  BY <2>2, ProbesAssumption
  <2>4. Bare(iov[i]) = iov[i]  BY <2>2, <2>3 DEF Bare, Nothing
  <2>. QED  BY <2>2, <2>4, EmptySeq, LenProperties
<1>9. Len(Run(iov, u)) \in Nat  BY <1>7, LenProperties
<1>10. Len(Cut(Run(iov, u), payload_limit)) # 0  BY <1>7, <1>8, <1>9, CutText
<1>11. gather_iov(iov) = Cut(Run(iov, u), payload_limit)  BY <1>3, Gathered
<1>. QED  BY <1>10, <1>11, EmptySeq
-----------------------------------------------------------------------------
(* What the programs report: the record holds what it should, and a        *)
(* record that is due is on the ring or counted as dropped.                *)
Exact(ev) ==
  ev.type # "lsm_deny" => /\ ev.payload = LongestReadable(ev.pieces, ev.cap)
                          /\ Len(ev.payload) \in 1..PAYLOAD_MAX

ProbesInv ==
  TypeOK /\ IsList(events) /\ IsList(critical_events) /\ CapturedExactly /\ NothingLostUncounted

(* A program that owes the critical ring `due` records, none or one, ...   *)
CriticalReport(ev, due) ==
  /\ owed' = [owed EXCEPT !["critical"] = @ + due]
  /\ \/ due = 0 /\ UNCHANGED critical
     \/ critical_drop_count' = critical_drop_count + 1 /\ UNCHANGED critical_events
     \/ /\ Len(critical_events) < CriticalSize /\ UNCHANGED critical_drop_count
        /\ critical_events' = Append(critical_events, ev) /\ Exact(ev)
  /\ UNCHANGED <<kernelMaps, routine, ktime, read>> /\ calls' \in {calls, calls + 1}

(* ... and the routine ring.                                               *)
RoutineReport(ev, due) ==
  /\ owed' = [owed EXCEPT !["routine"] = @ + due]
  /\ \/ due = 0 /\ UNCHANGED routine
     \/ drop_count' = drop_count + 1 /\ UNCHANGED events
     \/ /\ Len(events) < EventsSize /\ UNCHANGED drop_count
        /\ events' = Append(events, ev)
  /\ UNCHANGED <<kernelMaps, critical, ktime, read>> /\ calls' \in {calls, calls + 1}

LEMMA ProbesInvInit == Init => ProbesInv
<1> SUFFICES ASSUME Init PROVE ProbesInv  OBVIOUS
<1>1. IsList(<<>>) /\ Len(<<>>) = 0  BY DEF IsList
<1>2. TypeOK  BY <1>1, ProbesAssumption DEF Init, TypeOK
<1>3. CapturedExactly  BY <1>1 DEF Init, CapturedExactly
<1>4. NothingLostUncounted  BY <1>1 DEF Init, NothingLostUncounted
<1>. QED  BY <1>1, <1>2, <1>3, <1>4 DEF ProbesInv, Init

LEMMA Balance ==
  \A o, n, r, d, m, e, k \in Nat :
    o <= n + r + d /\ m + e >= n + d + k => o + k <= m + r + e
OBVIOUS

LEMMA CriticalReportKeeps ==
  ASSUME ProbesInv, NEW ev, NEW due \in {0, 1}, CriticalReport(ev, due)
  PROVE  ProbesInv'
<1> USE DEF ProbesInv
<1>0. /\ Len(critical_events) \in Nat /\ Len(events) \in Nat /\ CriticalSize \in Nat
      /\ calls \in Nat /\ critical_drop_count \in Nat /\ drop_count \in Nat
      /\ owed \in [routine : Nat, critical : Nat] /\ read \in [routine : Nat, critical : Nat]
      /\ Len(critical_events) <= CriticalSize
  BY LenProperties, ProbesAssumption DEF IsList, TypeOK
<1>1. /\ IsList(critical_events)' /\ Len(critical_events') <= CriticalSize
      /\ Len(critical_events') \in Nat /\ critical_drop_count' \in Nat
      /\ Len(critical_events') + critical_drop_count' >= Len(critical_events) + critical_drop_count + due
      /\ CapturedExactly'
  <2>1. CASE UNCHANGED critical_events
             /\ (critical_drop_count' = critical_drop_count + 1
                 \/ (due = 0 /\ critical_drop_count' = critical_drop_count))
    BY <1>0, <2>1 DEF IsList, CapturedExactly
  <2>2. CASE /\ Len(critical_events) < CriticalSize /\ UNCHANGED critical_drop_count
             /\ critical_events' = Append(critical_events, ev) /\ Exact(ev)
    <3>1. /\ IsList(critical_events') /\ Len(critical_events') = Len(critical_events) + 1
          /\ \A i \in 1..Len(critical_events) : critical_events'[i] = critical_events[i]
          /\ critical_events'[Len(critical_events) + 1] = ev
      BY <2>2, ListAppend
    <3>2. IsList(critical_events)'  BY <3>1 DEF IsList
    <3>3. CapturedExactly'
      <4> SUFFICES ASSUME NEW i \in 1..Len(critical_events')
                   PROVE  Exact(critical_events'[i])
        BY DEF CapturedExactly, Exact
      <4>1. CASE i \in 1..Len(critical_events)
        BY <3>1, <4>1 DEF CapturedExactly, Exact
      <4>2. CASE i = Len(critical_events) + 1  BY <2>2, <3>1, <4>2
      <4>. QED  BY <1>0, <3>1, <4>1, <4>2
    <3>. QED  BY <1>0, <2>2, <3>1, <3>2, <3>3
  <2>. QED  BY <2>1, <2>2 DEF CriticalReport, critical
<1>2. /\ owed' \in [routine : Nat, critical : Nat] /\ calls' \in Nat
      /\ owed'.critical = owed.critical + due /\ owed'.routine = owed.routine
  BY <1>0, SMTT(30) DEF CriticalReport
<1>3. UNCHANGED <<kernelMaps, events, drop_count, ktime, read>>
  BY DEF CriticalReport, routine
<1>4. TypeOK'  BY <1>0, <1>1, <1>2, <1>3 DEF TypeOK, kernelMaps
<1>5. NothingLostUncounted'
  <2>1. /\ owed.routine \in Nat /\ owed.critical \in Nat /\ due \in Nat
        /\ read.routine \in Nat /\ read.critical \in Nat
    BY <1>0
  <2>2. /\ owed.routine <= Len(events) + read.routine + drop_count
        /\ owed.critical <= Len(critical_events) + read.critical + critical_drop_count
    BY DEF NothingLostUncounted
  <2>3. /\ owed'.routine <= Len(events') + read'.routine + drop_count'
        /\ owed'.critical <= Len(critical_events') + read'.critical + critical_drop_count'
    <3> DEFINE oc == owed.critical
               rc == read.critical
               or == owed.routine
               rr == read.routine
    <3>1. owed'.routine = or /\ owed'.critical = oc + due /\ read' = read  BY <1>2, <1>3
    <3>2. oc \in Nat /\ rc \in Nat /\ or \in Nat /\ rr \in Nat  BY <2>1
    <3>3. /\ or <= Len(events) + rr + drop_count
          /\ oc <= Len(critical_events) + rc + critical_drop_count
      BY <2>2
    <3> HIDE DEF oc, rc, or, rr
    <3>4. oc + due <= Len(critical_events') + rc + critical_drop_count'
      BY <1>0, <1>1, <2>1, <3>2, <3>3, Balance
    <3>5. or <= Len(events') + rr + drop_count'  BY <1>3, <3>3
    <3>. QED  BY <3>1, <3>4, <3>5 DEF oc, rc, or, rr
  <2>. QED  BY <2>3 DEF NothingLostUncounted
<1>6. IsList(events)'  BY <1>3 DEF IsList
<1>. QED  BY <1>1, <1>4, <1>5, <1>6

LEMMA RoutineReportKeeps ==
  ASSUME ProbesInv, NEW ev, NEW due \in {0, 1}, RoutineReport(ev, due)
  PROVE  ProbesInv'
<1> USE DEF ProbesInv
<1>0. /\ Len(critical_events) \in Nat /\ Len(events) \in Nat /\ EventsSize \in Nat
      /\ calls \in Nat /\ critical_drop_count \in Nat /\ drop_count \in Nat
      /\ owed \in [routine : Nat, critical : Nat] /\ read \in [routine : Nat, critical : Nat]
      /\ Len(events) <= EventsSize
  BY LenProperties, ProbesAssumption DEF IsList, TypeOK
<1>1. /\ IsList(events)' /\ Len(events') <= EventsSize
      /\ Len(events') \in Nat /\ drop_count' \in Nat
      /\ Len(events') + drop_count' >= Len(events) + drop_count + due
  <2>1. CASE UNCHANGED events
             /\ (drop_count' = drop_count + 1 \/ (due = 0 /\ drop_count' = drop_count))
    BY <1>0, <2>1 DEF IsList
  <2>2. CASE /\ Len(events) < EventsSize /\ UNCHANGED drop_count
             /\ events' = Append(events, ev)
    <3>1. IsList(events') /\ Len(events') = Len(events) + 1  BY <2>2, ListAppend
    <3>2. IsList(events)'  BY <3>1 DEF IsList
    <3>. QED  BY <1>0, <2>2, <3>1, <3>2
  <2>. QED  BY <2>1, <2>2 DEF RoutineReport, routine
<1>2. /\ owed' \in [routine : Nat, critical : Nat] /\ calls' \in Nat
      /\ owed'.routine = owed.routine + due /\ owed'.critical = owed.critical
  BY <1>0 DEF RoutineReport
<1>3. UNCHANGED <<kernelMaps, critical_events, critical_drop_count, ktime, read>>
  BY DEF RoutineReport, critical
<1>4. TypeOK'  BY <1>0, <1>1, <1>2, <1>3 DEF TypeOK, kernelMaps
<1>5. NothingLostUncounted'
  <2>1. /\ owed.routine \in Nat /\ owed.critical \in Nat /\ due \in Nat
        /\ read.routine \in Nat /\ read.critical \in Nat
    BY <1>0
  <2>2. /\ owed.routine <= Len(events) + read.routine + drop_count
        /\ owed.critical <= Len(critical_events) + read.critical + critical_drop_count
    BY DEF NothingLostUncounted
  <2>3. /\ owed'.routine <= Len(events') + read'.routine + drop_count'
        /\ owed'.critical <= Len(critical_events') + read'.critical + critical_drop_count'
    <3> DEFINE oc == owed.critical
               rc == read.critical
               or == owed.routine
               rr == read.routine
    <3>1. owed'.routine = or + due /\ owed'.critical = oc /\ read' = read  BY <1>2, <1>3
    <3>2. oc \in Nat /\ rc \in Nat /\ or \in Nat /\ rr \in Nat  BY <2>1
    <3>3. /\ or <= Len(events) + rr + drop_count
          /\ oc <= Len(critical_events) + rc + critical_drop_count
      BY <2>2
    <3> HIDE DEF oc, rc, or, rr
    <3>4. or + due <= Len(events') + rr + drop_count'
      BY <1>0, <1>1, <2>1, <3>2, <3>3, Balance
    <3>5. oc <= Len(critical_events') + rc + critical_drop_count'  BY <1>3, <3>3
    <3>. QED  BY <3>1, <3>4, <3>5 DEF oc, rc, or, rr
  <2>. QED  BY <2>3 DEF NothingLostUncounted
<1>6. IsList(critical_events)' /\ CapturedExactly'  BY <1>3 DEF IsList, CapturedExactly
<1>. QED  BY <1>1, <1>4, <1>5, <1>6

(* The payload window is never empty.                                      *)
LEMMA LimitRange ==
  ASSUME TypeOK
  PROVE  payload_limit \in Nat \ {0} /\ payload_limit <= PAYLOAD_MAX
BY ProbesAssumption DEF TypeOK, payload_limit

(* A gathered payload, in either layout.                                   *)
LEMMA GatherExact ==
  ASSUME TypeOK, NEW type, NEW p, NEW fd, NEW dest, NEW iov \in Seq(Iovecs),
         gather_iov(iov) # <<>>
  PROVE  /\ Exact(write_event(type, p, fd, gather_iov(iov), iov))
         /\ Exact(sendto_event(type, p, dest, gather_iov(iov), iov))
<1>1. payload_limit \in Nat \ {0} /\ payload_limit <= PAYLOAD_MAX /\ PAYLOAD_MAX \in Nat
  BY LimitRange, ProbesAssumption
<1>2. /\ gather_iov(iov) = LongestReadable(iov, payload_limit)
      /\ gather_iov(iov) \in Seq(Atoms) /\ Len(gather_iov(iov)) <= payload_limit
  BY <1>1, Gathered
<1>3. Len(gather_iov(iov)) \in Nat \ {0}  BY <1>2, EmptySeq, LenProperties
<1>4. Len(gather_iov(iov)) \in 1..PAYLOAD_MAX  BY <1>1, <1>2, <1>3
<1>. QED  BY <1>2, <1>4 DEF Exact, write_event, sendto_event

(* A payload from one buffer, in either layout.                            *)
LEMMA BufferExact ==
  ASSUME TypeOK, NEW type, NEW p, NEW fd, NEW dest, NEW buf \in Seq(Atoms), buf # <<>>
  PROVE  /\ Exact(write_event(type, p, fd, read_payload(buf), <<buf>>))
         /\ Exact(sendto_event(type, p, dest, read_payload(buf), <<buf>>))
<1>1. payload_limit \in Nat \ {0} /\ payload_limit <= PAYLOAD_MAX /\ PAYLOAD_MAX \in Nat
  BY LimitRange, ProbesAssumption
<1>2. /\ read_payload(buf) = LongestReadable(<<buf>>, payload_limit)
      /\ Len(read_payload(buf)) = IF Len(buf) < payload_limit THEN Len(buf) ELSE payload_limit
  BY <1>1, ReadExactly
<1>3. Len(buf) \in Nat \ {0}  BY EmptySeq, LenProperties
<1>4. Len(read_payload(buf)) \in 1..PAYLOAD_MAX  BY <1>1, <1>2, <1>3
<1>. QED  BY <1>2, <1>4 DEF Exact, write_event, sendto_event
-----------------------------------------------------------------------------
(* The programs, one by one.                                               *)
LEMMA SysEnterConnectKeeps ==
  ASSUME ProbesInv, NEW p \in PIDs, NEW fd \in FDs, NEW sa \in Names, SysEnterConnect(p, fd, sa)
  PROVE  ProbesInv'
<1> DEFINE ev  == connect_event(p, fd, sa)
           due == IF monitored_task(p) /\ sa \in Dests THEN 1 ELSE 0
<1>1. /\ owed' = [owed EXCEPT !["routine"] = @ + due]
      /\ UNCHANGED <<kernelMaps, ktime, read>> /\ calls' \in {calls, calls + 1}
  BY DEF SysEnterConnect, SysEnter, Owe
<1>2. CASE monitored_task(p) /\ sa \in Dests
  <2>1. sa # NULL  BY <1>2, ProbesAssumption
  <2>2. SubmitRoutine(ev, TRUE) /\ UNCHANGED critical
    BY <1>2, <2>1 DEF SysEnterConnect, read_dest
  <2>. QED  BY <1>1, <2>2, RoutineReportKeeps DEF RoutineReport, SubmitRoutine, inc_drop_count
<1>3. CASE ~(monitored_task(p) /\ sa \in Dests)
  <2>1. Skip  BY <1>3 DEF SysEnterConnect, read_dest
  <2>2. due = 0  BY <1>3
  <2>. QED  BY <1>1, <2>1, <2>2, RoutineReportKeeps DEF RoutineReport, Skip
<1>. QED  BY <1>2, <1>3

(* emit_write is bound to report what can be read.                         *)
LEMMA EmitWriteKeeps ==
  ASSUME ProbesInv, NEW p \in PIDs, NEW fd \in FDs, NEW buf \in Buffers, NEW due \in {0, 1},
         due = 1 => Readable(buf) /\ buf # <<>>,
         emit_write(p, fd, buf), owed' = [owed EXCEPT !["critical"] = @ + due],
         UNCHANGED <<kernelMaps, ktime, read>>, calls' \in {calls, calls + 1}
  PROVE  ProbesInv'
<1> DEFINE ev == write_event("write", p, fd, read_payload(buf), <<buf>>)
<1>1. CASE Nothing(buf)
  <2>1. Skip /\ due = 0  BY <1>1 DEF emit_write, Nothing, Readable
  <2>. QED  BY <2>1, CriticalReportKeeps DEF CriticalReport, Skip
<1>2. CASE ~Nothing(buf) /\ Readable(buf)
  <2>1. buf \in Seq(Atoms) /\ buf # <<>>
    BY <1>2, ProbesAssumption DEF Nothing, Readable
  <2>2. Exact(ev)  BY <2>1, BufferExact DEF ProbesInv
  <2>3. SubmitCritical(ev, TRUE) /\ UNCHANGED routine
    BY <1>2 DEF emit_write, SubmitCritical
  <2> HIDE DEF ev
  <2>. QED
    BY <2>2, <2>3, CriticalReportKeeps DEF CriticalReport, SubmitCritical, inc_critical_drop_count
<1>3. CASE ~Nothing(buf) /\ ~Readable(buf)
  <2>1. due = 0 /\ UNCHANGED routine  BY <1>3 DEF emit_write
  <2>2. \/ UNCHANGED critical
        \/ critical_drop_count' = critical_drop_count + 1 /\ UNCHANGED critical_events
    BY <1>3 DEF emit_write, SubmitCritical, inc_critical_drop_count, critical
  <2> HIDE DEF ev
  <2>. QED  BY <2>1, <2>2, CriticalReportKeeps DEF CriticalReport
<1>. QED  BY <1>1, <1>2, <1>3

LEMMA SysEnterWriteKeeps ==
  ASSUME ProbesInv, NEW p \in PIDs, NEW fd \in FDs, NEW buf \in Buffers, SysEnterWrite(p, fd, buf)
  PROVE  ProbesInv'
<1> DEFINE due == IF monitored_task(p) /\ fd >= 3 /\ Readable(buf) /\ buf # <<>> THEN 1 ELSE 0
<1>1. /\ owed' = [owed EXCEPT !["critical"] = @ + due]
      /\ UNCHANGED <<kernelMaps, ktime, read>> /\ calls' \in {calls, calls + 1}
  BY DEF SysEnterWrite, SysEnter, Owe
<1>2. CASE monitored_task(p) /\ fd >= 3
  <2>1. emit_write(p, fd, buf)  BY <1>2 DEF SysEnterWrite
  <2>2. due \in {0, 1} /\ (due = 1 => Readable(buf) /\ buf # <<>>)  OBVIOUS
  <2> HIDE DEF due
  <2>. QED  BY <1>1, <2>1, <2>2, EmitWriteKeeps
<1>3. CASE ~(monitored_task(p) /\ fd >= 3)
  <2>1. Skip /\ due = 0  BY <1>3 DEF SysEnterWrite
  <2> HIDE DEF due
  <2>. QED  BY <1>1, <2>1, CriticalReportKeeps DEF CriticalReport, Skip
<1>. QED  BY <1>2, <1>3

LEMMA SysEnterWritevKeeps ==
  ASSUME ProbesInv, NEW p \in PIDs, NEW fd \in FDs, NEW iov \in IovArrays, SysEnterWritev(p, fd, iov)
  PROVE  ProbesInv'
<1> DEFINE total == gather_iov(iov)
           ev    == write_event("writev", p, fd, total, iov)
           taken == monitored_task(p) /\ fd >= 3 /\ iov # <<>> /\ total # <<>>
           due   == IF monitored_task(p) /\ fd >= 3 /\ Gatherable(iov) THEN 1 ELSE 0
<1>0. iov \in Seq(Iovecs)  BY ProbesAssumption
<1>1. /\ owed' = [owed EXCEPT !["critical"] = @ + due]
      /\ UNCHANGED <<kernelMaps, ktime, read>> /\ calls' \in {calls, calls + 1}
  BY DEF SysEnterWritev, SysEnter, Owe
<1>2. CASE taken
  <2>1. Exact(ev)  BY <1>0, <1>2, GatherExact DEF ProbesInv
  <2>2. SubmitCritical(ev, TRUE) /\ UNCHANGED routine  BY <1>2 DEF SysEnterWritev
  <2>3. due \in {0, 1}  OBVIOUS
  <2> HIDE DEF ev, due
  <2>. QED
    BY <1>1, <2>1, <2>2, <2>3, CriticalReportKeeps
    DEF CriticalReport, SubmitCritical, inc_critical_drop_count
<1>3. CASE ~taken
  <2>1. Skip  BY <1>3 DEF SysEnterWritev
  <2>2. due = 0
    <3>1. Gatherable(iov) => iov # <<>>  BY EmptySeq DEF Gatherable
    <3>2. Gatherable(iov) => total # <<>>
      <4>1. payload_limit \in Nat \ {0}  BY LimitRange DEF ProbesInv
      <4>. QED  BY <1>0, <4>1, GatherableGathered
    <3>. QED  BY <1>3, <3>1, <3>2
  <2> HIDE DEF due
  <2>. QED  BY <1>1, <2>1, <2>2, CriticalReportKeeps DEF CriticalReport, Skip
<1>. QED  BY <1>2, <1>3

LEMMA SysEnterSendtoKeeps ==
  ASSUME ProbesInv, NEW p \in PIDs, NEW fd \in FDs, NEW buf \in Buffers, NEW sa \in Names,
         SysEnterSendto(p, fd, buf, sa)
  PROVE  ProbesInv'
<1> DEFINE ev  == sendto_event("sendto", p, sa, read_payload(buf), <<buf>>)
           due == IF monitored_task(p) /\ Readable(buf) /\ buf # <<>> /\ sa \in Dests \cup {NULL}
                  THEN 1 ELSE 0
<1>1. /\ owed' = [owed EXCEPT !["critical"] = @ + due]
      /\ UNCHANGED <<kernelMaps, ktime, read>> /\ calls' \in {calls, calls + 1}
  BY DEF SysEnterSendto, SysEnter, Owe
<1>2. due \in {0, 1} /\ (due = 1 => Readable(buf) /\ buf # <<>> /\ sa \in Dests \cup {NULL})  OBVIOUS
<1>3. CASE ~monitored_task(p) \/ Nothing(buf) \/ (sa # NULL /\ ~read_dest(sa))
  <2>1. Skip  BY <1>3 DEF SysEnterSendto
  <2>2. due = 0  BY <1>3 DEF Nothing, Readable, read_dest
  <2> HIDE DEF due
  <2>. QED  BY <1>1, <2>1, <2>2, CriticalReportKeeps DEF CriticalReport, Skip
<1>4. CASE monitored_task(p) /\ ~Nothing(buf) /\ sa = NULL
  <2>1. emit_write(p, fd, buf)  BY <1>4 DEF SysEnterSendto
  <2> HIDE DEF due
  <2>. QED  BY <1>1, <1>2, <2>1, EmitWriteKeeps
<1>5. CASE monitored_task(p) /\ ~Nothing(buf) /\ sa # NULL /\ read_dest(sa)
  <2>1. /\ SubmitCritical(sendto_event("sendto", p, sa,
                            IF Readable(buf) THEN read_payload(buf) ELSE <<>>, <<buf>>),
                          Readable(buf))
        /\ UNCHANGED routine
    BY <1>5 DEF SysEnterSendto
  <2>2. CASE Readable(buf)
    <3>1. buf \in Seq(Atoms) /\ buf # <<>>
      BY <1>5, <2>2, ProbesAssumption DEF Nothing, Readable
    <3>2. Exact(ev)  BY <3>1, BufferExact DEF ProbesInv
    <3>3. SubmitCritical(ev, TRUE)  BY <2>1, <2>2 DEF SubmitCritical
    <3> HIDE DEF ev, due
    <3>. QED
      BY <1>1, <1>2, <2>1, <3>2, <3>3, CriticalReportKeeps
      DEF CriticalReport, SubmitCritical, inc_critical_drop_count
  <2>3. CASE ~Readable(buf)
    <3>1. due = 0  BY <2>3
    <3>2. \/ UNCHANGED critical
          \/ critical_drop_count' = critical_drop_count + 1 /\ UNCHANGED critical_events
      BY <2>1, <2>3 DEF SubmitCritical, inc_critical_drop_count, critical
    <3> HIDE DEF ev, due
    <3>. QED  BY <1>1, <2>1, <3>1, <3>2, CriticalReportKeeps DEF CriticalReport
  <2>. QED  BY <2>2, <2>3
<1>. QED  BY <1>3, <1>4, <1>5

LEMMA EmitSendmsgKeeps ==
  ASSUME ProbesInv, NEW p \in PIDs, NEW fd \in FDs, NEW iov \in Seq(Iovecs), NEW name,
         NEW due \in {0, 1}, due = 1 => Gatherable(iov),
         emit_sendmsg(p, fd, iov, name), owed' = [owed EXCEPT !["critical"] = @ + due],
         UNCHANGED <<kernelMaps, ktime, read>>, calls' \in {calls, calls + 1}
  PROVE  ProbesInv'
<1> DEFINE total == gather_iov(iov)
           ev    == IF read_dest(name) THEN sendto_event("sendmsg", p, name, total, iov)
                                       ELSE write_event("sendmsg", p, fd, total, iov)
<1>1. CASE iov = <<>> \/ total = <<>>
  <2>1. Skip  BY <1>1 DEF emit_sendmsg
  <2>2. ~Gatherable(iov)
    <3>1. Gatherable(iov) => iov # <<>>  BY EmptySeq DEF Gatherable
    <3>2. Gatherable(iov) => total # <<>>
      <4>1. payload_limit \in Nat \ {0}  BY LimitRange DEF ProbesInv
      <4>. QED  BY <4>1, GatherableGathered
    <3>. QED  BY <1>1, <3>1, <3>2
  <2>3. due = 0  BY <2>2
  <2>. QED  BY <2>1, <2>3, CriticalReportKeeps DEF CriticalReport, Skip
<1>2. CASE ~(iov = <<>> \/ total = <<>>)
  <2>1. SubmitCritical(ev, TRUE) /\ UNCHANGED routine  BY <1>2 DEF emit_sendmsg
  <2>2. Exact(ev)
    <3>1. /\ Exact(write_event("sendmsg", p, fd, total, iov))
          /\ Exact(sendto_event("sendmsg", p, name, total, iov))
      BY <1>2, GatherExact DEF ProbesInv
    <3>. QED  BY <3>1
  <2> HIDE DEF ev
  <2>. QED
    BY <2>1, <2>2, CriticalReportKeeps
    DEF CriticalReport, SubmitCritical, inc_critical_drop_count
<1>. QED  BY <1>1, <1>2

LEMMA SysEnterSendmsgKeeps ==
  ASSUME ProbesInv, NEW p \in PIDs, NEW fd \in FDs, NEW msg \in Messages \cup {NULL, Unmapped},
         SysEnterSendmsg(p, fd, msg)
  PROVE  ProbesInv'
<1> DEFINE taken == monitored_task(p) /\ msg \notin {NULL, Unmapped}
           due   == IF taken /\ Gatherable(msg.iov) THEN 1 ELSE 0
<1>1. /\ owed' = [owed EXCEPT !["critical"] = @ + due]
      /\ UNCHANGED <<kernelMaps, ktime, read>> /\ calls' \in {calls, calls + 1}
  BY DEF SysEnterSendmsg, SysEnter, Owe
<1>2. CASE taken
  <2>1. emit_sendmsg(p, fd, msg.iov, msg.name)  BY <1>2 DEF SysEnterSendmsg
  <2>2. msg.iov \in Seq(Iovecs)  BY <1>2, ProbesAssumption
  <2>3. due \in {0, 1} /\ (due = 1 => Gatherable(msg.iov))  OBVIOUS
  <2> HIDE DEF due
  <2>. QED  BY <1>1, <2>1, <2>2, <2>3, EmitSendmsgKeeps
<1>3. CASE ~taken
  <2>1. Skip /\ due = 0  BY <1>3 DEF SysEnterSendmsg
  <2> HIDE DEF due
  <2>. QED  BY <1>1, <2>1, CriticalReportKeeps DEF CriticalReport, Skip
<1>. QED  BY <1>2, <1>3

LEMMA SysEnterSendmmsgKeeps ==
  ASSUME ProbesInv, NEW p \in PIDs, NEW fd \in FDs, NEW m \in Messages \cup {Unmapped}, NEW n \in 0..2,
         SysEnterSendmmsg(p, fd, [i \in 1..n |-> m])
  PROVE  ProbesInv'
<1> DEFINE vec   == [i \in 1..n |-> m]
           taken == monitored_task(p) /\ vec # <<>> /\ vec[1] \notin {NULL, Unmapped}
           due   == IF taken /\ Gatherable(vec[1].iov) THEN 1 ELSE 0
<1>1. /\ owed' = [owed EXCEPT !["critical"] = @ + due]
      /\ UNCHANGED <<kernelMaps, ktime, read>> /\ calls' \in {calls, calls + 1}
  BY DEF SysEnterSendmmsg, SysEnter, Owe
<1>2. CASE taken
  <2>1. emit_sendmsg(p, fd, vec[1].iov, vec[1].name)  BY <1>2 DEF SysEnterSendmmsg
  <2>2. vec[1] = m /\ m \in Messages
    <3>1. n # 0  BY <1>2
    <3>2. 1 \in 1..n  BY <3>1
    <3>. QED  BY <1>2, <3>2
  <2>3. m.iov \in Seq(Iovecs)  BY <2>2, ProbesAssumption
  <2>4. due \in {0, 1} /\ (due = 1 => Gatherable(m.iov))  BY <2>2
  <2> HIDE DEF due, vec
  <2>5. emit_sendmsg(p, fd, m.iov, m.name)  BY <2>1, <2>2
  <2>. QED  BY <1>1, <2>3, <2>4, <2>5, EmitSendmsgKeeps
<1>3. CASE ~taken
  <2>1. Skip /\ due = 0  BY <1>3 DEF SysEnterSendmmsg
  <2> HIDE DEF due
  <2>. QED  BY <1>1, <2>1, CriticalReportKeeps DEF CriticalReport, Skip
<1>. QED  BY <1>2, <1>3

LEMMA SysEnterOpenatKeeps ==
  ASSUME ProbesInv, NEW p \in PIDs, NEW path, SysEnterOpenat(p, path)
  PROVE  ProbesInv'
<1> DEFINE ev  == openat_event(p, path)
           due == IF monitored_task(p) /\ Readable(path) THEN 1 ELSE 0
<1>1. /\ owed' = [owed EXCEPT !["routine"] = @ + due]
      /\ UNCHANGED <<kernelMaps, ktime, read>> /\ calls' \in {calls, calls + 1}
  BY DEF SysEnterOpenat, SysEnter, Owe
<1>2. CASE monitored_task(p) /\ path # NULL
  <2>1. SubmitRoutine(ev, Readable(path)) /\ UNCHANGED critical
    BY <1>2 DEF SysEnterOpenat
  <2>2. \/ drop_count' = drop_count + 1 /\ UNCHANGED events
        \/ /\ Len(events) < EventsSize /\ UNCHANGED drop_count
           /\ events' = Append(events, ev)
        \/ UNCHANGED routine /\ ~Readable(path)
    BY <2>1 DEF SubmitRoutine, inc_drop_count, routine
  <2>3. due \in {0, 1} /\ (~Readable(path) => due = 0)  OBVIOUS
  <2> HIDE DEF ev, due
  <2>. QED  BY <1>1, <2>1, <2>2, <2>3, RoutineReportKeeps DEF RoutineReport
<1>3. CASE ~(monitored_task(p) /\ path # NULL)
  <2>1. Skip /\ due = 0  BY <1>3 DEF SysEnterOpenat, Readable
  <2> HIDE DEF ev, due
  <2>. QED  BY <1>1, <2>1, RoutineReportKeeps DEF RoutineReport, Skip
<1>. QED  BY <1>2, <1>3

LEMMA LsmSocketConnectKeeps ==
  ASSUME ProbesInv, NEW p \in PIDs, NEW ret \in {0, 1}, LsmSocketConnect(p, ret)
  PROVE  ProbesInv'
<1> DEFINE ev  == lsm_deny_event(p)
           due == IF ret = 0 /\ blocklisted(p) THEN 1 ELSE 0
<1>1. /\ owed' = [owed EXCEPT !["critical"] = @ + due]
      /\ UNCHANGED <<kernelMaps, routine, ktime, read>> /\ calls' \in {calls, calls + 1}
  BY DEF LsmSocketConnect, Owe
<1>2. Exact(ev)  BY DEF Exact, lsm_deny_event
<1>3. \/ due = 0 /\ UNCHANGED critical
      \/ SubmitCritical(ev, TRUE)
  BY DEF LsmSocketConnect
<1>4. due \in {0, 1}  OBVIOUS
<1> HIDE DEF ev, due
<1>. QED
  BY <1>1, <1>2, <1>3, <1>4, CriticalReportKeeps
  DEF CriticalReport, SubmitCritical, inc_critical_drop_count
-----------------------------------------------------------------------------
(* Userspace leaves the rings alone, and a reader counts what it takes.    *)
LEMMA UserspaceKeeps ==
  ASSUME ProbesInv, Userspace
  PROVE  ProbesInv'
<1> USE DEF ProbesInv
<1>1. UNCHANGED <<events, drop_count, critical_events, critical_drop_count, ktime, calls, owed, read>>
  BY DEF Userspace, routine, critical
<1>2. /\ pid_filter' \subseteq PIDs /\ lsm_blocklist_pid' \subseteq PIDs
      /\ cgroup_filter' \subseteq Cgroups /\ lsm_blocklist_cgroup' \subseteq Cgroups
      /\ payload_cap' \in Nat
  BY ProbesAssumption DEF Userspace, AddPID, RemovePID, Quarantine, AddCgroupID,
     SetPayloadCaptureBytes, MapPut, TypeOK
<1>3. TypeOK'  BY <1>1, <1>2 DEF TypeOK
<1>. QED  BY <1>1, <1>3 DEF IsList, CapturedExactly, NothingLostUncounted

LEMMA ReadEventKeeps ==
  ASSUME ProbesInv, ReadEvent
  PROVE  ProbesInv'
<1> USE DEF ProbesInv
<1>1. /\ events # <<>> /\ events' = Tail(events) /\ read' = [read EXCEPT !.routine = @ + 1]
      /\ UNCHANGED <<kernelMaps, drop_count, critical_events, critical_drop_count, ktime, calls, owed>>
  BY DEF ReadEvent, TakeEvent, critical
<1>2. IsList(Tail(events)) /\ Len(events) \in Nat \ {0} /\ Len(Tail(events)) = Len(events) - 1
  BY <1>1, ListTake
<1>3. /\ read \in [routine : Nat, critical : Nat] /\ EventsSize \in Nat /\ Len(events) <= EventsSize
      /\ owed \in [routine : Nat, critical : Nat] /\ drop_count \in Nat
  BY ProbesAssumption DEF TypeOK
<1>4. /\ read' \in [routine : Nat, critical : Nat]
      /\ read'.routine = read.routine + 1 /\ read'.critical = read.critical
  BY <1>1, <1>3
<1>5. TypeOK'  BY <1>1, <1>2, <1>3, <1>4, SMTT(30) DEF TypeOK, kernelMaps
<1>6. NothingLostUncounted'
  <2>1. owed.routine <= Len(events) + read.routine + drop_count  BY DEF NothingLostUncounted
  <2>2. read.routine \in Nat /\ owed.routine \in Nat  BY <1>3
  <2>3. Len(events) + read.routine + drop_count = Len(Tail(events)) + (read.routine + 1) + drop_count
    BY <1>2, <1>3, <2>2
  <2>4. owed'.routine <= Len(events') + read'.routine + drop_count'
    BY <1>1, <1>4, <2>1, <2>3
  <2>5. owed'.critical <= Len(critical_events') + read'.critical + critical_drop_count'
    BY <1>1, <1>4 DEF NothingLostUncounted
  <2>. QED  BY <2>4, <2>5 DEF NothingLostUncounted
<1>7. IsList(events)' /\ IsList(critical_events)' /\ CapturedExactly'
  BY <1>1, <1>2 DEF IsList, CapturedExactly
<1>. QED  BY <1>5, <1>6, <1>7

LEMMA ReadCriticalEventKeeps ==
  ASSUME ProbesInv, ReadCriticalEvent
  PROVE  ProbesInv'
<1> USE DEF ProbesInv
<1>1. /\ critical_events # <<>> /\ critical_events' = Tail(critical_events)
      /\ read' = [read EXCEPT !.critical = @ + 1]
      /\ UNCHANGED <<kernelMaps, events, drop_count, critical_drop_count, ktime, calls, owed>>
  BY DEF ReadCriticalEvent, TakeCriticalEvent, routine
<1>2. /\ IsList(Tail(critical_events)) /\ Len(critical_events) \in Nat \ {0}
      /\ Len(Tail(critical_events)) = Len(critical_events) - 1
      /\ \A i \in 1..(Len(critical_events) - 1) : Tail(critical_events)[i] = critical_events[i + 1]
  BY <1>1, ListTake
<1>3. /\ read \in [routine : Nat, critical : Nat] /\ CriticalSize \in Nat
      /\ Len(critical_events) <= CriticalSize
      /\ owed \in [routine : Nat, critical : Nat] /\ critical_drop_count \in Nat
  BY ProbesAssumption DEF TypeOK
<1>4. /\ read' \in [routine : Nat, critical : Nat]
      /\ read'.critical = read.critical + 1 /\ read'.routine = read.routine
  BY <1>1, <1>3
<1>5. TypeOK'  BY <1>1, <1>2, <1>3, <1>4, SMTT(30) DEF TypeOK, kernelMaps
<1>6. NothingLostUncounted'
  <2>1. owed.critical <= Len(critical_events) + read.critical + critical_drop_count
    BY DEF NothingLostUncounted
  <2>2. read.critical \in Nat /\ owed.critical \in Nat  BY <1>3
  <2>3. Len(critical_events) + read.critical + critical_drop_count
          = Len(Tail(critical_events)) + (read.critical + 1) + critical_drop_count
    BY <1>2, <1>3, <2>2
  <2>4. owed'.critical <= Len(critical_events') + read'.critical + critical_drop_count'
    BY <1>1, <1>4, <2>1, <2>3
  <2>5. owed'.routine <= Len(events') + read'.routine + drop_count'
    BY <1>1, <1>4 DEF NothingLostUncounted
  <2>. QED  BY <2>4, <2>5 DEF NothingLostUncounted
<1>7. CapturedExactly'
  <2> SUFFICES ASSUME NEW i \in 1..Len(critical_events') PROVE Exact(critical_events'[i])
    BY DEF CapturedExactly, Exact
  <2>1. critical_events'[i] = critical_events[i + 1] /\ i + 1 \in 1..Len(critical_events)
    BY <1>1, <1>2
  <2>2. Exact(critical_events[i + 1])  BY <2>1 DEF CapturedExactly, Exact
  <2>. QED  BY <2>1, <2>2
<1>8. IsList(events)' /\ IsList(critical_events)'  BY <1>1, <1>2 DEF IsList
<1>. QED  BY <1>5, <1>6, <1>7, <1>8

LEMMA ProbesInvNext == ProbesInv /\ [Next]_vars => ProbesInv'
<1> SUFFICES ASSUME ProbesInv, [Next]_vars PROVE ProbesInv'  OBVIOUS
<1>1. ASSUME NEW p \in PIDs, Tracepoints(p) PROVE ProbesInv'
  BY <1>1, SysEnterConnectKeeps, SysEnterWriteKeeps, SysEnterWritevKeeps, SysEnterSendtoKeeps,
     SysEnterSendmsgKeeps, SysEnterSendmmsgKeeps, SysEnterOpenatKeeps DEF Tracepoints
<1>2. ASSUME NEW p \in PIDs, NEW ret \in {0, 1}, LsmSocketConnect(p, ret) PROVE ProbesInv'
  BY <1>2, LsmSocketConnectKeeps
<1>3. CASE Userspace \/ ReadEvent \/ ReadCriticalEvent
  BY <1>3, UserspaceKeeps, ReadEventKeeps, ReadCriticalEventKeeps
<1>4. CASE UNCHANGED vars
  <2>1. UNCHANGED <<pid_filter, cgroup_filter, lsm_blocklist_pid, lsm_blocklist_cgroup, payload_cap,
                    events, drop_count, critical_events, critical_drop_count, ktime, calls, owed, read>>
    BY <1>4 DEF vars, kernelMaps, routine, critical
  <2>2. TypeOK'  BY <2>1 DEF ProbesInv, TypeOK
  <2>. QED  BY <2>1, <2>2 DEF ProbesInv, IsList, CapturedExactly, NothingLostUncounted
<1>. QED  BY <1>1, <1>2, <1>3, <1>4 DEF Next

LEMMA ProbesInvariant == Spec => []ProbesInv
BY ProbesInvInit, ProbesInvNext, PTL DEF Spec

(* Every variable of the kernel programs keeps its type, the rings their   *)
(* size.                                                                   *)
THEOREM ProbesTypeOK == Spec => []TypeOK
BY ProbesInvariant, PTL DEF ProbesInv

(* A captured record is the longest readable beginning of what the task    *)
(* passed, cut at the window, for every array of iovecs and every window:  *)
(* gather_iov's loop and its specification agree.                          *)
THEOREM CaptureIsExact == Spec => []CapturedExactly
BY ProbesInvariant, PTL DEF ProbesInv

(* Whatever the programs are bound to report is on a ring, was read or is  *)
(* counted as dropped, however full either ring is.                        *)
THEOREM LossIsCounted == Spec => []NothingLostUncounted
BY ProbesInvariant, PTL DEF ProbesInv
-----------------------------------------------------------------------------
(***************************************************************************)
(* From system call to containment.                                        *)
(***************************************************************************)

Numbers == 0..MaxCalls
Armings == [dest : Dests, at : Nat, id : Numbers]
Fates == [key : (PIDs \X FDs) \cup {<<NULL, NULL>>}, at : Nat,
          is : {"none", "unwatched", "dropped", "queued", "allowlisted", "table full",
                "armed", "replaced", "removed"}]

SensorTypes ==
  /\ calls \in Numbers /\ ktime \in Nat
  /\ connecting \in [PIDs -> {NULL} \cup [fd : FDs, sa : Names]]
  /\ pending \in [PIDs -> Numbers]
  /\ connID \in [PIDs \X FDs -> Numbers]
  /\ fate \in [1..MaxCalls -> Fates]
  /\ suspiciousByPID = [p \in PIDs |-> suspiciousByPID[p]]
  /\ IsList(events) /\ routineIDs \in Seq(Numbers) /\ Len(events) = Len(routineIDs)
  /\ IsList(critical_events) /\ criticalIDs \in Seq(Numbers)
  /\ Len(critical_events) = Len(criticalIDs)

(* The number of a connect(2), wherever it is remembered, leads back to    *)
(* the process and descriptor it was made with.                            *)
Made(id, p, fd) == id \in 1..calls /\ fate[id].key = <<p, fd>>

PendingMade ==
  \A p \in PIDs : connecting[p] # NULL => Made(pending[p], p, connecting[p].fd)
ConnMade ==
  \A p \in PIDs, fd \in FDs : connID[<<p, fd>>] # NoConn => Made(connID[<<p, fd>>], p, fd)
RoutineMade ==
  \A i \in 1..Len(events) : events[i].type = "connect" =>
    /\ events[i].pid \in PIDs /\ events[i].fd \in FDs
    /\ Made(routineIDs[i], events[i].pid, events[i].fd)
CriticalMade ==
  \A i \in 1..Len(critical_events) :
    /\ critical_events[i].pid \in PIDs
    /\ "fd" \in DOMAIN critical_events[i] =>
         critical_events[i].fd \in FDs /\ "dest" \notin DOMAIN critical_events[i]
    /\ criticalIDs[i] # NoConn =>
         /\ "fd" \in DOMAIN critical_events[i]
         /\ Made(criticalIDs[i], critical_events[i].pid, critical_events[i].fd)
Remembered == PendingMade /\ ConnMade /\ RoutineMade /\ CriticalMade

(* A connect(2) that armed its descriptor has its entry until it expires.  *)
StillArmed ==
  \A i \in 1..MaxCalls :
    \A p \in PIDs, fd \in FDs :
      fate[i].is = "armed" /\ ktime - fate[i].at <= staleFDTTL /\ fate[i].key = <<p, fd>> =>
        /\ fd \in DOMAIN suspiciousByPID[p]
        /\ suspiciousByPID[p][fd].id = i /\ suspiciousByPID[p][fd].at = fate[i].at

SensorInv == SensorTypes /\ Remembered /\ StillArmed /\ CorrelationExplained
-----------------------------------------------------------------------------
(* A ring buffer and the numbers that go with its records, as a program    *)
(* puts a record or not, ...                                               *)
LEMMA RoutineGrows ==
  ASSUME SensorTypes, NEW ev, NEW id \in Numbers,
         events' = events \/ events' = Append(events, ev),
         routineIDs' = IF Len(events') > Len(events)
                        THEN Append(routineIDs, id) ELSE routineIDs
  PROVE  /\ IsList(events)' /\ routineIDs' \in Seq(Numbers)
         /\ Len(events') = Len(routineIDs')
         /\ \A i \in 1..Len(events') :
              \/ /\ i \in 1..Len(events)
                 /\ events'[i] = events[i] /\ routineIDs'[i] = routineIDs[i]
              \/ events'[i] = ev /\ routineIDs'[i] = id
<1>0. /\ IsList(events) /\ Len(events) = Len(routineIDs)
      /\ Len(events) \in Nat /\ routineIDs \in Seq(Numbers)
  BY LenProperties DEF SensorTypes
<1>1. CASE events' = events
  <2>1. routineIDs' = routineIDs  BY <1>0, <1>1
  <2>. QED  BY <1>0, <1>1, <2>1 DEF IsList
<1>2. CASE events' = Append(events, ev)
  <2>1. /\ IsList(events') /\ Len(events') = Len(events) + 1
        /\ \A i \in 1..Len(events) : events'[i] = events[i]
        /\ events'[Len(events) + 1] = ev
    BY <1>0, <1>2, ListAppend
  <2>2. routineIDs' = Append(routineIDs, id)  BY <1>0, <2>1
  <2>3. /\ routineIDs' \in Seq(Numbers) /\ Len(routineIDs') = Len(routineIDs) + 1
        /\ \A i \in 1..Len(routineIDs) : routineIDs'[i] = routineIDs[i]
        /\ routineIDs'[Len(routineIDs) + 1] = id
    BY <1>0, <2>2, AppendProperties
  <2>4. IsList(events)'  BY <2>1 DEF IsList
  <2>. QED  BY <1>0, <2>1, <2>3, <2>4
<1>. QED  BY <1>1, <1>2

LEMMA CriticalGrows ==
  ASSUME SensorTypes, NEW ev, NEW id \in Numbers,
         critical_events' = critical_events \/ critical_events' = Append(critical_events, ev),
         criticalIDs' = IF Len(critical_events') > Len(critical_events)
                        THEN Append(criticalIDs, id) ELSE criticalIDs
  PROVE  /\ IsList(critical_events)' /\ criticalIDs' \in Seq(Numbers)
         /\ Len(critical_events') = Len(criticalIDs')
         /\ \A i \in 1..Len(critical_events') :
              \/ /\ i \in 1..Len(critical_events)
                 /\ critical_events'[i] = critical_events[i] /\ criticalIDs'[i] = criticalIDs[i]
              \/ critical_events'[i] = ev /\ criticalIDs'[i] = id
<1>0. /\ IsList(critical_events) /\ Len(critical_events) = Len(criticalIDs)
      /\ Len(critical_events) \in Nat /\ criticalIDs \in Seq(Numbers)
  BY LenProperties DEF SensorTypes
<1>1. CASE critical_events' = critical_events
  <2>1. criticalIDs' = criticalIDs  BY <1>0, <1>1
  <2>. QED  BY <1>0, <1>1, <2>1 DEF IsList
<1>2. CASE critical_events' = Append(critical_events, ev)
  <2>1. /\ IsList(critical_events') /\ Len(critical_events') = Len(critical_events) + 1
        /\ \A i \in 1..Len(critical_events) : critical_events'[i] = critical_events[i]
        /\ critical_events'[Len(critical_events) + 1] = ev
    BY <1>0, <1>2, ListAppend
  <2>2. criticalIDs' = Append(criticalIDs, id)  BY <1>0, <2>1
  <2>3. /\ criticalIDs' \in Seq(Numbers) /\ Len(criticalIDs') = Len(criticalIDs) + 1
        /\ \A i \in 1..Len(criticalIDs) : criticalIDs'[i] = criticalIDs[i]
        /\ criticalIDs'[Len(criticalIDs) + 1] = id
    BY <1>0, <2>2, AppendProperties
  <2>4. IsList(critical_events)'  BY <2>1 DEF IsList
  <2>. QED  BY <1>0, <2>1, <2>3, <2>4
<1>. QED  BY <1>1, <1>2

(* ... and as a reader takes one.                                          *)
LEMMA PairTaken ==
  ASSUME NEW q, NEW ids \in Seq(Numbers), IsList(q), Len(q) = Len(ids), q # <<>>
  PROVE  /\ IsList(Tail(q)) /\ Tail(ids) \in Seq(Numbers) /\ Len(Tail(q)) = Len(Tail(ids))
         /\ Len(q) \in Nat \ {0} /\ Head(q) = q[1] /\ Head(ids) = ids[1] /\ Head(ids) \in Numbers
         /\ \A i \in 1..Len(Tail(q)) : /\ i + 1 \in 1..Len(q)
                                       /\ Tail(q)[i] = q[i + 1] /\ Tail(ids)[i] = ids[i + 1]
<1>1. /\ IsList(Tail(q)) /\ Len(q) \in Nat \ {0} /\ Len(Tail(q)) = Len(q) - 1
      /\ Head(q) = q[1]
      /\ \A i \in 1..(Len(q) - 1) : Tail(q)[i] = q[i + 1]
  BY ListTake
<1>2. ids # <<>>  BY <1>1, EmptySeq
<1>3. /\ Tail(ids) \in Seq(Numbers) /\ Len(Tail(ids)) = Len(ids) - 1
      /\ Head(ids) = ids[1] /\ Head(ids) \in Numbers
      /\ \A i \in 1..Len(Tail(ids)) : Tail(ids)[i] = ids[i + 1]
  BY <1>2, HeadTailProperties
<1>. QED  BY <1>1, <1>3

(* What the system calls do to the rings.                                  *)
LEMMA ConnectRecord ==
  ASSUME NEW p \in PIDs, NEW fd \in FDs, NEW dest \in Dests, SysEnterConnect(p, fd, dest)
  PROVE  /\ calls < MaxCalls /\ calls' = calls + 1
         /\ connecting' = [connecting EXCEPT ![p] = [fd |-> fd, sa |-> dest]]
         /\ events' = events \/ events' = Append(events, connect_event(p, fd, dest))
         /\ UNCHANGED <<kernelMaps, critical, connected, ktime>>
BY DEF SysEnterConnect, SysEnter, SubmitRoutine, inc_drop_count, Skip, routine, critical

LEMMA WriteRecord ==
  ASSUME NEW p \in PIDs, NEW fd \in FDs, NEW buf, SysEnterWrite(p, fd, buf)
  PROVE  \E payload :
           /\ calls < MaxCalls /\ calls' = calls + 1
           /\ \/ critical_events' = critical_events
              \/ critical_events' = Append(critical_events, write_event("write", p, fd, payload, <<buf>>))
           /\ UNCHANGED <<kernelMaps, routine, connecting, connected, ktime>>
BY DEF SysEnterWrite, SysEnter, emit_write, SubmitCritical, inc_critical_drop_count, Skip, routine, critical

LEMMA SendtoRecord ==
  ASSUME NEW p \in PIDs, NEW fd \in FDs, NEW buf, NEW dest \in Dests,
         SysEnterSendto(p, fd, buf, dest)
  PROVE  \E payload :
           /\ calls < MaxCalls /\ calls' = calls + 1
           /\ \/ critical_events' = critical_events
              \/ critical_events' = Append(critical_events, sendto_event("sendto", p, dest, payload, <<buf>>))
           /\ UNCHANGED <<kernelMaps, routine, connecting, connected, ktime>>
<1>1. dest # NULL /\ read_dest(dest)  BY ProbesAssumption DEF read_dest
<1>. QED
  BY <1>1 DEF SysEnterSendto, SysEnter, SubmitCritical, inc_critical_drop_count, Skip, routine, critical

LEMMA OpenRecord ==
  ASSUME NEW p \in PIDs, NEW path, SysEnterOpenat(p, path)
  PROVE  /\ calls < MaxCalls /\ calls' = calls + 1
         /\ events' = events \/ events' = Append(events, openat_event(p, path))
         /\ UNCHANGED <<kernelMaps, critical, connecting, connected, ktime>>
BY DEF SysEnterOpenat, SysEnter, SubmitRoutine, inc_drop_count, Skip, routine, critical

LEMMA DenyRecord ==
  ASSUME NEW p \in PIDs, NEW ret \in {0, 1}, LsmSocketConnect(p, ret)
  PROVE  /\ connecting[p] # NULL /\ connecting' = [connecting EXCEPT ![p] = NULL]
         /\ \/ critical_events' = critical_events
            \/ critical_events' = Append(critical_events, lsm_deny_event(p))
         /\ UNCHANGED <<kernelMaps, routine, ktime, calls>>
BY DEF LsmSocketConnect, SubmitCritical, inc_critical_drop_count, routine, critical
-----------------------------------------------------------------------------
(* Numbers stay what they are, whatever else happens, ...                  *)
KeysKept == calls' \in Nat /\ calls <= calls' /\ \A i \in 1..calls : fate'[i].key = fate[i].key

LEMMA MadeKept ==
  ASSUME SensorTypes, Remembered, KeysKept
  PROVE  /\ \A id, p, fd : Made(id, p, fd) => Made(id, p, fd)'
         /\ UNCHANGED <<connecting, pending>> => PendingMade'
         /\ UNCHANGED connID => ConnMade'
         /\ UNCHANGED <<events, routineIDs>> => RoutineMade'
         /\ UNCHANGED <<critical_events, criticalIDs>> => CriticalMade'
<1>0. /\ calls \in Nat
      /\ \A i \in 1..calls : i \in 1..calls' /\ fate'[i].key = fate[i].key
  BY DEF SensorTypes, Numbers, KeysKept
<1>1. \A id, p, fd : Made(id, p, fd) => Made(id, p, fd)'
  BY <1>0 DEF Made
<1>2. ASSUME UNCHANGED <<connecting, pending>> PROVE PendingMade'
  <2> SUFFICES ASSUME NEW p \in PIDs, connecting'[p] # NULL
               PROVE  Made(pending[p], p, connecting[p].fd)'
    BY DEF PendingMade
  <2>1. Made(pending[p], p, connecting[p].fd)  BY <1>2 DEF Remembered, PendingMade
  <2>. QED  BY <1>0, <1>2, <2>1 DEF Made
<1>3. ASSUME UNCHANGED connID PROVE ConnMade'
  <2> SUFFICES ASSUME NEW p \in PIDs, NEW fd \in FDs, connID'[<<p, fd>>] # NoConn
               PROVE  Made(connID[<<p, fd>>], p, fd)'
    BY DEF ConnMade
  <2>1. Made(connID[<<p, fd>>], p, fd)  BY <1>3 DEF Remembered, ConnMade
  <2>. QED  BY <1>0, <1>3, <2>1 DEF Made
<1>4. ASSUME UNCHANGED <<events, routineIDs>> PROVE RoutineMade'
  <2> SUFFICES ASSUME NEW i \in 1..Len(events'), events'[i].type = "connect"
               PROVE  /\ events'[i].pid \in PIDs /\ events'[i].fd \in FDs
                      /\ Made(routineIDs[i], events[i].pid, events[i].fd)'
    BY DEF RoutineMade
  <2>1. /\ events[i].pid \in PIDs /\ events[i].fd \in FDs
        /\ Made(routineIDs[i], events[i].pid, events[i].fd)
    BY <1>4 DEF Remembered, RoutineMade
  <2>. QED  BY <1>0, <1>4, <2>1 DEF Made
<1>5. ASSUME UNCHANGED <<critical_events, criticalIDs>> PROVE CriticalMade'
  <2> SUFFICES ASSUME NEW i \in 1..Len(critical_events')
               PROVE  /\ critical_events'[i].pid \in PIDs
                      /\ "fd" \in DOMAIN critical_events'[i] =>
                           critical_events'[i].fd \in FDs /\ "dest" \notin DOMAIN critical_events'[i]
                      /\ criticalIDs'[i] # NoConn =>
                           /\ "fd" \in DOMAIN critical_events'[i]
                           /\ Made(criticalIDs[i], critical_events[i].pid, critical_events[i].fd)'
    BY DEF CriticalMade
  <2>1. /\ critical_events[i].pid \in PIDs
        /\ "fd" \in DOMAIN critical_events[i] =>
             critical_events[i].fd \in FDs /\ "dest" \notin DOMAIN critical_events[i]
        /\ criticalIDs[i] # NoConn =>
             /\ "fd" \in DOMAIN critical_events[i]
             /\ Made(criticalIDs[i], critical_events[i].pid, critical_events[i].fd)
    BY <1>5 DEF Remembered, CriticalMade
  <2>. QED  BY <1>0, <1>5, <2>1 DEF Made
<1>. QED  BY <1>1, <1>2, <1>3, <1>4, <1>5

(* ... and a record that is taken takes its number along.                  *)
LEMMA RoutineTaken ==
  ASSUME SensorTypes, Remembered, KeysKept, events # <<>>,
         events' = Tail(events), routineIDs' = Tail(routineIDs)
  PROVE  /\ IsList(events)' /\ routineIDs' \in Seq(Numbers) /\ Len(events') = Len(routineIDs')
         /\ Len(events) \in Nat \ {0} /\ Head(events) = events[1] /\ Head(routineIDs) = routineIDs[1]
         /\ RoutineMade'
<1>1. /\ IsList(Tail(events)) /\ Tail(routineIDs) \in Seq(Numbers)
      /\ Len(Tail(events)) = Len(Tail(routineIDs))
      /\ Len(events) \in Nat \ {0} /\ Head(events) = events[1] /\ Head(routineIDs) = routineIDs[1]
      /\ \A i \in 1..Len(Tail(events)) :
           /\ i + 1 \in 1..Len(events)
           /\ Tail(events)[i] = events[i + 1] /\ Tail(routineIDs)[i] = routineIDs[i + 1]
  BY PairTaken DEF SensorTypes
<1>2. IsList(events)'  BY <1>1 DEF IsList
<1>3. RoutineMade'
  <2>1. \A n \in 1..calls : n \in 1..calls' /\ fate'[n].key = fate[n].key
    BY DEF SensorTypes, Numbers, KeysKept
  <2> SUFFICES ASSUME NEW i \in 1..Len(events'), events'[i].type = "connect"
               PROVE  /\ events'[i].pid \in PIDs /\ events'[i].fd \in FDs
                      /\ Made(routineIDs[i], events[i].pid, events[i].fd)'
    BY DEF RoutineMade
  <2>2. /\ i + 1 \in 1..Len(events) /\ events'[i] = events[i + 1]
        /\ routineIDs'[i] = routineIDs[i + 1]
    BY <1>1
  <2>3. /\ events[i + 1].pid \in PIDs /\ events[i + 1].fd \in FDs
        /\ Made(routineIDs[i + 1], events[i + 1].pid, events[i + 1].fd)
    BY <2>2 DEF Remembered, RoutineMade
  <2>. QED  BY <2>1, <2>2, <2>3 DEF Made
<1>. QED  BY <1>1, <1>2, <1>3

LEMMA CriticalTaken ==
  ASSUME SensorTypes, Remembered, KeysKept, critical_events # <<>>,
         critical_events' = Tail(critical_events), criticalIDs' = Tail(criticalIDs)
  PROVE  /\ IsList(critical_events)' /\ criticalIDs' \in Seq(Numbers)
         /\ Len(critical_events') = Len(criticalIDs')
         /\ Len(critical_events) \in Nat \ {0} /\ Head(critical_events) = critical_events[1]
         /\ Head(criticalIDs) = criticalIDs[1] /\ Head(criticalIDs) \in Numbers
         /\ CriticalMade'
<1>1. /\ IsList(Tail(critical_events)) /\ Tail(criticalIDs) \in Seq(Numbers)
      /\ Len(Tail(critical_events)) = Len(Tail(criticalIDs))
      /\ Len(critical_events) \in Nat \ {0} /\ Head(critical_events) = critical_events[1]
      /\ Head(criticalIDs) = criticalIDs[1] /\ Head(criticalIDs) \in Numbers
      /\ \A i \in 1..Len(Tail(critical_events)) :
           /\ i + 1 \in 1..Len(critical_events)
           /\ Tail(critical_events)[i] = critical_events[i + 1]
           /\ Tail(criticalIDs)[i] = criticalIDs[i + 1]
  BY PairTaken DEF SensorTypes
<1>2. IsList(critical_events)'  BY <1>1 DEF IsList
<1>3. CriticalMade'
  <2>1. \A n \in 1..calls : n \in 1..calls' /\ fate'[n].key = fate[n].key
    BY DEF SensorTypes, Numbers, KeysKept
  <2> SUFFICES ASSUME NEW i \in 1..Len(critical_events')
               PROVE  /\ critical_events'[i].pid \in PIDs
                      /\ "fd" \in DOMAIN critical_events'[i] =>
                           critical_events'[i].fd \in FDs /\ "dest" \notin DOMAIN critical_events'[i]
                      /\ criticalIDs'[i] # NoConn =>
                           /\ "fd" \in DOMAIN critical_events'[i]
                           /\ Made(criticalIDs[i], critical_events[i].pid, critical_events[i].fd)'
    BY DEF CriticalMade
  <2>2. /\ i + 1 \in 1..Len(critical_events) /\ critical_events'[i] = critical_events[i + 1]
        /\ criticalIDs'[i] = criticalIDs[i + 1]
    BY <1>1
  <2>3. /\ critical_events[i + 1].pid \in PIDs
        /\ "fd" \in DOMAIN critical_events[i + 1] =>
             critical_events[i + 1].fd \in FDs /\ "dest" \notin DOMAIN critical_events[i + 1]
        /\ criticalIDs[i + 1] # NoConn =>
             /\ "fd" \in DOMAIN critical_events[i + 1]
             /\ Made(criticalIDs[i + 1], critical_events[i + 1].pid, critical_events[i + 1].fd)
    BY <2>2 DEF Remembered, CriticalMade
  <2>. QED  BY <2>1, <2>2, <2>3 DEF Made
<1>. QED  BY <1>1, <1>2, <1>3
-----------------------------------------------------------------------------
LEMMA SensorInvInit == SensorInit => SensorInv
<1> SUFFICES ASSUME SensorInit PROVE SensorInv  OBVIOUS
<1> USE DEF SensorInit, Init
<1>1. SensorTypes
  <2>1. MaxCalls \in Nat  BY ProbesAssumption
  <2>2. IsList(<<>>)  BY DEF IsList
  <2>3. fate \in [1..MaxCalls -> Fates]  BY DEF Fates
  <2>4. <<>> \in Seq(Numbers) /\ Len(<<>>) = 0  OBVIOUS
  <2>5. pending \in [PIDs -> Numbers] /\ connID \in [PIDs \X FDs -> Numbers] /\ calls \in Numbers
    BY <2>1 DEF Numbers, NoConn
  <2>6. connecting \in [PIDs -> {NULL} \cup [fd : FDs, sa : Names]]  OBVIOUS
  <2>. QED  BY <2>2, <2>3, <2>4, <2>5, <2>6 DEF SensorTypes
<1>2. Remembered  BY DEF Remembered, PendingMade, ConnMade, RoutineMade, CriticalMade, NoConn
<1>3. StillArmed  BY DEF StillArmed
<1>4. CorrelationExplained  BY DEF CorrelationExplained, Idle
<1>. QED  BY <1>1, <1>2, <1>3, <1>4 DEF SensorInv

(* connect(2) gets a new number.                                           *)
LEMMA ConnectKeeps ==
  ASSUME SensorInv, NEW p \in PIDs, NEW fd \in FDs, NEW dest \in ConnectTo, Connect(p, fd, dest)
  PROVE  SensorInv'
<1> USE DEF SensorInv
<1> DEFINE ev == connect_event(p, fd, dest)
           id == calls + 1
<1>0. dest \in Dests /\ dest \in Names  BY SensorAssumption DEF Names
<1>1. /\ calls < MaxCalls /\ calls' = id
      /\ connecting' = [connecting EXCEPT ![p] = [fd |-> fd, sa |-> dest]]
      /\ events' = events \/ events' = Append(events, ev)
      /\ UNCHANGED <<kernelMaps, critical, connected, ktime>>
  BY <1>0, ConnectRecord DEF Connect
<1> DEFINE is == IF ~monitored_task(p) THEN "unwatched"
                 ELSE IF drop_count' > drop_count THEN "dropped" ELSE "queued"
<1>2. /\ pending' = [pending EXCEPT ![p] = id]
      /\ routineIDs' = IF Len(events') > Len(events) THEN Append(routineIDs, id) ELSE routineIDs
      /\ fate' = [fate EXCEPT ![id] = [key |-> <<p, fd>>, at |-> 0, is |-> is]]
      /\ UNCHANGED <<suspiciousByPID, connID, criticalIDs, last>>
  BY <1>1 DEF Connect
<1>3. is \in {"unwatched", "dropped", "queued"}  OBVIOUS
<1> HIDE DEF is
<1>4. id \in 1..MaxCalls /\ id \in Numbers /\ calls \in Numbers
  BY <1>1, ProbesAssumption DEF SensorTypes, Numbers
<1>5. /\ fate' \in [1..MaxCalls -> Fates] /\ fate'[id].key = <<p, fd>> /\ fate'[id].is # "armed"
      /\ \A i \in 1..MaxCalls : i # id => fate'[i] = fate[i]
      /\ \A i \in 1..calls : i \in 1..calls' /\ fate'[i] = fate[i]
  <2>1. [key |-> <<p, fd>>, at |-> 0, is |-> is] \in Fates  BY <1>3 DEF Fates
  <2>2. fate \in [1..MaxCalls -> Fates]  BY DEF SensorTypes
  <2>3. /\ fate' \in [1..MaxCalls -> Fates] /\ fate'[id].key = <<p, fd>> /\ fate'[id].is = is
        /\ \A i \in 1..MaxCalls : i # id => fate'[i] = fate[i]
    BY <1>2, <1>4, <2>1, <2>2, SMTT(30)
  <2>4. \A i \in 1..calls : i \in 1..calls' /\ i \in 1..MaxCalls /\ i # id
    <3>1. /\ calls' = id /\ id = calls + 1 /\ calls \in Nat /\ MaxCalls \in Nat
          /\ calls + 1 <= MaxCalls
      BY <1>1, <1>4, ProbesAssumption DEF Numbers
    <3>. QED  BY ONLY <3>1
  <2>. QED  BY <1>3, <2>3, <2>4
<1> HIDE DEF ev, id
<1>6. /\ IsList(events)' /\ routineIDs' \in Seq(Numbers) /\ Len(events') = Len(routineIDs')
      /\ \A i \in 1..Len(events') :
            \/ i \in 1..Len(events) /\ events'[i] = events[i] /\ routineIDs'[i] = routineIDs[i]
            \/ events'[i] = ev /\ routineIDs'[i] = id
  BY <1>1, <1>2, <1>4, RoutineGrows
<1>7. SensorTypes'
  <2>1. pending' \in [PIDs -> Numbers]  BY <1>2, <1>4 DEF SensorTypes
  <2>2. connecting' \in [PIDs -> {NULL} \cup [fd : FDs, sa : Names]]
    BY <1>0, <1>1 DEF SensorTypes
  <2>3. IsList(critical_events)'  BY <1>1 DEF IsList, SensorTypes, critical
  <2>. QED  BY <1>1, <1>2, <1>4, <1>5, <1>6, <2>1, <2>2, <2>3 DEF SensorTypes, critical, kernelMaps
<1>8. Remembered'
  <2>1. KeysKept  BY <1>1, <1>4, <1>5 DEF KeysKept, SensorTypes, Numbers, id
  <2>2. PendingMade'
    <3> SUFFICES ASSUME NEW q \in PIDs, connecting'[q] # NULL
                 PROVE  Made(pending[q], q, connecting[q].fd)'
      BY DEF PendingMade
    <3>1. CASE q = p  BY <1>1, <1>2, <1>4, <1>5, <3>1 DEF Made, SensorTypes, Numbers, id
    <3>2. CASE q # p
      <4>1. connecting'[q] = connecting[q] /\ pending'[q] = pending[q]
        BY <1>1, <1>2, <3>2 DEF SensorTypes
      <4>2. Made(pending[q], q, connecting[q].fd)  BY <4>1 DEF Remembered, PendingMade
      <4>. QED  BY <2>1, <4>1, <4>2, MadeKept DEF Made
    <3>. QED  BY <3>1, <3>2
  <2>3. RoutineMade'
    <3> SUFFICES ASSUME NEW i \in 1..Len(events'), events'[i].type = "connect"
                 PROVE  /\ events'[i].pid \in PIDs /\ events'[i].fd \in FDs
                        /\ Made(routineIDs[i], events[i].pid, events[i].fd)'
      BY DEF RoutineMade
    <3>1. CASE events'[i] = ev /\ routineIDs'[i] = id
      BY <1>1, <1>4, <1>5, <3>1 DEF Made, connect_event, Numbers, ev, id
    <3>2. CASE i \in 1..Len(events) /\ events'[i] = events[i] /\ routineIDs'[i] = routineIDs[i]
      <4>1. /\ events[i].pid \in PIDs /\ events[i].fd \in FDs
            /\ Made(routineIDs[i], events[i].pid, events[i].fd)
        BY <3>2 DEF Remembered, RoutineMade
      <4>. QED  BY <2>1, <3>2, <4>1, MadeKept DEF Made
    <3>. QED  BY <1>6, <3>1, <3>2
  <2>4. ConnMade' /\ CriticalMade'
    BY <1>1, <1>2, <2>1, MadeKept DEF critical
  <2>. QED  BY <2>2, <2>3, <2>4 DEF Remembered
<1>9. StillArmed'
  <2> SUFFICES ASSUME NEW i \in 1..MaxCalls, NEW q \in PIDs, NEW d \in FDs,
                      fate'[i].is = "armed", ktime' - fate'[i].at <= staleFDTTL,
                      fate'[i].key = <<q, d>>
               PROVE  /\ d \in DOMAIN suspiciousByPID'[q]
                      /\ suspiciousByPID'[q][d].id = i /\ suspiciousByPID'[q][d].at = fate'[i].at
    BY DEF StillArmed
  <2>1. i # id /\ fate'[i] = fate[i] /\ ktime' = ktime /\ suspiciousByPID' = suspiciousByPID
    BY <1>1, <1>2, <1>5
  <2>. QED  BY <2>1 DEF StillArmed
<1>10. CorrelationExplained'  BY <1>2 DEF CorrelationExplained
<1>. QED  BY <1>7, <1>8, <1>9, <1>10

(* Nothing is disarmed by time alone before it expires.                    *)
LEMMA ArmedStay ==
  ASSUME SensorTypes, StillArmed, UNCHANGED <<fate, suspiciousByPID>>,
         ktime' \in Nat, ktime <= ktime'
  PROVE  StillArmed'
<1> SUFFICES ASSUME NEW i \in 1..MaxCalls, NEW q \in PIDs, NEW d \in FDs,
                    fate'[i].is = "armed", ktime' - fate'[i].at <= staleFDTTL,
                    fate'[i].key = <<q, d>>
             PROVE  /\ d \in DOMAIN suspiciousByPID'[q]
                    /\ suspiciousByPID'[q][d].id = i /\ suspiciousByPID'[q][d].at = fate'[i].at
  BY DEF StillArmed
<1>1. fate[i].at \in Nat /\ ktime \in Nat  BY DEF SensorTypes, Fates
<1>2. staleFDTTL \in Nat  BY SensorAssumption
<1>3. ktime - fate[i].at <= staleFDTTL  BY <1>1, <1>2
<1>. QED  BY <1>3 DEF StillArmed

(* A payload's record goes with the connection it was sent over, or with   *)
(* none.                                                                   *)
LEMMA PayloadKeeps ==
  ASSUME SensorInv, NEW ev, NEW id \in Numbers,
         critical_events' = critical_events \/ critical_events' = Append(critical_events, ev),
         criticalIDs' = IF Len(critical_events') > Len(critical_events)
                        THEN Append(criticalIDs, id) ELSE criticalIDs,
         calls' \in Numbers, calls <= calls',
         ev.pid \in PIDs, "fd" \in DOMAIN ev => ev.fd \in FDs /\ "dest" \notin DOMAIN ev,
         id # NoConn => "fd" \in DOMAIN ev /\ Made(id, ev.pid, ev.fd),
         UNCHANGED <<kernelMaps, events, routineIDs, ktime, fate, suspiciousByPID, last>>
  PROVE  /\ connecting' \in [PIDs -> {NULL} \cup [fd : FDs, sa : Names]]
              /\ UNCHANGED pending /\ connID' \in [PIDs \X FDs -> Numbers] => SensorTypes'
         /\ RoutineMade' /\ CriticalMade' /\ StillArmed' /\ CorrelationExplained' /\ KeysKept
<1> USE DEF SensorInv
<1>1. KeysKept  BY DEF KeysKept, Numbers
<1>2. /\ IsList(critical_events)' /\ criticalIDs' \in Seq(Numbers)
      /\ Len(critical_events') = Len(criticalIDs')
      /\ \A i \in 1..Len(critical_events') :
           \/ /\ i \in 1..Len(critical_events)
              /\ critical_events'[i] = critical_events[i] /\ criticalIDs'[i] = criticalIDs[i]
           \/ critical_events'[i] = ev /\ criticalIDs'[i] = id
  BY CriticalGrows
<1>3. ASSUME connecting' \in [PIDs -> {NULL} \cup [fd : FDs, sa : Names]],
             UNCHANGED pending, connID' \in [PIDs \X FDs -> Numbers]
      PROVE  SensorTypes'
  <2>1. IsList(events)'  BY DEF IsList, SensorTypes
  <2>. QED  BY <1>2, <1>3, <2>1 DEF SensorTypes, kernelMaps
<1>4. RoutineMade'  BY <1>1, MadeKept
<1>5. CriticalMade'
  <2> SUFFICES ASSUME NEW i \in 1..Len(critical_events')
               PROVE  /\ critical_events'[i].pid \in PIDs
                      /\ "fd" \in DOMAIN critical_events'[i] =>
                           critical_events'[i].fd \in FDs /\ "dest" \notin DOMAIN critical_events'[i]
                      /\ criticalIDs'[i] # NoConn =>
                           /\ "fd" \in DOMAIN critical_events'[i]
                           /\ Made(criticalIDs[i], critical_events[i].pid, critical_events[i].fd)'
    BY DEF CriticalMade
  <2>0. \A n \in 1..calls : n \in 1..calls' /\ fate'[n].key = fate[n].key
    BY <1>1 DEF KeysKept, SensorTypes, Numbers
  <2>1. CASE critical_events'[i] = ev /\ criticalIDs'[i] = id
    BY <2>0, <2>1 DEF Made
  <2>2. CASE /\ i \in 1..Len(critical_events)
             /\ critical_events'[i] = critical_events[i] /\ criticalIDs'[i] = criticalIDs[i]
    <3>1. /\ critical_events[i].pid \in PIDs
          /\ "fd" \in DOMAIN critical_events[i] =>
               critical_events[i].fd \in FDs /\ "dest" \notin DOMAIN critical_events[i]
          /\ criticalIDs[i] # NoConn =>
               /\ "fd" \in DOMAIN critical_events[i]
               /\ Made(criticalIDs[i], critical_events[i].pid, critical_events[i].fd)
      BY <2>2 DEF Remembered, CriticalMade
    <3>. QED  BY <2>0, <2>2, <3>1 DEF Made
  <2>. QED  BY <1>2, <2>1, <2>2
<1>6. StillArmed'
  <2>1. ktime' \in Nat /\ ktime <= ktime'  BY DEF SensorTypes
  <2>. QED  BY <2>1, ArmedStay
<1>7. CorrelationExplained'  BY DEF CorrelationExplained
<1>. QED  BY <1>1, <1>3, <1>4, <1>5, <1>6, <1>7

LEMMA WriteKeeps ==
  ASSUME SensorInv, NEW p \in PIDs, NEW fd \in FDs, NEW buf, Write(p, fd, buf)
  PROVE  SensorInv'
<1> USE DEF SensorInv
<1>1. PICK payload :
           /\ calls < MaxCalls /\ calls' = calls + 1
           /\ \/ critical_events' = critical_events
              \/ critical_events' = Append(critical_events, write_event("write", p, fd, payload, <<buf>>))
           /\ UNCHANGED <<kernelMaps, routine, connecting, connected, ktime>>
  BY WriteRecord DEF Write
<1> DEFINE ev == write_event("write", p, fd, payload, <<buf>>)
           id == connID[<<p, fd>>]
<1>2. /\ criticalIDs' = IF Len(critical_events') > Len(critical_events)
                        THEN Append(criticalIDs, id) ELSE criticalIDs
      /\ UNCHANGED <<suspiciousByPID, fate, routineIDs, last, pending, connID>>
  BY DEF Write, Payload
<1>3. id \in Numbers /\ calls' \in Numbers /\ calls <= calls'
  BY <1>1, ProbesAssumption DEF SensorTypes, Numbers
<1>4. ev.pid = p /\ "fd" \in DOMAIN ev /\ ev.fd = fd /\ "dest" \notin DOMAIN ev
  BY DEF write_event
<1>5. id # NoConn => Made(id, p, fd)  BY DEF Remembered, ConnMade
<1> HIDE DEF ev, id
<1>6. UNCHANGED <<kernelMaps, events, routineIDs, ktime, fate, suspiciousByPID, last>>
  BY <1>1, <1>2 DEF routine
<1>7. /\ connecting' \in [PIDs -> {NULL} \cup [fd : FDs, sa : Names]]
      /\ UNCHANGED <<connecting, pending, connID>> /\ connID' \in [PIDs \X FDs -> Numbers]
  BY <1>1, <1>2 DEF SensorTypes
<1>8. critical_events' = critical_events \/ critical_events' = Append(critical_events, ev)
  BY <1>1 DEF ev
<1>9. SensorTypes' /\ RoutineMade' /\ CriticalMade' /\ StillArmed' /\ CorrelationExplained' /\ KeysKept
  BY <1>2, <1>3, <1>4, <1>5, <1>6, <1>7, <1>8, PayloadKeeps
<1>10. PendingMade' /\ ConnMade'  BY <1>7, <1>9, MadeKept
<1>. QED  BY <1>9, <1>10 DEF Remembered

LEMMA SendtoKeeps ==
  ASSUME SensorInv, NEW p \in PIDs, NEW fd \in FDs, NEW buf, NEW dest \in SendTo,
         Sendto(p, fd, buf, dest)
  PROVE  SensorInv'
<1> USE DEF SensorInv
<1>0. dest \in Dests  BY SensorAssumption
<1>1. PICK payload :
           /\ calls < MaxCalls /\ calls' = calls + 1
           /\ \/ critical_events' = critical_events
              \/ critical_events' = Append(critical_events, sendto_event("sendto", p, dest, payload, <<buf>>))
           /\ UNCHANGED <<kernelMaps, routine, connecting, connected, ktime>>
  BY <1>0, SendtoRecord DEF Sendto
<1> DEFINE ev == sendto_event("sendto", p, dest, payload, <<buf>>)
<1>2. /\ criticalIDs' = IF Len(critical_events') > Len(critical_events)
                        THEN Append(criticalIDs, NoConn) ELSE criticalIDs
      /\ UNCHANGED <<suspiciousByPID, fate, routineIDs, last, pending, connID>>
  BY DEF Sendto, Payload
<1>3. NoConn \in Numbers /\ calls' \in Numbers /\ calls <= calls'
  BY <1>1, ProbesAssumption DEF SensorTypes, Numbers, NoConn
<1>4. ev.pid = p /\ "fd" \notin DOMAIN ev  BY DEF sendto_event
<1> HIDE DEF ev
<1>6. UNCHANGED <<kernelMaps, events, routineIDs, ktime, fate, suspiciousByPID, last>>
  BY <1>1, <1>2 DEF routine
<1>7. /\ connecting' \in [PIDs -> {NULL} \cup [fd : FDs, sa : Names]]
      /\ UNCHANGED <<connecting, pending, connID>> /\ connID' \in [PIDs \X FDs -> Numbers]
  BY <1>1, <1>2 DEF SensorTypes
<1>8. critical_events' = critical_events \/ critical_events' = Append(critical_events, ev)
  BY <1>1 DEF ev
<1>9. SensorTypes' /\ RoutineMade' /\ CriticalMade' /\ StillArmed' /\ CorrelationExplained' /\ KeysKept
  BY <1>2, <1>3, <1>4, <1>6, <1>7, <1>8, PayloadKeeps
<1>10. PendingMade' /\ ConnMade'  BY <1>7, <1>9, MadeKept
<1>. QED  BY <1>9, <1>10 DEF Remembered

(* The descriptor is connected under the number of the connect(2) that is  *)
(* under way, or not at all.                                               *)
LEMMA ConnectDoneKeeps ==
  ASSUME SensorInv, NEW p \in PIDs, NEW ret \in {0, 1}, ConnectDone(p, ret)
  PROVE  SensorInv'
<1> USE DEF SensorInv
<1> DEFINE ev == lsm_deny_event(p)
           fd == connecting[p].fd
           id == IF ret = 0 /\ ~blocklisted(p) THEN pending[p] ELSE NoConn
<1>1. /\ connecting[p] # NULL /\ connecting' = [connecting EXCEPT ![p] = NULL]
      /\ critical_events' = critical_events \/ critical_events' = Append(critical_events, ev)
      /\ UNCHANGED <<kernelMaps, routine, ktime, calls>>
  BY DenyRecord DEF ConnectDone
<1>2. /\ connID' = [connID EXCEPT ![<<p, fd>>] = id]
      /\ criticalIDs' = IF Len(critical_events') > Len(critical_events)
                        THEN Append(criticalIDs, NoConn) ELSE criticalIDs
      /\ UNCHANGED <<suspiciousByPID, fate, routineIDs, last, pending>>
  BY DEF ConnectDone
<1>3. NoConn \in Numbers /\ calls' \in Numbers /\ calls <= calls'
  BY <1>1, ProbesAssumption DEF SensorTypes, Numbers, NoConn
<1>4. ev.pid = p /\ "fd" \notin DOMAIN ev  BY DEF lsm_deny_event
<1>5. /\ fd \in FDs /\ id \in Numbers
      /\ id # NoConn => Made(id, p, fd)
  <2>1. connecting[p] \in [fd : FDs, sa : Names]  BY <1>1 DEF SensorTypes
  <2>2. Made(pending[p], p, fd)  BY <1>1 DEF Remembered, PendingMade
  <2>3. pending[p] \in Numbers  BY DEF SensorTypes
  <2>. QED  BY <1>3, <2>1, <2>2, <2>3
<1> HIDE DEF ev, id, fd
<1>6. UNCHANGED <<kernelMaps, events, routineIDs, ktime, fate, suspiciousByPID, last>>
  BY <1>1, <1>2 DEF routine
<1>7. /\ connecting' \in [PIDs -> {NULL} \cup [fd : FDs, sa : Names]]
      /\ UNCHANGED pending /\ connID' \in [PIDs \X FDs -> Numbers]
  BY <1>1, <1>2, <1>5 DEF SensorTypes
<1>9. SensorTypes' /\ RoutineMade' /\ CriticalMade' /\ StillArmed' /\ CorrelationExplained' /\ KeysKept
  BY <1>1, <1>2, <1>3, <1>4, <1>6, <1>7, PayloadKeeps
<1>10. \A n \in 1..calls : n \in 1..calls' /\ fate'[n].key = fate[n].key
  BY <1>9 DEF KeysKept, SensorTypes, Numbers
<1>11. PendingMade'
  <2> SUFFICES ASSUME NEW q \in PIDs, connecting'[q] # NULL
               PROVE  Made(pending[q], q, connecting[q].fd)'
    BY DEF PendingMade
  <2>1. connecting'[q] = connecting[q] /\ pending'[q] = pending[q]
    BY <1>1, <1>7 DEF SensorTypes
  <2>2. Made(pending[q], q, connecting[q].fd)  BY <2>1 DEF Remembered, PendingMade
  <2>. QED  BY <1>10, <2>1, <2>2 DEF Made
<1>12. ConnMade'
  <2> SUFFICES ASSUME NEW q \in PIDs, NEW d \in FDs, connID'[<<q, d>>] # NoConn
               PROVE  Made(connID[<<q, d>>], q, d)'
    BY DEF ConnMade
  <2>1. CASE q = p /\ d = fd
    <3>1. connID'[<<q, d>>] = id  BY <1>2, <2>1 DEF SensorTypes
    <3>2. Made(id, q, d)  BY <1>5, <2>1, <3>1
    <3>. QED  BY <1>10, <3>1, <3>2 DEF Made
  <2>2. CASE ~(q = p /\ d = fd)
    <3>1. connID'[<<q, d>>] = connID[<<q, d>>]  BY <1>2, <2>2 DEF SensorTypes
    <3>2. Made(connID[<<q, d>>], q, d)  BY <3>1 DEF Remembered, ConnMade
    <3>. QED  BY <1>10, <3>1, <3>2 DEF Made
  <2>. QED  BY <2>1, <2>2
<1>. QED  BY <1>9, <1>11, <1>12 DEF Remembered

LEMMA OpenKeeps ==
  ASSUME SensorInv, NEW p \in PIDs, Open(p)
  PROVE  SensorInv'
<1> USE DEF SensorInv
<1> DEFINE ev == openat_event(p, Secret)
<1>1. /\ calls < MaxCalls /\ calls' = calls + 1
      /\ events' = events \/ events' = Append(events, ev)
      /\ UNCHANGED <<kernelMaps, critical, connecting, connected, ktime>>
  BY OpenRecord DEF Open
<1>2. /\ routineIDs' = IF Len(events') > Len(events) THEN Append(routineIDs, NoConn) ELSE routineIDs
      /\ UNCHANGED <<suspiciousByPID, pending, connID, fate, criticalIDs, last>>
  BY DEF Open
<1>3. NoConn \in Numbers /\ calls' \in Numbers /\ KeysKept
  <2>1. calls \in Numbers /\ MaxCalls \in Nat  BY ProbesAssumption DEF SensorTypes
  <2>2. NoConn \in Numbers /\ calls' \in Numbers  BY <1>1, <2>1 DEF Numbers, NoConn
  <2>3. KeysKept  BY <1>1, <1>2, <2>1 DEF KeysKept, Numbers
  <2>. QED  BY <2>2, <2>3
<1>4. ev.type # "connect"  BY DEF openat_event
<1> HIDE DEF ev
<1>5. /\ IsList(events)' /\ routineIDs' \in Seq(Numbers) /\ Len(events') = Len(routineIDs')
      /\ \A i \in 1..Len(events') :
            \/ i \in 1..Len(events) /\ events'[i] = events[i] /\ routineIDs'[i] = routineIDs[i]
            \/ events'[i] = ev /\ routineIDs'[i] = NoConn
  BY <1>1, <1>2, <1>3, RoutineGrows
<1>6. SensorTypes'
  <2>1. IsList(critical_events)'  BY <1>1 DEF IsList, SensorTypes, critical
  <2>. QED  BY <1>1, <1>2, <1>3, <1>5, <2>1 DEF SensorTypes, critical, kernelMaps
<1>7. RoutineMade'
  <2> SUFFICES ASSUME NEW i \in 1..Len(events'), events'[i].type = "connect"
               PROVE  /\ events'[i].pid \in PIDs /\ events'[i].fd \in FDs
                      /\ Made(routineIDs[i], events[i].pid, events[i].fd)'
    BY DEF RoutineMade
  <2>1. i \in 1..Len(events) /\ events'[i] = events[i] /\ routineIDs'[i] = routineIDs[i]
    BY <1>4, <1>5
  <2>2. /\ events[i].pid \in PIDs /\ events[i].fd \in FDs
        /\ Made(routineIDs[i], events[i].pid, events[i].fd)
    BY <2>1 DEF Remembered, RoutineMade
  <2>3. \A n \in 1..calls : n \in 1..calls' /\ fate'[n].key = fate[n].key
    BY <1>3 DEF KeysKept, SensorTypes, Numbers
  <2>. QED  BY <2>1, <2>2, <2>3 DEF Made
<1>8. PendingMade' /\ ConnMade' /\ CriticalMade'
  BY <1>1, <1>2, <1>3, MadeKept DEF critical
<1>9. StillArmed'
  <2>1. ktime' \in Nat /\ ktime <= ktime'  BY <1>1 DEF SensorTypes
  <2>. QED  BY <1>2, <2>1, ArmedStay
<1>10. CorrelationExplained'  BY <1>2 DEF CorrelationExplained
<1>. QED  BY <1>6, <1>7, <1>8, <1>9, <1>10 DEF Remembered
-----------------------------------------------------------------------------
(* Arming one descriptor disarms no other that has not expired, ...        *)
LEMMA ArmKeeps ==
  ASSUME NEW fds, NEW fd, NEW dest, NEW id,
         NEW k \in DOMAIN fds, k # fd, ~Expired(fds, k)
  PROVE  k \in DOMAIN arm(fds, fd, dest, id) /\ arm(fds, fd, dest, id)[k] = fds[k]
<1> DEFINE full   == fd \notin DOMAIN fds /\ Cardinality(DOMAIN fds) >= maxFDsPerPID
           reaped == IF full THEN Keep(fds, {j \in DOMAIN fds : ~Expired(fds, j)}) ELSE fds
<1>1. k \in DOMAIN reaped /\ reaped[k] = fds[k]  BY DEF Keep
<1> HIDE DEF reaped, full
<1>2. arm(fds, fd, dest, id) =
        IF full /\ Cardinality(DOMAIN reaped) >= maxFDsPerPID THEN reaped
        ELSE [j \in DOMAIN reaped \cup {fd} |->
                IF j = fd THEN [dest |-> dest, at |-> ktime, id |-> id] ELSE reaped[j]]
  BY DEF arm, reaped, full
<1>. QED  BY <1>1, <1>2

(* ... and arms it unless the table is full of such descriptors.           *)
LEMMA ArmOwn ==
  ASSUME NEW fds, NEW fd, NEW dest, NEW id,
         LET live == {k \in DOMAIN fds : ~Expired(fds, k)}
         IN  ~(fd \notin live /\ Cardinality(live) >= maxFDsPerPID)
  PROVE  /\ fd \in DOMAIN arm(fds, fd, dest, id)
         /\ arm(fds, fd, dest, id)[fd].id = id /\ arm(fds, fd, dest, id)[fd].at = ktime
<1> DEFINE live   == {j \in DOMAIN fds : ~Expired(fds, j)}
           full   == fd \notin DOMAIN fds /\ Cardinality(DOMAIN fds) >= maxFDsPerPID
           reaped == IF full THEN Keep(fds, live) ELSE fds
<1>1. full => DOMAIN reaped = live /\ fd \notin live  BY DEF Keep
<1>2. ~(fd \notin live /\ Cardinality(live) >= maxFDsPerPID)  OBVIOUS
<1>3. arm(fds, fd, dest, id) =
        IF full /\ Cardinality(DOMAIN reaped) >= maxFDsPerPID THEN reaped
        ELSE [j \in DOMAIN reaped \cup {fd} |->
                IF j = fd THEN [dest |-> dest, at |-> ktime, id |-> id] ELSE reaped[j]]
  BY DEF arm
<1> HIDE DEF reaped, full, live
<1>4. ~(full /\ Cardinality(DOMAIN reaped) >= maxFDsPerPID)  BY <1>1, <1>2
<1>. QED  BY <1>3, <1>4

(* A connect(2) under watch leaves no other arming out of date.            *)
LEMMA NotExpired ==
  ASSUME SensorTypes, StillArmed, NEW i \in 1..MaxCalls, NEW p \in PIDs, NEW fd \in FDs,
         fate[i].is = "armed", ktime - fate[i].at <= staleFDTTL, fate[i].key = <<p, fd>>
  PROVE  /\ fd \in DOMAIN suspiciousByPID[p] /\ ~Expired(suspiciousByPID[p], fd)
         /\ suspiciousByPID[p][fd].id = i /\ suspiciousByPID[p][fd].at = fate[i].at
<1>1. /\ fd \in DOMAIN suspiciousByPID[p]
      /\ suspiciousByPID[p][fd].id = i /\ suspiciousByPID[p][fd].at = fate[i].at
  BY DEF StillArmed
<1>2. fate[i].at \in Nat /\ ktime \in Nat  BY DEF SensorTypes, Fates
<1>3. fd # anyFD /\ staleFDTTL \in Nat  BY SensorAssumption
<1>. QED  BY <1>1, <1>2, <1>3 DEF Expired, ttlFor

(* What a payload's record does to the table, armed descriptors keep.      *)
LEMMA TableKeeps ==
  ASSUME SensorTypes, StillArmed, UNCHANGED <<fate, ktime>>,
         \A p \in PIDs, fd \in FDs :
           fd \in DOMAIN suspiciousByPID[p] /\ ~Expired(suspiciousByPID[p], fd) =>
             /\ fd \in DOMAIN suspiciousByPID'[p]
             /\ suspiciousByPID'[p][fd] = suspiciousByPID[p][fd]
  PROVE  StillArmed'
<1> SUFFICES ASSUME NEW i \in 1..MaxCalls, NEW q \in PIDs, NEW d \in FDs,
                    fate'[i].is = "armed", ktime' - fate'[i].at <= staleFDTTL,
                    fate'[i].key = <<q, d>>
             PROVE  /\ d \in DOMAIN suspiciousByPID'[q]
                    /\ suspiciousByPID'[q][d].id = i /\ suspiciousByPID'[q][d].at = fate'[i].at
  BY DEF StillArmed
<1>1. /\ d \in DOMAIN suspiciousByPID[q] /\ ~Expired(suspiciousByPID[q], d)
      /\ suspiciousByPID[q][d].id = i /\ suspiciousByPID[q][d].at = fate[i].at
  BY NotExpired
<1>. QED  BY <1>1
-----------------------------------------------------------------------------
(* The routine reader.                                                     *)
LEMMA HandleConnectKeeps ==
  ASSUME SensorInv, handleConnect
  PROVE  SensorInv'
<1> USE DEF SensorInv
<1> DEFINE ev   == Head(events)
           id   == Head(routineIDs)
           fds  == suspiciousByPID[ev.pid]
           live == {k \in DOMAIN fds : ~Expired(fds, k)}
           skip == ev.dest \in allowlist
           full == ev.fd \notin live /\ Cardinality(live) >= maxFDsPerPID
<1>1. /\ events # <<>> /\ ev.type = "connect"
      /\ events' = Tail(events) /\ routineIDs' = Tail(routineIDs)
      /\ UNCHANGED <<kernelMaps, critical, connecting, ktime, calls, pending, connID,
                     criticalIDs, last>>
  BY DEF handleConnect, TakeEvent
<1>2. suspiciousByPID' = IF skip THEN suspiciousByPID
                         ELSE [suspiciousByPID EXCEPT ![ev.pid] = arm(@, ev.fd, ev.dest, id)]
  BY DEF handleConnect
<1>3. fate' = [i \in DOMAIN fate |->
        IF i = id
        THEN [fate[i] EXCEPT !.at = ktime,
                !.is = IF skip THEN "allowlisted" ELSE IF full THEN "table full" ELSE "armed"]
        ELSE IF fate[i].key = fate[id].key /\ fate[i].is = "armed" /\ ~skip
        THEN [fate[i] EXCEPT !.is = "replaced"] ELSE fate[i]]
  BY DEF handleConnect
<1>4. /\ events[1] = ev /\ routineIDs[1] = id /\ 1 \in 1..Len(events)
      /\ IsList(Tail(events)) /\ Tail(routineIDs) \in Seq(Numbers)
  BY <1>1, PairTaken DEF SensorTypes
<1>5. ev.pid \in PIDs /\ ev.fd \in FDs /\ Made(id, ev.pid, ev.fd)
  BY <1>1, <1>4 DEF Remembered, RoutineMade
<1>6. fate \in [1..MaxCalls -> Fates] /\ calls \in Nat /\ calls <= MaxCalls /\ MaxCalls \in Nat
  BY ProbesAssumption DEF SensorTypes, Numbers
<1>7. id \in 1..MaxCalls /\ fate[id].key = <<ev.pid, ev.fd>>  BY <1>5, <1>6 DEF Made
<1>8. ktime \in Nat  BY DEF SensorTypes
<1> HIDE DEF ev, id, fds, live, skip, full
<1>9. /\ fate' \in [1..MaxCalls -> Fates]
      /\ \A i \in 1..MaxCalls : fate'[i].key = fate[i].key
  <2>1. DOMAIN fate = 1..MaxCalls  BY <1>6
  <2>2. ASSUME NEW i \in 1..MaxCalls PROVE fate'[i] \in Fates /\ fate'[i].key = fate[i].key
    <3>1. fate[i] \in Fates  BY <1>6
    <3>2. CASE i = id
      <4>1. PICK x \in {"allowlisted", "table full", "armed"} :
              fate'[i] = [fate[i] EXCEPT !.at = ktime, !.is = x]
        BY <1>3, <2>1, <3>2
      <4>. QED  BY <1>8, <3>1, <4>1 DEF Fates
    <3>3. CASE i # id
      <4>1. fate'[i] = fate[i] \/ fate'[i] = [fate[i] EXCEPT !.is = "replaced"]
        BY <1>3, <2>1, <3>3
      <4>. QED  BY <3>1, <4>1 DEF Fates
    <3>. QED  BY <3>2, <3>3
  <2>3. fate' = [i \in 1..MaxCalls |-> fate'[i]]  BY <1>3, <2>1
  <2>. QED  BY <2>2, <2>3
<1>10. KeysKept  BY <1>1, <1>6, <1>9 DEF KeysKept
<1>11. /\ IsList(events)' /\ routineIDs' \in Seq(Numbers) /\ Len(events') = Len(routineIDs')
       /\ RoutineMade'
  BY <1>1, <1>10, RoutineTaken
<1>12. SensorTypes'
  <2>1. IsList(critical_events)'  BY <1>1 DEF IsList, SensorTypes, critical
  <2>2. suspiciousByPID' = [p \in PIDs |-> suspiciousByPID'[p]]
    BY <1>2 DEF SensorTypes
  <2>. QED  BY <1>1, <1>9, <1>11, <2>1, <2>2 DEF SensorTypes, critical, kernelMaps
<1>13. Remembered'
  <2>1. PendingMade' /\ ConnMade' /\ CriticalMade'
    BY <1>1, <1>10, MadeKept DEF critical
  <2>. QED  BY <1>11, <2>1 DEF Remembered
<1>14. StillArmed'
  <2> SUFFICES ASSUME NEW i \in 1..MaxCalls, NEW q \in PIDs, NEW d \in FDs,
                      fate'[i].is = "armed", ktime' - fate'[i].at <= staleFDTTL,
                      fate'[i].key = <<q, d>>
               PROVE  /\ d \in DOMAIN suspiciousByPID'[q]
                      /\ suspiciousByPID'[q][d].id = i /\ suspiciousByPID'[q][d].at = fate'[i].at
    BY DEF StillArmed
  <2>1. CASE i = id
    <3>1. ~skip /\ ~full /\ fate'[i].at = ktime  BY <1>3, <1>6, <2>1 DEF Fates
    <3>2. q = ev.pid /\ d = ev.fd  BY <1>7, <1>9, <2>1
    <3>3. suspiciousByPID'[q] = arm(fds, ev.fd, ev.dest, id)
      BY <1>2, <1>5, <3>1, <3>2 DEF SensorTypes, fds
    <3>4. /\ ev.fd \in DOMAIN arm(fds, ev.fd, ev.dest, id)
          /\ arm(fds, ev.fd, ev.dest, id)[ev.fd].id = id
          /\ arm(fds, ev.fd, ev.dest, id)[ev.fd].at = ktime
      BY <3>1, ArmOwn DEF full, live
    <3>. QED  BY <2>1, <3>1, <3>2, <3>3, <3>4
  <2>2. CASE i # id
    <3>1. /\ fate'[i] = fate[i] /\ fate[i].is = "armed"
          /\ fate[i].key = fate[id].key => skip
      BY <1>3, <1>6, <2>2 DEF Fates
    <3>2. /\ d \in DOMAIN suspiciousByPID[q] /\ ~Expired(suspiciousByPID[q], d)
          /\ suspiciousByPID[q][d].id = i /\ suspiciousByPID[q][d].at = fate[i].at
      BY <1>1, <3>1, NotExpired
    <3>3. CASE skip \/ q # ev.pid
      <4>1. suspiciousByPID'[q] = suspiciousByPID[q]  BY <1>2, <3>3 DEF SensorTypes
      <4>. QED  BY <3>1, <3>2, <4>1
    <3>4. CASE ~skip /\ q = ev.pid
      <4>1. d # ev.fd  BY <1>7, <3>1, <3>4
      <4>2. suspiciousByPID'[q] = arm(suspiciousByPID[q], ev.fd, ev.dest, id)
        BY <1>2, <1>5, <3>4 DEF SensorTypes
      <4>3. d \in DOMAIN suspiciousByPID'[q] /\ suspiciousByPID'[q][d] = suspiciousByPID[q][d]
        BY <3>2, <4>1, <4>2, ArmKeeps
      <4>. QED  BY <3>1, <3>2, <4>3
    <3>. QED  BY <3>3, <3>4
  <2>. QED  BY <2>1, <2>2
<1>15. CorrelationExplained'  BY <1>1 DEF CorrelationExplained
<1>. QED  BY <1>12, <1>13, <1>14, <1>15

LEMMA HandleOpenatKeeps ==
  ASSUME SensorInv, handleOpenat
  PROVE  SensorInv'
<1> USE DEF SensorInv
<1>1. /\ events # <<>> /\ events' = Tail(events) /\ routineIDs' = Tail(routineIDs)
      /\ UNCHANGED <<kernelMaps, critical, connecting, ktime, calls, suspiciousByPID, pending,
                     connID, fate, criticalIDs, last>>
  BY DEF handleOpenat, TakeEvent
<1>2. KeysKept  BY <1>1 DEF KeysKept, SensorTypes, Numbers
<1>3. /\ IsList(events)' /\ routineIDs' \in Seq(Numbers) /\ Len(events') = Len(routineIDs')
      /\ RoutineMade'
  BY <1>1, <1>2, RoutineTaken
<1>4. SensorTypes'
  <2>1. IsList(critical_events)'  BY <1>1 DEF IsList, SensorTypes, critical
  <2>. QED  BY <1>1, <1>3, <2>1 DEF SensorTypes, critical, kernelMaps
<1>5. PendingMade' /\ ConnMade' /\ CriticalMade'  BY <1>1, <1>2, MadeKept DEF critical
<1>6. StillArmed'
  <2>1. ktime' \in Nat /\ ktime <= ktime'  BY <1>1 DEF SensorTypes
  <2>. QED  BY <1>1, <2>1, ArmedStay
<1>7. CorrelationExplained'  BY <1>1 DEF CorrelationExplained
<1>. QED  BY <1>3, <1>4, <1>5, <1>6, <1>7 DEF Remembered
-----------------------------------------------------------------------------
(* The critical reader.                                                    *)
LEMMA CriticalReaderKeeps ==
  ASSUME SensorInv, TakeCriticalEvent, criticalIDs' = Tail(criticalIDs),
         UNCHANGED <<routine, connecting, ktime, calls, pending, connID, fate, routineIDs>>,
         suspiciousByPID' = [p \in PIDs |-> suspiciousByPID'[p]]
  PROVE  /\ SensorTypes' /\ Remembered'
         /\ Head(critical_events) = critical_events[1]
         /\ Head(criticalIDs) = criticalIDs[1] /\ 1 \in 1..Len(critical_events)
<1> USE DEF SensorInv
<1>1. critical_events # <<>> /\ critical_events' = Tail(critical_events)  BY DEF TakeCriticalEvent
<1>2. KeysKept  BY DEF KeysKept, SensorTypes, Numbers
<1>3. /\ IsList(critical_events)' /\ criticalIDs' \in Seq(Numbers)
      /\ Len(critical_events') = Len(criticalIDs')
      /\ Len(critical_events) \in Nat \ {0} /\ Head(critical_events) = critical_events[1]
      /\ Head(criticalIDs) = criticalIDs[1]
      /\ CriticalMade'
  BY <1>1, <1>2, CriticalTaken
<1>4. SensorTypes'
  <2>1. IsList(events)'  BY DEF IsList, SensorTypes, routine
  <2>. QED  BY <1>3, <2>1 DEF SensorTypes, routine
<1>5. PendingMade' /\ ConnMade' /\ RoutineMade'  BY <1>2, MadeKept DEF routine
<1>. QED  BY <1>3, <1>4, <1>5 DEF Remembered

(* What an examined payload leaves behind.                                 *)
LEMMA ExamineLast ==
  ASSUME NEW ev, NEW dest, NEW dns, NEW id, Examine(ev, dest, dns, id)
  PROVE  last'.conn = Head(criticalIDs) /\ last'.by = id /\ last'.why = Why(Head(criticalIDs))
<1>1. CASE Verdict(ev, dest, dns, id)
  <2>1. PICK r, panicked :
          last' = [conn |-> Head(criticalIDs), by |-> id, pid |-> ev.pid, why |-> Why(Head(criticalIDs)),
                   piece |-> normalizedEgressFragment(dns, ev.payload), scan |-> r.scan,
                   panicked |-> panicked]
    BY <1>1 DEF Verdict
  <2>. QED  BY <2>1
<1>2. CASE last' = [Idle EXCEPT !.conn = Head(criticalIDs), !.by = id, !.pid = ev.pid,
                                !.why = Why(Head(criticalIDs)), !.panicked = TRUE]
  BY <1>2 DEF Idle
<1>. QED  BY <1>1, <1>2 DEF Examine

(* A payload whose connection is still armed finds its own entry.          *)
LEMMA HandleWriteKeeps ==
  ASSUME SensorInv, handleWrite
  PROVE  SensorInv'
<1> USE DEF SensorInv
<1> DEFINE ev  == Head(critical_events)
           c   == Head(criticalIDs)
           fds == suspiciousByPID[ev.pid]
           k   == armed(fds, ev.fd)
<1>1. /\ critical_events # <<>> /\ "fd" \in DOMAIN ev
      /\ TakeCriticalEvent /\ criticalIDs' = Tail(criticalIDs)
      /\ suspiciousByPID' = [suspiciousByPID EXCEPT ![ev.pid] = afterLookup(@, ev.fd)]
      /\ UNCHANGED <<routine, connecting, ktime, calls, pending, connID, fate, routineIDs>>
  BY DEF handleWrite
<1>2. \/ k # NULL /\ Examine(ev, fds[k].dest, FALSE, fds[k].id)
      \/ /\ k = NULL
         /\ last' = [Idle EXCEPT !.conn = c, !.pid = ev.pid, !.why = Why(c)]
  BY DEF handleWrite
<1>3. /\ IsList(critical_events) /\ criticalIDs \in Seq(Numbers)
      /\ Len(critical_events) = Len(criticalIDs)
  BY DEF SensorTypes
<1>4. ev = critical_events[1] /\ c = criticalIDs[1] /\ c \in Numbers /\ 1 \in 1..Len(critical_events)
  BY <1>1, <1>3, PairTaken
<1>5. /\ ev.pid \in PIDs /\ ev.fd \in FDs
      /\ c # NoConn => Made(c, ev.pid, ev.fd)
  BY <1>1, <1>4 DEF Remembered, CriticalMade
<1> HIDE DEF ev, c
<1>7. suspiciousByPID' = [p \in PIDs |-> suspiciousByPID'[p]]  BY <1>1 DEF SensorTypes
<1>8. SensorTypes' /\ Remembered'  BY <1>1, <1>7, CriticalReaderKeeps
<1>9. StillArmed'
  <2> SUFFICES ASSUME NEW p \in PIDs, NEW fd \in FDs, fd \in DOMAIN suspiciousByPID[p],
                      ~Expired(suspiciousByPID[p], fd)
               PROVE  /\ fd \in DOMAIN suspiciousByPID'[p]
                      /\ suspiciousByPID'[p][fd] = suspiciousByPID[p][fd]
    BY <1>1, TableKeeps
  <2>1. CASE p = ev.pid
    <3>1. suspiciousByPID'[p] = afterLookup(suspiciousByPID[p], ev.fd)
      BY <1>1, <2>1 DEF SensorTypes
    <3>. QED  BY <3>1 DEF afterLookup, Keep
  <2>2. CASE p # ev.pid  BY <1>1, <2>2 DEF SensorTypes
  <2>. QED  BY <2>1, <2>2
<1>10. CorrelationExplained'
  <2> SUFFICES ASSUME last'.conn # NoConn, last'.why = "armed" PROVE last'.by = last'.conn
    BY DEF CorrelationExplained
  <2>1. last'.conn = c /\ last'.why = Why(c)
    <3>1. CASE Examine(ev, fds[k].dest, FALSE, fds[k].id)  BY <1>5, <3>1, ExamineLast DEF c
    <3>2. CASE last' = [Idle EXCEPT !.conn = c, !.pid = ev.pid, !.why = Why(c)]
      BY <3>2 DEF Idle
    <3>. QED  BY <1>2, <3>1, <3>2
  <2>2. /\ Made(c, ev.pid, ev.fd) /\ c # NoConn
        /\ fate[c].is = "armed" /\ ~(ktime - fate[c].at > staleFDTTL)
    BY <1>5, <2>1 DEF Why
  <2>3. c \in 1..MaxCalls /\ fate[c].key = <<ev.pid, ev.fd>>
    BY <1>4, <2>2 DEF Made, Numbers, NoConn
  <2>4. ktime - fate[c].at <= staleFDTTL
    <3>1. fate[c].at \in Nat /\ ktime \in Nat  BY <2>3 DEF SensorTypes, Fates
    <3>2. staleFDTTL \in Nat  BY SensorAssumption
    <3>. QED  BY <2>2, <3>1, <3>2
  <2>5. ev.fd \in DOMAIN fds /\ ~Expired(fds, ev.fd) /\ fds[ev.fd].id = c
    BY <1>5, <2>2, <2>3, <2>4, NotExpired
  <2>6. k = ev.fd /\ k # NULL  BY <1>5, <2>5, ProbesAssumption DEF armed
  <2>7. Examine(ev, fds[k].dest, FALSE, fds[k].id)  BY <1>2, <2>6
  <2>8. last'.by = fds[k].id  BY <1>5, <2>7, ExamineLast
  <2>. QED  BY <2>1, <2>5, <2>6, <2>8
<1>. QED  BY <1>8, <1>9, <1>10

LEMMA HandleSendtoKeeps ==
  ASSUME SensorInv, handleSendto
  PROVE  SensorInv'
<1> USE DEF SensorInv
<1> DEFINE ev == Head(critical_events)
           c  == Head(criticalIDs)
           skipped == UNCHANGED <<suspiciousByPID, last>>
           looked  == /\ suspiciousByPID' = [suspiciousByPID EXCEPT ![ev.pid] = arm(@, anyFD, ev.dest, NoConn)]
                      /\ Examine(ev, ev.dest, ev.dest \in DNS, NoConn)
<1>1. /\ critical_events # <<>> /\ "dest" \in DOMAIN ev
      /\ TakeCriticalEvent /\ criticalIDs' = Tail(criticalIDs)
      /\ UNCHANGED <<routine, connecting, ktime, calls, pending, connID, fate, routineIDs>>
  BY DEF handleSendto
<1>2. skipped \/ looked  BY DEF handleSendto
<1>3. /\ IsList(critical_events) /\ criticalIDs \in Seq(Numbers)
      /\ Len(critical_events) = Len(criticalIDs)
  BY DEF SensorTypes
<1>4. ev = critical_events[1] /\ c = criticalIDs[1] /\ 1 \in 1..Len(critical_events)
  BY <1>1, <1>3, PairTaken
<1>5. ev.pid \in PIDs /\ c = NoConn  BY <1>1, <1>4 DEF Remembered, CriticalMade
<1> HIDE DEF ev, c
<1>6. CASE skipped
  <2>1. SensorTypes' /\ Remembered'
    <3>1. /\ suspiciousByPID' = [p \in PIDs |-> suspiciousByPID'[p]]
      BY <1>6 DEF SensorTypes
    <3>. QED  BY <1>1, <3>1, CriticalReaderKeeps
  <2>2. StillArmed'
    <3>1. ktime' \in Nat /\ ktime <= ktime'  BY <1>1 DEF SensorTypes
    <3>. QED  BY <1>1, <1>6, <3>1, ArmedStay
  <2>3. CorrelationExplained'  BY <1>6 DEF CorrelationExplained
  <2>. QED  BY <2>1, <2>2, <2>3
<1>7. CASE looked
  <2>1. last'.conn = c
    BY <1>5, <1>7, ExamineLast DEF c
  <2>2. SensorTypes' /\ Remembered'
    <3>1. suspiciousByPID' = [p \in PIDs |-> suspiciousByPID'[p]]  BY <1>7 DEF SensorTypes
    <3>. QED  BY <1>1, <2>1, <3>1, CriticalReaderKeeps
  <2>3. StillArmed'
    <3> SUFFICES ASSUME NEW p \in PIDs, NEW fd \in FDs, fd \in DOMAIN suspiciousByPID[p],
                        ~Expired(suspiciousByPID[p], fd)
                 PROVE  /\ fd \in DOMAIN suspiciousByPID'[p]
                        /\ suspiciousByPID'[p][fd] = suspiciousByPID[p][fd]
      BY <1>1, TableKeeps
    <3>1. CASE p = ev.pid
      <4>1. suspiciousByPID'[p] = arm(suspiciousByPID[p], anyFD, ev.dest, NoConn)
        BY <1>7, <3>1 DEF SensorTypes
      <4>2. fd # anyFD  BY SensorAssumption
      <4>. QED  BY <4>1, <4>2, ArmKeeps
    <3>2. CASE p # ev.pid  BY <1>7, <3>2 DEF SensorTypes
    <3>. QED  BY <3>1, <3>2
  <2>4. CorrelationExplained'  BY <1>5, <2>1 DEF CorrelationExplained
  <2>. QED  BY <2>2, <2>3, <2>4
<1>. QED  BY <1>2, <1>6, <1>7

LEMMA HandleLSMDenyKeeps ==
  ASSUME SensorInv, handleLSMDeny
  PROVE  SensorInv'
<1> USE DEF SensorInv
<1>1. /\ TakeCriticalEvent /\ criticalIDs' = Tail(criticalIDs)
      /\ UNCHANGED <<kernelMaps, routine, connecting, ktime, calls, pending, connID, fate,
                     routineIDs, suspiciousByPID, last>>
  BY DEF handleLSMDeny
<1>2. SensorTypes' /\ Remembered'
  <2>1. /\ suspiciousByPID' = [p \in PIDs |-> suspiciousByPID'[p]]
    BY <1>1 DEF SensorTypes, kernelMaps
  <2>. QED  BY <1>1, <2>1, CriticalReaderKeeps
<1>3. StillArmed'
  <2>1. ktime' \in Nat /\ ktime <= ktime'  BY <1>1 DEF SensorTypes
  <2>. QED  BY <1>1, <2>1, ArmedStay
<1>4. CorrelationExplained'  BY <1>1 DEF CorrelationExplained
<1>. QED  BY <1>2, <1>3, <1>4
-----------------------------------------------------------------------------
(* Processes that come and go, reloads and time.                           *)
LEMMA RingsStay ==
  ASSUME SensorInv, KeysKept, ktime' \in Nat, fate' \in [1..MaxCalls -> Fates],
         suspiciousByPID' = [p \in PIDs |-> suspiciousByPID'[p]],
         UNCHANGED <<events, critical_events, connecting, calls,
                     pending, connID, routineIDs, criticalIDs, last>>
  PROVE  SensorTypes' /\ Remembered' /\ CorrelationExplained'
<1> USE DEF SensorInv
<1>1. IsList(events)' /\ IsList(critical_events)'  BY DEF IsList, SensorTypes
<1>2. SensorTypes'  BY <1>1 DEF SensorTypes
<1>3. Remembered'  BY MadeKept DEF Remembered
<1>4. CorrelationExplained'  BY DEF CorrelationExplained
<1>. QED  BY <1>2, <1>3, <1>4

LEMMA BesidesKeep ==
  ASSUME SensorInv, ktime' \in Nat, ktime <= ktime',
         UNCHANGED <<events, critical_events, connecting, calls, pending,
                     connID, routineIDs, criticalIDs, last, fate, suspiciousByPID>>
  PROVE  SensorInv'
<1> USE DEF SensorInv
<1>1. KeysKept  BY DEF KeysKept, SensorTypes, Numbers
<1>2. fate' \in [1..MaxCalls -> Fates] /\ suspiciousByPID' = [p \in PIDs |-> suspiciousByPID'[p]]
  BY DEF SensorTypes
<1>3. SensorTypes' /\ Remembered' /\ CorrelationExplained'  BY <1>1, <1>2, RingsStay
<1>4. StillArmed'  BY ArmedStay
<1>. QED  BY <1>3, <1>4

LEMMA RemovePIDsKeeps ==
  ASSUME SensorInv, NEW p \in PIDs, RemovePIDs(p)
  PROVE  SensorInv'
<1> USE DEF SensorInv
<1>1. /\ suspiciousByPID' = [suspiciousByPID EXCEPT ![p] = NoFlows]
      /\ fate' = [i \in DOMAIN fate |-> IF fate[i].key[1] = p /\ fate[i].is = "armed"
                                        THEN [fate[i] EXCEPT !.is = "removed"] ELSE fate[i]]
      /\ UNCHANGED <<events, critical_events, connecting, calls,
                     pending, connID, routineIDs, criticalIDs, last, ktime>>
  BY DEF RemovePIDs, routine, critical
<1>2. fate \in [1..MaxCalls -> Fates] /\ calls \in 0..MaxCalls /\ MaxCalls \in Nat
  BY ProbesAssumption DEF SensorTypes, Numbers
<1>3. fate' \in [1..MaxCalls -> Fates] /\ \A i \in 1..MaxCalls : fate'[i].key = fate[i].key
  BY <1>1, <1>2 DEF Fates
<1>4. KeysKept  BY <1>1, <1>2, <1>3 DEF KeysKept
<1>5. SensorTypes' /\ Remembered' /\ CorrelationExplained'
  <2>1. suspiciousByPID' = [q \in PIDs |-> suspiciousByPID'[q]] /\ ktime' \in Nat
    BY <1>1 DEF SensorTypes
  <2>. QED  BY <1>1, <1>3, <1>4, <2>1, RingsStay
<1>6. StillArmed'
  <2> SUFFICES ASSUME NEW i \in 1..MaxCalls, NEW q \in PIDs, NEW d \in FDs,
                      fate'[i].is = "armed", ktime' - fate'[i].at <= staleFDTTL,
                      fate'[i].key = <<q, d>>
               PROVE  /\ d \in DOMAIN suspiciousByPID'[q]
                      /\ suspiciousByPID'[q][d].id = i /\ suspiciousByPID'[q][d].at = fate'[i].at
    BY DEF StillArmed
  <2>1. fate'[i] = fate[i] /\ fate[i].key[1] # p  BY <1>1, <1>2 DEF Fates
  <2>2. q # p  BY <2>1
  <2>3. suspiciousByPID'[q] = suspiciousByPID[q]  BY <1>1, <2>2 DEF SensorTypes
  <2>4. /\ d \in DOMAIN suspiciousByPID[q]
        /\ suspiciousByPID[q][d].id = i /\ suspiciousByPID[q][d].at = fate[i].at
    <3>1. /\ fate[i].is = "armed" /\ ktime - fate[i].at <= staleFDTTL
          /\ fate[i].key = <<q, d>>
      BY <1>1, <2>1
    <3>. QED  BY <3>1, NotExpired
  <2>. QED  BY <2>1, <2>3, <2>4
<1>. QED  BY <1>5, <1>6
-----------------------------------------------------------------------------
LEMMA SensorInvNext == SensorInv /\ [SensorNext]_sensorVars => SensorInv'
<1> SUFFICES ASSUME SensorInv, [SensorNext]_sensorVars PROVE SensorInv'  OBVIOUS
<1>0. ktime \in Nat  BY DEF SensorInv, SensorTypes
<1>1. ASSUME NEW p \in PIDs, Process(p) PROVE SensorInv'
  BY <1>1, ConnectKeeps, ConnectDoneKeeps, WriteKeeps, SendtoKeeps, OpenKeeps DEF Process
<1>2. ASSUME NEW p \in PIDs, AddPIDs(p) PROVE SensorInv'
  BY <1>0, <1>2, BesidesKeep DEF AddPIDs, AddPID, routine, critical, history
<1>3. ASSUME NEW p \in PIDs, RemovePIDs(p) PROVE SensorInv'  BY <1>3, RemovePIDsKeeps
<1>4. CASE readLoopRoutine
  BY <1>4, HandleConnectKeeps, HandleOpenatKeeps DEF readLoopRoutine
<1>5. CASE readLoopCritical
  <2>1. CASE containPIDs
    BY <1>0, <2>1, BesidesKeep DEF containPIDs, vars, kernelMaps, routine, critical, history
  <2>2. CASE QuarantineContained
    BY <1>0, <2>2, BesidesKeep DEF QuarantineContained, routine, critical, history
  <2>. QED
    BY <1>5, <2>1, <2>2, HandleWriteKeeps, HandleSendtoKeeps, HandleLSMDenyKeeps DEF readLoopCritical
<1>6. ASSUME NEW a \in Allowlists, UpdateAllowlist(a) PROVE SensorInv'
  BY <1>0, <1>6, BesidesKeep DEF UpdateAllowlist, vars, kernelMaps, routine, critical, history
<1>7. CASE Tick
  BY <1>0, <1>7, BesidesKeep DEF Tick, kernelMaps, routine, critical, history
<1>8. CASE UNCHANGED sensorVars
  BY <1>0, <1>8, BesidesKeep DEF sensorVars, vars, kernelMaps, routine, critical, history
<1>. QED  BY <1>1, <1>2, <1>3, <1>4, <1>5, <1>6, <1>7, <1>8 DEF SensorNext

LEMMA SensorInvariant == SensorSpec => []SensorInv
BY SensorInvInit, SensorInvNext, PTL DEF SensorSpec

(* handleWrite misses the connection a payload was sent over only for a    *)
(* reason that can be named: an entry that was armed and has not expired   *)
(* is the one that is found, whatever the two readers, a full table, a     *)
(* reconnect, sendto's entry for the whole process or a reload do.         *)
THEOREM ArmedIsFound == SensorSpec => []CorrelationExplained
BY SensorInvariant, PTL DEF SensorInv
-----------------------------------------------------------------------------
(***************************************************************************)
(* Reassembly of egress.                                                   *)
(***************************************************************************)

(* A table of flows holds lists of texts and the time of the last of them. *)
IsFlows(t) == \A k \in DOMAIN t : t[k].chunks \in Seq(Seq(Atoms)) /\ t[k].last \in Nat

Push(chunks, fragment) ==
  PushChunk(chunks, fragment, egressFragmentMaxChunks, egressFragmentMaxBytes)
Young(flow, now) == flow.last + egressFragmentMaxAge >= now

(* appendFlow touches one flow; it goes on with the chunks the flow had if *)
(* it is young enough, and drops flows but makes none up.                  *)
Appended(flows, key, fragment, now, t) ==
  /\ IsFlows(t) /\ key \in DOMAIN t /\ t[key].last = now
  /\ \A k \in DOMAIN t : k # key => k \in DOMAIN flows /\ t[k] = flows[k]
  /\ \E q \in Seq(Seq(Atoms)) :
       /\ t[key].chunks = Push(q, fragment)
       /\ key \in DOMAIN flows /\ Young(flows[key], now) => q = flows[key].chunks

LEMMA FlowAppended ==
  ASSUME NEW flows, IsFlows(flows), NEW key, NEW fragment \in Seq(Atoms), NEW now \in Nat,
         NEW t \in appendFlow(flows, key, fragment, now)
  PROVE  Appended(flows, key, fragment, now, t)
<1> DEFINE young == pruneEgressFlows(flows, now)
           with(table, chunks) == [k \in DOMAIN table \cup {key} |->
                                     IF k = key THEN [chunks |-> chunks, last |-> now] ELSE table[k]]
<1>1. /\ DOMAIN young = {k \in DOMAIN flows : Young(flows[k], now)}
      /\ \A k \in DOMAIN young : young[k] = flows[k]
  BY DEF pruneEgressFlows, Keep, Young
<1> HIDE DEF young
<1>2. PICK table, q :
        /\ t = with(table, Push(q, fragment))
        /\ \/ key \in DOMAIN young /\ table = young /\ q = young[key].chunks
           \/ key \notin DOMAIN young /\ table \in enforceEgressFlowCap(young) /\ q = <<>>
  <2>1. CASE key \in DOMAIN young
    <3>1. t = with(young, Push(young[key].chunks, fragment))
      BY <2>1 DEF appendFlow, Push, young
    <3> HIDE DEF with
    <3>. QED  BY <2>1, <3>1
  <2>2. CASE key \notin DOMAIN young
    <3>1. \E table \in enforceEgressFlowCap(young) : t = with(table, Push(<<>>, fragment))
      BY <2>2 DEF appendFlow, Push, young
    <3> HIDE DEF with
    <3>. QED  BY <2>2, <3>1
  <2>. QED  BY <2>1, <2>2
<1>3. DOMAIN table \subseteq DOMAIN young /\ \A k \in DOMAIN table : table[k] = young[k]
  BY <1>2 DEF enforceEgressFlowCap, Keep
<1>4. q \in Seq(Seq(Atoms))
  <2>1. CASE q = <<>>  BY <2>1
  <2>2. CASE key \in DOMAIN young /\ q = young[key].chunks  BY <1>1, <2>2 DEF IsFlows
  <2>. QED  BY <1>2, <2>1, <2>2
<1>5. Push(q, fragment) \in Seq(Seq(Atoms))
  <2>1. egressFragmentMaxChunks \in Nat /\ egressFragmentMaxBytes \in Nat  BY EgressAssumption
  <2>. QED  BY <1>4, <2>1, PushChunkBounded DEF Push
<1>6. /\ DOMAIN t = DOMAIN table \cup {key}
      /\ t[key].chunks = Push(q, fragment) /\ t[key].last = now
      /\ \A k \in DOMAIN table : k # key => t[k] = table[k]
  BY <1>2
<1>7. \A k \in DOMAIN t : k # key => k \in DOMAIN flows /\ t[k] = flows[k]
  BY <1>1, <1>3, <1>6
<1>8. IsFlows(t)  BY <1>5, <1>6, <1>7 DEF IsFlows
<1>9. key \in DOMAIN flows /\ Young(flows[key], now) => q = flows[key].chunks
  BY <1>1, <1>2
<1>. QED  BY <1>4, <1>6, <1>7, <1>8, <1>9 DEF Appended

(* In a table with room for every process no young flow is dropped.        *)
LEMMA NoneEvicted ==
  ASSUME IsFiniteSet(PIDs), Cardinality(PIDs) <= egressMaxFlows,
         NEW flows, DOMAIN flows \subseteq PIDs, NEW p \in PIDs, NEW fragment, NEW now \in Nat,
         NEW t \in appendFlow(flows, p, fragment, now),
         NEW k \in DOMAIN flows, Young(flows[k], now)
  PROVE  k \in DOMAIN t
<1> DEFINE young == pruneEgressFlows(flows, now)
<1>1. DOMAIN young = {i \in DOMAIN flows : Young(flows[i], now)}
  BY DEF pruneEgressFlows, Keep, Young
<1> HIDE DEF young
<1>2. CASE p \in DOMAIN young
  <2>1. DOMAIN t = DOMAIN young \cup {p}  BY <1>2 DEF appendFlow, young
  <2>. QED  BY <1>1, <2>1
<1>3. CASE p \notin DOMAIN young
  <2>1. Cardinality(DOMAIN young) < egressMaxFlows
    <3>1. DOMAIN young \subseteq PIDs /\ DOMAIN young # PIDs  BY <1>1, <1>3
    <3>2. /\ Cardinality(DOMAIN young) \in Nat /\ Cardinality(PIDs) \in Nat
          /\ Cardinality(DOMAIN young) <= Cardinality(PIDs)
          /\ Cardinality(DOMAIN young) = Cardinality(PIDs) => DOMAIN young = PIDs
      BY <3>1, FS_Subset, FS_CardinalityType
    <3>3. egressMaxFlows \in Nat  BY EgressAssumption
    <3>. QED  BY <3>1, <3>2, <3>3
  <2>2. enforceEgressFlowCap(young) = {young}  BY <2>1 DEF enforceEgressFlowCap
  <2>3. DOMAIN t = DOMAIN young \cup {p}  BY <1>3, <2>2 DEF appendFlow, young
  <2>. QED  BY <1>1, <2>3
<1>. QED  BY <1>2, <1>3

(* The fragment of a payload is a text.                                    *)
LEMMA FragmentIsText ==
  ASSUME NEW dns, NEW payload \in Seq(Atoms)
  PROVE  normalizedEgressFragment(dns, payload) \in Seq(Atoms)
<1> DEFINE q    == IF payload # <<>> /\ Last(payload) = DOT THEN Front(payload) ELSE payload
           dots == {i \in 2..Len(q) : q[i] = DOT}
           m    == (CHOOSE i \in dots : \A j \in dots : i <= j) - 1
<1>1. q \in Seq(Atoms)
  <2>1. Len(payload) \in Nat  BY LenProperties
  <2>2. \A i \in 1..(Len(payload) - 1) : payload[i] \in Atoms  BY <2>1, ElementOfSeq
  <2>3. Front(payload) \in Seq(Atoms)  BY <2>1, <2>2, SubSeqProperties DEF Front
  <2>. QED  BY <2>3
<1>2. normalizedEgressFragment(dns, payload) \in {payload, q, SubSeq(q, 1, m)}
      /\ (normalizedEgressFragment(dns, payload) \in {payload, q} \/ dots # {})
  BY DEF normalizedEgressFragment
<1> HIDE DEF q
<1>3. ASSUME dots # {} PROVE SubSeq(q, 1, m) \in Seq(Atoms)
  <2>1. Len(q) \in Nat  BY <1>1, LenProperties
  <2>2. dots \subseteq Nat  BY <2>1
  <2>3. \E i \in dots : \A j \in dots : i <= j
    <3>1. \E i \in dots : \A j \in dots : ~(j < i)
      <4> HIDE DEF dots
      <4>. QED  BY <1>3, <2>2, LeastNat
    <3>. QED  BY <2>2, <3>1
  <2>4. (CHOOSE i \in dots : \A j \in dots : i <= j) \in dots
    <3> HIDE DEF dots
    <3>. QED  BY <2>3
  <2>5. m \in 1..Len(q)  BY <2>1, <2>4
  <2> HIDE DEF m
  <2>6. \A i \in 1..m : q[i] \in Atoms  BY <1>1, <2>1, <2>5, ElementOfSeq
  <2>. QED  BY <2>5, <2>6, SubSeqProperties
<1>. QED  BY <1>1, <1>2, <1>3

(* What egressCandidatePayload returns for a fragment: both tables with it *)
(* appended, and a text to scan in which every run of newest chunks of the *)
(* process is found.                                                       *)
LEMMA WindowScanned ==
  ASSUME NEW flows, IsFlows(flows), NEW pidFlows, IsFlows(pidFlows),
         NEW pid, NEW dest, NEW dns, NEW payload \in Seq(Atoms), NEW now \in Nat,
         NEW fragment, fragment = normalizedEgressFragment(dns, payload), fragment # <<>>,
         NEW r \in egressCandidatePayload(flows, pidFlows, pid, dest, dns, payload, now)
  PROVE  /\ r.flows \in appendFlow(flows, <<pid, dest>>, fragment, now)
         /\ r.pidFlows \in appendFlow(pidFlows, pid, fragment, now)
         /\ \A n \in 0..Len(r.pidFlows[pid].chunks) :
              Join(Newest(r.pidFlows[pid].chunks, n)) # <<>> =>
                HasText(r.scan, Join(Newest(r.pidFlows[pid].chunks, n)))
<1> DEFINE raw == IF fragment = payload THEN <<>> ELSE <<NL>> \o payload
           w   == Join(r.flows[<<pid, dest>>].chunks)
           c   == r.pidFlows[pid].chunks
           S   == Atoms \cup {NL}
<1>1. /\ r.flows \in appendFlow(flows, <<pid, dest>>, fragment, now)
      /\ r.pidFlows \in appendFlow(pidFlows, pid, fragment, now)
      /\ r.scan = scanBoth(w, Join(c)) \o raw
  <2> DEFINE A == appendFlow(flows, <<pid, dest>>, fragment, now)
             B == appendFlow(pidFlows, pid, fragment, now)
             scan(f, g) == scanBoth(Join(f[<<pid, dest>>].chunks), Join(g[pid].chunks)) \o raw
  <2>1. r \in {[flows |-> x[1], pidFlows |-> x[2], scan |-> scan(x[1], x[2])] : x \in A \X B}
    BY DEF egressCandidatePayload
  <2> HIDE DEF A, B, scan
  <2>2. r.flows \in A /\ r.pidFlows \in B /\ r.scan = scan(r.flows, r.pidFlows)  BY <2>1
  <2>. QED  BY <2>2 DEF A, B, scan
<1>2. fragment \in Seq(Atoms)  BY FragmentIsText
<1>3. r.flows[<<pid, dest>>].chunks \in Seq(Seq(Atoms)) /\ c \in Seq(Seq(Atoms))
  <2>1. /\ IsFlows(r.flows) /\ <<pid, dest>> \in DOMAIN r.flows
        /\ IsFlows(r.pidFlows) /\ pid \in DOMAIN r.pidFlows
    BY <1>1, <1>2, FlowAppended DEF Appended
  <2>. QED  BY <2>1 DEF IsFlows
<1>4. w \in Seq(Atoms)
  <2>1. <<>> \in Seq(Atoms)  OBVIOUS
  <2>. QED  BY <1>3, <2>1, JoinAppend
<1>5. Seq(Atoms) \subseteq Seq(S) /\ <<NL>> \in Seq(S)
  <2>1. Seq(Atoms) \subseteq Seq(S)  BY SeqMonotonic
  <2>. QED  BY <2>1
<1>6. raw \in Seq(S)
  <2>1. payload \in Seq(S)  BY <1>5
  <2>2. <<NL>> \o payload \in Seq(S)  BY <1>5, <2>1, ConcatProperties
  <2>3. <<>> \in Seq(S)  OBVIOUS
  <2>4. CASE fragment = payload  BY <2>3, <2>4
  <2>5. CASE fragment # payload  BY <2>2, <2>5
  <2>. QED  BY <2>4, <2>5
<1> HIDE DEF raw, w, c, S
<1>7. ASSUME NEW n \in 0..Len(c), Join(Newest(c, n)) # <<>>
      PROVE  HasText(r.scan, Join(Newest(c, n)))
  <2> DEFINE k == Len(c) - n
             a == Join(SubSeq(c, 1, k))
             b == Join(Newest(c, n))
  <2>1. k \in 0..Len(c)  BY <1>3, LenProperties
  <2>2. /\ a \in Seq(S) /\ b \in Seq(S) /\ b # <<>>
        /\ Join(c) = a \o b
    <3>1. /\ a \in Seq(Atoms) /\ Join(DropHead(c, k)) \in Seq(Atoms)
          /\ Join(c) = a \o Join(DropHead(c, k))
      <4> HIDE DEF k
      <4>. QED  BY <1>3, <2>1, JoinSplit
    <3>. QED  BY <1>5, <1>7, <3>1 DEF Newest
  <2> HIDE DEF a, b
  <2>3. CASE Join(c) = w
    <3>1. r.scan = (a \o b) \o raw  BY <1>1, <2>2, <2>3 DEF scanBoth
    <3>2. HasText((a \o b) \o raw, b)  BY <1>6, <2>2, FoundBetween
    <3>. QED  BY <3>1, <3>2 DEF b
  <2>4. CASE Join(c) # w
    <3> DEFINE v == w \o <<NL>>
    <3>1. v \in Seq(S)
      <4>1. w \in Seq(S)  BY <1>4, <1>5
      <4>. QED  BY <1>5, <4>1, ConcatProperties
    <3>2. r.scan = (v \o (a \o b)) \o raw  BY <1>1, <2>2, <2>4 DEF scanBoth
    <3> HIDE DEF v
    <3>3. v \o a \in Seq(S)  BY <2>2, <3>1, ConcatProperties
    <3>4. (v \o a) \o b = v \o (a \o b)
      <4>1. v \in Seq(S) /\ a \in Seq(S) /\ b \in Seq(S)  BY <2>2, <3>1
      <4>. QED  BY ONLY <4>1, ConcatAssociative, SMTT(30)
    <3>5. HasText(((v \o a) \o b) \o raw, b)  BY <1>6, <2>2, <3>3, FoundBetween
    <3>. QED  BY <3>2, <3>4, <3>5 DEF b
  <2>. QED  BY <2>3, <2>4
<1>. QED  BY <1>1, <1>7 DEF c

(* Pieces, and the texts of the newest of them when one more is appended.  *)
Pieces == [text : Seq(Atoms) \ {<<>>}, ts : Nat]

LEMMA NewestTextsAppend ==
  ASSUME NEW f \in Seq(Pieces), NEW x \in Pieces, NEW n \in 1..(Len(f) + 1)
  PROVE  /\ NewestTexts(f, n - 1) \in Seq(Seq(Atoms)) /\ Len(NewestTexts(f, n - 1)) = n - 1
         /\ NewestTexts(Append(f, x), n) = Append(NewestTexts(f, n - 1), x.text)
<1> DEFINE g == Append(f, x)
           a == NewestTexts(f, n - 1)
           b == NewestTexts(g, n)
           c == Append(a, x.text)
<1>0. Len(f) \in Nat /\ n \in Nat /\ n - 1 \in Nat  BY LenProperties
<1>1. /\ g \in Seq(Pieces) /\ Len(g) = Len(f) + 1 /\ g[Len(f) + 1] = x
      /\ \A i \in 1..Len(f) : g[i] = f[i]
  BY AppendProperties
<1> HIDE DEF g
<1>2. \A i \in 1..Len(f) : f[i].text \in Seq(Atoms)
  <2>1. \A i \in 1..Len(f) : f[i] \in Pieces  BY ElementOfSeq
  <2>. QED  BY <2>1 DEF Pieces
<1>3. x.text \in Seq(Atoms)  BY DEF Pieces
<1>4. /\ a \in Seq(Seq(Atoms)) /\ Len(a) = n - 1
      /\ \A i \in 1..(n - 1) : a[i] = f[Len(f) - (n - 1) + i].text
  <2>1. \A i \in 1..(n - 1) : f[Len(f) - (n - 1) + i].text \in Seq(Atoms)  BY <1>0, <1>2
  <2>. QED  BY <1>0, <2>1, IsASeq DEF NewestTexts
<1>5. /\ b \in Seq(Seq(Atoms)) /\ Len(b) = n
      /\ \A i \in 1..n : b[i] = g[Len(f) + 1 - n + i].text
  <2>1. \A i \in 1..n : g[Len(f) + 1 - n + i].text \in Seq(Atoms)
    <3> SUFFICES ASSUME NEW i \in 1..n PROVE g[Len(f) + 1 - n + i].text \in Seq(Atoms)
      OBVIOUS
    <3>1. Len(f) + 1 - n + i \in 1..Len(g)  BY <1>0, <1>1
    <3>2. g[Len(f) + 1 - n + i] \in Pieces  BY <1>1, <3>1, ElementOfSeq
    <3>. QED  BY <3>2 DEF Pieces
  <2>2. b = [i \in 1..n |-> g[Len(f) + 1 - n + i].text]  BY <1>1 DEF NewestTexts
  <2>. QED  BY <1>0, <2>1, <2>2, IsASeq
<1> HIDE DEF a, b
<1>6. /\ c \in Seq(Seq(Atoms)) /\ Len(c) = n /\ c[n] = x.text
      /\ \A i \in 1..(n - 1) : c[i] = a[i]
  <2>1. /\ c \in Seq(Seq(Atoms)) /\ Len(c) = Len(a) + 1 /\ c[Len(a) + 1] = x.text
        /\ \A i \in 1..Len(a) : c[i] = a[i]
    BY <1>3, <1>4, AppendProperties
  <2> HIDE DEF c
  <2>2. Len(a) + 1 = n  BY <1>0, <1>4
  <2>. QED  BY <1>4, <2>1, <2>2
<1> HIDE DEF c
<1>7. \A i \in 1..Len(b) : b[i] = c[i]
  <2> SUFFICES ASSUME NEW i \in 1..n PROVE b[i] = c[i]  BY <1>5
  <2>1. CASE i = n
    <3>1. Len(f) + 1 - n + i = Len(f) + 1  BY <1>0, <2>1
    <3>. QED  BY <1>1, <1>5, <1>6, <2>1, <3>1
  <2>2. CASE i # n
    <3>1. /\ i \in 1..(n - 1) /\ Len(f) + 1 - n + i \in 1..Len(f)
          /\ Len(f) + 1 - n + i = Len(f) - (n - 1) + i
      BY <1>0, <2>2
    <3>2. b[i] = g[Len(f) + 1 - n + i].text  BY <1>5
    <3>3. g[Len(f) + 1 - n + i] = f[Len(f) - (n - 1) + i]  BY <1>1, <3>1
    <3>4. c[i] = a[i] /\ a[i] = f[Len(f) - (n - 1) + i].text  BY <1>4, <1>6, <3>1
    <3>. QED  BY <3>2, <3>3, <3>4
  <2>. QED  BY <2>1, <2>2
<1>8. b = c  BY <1>5, <1>6, <1>7, SeqEqual
<1>. QED  BY <1>4, <1>8 DEF a, b, c, g

(* Pieces within the limits are within them without the last, which came   *)
(* in time after the one before.                                           *)
LEMMA WithinBefore ==
  ASSUME NEW f \in Seq(Pieces), NEW x \in Pieces, NEW n \in 2..(Len(f) + 1),
         WithinLimits(Append(f, x), n)
  PROVE  /\ WithinLimits(f, n - 1)
         /\ x.ts - f[Len(f)].ts <= egressFragmentMaxAge
<1> DEFINE g == Append(f, x)
<1>0. Len(f) \in Nat /\ n \in Nat /\ n - 1 \in Nat /\ n \in 1..(Len(f) + 1)  BY LenProperties
<1>1. /\ Len(g) = Len(f) + 1 /\ g[Len(f) + 1] = x
      /\ \A i \in 1..Len(f) : g[i] = f[i]
  BY AppendProperties
<1>2. /\ NewestTexts(f, n - 1) \in Seq(Seq(Atoms))
      /\ NewestTexts(g, n) = Append(NewestTexts(f, n - 1), x.text)
  BY <1>0, NewestTextsAppend
<1> HIDE DEF g
<1>3. /\ n <= egressFragmentMaxChunks
      /\ Bytes(NewestTexts(g, n)) <= egressFragmentMaxBytes
      /\ \A i \in (Len(f) + 1 - n + 2)..(Len(f) + 1) : g[i].ts - g[i - 1].ts <= egressFragmentMaxAge
  BY <1>1 DEF WithinLimits, g
<1>4. egressFragmentMaxChunks \in Nat /\ egressFragmentMaxBytes \in Nat  BY EgressAssumption
<1>5. Bytes(NewestTexts(f, n - 1)) <= egressFragmentMaxBytes
  <2> DEFINE h == NewestTexts(f, n - 1)
  <2>1. x.text \in Seq(Atoms)  BY DEF Pieces
  <2>2. Join(h) \in Seq(Atoms) /\ Join(Append(h, x.text)) = Join(h) \o x.text
    BY <1>2, <2>1, JoinAppend
  <2>3. Len(Join(h) \o x.text) = Len(Join(h)) + Len(x.text)
    BY <2>1, <2>2, ConcatProperties
  <2>4. Len(Join(h)) \in Nat /\ Len(x.text) \in Nat  BY <2>1, <2>2, LenProperties
  <2>5. Bytes(h) = Len(Join(h)) /\ Bytes(NewestTexts(g, n)) = Len(Join(h)) + Len(x.text)
    BY <1>2, <2>2, <2>3 DEF Bytes, Join
  <2> HIDE DEF h
  <2>6. Bytes(h) <= egressFragmentMaxBytes  BY <1>3, <1>4, <2>4, <2>5
  <2>. QED  BY <2>6 DEF h
<1>6. \A i \in (Len(f) - (n - 1) + 2)..Len(f) : f[i].ts - f[i - 1].ts <= egressFragmentMaxAge
  <2> SUFFICES ASSUME NEW i \in (Len(f) - (n - 1) + 2)..Len(f)
               PROVE  f[i].ts - f[i - 1].ts <= egressFragmentMaxAge
    OBVIOUS
  <2>1. /\ i \in (Len(f) + 1 - n + 2)..(Len(f) + 1)
        /\ i \in 1..Len(f) /\ i - 1 \in 1..Len(f)
    BY <1>0
  <2>. QED  BY <1>1, <1>3, <2>1
<1>7. x.ts - f[Len(f)].ts <= egressFragmentMaxAge
  <2>1. /\ Len(f) + 1 \in (Len(f) + 1 - n + 2)..(Len(f) + 1)
        /\ (Len(f) + 1) - 1 = Len(f) /\ Len(f) \in 1..Len(f)
    BY <1>0
  <2>. QED  BY <1>1, <1>3, <2>1
<1>8. n - 1 <= egressFragmentMaxChunks  BY <1>0, <1>3, <1>4
<1>. QED  BY <1>5, <1>6, <1>7, <1>8 DEF WithinLimits

(* A flow that holds the newest n - 1 pieces holds n when one is appended  *)
(* and they are within the limits.                                         *)
LEMMA PieceKept ==
  ASSUME NEW f \in Seq(Pieces), NEW x \in Pieces, NEW n \in 1..(Len(f) + 1),
         NEW q \in Seq(Seq(Atoms)), WithinLimits(Append(f, x), n),
         n # 1 => n - 1 <= Len(q) /\ Newest(q, n - 1) = NewestTexts(f, n - 1)
  PROVE  /\ n <= Len(Push(q, x.text))
         /\ Newest(Push(q, x.text), n) = NewestTexts(Append(f, x), n)
         /\ Join(NewestTexts(Append(f, x), n)) # <<>>
<1>0. Len(f) \in Nat /\ n \in Nat /\ n - 1 \in Nat /\ Len(q) \in Nat  BY LenProperties
<1>1. x.text \in Seq(Atoms) /\ x.text # <<>>  BY DEF Pieces
<1>2. /\ NewestTexts(f, n - 1) \in Seq(Seq(Atoms)) /\ Len(NewestTexts(f, n - 1)) = n - 1
      /\ NewestTexts(Append(f, x), n) = Append(NewestTexts(f, n - 1), x.text)
  BY NewestTextsAppend
<1>3. n - 1 <= Len(q) /\ Newest(q, n - 1) = NewestTexts(f, n - 1)
  <2>1. CASE n # 1  BY <2>1
  <2>2. CASE n = 1
    <3>1. NewestTexts(f, 0) = <<>>  BY <1>2, <2>2, EmptySeq
    <3>2. Newest(q, 0) = <<>>  BY <1>0, DropEverything DEF Newest
    <3>. QED  BY <1>0, <2>2, <3>1, <3>2
  <2>. QED  BY <2>1, <2>2
<1>4. Newest(Append(q, x.text), n) = NewestTexts(Append(f, x), n)
  <2>1. Len(Append(q, x.text)) = Len(q) + 1  BY <1>1, AppendProperties
  <2> DEFINE k == Len(q) - (n - 1)
  <2>2. k \in 0..Len(q) /\ Len(q) + 1 - n = k  BY <1>0, <1>3
  <2>3. Newest(Append(q, x.text), n) = DropHead(Append(q, x.text), k)
    BY <2>1, <2>2 DEF Newest
  <2> HIDE DEF k
  <2>4. DropHead(Append(q, x.text), k) = Append(DropHead(q, k), x.text)
    BY <1>1, <2>2, DropAppend
  <2>5. DropHead(q, k) = Newest(q, n - 1)  BY DEF k, Newest
  <2>. QED  BY <1>2, <1>3, <2>3, <2>4, <2>5
<1>5. /\ n <= Len(Push(q, x.text))
      /\ Newest(Push(q, x.text), n) = Newest(Append(q, x.text), n)
  <2>1. egressFragmentMaxChunks \in Nat /\ egressFragmentMaxBytes \in Nat  BY EgressAssumption
  <2>2. n \in 1..(Len(q) + 1)  BY <1>0, <1>3
  <2>3. n <= egressFragmentMaxChunks /\ Bytes(Newest(Append(q, x.text), n)) <= egressFragmentMaxBytes
    BY <1>4 DEF WithinLimits
  <2>. QED  BY <1>1, <2>1, <2>2, <2>3, NewestKept DEF Push
<1>6. Join(NewestTexts(Append(f, x), n)) # <<>>
  <2> DEFINE h == NewestTexts(f, n - 1)
  <2>1. Join(h) \in Seq(Atoms) /\ Join(Append(h, x.text)) = Join(h) \o x.text
    BY <1>1, <1>2, JoinAppend
  <2> HIDE DEF h
  <2>2. Join(h) \o x.text # <<>>  BY <1>1, <2>1, ConcatEqualIffEmpty
  <2>. QED  BY <1>2, <2>1, <2>2 DEF h
<1>. QED  BY <1>4, <1>5, <1>6
-----------------------------------------------------------------------------
(* A record with a payload; and that whatever is still to be examined, on  *)
(* the ring or sent from now on, is no older than t.                       *)
IsPayload(ev) == "fd" \in DOMAIN ev \/ "dest" \in DOMAIN ev
Later(t) ==
  /\ t <= ktime
  /\ \A i \in 1..Len(critical_events) :
       IsPayload(critical_events[i]) => t <= critical_events[i].ts

(* The critical ring is in the order of time.                              *)
InTime ==
  /\ payload_cap \in Nat
  /\ \A i \in 1..Len(critical_events) : IsPayload(critical_events[i]) =>
       /\ critical_events[i].payload \in Seq(Atoms)
       /\ critical_events[i].ts \in Nat /\ critical_events[i].ts <= ktime
       /\ \A j \in i..Len(critical_events) :
            IsPayload(critical_events[j]) => critical_events[i].ts <= critical_events[j].ts

(* The flow of a process holds its newest pieces as far as they are within *)
(* the limits, unless it was dropped for its age, and then the next piece  *)
(* comes too late for them.                                                *)
Held(p) ==
  LET f == fragments[p]
      t == f[Len(f)].ts
  IN  f # <<>> =>
        IF p \in DOMAIN egressPIDFlows
        THEN /\ egressPIDFlows[p].last = t
             /\ \A n \in 1..Len(f) : WithinLimits(f, n) =>
                  /\ n <= Len(egressPIDFlows[p].chunks)
                  /\ Newest(egressPIDFlows[p].chunks, n) = NewestTexts(f, n)
        ELSE Later(t + egressFragmentMaxAge + 1)

Buffered ==
  /\ IsFlows(egressFlows) /\ IsFlows(egressPIDFlows) /\ DOMAIN egressPIDFlows \subseteq PIDs
  /\ fragments \in [PIDs -> Seq(Pieces)]
  /\ \A p \in PIDs : Held(p)

EgressInv == InTime /\ Buffered /\ PiecesJoined

LEMMA EgressInvInit == SensorInit => EgressInv
<1> SUFFICES ASSUME SensorInit PROVE EgressInv  OBVIOUS
<1>1. /\ payload_cap = 0 /\ critical_events = <<>> /\ egressFlows = NoFlows
      /\ egressPIDFlows = NoFlows /\ fragments = [p \in PIDs |-> <<>>] /\ last = Idle
  BY DEF SensorInit, Init
<1>2. Len(<<>>) = 0  BY EmptySeq
<1>3. InTime  BY <1>1, <1>2 DEF InTime
<1>4. DOMAIN NoFlows = {}  BY DEF NoFlows
<1>5. fragments \in [PIDs -> Seq(Pieces)]
  <2>1. <<>> \in Seq(Pieces)  OBVIOUS
  <2>. QED  BY <1>1, <2>1
<1>6. Buffered  BY <1>1, <1>4, <1>5 DEF Buffered, IsFlows, Held
<1>7. PiecesJoined  BY <1>1 DEF PiecesJoined, Idle
<1>. QED  BY <1>3, <1>6, <1>7 DEF EgressInv

(* What is later than a time stays later.                                  *)
LEMMA LaterStays ==
  ASSUME ktime \in Nat, ktime' \in Nat, ktime <= ktime',
         \A i \in 1..Len(critical_events') : IsPayload(critical_events'[i]) =>
           \/ \E j \in 1..Len(critical_events) : critical_events'[i] = critical_events[j]
           \/ critical_events'[i].ts = ktime
  PROVE  \A t \in Nat : Later(t) => Later(t)'
BY DEF Later

(* The ring as programs append to it, as time passes, ...                  *)
LEMMA RingInTime ==
  ASSUME SensorTypes, InTime, NEW ev, payload_cap' = payload_cap,
         critical_events' = critical_events \/ critical_events' = Append(critical_events, ev),
         critical_events' # critical_events /\ IsPayload(ev) =>
           ev.payload \in Seq(Atoms) /\ ev.ts = ktime,
         ktime' \in Nat, ktime <= ktime'
  PROVE  InTime' /\ \A t \in Nat : Later(t) => Later(t)'
<1>0. ktime \in Nat /\ IsList(critical_events)  BY DEF SensorTypes
<1>1. CASE critical_events' = critical_events
  <2>1. InTime'  BY <1>0, <1>1 DEF InTime
  <2>. QED  BY <1>0, <1>1, <2>1, LaterStays
<1>2. CASE critical_events' = Append(critical_events, ev) /\ critical_events' # critical_events
  <2>1. /\ Len(critical_events) \in Nat /\ Len(critical_events') = Len(critical_events) + 1
        /\ \A i \in 1..Len(critical_events) : critical_events'[i] = critical_events[i]
        /\ critical_events'[Len(critical_events) + 1] = ev
    BY <1>0, <1>2, ListAppend
  <2>2. \A i \in 1..Len(critical_events') :
          i \in 1..Len(critical_events) \/ i = Len(critical_events) + 1
    BY <2>1
  <2>3. InTime'
    <3> SUFFICES ASSUME NEW i \in 1..Len(critical_events'), IsPayload(critical_events'[i])
                 PROVE  /\ critical_events'[i].payload \in Seq(Atoms)
                        /\ critical_events'[i].ts \in Nat /\ critical_events'[i].ts <= ktime'
                        /\ \A j \in i..Len(critical_events') : IsPayload(critical_events'[j]) =>
                             critical_events'[i].ts <= critical_events'[j].ts
      BY DEF InTime, IsPayload
    <3>1. /\ critical_events'[i].payload \in Seq(Atoms)
          /\ critical_events'[i].ts \in Nat /\ critical_events'[i].ts <= ktime
      BY <1>0, <1>2, <2>1, <2>2 DEF InTime
    <3>2. ASSUME NEW j \in i..Len(critical_events'), IsPayload(critical_events'[j])
          PROVE  critical_events'[i].ts <= critical_events'[j].ts
      <4>1. CASE j = Len(critical_events) + 1  BY <1>2, <2>1, <3>1, <3>2, <4>1
      <4>2. CASE j # Len(critical_events) + 1
        <5>1. i \in 1..Len(critical_events) /\ j \in i..Len(critical_events) /\ j \in 1..Len(critical_events)
          BY <2>1, <2>2, <4>2
        <5>. QED  BY <2>1, <3>2, <5>1 DEF InTime
      <4>. QED  BY <4>1, <4>2
    <3>. QED  BY <1>0, <3>1, <3>2
  <2>4. \A i \in 1..Len(critical_events') : IsPayload(critical_events'[i]) =>
          \/ \E j \in 1..Len(critical_events) : critical_events'[i] = critical_events[j]
          \/ critical_events'[i].ts = ktime
    BY <1>2, <2>1, <2>2
  <2>. QED  BY <1>0, <2>3, <2>4, LaterStays
<1>. QED  BY <1>1, <1>2

(* ... and as the reader takes the oldest record.                          *)
LEMMA TakenInTime ==
  ASSUME SensorTypes, InTime, critical_events # <<>>, critical_events' = Tail(critical_events),
         payload_cap' = payload_cap, ktime' = ktime
  PROVE  /\ InTime' /\ \A t \in Nat : Later(t) => Later(t)'
         /\ IsPayload(Head(critical_events)) =>
              /\ Head(critical_events).payload \in Seq(Atoms) /\ Head(critical_events).ts \in Nat
              /\ \A t \in Nat : t = Head(critical_events).ts => Later(t)'
              /\ \A t \in Nat : Later(t) => t <= Head(critical_events).ts
<1>0. ktime \in Nat /\ IsList(critical_events)  BY DEF SensorTypes
<1>1. /\ Len(critical_events) \in Nat \ {0} /\ Len(critical_events') = Len(critical_events) - 1
      /\ Head(critical_events) = critical_events[1]
      /\ \A i \in 1..(Len(critical_events) - 1) : critical_events'[i] = critical_events[i + 1]
  BY <1>0, ListTake
<1>2. \A i \in 1..Len(critical_events') : i + 1 \in 1..Len(critical_events)
                                          /\ critical_events'[i] = critical_events[i + 1]
  BY <1>1
<1>3. InTime'
  <2> SUFFICES ASSUME NEW i \in 1..Len(critical_events'), IsPayload(critical_events'[i])
               PROVE  /\ critical_events'[i].payload \in Seq(Atoms)
                      /\ critical_events'[i].ts \in Nat /\ critical_events'[i].ts <= ktime'
                      /\ \A j \in i..Len(critical_events') : IsPayload(critical_events'[j]) =>
                           critical_events'[i].ts <= critical_events'[j].ts
    BY DEF InTime, IsPayload
  <2>1. \A j \in i..Len(critical_events') : j \in 1..Len(critical_events')
                                            /\ j + 1 \in (i + 1)..Len(critical_events)
    BY <1>1
  <2>. QED  BY <1>2, <2>1 DEF InTime
<1>4. \A t \in Nat : Later(t) => Later(t)'
  <2>1. \A i \in 1..Len(critical_events') : \E j \in 1..Len(critical_events) :
          critical_events'[i] = critical_events[j]
    BY <1>2
  <2>. QED  BY <1>0, <2>1, LaterStays
<1>5. ASSUME IsPayload(Head(critical_events))
      PROVE  /\ Head(critical_events).payload \in Seq(Atoms) /\ Head(critical_events).ts \in Nat
             /\ \A t \in Nat : t = Head(critical_events).ts => Later(t)'
             /\ \A t \in Nat : Later(t) => t <= Head(critical_events).ts
  <2>1. 1 \in 1..Len(critical_events) /\ \A i \in 1..Len(critical_events') : i + 1 \in 1..Len(critical_events)
    BY <1>1
  <2> DEFINE s == Head(critical_events).ts
  <2>2. /\ Head(critical_events).payload \in Seq(Atoms) /\ s \in Nat /\ s <= ktime
        /\ \A j \in 1..Len(critical_events) :
             IsPayload(critical_events[j]) => s <= critical_events[j].ts
    BY <1>1, <1>5, <2>1 DEF InTime
  <2>3. \A i \in 1..Len(critical_events') :
          IsPayload(critical_events'[i]) => s <= critical_events'[i].ts
    BY <1>2, <2>2
  <2>4. \A t \in Nat : Later(t) => t <= s  BY <1>1, <1>5, <2>1 DEF Later
  <2>5. \A t \in Nat : t = s => Later(t)'  BY <2>2, <2>3 DEF Later, IsPayload
  <2>. QED  BY <2>2, <2>4, <2>5
<1>. QED  BY <1>3, <1>4, <1>5

(* Whatever leaves the buffers alone keeps what is known of them.          *)
LEMMA BufferedStays ==
  ASSUME Buffered, PiecesJoined, UNCHANGED <<egressFlows, egressPIDFlows, fragments>>,
         last' = last \/ last'.piece = <<>>,
         \A t \in Nat : Later(t) => Later(t)'
  PROVE  Buffered' /\ PiecesJoined'
<1>1. ASSUME NEW p \in PIDs PROVE Held(p)'
  <2> DEFINE f == fragments[p]
             s == f[Len(f)].ts + egressFragmentMaxAge + 1
  <2>1. ASSUME f # <<>>, p \notin DOMAIN egressPIDFlows
        PROVE  \A t \in Nat : t = s => Later(t)'
    <3>1. Later(s)  BY <2>1, <1>1 DEF Buffered, Held
    <3>. QED  BY <3>1
  <2>2. f # <<>> => s \in Nat
    <3>1. f \in Seq(Pieces)  BY DEF Buffered
    <3>2. f # <<>> => Len(f) \in 1..Len(f)  BY <3>1, LenProperties, EmptySeq
    <3>3. f # <<>> => f[Len(f)] \in Pieces  BY <3>1, <3>2, ElementOfSeq
    <3>. QED  BY <3>3, EgressAssumption DEF Pieces
  <2>3. f' = f /\ s' = s  OBVIOUS
  <2>4. CASE f # <<>> /\ p \notin DOMAIN egressPIDFlows
    <3>1. Later(s)'
      <4>1. PICK t \in Nat : t = s  BY <2>2, <2>4
      <4>2. Later(t)'  BY <2>1, <2>4, <4>1
      <4>. QED  BY <2>3, <4>1, <4>2 DEF Later
    <3>. QED  BY <2>4, <3>1 DEF Held
  <2>5. CASE f = <<>>  BY <2>5 DEF Held
  <2>6. CASE f # <<>> /\ p \in DOMAIN egressPIDFlows
    BY <1>1, <2>6 DEF Buffered, Held
  <2>. QED  BY <2>4, <2>5, <2>6
<1>2. Buffered'  BY <1>1 DEF Buffered
<1>3. PiecesJoined'  BY DEF PiecesJoined
<1>. QED  BY <1>2, <1>3

(* The process a piece is examined for: its flow goes on with the pieces   *)
(* it held, or they are too old to be within the limits.                   *)
LEMMA FlowHolds ==
  ASSUME Buffered, NEW p \in PIDs, NEW x \in Pieces, \A t \in Nat : Later(t) => t <= x.ts,
         NEW flow \in appendFlow(egressPIDFlows, p, x.text, x.ts),
         NEW n \in 1..(Len(fragments[p]) + 1), WithinLimits(Append(fragments[p], x), n)
  PROVE  /\ n <= Len(flow[p].chunks)
         /\ Newest(flow[p].chunks, n) = NewestTexts(Append(fragments[p], x), n)
         /\ Join(NewestTexts(Append(fragments[p], x), n)) # <<>>
<1> DEFINE f == fragments[p]
<1>1. f \in Seq(Pieces) /\ IsFlows(egressPIDFlows) /\ Held(p)  BY DEF Buffered
<1>2. x.text \in Seq(Atoms) /\ x.ts \in Nat /\ Len(f) \in Nat  BY <1>1, LenProperties DEF Pieces
<1>3. PICK q \in Seq(Seq(Atoms)) :
        /\ flow[p].chunks = Push(q, x.text)
        /\ p \in DOMAIN egressPIDFlows /\ Young(egressPIDFlows[p], x.ts) => q = egressPIDFlows[p].chunks
  <2>1. Appended(egressPIDFlows, p, x.text, x.ts, flow)  BY <1>1, <1>2, FlowAppended
  <2>. QED  BY <2>1 DEF Appended
<1>4. ASSUME n # 1 PROVE n - 1 <= Len(q) /\ Newest(q, n - 1) = NewestTexts(f, n - 1)
  <2>0. n \in 2..(Len(f) + 1) /\ n - 1 \in 1..Len(f) /\ Len(f) \in 1..Len(f)  BY <1>2, <1>4
  <2>1. f # <<>>  BY <2>0, EmptySeq
  <2>2. WithinLimits(f, n - 1) /\ x.ts - f[Len(f)].ts <= egressFragmentMaxAge
    BY <1>1, <2>0, WithinBefore
  <2> DEFINE s == f[Len(f)].ts
  <2>3. s \in Nat /\ egressFragmentMaxAge \in Nat
    <3>1. f[Len(f)] \in Pieces  BY <1>1, <2>0, ElementOfSeq
    <3>. QED  BY <3>1, EgressAssumption DEF Pieces
  <2>4. p \in DOMAIN egressPIDFlows
    <3> SUFFICES ASSUME p \notin DOMAIN egressPIDFlows PROVE FALSE  OBVIOUS
    <3>1. Later(s + egressFragmentMaxAge + 1) /\ x.ts - s <= egressFragmentMaxAge
      BY <1>1, <2>1, <2>2 DEF Held
    <3> HIDE DEF s
    <3>2. s + egressFragmentMaxAge + 1 <= x.ts
      <4>1. s + egressFragmentMaxAge + 1 \in Nat  BY <2>3
      <4>. QED  BY <3>1, <4>1
    <3>. QED  BY <1>2, <2>3, <3>1, <3>2
  <2>5. /\ egressPIDFlows[p].last = s
        /\ n - 1 <= Len(egressPIDFlows[p].chunks)
        /\ Newest(egressPIDFlows[p].chunks, n - 1) = NewestTexts(f, n - 1)
    BY <1>1, <2>0, <2>1, <2>2, <2>4 DEF Held
  <2>6. Young(egressPIDFlows[p], x.ts)
    <3> HIDE DEF s
    <3>1. x.ts - s <= egressFragmentMaxAge  BY <2>2 DEF s
    <3>. QED  BY <1>2, <2>3, <2>5, <3>1 DEF Young
  <2>. QED  BY <1>3, <2>4, <2>5, <2>6
<1> HIDE DEF f
<1>5. /\ n <= Len(Push(q, x.text))
      /\ Newest(Push(q, x.text), n) = NewestTexts(Append(f, x), n)
      /\ Join(NewestTexts(Append(f, x), n)) # <<>>
  <2>1. n \in 1..(Len(f) + 1) /\ WithinLimits(Append(f, x), n)  BY DEF f
  <2>. QED  BY <1>1, <1>3, <1>4, <2>1, PieceKept
<1>. QED  BY <1>3, <1>5 DEF f

(* An examined payload: every run of newest pieces within the limits is in *)
(* the flow of the process, and with it in the text that is scanned.       *)
LEMMA VerdictJoins ==
  ASSUME IsFiniteSet(PIDs), Cardinality(PIDs) <= egressMaxFlows,
         Buffered, PiecesJoined, \A t \in Nat : Later(t) => Later(t)',
         InTime', ktime' \in Nat, NEW ev, ev.pid \in PIDs, ev.payload \in Seq(Atoms), ev.ts \in Nat,
         \A t \in Nat : t = ev.ts => Later(t)',
         \A t \in Nat : Later(t) => t <= ev.ts,
         NEW dest, NEW dns, NEW id, Verdict(ev, dest, dns, id)
  PROVE  Buffered' /\ PiecesJoined'
<1> DEFINE piece == normalizedEgressFragment(dns, ev.payload)
           p     == ev.pid
           f     == fragments[p]
           x     == [text |-> piece, ts |-> ev.ts]
<1>1. PICK r \in egressCandidatePayload(egressFlows, egressPIDFlows, p, dest, dns, ev.payload, ev.ts) :
        /\ egressFlows' = r.flows /\ egressPIDFlows' = r.pidFlows
        /\ fragments' = IF piece = <<>> THEN fragments
                        ELSE [fragments EXCEPT ![p] = Append(@, x)]
        /\ last'.pid = p /\ last'.piece = piece /\ last'.scan = r.scan
  BY DEF Verdict
<1>2. CASE piece = <<>>
  <2>1. r = [flows |-> egressFlows, pidFlows |-> egressPIDFlows, scan |-> ev.payload]
    BY <1>1, <1>2 DEF egressCandidatePayload
  <2>2. UNCHANGED <<egressFlows, egressPIDFlows, fragments>>  BY <1>1, <1>2, <2>1
  <2>. QED  BY <1>1, <1>2, <2>2, BufferedStays
<1>3. CASE piece # <<>>
  <2>1. piece \in Seq(Atoms)  BY FragmentIsText
  <2>2. x \in Pieces /\ x.text = piece /\ x.ts = ev.ts  BY <1>3, <2>1 DEF Pieces
  <2>3. /\ IsFlows(egressFlows) /\ IsFlows(egressPIDFlows) /\ DOMAIN egressPIDFlows \subseteq PIDs
        /\ fragments \in [PIDs -> Seq(Pieces)] /\ f \in Seq(Pieces)
    BY DEF Buffered
  <2>4. /\ egressFlows' \in appendFlow(egressFlows, <<p, dest>>, piece, ev.ts)
        /\ egressPIDFlows' \in appendFlow(egressPIDFlows, p, piece, ev.ts)
        /\ \A n \in 0..Len(egressPIDFlows'[p].chunks) :
             Join(Newest(egressPIDFlows'[p].chunks, n)) # <<>> =>
               HasText(last'.scan, Join(Newest(egressPIDFlows'[p].chunks, n)))
    BY <1>1, <1>3, <2>3, WindowScanned
  <2> HIDE DEF piece
  <2>5. fragments' = [fragments EXCEPT ![p] = Append(f, x)]  BY <1>1, <1>3
  <2> HIDE DEF x
  <2>6. IsFlows(egressFlows')  BY <2>1, <2>3, <2>4, FlowAppended DEF Appended
  <2>7. /\ IsFlows(egressPIDFlows') /\ p \in DOMAIN egressPIDFlows' /\ egressPIDFlows'[p].last = ev.ts
        /\ \A k \in DOMAIN egressPIDFlows' : k # p => k \in DOMAIN egressPIDFlows
                                                      /\ egressPIDFlows'[k] = egressPIDFlows[k]
    <3>1. Appended(egressPIDFlows, p, piece, ev.ts, egressPIDFlows')  BY <2>1, <2>3, <2>4, FlowAppended
    <3>. QED  BY <3>1 DEF Appended
  <2>8. /\ Append(f, x) \in Seq(Pieces) /\ Len(Append(f, x)) = Len(f) + 1 /\ Len(f) \in Nat
        /\ Append(f, x)[Len(f) + 1] = x
    BY <2>2, <2>3, AppendProperties, LenProperties
  <2>9. /\ fragments'[p] = Append(f, x)
        /\ \A k \in PIDs : k # p => fragments'[k] = fragments[k]
        /\ fragments' \in [PIDs -> Seq(Pieces)]
    BY <2>3, <2>5, <2>8
  <2>10. ASSUME NEW n \in 1..(Len(f) + 1), WithinLimits(Append(f, x), n)
         PROVE  /\ n <= Len(egressPIDFlows'[p].chunks)
                /\ Newest(egressPIDFlows'[p].chunks, n) = NewestTexts(Append(f, x), n)
                /\ Join(NewestTexts(Append(f, x), n)) # <<>>
    <3>1. \A t \in Nat : Later(t) => t <= x.ts  BY <2>2
    <3>2. egressPIDFlows' \in appendFlow(egressPIDFlows, p, x.text, x.ts)  BY <2>2, <2>4
    <3>. QED  BY <2>2, <2>10, <3>1, <3>2, FlowHolds
  <2>11. ASSUME NEW k \in PIDs PROVE Held(k)'
    <3>1. CASE k = p
      <4>1. fragments'[k] = Append(f, x) /\ fragments'[k][Len(fragments'[k])].ts = ev.ts
        BY <2>2, <2>8, <2>9, <3>1
      <4>. QED  BY <2>7, <2>8, <2>10, <3>1, <4>1 DEF Held
    <3>2. CASE k # p /\ fragments[k] = <<>>  BY <2>9, <3>2 DEF Held
    <3>3. CASE k # p /\ fragments[k] # <<>>
      <4> DEFINE g == fragments[k]
                 s == g[Len(g)].ts
                 e == s + egressFragmentMaxAge + 1
      <4>0. Held(k) /\ fragments'[k] = g  BY <2>9, <3>3 DEF Buffered
      <4>1. s \in Nat /\ egressFragmentMaxAge \in Nat /\ e \in Nat
        <5>1. g \in Seq(Pieces)  BY <2>3
        <5>2. Len(g) \in 1..Len(g)  BY <3>3, <5>1, LenProperties, EmptySeq
        <5>3. g[Len(g)] \in Pieces  BY <5>1, <5>2, ElementOfSeq
        <5>4. s \in Nat  BY <5>3 DEF Pieces
        <5>5. egressFragmentMaxAge \in Nat  BY EgressAssumption
        <5> HIDE DEF s
        <5>. QED  BY <5>4, <5>5
      <4>2. CASE k \in DOMAIN egressPIDFlows'
        <5>1. k \in DOMAIN egressPIDFlows /\ egressPIDFlows'[k] = egressPIDFlows[k]  BY <2>7, <3>3, <4>2
        <5>. QED  BY <3>3, <4>0, <4>2, <5>1 DEF Held
      <4>3. CASE k \notin DOMAIN egressPIDFlows'
        <5>1. \A t \in Nat : t = e => Later(t)'
          <6>1. CASE k \in DOMAIN egressPIDFlows
            <7>1. ~Young(egressPIDFlows[k], ev.ts)
              BY <2>3, <2>4, <4>3, <6>1, NoneEvicted
            <7>2. egressPIDFlows[k].last = s  BY <3>3, <4>0, <6>1 DEF Held
            <7>3. e <= ev.ts  BY <4>1, <7>1, <7>2 DEF Young
            <7>4. PICK u \in Nat : u = ev.ts  OBVIOUS
            <7>5. Later(u)'
              <8>1. \A t \in Nat : t = ev.ts => Later(t)'  OBVIOUS
              <8>. QED  BY ONLY <7>4, <8>1
            <7>6. \A t \in Nat : t <= u => Later(t)'  BY <7>5 DEF Later, InTime
            <7>. QED  BY <4>1, <7>3, <7>4, <7>5, <7>6
          <6>2. CASE k \notin DOMAIN egressPIDFlows
            <7>1. Later(e)  BY <3>3, <4>0, <6>2 DEF Held
            <7>. QED  BY <7>1
          <6>. QED  BY <6>1, <6>2
        <5>2. PICK t \in Nat : t = e  BY <4>1
        <5>3. Later(t)'  BY <5>1, <5>2
        <5>4. fragments'[k] = g /\ fragments'[k][Len(fragments'[k])].ts + egressFragmentMaxAge + 1 = t
          BY <4>0, <5>2
        <5>. QED  BY <4>3, <5>3, <5>4 DEF Held
      <4>. QED  BY <4>2, <4>3
    <3>. QED  BY <3>1, <3>2, <3>3
  <2>12. Buffered'
    <3>1. DOMAIN egressPIDFlows' \subseteq PIDs  BY <2>3, <2>7
    <3>2. IsFlows(egressFlows)' /\ IsFlows(egressPIDFlows)'  BY <2>6, <2>7 DEF IsFlows
    <3>. QED  BY <2>9, <2>11, <3>1, <3>2 DEF Buffered
  <2>13. PiecesJoined'
    <3> SUFFICES ASSUME NEW n \in 1..Len(Append(f, x)), WithinLimits(Append(f, x), n)
                 PROVE  HasText(last'.scan, Join(NewestTexts(Append(f, x), n)))
      BY <1>1, <2>9 DEF PiecesJoined
    <3>1. n \in 1..(Len(f) + 1)  BY <2>8
    <3>2. /\ n <= Len(egressPIDFlows'[p].chunks)
          /\ Newest(egressPIDFlows'[p].chunks, n) = NewestTexts(Append(f, x), n)
          /\ Join(NewestTexts(Append(f, x), n)) # <<>>
      BY <2>10, <3>1
    <3>3. n \in 0..Len(egressPIDFlows'[p].chunks)
      <4>1. egressPIDFlows'[p].chunks \in Seq(Seq(Atoms))  BY <2>7 DEF IsFlows
      <4>2. Len(egressPIDFlows'[p].chunks) \in Nat  BY <4>1, LenProperties
      <4>. QED  BY <3>1, <3>2, <4>2
    <3>. QED  BY <2>4, <3>2, <3>3
  <2>. QED  BY <2>12, <2>13
<1>. QED  BY <1>2, <1>3
-----------------------------------------------------------------------------
(* A payload that the programs capture is a text.                          *)
LEMMA CapturedText ==
  ASSUME payload_cap \in Nat, NEW buf \in Buffers
  PROVE  (IF Readable(buf) THEN read_payload(buf) ELSE <<>>) \in Seq(Atoms)
<1>1. CASE Readable(buf)
  <2>1. buf \in Seq(Atoms)  BY <1>1, ProbesAssumption DEF Readable
  <2>2. payload_limit \in Nat  BY ProbesAssumption DEF payload_limit
  <2>3. Len(buf) \in Nat  BY <2>1, LenProperties
  <2>4. clamp_cap(Len(buf)) \in 0..Len(buf)  BY <2>2, <2>3 DEF clamp_cap
  <2>5. \A i \in 1..clamp_cap(Len(buf)) : buf[i] \in Atoms  BY <2>1, <2>3, <2>4, ElementOfSeq
  <2>6. read_payload(buf) \in Seq(Atoms)  BY <2>4, <2>5, SubSeqProperties DEF read_payload
  <2>. QED  BY <1>1, <2>6
<1>2. CASE ~Readable(buf)  BY <1>2
<1>. QED  BY <1>1, <1>2

LEMMA SentInTime ==
  ASSUME SensorInv, InTime, NEW p \in PIDs, NEW fd \in FDs, NEW buf \in Buffers,
         SysEnterWrite(p, fd, buf) \/ \E dest \in SendTo : SysEnterSendto(p, fd, buf, dest)
  PROVE  InTime' /\ \A t \in Nat : Later(t) => Later(t)'
<1> DEFINE payload == IF Readable(buf) THEN read_payload(buf) ELSE <<>>
<1>1. payload \in Seq(Atoms)  BY CapturedText DEF InTime
<1>2. \E ev : /\ critical_events' = critical_events \/ critical_events' = Append(critical_events, ev)
              /\ ev.payload = payload /\ ev.ts = ktime
              /\ UNCHANGED <<kernelMaps, ktime>>
  <2>1. CASE SysEnterWrite(p, fd, buf)
    <3> DEFINE e == write_event("write", p, fd, payload, <<buf>>)
    <3>1. /\ critical_events' = critical_events \/ critical_events' = Append(critical_events, e)
          /\ UNCHANGED <<kernelMaps, ktime>>
      BY <2>1 DEF SysEnterWrite, emit_write, SubmitCritical, inc_critical_drop_count, Skip, critical
    <3>2. e.payload = payload /\ e.ts = ktime  BY DEF write_event
    <3> HIDE DEF e
    <3>. QED  BY <3>1, <3>2
  <2>2. CASE \E dest \in SendTo : SysEnterSendto(p, fd, buf, dest)
    <3>1. PICK dest \in SendTo : SysEnterSendto(p, fd, buf, dest)  BY <2>2
    <3> DEFINE e == sendto_event("sendto", p, dest, payload, <<buf>>)
    <3>2. dest # NULL /\ read_dest(dest)  BY SensorAssumption, ProbesAssumption DEF read_dest
    <3>3. /\ critical_events' = critical_events \/ critical_events' = Append(critical_events, e)
          /\ UNCHANGED <<kernelMaps, ktime>>
      BY <3>1, <3>2 DEF SysEnterSendto, SubmitCritical, inc_critical_drop_count, Skip, critical
    <3>4. e.payload = payload /\ e.ts = ktime  BY DEF sendto_event
    <3> HIDE DEF e
    <3>. QED  BY <3>3, <3>4
  <2>. QED  BY <2>1, <2>2
<1> HIDE DEF payload
<1>3. PICK ev : /\ critical_events' = critical_events \/ critical_events' = Append(critical_events, ev)
                /\ ev.payload = payload /\ ev.ts = ktime
                /\ UNCHANGED <<kernelMaps, ktime>>
  BY <1>2
<1>4. ktime \in Nat /\ payload_cap' = payload_cap  BY <1>3 DEF SensorInv, SensorTypes, kernelMaps
<1>. QED  BY <1>1, <1>3, <1>4, RingInTime DEF SensorInv

(* Whoever appends no payload keeps the ring in time.                      *)
LEMMA QuietInTime ==
  ASSUME SensorInv, InTime, UNCHANGED payload_cap, ktime' \in Nat, ktime <= ktime',
         \/ UNCHANGED critical_events
         \/ \E p \in PIDs : critical_events' = Append(critical_events, lsm_deny_event(p))
  PROVE  InTime' /\ \A t \in Nat : Later(t) => Later(t)'
<1>1. PICK ev : /\ critical_events' = critical_events \/ critical_events' = Append(critical_events, ev)
                /\ critical_events' = critical_events \/ ~IsPayload(ev)
  <2>1. \A p \in PIDs : ~IsPayload(lsm_deny_event(p))  BY DEF IsPayload, lsm_deny_event
  <2>. QED  BY <2>1
<1>. QED  BY <1>1, RingInTime DEF SensorInv

LEMMA ProcessInTime ==
  ASSUME SensorInv, InTime, NEW p \in PIDs, Process(p)
  PROVE  InTime' /\ \A t \in Nat : Later(t) => Later(t)'
<1>0. ktime \in Nat /\ ktime <= ktime  BY DEF SensorInv, SensorTypes
<1>1. ASSUME NEW fd \in FDs, NEW d \in ConnectTo, Connect(p, fd, d)
      PROVE  UNCHANGED <<payload_cap, critical_events, ktime>>
  <2>1. d \in Dests  BY SensorAssumption
  <2>. QED  BY <1>1, <2>1, ConnectRecord DEF Connect, kernelMaps, critical
<1>2. ASSUME NEW ret \in {0, 1}, ConnectDone(p, ret)
      PROVE  /\ UNCHANGED <<payload_cap, ktime>>
             /\ \/ UNCHANGED critical_events
                \/ \E q \in PIDs : critical_events' = Append(critical_events, lsm_deny_event(q))
  BY <1>2, DenyRecord DEF ConnectDone, kernelMaps
<1>3. ASSUME Open(p) PROVE UNCHANGED <<payload_cap, critical_events, ktime>>
  BY <1>3, OpenRecord DEF Open, kernelMaps, critical
<1>4. CASE \/ \E fd \in FDs, d \in ConnectTo : Connect(p, fd, d)
           \/ \E ret \in {0, 1} : ConnectDone(p, ret)
           \/ Open(p)
  <2>1. /\ UNCHANGED <<payload_cap, ktime>>
        /\ \/ UNCHANGED critical_events
           \/ \E q \in PIDs : critical_events' = Append(critical_events, lsm_deny_event(q))
    BY <1>1, <1>2, <1>3, <1>4
  <2>. QED  BY <1>0, <2>1, QuietInTime
<1>5. ASSUME NEW fd \in FDs, NEW buf \in Buffers,
             Write(p, fd, buf) \/ \E d \in SendTo : Sendto(p, fd, buf, d)
      PROVE  InTime' /\ \A t \in Nat : Later(t) => Later(t)'
  BY <1>5, SentInTime DEF Write, Sendto
<1>. QED  BY <1>4, <1>5 DEF Process

(* Every step.                                                             *)
LEMMA EgressInvNext ==
  ASSUME IsFiniteSet(PIDs), Cardinality(PIDs) <= egressMaxFlows,
         SensorInv, EgressInv, [SensorNext]_sensorVars
  PROVE  EgressInv'
<1> USE DEF EgressInv
<1>0. ktime \in Nat /\ ktime <= ktime  BY DEF SensorInv, SensorTypes
<1>1. ASSUME UNCHANGED <<egressFlows, egressPIDFlows, fragments>>, last' = last \/ last'.piece = <<>>,
             InTime', \A t \in Nat : Later(t) => Later(t)'
      PROVE  EgressInv'
  BY <1>1, BufferedStays
<1>2. ASSUME NEW p \in PIDs, Process(p) PROVE EgressInv'
  <2>1. UNCHANGED <<egressFlows, egressPIDFlows, fragments, last>>
    BY <1>2 DEF Process, Connect, ConnectDone, Write, Sendto, Payload, Open, engine
  <2>. QED  BY <1>1, <1>2, <2>1, ProcessInTime
<1>3. CASE \/ \E p \in PIDs : AddPIDs(p) \/ RemovePIDs(p)
           \/ readLoopRoutine \/ (\E a \in Allowlists : UpdateAllowlist(a))
           \/ containPIDs \/ QuarantineContained \/ UNCHANGED sensorVars
  <2>1. UNCHANGED <<payload_cap, critical_events, ktime, egressFlows, egressPIDFlows, fragments, last>>
    BY <1>3 DEF AddPIDs, AddPID, RemovePIDs, readLoopRoutine, handleConnect, handleOpenat, UpdateAllowlist,
       containPIDs, QuarantineContained, Quarantine, sensorVars, vars, engine, history, kernelMaps, critical
  <2>. QED  BY <1>0, <1>1, <2>1, QuietInTime
<1>4. CASE Tick
  <2>1. /\ UNCHANGED <<payload_cap, critical_events, egressFlows, egressPIDFlows, fragments, last>>
        /\ ktime' = ktime + 1
    BY <1>4 DEF Tick, engine, history, kernelMaps, critical
  <2>2. ktime' \in Nat /\ ktime <= ktime'  BY <1>0, <2>1
  <2>. QED  BY <1>1, <2>1, <2>2, QuietInTime
<1>5. CASE handleWrite \/ handleSendto \/ handleLSMDeny
  <2> DEFINE ev == Head(critical_events)
  <2>1. critical_events # <<>> /\ critical_events' = Tail(critical_events) /\ ktime' = ktime
    BY <1>5 DEF handleWrite, handleSendto, handleLSMDeny, TakeCriticalEvent
  <2>2. payload_cap' = payload_cap
    BY <1>5 DEF handleWrite, handleSendto, handleLSMDeny, kernelMaps
  <2>3. SensorTypes  BY DEF SensorInv
  <2>4. InTime' /\ \A t \in Nat : Later(t) => Later(t)'  BY <2>1, <2>2, <2>3, TakenInTime
  <2>5. IsPayload(ev) => /\ ev.payload \in Seq(Atoms) /\ ev.ts \in Nat
                         /\ \A t \in Nat : t = ev.ts => Later(t)'
                         /\ \A t \in Nat : Later(t) => t <= ev.ts
    BY <2>1, <2>2, <2>3, TakenInTime
  <2>6. ev.pid \in PIDs
    <3>1. ev = critical_events[1] /\ 1 \in 1..Len(critical_events)
      BY <2>1, PairTaken DEF SensorInv, SensorTypes
    <3>. QED  BY <3>1 DEF SensorInv, Remembered, CriticalMade
  <2>7. \/ IsPayload(ev) /\ \E dest, dns, id : Verdict(ev, dest, dns, id)
        \/ /\ UNCHANGED <<egressFlows, egressPIDFlows, fragments>>
           /\ last' = last \/ last'.piece = <<>>
    BY <1>5 DEF handleWrite, handleSendto, handleLSMDeny, Examine, IsPayload, Idle, engine
  <2> HIDE DEF ev
  <2>8. CASE IsPayload(ev) /\ \E dest, dns, id : Verdict(ev, dest, dns, id)
    <3>1. PICK dest, dns, id : Verdict(ev, dest, dns, id)  BY <2>8
    <3>2. ktime' \in Nat  BY <1>0, <2>1
    <3>3. Buffered' /\ PiecesJoined'
      BY <2>4, <2>5, <2>6, <2>8, <3>1, <3>2, VerdictJoins
    <3>. QED  BY <2>4, <3>3
  <2>9. CASE /\ UNCHANGED <<egressFlows, egressPIDFlows, fragments>>
             /\ last' = last \/ last'.piece = <<>>
    BY <1>1, <2>4, <2>9
  <2>. QED  BY <2>7, <2>8, <2>9
<1>. QED  BY <1>2, <1>3, <1>4, <1>5 DEF SensorNext, readLoopCritical

(* A value a process sends in pieces is scanned whole, whichever           *)
(* destinations the pieces went to and whatever other processes sent in    *)
(* between, as long as they are within the limits of reassembly and the    *)
(* table has a flow for every process (appendEgressFlowFragment).          *)
THEOREM PiecesAreJoined ==
  ASSUME IsFiniteSet(PIDs)
  PROVE  SensorSpec => []PiecesJoined
<1>1. CASE Cardinality(PIDs) <= egressMaxFlows
  <2>1. SensorInit => EgressInv  BY EgressInvInit
  <2>2. SensorInv /\ EgressInv /\ [SensorNext]_sensorVars => EgressInv'  BY <1>1, EgressInvNext
  <2>3. EgressInv => PiecesJoined  BY DEF EgressInv
  <2>. QED  BY <2>1, <2>2, <2>3, SensorInvariant, PTL DEF SensorSpec
<1>2. CASE ~(Cardinality(PIDs) <= egressMaxFlows)
  <2>1. PiecesJoined  BY <1>2 DEF PiecesJoined
  <2>. QED  BY <2>1, PTL
<1>. QED  BY <1>1, <1>2
=============================================================================
