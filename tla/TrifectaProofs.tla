--------------------------- MODULE TrifectaProofs ---------------------------
(***************************************************************************)
(* Proofs about the detection engine, for every set of sessions, tools,    *)
(* secrets and texts and every value of the caps.  All handlers go through *)
(* Install, so the argument is made once per operation on a session        *)
(* record: each preserves Good, what the inductive invariant says of one   *)
(* session, and Install lifts Good to the whole store.                     *)
(***************************************************************************)
EXTENDS Trifecta, TextProofs

(* A lit leg carries the time and the event count at which it was lit.     *)
LegsStamped(st, t) ==
  \A l \in LegNames :
    st.Legs[l].Lit => /\ st.Legs[l].LitAt \in 1..t
                      /\ st.Legs[l].EventsAtLit \in 1..st.EventCount

(* TaintRemembered for one session that was given obs and shed iff sh.     *)
Remembers(st, obs, sh) ==
  /\ ToSet(st.Tainted) \subseteq obs
  /\ ~sh => obs \subseteq ToSet(st.Tainted)

(* TaintBounded for one session.                                           *)
Bounded(st) ==
  /\ Len(st.Tainted) <= MaxTainted
  /\ Distinct(st.Tainted)

(* ExcerptsFresh for one session.                                          *)
Excerpted(st) ==
  /\ Len(st.UntrustedExcerpts) <= MaxExcerpts
  /\ st.UntrustedExcerpts # <<>> => st.Legs["untrusted_content_present"].Lit

(* SplitSecretObserved for one session.                                    *)
Reassembled(st, obs) == ExtractTaintedValues(Join(st.FragmentChunks)) \subseteq obs

Core(st, obs, sh, t) ==
  /\ st \in SessionState
  /\ LegsStamped(st, t)
  /\ Remembers(st, obs, sh)
  /\ Bounded(st)
  /\ Excerpted(st)

Good(st, obs, sh, t) == Core(st, obs, sh, t) /\ Reassembled(st, obs)

(* NoSilentExfil and ExfilJustified for a decision about a session.        *)
Sound(d, obs, sh) ==
  d.op \in {"request", "syscall"} =>
    /\ d.Allow /\ (Mode = "block" \/ d.op = "syscall") /\ ~sh => d.carries \cap obs = {}
    /\ d.Verdict = "EXFIL" => d.shares \cap obs # {}

(* The inductive invariant.                                                *)
IInv ==
  /\ TypeOK
  /\ now # 0
  /\ \A s \in Sessions : Good(state[s], observed[s], shedAny[s], now)
  /\ NoSilentExfil
  /\ ExfilJustified
-----------------------------------------------------------------------------
(* The caps are positive.                                                  *)
LEMMA Caps ==
  /\ MaxTainted \in Nat \ {0} /\ MaxExcerpts \in Nat \ {0} /\ MaxExcerptLen \in Nat \ {0}
  /\ FragmentMaxChunks \in Nat \ {0} /\ FragmentMaxBytes \in Nat \ {0}
BY ConstantsAssumption

(* Secrets and results are texts, and there are finitely many secrets.     *)
LEMMA Texts ==
  /\ SecretTexts \subseteq Seq(Atoms) \ {<<>>}
  /\ ResultTexts \subseteq Seq(Atoms)
  /\ TaintValues \subseteq Seq(Atoms)
  /\ IsFiniteSet(SecretTexts)
BY ConstantsAssumption DEF TaintValues

(* A fresh session is good and has been given nothing.                     *)
LEMMA FreshGood ==
  ASSUME NEW t \in Nat, NEW u \in Nat
  PROVE  Good(FreshSession(t), {}, FALSE, u)
<1> DEFINE st == FreshSession(t)
<1>1. st \in SessionState
  BY EmptySeq DEF FreshSession, SessionState, DarkLeg, Leg
<1>2. LegsStamped(st, u)  BY DEF LegsStamped, FreshSession, DarkLeg
<1>3. ToSet(st.Tainted) = {} /\ Len(st.Tainted) = 0 /\ DOMAIN st.Tainted = {}
  BY EmptySeq DEF FreshSession, ToSet
<1>4. Remembers(st, {}, FALSE) /\ Bounded(st)
  <2>1. 0 <= MaxTainted  BY Caps
  <2>. QED  BY <1>3, <2>1 DEF Remembers, Bounded, Distinct
<1>5. Excerpted(st)
  <2>1. 0 <= MaxExcerpts  BY Caps
  <2>2. st.UntrustedExcerpts = <<>> /\ Len(<<>>) = 0  BY EmptySeq DEF FreshSession
  <2>. QED  BY <2>1, <2>2 DEF Excerpted
<1>6. Reassembled(st, {})
  <2>1. Join(st.FragmentChunks) = <<>>  BY JoinNothing DEF FreshSession
  <2>2. \A p \in SecretTexts : ~HasText(<<>>, p)
    BY Texts, NothingInEmptyText
  <2>. QED  BY <2>1, <2>2 DEF Reassembled, ExtractTaintedValues
<1>. QED  BY <1>1, <1>2, <1>4, <1>5, <1>6 DEF Good, Core

(* What touchSession does to a session: it counts the event, decays the    *)
(* expired legs and leaves the rest alone.                                 *)
LEMMA TouchFields ==
  ASSUME NEW st \in SessionState, NEW t \in Nat
  PROVE  LET new == TouchSession(st, t)
         IN  /\ new \in SessionState
             /\ new.EventCount = st.EventCount + 1
             /\ new.Tainted = st.Tainted /\ new.Vault = st.Vault
             /\ new.FragmentChunks = st.FragmentChunks
             /\ \A l \in LegNames :
                  new.Legs[l].Lit => /\ new.Legs[l] = st.Legs[l]
                                     /\ ~Decays(st.Legs[l], st.EventCount + 1, t)
             /\ \/ new.UntrustedExcerpts = <<>>
                \/ /\ new.UntrustedExcerpts = st.UntrustedExcerpts
                   /\ new.Legs["untrusted_content_present"]
                        = st.Legs["untrusted_content_present"]
<1> DEFINE mid == [st EXCEPT !.LastActivity = t, !.EventCount = st.EventCount + 1]
           new == PruneLegs(mid, t)
<1>1. /\ mid \in SessionState
      /\ mid.EventCount = st.EventCount + 1
      /\ mid.Tainted = st.Tainted /\ mid.FragmentChunks = st.FragmentChunks
      /\ mid.Vault = st.Vault
      /\ mid.Legs = st.Legs /\ mid.UntrustedExcerpts = st.UntrustedExcerpts
  <2>1. mid \in SessionState
    <3> DEFINE n == st.EventCount + 1
    <3>1. n \in Nat  BY DEF SessionState
    <3> HIDE DEF n
    <3>2. [st EXCEPT !.LastActivity = t, !.EventCount = n] \in SessionState
      BY <3>1 DEF SessionState
    <3>. QED  BY <3>2 DEF n
  <2>2. mid.EventCount = st.EventCount + 1  BY DEF SessionState
  <2>3. /\ mid.Tainted = st.Tainted /\ mid.FragmentChunks = st.FragmentChunks
        /\ mid.Vault = st.Vault
    BY DEF SessionState
  <2>4. mid.Legs = st.Legs /\ mid.UntrustedExcerpts = st.UntrustedExcerpts  BY DEF SessionState
  <2>. QED BY <2>1, <2>2, <2>3, <2>4
<1> HIDE DEF mid
<1> DEFINE legs == [l \in LegNames |->
                      IF Decays(mid.Legs[l], mid.EventCount, t) THEN DarkLeg ELSE mid.Legs[l]]
           exc  == IF Decays(mid.Legs["untrusted_content_present"], mid.EventCount, t)
                   THEN <<>> ELSE mid.UntrustedExcerpts
<1>2. legs \in [LegNames -> Leg]
  BY <1>1 DEF SessionState, DarkLeg, Leg
<1>3. exc \in Seq(Seq(Atoms))  BY <1>1, EmptySeq DEF SessionState
<1>4. new = [mid EXCEPT !.Legs = legs, !.UntrustedExcerpts = exc]
  BY DEF PruneLegs
<1>5. \A l \in LegNames : legs[l].Lit => legs[l] = mid.Legs[l] /\ ~Decays(mid.Legs[l], mid.EventCount, t)
  BY DEF DarkLeg
<1>6. \/ exc = <<>>
      \/ /\ exc = mid.UntrustedExcerpts
         /\ legs["untrusted_content_present"] = mid.Legs["untrusted_content_present"]
  BY DEF LegNames
<1> HIDE DEF legs, exc, new
<1>7. /\ new \in SessionState
      /\ new.EventCount = mid.EventCount
      /\ new.Tainted = mid.Tainted /\ new.FragmentChunks = mid.FragmentChunks
      /\ new.Vault = mid.Vault
      /\ new.Legs = legs /\ new.UntrustedExcerpts = exc
  BY <1>1, <1>2, <1>3, <1>4 DEF SessionState
<1>8. TouchSession(st, t) = new  BY DEF TouchSession, new, mid
<1>. QED  BY <1>1, <1>5, <1>6, <1>7, <1>8

(* Touching a good session leaves it good.                                 *)
LEMMA TouchGood ==
  ASSUME NEW st, NEW obs, NEW sh, NEW t \in Nat, Good(st, obs, sh, t)
  PROVE  Good(TouchSession(st, t), obs, sh, t)
<1> DEFINE new == TouchSession(st, t)
<1>1. st \in SessionState  BY DEF Good, Core
<1>2. /\ new \in SessionState
      /\ new.EventCount = st.EventCount + 1
      /\ new.Tainted = st.Tainted
      /\ new.FragmentChunks = st.FragmentChunks
      /\ \A l \in LegNames : new.Legs[l].Lit => new.Legs[l] = st.Legs[l]
      /\ \/ new.UntrustedExcerpts = <<>>
         \/ /\ new.UntrustedExcerpts = st.UntrustedExcerpts
            /\ new.Legs["untrusted_content_present"] = st.Legs["untrusted_content_present"]
  BY <1>1, TouchFields
<1> HIDE DEF new
<1>3. st.EventCount \in Nat  BY <1>1 DEF SessionState
<1>4. LegsStamped(new, t)  BY <1>2, <1>3 DEF Good, Core, LegsStamped
<1>5. Remembers(new, obs, sh) /\ Bounded(new) /\ Reassembled(new, obs)
  BY <1>2 DEF Good, Core, Remembers, Bounded, Reassembled
<1>6. Excerpted(new)  BY <1>2, Caps, EmptySeq DEF Good, Core, Excerpted
<1>. QED  BY <1>2, <1>4, <1>5, <1>6 DEF Good, Core, new

(* Replacing the legs of a good session by stamped ones leaves it good     *)
(* when the untrusted leg does not go dark.                                *)
LEMMA RelegGood ==
  ASSUME NEW st, NEW obs, NEW sh, NEW t \in Nat, Good(st, obs, sh, t),
         NEW l \in LegNames, t # 0, st.EventCount # 0
  PROVE  LET new == [st EXCEPT !.Legs[l] = LitLeg(st, t)]
         IN  /\ Good(new, obs, sh, t)
             /\ new.EventCount = st.EventCount /\ new.Tainted = st.Tainted
             /\ new.FragmentChunks = st.FragmentChunks
             /\ new.Vault = st.Vault
             /\ new.PendingSensitiveReadPaths = st.PendingSensitiveReadPaths
             /\ new.UntrustedExcerpts = st.UntrustedExcerpts
             /\ new.Legs = [st.Legs EXCEPT ![l] = LitLeg(st, t)]
<1> DEFINE legs == [st.Legs EXCEPT ![l] = LitLeg(st, t)]
           new  == [st EXCEPT !.Legs = legs]
<1>1. st \in SessionState  BY DEF Good, Core
<1>2. st.Legs \in [LegNames -> Leg] /\ st.EventCount \in Nat  BY <1>1 DEF SessionState
<1>3. LitLeg(st, t) \in Leg  BY <1>2 DEF LitLeg, Leg
<1>4. legs \in [LegNames -> Leg]  BY <1>2, <1>3
<1>5. \A k \in LegNames : legs[k] = IF k = l THEN LitLeg(st, t) ELSE st.Legs[k]
  BY <1>2
<1> HIDE DEF legs
<1>6. /\ new \in SessionState
      /\ new.EventCount = st.EventCount /\ new.Tainted = st.Tainted
      /\ new.FragmentChunks = st.FragmentChunks
      /\ new.Vault = st.Vault
      /\ new.PendingSensitiveReadPaths = st.PendingSensitiveReadPaths
      /\ new.UntrustedExcerpts = st.UntrustedExcerpts
      /\ new.Legs = legs
  BY <1>1, <1>4 DEF SessionState
<1>7. [st EXCEPT !.Legs[l] = LitLeg(st, t)] = new
  BY <1>1 DEF SessionState, legs
<1> HIDE DEF new
<1>8. LegsStamped(new, t)
  BY <1>2, <1>5, <1>6 DEF Good, Core, LegsStamped, LitLeg
<1>9. Remembers(new, obs, sh) /\ Bounded(new) /\ Reassembled(new, obs)
  BY <1>6 DEF Good, Core, Remembers, Bounded, Reassembled
<1>10. Excerpted(new)
  BY <1>5, <1>6 DEF Good, Core, Excerpted, LitLeg, LegNames
<1>11. Good(new, obs, sh, t)  BY <1>6, <1>8, <1>9, <1>10 DEF Good, Core
<1>. QED  BY <1>6, <1>7, <1>11 DEF legs

(* The leg setters.                                                        *)
LEMMA LightGood ==
  ASSUME NEW st, NEW obs, NEW sh, NEW t \in Nat, Good(st, obs, sh, t),
         NEW l \in LegNames, t # 0, st.EventCount # 0
  PROVE  LET new == LightIfDark(st, l, t)
         IN  /\ Good(new, obs, sh, t)
             /\ new.EventCount = st.EventCount /\ new.Tainted = st.Tainted
             /\ new.FragmentChunks = st.FragmentChunks
             /\ new.Vault = st.Vault
             /\ new.PendingSensitiveReadPaths = st.PendingSensitiveReadPaths
             /\ new.UntrustedExcerpts = st.UntrustedExcerpts
             /\ new.Legs = IF st.Legs[l].Lit THEN st.Legs
                           ELSE [st.Legs EXCEPT ![l] = LitLeg(st, t)]
<1>1. CASE st.Legs[l].Lit  BY <1>1 DEF LightIfDark
<1>2. CASE ~st.Legs[l].Lit  BY <1>2, RelegGood DEF LightIfDark
<1>. QED  BY <1>1, <1>2

(* Status, confidence, vault and stashed paths do not matter to Core.      *)
LEMMA SameCore ==
  ASSUME NEW st, NEW obs, NEW sh, NEW t, Core(st, obs, sh, t),
         NEW new \in SessionState, new.EventCount = st.EventCount,
         new.Tainted = st.Tainted, new.Legs = st.Legs,
         new.UntrustedExcerpts = st.UntrustedExcerpts
  PROVE  Core(new, obs, sh, t)
BY DEF Core, LegsStamped, Remembers, Bounded, Excerpted

(* Nor to Good, when the fragment buffer is the same too.                  *)
LEMMA SameGood ==
  ASSUME NEW st, NEW obs, NEW sh, NEW t, Good(st, obs, sh, t),
         NEW new \in SessionState, new.EventCount = st.EventCount,
         new.Tainted = st.Tainted, new.Legs = st.Legs,
         new.UntrustedExcerpts = st.UntrustedExcerpts,
         new.FragmentChunks = st.FragmentChunks
  PROVE  Good(new, obs, sh, t)
BY SameCore DEF Good, Reassembled

(* Where addTainted's loop stops: it keeps a non-empty suffix within the   *)
(* cap on the number of values.                                            *)
LEMMA ShedSuffix ==
  ASSUME NEW S, NEW q \in Seq(S), q # <<>>
  PROVE  \E k \in 0..(Len(q) - 1) :
            ShedOldest(q) = DropHead(q, k) /\ Len(q) - k <= MaxTainted
<1> DEFINE fits(k) == \/ k = Len(q) - 1
                      \/ /\ Len(q) - k <= MaxTainted
                         /\ Bytes(DropHead(q, k)) <= MaxTaintedBytes
           F    == {k \in 0..(Len(q) - 1) : fits(k)}
           P(k) == fits(k) /\ \A j \in 0..(Len(q) - 1) : j < k => ~fits(j)
<1>1. Len(q) \in Nat \ {0}  BY EmptySeq
<1>2. Len(q) - 1 \in F  BY <1>1
<1>3. F \subseteq Nat  BY <1>1
<1>4. PICK n \in F : \A m \in F : ~(m < n)
  <2> HIDE DEF F
  <2>. QED  BY <1>2, <1>3, LeastNat
<1>5. \E k \in 0..(Len(q) - 1) : P(k)  BY <1>4
<1> DEFINE shed == CHOOSE k \in 0..(Len(q) - 1) : P(k)
<1>6. shed \in 0..(Len(q) - 1) /\ P(shed)  BY <1>5
<1>7. ShedOldest(q) = DropHead(q, shed)  BY DEF ShedOldest
<1> HIDE DEF shed
<1>8. Len(q) - shed <= MaxTainted  BY <1>1, <1>6, Caps
<1>. QED  BY <1>6, <1>7, <1>8

(* appendUniqueTainted returns each new candidate exactly once.            *)
LEMMA NewTaintsEnumerate ==
  ASSUME NEW st, NEW cands, IsFiniteSet(cands), NEW added \in NewTaints(st, cands)
  PROVE  LET fresh == cands \ ToSet(st.Tainted)
         IN  /\ added \in Seq(fresh)
             /\ ToSet(added) = fresh
             /\ Distinct(added)
<1> DEFINE fresh == cands \ ToSet(st.Tainted)
           n     == Cardinality(fresh)
<1>1. IsFiniteSet(fresh)  BY FS_Subset
<1>2. n \in Nat  BY <1>1, FS_CardinalityType
<1>3. /\ added \in [1..n -> fresh]
      /\ \A i, j \in 1..n : i # j => added[i] # added[j]
  BY DEF NewTaints, SetToSeqs
<1>4. added \in Seq(fresh)
  <2> HIDE DEF n, fresh
  <2>. QED  BY <1>2, <1>3
<1>5. added \in Injection(1..n, fresh)
  <2> HIDE DEF n, fresh
  <2>. QED  BY <1>3 DEF Injection, IsInjective
<1>6. Cardinality(1..n) = n
  <2> HIDE DEF n
  <2>. QED  BY <1>2, FS_Interval
<1>7. added \in Surjection(1..n, fresh)  BY <1>1, <1>5, <1>6, FS_Injection
<1>8. ToSet(added) = fresh
  <2> HIDE DEF n, fresh
  <2>. QED  BY <1>3, <1>7 DEF Surjection, ToSet
<1>9. DOMAIN added = 1..n  BY <1>3
<1>. QED  BY <1>3, <1>4, <1>8, <1>9 DEF Distinct

(* addTainted changes the taint list only.                                 *)
LEMMA AddFields ==
  ASSUME NEW st \in SessionState, NEW added
  PROVE  LET new == AddTainted(st, added)
         IN  /\ new.EventCount = st.EventCount /\ new.Legs = st.Legs
             /\ new.FragmentChunks = st.FragmentChunks /\ new.Vault = st.Vault
BY DEF AddTainted, SessionState

(* Registering candidates: the list stays bounded and free of repetitions, *)
(* and holds everything observed unless it shed something.                 *)
LEMMA AddCore ==
  ASSUME NEW st, NEW obs, NEW sh \in BOOLEAN, NEW t, Core(st, obs, sh, t),
         NEW cands, cands \subseteq TaintValues, IsFiniteSet(cands),
         NEW added \in NewTaints(st, cands)
  PROVE  LET new == AddTainted(st, added)
         IN  Core(new, obs \cup cands, sh \/ DropsTaint(st, added, new), t)
<1> DEFINE new == AddTainted(st, added)
           T   == st.Tainted
<1>1. /\ st \in SessionState /\ T \in Seq(TaintValues)
      /\ Distinct(T) /\ Remembers(st, obs, sh)
  BY DEF Core, SessionState, Bounded
<1>2. /\ added \in Seq(cands \ ToSet(T))
      /\ ToSet(added) = cands \ ToSet(T)
      /\ Distinct(added)
  BY NewTaintsEnumerate
<1>3. added \in Seq(TaintValues)  BY <1>2, SeqMonotonic
<1>4. CASE added = <<>>
  <2>1. new = st  BY <1>4 DEF AddTainted
  <2>2. cands \subseteq ToSet(T)
    <3>1. ToSet(added) = {}  BY <1>4, EmptySeq DEF ToSet
    <3>. QED  BY <1>2, <3>1
  <2>3. Remembers(st, obs \cup cands, sh)  BY <1>1, <2>2 DEF Remembers
  <2>4. ~DropsTaint(st, added, st)
    <3>1. Len(T) \in Nat /\ Len(added) = 0  BY <1>1, <1>4, EmptySeq, LenProperties
    <3>. QED  BY <3>1 DEF DropsTaint
  <2>. QED  BY <2>1, <2>3, <2>4 DEF Core
<1>5. CASE added # <<>>
  <2> DEFINE q == T \o added
  <2>1. /\ q \in Seq(TaintValues) /\ Len(q) = Len(T) + Len(added)
        /\ ToSet(q) = ToSet(T) \cup ToSet(added)
        /\ Distinct(q)
    BY <1>1, <1>2, <1>3, ConcatDistinct
  <2>2. /\ Len(T) \in Nat /\ Len(added) \in Nat \ {0}
        /\ q # <<>>
    <3>1. Len(T) \in Nat /\ Len(added) \in Nat \ {0}
      BY <1>1, <1>3, <1>5, EmptySeq, LenProperties
    <3>. QED  BY <2>1, <3>1, EmptySeq
  <2> HIDE DEF q
  <2>3. PICK k \in 0..(Len(q) - 1) :
          ShedOldest(q) = DropHead(q, k) /\ Len(q) - k <= MaxTainted
    BY <2>1, <2>2, ShedSuffix
  <2> DEFINE kept == DropHead(q, k)
  <2>4. k \in 0..Len(q)  BY <2>1, <2>2
  <2>5. /\ kept \in Seq(TaintValues) /\ Len(kept) = Len(q) - k
        /\ Distinct(kept) /\ ToSet(kept) \subseteq ToSet(q)
    BY <2>1, <2>4, DropHeadSuffix, DropHeadDistinct
  <2>6. k = 0 => kept = q  BY <2>1, DropNothing
  <2>7. new = [st EXCEPT !.Tainted = kept]  BY <1>5, <2>3 DEF AddTainted, q
  <2> HIDE DEF kept, new
  <2>8. /\ new \in SessionState /\ new.Tainted = kept
        /\ new.EventCount = st.EventCount /\ new.Legs = st.Legs
        /\ new.UntrustedExcerpts = st.UntrustedExcerpts
    BY <1>1, <2>5, <2>7 DEF SessionState
  <2>9. DropsTaint(st, added, new) <=> k # 0
    BY <2>1, <2>2, <2>4, <2>5, <2>8 DEF DropsTaint
  <2>10. Remembers(new, obs \cup cands, sh \/ DropsTaint(st, added, new))
    BY <1>1, <1>2, <2>1, <2>5, <2>6, <2>8, <2>9 DEF Remembers
  <2>11. Bounded(new)  BY <2>3, <2>5, <2>8 DEF Bounded
  <2>12. LegsStamped(new, t) /\ Excerpted(new)
    BY <2>8 DEF Core, LegsStamped, Excerpted
  <2>. QED  BY <2>8, <2>10, <2>11, <2>12 DEF Core, new
<1>. QED  BY <1>4, <1>5

(* Storing an excerpt keeps a session good while its untrusted leg is lit. *)
LEMMA StoreGood ==
  ASSUME NEW st, NEW obs, NEW sh, NEW t, Good(st, obs, sh, t),
         NEW x \in Seq(Atoms), st.Legs["untrusted_content_present"].Lit
  PROVE  Good(StoreUntrustedExcerpt(st, x), obs, sh, t)
<1>1. CASE x = <<>>  BY <1>1 DEF StoreUntrustedExcerpt
<1>2. CASE x # <<>>
  <2> DEFINE n    == IF Len(x) > MaxExcerptLen THEN MaxExcerptLen ELSE Len(x)
             ex   == SubSeq(x, 1, n)
             E    == st.UntrustedExcerpts
             kept == IF Len(E) >= MaxExcerpts THEN Tail(E) ELSE E
             all  == Append(kept, ex)
             new  == [st EXCEPT !.UntrustedExcerpts = all]
  <2>1. st \in SessionState /\ E \in Seq(Seq(Atoms)) /\ Len(E) <= MaxExcerpts /\ Len(E) \in Nat
    BY LenProperties DEF Good, Core, SessionState, Excerpted
  <2>2. ex \in Seq(Atoms)
    <3>1. n \in Nat /\ n <= Len(x) /\ Len(x) \in Nat  BY Caps, LenProperties
    <3> HIDE DEF n
    <3>2. \A i \in 1..n : x[i] \in Atoms  BY <3>1, ElementOfSeq
    <3>. QED  BY <3>1, <3>2, SubSeqProperties
  <2>3. kept \in Seq(Seq(Atoms)) /\ Len(kept) < MaxExcerpts
    <3>1. CASE Len(E) >= MaxExcerpts
      <4>1. E # <<>>  BY <3>1, Caps, EmptySeq
      <4>2. Tail(E) \in Seq(Seq(Atoms)) /\ Len(Tail(E)) = Len(E) - 1
        BY <2>1, <4>1, HeadTailProperties
      <4>. QED  BY <2>1, <3>1, <4>2, Caps
    <3>2. CASE ~(Len(E) >= MaxExcerpts)  BY <2>1, <3>2, Caps
    <3>. QED  BY <3>1, <3>2
  <2> HIDE DEF kept, ex
  <2>4. all \in Seq(Seq(Atoms)) /\ Len(all) <= MaxExcerpts
    BY <2>2, <2>3, AppendProperties, LenProperties, Caps
  <2> HIDE DEF all
  <2>5. /\ new \in SessionState /\ new.UntrustedExcerpts = all
        /\ new.Tainted = st.Tainted /\ new.EventCount = st.EventCount
        /\ new.Legs = st.Legs /\ new.FragmentChunks = st.FragmentChunks
    BY <2>1, <2>4 DEF SessionState
  <2>6. StoreUntrustedExcerpt(st, x) = new
    BY <1>2 DEF StoreUntrustedExcerpt, all, kept, ex
  <2> HIDE DEF new
  <2>7. Good(new, obs, sh, t)
    BY <2>4, <2>5 DEF Good, Core, LegsStamped, Remembers, Bounded, Excerpted, Reassembled
  <2>. QED  BY <2>6, <2>7
<1>. QED  BY <1>1, <1>2

(* The order of storing and lighting does not matter.                      *)
LEMMA StoreLightCommute ==
  ASSUME NEW st \in SessionState, NEW x, NEW t
  PROVE  LightIfDark(StoreUntrustedExcerpt(st, x), "untrusted_content_present", t)
           = StoreUntrustedExcerpt(LightIfDark(st, "untrusted_content_present", t), x)
<1> DEFINE l == "untrusted_content_present"
<1>1. CASE st.Legs[l].Lit \/ x = <<>>
  <2>1. StoreUntrustedExcerpt(st, x).Legs = st.Legs
    BY DEF StoreUntrustedExcerpt, SessionState
  <2>. QED  BY <1>1, <2>1 DEF LightIfDark, StoreUntrustedExcerpt
<1>2. CASE ~st.Legs[l].Lit /\ x # <<>>
  <2> DEFINE legs   == [st.Legs EXCEPT ![l] = LitLeg(st, t)]
             lit    == [st EXCEPT !.Legs = legs]
             ex     == SubSeq(x, 1, IF Len(x) > MaxExcerptLen THEN MaxExcerptLen ELSE Len(x))
             all    == Append(IF Len(st.UntrustedExcerpts) >= MaxExcerpts
                              THEN Tail(st.UntrustedExcerpts) ELSE st.UntrustedExcerpts, ex)
             stored == [st EXCEPT !.UntrustedExcerpts = all]
  <2>1. StoreUntrustedExcerpt(st, x) = stored  BY <1>2 DEF StoreUntrustedExcerpt
  <2>2. LightIfDark(st, l, t) = lit  BY <1>2 DEF LightIfDark, SessionState
  <2>3. LitLeg(stored, t) = LitLeg(st, t) /\ stored.Legs = st.Legs
    <3> HIDE DEF all
    <3>. QED  BY DEF LitLeg, SessionState
  <2>4. LightIfDark(stored, l, t) = [stored EXCEPT !.Legs = legs]
    <3> HIDE DEF all
    <3>. QED  BY <1>2, <2>3 DEF LightIfDark, SessionState
  <2>5. lit.UntrustedExcerpts = st.UntrustedExcerpts  BY DEF SessionState
  <2>6. StoreUntrustedExcerpt(lit, x) = [lit EXCEPT !.UntrustedExcerpts = all]
    <3> HIDE DEF lit
    <3>. QED  BY <1>2, <2>5 DEF StoreUntrustedExcerpt
  <2>7. [stored EXCEPT !.Legs = legs] = [lit EXCEPT !.UntrustedExcerpts = all]
    <3> HIDE DEF all, legs
    <3>. QED  BY DEF SessionState
  <2>. QED  BY <2>1, <2>2, <2>4, <2>6, <2>7
<1>. QED  BY <1>1, <1>2

(* Buffering a fragment only changes the buffer.                           *)
LEMMA FragmentCore ==
  ASSUME NEW st, NEW obs, NEW sh, NEW t, Core(st, obs, sh, t), NEW x \in Seq(Atoms)
  PROVE  LET new == AppendFragment(st, x)
         IN  /\ Core(new, obs, sh, t)
             /\ new.EventCount = st.EventCount /\ new.Tainted = st.Tainted
             /\ new.Legs = st.Legs /\ new.Vault = st.Vault
<1> DEFINE chunks == PushChunk(st.FragmentChunks, x, FragmentMaxChunks, FragmentMaxBytes)
           new    == [st EXCEPT !.FragmentChunks = chunks]
<1>1. st \in SessionState  BY DEF Core
<1>2. chunks \in Seq(Seq(Atoms))
  <2>1. st.FragmentChunks \in Seq(Seq(Atoms))  BY <1>1 DEF SessionState
  <2>. QED  BY <2>1, Caps, PushChunkBounded
<1> HIDE DEF chunks
<1>3. /\ new \in SessionState
      /\ new.EventCount = st.EventCount /\ new.Tainted = st.Tainted
      /\ new.Legs = st.Legs /\ new.UntrustedExcerpts = st.UntrustedExcerpts
      /\ new.Vault = st.Vault
  BY <1>1, <1>2 DEF SessionState
<1>4. AppendFragment(st, x) = new  BY DEF AppendFragment, chunks
<1> HIDE DEF new
<1>. QED  BY <1>3, <1>4, SameCore
-----------------------------------------------------------------------------
(* The session a handler works on, after touchSession.                     *)
LEMMA TouchedGood ==
  ASSUME IInv, NEW s \in Sessions
  PROVE  /\ Good(Touched(s), observed[s], shedAny[s], now)
         /\ Touched(s).EventCount \in Nat \ {0}
         /\ now \in Nat \ {0}
<1> DEFINE st == IF s \in live THEN state[s] ELSE FreshSession(now)
<1>1. now \in Nat \ {0}  BY DEF IInv, TypeOK
<1>2. Good(st, observed[s], shedAny[s], now)
  <2>1. CASE s \in live  BY <2>1 DEF IInv
  <2>2. CASE s \notin live
    <3>1. observed[s] = {} /\ shedAny[s] = FALSE  BY <2>2 DEF IInv, TypeOK
    <3>. QED  BY <1>1, <2>2, <3>1, FreshGood
  <2>. QED  BY <2>1, <2>2
<1>3. Touched(s) = TouchSession(st, now)  BY DEF Touched
<1> HIDE DEF st
<1>4. st \in SessionState /\ st.EventCount \in Nat  BY <1>2 DEF Good, Core, SessionState
<1>5. TouchSession(st, now).EventCount = st.EventCount + 1  BY <1>1, <1>4, TouchFields
<1>. QED  BY <1>1, <1>2, <1>3, <1>4, <1>5, TouchGood

(* Install lifts what a handler establishes of its session and of its      *)
(* decision to the whole store; the evicted session starts from nothing.   *)
LEMMA InstallInv ==
  ASSUME IInv, NEW s \in Sessions, NEW gone \in Evictions(s),
         NEW st, NEW obs, obs \subseteq TaintValues, NEW didShed \in BOOLEAN,
         Good(st, observed[s] \cup obs, shedAny[s] \/ didShed, now),
         NEW d \in Decision,
         d.op \in {"request", "syscall"} => d.session = s,
         Sound(d, observed[s] \cup obs, shedAny[s] \/ didShed),
         Install(s, gone, st, obs, didShed, d)
  PROVE  IInv'
<1>1. gone \subseteq live /\ s \notin gone  BY DEF Evictions, Victims
<1>2. /\ now' = now /\ cfg' = cfg /\ decision' = d
      /\ live' = (live \ gone) \cup {s}
  BY DEF Install
<1>3. st \in SessionState  BY DEF Good, Core
<1>4. /\ state \in [Sessions -> SessionState]
      /\ observed \in [Sessions -> SUBSET TaintValues]
      /\ unvaulted \in [Sessions -> SUBSET TaintValues]
      /\ shedAny \in [Sessions -> BOOLEAN]
      /\ live \subseteq Sessions /\ now \in Nat /\ now # 0 /\ cfg \in Config
  BY DEF IInv, TypeOK
<1>5. Good(FreshSession(0), {}, FALSE, now) /\ FreshSession(0) \in SessionState
  BY <1>4, FreshGood DEF Good, Core
<1>6. state' \in [Sessions -> SessionState]
  BY <1>3, <1>4, <1>5 DEF Install
<1>7. /\ observed' \in [Sessions -> SUBSET TaintValues]
      /\ unvaulted' \in [Sessions -> SUBSET TaintValues]
  <2>1. observed' \in [Sessions -> SUBSET TaintValues]  BY <1>4 DEF Install
  <2>2. unvaulted' \in [Sessions -> SUBSET TaintValues]  BY <1>4 DEF Install
  <2>. QED  BY <2>1, <2>2
<1>8. shedAny' \in [Sessions -> BOOLEAN]
  BY <1>4 DEF Install
<1>9. /\ state'[s] = st /\ observed'[s] = observed[s] \cup obs
      /\ shedAny'[s] = (shedAny[s] \/ didShed)
  BY DEF Install
<1>10. \A x \in gone : /\ state'[x] = FreshSession(0) /\ observed'[x] = {}
                       /\ unvaulted'[x] = {} /\ shedAny'[x] = FALSE
  BY <1>1, <1>4 DEF Install
<1>11. \A x \in Sessions \ (gone \cup {s}) :
         /\ state'[x] = state[x] /\ observed'[x] = observed[x]
         /\ unvaulted'[x] = unvaulted[x] /\ shedAny'[x] = shedAny[x]
  BY DEF Install
<1>12. \A x \in Sessions \ live' :
         state'[x] = FreshSession(0) /\ observed'[x] = {} /\ unvaulted'[x] = {} /\ ~shedAny'[x]
  <2>1. \A x \in Sessions \ live :
          state[x] = FreshSession(0) /\ observed[x] = {} /\ unvaulted[x] = {} /\ ~shedAny[x]
    BY DEF IInv, TypeOK
  <2>. QED  BY <1>2, <1>10, <1>11, <2>1
<1>13. TypeOK'
  <2>1. (\A x \in Sessions \ live :
           state[x] = FreshSession(0) /\ observed[x] = {} /\ unvaulted[x] = {} /\ ~shedAny[x])'
    BY <1>12 DEF FreshSession, DarkLeg, LegNames
  <2>. QED  BY <1>1, <1>2, <1>4, <1>6, <1>7, <1>8, <2>1 DEF TypeOK
<1>14. \A x \in Sessions : Good(state'[x], observed'[x], shedAny'[x], now')
  <2>1. Good(state'[s], observed'[s], shedAny'[s], now')  BY <1>2, <1>9
  <2>2. \A x \in gone : Good(state'[x], observed'[x], shedAny'[x], now')
    BY <1>2, <1>5, <1>10
  <2>3. \A x \in Sessions \ (gone \cup {s}) : Good(state'[x], observed'[x], shedAny'[x], now')
    BY <1>2, <1>11 DEF IInv
  <2>. QED  BY <2>1, <2>2, <2>3
<1>15. NoSilentExfil' /\ ExfilJustified'
  BY <1>2, <1>9 DEF Sound, NoSilentExfil, ExfilJustified
<1>. QED  BY <1>2, <1>4, <1>13, <1>14, <1>15 DEF IInv
-----------------------------------------------------------------------------
(* The run of m elements from place a on.                                  *)
LEMMA RunOf ==
  ASSUME NEW S, NEW s \in Seq(S), NEW a \in Nat \ {0}, NEW m \in Nat \ {0}, a + m - 1 <= Len(s)
  PROVE  /\ SubSeq(s, a, a + m - 1) \in Seq(S) /\ Len(SubSeq(s, a, a + m - 1)) = m
         /\ \A j \in 1..m : SubSeq(s, a, a + m - 1)[j] = s[a + j - 1]
<1> DEFINE z == a + m - 1
<1>1. z \in Int /\ a \in Int /\ a <= z /\ z - a + 1 = m /\ z <= Len(s)  OBVIOUS
<1> HIDE DEF z
<1>2. Len(s) \in Nat /\ \A j \in 1..Len(s) : s[j] \in S  BY LenProperties, ElementOfSeq
<1>3. \A j \in a..z : s[j] \in S  BY <1>1, <1>2
<1>4. /\ SubSeq(s, a, z) \in Seq(S) /\ Len(SubSeq(s, a, z)) = IF a <= z THEN z - a + 1 ELSE 0
      /\ \A j \in 1..(z - a + 1) : SubSeq(s, a, z)[j] = s[a + j - 1]
  BY <1>1, <1>3, SubSeqProperties
<1>5. /\ SubSeq(s, a, z) \in Seq(S) /\ Len(SubSeq(s, a, z)) = m
      /\ \A j \in 1..m : SubSeq(s, a, z)[j] = s[a + j - 1]
  BY <1>1, <1>4
<1>. QED  BY <1>5 DEF z

(* A chunk is a run of the value it was cut from, and a distinctive one.   *)
LEMMA ChunkIsRun ==
  ASSUME NEW v \in TaintValues, NEW c \in ContiguousChunks(v), NEW x, HasText(x, c)
  PROVE  SharesRun(x, v)
<1> DEFINE n    == ChunkMatchBytes
           L    == Len(v)
           lo   == BodyBounds(v)[1]
           hi   == BodyBounds(v)[2]
           body == SubSeq(v, lo, hi)
<1>1. /\ v \in Seq(Atoms) /\ L \in Nat /\ DOMAIN v = 1..L /\ n \in Nat \ {0}
      /\ \A i \in 1..L : v[i] \in Atoms
  BY Texts, ConstantsAssumption, LenProperties, ElementOfSeq
<1>2. lo \in Nat \ {0} /\ hi \in Nat /\ lo <= hi + 1 /\ hi <= L
  <2>1. CASE PemInterior(v) # {}
    <3> DEFINE y == CHOOSE y \in PemInterior(v) : TRUE
    <3>1. y \in PemInterior(v)  BY <2>1
    <3>2. BodyBounds(v) = <<y[1] + 1, y[2] - 1>>  BY <2>1 DEF BodyBounds
    <3> HIDE DEF y
    <3>3. y[1] \in 1..L /\ y[2] \in 1..L /\ y[1] + 1 < y[2]
      BY <1>1, <3>1 DEF PemInterior
    <3>4. lo = y[1] + 1 /\ hi = y[2] - 1  BY <3>2
    <3> HIDE DEF lo, hi
    <3>. QED  BY <1>1, <3>3, <3>4
  <2>2. CASE PemInterior(v) = {}
    <3>1. (BodyBounds(v) = <<2, L>> /\ L > 1) \/ BodyBounds(v) = <<1, L>>
      BY <2>2 DEF BodyBounds
    <3>2. (lo = 2 /\ hi = L /\ L > 1) \/ (lo = 1 /\ hi = L)  BY <3>1
    <3> HIDE DEF lo, hi
    <3>. QED  BY <1>1, <3>2
  <2>. QED  BY <2>1, <2>2
<1>3. /\ body \in Seq(Atoms) /\ Len(body) = hi - lo + 1
      /\ \A i \in 1..(hi - lo + 1) : body[i] = v[lo + i - 1]
  <2> HIDE DEF lo, hi
  <2>1. \A i \in lo..hi : v[i] \in Atoms  BY <1>1, <1>2
  <2>2. /\ SubSeq(v, lo, hi) \in Seq(Atoms)
        /\ Len(SubSeq(v, lo, hi)) = IF lo <= hi THEN hi - lo + 1 ELSE 0
        /\ \A i \in 1..(hi - lo + 1) : SubSeq(v, lo, hi)[i] = v[lo + i - 1]
    BY <1>2, <2>1, SubSeqProperties
  <2>. QED  BY <1>2, <2>2
<1>4. /\ L >= ChunkMatchMinLen /\ c \notin LowEntropy
      /\ \E k \in 0..(Len(body) - n) : c = SubSeq(body, k + 1, k + n)
  <2>1. ~(L < ChunkMatchMinLen) /\ c \in Windows(ChunkableBody(v)) \ LowEntropy
    BY DEF ContiguousChunks
  <2>2. ChunkableBody(v) = body  BY DEF ChunkableBody
  <2>3. ChunkMatchMinLen \in Nat  BY ConstantsAssumption
  <2>4. c \in Windows(body)  BY <2>1, <2>2
  <2> HIDE DEF body
  <2>5. \E k \in 0..(Len(body) - n) : c = SubSeq(body, k + 1, k + n)  BY <2>4 DEF Windows
  <2>6. L >= ChunkMatchMinLen  BY <1>1, <2>1, <2>3
  <2>. QED  BY <2>1, <2>5, <2>6
<1>5. PICK k \in 0..(Len(body) - n) : c = SubSeq(body, k + 1, k + n)  BY <1>4
<1> HIDE DEF lo, hi, body
<1> DEFINE i == lo + k
           w == SubSeq(v, i, i + n - 1)
<1>6. /\ k \in Nat /\ k + n <= hi - lo + 1 /\ i \in 1..(L - n + 1)
      /\ i \in Nat /\ i >= lo /\ i + n - 1 <= hi /\ i + n - 1 \in Nat
      /\ \A j \in 1..n : k + j \in 1..(hi - lo + 1) /\ lo + (k + j) - 1 = i + j - 1
  BY <1>1, <1>2, <1>3, <1>5
<1>7. /\ c \in Seq(Atoms) /\ Len(c) = n /\ \A j \in 1..n : c[j] = v[i + j - 1]
  <2>1. /\ k + 1 \in Nat \ {0} /\ k + 1 + n - 1 = k + n /\ k + 1 + n - 1 <= Len(body)
        /\ \A j \in 1..n : k + 1 + j - 1 = k + j
    BY <1>1, <1>2, <1>3, <1>6
  <2>2. /\ c \in Seq(Atoms) /\ Len(c) = n /\ \A j \in 1..n : c[j] = body[k + 1 + j - 1]
    <3> DEFINE a == k + 1
    <3>1. a \in Nat \ {0} /\ a + n - 1 <= Len(body)  BY <2>1
    <3>2. c = SubSeq(body, a, a + n - 1)  BY <1>5, <2>1
    <3> HIDE DEF a
    <3>3. /\ SubSeq(body, a, a + n - 1) \in Seq(Atoms) /\ Len(SubSeq(body, a, a + n - 1)) = n
          /\ \A j \in 1..n : SubSeq(body, a, a + n - 1)[j] = body[a + j - 1]
      BY <1>1, <1>3, <3>1, RunOf
    <3>4. c \in Seq(Atoms) /\ Len(c) = n /\ \A j \in 1..n : c[j] = body[a + j - 1]
      BY <3>2, <3>3
    <3>. QED  BY <3>4 DEF a
  <2>3. ASSUME NEW j \in 1..n PROVE c[j] = v[i + j - 1]
    <3>1. c[j] = body[k + j]  BY <2>1, <2>2
    <3>2. body[k + j] = v[lo + (k + j) - 1]  BY <1>3, <1>6
    <3>. QED  BY <1>6, <3>1, <3>2
  <2>. QED  BY <2>2, <2>3
<1>8. w = c
  <2>1. i \in Nat \ {0} /\ i + n - 1 <= Len(v)  BY <1>1, <1>2, <1>6
  <2> HIDE DEF i
  <2>2. w \in Seq(Atoms) /\ Len(w) = n /\ \A j \in 1..n : w[j] = v[i + j - 1]
    BY <1>1, <2>1, RunOf
  <2> HIDE DEF w
  <2>3. \A j \in 1..n : w[j] = c[j]  BY <1>7, <2>2
  <2>. QED  BY <1>7, <2>2, <2>3, SeqEqual
<1>9. OnePemBlock(v) => ToSet(c) \cap (Armour.begin \cup Armour.end) = {}
  <2> SUFFICES ASSUME OnePemBlock(v), NEW a \in ToSet(c), a \in Armour.begin \cup Armour.end
               PROVE  FALSE
    OBVIOUS
  <2>1. PICK b \in 1..L, e \in 1..L :
          /\ v[b] \in Armour.begin /\ v[e] \in Armour.end /\ b + 1 < e
          /\ \A m \in (1..L) \ {b, e} : v[m] \notin Armour.begin \cup Armour.end
    BY <1>1 DEF OnePemBlock
  <2>2. \A m \in 1..L : /\ v[m] \in Armour.begin => b <= m
                        /\ v[m] \in Armour.end => m <= e
    BY <1>1, <2>1
  <2>3. <<b, e>> \in PemInterior(v)
    BY <1>1, <2>1, <2>2 DEF PemInterior
  <2> DEFINE y == CHOOSE y \in PemInterior(v) : TRUE
  <2>4. y \in PemInterior(v)  BY <2>3
  <2>5. lo = y[1] + 1 /\ hi = y[2] - 1
    <3>1. BodyBounds(v) = <<y[1] + 1, y[2] - 1>>  BY <2>3 DEF BodyBounds
    <3> HIDE DEF y
    <3>. QED  BY <3>1 DEF lo, hi
  <2> HIDE DEF y
  <2>6. /\ y[1] \in 1..L /\ y[2] \in 1..L /\ v[y[1]] \in Armour.begin /\ v[y[2]] \in Armour.end
        /\ \A m \in 1..L : /\ v[m] \in Armour.begin => y[1] <= m
                           /\ v[m] \in Armour.end => m <= y[2]
    BY <1>1, <2>4 DEF PemInterior
  <2>7. y[1] = b /\ y[2] = e
    <3>1. y[1] <= b /\ e <= y[2] /\ b <= y[1] /\ y[2] <= e  BY <2>1, <2>2, <2>6
    <3>. QED  BY <1>1, <2>1, <2>6, <3>1
  <2>8. PICK j \in 1..n : a = v[i + j - 1]
    <3>1. DOMAIN c = 1..n  BY <1>7, LenProperties
    <3>2. PICK j \in 1..n : a = c[j]  BY <3>1 DEF ToSet
    <3>. QED  BY <1>7, <3>2
  <2>9. i + j - 1 \in 1..L /\ i + j - 1 # b /\ i + j - 1 # e
    BY <1>1, <1>2, <1>6, <2>1, <2>5, <2>7
  <2>. QED  BY <2>1, <2>8, <2>9
<1>. QED  BY <1>4, <1>6, <1>8, <1>9 DEF SharesRun, Distinctive

(* What the scan hits shows a value, or a distinctive run of one.          *)
LEMMA MatchIsShared ==
  ASSUME NEW x, NEW v \in TaintValues, MatchTaintedValue(x, v)
  PROVE  v \in Shared(x)
BY ChunkIsRun DEF MatchTaintedValue, Shared

(* The scan is exact: it hits only values the session was given, and       *)
(* misses none of them unless the list has shed some.                      *)
LEMMA OverlapExact ==
  ASSUME NEW st, NEW obs, obs \subseteq TaintValues, NEW sh \in BOOLEAN, NEW t,
         Good(st, obs, sh, t), NEW x
  PROVE  /\ CheckOverlap(st, x) => Shared(x) \cap obs # {}
         /\ ~sh /\ ~CheckOverlap(st, x) => Carried(x) \cap obs = {}
<1>1. Remembers(st, obs, sh)  BY DEF Good, Core
<1>2. CheckOverlap(st, x) <=> \E v \in ToSet(st.Tainted) : MatchTaintedValue(x, v)
  BY DEF CheckOverlap, ToSet
<1>3. ASSUME CheckOverlap(st, x) PROVE Shared(x) \cap obs # {}
  <2>1. PICK v \in ToSet(st.Tainted) : MatchTaintedValue(x, v)  BY <1>2, <1>3
  <2>2. v \in obs /\ v \in TaintValues  BY <1>1 DEF Remembers
  <2>. QED  BY <2>1, <2>2, MatchIsShared
<1>4. ASSUME ~sh, ~CheckOverlap(st, x) PROVE Carried(x) \cap obs = {}
  BY <1>1, <1>2, <1>4 DEF Remembers, Carried
<1>. QED  BY <1>3, <1>4

(* Nothing is carried by an empty text.                                    *)
LEMMA EmptyCarriesNothing == Carried(<<>>) = {}
BY DEF Carried, MatchTaintedValue

(* EXFIL is the verdict exactly when the scan hit.                         *)
LEMMA ClassifyExact ==
  ASSUME NEW st, NEW overlap \in BOOLEAN, NEW x, NEW chan, NEW abort
  PROVE  LET v == ClassifyTrip(st, overlap, x, chan, abort)
         IN  v \in Verdicts /\ (v = "EXFIL" <=> overlap)
BY DEF ClassifyTrip, Verdicts

(* A trip changes the status and the confidence only.                      *)
LEMMA TripGood ==
  ASSUME NEW st, NEW obs, NEW sh, NEW t, Good(st, obs, sh, t), NEW v
  PROVE  Good(Trip(st, v), obs, sh, t)
<1> DEFINE c   == ConfidenceOf(v)
           new == [st EXCEPT !.Status = "tripped", !.Confidence = c]
<1>1. CASE v = ""  BY <1>1 DEF Trip
<1>2. CASE v # ""
  <2>1. st \in SessionState  BY DEF Good, Core
  <2>2. c \in {0, 60, 95}  BY DEF ConfidenceOf
  <2>3. Trip(st, v) = new  BY <1>2 DEF Trip
  <2> HIDE DEF c
  <2>4. /\ new \in SessionState /\ new.EventCount = st.EventCount
        /\ new.Tainted = st.Tainted /\ new.Legs = st.Legs
        /\ new.UntrustedExcerpts = st.UntrustedExcerpts
        /\ new.FragmentChunks = st.FragmentChunks
    BY <2>1, <2>2 DEF SessionState
  <2> HIDE DEF new
  <2>. QED  BY <2>3, <2>4, SameGood
<1>. QED  BY <1>1, <1>2

(* A step that keeps every session and reports about none of them.         *)
LEMMA NoDecisionSound ==
  /\ NoDecision \in Decision
  /\ NoDecision.op = "none"
  /\ \A obs, sh : Sound(NoDecision, obs, sh)
BY DEF NoDecision, Decision, Verdicts, Actions, Sound

-----------------------------------------------------------------------------
(* One lemma per handler: it keeps the invariant.                          *)

(* EvaluateRequest on an external sink keeps the invariant.                *)
LEMMA SinkInv ==
  ASSUME IInv, NEW s \in Sessions, NEW gone \in Evictions(s),
         NEW st, Good(st, observed[s], shedAny[s], now), st.EventCount # 0,
         NEW tool, NEW args, NEW abort \in BOOLEAN,
         EvaluateSink(s, st, gone, tool, args, abort)
  PROVE  IInv'
<1> DEFINE st1     == LightIfDark(st, "external_sink_invoked", now)
           scanned == Scanned(st1, tool, args)
           overlap == CheckOverlap(st1, scanned)
           v       == ClassifyTrip(st1, overlap, scanned, TRUE, abort /\ ~overlap)
           act     == ProxyAction(v)
           allow   == v = "" \/ act.Allow
           action  == IF v = "" THEN "" ELSE act.Action
           c       == Carried(ForwardArgs(st1, tool, args))
           h       == Shared(ForwardArgs(st1, tool, args))
           d       == [NoDecision EXCEPT !.op = "request", !.session = s, !.Allow = allow,
                         !.Verdict = v, !.Action = action, !.evidence = v # "",
                         !.carries = c, !.shares = h]
<1>1. Install(s, gone, Trip(st1, v), {}, FALSE, d)  BY DEF EvaluateSink
<1>2. /\ now \in Nat \ {0} /\ observed[s] \subseteq TaintValues /\ shedAny[s] \in BOOLEAN
  BY DEF IInv, TypeOK
<1>3. Good(st1, observed[s], shedAny[s], now)
  BY <1>2, LightGood DEF LegNames
<1> HIDE DEF st1
<1>4. overlap \in BOOLEAN  BY DEF CheckOverlap
<1>5. /\ overlap => Shared(scanned) \cap observed[s] # {}
      /\ ~shedAny[s] /\ ~overlap => Carried(scanned) \cap observed[s] = {}
  BY <1>2, <1>3, OverlapExact
<1>9. Carried(scanned) = c /\ Shared(scanned) = h  BY DEF Scanned
<1> HIDE DEF scanned, overlap
<1>6. v \in Verdicts /\ (v = "EXFIL" <=> overlap)  BY <1>4, ClassifyExact
<1> HIDE DEF v
<1>7. allow \in BOOLEAN /\ action \in Actions
  BY DEF ProxyAction, Actions
<1>8. allow /\ Mode = "block" => ~overlap
  BY <1>6 DEF ProxyAction
<1> HIDE DEF allow, action
<1>10. c \subseteq TaintValues /\ h \subseteq TaintValues  BY DEF Carried, Shared
<1>11. d \in Decision /\ d.session = s /\ Sound(d, observed[s], shedAny[s])
  <2>1. overlap => h \cap observed[s] # {}  BY <1>5, <1>9
  <2>2. ~shedAny[s] /\ ~overlap => c \cap observed[s] = {}  BY <1>5, <1>9
  <2> HIDE DEF c, h
  <2>3. d \in Decision
    BY <1>6, <1>7, <1>10 DEF NoDecision, Decision
  <2>4. /\ d.session = s /\ d.op = "request" /\ d.Allow = allow
        /\ d.Verdict = v /\ d.carries = c /\ d.shares = h
    BY DEF NoDecision
  <2> HIDE DEF d
  <2>. QED  BY <1>6, <1>8, <2>1, <2>2, <2>3, <2>4 DEF Sound
<1> HIDE DEF d
<1>12. Good(Trip(st1, v), observed[s], shedAny[s], now)  BY <1>3, TripGood
<1>13. observed[s] \cup {} = observed[s] /\ (shedAny[s] \/ FALSE) = shedAny[s]
  BY <1>2
<1>. QED  BY <1>1, <1>11, <1>12, <1>13, InstallInv

(* The verdict on a syscall, beside the proxy or in the sensor, keeps the  *)
(* invariant.                                                              *)
LEMMA VariantBInv ==
  ASSUME IInv, NEW s \in Sessions, NEW gone \in Evictions(s),
         NEW st, Good(st, observed[s], shedAny[s], now),
         NEW payload, NEW window, NEW scans \in BOOLEAN, NEW chan, NEW abort,
         LET overlap == scans /\ CheckOverlap(st, window)
         IN  FinishVariantB(s, st, gone, payload, IF scans THEN window ELSE <<>>,
               ClassifyTrip(st, overlap, payload, chan, abort))
  PROVE  IInv'
<1> DEFINE overlap == scans /\ CheckOverlap(st, window)
           w       == IF scans THEN window ELSE <<>>
           v       == ClassifyTrip(st, overlap, payload, chan, abort)
           act     == VariantBAction(v)
           allow   == v = "" \/ act.Allow
           action  == IF v = "" THEN "" ELSE act.Action
           c       == Carried(w)
           h       == Shared(w)
           d       == [NoDecision EXCEPT !.op = "syscall", !.session = s, !.Allow = allow,
                         !.Verdict = v, !.Action = action, !.evidence = v # "",
                         !.carries = c, !.shares = h]
<1>1. Install(s, gone, Trip(st, v), {}, FALSE, d)  BY DEF FinishVariantB
<1>2. /\ observed[s] \subseteq TaintValues /\ shedAny[s] \in BOOLEAN
  BY DEF IInv, TypeOK
<1>3. overlap \in BOOLEAN  BY DEF CheckOverlap
<1>4. /\ overlap => Shared(w) \cap observed[s] # {}
      /\ ~shedAny[s] /\ ~overlap => Carried(w) \cap observed[s] = {}
  BY <1>2, OverlapExact, EmptyCarriesNothing
<1> HIDE DEF overlap, w
<1>5. v \in Verdicts /\ (v = "EXFIL" <=> overlap)  BY <1>3, ClassifyExact
<1> HIDE DEF v
<1>6. allow \in BOOLEAN /\ action \in Actions /\ (allow => ~overlap)
  BY <1>5 DEF VariantBAction, Actions
<1> HIDE DEF allow, action
<1>8. c \subseteq TaintValues /\ h \subseteq TaintValues  BY DEF Carried, Shared
<1>9. d \in Decision /\ d.session = s /\ Sound(d, observed[s], shedAny[s])
  <2>1. overlap => h \cap observed[s] # {}  BY <1>4
  <2>2. ~shedAny[s] /\ ~overlap => c \cap observed[s] = {}  BY <1>4
  <2> HIDE DEF c, h
  <2>3. d \in Decision
    BY <1>5, <1>6, <1>8 DEF NoDecision, Decision
  <2>4. /\ d.session = s /\ d.op = "syscall" /\ d.Allow = allow
        /\ d.Verdict = v /\ d.carries = c /\ d.shares = h
    BY DEF NoDecision
  <2> HIDE DEF d
  <2>. QED  BY <1>5, <1>6, <2>1, <2>2, <2>3, <2>4 DEF Sound
<1> HIDE DEF d
<1>10. Good(Trip(st, v), observed[s], shedAny[s], now)  BY TripGood
<1>11. observed[s] \cup {} = observed[s] /\ (shedAny[s] \/ FALSE) = shedAny[s]
  BY <1>2
<1>. QED  BY <1>1, <1>9, <1>10, <1>11, InstallInv

(* Handlers that register nothing and decide nothing.                      *)
LEMMA QuietInv ==
  ASSUME IInv, NEW s \in Sessions, NEW gone \in Evictions(s),
         NEW st, Good(st, observed[s], shedAny[s], now),
         Install(s, gone, st, {}, FALSE, NoDecision)
  PROVE  IInv'
<1>1. shedAny[s] \in BOOLEAN  BY DEF IInv, TypeOK
<1>2. observed[s] \cup {} = observed[s] /\ (shedAny[s] \/ FALSE) = shedAny[s]  BY <1>1
<1>. QED  BY <1>2, NoDecisionSound, InstallInv

(* Handlers that register candidates and decide nothing.                   *)
LEMMA TaintInv ==
  ASSUME IInv, NEW s \in Sessions, NEW gone \in Evictions(s),
         NEW st, Good(st, observed[s], shedAny[s], now),
         NEW cands, cands \subseteq TaintValues, IsFiniteSet(cands),
         NEW added \in NewTaints(st, cands),
         LET st1 == AddTainted(st, added)
         IN  Install(s, gone, st1, cands, DropsTaint(st, added, st1), NoDecision)
  PROVE  IInv'
<1> DEFINE st1  == AddTainted(st, added)
           drop == DropsTaint(st, added, st1)
           sh   == shedAny[s]
           obs  == observed[s]
<1>1. sh \in BOOLEAN /\ drop \in BOOLEAN  BY DEF IInv, TypeOK, DropsTaint
<1>2. Core(st, obs, sh, now)  BY DEF Good
<1>3. /\ Core(st1, obs \cup cands, sh \/ drop, now)
      /\ st1.FragmentChunks = st.FragmentChunks
  <2>1. st \in SessionState  BY DEF Good, Core
  <2>2. st1.FragmentChunks = st.FragmentChunks  BY <2>1, AddFields
  <2> HIDE DEF sh, obs
  <2>. QED  BY <1>1, <1>2, <2>2, AddCore
<1> HIDE DEF st1, drop
<1>4. Good(st1, observed[s] \cup cands, shedAny[s] \/ drop, now)
  BY <1>3 DEF Good, Reassembled
<1>5. Install(s, gone, st1, cands, drop, NoDecision)  BY DEF st1, drop
<1>. QED  BY <1>1, <1>4, <1>5, NoDecisionSound, InstallInv

(* Every candidate set a handler registers is a finite set of values.      *)
LEMMA CandidatesFinite ==
  ASSUME NEW st, NEW x \in ResultTexts, NEW path \in BOOLEAN
  PROVE  /\ Candidates(st, x, path) \subseteq TaintValues
         /\ IsFiniteSet(Candidates(st, x, path))
         /\ ExtractTaintedValues(x) \subseteq SecretTexts
         /\ IsFiniteSet(ExtractTaintedValues(x))
         /\ IsFiniteSet({x}) /\ IsFiniteSet({})
<1>1. /\ ExtractTaintedValues(x) \subseteq SecretTexts
      /\ ExtractTaintedValues(Join(st.FragmentChunks)) \subseteq SecretTexts
  BY DEF ExtractTaintedValues
<1>2. Candidates(st, x, path) \subseteq SecretTexts \cup {x}
  BY <1>1 DEF Candidates
<1>3. IsFiniteSet({x}) /\ IsFiniteSet({})  BY FS_Singleton, FS_EmptySet
<1>4. IsFiniteSet(SecretTexts \cup {x})  BY <1>3, Texts, FS_Union
<1>5. IsFiniteSet(Candidates(st, x, path))  BY <1>2, <1>4, FS_Subset
<1>6. IsFiniteSet(ExtractTaintedValues(x))  BY <1>1, Texts, FS_Subset
<1>. QED  BY <1>1, <1>2, <1>3, <1>5, <1>6 DEF TaintValues

(* IngestResult of a sensitive source.                                     *)
LEMMA SensitiveInv ==
  ASSUME IInv, NEW s \in Sessions, NEW gone \in Evictions(s),
         NEW tool, NEW x \in ResultTexts, IngestSensitive(s, tool, x, gone)
  PROVE  IInv'
<1> DEFINE obs   == observed[s]
           sh    == shedAny[s]
           st0   == LightIfDark(Touched(s), "sensitive_source_touched", now)
           path  == tool \in st0.PendingSensitiveReadPaths /\ x # <<>>
           st1   == [st0 EXCEPT !.PendingSensitiveReadPaths = @ \ {tool}]
           st2   == IF x = <<>> THEN st1 ELSE AppendFragment(st1, x)
           cands == Candidates(st2, x, path)
<1>1. PICK added \in NewTaints(st2, cands) :
        LET st3 == VaultMint(AddTainted(st2, added), added)
        IN  Install(s, gone, st3, cands, DropsTaint(st2, added, st3),
              [NoDecision EXCEPT !.op = "deliver", !.session = s,
                 !.visible = LeftVisible(st3, x)])
  BY DEF IngestSensitive
<1> DEFINE mid  == AddTainted(st2, added)
           st3  == VaultMint(mid, added)
           drop == DropsTaint(st2, added, st3)
           vis  == LeftVisible(st3, x)
           d    == [NoDecision EXCEPT !.op = "deliver", !.session = s, !.visible = vis]
<1>2. Install(s, gone, st3, cands, drop, d)  BY <1>1
<1>3. sh \in BOOLEAN /\ x \in Seq(Atoms)  BY Texts DEF IInv, TypeOK
<1>4. Good(st0, obs, sh, now)  BY TouchedGood, LightGood DEF LegNames
<1> HIDE DEF st0
<1>5. st0 \in SessionState  BY <1>4 DEF Good, Core
<1>6. Good(st1, obs, sh, now)
  <2>1. /\ st1 \in SessionState /\ st1.EventCount = st0.EventCount
        /\ st1.Tainted = st0.Tainted /\ st1.Legs = st0.Legs
        /\ st1.UntrustedExcerpts = st0.UntrustedExcerpts
        /\ st1.FragmentChunks = st0.FragmentChunks
    BY <1>5 DEF SessionState
  <2> HIDE DEF st1
  <2>. QED  BY <1>4, <2>1, SameGood
<1> HIDE DEF st1
<1>7. Core(st2, obs, sh, now) /\ (x = <<>> => st2 = st1)
  <2>1. Core(st1, obs, sh, now)  BY <1>6 DEF Good
  <2>. QED  BY <1>3, <2>1, FragmentCore
<1> HIDE DEF st2
<1>8. /\ cands \subseteq TaintValues /\ IsFiniteSet(cands)
  BY CandidatesFinite
<1>9. Reassembled(st2, obs \cup cands)
  <2>1. CASE x = <<>>  BY <1>6, <1>7, <2>1 DEF Good, Reassembled
  <2>2. CASE x # <<>>  BY <2>2 DEF Reassembled, Candidates
  <2>. QED  BY <2>1, <2>2
<1> HIDE DEF cands
<1>10. st2 \in SessionState  BY <1>7 DEF Core
<1>11. Core(mid, obs \cup cands, sh \/ DropsTaint(st2, added, mid), now)
  <2> HIDE DEF obs, sh
  <2>. QED  BY <1>3, <1>7, <1>8, AddCore
<1>12. mid.FragmentChunks = st2.FragmentChunks  BY <1>10, AddFields
<1>13. ToSet(added) \subseteq TaintValues
  <2>1. ToSet(added) = cands \ ToSet(st2.Tainted)  BY <1>8, NewTaintsEnumerate
  <2>. QED  BY <1>8, <2>1
<1> HIDE DEF mid
<1>14. mid \in SessionState  BY <1>11 DEF Core
<1>15. /\ st3 \in SessionState /\ st3.EventCount = mid.EventCount
       /\ st3.Tainted = mid.Tainted /\ st3.Legs = mid.Legs
       /\ st3.UntrustedExcerpts = mid.UntrustedExcerpts
       /\ st3.FragmentChunks = mid.FragmentChunks
  <2> DEFINE vault == mid.Vault \cup ToSet(added)
  <2>1. vault \in SUBSET TaintValues  BY <1>13, <1>14 DEF SessionState
  <2>2. st3 = IF cfg.vaultEnabled THEN [mid EXCEPT !.Vault = vault] ELSE mid
    BY DEF VaultMint
  <2> HIDE DEF vault, st3
  <2>. QED  BY <1>14, <2>1, <2>2 DEF SessionState
<1> HIDE DEF st3
<1>16. drop = DropsTaint(st2, added, mid) /\ drop \in BOOLEAN  BY <1>15 DEF DropsTaint
<1>17. Core(st3, obs \cup cands, sh \/ drop, now)
  <2> HIDE DEF obs, sh, drop
  <2>. QED  BY <1>11, <1>15, <1>16, SameCore
<1>18. Good(st3, obs \cup cands, sh \/ drop, now)
  BY <1>9, <1>12, <1>15, <1>17 DEF Good, Reassembled
<1> HIDE DEF drop
<1>19. d \in Decision /\ d.op = "deliver"
  <2>1. vis \subseteq SecretTexts  BY CandidatesFinite DEF LeftVisible
  <2> HIDE DEF vis
  <2>. QED  BY <2>1 DEF NoDecision, Decision, Verdicts, Actions
<1> HIDE DEF d
<1>20. Sound(d, obs \cup cands, sh \/ drop)  BY <1>19 DEF Sound
<1>. QED  BY <1>2, <1>8, <1>16, <1>18, <1>19, <1>20, InstallInv

(* Results keep the invariant.                                             *)
LEMMA ResultInv == IInv /\ Result => IInv'
<1> SUFFICES ASSUME IInv, NEW s \in Sessions, NEW tool \in Tools, NEW x \in ResultTexts,
                    IngestResult(s, tool, x)
             PROVE  IInv'
  BY DEF Result
<1>1. PICK gone \in Evictions(s) : \/ IngestSensitive(s, tool, x, gone)
                                  \/ IngestUntrusted(s, x, gone)
  BY DEF IngestResult
<1>2. CASE IngestSensitive(s, tool, x, gone)  BY <1>2, SensitiveInv
<1>3. CASE IngestUntrusted(s, x, gone)
  <2> DEFINE l   == "untrusted_content_present"
             st0 == Touched(s)
             lit == LightIfDark(st0, l, now)
             st1 == IF cfg.untrustedToolResults
                    THEN LightIfDark(StoreUntrustedExcerpt(st0, x), l, now) ELSE st0
             vis == LeftVisible(st1, x)
             d   == [NoDecision EXCEPT !.op = "deliver", !.session = s, !.visible = vis]
  <2>1. Install(s, gone, st1, {}, FALSE, d)  BY <1>3 DEF IngestUntrusted
  <2>2. /\ Good(st0, observed[s], shedAny[s], now) /\ st0.EventCount \in Nat \ {0}
        /\ now \in Nat \ {0}
    BY TouchedGood
  <2> HIDE DEF st0
  <2>3. st0 \in SessionState  BY <2>2 DEF Good, Core
  <2>4. Good(lit, observed[s], shedAny[s], now) /\ lit.Legs[l].Lit
    <3>1. Good(lit, observed[s], shedAny[s], now)  BY <2>2, LightGood DEF LegNames
    <3>2. lit.Legs[l].Lit  BY <2>3 DEF LightIfDark, LitLeg, SessionState, LegNames
    <3>. QED  BY <3>1, <3>2
  <2>5. LightIfDark(StoreUntrustedExcerpt(st0, x), l, now) = StoreUntrustedExcerpt(lit, x)
    BY <2>3, StoreLightCommute
  <2>6. x \in Seq(Atoms)  BY Texts
  <2> HIDE DEF lit
  <2>7. Good(StoreUntrustedExcerpt(lit, x), observed[s], shedAny[s], now)
    BY <2>4, <2>6, StoreGood
  <2>8. Good(st1, observed[s], shedAny[s], now)  BY <2>2, <2>5, <2>7
  <2> HIDE DEF st1
  <2>9. d \in Decision /\ d.op = "deliver"
    <3>1. vis \subseteq SecretTexts  BY DEF LeftVisible, ExtractTaintedValues
    <3> HIDE DEF vis
    <3>. QED  BY <3>1 DEF NoDecision, Decision, Verdicts, Actions
  <2> HIDE DEF d
  <2>10. Sound(d, observed[s], shedAny[s])  BY <2>9 DEF Sound
  <2>11. shedAny[s] \in BOOLEAN  BY DEF IInv, TypeOK
  <2>12. observed[s] \cup {} = observed[s] /\ (shedAny[s] \/ FALSE) = shedAny[s]  BY <2>11
  <2>. QED  BY <2>1, <2>8, <2>9, <2>10, <2>12, InstallInv
<1>. QED  BY <1>1, <1>2, <1>3

(* Requests keep the invariant.                                            *)
LEMMA RequestInv == IInv /\ Request => IInv'
<1> SUFFICES ASSUME IInv, NEW s \in Sessions, NEW tool \in Tools, NEW args \in ArgTexts,
                    NEW readsPath \in BOOLEAN, NEW abort \in BOOLEAN,
                    EvaluateRequest(s, tool, args, readsPath, abort)
             PROVE  IInv'
  BY DEF Request
<1> DEFINE st0 == Touched(s)
           st  == StashSensitiveReadPath(st0, tool, readsPath)
           d   == [NoDecision EXCEPT !.op = "request", !.session = s]
<1>1. PICK gone \in Evictions(s) : \/ EvaluateSink(s, st, gone, tool, args, abort)
                                  \/ Install(s, gone, st, {}, FALSE, d)
  BY DEF EvaluateRequest
<1>2. Good(st0, observed[s], shedAny[s], now) /\ st0.EventCount \in Nat \ {0}
  BY TouchedGood
<1> HIDE DEF st0
<1>3. Good(st, observed[s], shedAny[s], now) /\ st.EventCount # 0
  <2>1. st0 \in SessionState  BY <1>2 DEF Good, Core
  <2>2. /\ st \in SessionState /\ st.EventCount = st0.EventCount
        /\ st.Tainted = st0.Tainted /\ st.Legs = st0.Legs
        /\ st.UntrustedExcerpts = st0.UntrustedExcerpts
        /\ st.FragmentChunks = st0.FragmentChunks
    <3> DEFINE pend == st0.PendingSensitiveReadPaths \cup {tool}
    <3>1. pend \in SUBSET Tools  BY <2>1 DEF SessionState
    <3>2. st = st0 \/ st = [st0 EXCEPT !.PendingSensitiveReadPaths = pend]
      BY DEF StashSensitiveReadPath
    <3> HIDE DEF pend, st
    <3>3. CASE st = st0  BY <2>1, <3>3
    <3>4. CASE st = [st0 EXCEPT !.PendingSensitiveReadPaths = pend]
      BY <2>1, <3>1, <3>4 DEF SessionState
    <3>. QED  BY <3>2, <3>3, <3>4
  <2> HIDE DEF st
  <2>. QED  BY <1>2, <2>2, SameGood
<1> HIDE DEF st
<1>4. CASE EvaluateSink(s, st, gone, tool, args, abort)  BY <1>3, <1>4, SinkInv
<1>5. CASE Install(s, gone, st, {}, FALSE, d)
  <2>1. shedAny[s] \in BOOLEAN  BY DEF IInv, TypeOK
  <2>2. observed[s] \cup {} = observed[s] /\ (shedAny[s] \/ FALSE) = shedAny[s]  BY <2>1
  <2>3. d \in Decision /\ d.session = s /\ d.Verdict = "" /\ d.carries = {}
    BY DEF NoDecision, Decision, Verdicts, Actions
  <2> HIDE DEF d
  <2>4. Sound(d, observed[s], shedAny[s])  BY <2>3 DEF Sound
  <2>. QED  BY <1>3, <1>5, <2>2, <2>3, <2>4, InstallInv
<1>. QED  BY <1>1, <1>4, <1>5

(* Syscalls keep the invariant.                                            *)
LEMMA SyscallInv == IInv /\ Syscall => IInv'
<1> SUFFICES ASSUME IInv, NEW s \in Sessions, NEW call \in Syscalls,
                    NEW payload \in ArgTexts, NEW window \in ArgTexts, NEW abort \in BOOLEAN,
                    \/ IngestSyscall(s, call, payload, window, abort)
                    \/ IngestSyscallSensor(s, call, payload, window, abort)
             PROVE  IInv'
  BY DEF Syscall
<1> DEFINE st0 == Touched(s)
           l   == "external_sink_invoked"
<1>1. /\ Good(st0, observed[s], shedAny[s], now) /\ st0.EventCount \in Nat \ {0}
      /\ now \in Nat \ {0}
  BY TouchedGood
<1>2. CASE IngestSyscall(s, call, payload, window, abort)
  <2> DEFINE st    == LightIfDark(st0, l, now)
             scans == call # "openat" /\ payload # <<>>
             ov    == scans /\ CheckOverlap(st, window)
  <2>1. PICK gone \in Evictions(s) :
          FinishVariantB(s, st, gone, payload, IF scans THEN window ELSE <<>>,
            ClassifyTrip(st, ov, payload, call # "connect", abort /\ scans /\ ~ov))
    BY <1>2 DEF IngestSyscall
  <2> HIDE DEF st0
  <2>2. Good(st, observed[s], shedAny[s], now)  BY <1>1, LightGood DEF LegNames
  <2>3. scans \in BOOLEAN  OBVIOUS
  <2> HIDE DEF st, scans
  <2>. QED  BY <2>1, <2>2, <2>3, VariantBInv
<1>3. CASE IngestSyscallSensor(s, call, payload, window, abort)
  <2> DEFINE st    == [st0 EXCEPT !.Legs[l] = LitLeg(st0, now)]
             scans == payload # <<>>
             ov    == scans /\ CheckOverlap(st, window)
  <2>1. PICK gone \in Evictions(s) :
          FinishVariantB(s, st, gone, payload, IF scans THEN window ELSE <<>>,
            ClassifyTrip(st, ov, payload, call # "connect", abort /\ scans /\ ~ov))
    BY <1>3 DEF IngestSyscallSensor
  <2> HIDE DEF st0
  <2>2. Good(st, observed[s], shedAny[s], now)  BY <1>1, RelegGood DEF LegNames
  <2>3. scans \in BOOLEAN  OBVIOUS
  <2> HIDE DEF st, scans
  <2>. QED  BY <2>1, <2>2, <2>3, VariantBInv
<1>. QED  BY <1>2, <1>3

(* Opens the sensor sees keep the invariant.                               *)
LEMMA SensorOpenInv == IInv /\ SensorOpen => IInv'
<1> SUFFICES ASSUME IInv, NEW s \in Sessions, NEW x \in ResultTexts, NEW sens \in BOOLEAN,
                    SeedSensitiveOpen(s, x, sens)
             PROVE  IInv'
  BY DEF SensorOpen
<1> DEFINE st    == LightIfDark(Touched(s), "sensitive_source_touched", now)
           found == ExtractTaintedValues(x)
           cands == IF x = <<>> THEN {}
                    ELSE IF found = {} /\ sens THEN {x} ELSE found
<1>1. PICK gone \in Evictions(s) : \E added \in NewTaints(st, cands) :
         Install(s, gone, AddTainted(st, added), cands,
                 DropsTaint(st, added, AddTainted(st, added)), NoDecision)
  BY DEF SeedSensitiveOpen
<1>2. cands \subseteq TaintValues /\ IsFiniteSet(cands)
  BY CandidatesFinite DEF TaintValues
<1>3. Good(st, observed[s], shedAny[s], now)  BY TouchedGood, LightGood DEF LegNames
<1> HIDE DEF st, cands
<1>. QED  BY <1>1, <1>2, <1>3, TaintInv

(* Messages of the taint bridge keep the invariant.                        *)
LEMMA BridgeInv == IInv /\ Bridge => IInv'
<1> SUFFICES ASSUME IInv, NEW s \in Sessions,
                    \/ \E v \in SecretTexts : RegisterRemoteTaint(s, v)
                    \/ RegisterRemoteUntrusted(s)
             PROVE  IInv'
  BY DEF Bridge
<1>1. ASSUME NEW v \in SecretTexts, RegisterRemoteTaint(s, v)
      PROVE  IInv'
  <2> DEFINE st == LightIfDark(Touched(s), "sensitive_source_touched", now)
  <2>1. PICK gone \in Evictions(s) : \E added \in NewTaints(st, {v}) :
           Install(s, gone, AddTainted(st, added), {v},
                   DropsTaint(st, added, AddTainted(st, added)), NoDecision)
    BY <1>1 DEF RegisterRemoteTaint
  <2>2. {v} \subseteq TaintValues /\ IsFiniteSet({v})  BY FS_Singleton DEF TaintValues
  <2>3. Good(st, observed[s], shedAny[s], now)  BY TouchedGood, LightGood DEF LegNames
  <2> HIDE DEF st
  <2>. QED  BY <2>1, <2>2, <2>3, TaintInv
<1>2. CASE RegisterRemoteUntrusted(s)
  <2> DEFINE st == LightIfDark(Touched(s), "untrusted_content_present", now)
  <2>1. PICK gone \in Evictions(s) : Install(s, gone, st, {}, FALSE, NoDecision)
    BY <1>2 DEF RegisterRemoteUntrusted
  <2>2. Good(st, observed[s], shedAny[s], now)  BY TouchedGood, LightGood DEF LegNames
  <2> HIDE DEF st
  <2>. QED  BY <2>1, <2>2, QuietInv
<1>. QED  BY <1>1, <1>2

(* Later times include the earlier ones.                                   *)
LEMMA Later ==
  ASSUME NEW a \in Nat, NEW b \in Nat, a <= b
  PROVE  (a # 0 => b # 0) /\ 1..a \subseteq 1..b
OBVIOUS

(* Steps that leave the sessions alone: a denied connect, an unattributed  *)
(* syscall, a reload, the clock.                                           *)
LEMMA AloneInv ==
  ASSUME IInv, UNCHANGED <<live, state, observed, unvaulted, shedAny>>,
         cfg' \in Config, now' \in Nat, now <= now', decision' \in Decision,
         decision'.op \in {"request", "syscall"} =>
            decision'.session = "" /\ decision'.Verdict = ""
  PROVE  IInv'
<1>1. now \in Nat /\ now # 0 /\ now' # 0
  <2>1. now \in Nat /\ now # 0  BY DEF IInv, TypeOK
  <2>. QED  BY <2>1, Later
<1>2. \A s \in Sessions : Good(state'[s], observed'[s], shedAny'[s], now')
  <2> SUFFICES ASSUME NEW s \in Sessions
               PROVE  Good(state[s], observed[s], shedAny[s], now')
    OBVIOUS
  <2>1. Good(state[s], observed[s], shedAny[s], now)  BY DEF IInv
  <2>2. LegsStamped(state[s], now')
    <3>1. LegsStamped(state[s], now)  BY <2>1 DEF Good, Core
    <3>2. 1..now \subseteq 1..now'  BY <1>1, Later
    <3>. QED  BY <3>1, <3>2 DEF LegsStamped
  <2>. QED  BY <2>1, <2>2 DEF Good, Core
<1>3. TypeOK'
  <2>1. (\A x \in Sessions \ live :
           state[x] = FreshSession(0) /\ observed[x] = {} /\ unvaulted[x] = {} /\ ~shedAny[x])'
    BY DEF IInv, TypeOK, FreshSession, DarkLeg, LegNames
  <2>. QED  BY <2>1 DEF IInv, TypeOK
<1>4. NoSilentExfil' /\ ExfilJustified'  BY DEF NoSilentExfil, ExfilJustified
<1>. QED  BY <1>1, <1>2, <1>3, <1>4 DEF IInv

(* Denied connects, unattributed syscalls, reloads and ticks keep the      *)
(* invariant.                                                              *)
LEMMA OtherInv == IInv /\ (LSMDeny \/ Unattributed \/ Reload \/ Tick) => IInv'
<1> SUFFICES ASSUME IInv, LSMDeny \/ Unattributed \/ Reload \/ Tick
             PROVE  IInv'
  OBVIOUS
<1>1. now \in Nat /\ cfg \in Config /\ now <= now  BY DEF IInv, TypeOK
<1>2. CASE LSMDeny
  <2>1. PICK s \in Sessions : IngestLSMDeny(s)  BY <1>2 DEF LSMDeny
  <2> DEFINE e == s \in live /\ state[s].Status = "tripped"
  <2>2. decision' = [NoDecision EXCEPT !.op = "lsm_deny", !.session = s, !.Allow = FALSE,
                       !.Verdict = "EXFIL", !.Action = "prevented", !.evidence = e]
    BY <2>1 DEF IngestLSMDeny
  <2>3. e \in BOOLEAN  OBVIOUS
  <2> HIDE DEF e
  <2>4. decision' \in Decision /\ decision'.op = "lsm_deny"
    BY <2>2, <2>3 DEF NoDecision, Decision, Verdicts, Actions
  <2>. QED  BY <1>1, <2>1, <2>4, AloneInv DEF IngestLSMDeny
<1>3. CASE Unattributed
  <2>1. PICK isDeny \in BOOLEAN : RecordUnattributedSyscall(isDeny)
    BY <1>3 DEF Unattributed
  <2>2. \/ decision' = [NoDecision EXCEPT !.op = "lsm_deny", !.Verdict = "EXFIL",
                          !.Action = "prevented"]
        \/ decision' = [NoDecision EXCEPT !.op = "syscall"]
    BY <2>1 DEF RecordUnattributedSyscall
  <2>3. /\ decision' \in Decision
        /\ decision'.op = "lsm_deny" \/ (decision'.session = "" /\ decision'.Verdict = "")
    BY <2>2 DEF NoDecision, Decision, Verdicts, Actions
  <2>. QED  BY <1>1, <2>1, <2>3, AloneInv DEF RecordUnattributedSyscall
<1>4. CASE Reload
  <2>1. Configs \subseteq Config  BY ConstantsAssumption
  <2>. QED  BY <1>1, <1>4, <2>1, NoDecisionSound, AloneInv DEF Reload, Configure
<1>5. CASE Tick  BY <1>1, <1>5, NoDecisionSound, AloneInv DEF Tick
<1>. QED  BY <1>2, <1>3, <1>4, <1>5
-----------------------------------------------------------------------------
(* The invariant holds initially.                                          *)
LEMMA InitInv == Init => IInv
<1> SUFFICES ASSUME Init PROVE IInv  OBVIOUS
<1>1. Good(FreshSession(0), {}, FALSE, 1) /\ FreshSession(0) \in SessionState
  BY FreshGood DEF Good, Core
<1>2. Configs \subseteq Config  BY ConstantsAssumption
<1>3. TypeOK  BY <1>1, <1>2, NoDecisionSound DEF Init, TypeOK
<1>4. \A s \in Sessions : Good(state[s], observed[s], shedAny[s], now)
  BY <1>1 DEF Init
<1>5. NoSilentExfil /\ ExfilJustified
  BY NoDecisionSound DEF Init, NoSilentExfil, ExfilJustified
<1>6. now # 0  BY DEF Init
<1>. QED  BY <1>3, <1>4, <1>5, <1>6 DEF IInv

(* A stuttering step keeps the invariant.                                  *)
LEMMA StutterInv == IInv /\ UNCHANGED vars => IInv'
<1> SUFFICES ASSUME IInv, UNCHANGED vars PROVE IInv'  OBVIOUS
<1>1. (\A x \in Sessions \ live :
         state[x] = FreshSession(0) /\ observed[x] = {} /\ unvaulted[x] = {} /\ ~shedAny[x])'
  BY DEF IInv, TypeOK, vars, FreshSession, DarkLeg, LegNames
<1>2. TypeOK'  BY <1>1 DEF IInv, TypeOK, vars
<1>3. NoSilentExfil' /\ ExfilJustified'
  BY DEF IInv, vars, NoSilentExfil, ExfilJustified
<1>4. \A s \in Sessions : Good(state'[s], observed'[s], shedAny'[s], now')
  BY DEF IInv, vars
<1>. QED  BY <1>2, <1>3, <1>4 DEF IInv, vars

(* Every step keeps the invariant.                                         *)
LEMMA NextInv == IInv /\ [Next]_vars => IInv'
BY ResultInv, RequestInv, SyscallInv, SensorOpenInv, BridgeInv, OtherInv, StutterInv DEF Next

(* IInv is an invariant of the engine.                                     *)
LEMMA EngineInvariant == Spec => []IInv
BY InitInv, NextInv, PTL DEF Spec

(* Type correctness: every variable keeps its type, and a session the      *)
(* store does not hold has left nothing behind.                            *)
THEOREM TypeCorrect == Spec => []TypeOK
<1>1. IInv => TypeOK  BY DEF IInv
<1>. QED  BY <1>1, EngineInvariant, PTL

(* In block mode no tool call, and in any mode no syscall, is let through  *)
(* with a value its session was given, until the taint cap is hit          *)
(* (EvaluateRequest, IngestSyscall, IngestSyscallSensor).                  *)
THEOREM NothingLeavesSilently == Spec => []NoSilentExfil
<1>1. IInv => NoSilentExfil  BY DEF IInv
<1>. QED  BY <1>1, EngineInvariant, PTL

(* Every EXFIL verdict is backed by a value given to that very session:    *)
(* legs, unscannable archives and other sessions never produce one         *)
(* (classifyTrip).                                                         *)
THEOREM ExfilIsJustified == Spec => []ExfilJustified
<1>1. IInv => ExfilJustified  BY DEF IInv
<1>. QED  BY <1>1, EngineInvariant, PTL

(* Leg decay, trips, reloads and evictions of other sessions never make    *)
(* the engine forget a value (pruneLegs, Configure, evictOne, addTainted). *)
THEOREM TaintIsRemembered == Spec => []TaintRemembered
<1>1. IInv => TaintRemembered  BY DEF IInv, Good, Core, Remembers, TaintRemembered
<1>. QED  BY <1>1, EngineInvariant, PTL

(* addTainted keeps the list within its cap and free of repetitions.       *)
THEOREM TaintIsBounded == Spec => []TaintBounded
<1>1. IInv => TaintBounded  BY DEF IInv, Good, Core, Bounded, Distinct, TaintBounded
<1>. QED  BY <1>1, EngineInvariant, PTL

(* An excerpt never outlives the untrusted-content leg (pruneLegs,         *)
(* setUntrustedContentPresent).                                            *)
THEOREM ExcerptsAreFresh == Spec => []ExcerptsFresh
<1>1. IInv => ExcerptsFresh  BY DEF IInv, Good, Core, Excerpted, ExcerptsFresh
<1>. QED  BY <1>1, EngineInvariant, PTL

(* A secret that shows only once the buffered fragments are joined has     *)
(* been registered (IngestResult's reassembly).                            *)
THEOREM SplitSecretsAreObserved == Spec => []SplitSecretObserved
<1>1. IInv => SplitSecretObserved  BY DEF IInv, Good, Reassembled, SplitSecretObserved
<1>. QED  BY <1>1, EngineInvariant, PTL
-----------------------------------------------------------------------------
(* A step changes the set of stored sessions as GetOrCreate does.          *)
LEMMA StoreStep ==
  ASSUME [Next]_vars
  PROVE  \/ live' = live
         \/ \E s \in Sessions : \E gone \in Evictions(s) : live' = (live \ gone) \cup {s}
<1>0. ASSUME NEW s, NEW gone, NEW st, NEW obs, NEW didShed, NEW d,
             Install(s, gone, st, obs, didShed, d)
      PROVE  live' = (live \ gone) \cup {s}
  BY <1>0 DEF Install
<1>1. CASE Result
  <2>1. PICK s \in Sessions, tool \in Tools, x \in ResultTexts : IngestResult(s, tool, x)
    BY <1>1 DEF Result
  <2>2. PICK gone \in Evictions(s) : \/ IngestSensitive(s, tool, x, gone)
                                    \/ IngestUntrusted(s, x, gone)
    BY <2>1 DEF IngestResult
  <2>3. CASE IngestSensitive(s, tool, x, gone)  BY <1>0, <2>3 DEF IngestSensitive
  <2>4. CASE IngestUntrusted(s, x, gone)
    <3>1. \E new, dec : Install(s, gone, new, {}, FALSE, dec)  BY <2>4 DEF IngestUntrusted
    <3>. QED  BY <1>0, <3>1
  <2>. QED  BY <2>2, <2>3, <2>4
<1>2. CASE Request
  <2>1. PICK s \in Sessions, tool \in Tools, args \in ArgTexts, readsPath \in BOOLEAN,
             abort \in BOOLEAN : EvaluateRequest(s, tool, args, readsPath, abort)
    BY <1>2 DEF Request
  <2> DEFINE st == StashSensitiveReadPath(Touched(s), tool, readsPath)
             d  == [NoDecision EXCEPT !.op = "request", !.session = s]
  <2>2. PICK gone \in Evictions(s) : \/ EvaluateSink(s, st, gone, tool, args, abort)
                                    \/ Install(s, gone, st, {}, FALSE, d)
    BY <2>1 DEF EvaluateRequest
  <2> HIDE DEF st, d
  <2>3. CASE EvaluateSink(s, st, gone, tool, args, abort)
    <3>1. \E new, dec : Install(s, gone, new, {}, FALSE, dec)  BY <2>3 DEF EvaluateSink
    <3>. QED  BY <1>0, <3>1
  <2>4. CASE Install(s, gone, st, {}, FALSE, d)  BY <1>0, <2>4
  <2>. QED  BY <2>2, <2>3, <2>4
<1>3. CASE Syscall
  <2>1. PICK s \in Sessions, call \in Syscalls, payload \in ArgTexts, window \in ArgTexts,
             abort \in BOOLEAN :
               \/ IngestSyscall(s, call, payload, window, abort)
               \/ IngestSyscallSensor(s, call, payload, window, abort)
    BY <1>3 DEF Syscall
  <2>2. PICK gone \in Evictions(s) : \E st, p, w, v : FinishVariantB(s, st, gone, p, w, v)
    BY <2>1 DEF IngestSyscall, IngestSyscallSensor
  <2>3. \E new, dec : Install(s, gone, new, {}, FALSE, dec)  BY <2>2 DEF FinishVariantB
  <2>. QED  BY <1>0, <2>3
<1>4. CASE SensorOpen  BY <1>4 DEF SensorOpen, SeedSensitiveOpen, Install
<1>5. CASE Bridge
  BY <1>5 DEF Bridge, RegisterRemoteTaint, RegisterRemoteUntrusted, Install
<1>6. CASE LSMDeny \/ Unattributed \/ Reload \/ Tick
  BY <1>6 DEF LSMDeny, IngestLSMDeny, Unattributed, RecordUnattributedSyscall,
              Reload, Configure, Tick
<1>7. CASE UNCHANGED vars  BY <1>7 DEF vars
<1>. QED  BY <1>1, <1>2, <1>3, <1>4, <1>5, <1>6, <1>7 DEF Next

(* A session that holds taint is evicted only when every stored session    *)
(* holds taint: a flood of empty sessions cannot push it out (evictOne).   *)
THEOREM FloodSparesTaint == Spec => EvictionSparesTaint
<1> DEFINE Spares == \A s \in live \ live' :
                       state[s].Tainted # <<>> => \A o \in live : state[o].Tainted # <<>>
<1>1. ASSUME [Next]_vars PROVE Spares
  <2>1. CASE live' = live  BY <2>1
  <2>2. ASSUME NEW s \in Sessions, NEW gone \in Evictions(s),
               live' = (live \ gone) \cup {s}
        PROVE  Spares
    <3>1. live \ live' \subseteq gone  BY <2>2
    <3>2. \A v \in gone : v \in Victims  BY DEF Evictions
    <3>3. \A v \in Victims : \A o \in live :
            state[v].Tainted # <<>> => state[o].Tainted # <<>>
      BY DEF Victims, BetterVictim
    <3>. QED  BY <3>1, <3>2, <3>3
  <2>. QED  BY <1>1, <2>1, <2>2, StoreStep
<1>. QED  BY <1>1, PTL DEF Spec, EvictionSparesTaint
-----------------------------------------------------------------------------
(* What a handler leaves of the legs and of the vault, and what it shows.  *)

(* Every lit leg is within both limits of the configuration in force.      *)
Fresh(st) ==
  \A l \in LegNames :
    st.Legs[l].Lit =>
      /\ cfg.legTTL > 0 => now - st.Legs[l].LitAt < cfg.legTTL
      /\ cfg.decayAfterCalls > 0 =>
           st.EventCount - st.Legs[l].EventsAtLit < cfg.decayAfterCalls

(* No pattern matches a character that JSON escapes.                       *)
Unescaped == \A p \in SecretTexts : ToSet(p) \cap JSONEscaped = {}

(* A handler that left session s as st, having observed obs, forgets no    *)
(* vaulted value, has minted what was new to the session if the vault is   *)
(* on, and shows nothing that the vault knows.                             *)
Sealed(s, st, obs, d) ==
  /\ Touched(s).Vault \subseteq st.Vault
  /\ cfg.vaultEnabled => SensorMode \/ obs \ observed[s] \subseteq st.Vault
  /\ d.op = "deliver" => /\ d.session = s /\ ~SensorMode
                         /\ cfg.vaultEnabled /\ Unescaped => d.visible \cap st.Vault = {}

(* A handler worked on session s.                                          *)
Handled(s) ==
  /\ Fresh(state'[s])
  /\ \E obs :
       /\ Sealed(s, state'[s], obs, decision')
       /\ observed'[s] = observed[s] \cup obs
       /\ unvaulted'[s] = IF cfg.vaultEnabled THEN unvaulted[s]
                          ELSE unvaulted[s] \cup (obs \ observed[s])
  /\ \A x \in Sessions \ {s} :
       \/ /\ state'[x] = state[x] /\ observed'[x] = observed[x]
          /\ unvaulted'[x] = unvaulted[x]
       \/ state'[x] = FreshSession(0) /\ observed'[x] = {}
  /\ cfg' = cfg

LEMMA InstallHandled ==
  ASSUME IInv, NEW s \in Sessions, NEW gone \in Evictions(s), NEW st, NEW obs, NEW didShed, NEW d,
         Fresh(st), Sealed(s, st, obs, d), Install(s, gone, st, obs, didShed, d)
  PROVE  Handled(s)
<1>0. s \notin gone  BY DEF Evictions, Victims
<1>1. state'[s] = st /\ decision' = d /\ cfg' = cfg /\ observed'[s] = observed[s] \cup obs
  BY DEF Install
<1>2. unvaulted'[s] = IF cfg.vaultEnabled THEN unvaulted[s]
                      ELSE unvaulted[s] \cup (obs \ observed[s])
  BY <1>0 DEF Install
<1>3. \A x \in Sessions \ {s} :
        \/ /\ state'[x] = state[x] /\ observed'[x] = observed[x]
           /\ unvaulted'[x] = unvaulted[x]
        \/ state'[x] = FreshSession(0) /\ observed'[x] = {}
  BY DEF Install
<1>4. \E o : /\ Sealed(s, state'[s], o, decision')
             /\ observed'[s] = observed[s] \cup o
             /\ unvaulted'[s] = IF cfg.vaultEnabled THEN unvaulted[s]
                                ELSE unvaulted[s] \cup (o \ observed[s])
  BY <1>1, <1>2
<1>. QED  BY <1>1, <1>3, <1>4 DEF Handled

(* touchSession: what decayed by now is dark, and the rest is fresh.       *)
LEMMA TouchedFresh ==
  ASSUME IInv, NEW s \in Sessions
  PROVE  Fresh(Touched(s)) /\ Touched(s).Vault = state[s].Vault
<1> DEFINE st  == IF s \in live THEN state[s] ELSE FreshSession(now)
           new == TouchSession(st, now)
<1>1. now \in Nat \ {0} /\ cfg.legTTL \in Nat /\ cfg.decayAfterCalls \in Nat
  BY DEF IInv, TypeOK, Config
<1>2. /\ Good(st, observed[s], shedAny[s], now)
      /\ st.Tainted = state[s].Tainted /\ st.Vault = state[s].Vault
  <2>1. CASE s \in live  BY <2>1 DEF IInv
  <2>2. CASE s \notin live
    <3>1. /\ observed[s] = {} /\ shedAny[s] = FALSE /\ state[s] = FreshSession(0)
          /\ st = FreshSession(now)
      BY <2>2 DEF IInv, TypeOK
    <3>2. Good(FreshSession(now), {}, FALSE, now)  BY <1>1, FreshGood
    <3>3. /\ FreshSession(now).Tainted = FreshSession(0).Tainted
          /\ FreshSession(now).Vault = FreshSession(0).Vault
      BY DEF FreshSession
    <3>. QED  BY <3>1, <3>2, <3>3
  <2>. QED  BY <2>1, <2>2
<1> HIDE DEF st
<1>3. st \in SessionState /\ LegsStamped(st, now)  BY <1>2 DEF Good, Core
<1>4. /\ new.EventCount = st.EventCount + 1 /\ new.Tainted = st.Tainted /\ new.Vault = st.Vault
      /\ \A l \in LegNames : new.Legs[l].Lit =>
           new.Legs[l] = st.Legs[l] /\ ~Decays(st.Legs[l], st.EventCount + 1, now)
  BY <1>1, <1>3, TouchFields
<1> HIDE DEF new
<1>5. st.EventCount \in Nat  BY <1>3 DEF SessionState
<1>6. Fresh(new)
  <2> SUFFICES ASSUME NEW l \in LegNames, new.Legs[l].Lit
               PROVE  /\ cfg.legTTL > 0 => now - new.Legs[l].LitAt < cfg.legTTL
                      /\ cfg.decayAfterCalls > 0 =>
                           new.EventCount - new.Legs[l].EventsAtLit < cfg.decayAfterCalls
    BY DEF Fresh
  <2> DEFINE leg == st.Legs[l]
  <2>1. new.Legs[l] = leg /\ ~Decays(leg, st.EventCount + 1, now) /\ leg.Lit  BY <1>4
  <2>2. leg.LitAt \in 1..now /\ leg.EventsAtLit \in 1..st.EventCount
    BY <1>3, <2>1 DEF LegsStamped
  <2> HIDE DEF leg
  <2>3. /\ ~(cfg.legTTL > 0 /\ now - leg.LitAt >= cfg.legTTL)
        /\ ~(cfg.decayAfterCalls > 0 /\ st.EventCount + 1 - leg.EventsAtLit >= cfg.decayAfterCalls)
    BY <1>1, <1>5, <2>1, <2>2 DEF Decays, TTLExpired, CallsExpired
  <2>. QED  BY <1>1, <1>4, <1>5, <2>1, <2>2, <2>3
<1>7. Touched(s) = new  BY DEF Touched, new, st
<1>. QED  BY <1>2, <1>4, <1>6, <1>7

(* A leg lit now is fresh.                                                 *)
LEMMA RelegFresh ==
  ASSUME IInv, NEW st, Fresh(st), NEW l \in LegNames, st.EventCount \in Nat,
         NEW new, new.EventCount = st.EventCount, st.Legs \in [LegNames -> Leg],
         new.Legs = st.Legs \/ new.Legs = [st.Legs EXCEPT ![l] = LitLeg(st, now)]
  PROVE  Fresh(new)
<1>1. now \in Nat /\ cfg.legTTL \in Nat /\ cfg.decayAfterCalls \in Nat
  BY DEF IInv, TypeOK, Config
<1>2. \A k \in LegNames : \/ new.Legs[k] = st.Legs[k]
                          \/ /\ new.Legs[k].LitAt = now
                             /\ new.Legs[k].EventsAtLit = st.EventCount
  BY DEF LitLeg
<1>. QED  BY <1>1, <1>2 DEF Fresh

(* The leg setters keep sessions fresh, and the vault as it was.           *)
LEMMA LightFresh ==
  ASSUME IInv, NEW st, NEW obs, NEW sh, Good(st, obs, sh, now), Fresh(st),
         NEW l \in LegNames, st.EventCount # 0
  PROVE  LET lit == LightIfDark(st, l, now)
             new == [st EXCEPT !.Legs[l] = LitLeg(st, now)]
         IN  /\ Fresh(lit) /\ lit.Tainted = st.Tainted /\ lit.Vault = st.Vault
             /\ Fresh(new) /\ new.Tainted = st.Tainted /\ new.Vault = st.Vault
<1> DEFINE lit == LightIfDark(st, l, now)
           new == [st EXCEPT !.Legs[l] = LitLeg(st, now)]
<1>1. now \in Nat \ {0}  BY DEF IInv, TypeOK
<1>2. st.Legs \in [LegNames -> Leg] /\ st.EventCount \in Nat  BY DEF Good, Core, SessionState
<1>3. /\ lit.EventCount = st.EventCount /\ lit.Tainted = st.Tainted /\ lit.Vault = st.Vault
      /\ lit.Legs = st.Legs \/ lit.Legs = [st.Legs EXCEPT ![l] = LitLeg(st, now)]
  BY <1>1, LightGood
<1>4. /\ new.EventCount = st.EventCount /\ new.Tainted = st.Tainted /\ new.Vault = st.Vault
      /\ new.Legs = [st.Legs EXCEPT ![l] = LitLeg(st, now)]
  BY <1>1, RelegGood
<1> HIDE DEF lit, new
<1>5. Fresh(lit)  BY <1>2, <1>3, RelegFresh
<1>6. Fresh(new)  BY <1>2, <1>4, RelegFresh
<1>. QED  BY <1>3, <1>4, <1>5, <1>6 DEF lit, new

(* A verdict changes neither legs nor taint nor vault.                     *)
LEMMA TripFields ==
  ASSUME NEW st \in SessionState, NEW v
  PROVE  LET new == Trip(st, v)
         IN  /\ new.Legs = st.Legs /\ new.EventCount = st.EventCount
             /\ new.Tainted = st.Tainted /\ new.Vault = st.Vault
BY DEF Trip, SessionState

(* Handlers that register nothing and deliver nothing.                     *)
LEMMA QuietHandled ==
  ASSUME IInv, NEW s \in Sessions, NEW gone \in Evictions(s), NEW st, NEW d,
         Fresh(st), st.Vault = Touched(s).Vault,
         d.op # "deliver", Install(s, gone, st, {}, FALSE, d)
  PROVE  Handled(s)
<1>1. Sealed(s, st, {}, d)  BY DEF Sealed
<1>. QED  BY <1>1, InstallHandled

(* Handlers that end in a verdict.                                         *)
LEMMA VerdictHandled ==
  ASSUME IInv, NEW s \in Sessions, NEW gone \in Evictions(s),
         NEW st \in SessionState, NEW v, NEW d,
         Fresh(st), st.Vault = Touched(s).Vault,
         d.op # "deliver", Install(s, gone, Trip(st, v), {}, FALSE, d)
  PROVE  Handled(s)
<1> DEFINE new == Trip(st, v)
<1>1. new.Legs = st.Legs /\ new.EventCount = st.EventCount /\ new.Vault = st.Vault
  BY TripFields
<1> HIDE DEF new
<1>2. Fresh(new)  BY <1>1 DEF Fresh
<1>3. Install(s, gone, new, {}, FALSE, d)  BY DEF new
<1>. QED  BY <1>1, <1>2, <1>3, QuietHandled

(* Handlers of the node sensor that register candidates.                   *)
LEMMA SeedHandled ==
  ASSUME IInv, SensorMode, NEW s \in Sessions, NEW gone \in Evictions(s),
         NEW st \in SessionState, Fresh(st), st.Vault = Touched(s).Vault,
         NEW added, NEW obs, NEW didShed,
         Install(s, gone, AddTainted(st, added), obs, didShed, NoDecision)
  PROVE  Handled(s)
<1> DEFINE new == AddTainted(st, added)
<1>1. new.Legs = st.Legs /\ new.EventCount = st.EventCount /\ new.Vault = st.Vault  BY AddFields
<1> HIDE DEF new
<1>2. Fresh(new)  BY <1>1 DEF Fresh
<1>3. Sealed(s, new, obs, NoDecision)  BY <1>1 DEF Sealed, NoDecision
<1>4. Install(s, gone, new, obs, didShed, NoDecision)  BY DEF new
<1>. QED  BY <1>2, <1>3, <1>4, InstallHandled

(* vaultReplaceReals finds in the frame every value of the text that JSON  *)
(* writes as it is.                                                        *)
LEMMA FoundInFrame ==
  ASSUME NEW x \in Seq(Atoms), NEW p \in Seq(Atoms), HasText(x, p), ToSet(p) \cap JSONEscaped = {}
  PROVE  HasText(FrameText(x), p) /\ HasText(p, p)
<1> DEFINE S == Atoms \cup {[escaped |-> a] : a \in Atoms}
           F == FrameText(x)
           m == Len(p)
<1>1. /\ Len(x) \in Nat /\ DOMAIN x = 1..Len(x) /\ m \in Nat /\ DOMAIN p = 1..m
      /\ p # <<>> /\ m # 0
  BY LenProperties, EmptySeq DEF HasText
<1>2. PICK i \in 1..(Len(x) - m + 1) : SubSeq(x, i, i + m - 1) = p  BY DEF HasText
<1>3. \A j \in 1..Len(x) : x[j] \in Atoms  BY ElementOfSeq
<1>4. F \in Seq(S) /\ Len(F) = Len(x) /\ \A j \in 1..Len(x) :
        F[j] = IF x[j] \in JSONEscaped THEN [escaped |-> x[j]] ELSE x[j]
  <2>1. F = [j \in 1..Len(x) |-> IF x[j] \in JSONEscaped THEN [escaped |-> x[j]] ELSE x[j]]
    BY <1>1 DEF FrameText
  <2>2. \A j \in 1..Len(x) : F[j] \in S  BY <1>3, <2>1
  <2> HIDE DEF S
  <2>3. F \in [1..Len(x) -> S]  BY <2>1, <2>2
  <2>4. F \in Seq(S)  BY <1>1, <2>3
  <2>5. DOMAIN F = 1..Len(F) /\ Len(F) \in Nat  BY <2>4, LenProperties
  <2>. QED  BY <1>1, <2>1, <2>3, <2>4, <2>5
<1> HIDE DEF F, S
<1>5. /\ i \in Nat /\ i >= 1 /\ i + m - 1 <= Len(x) /\ i + m - 1 \in Nat
      /\ \A j \in 1..m : i + j - 1 \in 1..Len(x)
  BY <1>1
<1>6. \A j \in 1..m : p[j] = x[i + j - 1]
  <2>1. \A j \in i..(i + m - 1) : x[j] \in Atoms  BY <1>1, <1>3, <1>5
  <2>2. \A j \in 1..(i + m - 1 - i + 1) : SubSeq(x, i, i + m - 1)[j] = x[i + j - 1]
    BY <1>1, <1>5, <2>1, SubSeqProperties
  <2>. QED  BY <1>1, <1>2, <1>5, <2>2
<1>7. SubSeq(F, i, i + m - 1) = p
  <2> DEFINE q == SubSeq(F, i, i + m - 1)
  <2>1. \A j \in i..(i + m - 1) : F[j] \in S  BY <1>1, <1>4, <1>5, ElementOfSeq
  <2>2. /\ q \in Seq(S) /\ Len(q) = m
        /\ \A j \in 1..m : q[j] = F[i + j - 1]
    <3>1. i + m - 1 - i + 1 = m /\ (i <= i + m - 1 + 1)  BY <1>1, <1>5
    <3>. QED  BY <1>1, <1>5, <2>1, <3>1, SubSeqProperties
  <2> HIDE DEF q
  <2>3. \A j \in 1..m : q[j] = p[j]
    <3> SUFFICES ASSUME NEW j \in 1..m PROVE q[j] = p[j]  OBVIOUS
    <3>1. p[j] = x[i + j - 1] /\ i + j - 1 \in 1..Len(x)  BY <1>5, <1>6
    <3>2. p[j] \notin JSONEscaped  BY <1>1 DEF ToSet
    <3>3. F[i + j - 1] = x[i + j - 1]  BY <1>4, <3>1, <3>2
    <3>. QED  BY <2>2, <3>1, <3>3
  <2>4. p \in Seq(Atoms \cup S) /\ q \in Seq(Atoms \cup S)
    <3>1. DOMAIN q = 1..m  BY <2>2, LenProperties
    <3>2. \A j \in 1..m : q[j] \in S /\ p[j] \in Atoms  BY <1>1, <2>2, ElementOfSeq
    <3>3. p = [j \in 1..m |-> p[j]] /\ q = [j \in 1..m |-> q[j]]
      BY <1>1, <2>2, <3>1, LenProperties
    <3>4. p \in [1..m -> Atoms \cup S] /\ q \in [1..m -> Atoms \cup S]  BY <3>2, <3>3
    <3>. QED  BY <1>1, <3>4
  <2>5. q = p  BY <1>1, <2>2, <2>3, <2>4, SeqEqual
  <2>. QED  BY <2>5 DEF q
<1>8. HasText(F, p)  BY <1>1, <1>2, <1>4, <1>7 DEF HasText
<1>9. HasText(p, p)
  <2>1. 1 \in 1..(Len(p) - Len(p) + 1) /\ 1 + Len(p) - 1 = Len(p)  BY <1>1
  <2>2. SubSeq(p, 1, Len(p)) = p  BY SubSeqFull
  <2>. QED  BY <1>1, <2>1, <2>2 DEF HasText
<1>. QED  BY <1>8, <1>9 DEF F

(* VaultRewriteFrame leaves nothing visible that the vault knows.          *)
LEMMA VaultCovers ==
  ASSUME cfg.vaultEnabled, Unescaped, NEW st, NEW x \in Seq(Atoms)
  PROVE  LeftVisible(st, x) \cap st.Vault = {}
<1> SUFFICES ASSUME NEW p \in LeftVisible(st, x), p \in st.Vault PROVE FALSE
  OBVIOUS
<1>1. /\ p \in SecretTexts /\ HasText(x, p)
      /\ ~ \E v \in st.Vault : HasText(FrameText(x), v) /\ HasText(v, p)
  BY DEF LeftVisible, ExtractTaintedValues
<1>2. p \in Seq(Atoms) /\ ToSet(p) \cap JSONEscaped = {}  BY <1>1, Texts DEF Unescaped
<1>3. HasText(FrameText(x), p) /\ HasText(p, p)  BY <1>1, <1>2, FoundInFrame
<1>. QED  BY <1>1, <1>3

(* IngestResult of a sensitive source, and the rewriting of its frame.     *)
LEMMA SensitiveHandled ==
  ASSUME IInv, ~SensorMode, NEW s \in Sessions, NEW gone \in Evictions(s),
         NEW tool, NEW x \in ResultTexts, IngestSensitive(s, tool, x, gone)
  PROVE  Handled(s)
<1> DEFINE obs   == observed[s]
           sh    == shedAny[s]
           st0   == LightIfDark(Touched(s), "sensitive_source_touched", now)
           path  == tool \in st0.PendingSensitiveReadPaths /\ x # <<>>
           st1   == [st0 EXCEPT !.PendingSensitiveReadPaths = @ \ {tool}]
           st2   == IF x = <<>> THEN st1 ELSE AppendFragment(st1, x)
           cands == Candidates(st2, x, path)
<1>1. PICK added \in NewTaints(st2, cands) :
        LET st3 == VaultMint(AddTainted(st2, added), added)
        IN  Install(s, gone, st3, cands, DropsTaint(st2, added, st3),
              [NoDecision EXCEPT !.op = "deliver", !.session = s,
                 !.visible = LeftVisible(st3, x)])
  BY DEF IngestSensitive
<1> DEFINE mid  == AddTainted(st2, added)
           st3  == VaultMint(mid, added)
           drop == DropsTaint(st2, added, st3)
           vis  == LeftVisible(st3, x)
           d    == [NoDecision EXCEPT !.op = "deliver", !.session = s, !.visible = vis]
<1>2. Install(s, gone, st3, cands, drop, d)  BY <1>1
<1>3. x \in Seq(Atoms) /\ sh \in BOOLEAN  BY Texts DEF IInv, TypeOK
<1>4. /\ Good(st0, obs, sh, now) /\ Fresh(st0)
      /\ st0.Tainted = Touched(s).Tainted /\ st0.Vault = Touched(s).Vault
  <2>1. Good(Touched(s), obs, sh, now) /\ Touched(s).EventCount # 0 /\ now \in Nat \ {0}
    BY TouchedGood
  <2>. QED  BY <2>1, TouchedFresh, LightGood, LightFresh DEF LegNames
<1> HIDE DEF st0
<1>5. /\ st1 \in SessionState /\ st1.Legs = st0.Legs /\ st1.EventCount = st0.EventCount
      /\ st1.Tainted = st0.Tainted /\ st1.Vault = st0.Vault
      /\ st1.UntrustedExcerpts = st0.UntrustedExcerpts
  BY <1>4 DEF Good, Core, SessionState
<1> HIDE DEF st1
<1>6. /\ Core(st2, obs, sh, now) /\ st2.Legs = st0.Legs /\ st2.EventCount = st0.EventCount
      /\ st2.Tainted = st0.Tainted /\ st2.Vault = st0.Vault
  <2>1. Core(st1, obs, sh, now)  BY <1>4, <1>5, SameCore DEF Good
  <2>. QED  BY <1>3, <1>5, <2>1, FragmentCore
<1> HIDE DEF st2
<1>7. cands \subseteq TaintValues /\ IsFiniteSet(cands)  BY CandidatesFinite
<1> HIDE DEF cands
<1>9. /\ ToSet(added) = cands \ ToSet(st2.Tainted)
      /\ st2 \in SessionState /\ ToSet(st2.Tainted) \subseteq obs
  BY <1>6, <1>7, NewTaintsEnumerate DEF Core, Remembers
<1>11. /\ mid.Legs = st2.Legs /\ mid.EventCount = st2.EventCount /\ mid.Vault = st2.Vault
       /\ mid \in SessionState
  <2>1. Core(mid, obs \cup cands, sh \/ DropsTaint(st2, added, mid), now)
    <3> HIDE DEF obs, sh
    <3>. QED  BY <1>3, <1>6, <1>7, AddCore
  <2>. QED  BY <1>9, <2>1, AddFields DEF Core
<1> HIDE DEF mid
<1>13. /\ st3.Legs = mid.Legs /\ st3.EventCount = mid.EventCount
       /\ mid.Vault \subseteq st3.Vault
       /\ cfg.vaultEnabled => ToSet(added) \subseteq st3.Vault
  BY <1>11 DEF VaultMint, SessionState
<1> HIDE DEF st3
<1>14. Fresh(st3)  BY <1>4, <1>6, <1>11, <1>13 DEF Fresh
<1>15. d.visible = vis /\ d.op = "deliver" /\ d.session = s  BY DEF NoDecision
<1>16. cfg.vaultEnabled /\ Unescaped => vis \cap st3.Vault = {}  BY <1>3, VaultCovers
<1>17. cfg.vaultEnabled => cands \ obs \subseteq st3.Vault  BY <1>9, <1>13
<1> HIDE DEF d, vis, drop
<1>18. Sealed(s, st3, cands, d)
  BY <1>4, <1>6, <1>11, <1>13, <1>15, <1>16, <1>17 DEF Sealed
<1>. QED  BY <1>2, <1>14, <1>18, InstallHandled

(* Every step is the work of a handler on one session, or leaves sessions  *)
(* alone and delivers nothing.                                             *)
LEMMA HandlerStep ==
  ASSUME IInv, Next
  PROVE  \/ \E s \in Sessions : Handled(s)
         \/ UNCHANGED <<state, observed, unvaulted>> /\ decision'.op # "deliver"
<1>1. ASSUME NEW s \in Sessions
      PROVE  /\ Touched(s) \in SessionState /\ Fresh(Touched(s))
             /\ Good(Touched(s), observed[s], shedAny[s], now)
             /\ Touched(s).EventCount \in Nat \ {0}
             /\ \A l \in LegNames :
                  LET lit == LightIfDark(Touched(s), l, now)
                      new == [Touched(s) EXCEPT !.Legs[l] = LitLeg(Touched(s), now)]
                  IN  /\ lit \in SessionState /\ Fresh(lit)
                      /\ lit.Tainted = Touched(s).Tainted /\ lit.Vault = Touched(s).Vault
                      /\ new \in SessionState /\ Fresh(new)
                      /\ new.Tainted = Touched(s).Tainted /\ new.Vault = Touched(s).Vault
  <2>1. /\ Good(Touched(s), observed[s], shedAny[s], now) /\ Touched(s).EventCount \in Nat \ {0}
        /\ now \in Nat \ {0} /\ Fresh(Touched(s)) /\ Touched(s) \in SessionState
    BY TouchedGood, TouchedFresh DEF Good, Core
  <2> DEFINE st == Touched(s)
  <2> HIDE DEF st
  <2>2. ASSUME NEW l \in LegNames
        PROVE  LET lit == LightIfDark(st, l, now)
                   new == [st EXCEPT !.Legs[l] = LitLeg(st, now)]
               IN  /\ lit \in SessionState /\ Fresh(lit)
                   /\ lit.Tainted = st.Tainted /\ lit.Vault = st.Vault
                   /\ new \in SessionState /\ Fresh(new)
                   /\ new.Tainted = st.Tainted /\ new.Vault = st.Vault
    <3>1. /\ Good(st, observed[s], shedAny[s], now) /\ Fresh(st) /\ st.EventCount \in Nat \ {0}
      BY <2>1 DEF st
    <3>2. /\ Good(LightIfDark(st, l, now), observed[s], shedAny[s], now)
          /\ Good([st EXCEPT !.Legs[l] = LitLeg(st, now)], observed[s], shedAny[s], now)
      BY <2>1, <3>1, LightGood, RelegGood
    <3>. QED  BY <3>1, <3>2, LightFresh DEF Good, Core
  <2>. QED  BY <2>1, <2>2 DEF st
<1>2. CASE Result
  <2>1. PICK s \in Sessions, tool \in Tools, x \in ResultTexts : IngestResult(s, tool, x)
    BY <1>2 DEF Result
  <2>2. PICK gone \in Evictions(s) : \/ IngestSensitive(s, tool, x, gone)
                                    \/ IngestUntrusted(s, x, gone)
    BY <2>1 DEF IngestResult
  <2>3. CASE IngestSensitive(s, tool, x, gone)
    <3>1. ~SensorMode  BY <2>1 DEF IngestResult
    <3>. QED  BY <2>3, <3>1, SensitiveHandled
  <2>4. CASE IngestUntrusted(s, x, gone)
    <3> DEFINE l   == "untrusted_content_present"
               st0 == Touched(s)
               lit == LightIfDark(st0, l, now)
               st1 == IF cfg.untrustedToolResults
                      THEN LightIfDark(StoreUntrustedExcerpt(st0, x), l, now) ELSE st0
               exc == StoreUntrustedExcerpt(lit, x)
               vis == LeftVisible(st1, x)
               d   == [NoDecision EXCEPT !.op = "deliver", !.session = s, !.visible = vis]
    <3>1. Install(s, gone, st1, {}, FALSE, d) /\ ~SensorMode
      BY <2>1, <2>4 DEF IngestUntrusted, IngestResult
    <3>2. /\ st0 \in SessionState /\ Fresh(st0)
          /\ lit \in SessionState /\ Fresh(lit) /\ lit.Tainted = st0.Tainted /\ lit.Vault = st0.Vault
      BY <1>1 DEF LegNames
    <3>3. st1 = IF cfg.untrustedToolResults THEN exc ELSE st0  BY <3>2, StoreLightCommute
    <3> HIDE DEF lit, st1
    <3>4. /\ exc.Legs = lit.Legs /\ exc.EventCount = lit.EventCount
          /\ exc.Tainted = lit.Tainted /\ exc.Vault = lit.Vault
      BY <3>2 DEF StoreUntrustedExcerpt, SessionState
    <3> HIDE DEF exc
    <3>5. Fresh(exc)  BY <3>2, <3>4 DEF Fresh
    <3>6. Fresh(st1) /\ st1.Vault = st0.Vault
      BY <3>2, <3>3, <3>4, <3>5
    <3>7. d.visible = vis /\ d.op = "deliver" /\ d.session = s  BY DEF NoDecision
    <3>8. cfg.vaultEnabled /\ Unescaped => vis \cap st1.Vault = {}  BY Texts, VaultCovers
    <3> HIDE DEF d, vis
    <3>9. Sealed(s, st1, {}, d)  BY <3>1, <3>6, <3>7, <3>8 DEF Sealed
    <3>. QED  BY <3>1, <3>6, <3>9, InstallHandled
  <2>. QED  BY <2>2, <2>3, <2>4
<1>3. CASE Request
  <2>1. PICK s \in Sessions, tool \in Tools, args \in ArgTexts, readsPath \in BOOLEAN,
             abort \in BOOLEAN : EvaluateRequest(s, tool, args, readsPath, abort)
    BY <1>3 DEF Request
  <2> DEFINE st0 == Touched(s)
             st  == StashSensitiveReadPath(st0, tool, readsPath)
             d   == [NoDecision EXCEPT !.op = "request", !.session = s]
  <2>2. PICK gone \in Evictions(s) : \/ EvaluateSink(s, st, gone, tool, args, abort)
                                    \/ Install(s, gone, st, {}, FALSE, d)
    BY <2>1 DEF EvaluateRequest
  <2>3. /\ st0 \in SessionState /\ Fresh(st0) /\ Good(st0, observed[s], shedAny[s], now)
        /\ st0.EventCount \in Nat \ {0}
    BY <1>1
  <2> HIDE DEF st0
  <2>4. /\ st \in SessionState /\ st.Legs = st0.Legs /\ st.EventCount = st0.EventCount
        /\ st.Tainted = st0.Tainted /\ st.Vault = st0.Vault
        /\ st.UntrustedExcerpts = st0.UntrustedExcerpts /\ st.FragmentChunks = st0.FragmentChunks
    <3> DEFINE pend == st0.PendingSensitiveReadPaths \cup {tool}
    <3>1. pend \in SUBSET Tools  BY <2>3 DEF SessionState
    <3>2. st = st0 \/ st = [st0 EXCEPT !.PendingSensitiveReadPaths = pend]
      BY DEF StashSensitiveReadPath
    <3> HIDE DEF pend, st
    <3>3. CASE st = st0  BY <2>3, <3>3
    <3>4. CASE st = [st0 EXCEPT !.PendingSensitiveReadPaths = pend]
      BY <2>3, <3>1, <3>4 DEF SessionState
    <3>. QED  BY <3>2, <3>3, <3>4
  <2> HIDE DEF st
  <2>5. Fresh(st)  BY <2>3, <2>4 DEF Fresh
  <2>6. CASE EvaluateSink(s, st, gone, tool, args, abort)
    <3> DEFINE st1 == LightIfDark(st, "external_sink_invoked", now)
    <3>1. PICK v, allow, action, evid, carries, shares :
            Install(s, gone, Trip(st1, v), {}, FALSE,
              [NoDecision EXCEPT !.op = "request", !.session = s, !.Allow = allow,
                 !.Verdict = v, !.Action = action, !.evidence = evid, !.carries = carries,
                 !.shares = shares])
      <4> DEFINE scanned == Scanned(st1, tool, args)
                 overlap == CheckOverlap(st1, scanned)
                 verdict == ClassifyTrip(st1, overlap, scanned, TRUE, abort /\ ~overlap)
                 act     == ProxyAction(verdict)
                 permit  == verdict = "" \/ act.Allow
                 does    == IF verdict = "" THEN "" ELSE act.Action
                 kept    == verdict # ""
                 leaving == Carried(ForwardArgs(st1, tool, args))
                 showing == Shared(ForwardArgs(st1, tool, args))
      <4>1. Install(s, gone, Trip(st1, verdict), {}, FALSE,
              [NoDecision EXCEPT !.op = "request", !.session = s, !.Allow = permit,
                 !.Verdict = verdict, !.Action = does, !.evidence = kept, !.carries = leaving,
                 !.shares = showing])
        BY <2>6 DEF EvaluateSink
      <4> HIDE DEF st1, verdict, permit, does, kept, leaving, showing
      <4>. QED  BY <4>1
    <3> DEFINE e == [NoDecision EXCEPT !.op = "request", !.session = s, !.Allow = allow,
                 !.Verdict = v, !.Action = action, !.evidence = evid, !.carries = carries,
                 !.shares = shares]
    <3>2. Good(st, observed[s], shedAny[s], now)  BY <2>3, <2>4, SameGood
    <3>3. now \in Nat \ {0} /\ "external_sink_invoked" \in LegNames
      BY DEF IInv, TypeOK, LegNames
    <3>4. Good(st1, observed[s], shedAny[s], now)  BY <2>3, <2>4, <3>2, <3>3, LightGood
    <3>5. Fresh(st1) /\ st1.Tainted = st.Tainted /\ st1.Vault = st.Vault
      BY <2>3, <2>4, <2>5, <3>2, <3>3, LightFresh
    <3>6. e.op # "deliver"  BY DEF NoDecision
    <3>7. st1 \in SessionState  BY <3>4 DEF Good, Core
    <3> HIDE DEF st1
    <3>8. Install(s, gone, Trip(st1, v), {}, FALSE, e)  BY <3>1
    <3>9. st1.Tainted = Touched(s).Tainted /\ st1.Vault = Touched(s).Vault
      BY <2>4, <3>5 DEF st0
    <3> HIDE DEF e
    <3>. QED  BY <3>5, <3>6, <3>7, <3>8, <3>9, VerdictHandled
  <2>7. CASE Install(s, gone, st, {}, FALSE, d)
    <3>1. d.op # "deliver"  BY DEF NoDecision
    <3> HIDE DEF d
    <3>2. st.Tainted = Touched(s).Tainted /\ st.Vault = Touched(s).Vault  BY <2>4 DEF st0
    <3>. QED  BY <2>5, <2>7, <3>1, <3>2, QuietHandled
  <2>. QED  BY <2>2, <2>6, <2>7
<1>4. CASE Syscall
  <2>1. PICK s \in Sessions, call \in Syscalls, payload \in ArgTexts, window \in ArgTexts,
             abort \in BOOLEAN :
               \/ IngestSyscall(s, call, payload, window, abort)
               \/ IngestSyscallSensor(s, call, payload, window, abort)
    BY <1>4 DEF Syscall
  <2> DEFINE l   == "external_sink_invoked"
             lit == LightIfDark(Touched(s), l, now)
             new == [Touched(s) EXCEPT !.Legs[l] = LitLeg(Touched(s), now)]
  <2>2. \E st \in {lit, new}, gone \in Evictions(s) :
          \E p, w, v : FinishVariantB(s, st, gone, p, w, v)
    BY <2>1 DEF IngestSyscall, IngestSyscallSensor
  <2>3. \A st \in {lit, new} : /\ st \in SessionState /\ Fresh(st)
                               /\ st.Tainted = Touched(s).Tainted /\ st.Vault = Touched(s).Vault
    BY <1>1 DEF LegNames
  <2> HIDE DEF lit, new
  <2>4. PICK st \in {lit, new}, gone \in Evictions(s) :
          \E p, w, v : FinishVariantB(s, st, gone, p, w, v)
    BY <2>2
  <2>5. PICK p, w, v : FinishVariantB(s, st, gone, p, w, v)  BY <2>4
  <2>6. PICK allow, action, evid, carries, shares :
            Install(s, gone, Trip(st, v), {}, FALSE,
              [NoDecision EXCEPT !.op = "syscall", !.session = s, !.Allow = allow,
                 !.Verdict = v, !.Action = action, !.evidence = evid, !.carries = carries,
                 !.shares = shares])
    BY <2>5 DEF FinishVariantB
  <2> DEFINE e == [NoDecision EXCEPT !.op = "syscall", !.session = s, !.Allow = allow,
                 !.Verdict = v, !.Action = action, !.evidence = evid, !.carries = carries,
                 !.shares = shares]
  <2>7. e.op # "deliver"  BY DEF NoDecision
  <2>8. Install(s, gone, Trip(st, v), {}, FALSE, e)  BY <2>6
  <2> HIDE DEF e
  <2>9. Handled(s)  BY <2>3, <2>7, <2>8, VerdictHandled
  <2>. QED  BY <2>9
<1>5. CASE SensorOpen
  <2>1. PICK s \in Sessions, x \in ResultTexts, sens \in BOOLEAN : SeedSensitiveOpen(s, x, sens)
    BY <1>5 DEF SensorOpen
  <2> DEFINE st == LightIfDark(Touched(s), "sensitive_source_touched", now)
  <2>2. SensorMode /\ \E gone \in Evictions(s) : \E added, obs, shed : Install(s, gone, AddTainted(st, added), obs, shed, NoDecision)
    BY <2>1 DEF SeedSensitiveOpen
  <2>3. st \in SessionState /\ Fresh(st) /\ st.Vault = Touched(s).Vault  BY <1>1 DEF LegNames
  <2> HIDE DEF st
  <2>4. Handled(s)  BY <2>2, <2>3, SeedHandled
  <2>. QED  BY <2>4
<1>6. CASE Bridge
  <2>1. PICK s \in Sessions : \/ \E v \in SecretTexts : RegisterRemoteTaint(s, v)
                              \/ RegisterRemoteUntrusted(s)
    BY <1>6 DEF Bridge
  <2>2. ASSUME NEW v \in SecretTexts, RegisterRemoteTaint(s, v) PROVE Handled(s)
    <3> DEFINE st == LightIfDark(Touched(s), "sensitive_source_touched", now)
    <3>1. SensorMode /\ \E gone \in Evictions(s) : \E added, obs, shed : Install(s, gone, AddTainted(st, added), obs, shed, NoDecision)
      BY <2>2 DEF RegisterRemoteTaint
    <3>2. st \in SessionState /\ Fresh(st) /\ st.Vault = Touched(s).Vault  BY <1>1 DEF LegNames
    <3> HIDE DEF st
    <3>. QED  BY <3>1, <3>2, SeedHandled
  <2>3. CASE RegisterRemoteUntrusted(s)
    <3> DEFINE st == LightIfDark(Touched(s), "untrusted_content_present", now)
    <3>1. PICK gone \in Evictions(s) : Install(s, gone, st, {}, FALSE, NoDecision)
      BY <2>3 DEF RegisterRemoteUntrusted
    <3>2. Fresh(st) /\ st.Tainted = Touched(s).Tainted /\ st.Vault = Touched(s).Vault
      BY <1>1 DEF LegNames
    <3>3. NoDecision.op # "deliver"  BY DEF NoDecision
    <3> HIDE DEF st
    <3>. QED  BY <3>1, <3>2, <3>3, QuietHandled
  <2>. QED  BY <2>1, <2>2, <2>3
<1>7. CASE LSMDeny \/ Unattributed
  <2>1. /\ UNCHANGED <<state, observed, unvaulted>>
        /\ \/ \E s, e : decision' = [NoDecision EXCEPT !.op = "lsm_deny", !.session = s,
                            !.Allow = FALSE, !.Verdict = "EXFIL", !.Action = "prevented",
                            !.evidence = e]
           \/ decision' = [NoDecision EXCEPT !.op = "lsm_deny", !.Verdict = "EXFIL",
                             !.Action = "prevented"]
           \/ decision' = [NoDecision EXCEPT !.op = "syscall"]
    BY <1>7 DEF LSMDeny, IngestLSMDeny, Unattributed, RecordUnattributedSyscall
  <2>. QED  BY <2>1 DEF NoDecision
<1>8. CASE Reload \/ Tick
  <2>1. NoDecision.op # "deliver"  BY DEF NoDecision
  <2>. QED  BY <1>8, <2>1 DEF Reload, Configure, Tick
<1>. QED  BY <1>2, <1>3, <1>4, <1>5, <1>6, <1>7, <1>8 DEF Next

(* A handled event leaves no leg lit that either limit has run out on      *)
(* (touchSession prunes before a handler looks at the legs): a SUSPICIOUS  *)
(* verdict rests on recent legs only.                                      *)
THEOREM LegsAreFresh == Spec => LegsFreshWhenTouched
<1> DEFINE Step == \A s \in Sessions :
              state'[s].EventCount > state[s].EventCount =>
                \A l \in LegNames :
                  LET leg == state'[s].Legs[l]
                  IN  leg.Lit =>
                        /\ cfg.legTTL > 0 => now - leg.LitAt < cfg.legTTL
                        /\ cfg.decayAfterCalls > 0 =>
                             state'[s].EventCount - leg.EventsAtLit < cfg.decayAfterCalls
<1>1. ASSUME IInv, [Next]_vars PROVE [Step]_vars
  <2> SUFFICES ASSUME Next PROVE Step  BY <1>1
  <2> SUFFICES ASSUME NEW x \in Sessions, state'[x].EventCount > state[x].EventCount
               PROVE  Fresh(state'[x])
    BY DEF Fresh
  <2>1. state[x].EventCount \in Nat  BY <1>1 DEF IInv, TypeOK, SessionState
  <2>2. state'[x] # state[x]  BY <2>1
  <2>3. state'[x] # FreshSession(0)  BY <2>1 DEF FreshSession
  <2>4. PICK s \in Sessions : Handled(s)  BY <1>1, <2>2, HandlerStep
  <2>. QED  BY <2>2, <2>3, <2>4 DEF Handled
<1>. QED  BY <1>1, EngineInvariant, PTL DEF Spec, LegsFreshWhenTouched

(* If JSON writes the secrets as they are, then whenever the vault is on   *)
(* no result of any tool shows a secret that the session's sensitive       *)
(* sources have given it, except one first read while the vault was off    *)
(* (addTainted, vaultMint, VaultRewriteFrame): what was minted stays in    *)
(* the vault, across reloads and after the taint list shed it.             *)
THEOREM VaultHides ==
  ASSUME Unescaped
  PROVE  Spec => []VaultHidesSecrets
<1> DEFINE Known == \A s \in Sessions :
                      SensorMode \/ observed[s] \ unvaulted[s] \subseteq state[s].Vault
<1>1. Init => Known /\ VaultHidesSecrets
  <2>1. NoDecision.op # "deliver"  BY DEF NoDecision
  <2>. QED  BY <2>1 DEF Init, VaultHidesSecrets
<1>2. ASSUME IInv, Known, VaultHidesSecrets, [Next]_vars PROVE Known' /\ VaultHidesSecrets'
  <2>1. CASE UNCHANGED vars  BY <1>2, <2>1 DEF vars, VaultHidesSecrets
  <2>2. ASSUME NEW s \in Sessions, Handled(s) PROVE Known' /\ VaultHidesSecrets'
    <3>1. PICK obs :
            /\ Sealed(s, state'[s], obs, decision')
            /\ observed'[s] = observed[s] \cup obs
            /\ unvaulted'[s] = IF cfg.vaultEnabled THEN unvaulted[s]
                               ELSE unvaulted[s] \cup (obs \ observed[s])
      BY <2>2 DEF Handled
    <3>2. state[s].Vault \subseteq state'[s].Vault  BY <1>2, <3>1, TouchedFresh DEF Sealed
    <3>3. SensorMode \/ observed'[s] \ unvaulted'[s] \subseteq state'[s].Vault
      <4>1. CASE cfg.vaultEnabled  BY <1>2, <3>1, <3>2, <4>1 DEF Sealed
      <4>2. CASE ~cfg.vaultEnabled  BY <1>2, <3>1, <3>2, <4>2
      <4>. QED  BY <4>1, <4>2
    <3>4. \A x \in Sessions \ {s} :
            SensorMode \/ observed'[x] \ unvaulted'[x] \subseteq state'[x].Vault
      BY <1>2, <2>2 DEF Handled
    <3>5. Known'  BY <3>3, <3>4
    <3>6. cfg' = cfg  BY <2>2 DEF Handled
    <3>7. VaultHidesSecrets'
      <4> SUFFICES ASSUME cfg.vaultEnabled, decision'.op = "deliver"
                   PROVE  decision'.visible \cap observed'[decision'.session]
                            \subseteq unvaulted'[decision'.session]
        BY <3>6 DEF VaultHidesSecrets
      <4>1. decision'.session = s /\ ~SensorMode /\ decision'.visible \cap state'[s].Vault = {}
        BY <3>1 DEF Sealed
      <4>. QED  BY <3>3, <4>1
    <3>. QED  BY <3>5, <3>7
  <2>3. CASE UNCHANGED <<state, observed, unvaulted>> /\ decision'.op # "deliver"
    BY <1>2, <2>3 DEF VaultHidesSecrets
  <2>. QED  BY <1>2, <2>1, <2>2, <2>3, HandlerStep
<1>. QED  BY <1>1, <1>2, EngineInvariant, PTL DEF Spec
=============================================================================
