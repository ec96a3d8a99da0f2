-------------------------- MODULE AttributionProofs --------------------------
(***************************************************************************)
(* Nothing is attributed to a deleted pod, and a process is not attributed *)
(* to another's pod but for a PID that was used again, for any number of   *)
(* pods, containers, PIDs and processes.  First what becomes of a deleted  *)
(* pod: the informer handles one event at a time and gets none of a pod    *)
(* after its deletion, so only the rescan could bring a deleted pod back,  *)
(* and it cannot unless it had the pod in its list at that time; and what  *)
(* the registry attributes to a pod is listed under the pod, so            *)
(* UnregisterPod finds all of it.                                          *)
(***************************************************************************)
EXTENDS Attribution, TLAPS, SequenceTheorems, FiniteSetTheorems

Syncing == {"scan", "sync", "hooks", "cgroups"}
Worker == [step : Syncing \cup {"idle", "next", "unregister", "drop"}, pod : Pods \cup {None},
           ids : SUBSET Containers, keys : SUBSET ProcessKey, added : SUBSET PIDs,
           removed : SUBSET PIDs, cgroups : SUBSET Containers,
           swapped : SUBSET Containers, todo : SUBSET [pod : Pods, ids : SUBSET Containers]]

Types ==
  /\ \A k \in DOMAIN procs : procs[k] \in Containers
  /\ DOMAIN procs \subseteq ProcessKey /\ starts \in 0..MaxStarts
  /\ pods \subseteq Pods /\ containers \in [Pods -> SUBSET Containers] /\ deleted \subseteq Pods
  /\ byPod \in [Pods -> SUBSET ProcessKey] /\ byCgroup \in [Containers -> Pods \cup {None}]
  /\ worker \in [Workers -> Worker]

(* What is attributed to a pod is listed under it.                         *)
Listed == \A k \in DOMAIN entries : \A u \in Pods : entries[k] = u => k \in byPod[u]

(* Which pod each goroutine may be at work on.                             *)
AtWork ==
  /\ worker["informer"].step \in Syncing => worker["informer"].pod \in Pods \ deleted
  /\ worker["informer"].step = "idle" => worker["informer"].pod = None
  /\ worker["informer"].step \in {"unregister", "drop"} => worker["informer"].pod \in Pods
  /\ worker["informer"].todo = {} /\ worker["informer"].step # "next"
  /\ worker["rescan"].step \in Syncing => worker["rescan"].pod \in Pods
  /\ \A u \in deleted : u \notin pods
  /\ \A u \in deleted \ overtaken :
       worker["rescan"].pod # u /\ \A x \in worker["rescan"].todo : x.pod # u

Gone ==
  \A u \in deleted \ overtaken :
    /\ u # worker["informer"].pod => byPod[u] = {} /\ \A c \in Containers : byCgroup[c] # u
    /\ u = worker["informer"].pod /\ worker["informer"].step = "drop" => byPod[u] = {}

IInv == Types /\ Listed /\ AtWork /\ Gone
-----------------------------------------------------------------------------
(* The registry is empty at first.                                         *)
LEMMA InitIInv == Init => IInv
<1> SUFFICES ASSUME Init PROVE IInv
  OBVIOUS
<1>1. Idle \in Worker
  BY DEF Idle, Worker, Syncing
<1>2. Types
  BY <1>1, AttributionAssumption DEF Init, Types
<1>3. Listed /\ AtWork /\ Gone
  BY DEF Init, Listed, AtWork, Gone, Idle, Workers, Syncing
<1> QED
  BY <1>2, <1>3 DEF IInv

(* syncPIDs, in either goroutine.                                          *)
LEMMA SyncIInv == ASSUME IInv, NEW w \in Workers, syncPIDs(w) PROVE IInv'
<1>0. Types /\ Listed /\ AtWork /\ Gone /\ w \in {"informer", "rescan"}
  BY DEF IInv, Workers
<1>p. worker[w].step \in Syncing => worker[w].pod \in Pods /\ worker[w].pod \notin deleted \ overtaken
  BY <1>0 DEF AtWork
<1>1. CASE Scan(w)
  <2> USE <1>1 DEF Scan, node, watcher, registry, cgroupMap, filters
  <2>1. PIDsForContainers(worker[w].ids) \subseteq ProcessKey
    BY <1>0 DEF PIDsForContainers, Types
  <2> DEFINE r == [worker[w] EXCEPT !.step = "sync", !.ids = {},
                                    !.keys = PIDsForContainers(worker[w].ids)]
  <2>q. worker[w] \in Worker  BY <1>0 DEF Types
  <2>r. worker' = [worker EXCEPT ![w] = r] /\ r \in Worker
    <3>1. worker' = [worker EXCEPT ![w] = r]  BY <1>0 DEF Types
    <3>2. r \in Worker  BY <2>1, <2>q DEF Worker, Syncing
    <3>. QED  BY <3>1, <3>2
  <2>2. Types'
    <3> HIDE DEF r
    <3>1. worker' \in [Workers -> Worker]  BY <1>0, <2>r DEF Types
    <3>2. UNCHANGED <<procs, starts, pods, containers, deleted, byPod, byCgroup>>  OBVIOUS
    <3>3. QED
      BY <1>0, <3>1, <3>2 DEF Types
  <2>3. Listed' /\ AtWork' /\ Gone'
    BY <1>0 DEF Types, Worker, Syncing, Workers, Listed, AtWork, Gone
  <2>4. QED
    BY <2>2, <2>3 DEF IInv
<1>2. CASE Sync(w)
  <2> USE DEF Sync, node, watcher, cgroupMap, filters
  <2> DEFINE u == worker[w].pod
             keys == worker[w].keys
             gone == byPod[u] \ keys
             kept == DOMAIN entries \ gone
  <2>0. u \in Pods /\ u \notin deleted \ overtaken /\ keys \subseteq ProcessKey
    BY <1>0, <1>2, <1>p DEF Types, Worker, Workers, Syncing
  <2>1. /\ entries' = [k \in kept \cup keys |-> IF k \in keys THEN u ELSE entries[k]]
        /\ byPod' = [byPod EXCEPT ![u] = keys]
    BY <1>2 DEF SyncPod
  <2>2. worker' = [worker EXCEPT ![w].step = "hooks",
                                 ![w].removed = PIDsOf(byPod[u] \ keys),
                                 ![w].added = PIDsOf(keys \ kept)]
    BY <1>2
  <2>3. PIDsOf(byPod[u] \ keys) \subseteq PIDs /\ PIDsOf(keys \ kept) \subseteq PIDs
    BY <1>0, <2>0 DEF PIDsOf, Types, ProcessKey
  <2>4. Types'
    <3>1. byPod' \in [Pods -> SUBSET ProcessKey]
      BY <1>0, <2>0, <2>1 DEF Types
    <3>2. worker' \in [Workers -> Worker]
      <4> DEFINE r == [worker[w] EXCEPT !.step = "hooks", !.removed = PIDsOf(byPod[u] \ keys),
                                        !.added = PIDsOf(keys \ kept)]
      <4>1. worker[w] \in Worker
        BY <1>0 DEF Types
      <4>2. r \in Worker
        BY <2>3, <4>1 DEF Worker, Syncing
      <4>3. worker' = [worker EXCEPT ![w] = r]
        BY <2>2
      <4>4. QED
        BY <1>0, <4>2, <4>3 DEF Types
    <3>3. QED
      BY <1>0, <1>2, <3>1, <3>2 DEF Types
  <2>5. Listed'
    BY <1>0, <2>0, <2>1 DEF Listed, Types
  <2>6. AtWork'
    BY <1>0, <1>2, <2>2 DEF AtWork, Types, Worker, Workers, Syncing
  <2>7. Gone'
    BY <1>0, <1>2, <2>0, <2>1, <2>2 DEF Gone, Types, Worker, Workers, Syncing
  <2>8. QED
    BY <2>4, <2>5, <2>6, <2>7 DEF IInv
<1>3. CASE Hooks(w)
  <2> DEFINE having == {k \in DOMAIN procs : k.pid \in PIDsOf(worker[w].keys)}
             cgs == {procs[k] : k \in having}
             swapped == {procs[k] : k \in having \ worker[w].keys}
             r == [worker[w] EXCEPT !.step = "cgroups", !.keys = {}, !.added = {},
                                    !.removed = {}, !.cgroups = cgs, !.swapped = swapped]
  <2>1. cgs \subseteq Containers /\ swapped \subseteq Containers
    BY <1>0 DEF Types
  <2>2. worker[w] \in Worker
    BY <1>0 DEF Types
  <2>3. r \in Worker /\ r.step = "cgroups" /\ r.pod = worker[w].pod /\ r.todo = worker[w].todo
    <3> HIDE DEF cgs, swapped
    <3>1. QED
      BY <2>1, <2>2 DEF Worker, Syncing
  <2>4. worker' = [worker EXCEPT ![w] = r] /\ worker[w].step = "hooks"
    BY <1>3 DEF Hooks
  <2>5. UNCHANGED <<node, watcher, registry, cgroupMap, overtaken>>
    BY <1>3 DEF Hooks
  <2> HIDE DEF r
  <2>6. Types'
    BY <1>0, <2>3, <2>4, <2>5 DEF Types, node, watcher, registry, cgroupMap
  <2>7. Listed' /\ AtWork' /\ Gone'
    BY <1>0, <2>3, <2>4, <2>5 DEF Types, Syncing, Workers, Listed, AtWork, Gone, node, watcher, registry, cgroupMap
  <2>8. QED
    BY <2>6, <2>7 DEF IInv
<1>4. CASE Cgroups(w)
  <2> USE DEF Cgroups, node, watcher, registry
  <2> DEFINE next == IF worker[w].todo = {} THEN Idle
                     ELSE [Idle EXCEPT !.step = "next", !.todo = worker[w].todo]
             u == worker[w].pod
  <2>0. u \in Pods /\ u \notin deleted \ overtaken /\ worker[w] \in Worker
    BY <1>0, <1>4, <1>p DEF Types, Workers, Syncing
  <2>1. worker' = [worker EXCEPT ![w] = next]
    BY <1>4 DEF Return
  <2>2. next \in Worker /\ next.pod = None /\ next.step \in {"idle", "next"} /\ next.todo = worker[w].todo
    BY <2>0 DEF Idle, Worker, Syncing
  <2>3. byCgroup' \in [Containers -> Pods \cup {None}]
        /\ \A c \in Containers : byCgroup'[c] \in {u, None, byCgroup[c]}
    BY <1>0, <1>4, <2>0 DEF SetPodCgroups, Types
  <2>4. w = "informer" => next.step = "idle"
    BY <1>0, <2>0 DEF AtWork, Idle
  <2> HIDE DEF next, u
  <2>5. Types'
    BY <1>0, <1>4, <2>1, <2>2, <2>3 DEF Types
  <2>6. Listed'
    BY <1>0, <1>4 DEF Listed
  <2>7. AtWork'
    BY <1>0, <1>4, <2>1, <2>2, <2>4, AttributionAssumption DEF AtWork, Types, Workers, Syncing
  <2>8. Gone'
    <3>1. ASSUME NEW v \in deleted \ overtaken
          PROVE  v # worker["informer"].pod \/ w # "informer"
      BY <1>0, <1>4, <2>0, <3>1 DEF u
    <3>2. QED
      BY <1>0, <1>4, <2>0, <2>1, <2>2, <2>3, <3>1, AttributionAssumption DEF Gone, Types, Workers, Syncing
  <2>9. QED
    BY <2>5, <2>6, <2>7, <2>8 DEF IInv
<1> QED
  BY <1>1, <1>2, <1>3, <1>4 DEF syncPIDs

(* The invariant is inductive.                                             *)
LEMMA NextIInv == IInv /\ [Next]_vars => IInv'
<1> SUFFICES ASSUME IInv, [Next]_vars PROVE IInv'
  OBVIOUS
<1> USE AttributionAssumption
<1>0. Types /\ Listed /\ AtWork /\ Gone
  BY DEF IInv
<1>1. ASSUME NEW p \in PIDs, NEW c \in Containers, StartProcess(p, c) PROVE IInv'
  <2>1. [pid |-> p, start |-> starts + 1] \in ProcessKey /\ starts + 1 \in 0..MaxStarts
    BY <1>0, <1>1 DEF StartProcess, ProcessKey, Types
  <2>2. Types'
    BY <1>0, <1>1, <2>1 DEF StartProcess, Types, watcher, registry, cgroupMap, filters
  <2>3. QED
    BY <1>0, <1>1, <2>2 DEF StartProcess, IInv, Listed, AtWork, Gone, watcher, registry, cgroupMap, filters
<1>2. ASSUME NEW k \in DOMAIN procs, ExitProcess(k) PROVE IInv'
  <2>1. Types'
    BY <1>0, <1>2 DEF ExitProcess, Types, watcher, registry, cgroupMap, filters
  <2>2. QED
    BY <1>0, <1>2, <2>1 DEF ExitProcess, IInv, Listed, AtWork, Gone, watcher, registry, cgroupMap, filters
<1>3. ASSUME NEW u \in Pods, NEW ids \in SUBSET ContainersOf(u), upsertPod(u, ids) PROVE IInv'
  <2> DEFINE r == [Idle EXCEPT !.step = "scan", !.pod = u, !.ids = ids]
  <2>1. ids \subseteq Containers
    BY DEF ContainersOf
  <2>2. r \in Worker /\ r.step = "scan" /\ r.pod = u /\ r.todo = {}
    BY <2>1 DEF Idle, Worker, Syncing
  <2>3. /\ UNCHANGED worker \/ worker' = [worker EXCEPT !["informer"] = r]
        /\ UNCHANGED <<node, registry, cgroupMap, overtaken>>
        /\ pods' = pods \cup {u} /\ u \notin deleted /\ worker["informer"].step = "idle"
        /\ containers' \in [Pods -> SUBSET Containers]
    BY <1>0, <1>3, <2>1 DEF upsertPod, Types
  <2> HIDE DEF r
  <2>4. Types'
    BY <1>0, <2>2, <2>3 DEF Types, Workers, node, registry, cgroupMap
  <2>5. Listed'
    BY <1>0, <2>3 DEF Listed, registry, cgroupMap
  <2>6. AtWork'
    BY <1>0, <2>2, <2>3 DEF AtWork, Types, Workers, Syncing, node
  <2>7. Gone'
    BY <1>0, <2>2, <2>3 DEF Gone, AtWork, Types, Workers, node, registry, cgroupMap
  <2>8. QED
    BY <2>4, <2>5, <2>6, <2>7 DEF IInv
<1>4. ASSUME NEW u \in Pods, removePod(u) PROVE IInv'
  <2> DEFINE r == [Idle EXCEPT !.step = "unregister", !.pod = u]
  <2>1. r \in Worker /\ r.step = "unregister" /\ r.pod = u /\ r.todo = {}
    BY DEF Idle, Worker, Syncing
  <2>2. /\ worker["informer"].step = "idle" /\ u \notin deleted
        /\ deleted' = deleted \cup {u} /\ pods' = pods \ {u}
        /\ containers' = [containers EXCEPT ![u] = {}]
        /\ worker' = [worker EXCEPT !["informer"] = r]
        /\ overtaken \subseteq overtaken'
        /\ u \in overtaken' \/ (worker["rescan"].pod # u /\ \A x \in worker["rescan"].todo : x.pod # u)
        /\ UNCHANGED <<procs, starts, entries, byPod, byCgroup>>
    BY <1>4 DEF removePod, registry, cgroupMap
  <2> HIDE DEF r
  <2>3. Types'
    BY <1>0, <2>1, <2>2 DEF Types, Workers
  <2>4. Listed'
    BY <1>0, <2>2 DEF Listed
  <2>5. AtWork'
    BY <1>0, <2>1, <2>2 DEF AtWork, Types, Workers, Syncing
  <2>6. Gone'
    BY <1>0, <2>1, <2>2 DEF Gone, AtWork, Types, Workers
  <2>7. QED
    BY <2>3, <2>4, <2>5, <2>6 DEF IInv
<1>5. CASE Unregister
  <2> DEFINE u == worker["informer"].pod
             r == [Idle EXCEPT !.step = "drop", !.pod = u, !.removed = PIDsOf(byPod[u])]
  <2>0. u \in Pods /\ worker["informer"].step = "unregister"
    BY <1>0, <1>5 DEF Unregister, AtWork
  <2>1. r \in Worker /\ r.step = "drop" /\ r.pod = u /\ r.todo = {}
    <3>1. PIDsOf(byPod[u]) \subseteq PIDs
      BY <1>0, <2>0 DEF Types, PIDsOf, ProcessKey
    <3>2. QED
      BY <2>0, <3>1 DEF Idle, Worker, Syncing
  <2>2. /\ entries' = [k \in DOMAIN entries \ byPod[u] |-> entries[k]]
        /\ byPod' = [byPod EXCEPT ![u] = {}]
        /\ worker' = [worker EXCEPT !["informer"] = r]
        /\ UNCHANGED <<node, watcher, cgroupMap, overtaken>>
    BY <1>5 DEF Unregister, UnregisterPod
  <2> HIDE DEF r, u
  <2>3. Types'
    BY <1>0, <2>0, <2>1, <2>2 DEF Types, Workers, node, watcher, cgroupMap
  <2>4. Listed'
    BY <1>0, <2>0, <2>2 DEF Listed, Types
  <2>5. AtWork'
    BY <1>0, <2>0, <2>1, <2>2 DEF AtWork, Types, Workers, Syncing, node, watcher
  <2>6. Gone'
    BY <1>0, <2>0, <2>1, <2>2 DEF Gone, Types, Workers, node, cgroupMap, u
  <2>7. QED
    BY <2>3, <2>4, <2>5, <2>6 DEF IInv
<1>6. CASE Drop
  <2> DEFINE u == worker["informer"].pod
  <2>0. u \in Pods /\ worker["informer"].step = "drop" /\ worker' = [worker EXCEPT !["informer"] = Idle]
        /\ UNCHANGED <<node, watcher, entries, byPod, overtaken>>
    BY <1>0, <1>6 DEF Drop, AtWork, registry, cgroupMap
  <2>1. /\ byCgroup' \in [Containers -> Pods \cup {None}]
        /\ \A c \in Containers : byCgroup'[c] # u /\ byCgroup'[c] \in {None, byCgroup[c]}
    BY <1>0, <1>6, <2>0 DEF Drop, SetPodCgroups, Types
  <2>2. Idle \in Worker /\ Idle.step = "idle" /\ Idle.pod = None /\ Idle.todo = {}
    BY DEF Idle, Worker, Syncing
  <2>3. Types'
    BY <1>0, <2>0, <2>1, <2>2 DEF Types, Workers, node, watcher
  <2>4. Listed'
    BY <1>0, <2>0 DEF Listed
  <2>5. AtWork'
    BY <1>0, <2>0, <2>2 DEF AtWork, Types, Workers, Syncing, node, watcher
  <2>6. Gone'
    BY <1>0, <2>0, <2>1, <2>2 DEF Gone, Types, Workers, node
  <2>7. QED
    BY <2>3, <2>4, <2>5, <2>6 DEF IInv
<1>7. CASE rescanAll
  <2> DEFINE work == {[pod |-> u, ids |-> containers[u]] : u \in {v \in pods : containers[v] # {}}}
             r == [Idle EXCEPT !.step = "next", !.todo = work]
  <2>1. work \subseteq [pod : Pods, ids : SUBSET Containers] /\ \A x \in work : x.pod \in pods
    BY <1>0 DEF Types
  <2>2. r \in Worker /\ r.step = "next" /\ r.pod = None /\ r.todo = work
    <3> HIDE DEF work
    <3>1. QED
      BY <2>1 DEF Idle, Worker, Syncing
  <2>3. worker' = [worker EXCEPT !["rescan"] = r] /\ UNCHANGED <<node, watcher, registry, cgroupMap, overtaken>>
    BY <1>7 DEF rescanAll
  <2> HIDE DEF r, work
  <2>4. Types'
    BY <1>0, <2>2, <2>3 DEF Types, Workers, node, watcher, registry, cgroupMap
  <2>5. AtWork'
    BY <1>0, <2>1, <2>2, <2>3 DEF AtWork, Types, Workers, Syncing, node, watcher
  <2>6. Listed' /\ Gone'
    BY <1>0, <2>3 DEF Listed, Gone, Types, Workers, node, registry, cgroupMap
  <2>7. QED
    BY <2>4, <2>5, <2>6 DEF IInv
<1>8. CASE rescanNext
  <2>0. PICK x \in worker["rescan"].todo :
          worker' = [worker EXCEPT !["rescan"] = [Idle EXCEPT !.step = "scan", !.pod = x.pod,
                       !.ids = x.ids, !.todo = worker["rescan"].todo \ {x}]]
    BY <1>8 DEF rescanNext
  <2> DEFINE r == [Idle EXCEPT !.step = "scan", !.pod = x.pod, !.ids = x.ids,
                               !.todo = worker["rescan"].todo \ {x}]
  <2>1. worker["rescan"] \in Worker
    BY <1>0 DEF Types, Workers
  <2>2. r \in Worker /\ r.step = "scan" /\ r.pod = x.pod /\ r.todo \subseteq worker["rescan"].todo
        /\ x.pod \in Pods
    BY <2>1 DEF Idle, Worker, Syncing
  <2>3. worker' = [worker EXCEPT !["rescan"] = r] /\ UNCHANGED <<node, watcher, registry, cgroupMap, overtaken>>
    BY <1>8, <2>0 DEF rescanNext
  <2> HIDE DEF r
  <2>4. Types'
    BY <1>0, <2>2, <2>3 DEF Types, Workers, node, watcher, registry, cgroupMap
  <2>5. AtWork'
    BY <1>0, <2>2, <2>3 DEF AtWork, Types, Workers, Syncing, node, watcher
  <2>6. Listed' /\ Gone'
    BY <1>0, <2>3 DEF Listed, Gone, Types, Workers, node, registry, cgroupMap
  <2>7. QED
    BY <2>4, <2>5, <2>6 DEF IInv
<1>9. CASE UNCHANGED vars
  BY <1>0, <1>9 DEF vars, node, watcher, registry, cgroupMap, filters, IInv, Types, Listed, AtWork, Gone
<1> QED
  BY <1>1, <1>2, <1>3, <1>4, <1>5, <1>6, <1>7, <1>8, <1>9, SyncIInv
     DEF Next, Informer, Rescan, Workers

-----------------------------------------------------------------------------
(***************************************************************************)
(* Attribution is to the right pod or to none, but for PIDs used again.    *)
(* Keys in the registry are of processes that were started: a process that *)
(* still runs is of the pod it is registered for, and a new one is none of *)
(* them.  A cgroup read by PID is of the pod, or counted as misread.       *)
(***************************************************************************)
Right(k, u) == k.start <= starts /\ (k \in DOMAIN procs => PodOf[procs[k]] = u)

(* The node, and what the watcher knows of it.                             *)
Seen ==
  /\ \A k \in DOMAIN procs : k.start <= starts
  /\ \A u \in Pods : containers[u] \subseteq ContainersOf(u)
  /\ misread = [u \in Pods |-> misread[u]]

(* The registry.                                                           *)
Traced ==
  /\ \A k \in DOMAIN entries : k \in ProcessKey /\ Right(k, entries[k])
  /\ byPID \in [PIDs -> Seq(ProcessKey)]
  /\ \A p \in PIDs : \A i \in DOMAIN byPID[p] :
       byPID[p][i] \in DOMAIN entries /\ byPID[p][i].pid = p
  /\ \A c \in Containers :
       byCgroup[c] # None => PodOf[c] = byCgroup[c] \/ c \in misread[byCgroup[c]]

(* What a goroutine is about to put there.                                 *)
Carries(x) ==
  /\ x.ids \subseteq ContainersOf(x.pod)
  /\ \A y \in x.todo : y.ids \subseteq ContainersOf(y.pod)
  /\ \A k \in x.keys : Right(k, x.pod)
  /\ \A c \in x.cgroups : PodOf[c] = x.pod \/ c \in x.swapped

TInv == IInv /\ Seen /\ Traced /\ \A w \in Workers : Carries(worker[w])
-----------------------------------------------------------------------------
(* A non-empty set of naturals has a least element.                        *)
LEMMA LeastNat ==
  ASSUME NEW S, S \subseteq Nat, S # {}
  PROVE  \E n \in S : \A m \in S : ~(m < n)
<1>1. IsWellFoundedOn(OpToRel(<, Nat), Nat)  BY NatLessThanWellFounded
<1>2. \E x \in S : \A y \in S : ~ (<<y, x>> \in OpToRel(<, Nat))
  BY <1>1, WFMin
<1>3. \A x, y \in Nat : y < x => <<y, x>> \in OpToRel(<, Nat)
  BY DEF OpToRel
<1>. QED  BY <1>2, <1>3

(* In a finite set of places there is one with k others before it, for     *)
(* every k less than their number.                                         *)
LEMMA PlaceOfRank ==
  ASSUME NEW S, S \subseteq Nat, IsFiniteSet(S), NEW k \in Nat, k < Cardinality(S)
  PROVE  \E i \in S : Cardinality({j \in S : j < i}) = k
<1> DEFINE Before(i) == {j \in S : j < i}
           N   == Cardinality(S)
           Bad == {n \in Nat : n < N /\ ~ \E i \in S : Cardinality(Before(i)) = n}
<1> SUFFICES ASSUME Bad # {} PROVE FALSE
  OBVIOUS
<1>1. PICK n \in Bad : \A m \in Bad : ~(m < n)
  <2>1. Bad \subseteq Nat  OBVIOUS
  <2> HIDE DEF Bad
  <2>. QED  BY <2>1, LeastNat
<1>2. n \in Nat /\ n < N /\ N \in Nat  BY FS_CardinalityType
<1>3. CASE n = 0
  <2>1. S # {}  BY <1>2, <1>3, FS_EmptySet
  <2>2. PICK i \in S : \A m \in S : ~(m < i)  BY <2>1, LeastNat
  <2>3. Before(i) = {}  BY <2>2
  <2>4. Cardinality(Before(i)) = 0  BY <2>3, FS_EmptySet
  <2>. QED  BY <1>3, <2>4
<1>4. CASE n > 0
  <2>1. n - 1 \in Nat /\ n - 1 < N /\ n - 1 < n  BY <1>2, <1>4
  <2>2. n - 1 \notin Bad
    <3> HIDE DEF Bad
    <3>. QED  BY <1>1, <2>1
  <2>3. PICK i \in S : Cardinality(Before(i)) = n - 1  BY <2>1, <2>2
  <2> DEFINE Upto  == Before(i) \cup {i}
             After == {j \in S : j > i}
  <2>4. IsFiniteSet(Before(i)) /\ i \notin Before(i)  BY FS_Subset
  <2>5. Cardinality(Upto) = n
    <3> HIDE DEF Before
    <3>1. Cardinality(Upto) = Cardinality(Before(i)) + 1  BY <2>4, FS_AddElement
    <3>. QED  BY <1>2, <2>3, <3>1
  <2>6. S = Upto \cup After
    <3>1. \A j \in S : j < i \/ j = i \/ j > i  OBVIOUS
    <3>. QED  BY <3>1
  <2>7. After # {}
    <3> SUFFICES ASSUME After = {} PROVE FALSE
      OBVIOUS
    <3>1. S = Upto  BY <2>6
    <3> HIDE DEF Upto
    <3>. QED  BY <1>2, <2>5, <3>1
  <2>8. PICK j \in After : \A m \in After : ~(m < j)
    <3>1. After \subseteq Nat  OBVIOUS
    <3> HIDE DEF After
    <3>. QED  BY <2>7, <3>1, LeastNat
  <2>9. Before(j) = Upto
    <3>1. j \in Nat /\ i \in Nat /\ j > i  OBVIOUS
    <3>2. \A m \in S : m < j => ~(m > i)
      <4> SUFFICES ASSUME NEW m \in S, m < j, m > i PROVE FALSE
        OBVIOUS
      <4>1. m \in After  OBVIOUS
      <4>. QED  BY <2>8, <3>1, <4>1
    <3>3. \A m \in S : m < j <=> (m < i \/ m = i)  BY <3>1, <3>2
    <3>. QED  BY <3>3
  <2>10. Cardinality(Before(j)) = n /\ j \in S
    <3>1. j \in S  OBVIOUS
    <3> HIDE DEF Before, Upto
    <3>. QED  BY <2>5, <2>9, <3>1
  <2>11. ~ \E x \in S : Cardinality(Before(x)) = n  OBVIOUS
  <2> HIDE DEF Before, Bad, After
  <2>. QED  BY <2>10, <2>11
<1>. QED  BY <1>2, <1>3, <1>4

(* What Without leaves was there, and was to stay.                         *)
LEMMA WithoutKeeps ==
  ASSUME NEW S, NEW s \in Seq(S), NEW gone
  PROVE  /\ Without(s, gone) \in Seq(S)
         /\ \A i \in DOMAIN Without(s, gone) :
              \E j \in DOMAIN s : Without(s, gone)[i] = s[j] /\ s[j] \notin gone
<1> DEFINE places == {i \in DOMAIN s : s[i] \notin gone}
           n      == Cardinality(places)
           Of(k)  == CHOOSE i \in places : Cardinality({j \in places : j < i}) = k - 1
           w      == Without(s, gone)
<1>1. Len(s) \in Nat /\ DOMAIN s = 1..Len(s) /\ \A i \in DOMAIN s : s[i] \in S
  BY LenProperties
<1>2. places \subseteq Nat /\ places \subseteq DOMAIN s  BY <1>1
<1>3. IsFiniteSet(places) /\ n \in Nat
  <2>1. IsFiniteSet(1..Len(s))  BY <1>1, FS_Interval
  <2>2. IsFiniteSet(places)  BY <1>1, <2>1, FS_Subset
  <2> HIDE DEF places
  <2>. QED  BY <2>2, FS_CardinalityType
<1>4. w = [k \in 1..n |-> s[Of(k)]]  BY DEF Without, Subsequence
<1>5. ASSUME NEW k \in 1..n PROVE Of(k) \in places
  <2> HIDE DEF places
  <2>1. k - 1 \in Nat /\ k - 1 < Cardinality(places)  BY <1>3
  <2>2. PICK m \in Nat : m = k - 1  BY <2>1
  <2>3. \E i \in places : Cardinality({j \in places : j < i}) = m
    BY <1>2, <1>3, <2>1, <2>2, PlaceOfRank
  <2>4. \E i \in places : Cardinality({j \in places : j < i}) = k - 1  BY <2>2, <2>3
  <2>. QED  BY <2>4
<1>6. \A k \in 1..n : Of(k) \in DOMAIN s /\ s[Of(k)] \notin gone  BY <1>5
<1> HIDE DEF w, n, Of, places
<1>7. w \in [1..n -> S]  BY <1>1, <1>4, <1>6
<1>8. w \in Seq(S)  BY <1>3, <1>7, SeqDef
<1>9. \A i \in DOMAIN w : \E j \in DOMAIN s : w[i] = s[j] /\ s[j] \notin gone
  BY <1>4, <1>6
<1>. QED  BY <1>8, <1>9 DEF w

(* A finite set is listed by its own members.                              *)
LEMMA ListedFromSet ==
  ASSUME NEW S, IsFiniteSet(S)
  PROVE  SetToSeq(S) \in Seq(S)
<1>1. Cardinality(S) \in Nat /\ ExistsBijection(1..Cardinality(S), S)  BY FS_CardinalityType
<1>2. \E f \in [1..Cardinality(S) -> S] : IsInjective(f)
  BY <1>1 DEF ExistsBijection, Bijection, Injection, IsInjective
<1>3. SetToSeq(S) \in [1..Cardinality(S) -> S]  BY <1>2 DEF SetToSeq
<1>. QED  BY <1>1, <1>3, SeqDef

(* The processes of one PID are finitely many.                             *)
LEMMA KeysOfPIDFinite ==
  ASSUME NEW p \in PIDs, NEW K, K \subseteq ProcessKey, \A k \in K : k.pid = p
  PROVE  IsFiniteSet(K)
<1> DEFINE f == [k \in K |-> k.start]
<1>1. IsFiniteSet(1..MaxStarts)  BY AttributionAssumption, FS_Interval
<1>2. f \in [K -> 1..MaxStarts]  BY DEF ProcessKey
<1>3. \A j, k \in K : f[j] = f[k] => j = k  BY DEF ProcessKey
<1>4. f \in Injection(K, 1..MaxStarts)  BY <1>2, <1>3 DEF Injection, IsInjective
<1>. QED  BY <1>1, <1>4, FS_Injection
-----------------------------------------------------------------------------
(* A goroutine's next record of what it is doing, and the others'.         *)
LEMMA CarryOn ==
  ASSUME TInv, IInv', NEW w \in Workers, NEW r, worker' = [worker EXCEPT ![w] = r],
         UNCHANGED <<procs, starts>>, Carries(r), Seen', Traced'
  PROVE  TInv'
<1>1. \A v \in Workers : Carries(worker[v])  BY DEF TInv
<1>2. worker'[w] = r /\ \A v \in Workers \ {w} : worker'[v] = worker[v]
  BY DEF TInv, IInv, Types
<1>3. (\A v \in Workers : Carries(worker[v]))'
  BY <1>1, <1>2 DEF Carries, Right
<1>. QED  BY <1>3 DEF TInv

(* A new process is none of those that were scanned or registered.         *)
LEMMA StartTraced == ASSUME TInv, IInv', NEW p \in PIDs, NEW c \in Containers, StartProcess(p, c)
                     PROVE  TInv'
<1> DEFINE new == [pid |-> p, start |-> starts + 1]
<1>1. /\ procs' = [k \in DOMAIN procs \cup {new} |-> IF k \in DOMAIN procs THEN procs[k] ELSE c]
      /\ starts' = starts + 1
      /\ UNCHANGED <<watcher, registry, cgroupMap, worker>>
  BY DEF StartProcess
<1>2. starts \in Nat /\ DOMAIN procs \subseteq ProcessKey
      /\ \A k \in ProcessKey : k.start \in Nat
  BY AttributionAssumption DEF TInv, IInv, Types, ProcessKey
<1>3. ASSUME NEW k \in ProcessKey, NEW u, Right(k, u) PROVE Right(k, u)'
  <2>1. k # new  BY <1>2, <1>3 DEF Right
  <2>. QED  BY <1>1, <1>2, <1>3, <2>1 DEF Right
<1>4. Seen'
  <2>1. \A k \in DOMAIN procs' : k.start <= starts'
    BY <1>1, <1>2 DEF TInv, Seen
  <2>. QED  BY <1>1, <2>1 DEF TInv, Seen, watcher, cgroupMap
<1> HIDE DEF new
<1>5. Traced'
  <2>1. \A k \in DOMAIN entries : k \in ProcessKey /\ Right(k, entries[k])'
    BY <1>1, <1>3 DEF TInv, Traced, registry
  <2>. QED  BY <1>1, <2>1 DEF TInv, Traced, registry, cgroupMap
<1>6. (\A v \in Workers : Carries(worker[v]))'
  <2> SUFFICES ASSUME NEW v \in Workers PROVE Carries(worker[v])'
    OBVIOUS
  <2>1. Carries(worker[v]) /\ worker'[v] = worker[v] /\ worker[v] \in Worker
    BY <1>1 DEF TInv, IInv, Types
  <2>2. \A k \in worker[v].keys : Right(k, worker[v].pod)'
    <3>1. \A k \in worker[v].keys : k \in ProcessKey  BY <2>1 DEF Worker
    <3>. QED  BY <1>1, <1>3, <2>1, <3>1 DEF Carries
  <2>. QED  BY <2>1, <2>2 DEF Carries
<1>. QED  BY <1>4, <1>5, <1>6 DEF TInv

LEMMA ExitTraced == ASSUME TInv, IInv', NEW k \in DOMAIN procs, ExitProcess(k) PROVE TInv'
<1>1. /\ procs' = [j \in DOMAIN procs \ {k} |-> procs[j]]
      /\ UNCHANGED <<starts, watcher, registry, cgroupMap, worker>>
  BY DEF ExitProcess
<1>2. \A j, u : Right(j, u) => Right(j, u)'  BY <1>1 DEF Right
<1>3. Seen'  BY <1>1 DEF TInv, Seen, watcher, cgroupMap
<1>4. Traced'
  <2>1. \A j \in DOMAIN entries : Right(j, entries[j])'  BY <1>1, <1>2 DEF TInv, Traced, registry
  <2>. QED  BY <1>1, <2>1 DEF TInv, Traced, registry, cgroupMap
<1>5. (\A v \in Workers : Carries(worker[v]))'
  <2>1. \A v \in Workers : \A j \in worker[v].keys : Right(j, worker[v].pod)'
    BY <1>1, <1>2 DEF TInv, Carries
  <2>. QED  BY <1>1, <2>1 DEF TInv, Carries
<1>. QED  BY <1>3, <1>4, <1>5 DEF TInv

(* A scan finds processes of the pod only.                                 *)
LEMMA ScanTraced == ASSUME TInv, IInv', NEW w \in Workers, Scan(w) PROVE TInv'
<1> DEFINE r == [worker[w] EXCEPT !.step = "sync", !.ids = {},
                                  !.keys = PIDsForContainers(worker[w].ids)]
<1>1. worker' = [worker EXCEPT ![w] = r] /\ UNCHANGED <<node, watcher, registry, cgroupMap>>
  BY DEF Scan, TInv, IInv, Types
<1>2. worker[w] \in Worker /\ Carries(worker[w])  BY DEF TInv, IInv, Types
<1>3. /\ r.ids = {} /\ r.keys = PIDsForContainers(worker[w].ids) /\ r.pod = worker[w].pod
      /\ r.cgroups = worker[w].cgroups /\ r.swapped = worker[w].swapped /\ r.todo = worker[w].todo
  BY <1>2 DEF Worker
<1>4. \A k \in PIDsForContainers(worker[w].ids) : Right(k, worker[w].pod)
  BY <1>2 DEF PIDsForContainers, TInv, Seen, Carries, ContainersOf, Right
<1> HIDE DEF r
<1>5. Carries(r)  BY <1>2, <1>3, <1>4 DEF Carries
<1>6. Seen' /\ Traced'
  BY <1>1 DEF TInv, Seen, Traced, Right, node, watcher, registry, cgroupMap
<1>. QED  BY <1>1, <1>5, <1>6, CarryOn DEF node

LEMMA SyncTraced == ASSUME TInv, IInv', NEW w \in Workers, Sync(w) PROVE TInv'
<1> DEFINE u == worker[w].pod
           keys == worker[w].keys
           gone == byPod[u] \ keys
           kept == DOMAIN entries \ gone
           new  == keys \ kept
           Left(p) == Without(byPID[p], gone)
           More(p) == SetToSeq({k \in new : k.pid = p})
           r == [worker[w] EXCEPT !.step = "hooks", !.removed = PIDsOf(gone), !.added = PIDsOf(new)]
<1>1. /\ worker' = [worker EXCEPT ![w] = r] /\ UNCHANGED <<node, watcher, cgroupMap>>
      /\ entries' = [k \in kept \cup keys |-> IF k \in keys THEN u ELSE entries[k]]
      /\ byPID' = [p \in PIDs |-> Left(p) \o More(p)]
  BY DEF Sync, SyncPod, filterPIDKeys, TInv, IInv, Types
<1>2. worker[w] \in Worker /\ Carries(worker[w]) /\ keys \subseteq ProcessKey
  BY DEF TInv, IInv, Types, Worker
<1>3. /\ r.ids = worker[w].ids /\ r.keys = keys /\ r.pod = u
      /\ r.cgroups = worker[w].cgroups /\ r.swapped = worker[w].swapped /\ r.todo = worker[w].todo
  BY <1>2 DEF Worker
<1> HIDE DEF r
<1>4. Carries(r)  BY <1>2, <1>3 DEF Carries
<1>5. Seen'  BY <1>1 DEF TInv, Seen, node, watcher, cgroupMap
<1>6. Traced'
  <2>1. /\ \A k \in DOMAIN entries : k \in ProcessKey /\ Right(k, entries[k])
        /\ \A k \in keys : Right(k, u)
        /\ byPID \in [PIDs -> Seq(ProcessKey)]
    BY <1>2 DEF TInv, Traced, Carries
  <2>2. \A k \in DOMAIN entries' : k \in ProcessKey /\ Right(k, entries'[k])
    BY <1>1, <1>2, <2>1
  <2>3. ASSUME NEW p \in PIDs
        PROVE  /\ byPID'[p] \in Seq(ProcessKey)
               /\ \A i \in DOMAIN byPID'[p] :
                    byPID'[p][i] \in DOMAIN entries' /\ byPID'[p][i].pid = p
    <3> DEFINE l == Left(p)
               m == More(p)
               K == {k \in new : k.pid = p}
               D == {k \in DOMAIN entries' : k \in ProcessKey /\ k.pid = p}
    <3>1. l \in Seq(ProcessKey) /\ \A i \in DOMAIN l : l[i] \in D
      <4>1. PICK q : q = byPID[p]  OBVIOUS
      <4>2. PICK g : g = gone  OBVIOUS
      <4>3. q \in Seq(ProcessKey)  BY <2>1, <4>1
      <4>4. /\ Without(q, g) \in Seq(ProcessKey)
            /\ \A i \in DOMAIN Without(q, g) :
                 \E j \in DOMAIN q : Without(q, g)[i] = q[j] /\ q[j] \notin g
        BY <4>3, WithoutKeeps
      <4>5. l = Without(q, g)  BY <4>1, <4>2
      <4>6. \A j \in DOMAIN q : q[j] \in DOMAIN entries /\ q[j].pid = p
        BY <4>1 DEF TInv, Traced
      <4>7. \A j \in DOMAIN q : q[j] \notin g => q[j] \in D
        BY <1>1, <2>1, <4>2, <4>6
      <4> HIDE DEF l, D
      <4>. QED  BY <4>4, <4>5, <4>7
    <3>2. m \in Seq(K)
      <4>1. PICK S : S = K  OBVIOUS
      <4>2. IsFiniteSet(S)
        <5>1. K \subseteq ProcessKey /\ \A k \in K : k.pid = p  BY <1>2
        <5> HIDE DEF K
        <5>. QED  BY <4>1, <5>1, KeysOfPIDFinite
      <4>3. SetToSeq(S) \in Seq(S)  BY <4>2, ListedFromSet
      <4>. QED  BY <4>1, <4>3
    <3>3. K \subseteq D  BY <1>1, <1>2
    <3> HIDE DEF K, m, l
    <3>4. l \in Seq(D) /\ m \in Seq(D)
      <4>1. Len(l) \in Nat /\ DOMAIN l = 1..Len(l) /\ l \in [1..Len(l) -> ProcessKey]
        BY <3>1, LenProperties
      <4>2. Len(m) \in Nat /\ m \in [1..Len(m) -> K]  BY <3>2, LenProperties
      <4>3. l \in [1..Len(l) -> D] /\ m \in [1..Len(m) -> D]
        <5> HIDE DEF D
        <5>. QED  BY <3>1, <3>3, <4>1, <4>2
      <4> HIDE DEF D
      <4>. QED  BY <4>1, <4>2, <4>3, SeqDef
    <3>5. byPID'[p] = l \o m  BY <1>1 DEF l, m
    <3>6. D \subseteq ProcessKey  OBVIOUS
    <3>7. byPID'[p] \in Seq(D)
      <4> HIDE DEF D
      <4>. QED  BY <3>4, <3>5, ConcatProperties
    <3>8. /\ Len(byPID'[p]) \in Nat /\ DOMAIN byPID'[p] = 1..Len(byPID'[p])
          /\ byPID'[p] \in [1..Len(byPID'[p]) -> D]
      <4> HIDE DEF D
      <4>. QED  BY <3>7, LenProperties
    <3>9. byPID'[p] \in Seq(ProcessKey)
      <4>1. byPID'[p] \in [1..Len(byPID'[p]) -> ProcessKey]
        <5> HIDE DEF D
        <5>. QED  BY <3>6, <3>8
      <4>. QED  BY <3>8, <4>1, SeqDef
    <3>. QED  BY <3>8, <3>9
  <2>4. byPID' \in [PIDs -> Seq(ProcessKey)]  BY <1>1, <2>3
  <2>5. UNCHANGED <<procs, starts, byCgroup, misread>>  BY <1>1 DEF node, cgroupMap
  <2>6. \A c \in Containers :
          byCgroup[c] # None => PodOf[c] = byCgroup[c] \/ c \in misread[byCgroup[c]]
    BY DEF TInv, Traced
  <2> HIDE DEF Left, More, new, kept, gone, keys, u
  <2>. QED  BY <2>2, <2>3, <2>4, <2>5, <2>6 DEF Traced, Right
<1>. QED  BY <1>1, <1>4, <1>5, <1>6, CarryOn DEF node

(* A cgroup found is of the process scanned, or counts as swapped.         *)
LEMMA HooksTraced == ASSUME TInv, IInv', NEW w \in Workers, Hooks(w) PROVE TInv'
<1> DEFINE having == {k \in DOMAIN procs : k.pid \in PIDsOf(worker[w].keys)}
           cgs == {procs[k] : k \in having}
           swapped == {procs[k] : k \in having \ worker[w].keys}
           r == [worker[w] EXCEPT !.step = "cgroups", !.keys = {}, !.added = {},
                                  !.removed = {}, !.cgroups = cgs, !.swapped = swapped]
<1>1. worker' = [worker EXCEPT ![w] = r] /\ UNCHANGED <<node, watcher, registry, cgroupMap>>
  BY DEF Hooks, TInv, IInv, Types
<1>2. worker[w] \in Worker /\ Carries(worker[w])  BY DEF TInv, IInv, Types
<1>3. ASSUME NEW c \in cgs PROVE PodOf[c] = worker[w].pod \/ c \in swapped
  <2>1. PICK k \in having : c = procs[k]  OBVIOUS
  <2>2. CASE k \in worker[w].keys  BY <1>2, <2>1, <2>2 DEF Carries, Right
  <2>3. CASE k \notin worker[w].keys  BY <2>1, <2>3
  <2>. QED  BY <2>2, <2>3
<1>4. /\ r.ids = worker[w].ids /\ r.keys = {} /\ r.pod = worker[w].pod
      /\ r.cgroups = cgs /\ r.swapped = swapped /\ r.todo = worker[w].todo
  <2> HIDE DEF cgs, swapped
  <2>. QED  BY <1>2 DEF Worker
<1> HIDE DEF r, cgs, swapped
<1>5. Carries(r)  BY <1>2, <1>3, <1>4 DEF Carries
<1>6. Seen' /\ Traced'
  BY <1>1 DEF TInv, Seen, Traced, Right, node, watcher, registry, cgroupMap
<1>. QED  BY <1>1, <1>5, <1>6, CarryOn DEF node

(* What SetPodCgroups makes of the cgroups.                                *)
LEMMA CgroupsSet ==
  ASSUME TInv, NEW u \in Pods, NEW ids, NEW swapped, SetPodCgroups(u, ids, swapped),
         \A c \in ids : PodOf[c] = u \/ c \in swapped
  PROVE  /\ misread' = [v \in Pods |-> misread'[v]]
         /\ \A c \in Containers :
              byCgroup'[c] # None => PodOf[c] = byCgroup'[c] \/ c \in misread'[byCgroup'[c]]
<1>1. /\ misread = [v \in Pods |-> misread[v]] /\ byCgroup \in [Containers -> Pods \cup {None}]
      /\ \A c \in Containers :
           byCgroup[c] # None => PodOf[c] = byCgroup[c] \/ c \in misread[byCgroup[c]]
  BY DEF TInv, Seen, Traced, IInv, Types
<1>2. /\ misread' = [misread EXCEPT ![u] = swapped]
      /\ \A c \in Containers : byCgroup'[c] = IF c \in ids THEN u
                                               ELSE IF byCgroup[c] = u THEN None ELSE byCgroup[c]
  BY DEF SetPodCgroups
<1>3. misread'[u] = swapped /\ \A v \in Pods \ {u} : misread'[v] = misread[v]
  BY <1>1, <1>2
<1>4. misread' = [v \in Pods |-> misread'[v]]  BY <1>1, <1>2
<1>5. ASSUME NEW c \in Containers, byCgroup'[c] # None
      PROVE  PodOf[c] = byCgroup'[c] \/ c \in misread'[byCgroup'[c]]
  <2>1. CASE c \in ids  BY <1>2, <1>3, <2>1
  <2>2. CASE c \notin ids
    <3>1. byCgroup'[c] = byCgroup[c] /\ byCgroup[c] \in Pods \ {u}  BY <1>1, <1>2, <1>5, <2>2
    <3>. QED  BY <1>1, <1>3, <1>5, <3>1
  <2>. QED  BY <2>1, <2>2
<1>. QED  BY <1>4, <1>5

LEMMA CgroupsTraced == ASSUME TInv, IInv', NEW w \in Workers, Cgroups(w) PROVE TInv'
<1> DEFINE r == IF worker[w].todo = {} THEN Idle
                ELSE [Idle EXCEPT !.step = "next", !.todo = worker[w].todo]
<1>1. /\ worker' = [worker EXCEPT ![w] = r] /\ UNCHANGED <<node, watcher, registry>>
      /\ SetPodCgroups(worker[w].pod, worker[w].cgroups, worker[w].swapped)
  BY DEF Cgroups, Return
<1>2. Carries(worker[w]) /\ worker[w].pod \in Pods
  BY DEF Cgroups, TInv, IInv, AtWork, Syncing, Workers
<1>3. r.ids = {} /\ r.keys = {} /\ r.cgroups = {} /\ r.todo = worker[w].todo  BY DEF Idle
<1> HIDE DEF r
<1>4. Carries(r)  BY <1>2, <1>3 DEF Carries
<1>5. /\ misread' = [v \in Pods |-> misread'[v]]
      /\ \A c \in Containers :
           byCgroup'[c] # None => PodOf[c] = byCgroup'[c] \/ c \in misread'[byCgroup'[c]]
  BY <1>1, <1>2, CgroupsSet DEF Carries
<1>6. Seen'  BY <1>1, <1>5 DEF TInv, Seen, node, watcher
<1>7. Traced'  BY <1>1, <1>5 DEF TInv, Traced, Right, node, registry
<1>. QED  BY <1>1, <1>4, <1>6, <1>7, CarryOn DEF node

LEMMA InformerTraced ==
  ASSUME TInv, IInv',
         \/ \E u \in Pods : removePod(u) \/ \E ids \in SUBSET ContainersOf(u) : upsertPod(u, ids)
         \/ Unregister \/ Drop
  PROVE  TInv'
<1>0. "informer" \in Workers  BY DEF Workers
<1>1. ASSUME NEW u \in Pods, NEW ids \in SUBSET ContainersOf(u), upsertPod(u, ids) PROVE TInv'
  <2> DEFINE r == [Idle EXCEPT !.step = "scan", !.pod = u, !.ids = ids]
  <2>1. /\ UNCHANGED <<node, registry, cgroupMap>>
        /\ \/ UNCHANGED <<containers, worker>>
           \/ /\ containers' = [containers EXCEPT ![u] = ids]
              /\ worker' = [worker EXCEPT !["informer"] = r]
    BY <1>1 DEF upsertPod
  <2>2. r.ids = ids /\ r.pod = u /\ r.keys = {} /\ r.cgroups = {} /\ r.todo = {}  BY DEF Idle
  <2> HIDE DEF r
  <2>3. Carries(r)  BY <2>2 DEF Carries
  <2>4. Seen' /\ Traced'
    BY <2>1 DEF TInv, IInv, Types, Seen, Traced, Right, node, registry, cgroupMap
  <2>5. CASE UNCHANGED worker
    <3>1. (\A v \in Workers : Carries(worker[v]))'
      BY <2>1, <2>5 DEF TInv, Carries, Right, node
    <3>. QED  BY <2>4, <3>1 DEF TInv
  <2>6. CASE worker' = [worker EXCEPT !["informer"] = r]
    BY <1>0, <2>1, <2>3, <2>4, <2>6, CarryOn DEF node
  <2>. QED  BY <2>1, <2>5, <2>6
<1>2. ASSUME NEW u \in Pods, removePod(u) PROVE TInv'
  <2> DEFINE r == [Idle EXCEPT !.step = "unregister", !.pod = u]
  <2>1. /\ UNCHANGED <<procs, starts, registry, cgroupMap>>
        /\ containers' = [containers EXCEPT ![u] = {}]
        /\ worker' = [worker EXCEPT !["informer"] = r]
    BY <1>2 DEF removePod
  <2>2. r.ids = {} /\ r.keys = {} /\ r.cgroups = {} /\ r.todo = {}  BY DEF Idle
  <2> HIDE DEF r
  <2>3. Carries(r)  BY <2>2 DEF Carries
  <2>4. Seen' /\ Traced'
    BY <2>1 DEF TInv, IInv, Types, Seen, Traced, Right, registry, cgroupMap
  <2>. QED  BY <1>0, <2>1, <2>3, <2>4, CarryOn
<1>3. CASE Unregister
  <2> DEFINE u == worker["informer"].pod
             r == [Idle EXCEPT !.step = "drop", !.pod = u, !.removed = PIDsOf(byPod[u])]
  <2>1. /\ entries' = [k \in DOMAIN entries \ byPod[u] |-> entries[k]]
        /\ byPID' = [p \in PIDs |-> Without(byPID[p], byPod[u])]
        /\ worker' = [worker EXCEPT !["informer"] = r]
        /\ UNCHANGED <<node, watcher, cgroupMap>>
    BY <1>3 DEF Unregister, UnregisterPod, filterPIDKeys
  <2>2. r.ids = {} /\ r.keys = {} /\ r.cgroups = {} /\ r.todo = {}  BY DEF Idle
  <2> HIDE DEF r
  <2>3. Carries(r)  BY <2>2 DEF Carries
  <2>4. Seen'  BY <2>1 DEF TInv, Seen, node, watcher, cgroupMap
  <2>5. ASSUME NEW p \in PIDs
        PROVE  /\ byPID'[p] \in Seq(ProcessKey)
               /\ \A i \in DOMAIN byPID'[p] :
                    byPID'[p][i] \in DOMAIN entries' /\ byPID'[p][i].pid = p
    <3>1. PICK q : q = byPID[p]  OBVIOUS
    <3>2. PICK g : g = byPod[u]  OBVIOUS
    <3>3. q \in Seq(ProcessKey) /\ \A j \in DOMAIN q : q[j] \in DOMAIN entries /\ q[j].pid = p
      BY <3>1 DEF TInv, Traced
    <3>4. /\ Without(q, g) \in Seq(ProcessKey)
          /\ \A i \in DOMAIN Without(q, g) :
               \E j \in DOMAIN q : Without(q, g)[i] = q[j] /\ q[j] \notin g
      BY <3>3, WithoutKeeps
    <3>5. byPID'[p] = Without(q, g) /\ DOMAIN entries' = DOMAIN entries \ g
      BY <2>1, <3>1, <3>2
    <3>. QED  BY <3>3, <3>4, <3>5
  <2>6. Traced'
    <3>1. byPID' \in [PIDs -> Seq(ProcessKey)]  BY <2>1, <2>5
    <3>. QED  BY <2>1, <2>5, <3>1 DEF TInv, Traced, Right, node, cgroupMap
  <2>. QED  BY <1>0, <2>1, <2>3, <2>4, <2>6, CarryOn DEF node
<1>4. CASE Drop
  <2>1. /\ worker' = [worker EXCEPT !["informer"] = Idle] /\ UNCHANGED <<node, watcher, registry>>
        /\ SetPodCgroups(worker["informer"].pod, {}, {})
    BY <1>4 DEF Drop
  <2>2. Carries(Idle) /\ worker["informer"].pod \in Pods
    BY <1>4 DEF Carries, Idle, Drop, TInv, IInv, AtWork
  <2>3. /\ misread' = [v \in Pods |-> misread'[v]]
        /\ \A c \in Containers :
             byCgroup'[c] # None => PodOf[c] = byCgroup'[c] \/ c \in misread'[byCgroup'[c]]
    BY <2>1, <2>2, CgroupsSet
  <2>4. Seen'  BY <2>1, <2>3 DEF TInv, Seen, node, watcher
  <2>5. Traced'  BY <2>1, <2>3 DEF TInv, Traced, Right, node, registry
  <2>. QED  BY <1>0, <2>1, <2>2, <2>4, <2>5, CarryOn DEF node
<1>. QED  BY <1>1, <1>2, <1>3, <1>4

LEMMA RescanTraced == ASSUME TInv, IInv', rescanAll \/ rescanNext PROVE TInv'
<1>0. "rescan" \in Workers  BY DEF Workers
<1>1. UNCHANGED <<node, watcher, registry, cgroupMap>>  BY DEF rescanAll, rescanNext
<1>2. Seen' /\ Traced'
  BY <1>1 DEF TInv, Seen, Traced, Right, node, watcher, registry, cgroupMap
<1>3. CASE rescanAll
  <2> DEFINE work == {[pod |-> u, ids |-> containers[u]] : u \in {v \in pods : containers[v] # {}}}
             r == [Idle EXCEPT !.step = "next", !.todo = work]
  <2>1. worker' = [worker EXCEPT !["rescan"] = r]  BY <1>3 DEF rescanAll
  <2>2. \A y \in work : y.ids \subseteq ContainersOf(y.pod)
    BY DEF TInv, IInv, Types, Seen
  <2>3. r.ids = {} /\ r.keys = {} /\ r.cgroups = {} /\ r.todo = work
    <3> HIDE DEF work
    <3>. QED  BY DEF Idle
  <2> HIDE DEF r, work
  <2>4. Carries(r)  BY <2>2, <2>3 DEF Carries
  <2>. QED  BY <1>0, <1>1, <1>2, <2>1, <2>4, CarryOn DEF node
<1>4. CASE rescanNext
  <2>1. PICK x \in worker["rescan"].todo :
          worker' = [worker EXCEPT !["rescan"] = [Idle EXCEPT !.step = "scan", !.pod = x.pod,
                       !.ids = x.ids, !.todo = worker["rescan"].todo \ {x}]]
    BY <1>4 DEF rescanNext
  <2> DEFINE r == [Idle EXCEPT !.step = "scan", !.pod = x.pod, !.ids = x.ids,
                               !.todo = worker["rescan"].todo \ {x}]
  <2>2. Carries(worker["rescan"])  BY <1>0 DEF TInv
  <2>3. r.ids = x.ids /\ r.pod = x.pod /\ r.keys = {} /\ r.cgroups = {}
        /\ r.todo = worker["rescan"].todo \ {x}
    BY DEF Idle
  <2>4. worker' = [worker EXCEPT !["rescan"] = r]  BY <2>1
  <2> HIDE DEF r
  <2>5. Carries(r)  BY <2>2, <2>3 DEF Carries
  <2>. QED  BY <1>0, <1>1, <1>2, <2>4, <2>5, CarryOn DEF node
<1>. QED  BY <1>3, <1>4

LEMMA TracedAlways == Spec => []TInv
<1>1. Init => TInv
  <2> SUFFICES ASSUME Init PROVE TInv
    OBVIOUS
  <2>1. IInv  BY InitIInv
  <2>2. Seen  BY DEF Init, Seen
  <2>3. Traced
    <3>1. <<>> \in Seq(ProcessKey) /\ DOMAIN <<>> = {}  BY EmptySeq
    <3>. QED  BY <3>1 DEF Init, Traced
  <2>4. \A w \in Workers : Carries(worker[w])  BY DEF Init, Carries, Idle
  <2>. QED  BY <2>1, <2>2, <2>3, <2>4 DEF TInv
<1>2. TInv /\ [Next]_vars => TInv'
  <2> SUFFICES ASSUME TInv, [Next]_vars PROVE TInv'
    OBVIOUS
  <2>1. IInv'  BY NextIInv DEF TInv
  <2>2. CASE UNCHANGED vars
    <3>1. Seen' /\ Traced'
      BY <2>2 DEF TInv, Seen, Traced, Right, vars, node, watcher, registry, cgroupMap
    <3>2. (\A v \in Workers : Carries(worker[v]))'
      BY <2>2 DEF TInv, Carries, Right, vars, node
    <3>. QED  BY <2>1, <3>1, <3>2 DEF TInv
  <2>3. ASSUME NEW w \in Workers, syncPIDs(w) PROVE TInv'
    BY <2>1, <2>3, ScanTraced, SyncTraced, HooksTraced, CgroupsTraced DEF syncPIDs
  <2>. QED  BY <2>1, <2>2, <2>3, StartTraced, ExitTraced, InformerTraced, RescanTraced
            DEF Next, Informer, Rescan, Workers
<1>. QED  BY <1>1, <1>2, PTL DEF Spec

(* Lookup answers with an entry of the PID, or not at all.                 *)
LEMMA LookupFinds ==
  ASSUME TInv, NEW p \in PIDs
  PROVE  Lookup(p) = None \/ \E h \in DOMAIN entries : h.pid = p /\ Lookup(p) = entries[h]
<1> DEFINE registered == {i \in DOMAIN byPID[p] : byPID[p][i] \in DOMAIN entries}
<1>1. byPID[p] \in Seq(ProcessKey) /\ \A i \in DOMAIN byPID[p] : byPID[p][i].pid = p
  BY DEF TInv, Traced
<1>2. registered \subseteq Nat
  <2>1. DOMAIN byPID[p] = 1..Len(byPID[p])  BY <1>1, LenProperties
  <2>. QED  BY <2>1
<1>3. CASE registered = {}  BY <1>3 DEF Lookup
<1>4. CASE registered # {}
  <2>1. PICK n \in registered : \A m \in registered : ~(m < n)
    <3> HIDE DEF registered
    <3>. QED  BY <1>2, <1>4, LeastNat
  <2>2. \E x \in registered : \A y \in registered : x <= y
    <3>1. \A y \in registered : n <= y
      <4> HIDE DEF registered
      <4>. QED  BY <1>2, <2>1
    <3>. QED  BY <3>1
  <2>3. Min(registered) \in registered
    <3> HIDE DEF registered
    <3>. QED  BY <2>2 DEF Min
  <2> DEFINE h == byPID[p][Min(registered)]
  <2>4. h \in DOMAIN entries /\ h.pid = p  BY <1>1, <2>3
  <2>5. Lookup(p) = entries[h]  BY <1>4 DEF Lookup
  <2>. QED  BY <2>4, <2>5
<1>. QED  BY <1>3, <1>4

(* A process is attributed to its own pod or to none (Attributed, asking   *)
(* LookupByCgroup and then Lookup), whatever the informer and the rescan   *)
(* interleave and however PIDs change hands, except for the two windows of *)
(* a reused PID that the code leaves open: an earlier process of the PID   *)
(* still registered, and a cgroup read from its successor.                 *)
THEOREM AttributionIsNotGuessed == Spec => []NotGuessed
<1>1. TInv => NotGuessed
  <2> SUFFICES ASSUME TInv, NEW k \in DOMAIN procs,
                      Attributed(k) \notin {None, PodOf[procs[k]]}
               PROVE  Reused(k, Attributed(k)) \/ procs[k] \in misread[Attributed(k)]
    BY DEF NotGuessed
  <2>1. k.pid \in PIDs /\ procs[k] \in Containers
    BY DEF TInv, IInv, Types, ProcessKey
  <2>2. CASE LookupByCgroup(procs[k]) # None
    <3>1. Attributed(k) = byCgroup[procs[k]]  BY <2>2 DEF Attributed, LookupByCgroup
    <3>. QED  BY <2>1, <3>1 DEF TInv, Traced
  <2>3. CASE LookupByCgroup(procs[k]) = None
    <3>1. Attributed(k) = Lookup(k.pid)  BY <2>3 DEF Attributed
    <3>2. PICK h \in DOMAIN entries : h.pid = k.pid /\ Attributed(k) = entries[h]
      BY <2>1, <3>1, LookupFinds
    <3>3. h # k  BY <3>2 DEF TInv, Traced, Right
    <3>. QED  BY <3>2, <3>3 DEF Reused
  <2>. QED  BY <2>2, <2>3
<1>. QED  BY <1>1, TracedAlways, PTL

(* Nothing is attributed to a deleted pod once removePod has returned, and *)
(* no process counts as its own, unless a rescan that had it in its list   *)
(* was under way (rescanAll); only its entry in podInfo stays.             *)
THEOREM RemovedPodsGetNothing == Spec => []RemovedNotAttributed
<1>1. TInv => RemovedNotAttributed
  <2> SUFFICES ASSUME TInv, NEW u \in deleted \ overtaken, u # worker["informer"].pod
               PROVE  /\ byPod[u] = {} /\ \A p \in PIDs : Lookup(p) # u
                      /\ \A c \in Containers : LookupByCgroup(c) # u
    BY DEF RemovedNotAttributed
  <2>1. u \in Pods /\ u # None  BY AttributionAssumption DEF TInv, IInv, Types
  <2>2. byPod[u] = {} /\ \A c \in Containers : byCgroup[c] # u  BY DEF TInv, IInv, Gone
  <2>3. \A h \in DOMAIN entries : entries[h] # u  BY <2>1, <2>2 DEF TInv, IInv, Listed
  <2>4. \A p \in PIDs : Lookup(p) # u  BY <2>1, <2>3, LookupFinds
  <2>5. \A c \in Containers : LookupByCgroup(c) # u  BY <2>1, <2>2 DEF LookupByCgroup
  <2>. QED  BY <2>2, <2>4, <2>5
<1>. QED  BY <1>1, TracedAlways, PTL
=============================================================================
