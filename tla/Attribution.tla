----------------------------- MODULE Attribution -----------------------------
(***************************************************************************)
(* Sensor-only mode on a Kubernetes node: which processes are watched and  *)
(* to which pod their events are attributed (internal/k8s/watcher.go and   *)
(* attribution.go, with the filter maps of the sensor).                    *)
(*                                                                         *)
(* Two goroutines keep the registry in step with the node: the informer's, *)
(* which handles one pod event after another, and the rescan loop.  Both   *)
(* run syncPIDs, which looks at /proc, then changes the registry, then the *)
(* filter maps, then looks at /proc again for the cgroups, each under its  *)
(* own lock or none.  Each action is what a goroutine does between two     *)
(* points where what it looks at may change.                               *)
(*                                                                         *)
(* A process is its PID and start time; PIDs are used again.  A container  *)
(* has one cgroup and is named for it.  A process belongs to one container *)
(* for life, or to the host.                                               *)
(***************************************************************************)
EXTENDS Integers, FiniteSets, SequencesExt, Lists

CONSTANTS
  Pods,        \* labelled pods of this node
  Containers,  \* their containers, and the host's own cgroup
  PodOf,       \* the pod of each container, None for the host
  PIDs,
  MaxStarts,   \* bound: processes started
  None

ASSUME AttributionAssumption ==
  /\ PodOf \in [Containers -> Pods \cup {None}] /\ None \notin Pods
  /\ MaxStarts \in Nat /\ PIDs \subseteq Nat \ {0}

ProcessKey == [pid : PIDs, start : 1..MaxStarts]
Workers == {"informer", "rescan"}

VARIABLES
  \* The node.
  procs,       \* the running processes: key -> container
  starts,      \* how many were started
  deleted,     \* pods the API server has deleted
  \* NodeWatcher.
  pods, containers,
  \* PodAttribution.
  entries, byPID, byPod, byCgroup,
  podInfo,     \* the pods it has information on
  \* The sensor's filter maps.
  pid_filter, cgroup_filter,
  worker,      \* what each goroutine is doing
  \* History.
  misread,     \* per pod: cgroups recorded for it that were read from a
               \* process which had got the PID of the one scanned
  overtaken    \* pods deleted while a rescan had them in its work list

node == <<procs, starts, deleted>>
watcher == <<pods, containers>>
registry == <<entries, byPID, byPod>>
filters == <<pid_filter, cgroup_filter>>
cgroupMap == <<byCgroup, podInfo, misread>>
vars == <<node, watcher, registry, cgroupMap, filters, worker, overtaken>>

PIDsOf(keys) == {k.pid : k \in keys}
ContainersOf(u) == {c \in Containers : PodOf[c] = u}
Idle == [step |-> "idle", pod |-> None, ids |-> {}, keys |-> {}, added |-> {},
         removed |-> {}, cgroups |-> {}, swapped |-> {}, todo |-> {}]
-----------------------------------------------------------------------------
(* The node.                                                               *)
StartProcess(p, c) ==
  /\ starts < MaxStarts
  /\ \A k \in DOMAIN procs : k.pid # p
  /\ starts' = starts + 1
  /\ procs' = [k \in DOMAIN procs \cup {[pid |-> p, start |-> starts']} |->
                 IF k \in DOMAIN procs THEN procs[k] ELSE c]
  /\ UNCHANGED <<deleted, watcher, registry, cgroupMap, filters, worker, overtaken>>

ExitProcess(k) ==
  /\ k \in DOMAIN procs
  /\ procs' = [j \in DOMAIN procs \ {k} |-> procs[j]]
  /\ UNCHANGED <<starts, deleted, watcher, registry, cgroupMap, filters, worker, overtaken>>
-----------------------------------------------------------------------------
(* PodAttribution.  The keys of a PID stay in the order of their coming.   *)
filterPIDKeys(map, gone) == [p \in PIDs |-> Without(map[p], gone)]

UnregisterPod(u) ==
  LET keys == byPod[u] IN
  /\ entries' = [k \in DOMAIN entries \ keys |-> entries[k]]
  /\ byPID' = filterPIDKeys(byPID, keys)
  /\ byPod' = [byPod EXCEPT ![u] = {}]

SyncPod(u, keys) ==
  LET gone == byPod[u] \ keys
      kept == DOMAIN entries \ gone
      new  == keys \ kept
  IN  /\ entries' = [k \in kept \cup keys |-> IF k \in keys THEN u ELSE entries[k]]
      /\ byPID' = [p \in PIDs |->
                     filterPIDKeys(byPID, gone)[p] \o SetToSeq({k \in new : k.pid = p})]
      /\ byPod' = [byPod EXCEPT ![u] = keys]

(* Mutant: the cgroups recorded before stay the pod's.                     *)
SetPodCgroupsToo(u, ids, swapped) ==
  /\ podInfo' = podInfo \cup {u}
  /\ byCgroup' = [c \in Containers |-> IF c \in ids THEN u ELSE byCgroup[c]]
  /\ misread' = [misread EXCEPT ![u] = swapped]

(* What is known of the pod is noted too, and stays when the pod is gone.  *)
SetPodCgroups(u, ids, swapped) ==
  /\ podInfo' = podInfo \cup {u}
  /\ byCgroup' = [c \in Containers |-> IF c \in ids THEN u
                                       ELSE IF byCgroup[c] = u THEN None ELSE byCgroup[c]]
  /\ misread' = [misread EXCEPT ![u] = swapped]

(* The handler of sensor-only mode asks for the cgroup first, then for the *)
(* PID; Lookup answers with the first registered key of the PID.  (It asks *)
(* whether a process has the PID, which one does whose event it is, not    *)
(* whether it is the process of the key.)                                  *)
LookupByCgroup(c) == IF byCgroup[c] \in podInfo THEN byCgroup[c] ELSE None
Lookup(p) ==
  LET registered == {i \in DOMAIN byPID[p] : byPID[p][i] \in DOMAIN entries}
  IN  IF registered = {} THEN None ELSE entries[byPID[p][Min(registered)]]
Attributed(k) ==
  IF LookupByCgroup(procs[k]) # None THEN LookupByCgroup(procs[k]) ELSE Lookup(k.pid)
-----------------------------------------------------------------------------
(* The hooks.  RemovePIDs stops at the first PID the filter map does not   *)
(* hold; the order of the PIDs is that of the scan.                        *)
RemovePIDs(filter, gone) ==
  IF gone \subseteq filter THEN {filter \ gone}
  ELSE {filter \ some : some \in SUBSET (gone \cap filter)}
AddPIDs(filter, new) == filter \cup new
-----------------------------------------------------------------------------
(* syncPIDs, step by step.                                                 *)
PIDsForContainers(ids) == {k \in DOMAIN procs : procs[k] \in ids}

Scan(w) ==
  /\ worker[w].step = "scan"
  /\ worker' = [worker EXCEPT ![w].step = "sync", ![w].ids = {},
                              ![w].keys = PIDsForContainers(worker[w].ids)]
  /\ UNCHANGED <<node, watcher, registry, cgroupMap, filters, overtaken>>

Sync(w) ==
  LET keys == worker[w].keys
      u    == worker[w].pod IN
  /\ worker[w].step = "sync"
  /\ SyncPod(u, keys)
  /\ worker' = [worker EXCEPT ![w].step = "hooks",
                              ![w].removed = PIDsOf(byPod[u] \ keys),
                              ![w].added = PIDsOf(keys \ (DOMAIN entries \ (byPod[u] \ keys)))]
  /\ UNCHANGED <<node, watcher, cgroupMap, filters, overtaken>>

(* OnUnwatch and OnWatch; then the cgroup of whatever process now has each *)
(* PID.                                                                    *)
Hooks(w) ==
  LET having == {k \in DOMAIN procs : k.pid \in PIDsOf(worker[w].keys)} IN
  /\ worker[w].step = "hooks"
  /\ \E f \in RemovePIDs(pid_filter, worker[w].removed) :
       pid_filter' = AddPIDs(f, worker[w].added)
  /\ worker' = [worker EXCEPT ![w].step = "cgroups",
                  ![w].keys = {}, ![w].added = {}, ![w].removed = {},
                  ![w].cgroups = {procs[k] : k \in having},
                  ![w].swapped = {procs[k] : k \in having \ worker[w].keys}]
  /\ UNCHANGED <<node, watcher, registry, cgroupMap, cgroup_filter, overtaken>>

(* What the goroutine does after syncPIDs: the informer is done, a rescan  *)
(* goes on with its work list.                                             *)
Return(w) == worker' = [worker EXCEPT ![w] =
  IF worker[w].todo = {} THEN Idle ELSE [Idle EXCEPT !.step = "next", !.todo = worker[w].todo]]

(* Mutant: the cgroups are recorded and not watched.                       *)
SetCgroups(w) ==
  /\ worker[w].step = "cgroups"
  /\ SetPodCgroups(worker[w].pod, worker[w].cgroups, worker[w].swapped)
  /\ Return(w)
  /\ UNCHANGED <<node, watcher, registry, filters, overtaken>>

Cgroups(w) ==
  /\ worker[w].step = "cgroups"
  /\ SetPodCgroups(worker[w].pod, worker[w].cgroups, worker[w].swapped)
  /\ cgroup_filter' = cgroup_filter \cup worker[w].cgroups
  /\ Return(w)
  /\ UNCHANGED <<node, watcher, registry, pid_filter, overtaken>>

syncPIDs(w) == Scan(w) \/ Sync(w) \/ Hooks(w) \/ Cgroups(w)
-----------------------------------------------------------------------------
(* The informer: add and update events, and the resync that repeats them,  *)
(* report a pod with the containers it has so far; the delete event is the *)
(* last of a pod.                                                          *)
upsertPod(u, ids) ==
  /\ worker["informer"].step = "idle" /\ u \notin deleted
  /\ pods' = pods \cup {u}
  /\ IF ids = {}
     THEN UNCHANGED <<containers, worker>>
     ELSE /\ containers' = [containers EXCEPT ![u] = ids]
          /\ worker' = [worker EXCEPT !["informer"] = [Idle EXCEPT !.step = "scan",
                                                         !.pod = u, !.ids = ids]]
  /\ UNCHANGED <<node, registry, cgroupMap, filters, overtaken>>

removePod(u) ==
  /\ worker["informer"].step = "idle" /\ u \notin deleted
  /\ deleted' = deleted \cup {u}
  /\ pods' = pods \ {u} /\ containers' = [containers EXCEPT ![u] = {}]
  /\ worker' = [worker EXCEPT !["informer"] = [Idle EXCEPT !.step = "unregister", !.pod = u]]
  /\ overtaken' = IF worker["rescan"].pod = u \/ \E x \in worker["rescan"].todo : x.pod = u
                  THEN overtaken \cup {u} ELSE overtaken
  /\ UNCHANGED <<procs, starts, registry, cgroupMap, filters>>

Unregister ==
  LET w == worker["informer"] IN
  /\ w.step = "unregister"
  /\ UnregisterPod(w.pod)
  /\ worker' = [worker EXCEPT !["informer"] =
                  [Idle EXCEPT !.step = "drop", !.pod = w.pod, !.removed = PIDsOf(byPod[w.pod])]]
  /\ UNCHANGED <<node, watcher, cgroupMap, filters, overtaken>>

(* Mutant: the pod's cgroups stay in the registry.                         *)
DropPIDs ==
  LET w == worker["informer"] IN
  /\ w.step = "drop"
  /\ pid_filter' \in RemovePIDs(pid_filter, w.removed)
  /\ worker' = [worker EXCEPT !["informer"] = Idle]
  /\ UNCHANGED <<node, watcher, registry, cgroupMap, cgroup_filter, overtaken>>

(* Its PIDs are unwatched; its cgroups stay in cgroup_filter.              *)
Drop ==
  LET w == worker["informer"] IN
  /\ w.step = "drop"
  /\ SetPodCgroups(w.pod, {}, {})
  /\ pid_filter' \in RemovePIDs(pid_filter, w.removed)
  /\ worker' = [worker EXCEPT !["informer"] = Idle]
  /\ UNCHANGED <<node, watcher, registry, cgroup_filter, overtaken>>

(* The rescan loop: the pods are copied under the lock and synced without  *)
(* it, in any order.                                                       *)
rescanAll ==
  LET work == {[pod |-> u, ids |-> containers[u]] : u \in {v \in pods : containers[v] # {}}} IN
  /\ worker["rescan"].step = "idle" /\ work # {}
  /\ worker' = [worker EXCEPT !["rescan"] = [Idle EXCEPT !.step = "next", !.todo = work]]
  /\ UNCHANGED <<node, watcher, registry, cgroupMap, filters, overtaken>>

rescanNext ==
  LET w == worker["rescan"] IN
  /\ w.step = "next"
  /\ \E x \in w.todo :
       worker' = [worker EXCEPT !["rescan"] = [Idle EXCEPT !.step = "scan", !.pod = x.pod,
                                                 !.ids = x.ids, !.todo = w.todo \ {x}]]
  /\ UNCHANGED <<node, watcher, registry, cgroupMap, filters, overtaken>>
-----------------------------------------------------------------------------
Init ==
  /\ procs = [k \in {} |-> None] /\ starts = 0 /\ deleted = {}
  /\ podInfo = {} /\ misread = [u \in Pods |-> {}] /\ overtaken = {}
  /\ pods = {} /\ containers = [u \in Pods |-> {}]
  /\ entries = [k \in {} |-> None] /\ byPID = [p \in PIDs |-> <<>>]
  /\ byPod = [u \in Pods |-> {}] /\ byCgroup = [c \in Containers |-> None]
  /\ pid_filter = {} /\ cgroup_filter = {}
  /\ worker = [w \in Workers |-> Idle]

Informer == syncPIDs("informer") \/ Unregister \/ Drop
Rescan == rescanAll \/ rescanNext \/ syncPIDs("rescan")

Next ==
  \/ \E p \in PIDs, c \in Containers : StartProcess(p, c)
  \/ \E k \in DOMAIN procs : ExitProcess(k)
  \/ \E u \in Pods : removePod(u) \/ \E ids \in SUBSET ContainersOf(u) : upsertPod(u, ids)
  \/ Informer \/ Rescan

Spec == Init /\ [][Next]_vars

(* Both goroutines run, and the ticker of the rescan keeps ticking.        *)
FairSpec == Spec /\ WF_vars(Informer) /\ WF_vars(Rescan)
-----------------------------------------------------------------------------
TypeOK ==
  /\ DOMAIN procs \subseteq ProcessKey /\ DOMAIN entries \subseteq ProcessKey
  /\ \A k \in DOMAIN procs : procs[k] \in Containers
  /\ \A k \in DOMAIN entries : entries[k] \in Pods
  /\ byPID \in [PIDs -> Seq(ProcessKey)] /\ byPod \in [Pods -> SUBSET ProcessKey]
  /\ byCgroup \in [Containers -> Pods \cup {None}] /\ podInfo \subseteq Pods
  /\ pods \subseteq Pods /\ containers \in [Pods -> SUBSET Containers]
  /\ pid_filter \subseteq PIDs /\ cgroup_filter \subseteq Containers

(* "Unattributed syscalls are not guessed" (docs/threat_model.md): a       *)
(* process is attributed to its own pod or to none, whatever the two       *)
(* goroutines interleave and however PIDs change hands; except while the   *)
(* pod still has an earlier process of the same PID registered, or while   *)
(* its cgroup is recorded for a pod that had its PID when scanned and no   *)
(* longer when the cgroup was read.                                        *)
Reused(k, u) == \E j \in DOMAIN entries : j # k /\ j.pid = k.pid /\ entries[j] = u
NotGuessed ==
  \A k \in DOMAIN procs :
    LET u == Attributed(k) IN
    u \in {None, PodOf[procs[k]]} \/ Reused(k, u) \/ procs[k] \in misread[u]

(* No event is attributed to a pod once its removal is complete, and no    *)
(* process counts as the pod's (NodePIDsForCgroup, whom the sensor kills), *)
(* unless a rescan had it in its work list when it was deleted (rescanAll  *)
(* syncs without the lock).  Its entry in podInfo stays for good.          *)
RemovedNotAttributed ==
  \A u \in deleted \ overtaken :
    u # worker["informer"].pod =>
      /\ byPod[u] = {} /\ \A p \in PIDs : Lookup(p) # u
      /\ \A c \in Containers : LookupByCgroup(c) # u

(* A process that keeps running in a container the watcher knows is in the *)
(* end watched, by its PID or by its cgroup, and attributed to its pod,    *)
(* and stays so: whatever PIDs were used again before, and although the    *)
(* filter map may lose its PID to the cleanup of an earlier process.  And  *)
(* a process of the host is in the end attributed to none, whichever pods  *)
(* had its PID before, unless a rescan brought a deleted pod back.         *)
Known(k) == k \in DOMAIN procs /\ \E u \in pods : procs[k] \in containers[u]
OfTheHost(k) == k \in DOMAIN procs /\ PodOf[procs[k]] = None /\ overtaken = {}
Watched(k) == k.pid \in pid_filter \/ procs[k] \in cgroup_filter
AttributedInTheEnd ==
  \A k \in ProcessKey :
    /\ <>[]Known(k) => <>[](k \in DOMAIN procs /\ Watched(k) /\ Attributed(k) = PodOf[procs[k]])
    /\ <>[]OfTheHost(k) => <>[](k \in DOMAIN procs /\ Attributed(k) = None)
=============================================================================
