----------------------------- MODULE Quarantine -----------------------------
(***************************************************************************)
(* The sensor's kernel quarantine (internal/ebpf/sensor.go and loader.go): *)
(* the filter maps say which PIDs and cgroups are watched, the LSM         *)
(* blocklists which of them may no longer connect.  Two parties fill the   *)
(* blocklists: EXFIL verdicts (Quarantine) and the fail-closed breaker     *)
(* (SetFailClosedActive), which must take back its own entries only.       *)
(*                                                                         *)
(* A map operation is atomic; the functions that make several of them are  *)
(* not.  fcMu is held over the whole of SetFailClosedActive and over the   *)
(* bookkeeping of Add and Remove, not over their map operations and not    *)
(* over Quarantine.  The filters are filled and emptied by several         *)
(* goroutines (the pod informer's, the rescan's, session creation and the  *)
(* sweeper), which do not wait for each other, so the steps of an Add and  *)
(* a Remove of one key may mix.  SetFailClosedActive is requested in any   *)
(* order: that is what the breaker's concurrent callbacks amount to        *)
(* (module Breaker).  A put into a blocklist may fail.                     *)
(***************************************************************************)
EXTENDS Integers, FiniteSets

CONSTANTS
  PIDs,       \* process identifiers, reused after a process is gone
  Cgroups,    \* cgroup identifiers
  CgroupOf,   \* the cgroup a process runs in
  Watchers    \* goroutines that add to and remove from the filter maps

Keys == PIDs \cup Cgroups

ASSUME QuarantineAssumption ==
  /\ PIDs \cap Cgroups = {}
  /\ CgroupOf \in [PIDs -> Cgroups]

VARIABLES
  watched,   \* pid_filter and cgroup_filter
  blocked,   \* lsm_blocklist_pid and lsm_blocklist_cgroup
  active,    \* failClosedActive
  owned,     \* fcPIDs and fcCgroups
  phase,     \* where SetFailClosedActive stands; it holds fcMu unless idle
  already,   \* its snapshot of the blocklists
  listed,    \* the keys it has still to put or to delete
  task,      \* what each goroutine has still to do, for which key
  verdicts,  \* EXFIL verdicts whose quarantine is outstanding
  lapsed,    \* history: keys unblocked while watched, or whose put failed
  early      \* history: EXFIL blocks from before fail-closed was engaged

quarantineVars == <<watched, blocked, active, owned, phase, already, listed, task,
                    verdicts, lapsed, early>>

fcMuFree == phase = "idle"
Free == [next |-> "nothing"]
Tasks == {Free} \cup [next : {"note", "unquarantine", "bookkeep"}, key : Keys]
ToNote(k) == [next |-> "note", key |-> k]
ToUnquarantine(k) == [next |-> "unquarantine", key |-> k]
ToBookkeep(k) == [next |-> "bookkeep", key |-> k]
Adding == {k \in Keys : \E w \in Watchers : task[w] = ToNote(k)}
-----------------------------------------------------------------------------
(* AddPIDs and AddCgroupIDs, one key: into the filter map, then            *)
(* noteFailClosedWatch.  The pod watcher puts a pod's cgroups again on     *)
(* every rescan, and a PID again when another goroutine's removal of it is *)
(* still to come.                                                          *)
AddToFilter(w, k) ==
  /\ task[w] = Free
  /\ watched' = watched \cup {k}
  /\ task' = [task EXCEPT ![w] = ToNote(k)]
  /\ UNCHANGED <<blocked, active, owned, phase, already, listed, verdicts, lapsed, early>>

(* Mutant: what starts to be watched while fail-closed is active is not    *)
(* quarantined.                                                            *)
NoteFailClosedWatchLate(w, k) ==
  /\ task[w] = ToNote(k) /\ fcMuFree
  /\ task' = [task EXCEPT ![w] = Free]
  /\ UNCHANGED <<watched, blocked, active, owned, phase, already, listed, verdicts, lapsed, early>>

(* A key that is quarantined already is claimed too.                       *)
NoteFailClosedWatch(w, k) ==
  /\ task[w] = ToNote(k) /\ fcMuFree
  /\ task' = [task EXCEPT ![w] = Free]
  /\ \/ ~active /\ UNCHANGED <<blocked, owned, lapsed, early>>
     \/ /\ active
        /\ blocked' = blocked \cup {k} /\ owned' = owned \cup {k}
        /\ lapsed' = lapsed \ {k} /\ early' = early \ {k}
     \/ active /\ lapsed' = lapsed \cup {k} /\ UNCHANGED <<blocked, owned, early>>
  /\ UNCHANGED <<watched, active, phase, already, listed, verdicts>>

(* RemovePIDs and RemoveCgroupIDs, one key: out of the filter map, which   *)
(* fails for a key that is not there, then out of the blocklist and out of *)
(* what fail-closed owns.                                                  *)
RemoveFromFilter(w, k) ==
  /\ task[w] = Free /\ k \in watched
  /\ watched' = watched \ {k}
  /\ task' = [task EXCEPT ![w] = ToUnquarantine(k)]
  /\ UNCHANGED <<blocked, active, owned, phase, already, listed, verdicts, lapsed, early>>

Unquarantine(w, k) ==
  /\ task[w] = ToUnquarantine(k)
  /\ task' = [task EXCEPT ![w] = ToBookkeep(k)]
  /\ blocked' = blocked \ {k}
  /\ lapsed' = IF k \in watched THEN lapsed \cup {k} ELSE lapsed
  /\ early' = early \ {k}
  /\ UNCHANGED <<watched, active, owned, phase, already, listed, verdicts>>

ClearFailClosedBookkeeping(w, k) ==
  /\ task[w] = ToBookkeep(k) /\ fcMuFree
  /\ task' = [task EXCEPT ![w] = Free]
  /\ owned' = owned \ {k}
  /\ UNCHANGED <<watched, blocked, active, phase, already, listed, verdicts, lapsed, early>>
-----------------------------------------------------------------------------
(* A write of a watched process gets an EXFIL verdict; the process is      *)
(* killed, then it and its cgroup are quarantined, in this order.  Each of *)
(* the two ring buffers has one reader, which handles one event at a time. *)
ExfilVerdict(p) ==
  /\ {p, CgroupOf[p]} \cap watched # {}
  /\ Cardinality(verdicts) < 2 /\ \A v \in verdicts : v.pid # p
  /\ verdicts' = verdicts \cup {[pid |-> p, pidDone |-> FALSE]}
  /\ UNCHANGED <<watched, blocked, active, owned, phase, already, listed, task, lapsed, early>>

(* The put of Quarantine: it is early unless SetFailClosedActive has begun *)
(* to engage.                                                              *)
PutExfil(k) ==
  \/ UNCHANGED <<blocked, lapsed, early>>
  \/ /\ blocked' = blocked \cup {k}
     /\ lapsed' = lapsed \ {k}
     /\ early' = IF active \/ ~fcMuFree THEN early ELSE early \cup {k}

QuarantinePID(p) ==
  /\ [pid |-> p, pidDone |-> FALSE] \in verdicts
  /\ verdicts' = (verdicts \ {[pid |-> p, pidDone |-> FALSE]}) \cup {[pid |-> p, pidDone |-> TRUE]}
  /\ PutExfil(p)
  /\ UNCHANGED <<watched, active, owned, phase, already, listed, task>>

QuarantineCgroup(p) ==
  /\ [pid |-> p, pidDone |-> TRUE] \in verdicts
  /\ verdicts' = verdicts \ {[pid |-> p, pidDone |-> TRUE]}
  /\ PutExfil(CgroupOf[p])
  /\ UNCHANGED <<watched, active, owned, phase, already, listed, task>>
-----------------------------------------------------------------------------
(* SetFailClosedActive(true): look at the blocklists, list and quarantine  *)
(* what is watched (QuarantineAllWatched), then list again and claim what  *)
(* was not quarantined before.                                             *)
ListQuarantined ==
  /\ fcMuFree /\ ~active
  /\ phase' = "snapshot" /\ already' = blocked
  /\ UNCHANGED <<watched, blocked, active, owned, listed, task, verdicts, lapsed, early>>

ListWatched ==
  /\ phase = "snapshot"
  /\ phase' = "engaging" /\ listed' = watched
  /\ UNCHANGED <<watched, blocked, active, owned, already, task, verdicts, lapsed, early>>

QuarantineAllWatched(k) ==
  /\ phase = "engaging" /\ k \in listed
  /\ blocked' = blocked \cup {k} /\ listed' = listed \ {k} /\ lapsed' = lapsed \ {k}
  /\ UNCHANGED <<watched, active, owned, phase, already, task, verdicts, early>>

(* A listing or a put fails: fail-closed is not engaged, and the blocks    *)
(* made so far stay.                                                       *)
EngageFails ==
  /\ phase \in {"snapshot", "engaging"}
  /\ phase' = "idle" /\ already' = {} /\ listed' = {}
  /\ UNCHANGED <<watched, blocked, active, owned, task, verdicts, lapsed, early>>

(* Mutant: every watched key is claimed.                                   *)
ClaimEverything ==
  /\ phase = "engaging" /\ listed = {}
  /\ phase' = "idle" /\ active' = TRUE /\ owned' = watched /\ already' = {}
  /\ UNCHANGED <<watched, blocked, listed, task, verdicts, lapsed, early>>

Claim ==
  /\ phase = "engaging" /\ listed = {}
  /\ phase' = "idle" /\ active' = TRUE
  /\ owned' = watched \ already /\ already' = {}
  /\ UNCHANGED <<watched, blocked, listed, task, verdicts, lapsed, early>>

(* SetFailClosedActive(false): lift what fail-closed owns, key by key.     *)
ListOwned ==
  /\ fcMuFree /\ active
  /\ phase' = "clearing" /\ listed' = owned
  /\ UNCHANGED <<watched, blocked, active, owned, already, task, verdicts, lapsed, early>>

UnquarantineWatched(k) ==
  /\ phase = "clearing" /\ k \in listed
  /\ blocked' = blocked \ {k} /\ listed' = listed \ {k}
  /\ UNCHANGED <<watched, active, owned, phase, already, task, verdicts, lapsed, early>>

Disown ==
  /\ phase = "clearing" /\ listed = {}
  /\ phase' = "idle" /\ active' = FALSE /\ owned' = {}
  /\ UNCHANGED <<watched, blocked, already, listed, task, verdicts, lapsed, early>>

QuarantineInit ==
  /\ watched = {} /\ blocked = {} /\ active = FALSE /\ owned = {}
  /\ phase = "idle" /\ already = {} /\ listed = {}
  /\ task = [w \in Watchers |-> Free] /\ verdicts = {} /\ lapsed = {} /\ early = {}

Add == \E w \in Watchers, k \in Keys : AddToFilter(w, k) \/ NoteFailClosedWatch(w, k)
Remove == \E w \in Watchers, k \in Keys :
  RemoveFromFilter(w, k) \/ Unquarantine(w, k) \/ ClearFailClosedBookkeeping(w, k)
Exfil == \E p \in PIDs : ExfilVerdict(p) \/ QuarantinePID(p) \/ QuarantineCgroup(p)
Engage == \/ ListQuarantined \/ ListWatched \/ EngageFails \/ Claim
          \/ \E k \in Keys : QuarantineAllWatched(k)
Clear == ListOwned \/ Disown \/ \E k \in Keys : UnquarantineWatched(k)

QuarantineNext == Add \/ Remove \/ Exfil \/ Engage \/ Clear

QuarantineSpec == QuarantineInit /\ [][QuarantineNext]_quarantineVars
-----------------------------------------------------------------------------
(***************************************************************************)
(* Properties.                                                             *)
(***************************************************************************)

(* Every variable has its type.                                            *)
QuarantineTypeOK ==
  /\ watched \subseteq Keys /\ blocked \subseteq Keys
  /\ active \in BOOLEAN /\ owned \subseteq Keys
  /\ phase \in {"idle", "snapshot", "engaging", "clearing"}
  /\ already \subseteq Keys /\ listed \subseteq Keys
  /\ task \in [Watchers -> Tasks]
  /\ verdicts \subseteq [pid : PIDs, pidDone : BOOLEAN]
  /\ lapsed \subseteq Keys /\ early \subseteq Keys

(* "all currently watched": once fail-closed is engaged every watched key  *)
(* is denied, including keys that came to be watched while it was being    *)
(* engaged (SetFailClosedActive against AddPIDs), with two exceptions: a   *)
(* key that one goroutine watched again before another had finished        *)
(* removing it, and a key whose put into the blocklist failed.             *)
AllWatchedDenied == active /\ fcMuFree => watched \ (Adding \cup lapsed) \subseteq blocked

(* "left alone and not claimed": an EXFIL quarantine, of a process or of   *)
(* its cgroup, that was in force before fail-closed was engaged survives   *)
(* any number of engagements, failed ones included, and clears, until its  *)
(* key is removed or, while fail-closed is active, watched again.          *)
EarlyExfilHeld == early \subseteq blocked

=============================================================================
