------------------------------- MODULE Sensor -------------------------------
(***************************************************************************)
(* The sensor from system call to containment: the kernel programs of      *)
(* Probes, the two goroutines of sensor.go that read the ring buffers, the *)
(* descriptors they arm, the engine's reassembly of egress, and the kill   *)
(* and quarantine that follow an EXFIL verdict.                            *)
(*                                                                         *)
(* Each ring buffer has one reader, and the two are not synchronised:      *)
(* connects and opens come through one, payloads through the other.  A     *)
(* reader's step takes a record and handles it up to the verdict: what it  *)
(* does in between is its own until it takes Sensor.mu or the engine's     *)
(* lock, and no handler takes either twice.  The kill and the quarantine   *)
(* after an EXFIL verdict are steps of their own.  One session (a pod);    *)
(* the value of interest is Secret, tainted when the open of its file is   *)
(* handled.  Of the programs one per record layout makes calls here;       *)
(* Probes has them all.                                                    *)
(***************************************************************************)
EXTENDS Probes, EgressFlows

CONSTANTS
  Secret,                \* a text, the contents of a sensitive file
  Allowlists,            \* egress allowlists a reload may install
  ConnectTo, SendTo,     \* destinations of connect(2) and of sendto(2)
  DNS,                   \* destinations on port 53
  anyFD, maxFDsPerPID, SuspiciousConnectTTL, staleFDTTL,
  MaxTime                \* bound: clock

ASSUME SensorAssumption ==
  /\ {maxFDsPerPID, SuspiciousConnectTTL, staleFDTTL, MaxTime} \subseteq Nat
  /\ anyFD \notin FDs /\ DNS \cup ConnectTo \cup SendTo \subseteq Dests

VARIABLES
  suspiciousByPID,   \* per process: armed descriptors and where they lead
  allowlist,         \* destinations not looked at
  egressFlows, egressPIDFlows,
  tainted,           \* Secret is among the session's tainted values
  gone,              \* processes that ended or were killed
  containing,        \* the critical reader's containment under way
  \* History.
  opened,      \* what became of the record of the open
  pending,     \* per process: the number of the connect(2) under way
  connID,      \* per process and descriptor: the connect(2) it is connected by
  fate,        \* per connect(2): what became of its record
  routineIDs,  \* the connect(2) behind each record of the routine ring
  criticalIDs, \* the connection behind each payload of the critical ring
  fragments,   \* per process: the pieces examined, newest last
  last         \* what was done with the last payload record

engine == <<egressFlows, egressPIDFlows, tainted>>
history == <<opened, pending, connID, fate, routineIDs, criticalIDs, fragments, last>>
sensorVars == <<vars, suspiciousByPID, allowlist, engine, gone, containing, history>>

NoConn == 0
Idle == [conn |-> NoConn, by |-> NoConn, pid |-> NULL, why |-> "none", piece |-> <<>>, scan |-> <<>>,
         panicked |-> FALSE]
Nobody == [pid |-> NULL, step |-> "none"]
-----------------------------------------------------------------------------
(* System calls.                                                           *)
Connect(p, fd, dest) ==
  /\ p \notin gone
  /\ SysEnterConnect(p, fd, dest)
  /\ pending' = [pending EXCEPT ![p] = calls']
  /\ routineIDs' = IF Len(events') > Len(events) THEN Append(routineIDs, calls') ELSE routineIDs
  /\ fate' = [fate EXCEPT ![calls'] =
                [key |-> <<p, fd>>, at |-> 0,
                 is |-> IF ~monitored_task(p) THEN "unwatched"
                        ELSE IF drop_count' > drop_count THEN "dropped" ELSE "queued"]]
  /\ UNCHANGED <<suspiciousByPID, allowlist, engine, gone, containing, opened, connID, criticalIDs,
                 fragments, last>>

ConnectDone(p, ret) ==
  /\ LsmSocketConnect(p, ret)
  /\ connID' = [connID EXCEPT ![<<p, connecting[p].fd>>] =
                  IF ret = 0 /\ ~blocklisted(p) THEN pending[p] ELSE NoConn]
  /\ criticalIDs' = IF Len(critical_events') > Len(critical_events)
                    THEN Append(criticalIDs, NoConn) ELSE criticalIDs
  /\ UNCHANGED <<suspiciousByPID, allowlist, engine, gone, containing, opened, pending, fate,
                 routineIDs, fragments, last>>

Payload(p, id) ==
  /\ p \notin gone
  /\ criticalIDs' = IF Len(critical_events') > Len(critical_events)
                    THEN Append(criticalIDs, id) ELSE criticalIDs
  /\ UNCHANGED <<suspiciousByPID, allowlist, engine, gone, containing, opened, pending, connID, fate,
                 routineIDs, fragments, last>>

Write(p, fd, buf) == SysEnterWrite(p, fd, buf) /\ Payload(p, connID[<<p, fd>>])
Sendto(p, fd, buf, dest) == SysEnterSendto(p, fd, buf, dest) /\ Payload(p, NoConn)

Open(p) ==
  /\ p \notin gone /\ opened = "no"
  /\ SysEnterOpenat(p, Secret)
  /\ opened' = IF Len(events') > Len(events) THEN "queued" ELSE "missed"
  /\ routineIDs' = IF Len(events') > Len(events) THEN Append(routineIDs, NoConn) ELSE routineIDs
  /\ UNCHANGED <<suspiciousByPID, allowlist, engine, gone, containing, pending, connID, fate,
                 criticalIDs, fragments, last>>
-----------------------------------------------------------------------------
(* Armed descriptors.                                                      *)
ttlFor(fd) == IF fd = anyFD THEN SuspiciousConnectTTL ELSE staleFDTTL
Expired(fds, k) == ktime - fds[k].at > ttlFor(k)

(* Mutant: a full table drops the arming even if expired entries could go. *)
armNoReap(fds, fd, dest, id) ==
  IF fd \notin DOMAIN fds /\ Cardinality(DOMAIN fds) >= maxFDsPerPID THEN fds
  ELSE [k \in DOMAIN fds \cup {fd} |->
          IF k = fd THEN [dest |-> dest, at |-> ktime, id |-> id] ELSE fds[k]]

arm(fds, fd, dest, id) ==
  LET full   == fd \notin DOMAIN fds /\ Cardinality(DOMAIN fds) >= maxFDsPerPID
      reaped == IF full THEN Keep(fds, {k \in DOMAIN fds : ~Expired(fds, k)}) ELSE fds
  IN  IF full /\ Cardinality(DOMAIN reaped) >= maxFDsPerPID THEN reaped
      ELSE [k \in DOMAIN reaped \cup {fd} |->
              IF k = fd THEN [dest |-> dest, at |-> ktime, id |-> id] ELSE reaped[k]]

(* Mutant: only an arming for the whole process is looked up.              *)
armedAny(fds, fd) == IF anyFD \in DOMAIN fds /\ ~Expired(fds, anyFD) THEN anyFD ELSE NULL

(* armed: the descriptor's own entry, else a fresh one for the process.    *)
armed(fds, fd) ==
  IF fd \in DOMAIN fds /\ ~Expired(fds, fd) THEN fd
  ELSE IF anyFD \in DOMAIN fds /\ ~Expired(fds, anyFD) THEN anyFD ELSE NULL
afterLookup(fds, fd) ==
  IF armed(fds, fd) = fd THEN fds
  ELSE Keep(fds, {k \in DOMAIN fds : k \in {fd, anyFD} => ~Expired(fds, k)})

(* What an observer of the connects would expect of connection `id` when a *)
(* payload sent over it is handled.                                        *)
Why(id) ==
  IF id = NoConn THEN "none"
  ELSE IF fate[id].is = "armed" /\ ktime - fate[id].at > staleFDTTL THEN "expired"
  ELSE fate[id].is
-----------------------------------------------------------------------------
(* The routine reader.                                                     *)
handleConnect ==
  LET ev   == Head(events)
      id   == Head(routineIDs)
      fds  == suspiciousByPID[ev.pid]
      live == {k \in DOMAIN fds : ~Expired(fds, k)} IN
  /\ events # <<>> /\ ev.type = "connect"
  /\ TakeEvent /\ routineIDs' = Tail(routineIDs)
  /\ suspiciousByPID' = IF ev.dest \in allowlist THEN suspiciousByPID
                        ELSE [suspiciousByPID EXCEPT ![ev.pid] = arm(@, ev.fd, ev.dest, id)]
  /\ fate' = [i \in DOMAIN fate |->
       IF i = id
       THEN [fate[i] EXCEPT !.at = ktime,
               !.is = IF ev.dest \in allowlist THEN "allowlisted"
                      ELSE IF ev.fd \notin live /\ Cardinality(live) >= maxFDsPerPID
                      THEN "table full" ELSE "armed"]
       ELSE IF fate[i].key = fate[id].key /\ fate[i].is = "armed" /\ ev.dest \notin allowlist
       THEN [fate[i] EXCEPT !.is = "replaced"] ELSE fate[i]]
  /\ UNCHANGED <<kernelMaps, critical, connecting, connected, ktime, calls, owed, allowlist,
                 engine, gone, containing, opened, pending, connID, criticalIDs, fragments, last>>

(* Opening a sensitive file taints its contents, unless the handler        *)
(* panics.  (Every open here is of a sensitive file; an open has no        *)
(* payload, is never EXFIL, and so leads to no containment.)               *)
handleOpenat ==
  /\ events # <<>> /\ Head(events).type = "openat"
  /\ TakeEvent /\ routineIDs' = Tail(routineIDs)
  /\ \/ tainted' = TRUE /\ opened' = "handled"
     \/ tainted' = tainted /\ opened' = "missed"
  /\ UNCHANGED <<kernelMaps, critical, connecting, connected, ktime, calls, owed, allowlist,
                 suspiciousByPID, egressFlows, egressPIDFlows, gone, containing, pending, connID,
                 fate, criticalIDs, fragments, last>>
-----------------------------------------------------------------------------
(* The critical reader.  An examined payload goes through the flow buffers *)
(* to the overlap check; on an EXFIL verdict containment begins.  A panic  *)
(* of the handler here, where it matters, loses the verdict.               *)
Verdict(ev, dest, dns, id) ==
  \E r \in egressCandidatePayload(egressFlows, egressPIDFlows, ev.pid, dest, dns, ev.payload, ev.ts),
     panicked \in BOOLEAN :
    LET exfil == tainted /\ HasText(r.scan, Secret)
        piece == normalizedEgressFragment(dns, ev.payload) IN
    /\ panicked => exfil
    /\ egressFlows' = r.flows /\ egressPIDFlows' = r.pidFlows
    /\ containing' = IF exfil /\ ~panicked THEN [pid |-> ev.pid, step |-> "kill"] ELSE containing
    /\ fragments' = IF piece = <<>> THEN fragments
                    ELSE [fragments EXCEPT ![ev.pid] = Append(@, [text |-> piece, ts |-> ev.ts])]
    /\ last' = [conn |-> Head(criticalIDs), by |-> id, pid |-> ev.pid,
                why |-> Why(Head(criticalIDs)), piece |-> piece, scan |-> r.scan,
                panicked |-> panicked]

(* callHandler.  A panic of the handler, be it before the payload has gone *)
(* into the flow buffers or after, is recovered as "allow": FAIL-OPEN.     *)
Examine(ev, dest, dns, id) ==
  \/ Verdict(ev, dest, dns, id)
  \/ /\ last' = [Idle EXCEPT !.conn = Head(criticalIDs), !.by = id, !.pid = ev.pid,
                              !.why = Why(Head(criticalIDs)), !.panicked = TRUE]
     /\ UNCHANGED <<egressFlows, egressPIDFlows, containing, fragments>>

handleWrite ==
  LET ev  == Head(critical_events)
      fds == suspiciousByPID[ev.pid]
      k   == armed(fds, ev.fd) IN
  /\ containing = Nobody /\ critical_events # <<>> /\ "fd" \in DOMAIN ev
  /\ TakeCriticalEvent /\ criticalIDs' = Tail(criticalIDs)
  /\ suspiciousByPID' = [suspiciousByPID EXCEPT ![ev.pid] = afterLookup(@, ev.fd)]
  /\ IF k # NULL THEN Examine(ev, fds[k].dest, FALSE, fds[k].id)
     ELSE /\ last' = [Idle EXCEPT !.conn = Head(criticalIDs), !.pid = ev.pid,
                                  !.why = Why(Head(criticalIDs))]
          /\ UNCHANGED <<egressFlows, egressPIDFlows, containing, fragments>>
  /\ UNCHANGED <<kernelMaps, routine, connecting, connected, ktime, calls, owed, allowlist, tainted,
                 gone, opened, pending, connID, fate, routineIDs>>

handleSendto ==
  LET ev == Head(critical_events) IN
  /\ containing = Nobody /\ critical_events # <<>> /\ "dest" \in DOMAIN ev
  /\ TakeCriticalEvent /\ criticalIDs' = Tail(criticalIDs)
  /\ IF ev.dest \in allowlist
     THEN UNCHANGED <<suspiciousByPID, egressFlows, egressPIDFlows, containing, fragments, last>>
     ELSE /\ suspiciousByPID' = [suspiciousByPID EXCEPT ![ev.pid] = arm(@, anyFD, ev.dest, NoConn)]
          /\ Examine(ev, ev.dest, ev.dest \in DNS, NoConn)
  /\ UNCHANGED <<kernelMaps, routine, connecting, connected, ktime, calls, owed, allowlist, tainted,
                 gone, opened, pending, connID, fate, routineIDs>>

handleLSMDeny ==
  /\ containing = Nobody /\ critical_events # <<>> /\ Head(critical_events).type = "lsm_deny"
  /\ TakeCriticalEvent /\ criticalIDs' = Tail(criticalIDs)
  /\ UNCHANGED <<kernelMaps, routine, connecting, connected, ktime, calls, owed, suspiciousByPID,
                 allowlist, engine, gone, containing, opened, pending, connID, fate, routineIDs, fragments, last>>

(* The rest of handleWrite and handleSendto after an EXFIL verdict.  The   *)
(* kill resolver turns the process into those the attribution of its pod   *)
(* knows, and need not know this one; without any it is the process.       *)
containPIDs ==
  /\ containing.step = "kill"
  /\ \E targets \in SUBSET PIDs : gone' = gone \cup targets
  /\ containing' = [containing EXCEPT !.step = "quarantine"]
  /\ UNCHANGED <<vars, suspiciousByPID, allowlist, engine, history>>

QuarantineContained ==
  /\ containing.step = "quarantine"
  /\ Quarantine(containing.pid, CgroupOf[containing.pid])
  /\ containing' = Nobody
  /\ UNCHANGED <<routine, critical, connecting, connected, ktime, calls, owed, read,
                 suspiciousByPID, allowlist, engine, gone, history>>
-----------------------------------------------------------------------------
(* AddPIDs at the start of a process, RemovePIDs after its end, a reload,  *)
(* and time.                                                               *)
AddPIDs(p) ==
  /\ p \notin pid_filter \cup gone /\ AddPID(p)
  /\ UNCHANGED <<routine, critical, connecting, connected, ktime, calls, owed, read,
                 suspiciousByPID, allowlist, engine, gone, containing, history>>

RemovePIDs(p) ==
  /\ p \in pid_filter /\ connecting[p] = NULL
  /\ gone' = gone \cup {p}
  /\ pid_filter' = pid_filter \ {p} /\ lsm_blocklist_pid' = lsm_blocklist_pid \ {p}
  /\ suspiciousByPID' = [suspiciousByPID EXCEPT ![p] = NoFlows]
  /\ fate' = [i \in DOMAIN fate |-> IF fate[i].key[1] = p /\ fate[i].is = "armed"
                                    THEN [fate[i] EXCEPT !.is = "removed"] ELSE fate[i]]
  /\ UNCHANGED <<cgroup_filter, lsm_blocklist_cgroup, payload_cap, routine, critical, connecting,
                 connected, ktime, calls, owed, read, allowlist, engine, containing, opened, pending,
                 connID, routineIDs, criticalIDs, fragments, last>>

UpdateAllowlist(a) ==
  /\ a # allowlist /\ allowlist' = a
  /\ UNCHANGED <<vars, suspiciousByPID, engine, gone, containing, history>>

Tick ==
  /\ ktime < MaxTime /\ ktime' = ktime + 1
  /\ UNCHANGED <<kernelMaps, routine, critical, connecting, connected, calls, owed, read,
                 suspiciousByPID, allowlist, engine, gone, containing, history>>
-----------------------------------------------------------------------------
SensorInit ==
  /\ Init
  /\ suspiciousByPID = [p \in PIDs |-> NoFlows]
  /\ allowlist \in Allowlists
  /\ egressFlows = NoFlows /\ egressPIDFlows = NoFlows
  /\ tainted \in BOOLEAN /\ gone = {} /\ containing = Nobody
  /\ opened = (IF tainted THEN "handled" ELSE "no")
  /\ pending = [p \in PIDs |-> NoConn]
  /\ connID = [x \in PIDs \X FDs |-> NoConn]
  /\ fate = [i \in 1..MaxCalls |-> [key |-> <<NULL, NULL>>, at |-> 0, is |-> "none"]]
  /\ routineIDs = <<>> /\ criticalIDs = <<>>
  /\ fragments = [p \in PIDs |-> <<>>]
  /\ last = Idle

Process(p) ==
  \/ \E fd \in FDs, d \in ConnectTo : Connect(p, fd, d)
  \/ \E ret \in {0, 1} : ConnectDone(p, ret)
  \/ \E fd \in FDs, buf \in Buffers : Write(p, fd, buf)
  \/ \E fd \in FDs, buf \in Buffers, d \in SendTo : Sendto(p, fd, buf, d)
  \/ Open(p)

readLoopRoutine == handleConnect \/ handleOpenat
readLoopCritical ==
  handleWrite \/ handleSendto \/ handleLSMDeny \/ containPIDs \/ QuarantineContained

SensorNext ==
  \/ \E p \in PIDs : Process(p) \/ AddPIDs(p) \/ RemovePIDs(p)
  \/ readLoopRoutine \/ readLoopCritical
  \/ \E a \in Allowlists : UpdateAllowlist(a)
  \/ Tick

SensorSpec == SensorInit /\ [][SensorNext]_sensorVars

(* A reader that has something to do does something, again and again: it   *)
(* takes a record or goes on with its containment.  (Weak fairness of the  *)
(* two loops, in terms of what enables and what they change, which TLC     *)
(* evaluates faster.)                                                      *)
RoutineReads == []<>(events = <<>>) \/ []<><<TRUE>>_(read.routine)
CriticalReads == \/ []<>(critical_events = <<>> /\ containing = Nobody)
                 \/ []<><<TRUE>>_<<read.critical, containing>>
SensorFairSpec == SensorSpec /\ RoutineReads /\ CriticalReads
-----------------------------------------------------------------------------
(***************************************************************************)
(* Properties.                                                             *)
(***************************************************************************)

(* A payload sent over a connection is attributed to that connection       *)
(* (armed by its own connect), unless the connect's record was dropped, is *)
(* still on the other ring buffer, was allowlisted when it was handled,    *)
(* found the table full, has expired, was removed with its process, or was *)
(* replaced by a later connect on the descriptor; or the connection is     *)
(* older than the watch.  Descriptors that were duplicated, inherited or   *)
(* closed without a probe seeing it are not in the model.                  *)
CorrelationExplained ==
  last.conn # NoConn /\ last.why = "armed" => last.by = last.conn

(* The newest n pieces of a process, and whether they are within the       *)
(* limits of reassembly: they fit the chunk and byte caps, and none came   *)
(* later than the age limit after the one before.                          *)
NewestTexts(f, n) == [i \in 1..n |-> f[Len(f) - n + i].text]
WithinLimits(f, n) ==
  /\ n <= egressFragmentMaxChunks
  /\ Bytes(NewestTexts(f, n)) <= egressFragmentMaxBytes
  /\ \A i \in (Len(f) - n + 2)..Len(f) : f[i].ts - f[i - 1].ts <= egressFragmentMaxAge

(* Pieces of a process's egress that are within the reassembly limits are  *)
(* scanned as one text, to whichever destinations they went: the newest    *)
(* pieces, while within the limits, are a run of the text that was scanned *)
(* with the last of them (appendEgressFlowFragment).  A DNS query without  *)
(* a label is no piece and is scanned by itself.                           *)
PiecesJoined ==
  LET f == fragments[last.pid]
  IN  (last.piece # <<>> /\ Cardinality(PIDs) <= egressMaxFlows) =>
        \A n \in 1..Len(f) : WithinLimits(f, n) => HasText(last.scan, Join(NewestTexts(f, n)))

(* A process that sends a tainted value over an armed connection, in a     *)
(* record the critical ring took, ends up contained: its cgroup is put on  *)
(* the blocklist of the LSM hook; unless by the time the reader comes to   *)
(* it that very connection is no longer armed, or the handler panics on it *)
(* and the sensor fails open.  (Whether the process itself is killed is up *)
(* to the kill resolver; what lifts a block again is in Quarantine.)       *)
Leaking(p, c) ==
  /\ tainted
  /\ \E i \in 1..Len(critical_events) :
       LET ev == critical_events[i] IN
       ev.pid = p /\ criticalIDs[i] = c /\ HasText(ev.payload, Secret) /\ Why(c) = "armed"
Contained(p) == CgroupOf[p] \in lsm_blocklist_cgroup
FailedOpen(c) == last.conn = c /\ last.panicked
LeakContained ==
  \A p \in PIDs, c \in 1..MaxCalls :
    Leaking(p, c) ~> \/ Contained(p)
                     \/ Why(c) \in {"expired", "replaced", "removed"}
                     \/ FailedOpen(c)
=============================================================================
