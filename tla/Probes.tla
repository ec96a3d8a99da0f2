------------------------------- MODULE Probes -------------------------------
(***************************************************************************)
(* The kernel side of the sensor (internal/ebpf/bpf/connect.c): what the   *)
(* tracepoint programs put on the two ring buffers when a task connects,   *)
(* writes, sends or opens, and the LSM hook that refuses connections.      *)
(*                                                                         *)
(* A program runs to its end once it has begun, so it is one action.  A    *)
(* connect(2) runs two of them, the tracepoint on entry and the LSM hook   *)
(* later, and the maps may change in between.  What a task passes is:      *)
(*   a user buffer   a text that can be read, Unmapped memory, or NULL     *)
(*   an iovec array  a sequence of buffers, and of BadIovec where the      *)
(*                   iovec itself cannot be read                           *)
(*   an address      a destination (AF_INET, AF_INET6), NULL, or           *)
(*                   OtherFamily for any other or unreadable address       *)
(* The length that goes with a buffer is that of its text; memory that is  *)
(* not resident when the probe reads it counts as Unmapped.                *)
(***************************************************************************)
EXTENDS Text, FiniteSets

CONSTANTS
  PIDs, Cgroups, CgroupOf,   \* processes and the cgroup each runs in
  FDs,                       \* descriptors, as numbers
  Dests,                     \* destinations read_dest understands
  Atoms,                     \* what texts are made of
  Buffers,                   \* what tasks pass as a buffer
  IovArrays,                 \* what tasks pass as an array of iovecs
  Messages,                  \* what tasks pass as message headers: [iov, name]
  Caps,                      \* values userspace writes into payload_cap
  NULL, Unmapped, BadIovec, OtherFamily,
  PAYLOAD_MAX, IOV_MAX,      \* compiled-in limits
  EventsSize, CriticalSize,  \* records the two ring buffers hold
  MapEntries,                \* entries each of the four hash maps holds
  MaxCalls                   \* bound: system calls in a behaviour

Names == Dests \cup {NULL, OtherFamily}
Iovecs == {NULL, Unmapped, BadIovec} \cup Seq(Atoms)

ASSUME ProbesAssumption ==
  /\ CgroupOf \in [PIDs -> Cgroups]
  /\ FDs \subseteq Nat
  /\ PAYLOAD_MAX \in Nat \ {0} /\ IOV_MAX \in Nat \ {0}
  /\ {EventsSize, CriticalSize, MapEntries, MaxCalls} \subseteq Nat
  /\ Caps \subseteq Nat
  /\ NULL \notin Dests \cup FDs /\ OtherFamily \notin Dests
  /\ \A x \in {NULL, Unmapped, BadIovec} : x \notin Seq(Atoms)
  /\ Buffers \subseteq {NULL, Unmapped} \cup Seq(Atoms)
  /\ IovArrays \subseteq Seq(Iovecs)
  /\ \A msg \in Messages : msg.iov \in Seq(Iovecs) /\ msg.name \in Names

VARIABLES
  pid_filter, cgroup_filter,               \* who is watched
  lsm_blocklist_pid, lsm_blocklist_cgroup, \* who may not connect
  payload_cap,           \* bytes to capture, 0 if never written
  events,                \* routine ring: connect, openat
  critical_events,       \* critical ring: payloads and denials
  drop_count, critical_drop_count,
  connecting,  \* per process: the connect(2) between tracepoint and LSM hook
  connected,   \* per process and descriptor: the address it is connected to
  ktime,       \* the kernel's monotonic clock
  calls,       \* system calls made
  owed,        \* history: records the programs were bound to deliver, per ring
  read         \* history: records taken from each ring

kernelMaps == <<pid_filter, cgroup_filter, lsm_blocklist_pid, lsm_blocklist_cgroup, payload_cap>>
routine == <<events, drop_count>>
critical == <<critical_events, critical_drop_count>>
vars == <<kernelMaps, routine, critical, connecting, connected, ktime, calls, owed, read>>
-----------------------------------------------------------------------------
(* A ring buffer takes the record, or its drop counter is incremented.  A  *)
(* record whose payload turns out unreadable is reserved and discarded.    *)
inc_drop_count == drop_count' = drop_count + 1 /\ UNCHANGED events
inc_critical_drop_count ==
  critical_drop_count' = critical_drop_count + 1 /\ UNCHANGED critical_events

SubmitRoutine(ev, readable) ==
  \/ Len(events) >= EventsSize /\ inc_drop_count
  \/ /\ Len(events) < EventsSize
     /\ events' = IF readable THEN Append(events, ev) ELSE events
     /\ UNCHANGED drop_count

(* Mutant: a full ring buffer swallows the record without a trace.         *)
SubmitCriticalSilently(ev, readable) ==
  /\ critical_events' = IF readable /\ Len(critical_events) < CriticalSize
                        THEN Append(critical_events, ev) ELSE critical_events
  /\ UNCHANGED critical_drop_count

SubmitCritical(ev, readable) ==
  \/ Len(critical_events) >= CriticalSize /\ inc_critical_drop_count
  \/ /\ Len(critical_events) < CriticalSize
     /\ critical_events' = IF readable THEN Append(critical_events, ev) ELSE critical_events
     /\ UNCHANGED critical_drop_count

payload_limit ==
  LET lim == IF payload_cap > 0 THEN payload_cap ELSE PAYLOAD_MAX
  IN  IF lim > PAYLOAD_MAX THEN PAYLOAD_MAX ELSE lim

monitored_task(p) == p \in pid_filter \/ CgroupOf[p] \in cgroup_filter

read_dest(sa) == sa \in Dests
Nothing(buf) == buf \in {NULL, <<>>}
Readable(buf) == buf \notin {NULL, Unmapped, BadIovec}

clamp_cap(count) == IF count < payload_limit THEN count ELSE payload_limit
read_payload(buf) == SubSeq(buf, 1, clamp_cap(Len(buf)))

(* gather_iov's loop body, with room for `room` more bytes: a null or      *)
(* empty iovec is passed over, one that cannot be read ends the loop.      *)
copy_iovec(acc, v, limit, room) ==
  IF acc.stop \/ Len(acc.out) >= limit \/ v = BadIovec \/ v = Unmapped
  THEN [out |-> acc.out, stop |-> TRUE]
  ELSE IF Nothing(v) THEN acc
  ELSE [out |-> acc.out \o SubSeq(v, 1, IF Len(v) < room THEN Len(v) ELSE room), stop |-> FALSE]
iovcnt(iov) == IF Len(iov) < IOV_MAX THEN Len(iov) ELSE IOV_MAX

(* Mutant: each iovec may fill the whole window.                           *)
gather_iov_each(iov) ==
  LET limit == payload_limit
      after[i \in 0..iovcnt(iov)] ==
        IF i = 0 THEN [out |-> <<>>, stop |-> FALSE]
        ELSE copy_iovec(after[i - 1], iov[i], limit, limit)
  IN  after[iovcnt(iov)].out

(* gather_iov: the iovecs back to back, in what is left of the window.     *)
gather_iov(iov) ==
  LET limit == payload_limit
      after[i \in 0..iovcnt(iov)] ==
        IF i = 0 THEN [out |-> <<>>, stop |-> FALSE]
        ELSE copy_iovec(after[i - 1], iov[i], limit, limit - Len(after[i - 1].out))
  IN  after[iovcnt(iov)].out
-----------------------------------------------------------------------------
(* The records.  Write layout carries the descriptor, sendto layout the    *)
(* destination.  `pieces` and `cap` are history: what was captured from,   *)
(* and the window at that time.                                            *)
connect_event(p, fd, dest) == [type |-> "connect", pid |-> p, fd |-> fd, dest |-> dest]
write_event(type, p, fd, payload, pieces) ==
  [type |-> type, pid |-> p, fd |-> fd, ts |-> ktime, payload |-> payload,
   pieces |-> pieces, cap |-> payload_limit]
sendto_event(type, p, dest, payload, pieces) ==
  [type |-> type, pid |-> p, dest |-> dest, ts |-> ktime, payload |-> payload,
   pieces |-> pieces, cap |-> payload_limit]
openat_event(p, path) == [type |-> "openat", pid |-> p, path |-> path]
lsm_deny_event(p) == [type |-> "lsm_deny", pid |-> p]

(* A program that leaves without touching a ring buffer.                   *)
Skip == UNCHANGED <<routine, critical>>

(* What the programs promise to deliver, for the loss accounting: written  *)
(* from the system call, not from what the program did with it.            *)
Gatherable(iov) ==
  \E i \in 1..Len(iov) : /\ i <= IOV_MAX /\ Readable(iov[i]) /\ iov[i] # <<>>
                         /\ \A j \in 1..i : iov[j] \notin {Unmapped, BadIovec}
Owe(ring, due) == owed' = [owed EXCEPT ![ring] = @ + (IF due THEN 1 ELSE 0)]

SysEnter(p) == calls < MaxCalls /\ calls' = calls + 1 /\ connecting[p] = NULL

(* sys_enter_connect.                                                      *)
SysEnterConnect(p, fd, sa) ==
  /\ SysEnter(p)
  /\ connecting' = [connecting EXCEPT ![p] = [fd |-> fd, sa |-> sa]]
  /\ IF monitored_task(p) /\ sa # NULL /\ read_dest(sa)
     THEN SubmitRoutine(connect_event(p, fd, sa), TRUE) /\ UNCHANGED critical
     ELSE Skip
  /\ Owe("routine", monitored_task(p) /\ sa \in Dests)
  /\ UNCHANGED <<kernelMaps, connected, ktime, read>>

(* emit_write: write(2), and sendto(2) without an address.                 *)
emit_write(p, fd, buf) ==
  IF Nothing(buf) THEN Skip
  ELSE /\ SubmitCritical(write_event("write", p, fd,
                           IF Readable(buf) THEN read_payload(buf) ELSE <<>>, <<buf>>),
                         Readable(buf))
       /\ UNCHANGED routine

SysEnterWrite(p, fd, buf) ==
  /\ SysEnter(p)
  /\ IF monitored_task(p) /\ fd >= 3 THEN emit_write(p, fd, buf) ELSE Skip
  /\ Owe("critical", monitored_task(p) /\ fd >= 3 /\ Readable(buf) /\ buf # <<>>)
  /\ UNCHANGED <<kernelMaps, connecting, connected, ktime, read>>

(* sys_enter_writev: nothing gathered, nothing reserved.                   *)
SysEnterWritev(p, fd, iov) ==
  LET total == gather_iov(iov) IN
  /\ SysEnter(p)
  /\ IF monitored_task(p) /\ fd >= 3 /\ iov # <<>> /\ total # <<>>
     THEN SubmitCritical(write_event("writev", p, fd, total, iov), TRUE) /\ UNCHANGED routine
     ELSE Skip
  /\ Owe("critical", monitored_task(p) /\ fd >= 3 /\ Gatherable(iov))
  /\ UNCHANGED <<kernelMaps, connecting, connected, ktime, read>>

(* sys_enter_sendto: without an address a write on the descriptor, which   *)
(* may be 0 to 2 here; with one of another family nothing.                 *)
SysEnterSendto(p, fd, buf, sa) ==
  /\ SysEnter(p)
  /\ CASE ~monitored_task(p) \/ Nothing(buf) -> Skip
       [] monitored_task(p) /\ ~Nothing(buf) /\ sa = NULL -> emit_write(p, fd, buf)
       [] monitored_task(p) /\ ~Nothing(buf) /\ sa # NULL /\ ~read_dest(sa) -> Skip
       [] OTHER ->
            /\ SubmitCritical(sendto_event("sendto", p, sa,
                                IF Readable(buf) THEN read_payload(buf) ELSE <<>>, <<buf>>),
                              Readable(buf))
            /\ UNCHANGED routine
  /\ Owe("critical", /\ monitored_task(p) /\ Readable(buf) /\ buf # <<>>
                     /\ sa \in Dests \cup {NULL})
  /\ UNCHANGED <<kernelMaps, connecting, connected, ktime, read>>

(* emit_sendmsg: the layout depends on whether the message names a         *)
(* destination that can be read.                                           *)
emit_sendmsg(p, fd, iov, name) ==
  LET total == gather_iov(iov) IN
  IF iov = <<>> \/ total = <<>> THEN Skip
  ELSE /\ SubmitCritical(
            IF read_dest(name) THEN sendto_event("sendmsg", p, name, total, iov)
                               ELSE write_event("sendmsg", p, fd, total, iov), TRUE)
       /\ UNCHANGED routine

(* sys_enter_sendmsg; `msg` is NULL, Unmapped or a header.                 *)
SysEnterSendmsg(p, fd, msg) ==
  /\ SysEnter(p)
  /\ IF monitored_task(p) /\ msg \notin {NULL, Unmapped}
     THEN emit_sendmsg(p, fd, msg.iov, msg.name) ELSE Skip
  /\ Owe("critical", /\ monitored_task(p) /\ msg \notin {NULL, Unmapped}
                     /\ Gatherable(msg.iov))
  /\ UNCHANGED <<kernelMaps, connecting, connected, ktime, read>>

(* sys_enter_sendmmsg: of the messages only the first is captured.         *)
SysEnterSendmmsg(p, fd, msgvec) ==
  /\ SysEnter(p)
  /\ IF monitored_task(p) /\ msgvec # <<>> /\ msgvec[1] \notin {NULL, Unmapped}
     THEN emit_sendmsg(p, fd, msgvec[1].iov, msgvec[1].name) ELSE Skip
  /\ Owe("critical", /\ monitored_task(p) /\ msgvec # <<>>
                     /\ msgvec[1] \notin {NULL, Unmapped} /\ Gatherable(msgvec[1].iov))
  /\ UNCHANGED <<kernelMaps, connecting, connected, ktime, read>>

(* sys_enter_openat; the path is NULL, Unmapped or a text.                 *)
SysEnterOpenat(p, path) ==
  /\ SysEnter(p)
  /\ IF monitored_task(p) /\ path # NULL
     THEN SubmitRoutine(openat_event(p, path), Readable(path)) /\ UNCHANGED critical
     ELSE Skip
  /\ Owe("routine", monitored_task(p) /\ Readable(path))
  /\ UNCHANGED <<kernelMaps, connecting, connected, ktime, read>>
-----------------------------------------------------------------------------
(* lsm/socket_connect: an earlier hook may have refused (ret), a blocked   *)
(* task is refused whether or not the ring buffer takes the record.        *)
blocklisted(p) == p \in lsm_blocklist_pid \/ CgroupOf[p] \in lsm_blocklist_cgroup

LsmSocketConnect(p, ret) ==
  LET c == connecting[p] IN
  /\ c # NULL
  /\ connecting' = [connecting EXCEPT ![p] = NULL]
  /\ IF ret = 0 /\ blocklisted(p) THEN SubmitCritical(lsm_deny_event(p), TRUE) ELSE UNCHANGED critical
  /\ connected' = [connected EXCEPT ![<<p, c.fd>>] =
                      IF ret = 0 /\ ~blocklisted(p) THEN c.sa ELSE NULL]
  /\ Owe("critical", ret = 0 /\ blocklisted(p))
  /\ UNCHANGED <<kernelMaps, routine, ktime, calls, read>>
-----------------------------------------------------------------------------
(* Userspace: the loader writes the maps and its readers take the records. *)
(* Putting a new key into a full map fails.                                *)
MapPut(m, k) == IF Cardinality(m) < MapEntries THEN m \cup {k} ELSE m

AddPID(p) == pid_filter' = MapPut(pid_filter, p)
             /\ UNCHANGED <<cgroup_filter, lsm_blocklist_pid, lsm_blocklist_cgroup, payload_cap>>
RemovePID(p) == pid_filter' = pid_filter \ {p}
             /\ UNCHANGED <<cgroup_filter, lsm_blocklist_pid, lsm_blocklist_cgroup, payload_cap>>
AddCgroupID(c) == cgroup_filter' = MapPut(cgroup_filter, c)
             /\ UNCHANGED <<pid_filter, lsm_blocklist_pid, lsm_blocklist_cgroup, payload_cap>>
SetPayloadCaptureBytes(n) == payload_cap' = n
             /\ UNCHANGED <<pid_filter, cgroup_filter, lsm_blocklist_pid, lsm_blocklist_cgroup>>

Quarantine(p, c) ==
  /\ lsm_blocklist_pid' = MapPut(lsm_blocklist_pid, p)
  /\ lsm_blocklist_cgroup' = MapPut(lsm_blocklist_cgroup, c)
  /\ UNCHANGED <<pid_filter, cgroup_filter, payload_cap>>

Userspace ==
  /\ \/ \E p \in PIDs : AddPID(p) \/ RemovePID(p) \/ Quarantine(p, CgroupOf[p])
     \/ \E c \in Cgroups : AddCgroupID(c)
     \/ \E n \in Caps : SetPayloadCaptureBytes(n)
  /\ UNCHANGED <<routine, critical, connecting, connected, ktime, calls, owed, read>>

TakeEvent ==
  /\ events # <<>> /\ events' = Tail(events) /\ UNCHANGED drop_count
  /\ read' = [read EXCEPT !.routine = @ + 1]

TakeCriticalEvent ==
  /\ critical_events # <<>> /\ critical_events' = Tail(critical_events)
  /\ read' = [read EXCEPT !.critical = @ + 1] /\ UNCHANGED critical_drop_count

ReadEvent ==
  TakeEvent /\ UNCHANGED <<kernelMaps, critical, connecting, connected, ktime, calls, owed>>
ReadCriticalEvent ==
  TakeCriticalEvent /\ UNCHANGED <<kernelMaps, routine, connecting, connected, ktime, calls, owed>>

Init ==
  /\ pid_filter = {} /\ cgroup_filter = {}
  /\ lsm_blocklist_pid = {} /\ lsm_blocklist_cgroup = {}
  /\ payload_cap = 0
  /\ events = <<>> /\ critical_events = <<>>
  /\ drop_count = 0 /\ critical_drop_count = 0
  /\ connecting = [p \in PIDs |-> NULL]
  /\ connected = [x \in PIDs \X FDs |-> NULL]
  /\ calls = 0 /\ ktime = 0
  /\ owed = [routine |-> 0, critical |-> 0] /\ read = owed

Tracepoints(p) ==
  \/ \E fd \in FDs, sa \in Names : SysEnterConnect(p, fd, sa)
  \/ \E fd \in FDs, buf \in Buffers : SysEnterWrite(p, fd, buf)
  \/ \E fd \in FDs, iov \in IovArrays : SysEnterWritev(p, fd, iov)
  \/ \E fd \in FDs, buf \in Buffers, sa \in Names : SysEnterSendto(p, fd, buf, sa)
  \/ \E fd \in FDs, msg \in Messages \cup {NULL, Unmapped} : SysEnterSendmsg(p, fd, msg)
  \/ \E fd \in FDs, m \in Messages \cup {Unmapped}, n \in 0..2 :
        SysEnterSendmmsg(p, fd, [i \in 1..n |-> m])
  \/ \E path \in Buffers : SysEnterOpenat(p, path)

Next ==
  \/ \E p \in PIDs : Tracepoints(p) \/ \E ret \in {0, 1} : LsmSocketConnect(p, ret)
  \/ Userspace \/ ReadEvent \/ ReadCriticalEvent

Spec == Init /\ [][Next]_vars
-----------------------------------------------------------------------------
(***************************************************************************)
(* Properties.                                                             *)
(***************************************************************************)

(* Every variable has its type.                                            *)
TypeOK ==
  /\ pid_filter \subseteq PIDs /\ lsm_blocklist_pid \subseteq PIDs
  /\ cgroup_filter \subseteq Cgroups /\ lsm_blocklist_cgroup \subseteq Cgroups
  /\ payload_cap \in Nat /\ calls \in Nat /\ ktime \in Nat
  /\ drop_count \in Nat /\ critical_drop_count \in Nat
  /\ Len(events) <= EventsSize /\ Len(critical_events) <= CriticalSize
  /\ owed \in [routine : Nat, critical : Nat] /\ read \in [routine : Nat, critical : Nat]

(* What a record should hold, said without the loop that copies it: the    *)
(* pieces before the first unreadable one, joined, and cut at the window.  *)
LongestReadable(pieces, cap) ==
  LET ok(n) == \A i \in 1..n : pieces[i] \notin {Unmapped, BadIovec}
      upto  == CHOOSE n \in 0..Len(pieces) :
                 /\ n <= IOV_MAX /\ ok(n)
                 /\ \A m \in (n + 1)..Len(pieces) : m <= IOV_MAX => ~ok(m)
      all   == Join([i \in 1..upto |-> IF Nothing(pieces[i]) THEN <<>> ELSE pieces[i]])
  IN  SubSeq(all, 1, IF Len(all) < cap THEN Len(all) ELSE cap)

(* "Copy the first IOV_MAX iovecs back to back into out, up to the payload *)
(* limit" (gather_iov), and the same for one buffer: a record on the       *)
(* critical ring holds exactly the longest readable beginning of what the  *)
(* task passed, cut at the window in force when it was captured, never a   *)
(* byte of anything else.                                                  *)
CapturedExactly ==
  \A i \in 1..Len(critical_events) :
    LET ev == critical_events[i] IN
    ev.type # "lsm_deny" => /\ ev.payload = LongestReadable(ev.pieces, ev.cap)
                            /\ Len(ev.payload) \in 1..PAYLOAD_MAX

(* Whatever a watched task connects to, sends from readable memory or      *)
(* opens, and every connection refused, is on a ring buffer, was read from *)
(* it, or shows in its drop counter: nothing the programs are bound to     *)
(* report disappears without a trace, whichever ring is full.              *)
NothingLostUncounted ==
  /\ owed.routine <= Len(events) + read.routine + drop_count
  /\ owed.critical <= Len(critical_events) + read.critical + critical_drop_count
=============================================================================
