# A TLA+ verification of Interlock

Interlock is a proxy between an AI agent and its MCP tool servers, with an
optional eBPF sensor. It watches each session for the "lethal trifecta" (a
sensitive source was read, untrusted content is present, an external sink is
used), blocks or kills when a sensitive value is on its way out, and writes
tamper-evident evidence. This directory models its core in TLA+, checks it with
TLC on small instances, and proves every safety property of the runs with TLAPS
for all values of the constants. `PROJECT.json` maps every definition to the lines it models.

## 1. The system

| Component | State | Operations | Talks to |
|---|---|---|---|
| Detection engine (`internal/engine`) | per session: legs, taint list, excerpts, fragment buffer, vault; a bounded session store | `EvaluateRequest`, `IngestResult`, `IngestSyscall(Sensor)`, bridge registrations, LSM denials, `Configure` | called by dispatch, sensor and bridge under `Engine.mu`; emits to the evidence sink |
| Tagger | tool and server tags | `TagsFor`, `IsSensitiveSource`, `IsExternalSink` | engine |
| Egress flow buffers (in `engine.go`) | per process and destination, and per process: recent payloads | append, age out, evict | syscall handlers |
| Decoding, container inspection | none | bounded recursive decoding | engine |
| Proxy dispatch (`internal/proxy/dispatch.go`) | pending calls and waiters by request id | request path, `deliverServerFrame`, 30 s timeout | agent, servers, engine, deny flag |
| Session manager, PID registry | runtimes, MCP session ids, PIDs | create, cleanup, idle expiry, lookup | dispatch, HTTP, sensor hooks |
| HTTP transport | rate-limit windows | validation, POST/DELETE, SSE | session manager, dispatch |
| Evidence pipeline (`evidence_*.go`) | queue, worker, chain tip, JSONL or SQLite store | `Emit`, `Close`, restart, prune, `VerifyChain` | engine, breaker (success/failure), alerting |
| Fail-closed breaker (`internal/failclosed`) | health state, signals, back-off | `Record*`, evaluation, transition callback | evidence worker, poller, panic handlers in; proxy and sensor out |
| Kernel programs (`ebpf/bpf/connect.c`) | filter maps, blocklists, two ring buffers, drop counters | tracepoints on connect, write, writev, sendto, sendmsg, sendmmsg, openat; LSM hook on connect | the tasks of the node; the sensor's readers and loader |
| eBPF sensor (`internal/ebpf`) | armed descriptors, fail-closed ownership | two readers with a handler per record, watch/unwatch, quarantine, `SetFailClosedActive` | engine, breaker, session manager or pod watcher |
| Taint bridge (`internal/bridge`) | connections | register taint / untrusted | proxy's engine to the sensor's |
| Kubernetes attribution (`internal/k8s`) | pods, containers, PIDs, cgroups | pod events, rescans, lookup | sensor |
| Configuration, reload | the running configuration | SIGHUP reload | engine, sensor, alerting |
| Event log, alerting, SIEM, metrics | queues and counters | best-effort delivery | evidence worker |

What is hard here: several goroutines feed the breaker, and its callbacks run
with the lock released; the sensor's map operations interleave with pod and
session churn; what a task did arrives over two rings in no common order; PIDs
change hands between scan and use; registrations are lost with connections;
legs decay by time and by count; a secret may arrive and leave in pieces;
buffers and stores are bounded and shed; evidence must survive failing writes,
shutdown and crashes. What makes the parts correct:

* engine: nothing a sensitive source gave is let out unnoticed, every EXFIL
  verdict is earned, state of one session never judges another;
* breaker: a bad signal is never waited out, clearing takes sustained health,
  the back-off grows with each flap (and should stay below its ceiling, which it
  does not, see *Findings*), recovery happens, enforcement follows;
* quarantine: what is watched is denied while fail-closed is engaged, and
  clearing spares what a verdict had blocked before, each with exceptions that
  the properties name;
* evidence: accepted records are written or accounted for, and what is stored is
  one verifiable chain across failures and restarts;
* dispatch: an answer goes to the request whose id it has and has been examined
  under that request's tool, unless a server guessed the id early; nothing a
  request set up outlives it, nobody waits for good;
* sessions: the PID of a running server is attributed to its session, the sensor
  watches what runs, and what nobody uses is taken down;
* kernel programs: what is captured is what was sent, and what is lost is counted;
* sensor: a payload is examined under the connection it went over unless one of
  the known reasons prevents it, pieces are scanned together, and the container
  of a process that leaks ends up on the blocklist unless the handler panicked;
* attribution: a process is taken for another pod's only through a number that
  was reused or a cgroup read too late, nothing is attributed to a removed pod
  unless a rescan had it in hand, and every process of a known pod is attributed
  in the end;
* bridge: a registration is acted on at most once, and lost only with a
  connection the server dropped; shutting down ends.

## 2. Modules

| Module | Models | Built on |
|---|---|---|
| `Text` | payloads, secrets and chunk buffers as sequences of opaque atoms | SequencesExt |
| `Lists` | what deleting leaves of a list | |
| `Tagger` | `engine/tagger.go` | |
| `Trifecta` | the engine, its session store, vault and fragment buffer | `Text`, `Tagger` |
| `Breaker` | the breaker, its callbacks in flight, the proxy's deny flag | |
| `Quarantine` | filter maps, LSM blocklists, fail-closed ownership | |
| `Evidence` | asynchronous sink, stores, hash chain, shutdown, crash, restart | `Lists` |
| `Dispatch` | one session's requests and server readers, the maps they meet in | `Requests` |
| `Requests` | abstract: what becomes of one request, and nothing of how | |
| `Sessions` | session manager, PID registry, idle sweeper, the sensor's PID hooks | `Lists` |
| `Probes` | the kernel programs of `connect.c`, their maps and ring buffers | `Text` |
| `EgressFlows` | the engine's egress buffers, as operators | `Text` |
| `Sensor` | the programs composed with the two readers, the armed descriptors and the egress buffers | `Probes`, `EgressFlows` |
| `Attribution` | pod watcher, pod registry, the sensor's filters, over PIDs that are reused | `Lists` |
| `Bridge` | client, socket and server of the taint bridge, restarts of the sensor | |
| `MC*` | the instances TLC checks; `MCFailClosed` holds `Breaker` and `Quarantine` side by side | |
| `TextProofs` | lemmas about texts and chunk buffers | TLAPS |
| `TrifectaProofs` | theorems of `Trifecta` | `TextProofs` |
| `FailClosedProofs` | theorems of `Breaker` and `Quarantine` | TLAPS |
| `ProxyProofs` | theorems of `Dispatch` and `Sessions` | TLAPS |
| `EvidenceProofs`, `AttributionProofs`, `BridgeProofs` | theorems of `Evidence`, `Attribution`, `Bridge` | TLAPS |
| `SensorProofs` | theorems of `Probes` and `Sensor` | `TextProofs` |

Definitions marked "Mutant" are plausible bugs of the definition that follows
them. They are used by no specification: substituting one for the definition
shows that the property it is paired with in `PROJECT.json` can fail.

### Trifecta

Every handler holds `Engine.mu` from start to end, so each is one action:
`IngestResult` (with the `VaultRewriteFrame` the proxy calls right after it),
`EvaluateRequest`, `IngestSyscall`, `IngestSyscallSensor`, `SeedSensitiveOpen`,
the two bridge registrations, `IngestLSMDeny`, `RecordUnattributedSyscall` and
`Configure`. Each begins, as in the code, with `GetOrCreate` (which may evict)
and `touchSession` (which counts the event and prunes decayed legs).
`VaultRewriteFrame` takes the lock a second time: if other sessions evict this
one in between, its vault is gone and the frame is delivered as it was, which the
one action leaves out. Results of sensitive and of untrusted tools go through the
rewrite alike and leave visible whatever the vault does not know.

Abstractions. A text is a sequence of atoms, a secret a text the patterns of `taint.go` find;
encodings that `decode.go` undoes are the same atoms; an archive that cannot be inspected is an
input (`abort`). A value of at least `ChunkMatchMinLen` atoms is also matched by windows of
`ChunkMatchBytes` of its body: what lies between the first PEM header and the last footer, or
after a PuTTY header (`Armour`), without the windows of low entropy (`LowEntropy`, a set of
texts in place of Shannon's measure). A header is one atom; the code skips to the end of its
line. Of a call to a tool that is no external sink nothing is scanned, and `carries` is empty:
the properties say nothing of what such calls carry. The egress flow buffers are represented by
the window they return, which contains the payload (`EgressFlows` says which window). Path
taint is not truncated, sensitive paths are not reloaded, the timeline and the wording of
evidence are left out. `observed`, `shedAny` and `unvaulted` (values first tainted while the
vault was off) are history variables; `decision` is what the last handler returned, with what
would leave with it carried (detokenized, if the tool is authorised) and what the agent was
left to see.

### Breaker

One action per `Record*` call, each ending in `evalLocked`. `engageLocked` and
`clearLocked` release the mutex around `OnTransition`, so the goroutine stays in
`calling` and `SetFailClosed` is a later step of its own. Times are ages that
stop at `AgeCap`, beyond every comparison the code makes. A drop rate is its
place relative to the two thresholds. `flapFloor` is what engageLocked's loop has
computed for the current flap count; `ToDuration` is Go's float-to-integer
conversion, whose result out of range depends on the platform (`OutOfRange`). The
multiplier is a whole number (the default is 2).

### Quarantine

One action per BPF map operation; `fcMu` is represented by `phase`. Keys are
PIDs and cgroups alike. Each goroutine of `Watchers` (the informer and the
rescan) adds or removes one key at a time, in the steps of `AddPIDs` and
`RemovePIDs`, and the two may work on the same key: one may watch a PID again
while the other has taken it out of the filter and not yet out of the blocklist.
The rescan puts cgroups again and again. A put into a blocklist may fail, and so
may an engagement, which then leaves the blocks it made. (`RemoveCgroupIDs` is an
action although the watcher never calls its hook.) Whether the LSM hook is
attached is settled at start, so it is attached here. History variables: `lapsed`
holds keys that were unblocked while watched or whose put failed, `early` the
EXFIL blocks made before fail-closed engaged; a key leaves `early` when it is
unwatched and when fail-closed claims it because it is watched again.

### Evidence

The engine emits under its mutex, so one Emit is under way at a time; the worker
and Close interleave with it at every unlock and channel operation. A write to
the store may succeed, succeed but fail to prune or to write the viewer's copy,
write nothing, or (JSONL) leave a line cut short; a crash may do that too.
SHA-256 is the tuple of what it hashes. `trip_ts` is a wall clock, taken as never
set back: pruning goes by it, the chain by insertion. `overtaken` (a record was
written before an older one) and `raced` (an Emit raced Close) are history
variables for two windows that the properties except.

### Dispatch

A request is a goroutine of the HTTP server (or the one loop of stdio); each
server has a reader. An action is what one of them does between two points where
another may act: the request's steps in `dispatchToolsCall` (route, deny flag,
engine, register, write, wait, deferred delete) and the reader's in
`deliverServerFrame` (look up the pending call, examine and find the waiter, hand
over). The
engine is its verdict: allow, deny or panic; module `Trifecta` says which. An
evaluation that blocks, an unknown tool and a refused rewrite are the same to
this module. Bodies are `raw` (as the server sent them) or `examined` (ingested
and rewritten, or replaced by an error because the engine panicked).

Servers are not trusted: any server may answer any id, before the request is
registered, without having been sent it, late and repeatedly, up to `MaxAnswers`
responses in all. The code compares neither the server nor the time. `guessed` is
the history of ids that were answered before they were registered.

Abstractions. A client does not use an id twice in a session (MCP forbids it; the
code does not check). A cancelled session or a reader that ended is one in which
the environment does nothing more. What no request takes goes to the agent's
writer over stdio and nowhere over HTTP; the model ends at what a request
returns. `denied` is a history variable.

`Requests` is what the dispatcher promises, without maps, channels or readers: a request is
answered here, refused, or forwarded once; it is sealed if it found fail-closed on and stays
sealed while that lasts, and a sealed request is never forwarded; a forwarded one fails or is
answered, once, with an examined response of its own id, or is misled by one that was guessed.
`Dispatch!Promise` instantiates it with `Status` and the set of denied requests as its state,
and `KeepsPromise` says that every behaviour of the dispatcher is one of `Requests`. It
replaces the separate statements `AnswersExamined` and `DeniedStaysOut`, which it implies and
which are proved.

### Sessions

HTTP mode, in which every `initialize` runs `CreateMCP` in its own goroutine and
one sweeper calls `Cleanup`. The manager's lock is held for single map
operations, so both are sequences of actions. Several `Unregister` calls in a row
are one action: nobody looks up the PIDs of a session no longer filed. A process
keeps its PID until `Stop` has waited for it, then the number may be reused; the
start time is how often it has been. Tools are represented by one name that
several servers may offer. History variables mark what the code does not guard
against: `orphaned` (registrations a failed create leaves), `overtaken` (a
session cleaned up before its create returned).

### Probes

One action per program, because a program runs to its end; `connect(2)` runs the
tracepoint and, later, the LSM hook. Tasks pass buffers, iovec arrays and message
headers that may be null, unreadable or longer than what is captured. The maps
and rings have their sizes, and `Userspace` is the loader's side of them. Records
carry, besides their payload, the pieces they were made of and the limit in
force, so that a property can compare the two. `owed` counts what the programs
are bound to report. Sixteen bytes of `comm`, thread ids, ports and the struct
layout are left out; the verifier's masks are identities within the bounds the
code has just checked.

### EgressFlows and Sensor

`EgressFlows` holds the pure part: a table of flows is a function, and what
appending a payload makes of it is a set of results, because the flow evicted
among equally old ones depends on the order of a Go map. `Sensor` extends the
kernel's actions with the two reader goroutines, `handleConnect` and
`handleOpenat` on the routine ring and `handleWrite`, `handleSendto` and
`handleLSMDeny` on the critical one. A handler's look-up and its call of the
engine are one action: other goroutines touch the table only under the lock of
`arm` and `armed`. The handler may panic, before or after the payload has gone
into the flow buffers, and `callHandler` then allows. After an EXFIL verdict come
two more steps, the kill (`containPIDs`) and the quarantine of the PID and its
cgroup, and other tasks may act in between. Whom the kill resolver of
`cmd/interlock/main.go:142` names is left open: it answers with the processes
that attribution knows of the cgroup, which need not include the one that leaked.
The engine is reduced to one tainted value and the egress buffers; `Trifecta` has
the rest. Every open is of a path that `matchesSensitivePath` accepts (others
change nothing); an open has no payload, so it never leads to containment.

History variables give each connection a number and record what became of its
connect (`fate`), so that `CorrelationExplained` can say which arming a payload
should have found.

### Attribution

Pods come and go through the informer's goroutine, rescans run in another; both
go through `syncPIDs` in four steps (scan of `/proc`, registry, hooks, cgroups)
and nothing holds a lock over more than one of them. Processes start in a
container or on the host, end, and their numbers are used again; a key is a
number with its start time. A container is its cgroup. `/proc` is readable:
a scan that fails returns at once and changes nothing. With one PID the early
return of `RemovePIDs` part-way through a list is not exercised. `podInfo` is
written by every sync and by nothing deleted, so an entry of a removed pod stays;
a look-up by cgroup needs it and the cgroup's own entry, which is deleted.
`overtaken` holds the pods that were removed while a rescan had them in its copy,
`misread` the cgroups that a sync recorded for a pod from a process that had got
the number only after the scan.

### Bridge

The client's call in its steps (dial, which may fail at any time, write, close and redial,
write), the socket with what it holds, and the server's goroutines. A connection exists and
takes data before it is accepted. A failed write leaves part of a line, never a whole one.
`cut` is the history of what went with a connection that the server dropped.

## 3. Runs

| Run | Instance | What it shows |
|---|---|---|
| `engine_proxy` | 1 session, 2 secrets, one split over two results, 4 events, 2 ticks, cap of 2 taints, 2 configurations | the engine in block mode, with reloads that turn the vault on and off; both decay rules fire, the taint list overflows, the fragment buffer slides |
| `engine_store` | sensor mode, 3 sessions, store of 2, a key of header, body, dull line and footer, bridge messages, opens, egress | eviction prefers sessions without taint; a recycled session inherits nothing; a chunk of the key is EXFIL, what all such files share is not |
| `failclosed` | breaker: 3 goroutines, thresholds 1-2, ceiling 3, 4-bit durations; quarantine: 1 PID in 1 cgroup, 2 goroutines | safety of every transition, growing back-off, recovery; coverage, and early EXFIL blocks, under all interleavings of map operations |
| `failclosed_order`, `backoff_overflow` | the breaker of `failclosed` | violations, see below |
| `evidence` | both backends and modes, queue 2, retention 2, 4 trips, 1 crash | chain, tip, tamper detection, shutdown, eventual settlement |
| `dispatch` | 2 requests, 2 servers with a tool each, a tool nobody has, 2 responses by either server to either id | implements `Requests`; cleanup; requests end and readers go on |
| `sessions` | 2 creates, cap of 1, 2 servers each, 4 PIDs | attribution under PID reuse, watched PIDs, reclaiming |
| `probes` | 2 processes, payload of 3, 2 iovecs gathered of up to 3, rings and maps of 1, 2 calls | captured bytes, drop accounting |
| `sensor` | 1 process, 1 descriptor, 2 destinations, 3 calls, a DNS query without a label among the payloads, table of 1, rings of 1 and 2 | correlation across the rings, reassembly, containment |
| `attribution` | 2 pods and the host, 1 PID used twice | who is taken for whom, removal, attribution in the end |
| `bridge` | 3 registrations, 3 connections, 2 stops | at most once, no silent loss, Close ends |

Bounds. Each is the least that makes every branch happen: a secret of two atoms
is the least that can be split; caps of two make lists shed on the third value;
ages run to five recovery windows, the longest time the breaker compares; two
goroutines are what the pod watcher has, and one key is the least they can meet
at; four trips fill a
queue of two, overflow it and prune twice; two requests are the least that
overlap, two responses the least that repeat, and two servers the least of which
one answers for the other; two sessions of two servers are the
least in which a create fails half-way and a number is reused; an array one
iovec longer than is gathered, and a buffer one byte longer than is captured,
reach both limits of the kernel programs; a connect and two payloads are the
least that split a value, and in `sensor` a tick is longer than every time limit;
a PID used twice is the least that changes hands (a second PID changes no more
than how much two goroutines have to do: the safety properties hold with two as
well, on 3.7 million states); three connections let a
registration meet a dropped one twice. `MaxEvents`, `MaxTime`, `MaxTrips`,
`MaxCrashes`, `MaxAnswers`, `MaxCalls`, `MaxStarts`, `MaxStops`, `Conns` and
`AgeCap` are bounds of the model only; the proofs assume no
particular value for any of them. Deadlock is not checked in `Evidence`,
whose process ends, nor in `Dispatch`, `Sessions`, `Probes`, `Sensor`,
`Attribution` and `Bridge`, whose requests, calls or stops are used up; the other
instances never stop (time passes, or maps change).

Fairness. `Breaker!FairSpec`: the ticker of `WatchRingbufDrops` keeps polling both counters,
callbacks return, time passes. This is the deployment with a sensor; without one nothing polls
(see the hazards). `Evidence!FairSpec`: the Go scheduler runs a goroutine that can run, file
writes return. `Dispatch!FairSpec`: goroutines that can run do, the agent reads its output,
timers fire; a write to a server is not assumed to return, because the server may have stopped
reading and the time limit starts after it. `Sessions!SessionsFairSpec`: the sweeper's ticker
fires and `Stop` ends (it kills after three seconds). `Sensor!SensorFairSpec`: the two reader
goroutines go on reading, and the critical one with its containment (stated by what enables
them and what they change, which TLC evaluates faster than `WF`). `Attribution!FairSpec`: the
informer's goroutine and the rescan ticker's go on. `Bridge!FairSpec`: the accepting goroutine
goes on with the connection it has, the 30 s of a connection pass, and `Close` returns when it
can; nothing is assumed of the client. No fairness is assumed of traffic, failures, Close,
crash or restart.

### Findings

`failclosed_order`: a clear and the following engage are passed on by two
goroutines without the lock; in the wrong order the proxy stays open while the
breaker is tripped. `ProxyFollows` is what does hold.

`backoff_overflow`: after enough flaps in a row (29 with the defaults) the
product of the back-off is beyond a `time.Duration`. On amd64, the only
architecture that is built, it converts to the least int64, passes under the
ceiling and makes the floor of the trip negative, although `docs/INTERLOCK.md:657`
says that it is capped. `BackoffGrows` is what holds as long as the product is
within range.

In four more places the code does not do what a comment or a document says. The
property states what does hold, with the exception named; with the exception
taken out TLC shows a behaviour of the code against it.

* `EarlyExfilHeld`: fail-closed, while active, claims a key that is watched
  again, and the rescan watches cgroups again all the time, so clearing lifts an
  EXFIL block of a cgroup made before (against `sensor.go:269-272`).
* `ExfilJustified`: the headers between the blocks of a PEM bundle are not
  stripped, so they can be chunks and give EXFIL alone (against
  `chunk.go:27-30`).
* `KeepsPromise`: a response that names an id before the request is registered
  is returned without having been examined, and any server may answer for any
  other (against `docs/INTERLOCK.md:274`).
* `NotGuessed`: `Lookup` compares no start time, so a process is attributed to
  the pod that had its number until the next sync, and a cgroup may be read from
  the wrong process (against `attribution.go:40`, "PID-reuse safe").

Also met while modelling and recorded with the hazards:

* an EXFIL block made while fail-closed is engaged belongs to fail-closed and
  goes when it clears; an engagement that fails leaves blocks nobody lifts;
* a PID watched again by one goroutine while another is removing it stays
  watched and is not denied, although fail-closed is active;
* an Emit between its closed check and its select may enqueue after the last
  drain; `DrainedOnClose` is what does hold;
* over stdio an answer that comes after the 30 s is written to the agent without
  having been examined;
* a pod removed while a rescan has it in its copy is registered and watched
  again, for good;
* overlapping creates exceed the cap on sessions; a failed create leaves its PIDs
  registered;
* a handler of the bridge may run after `Close` returned;
* `panicBad` is reset only by the clear it prevents, so a trip on a panic lasts
  until the restart; a JSONL line cut short makes the store unopenable; a secret
  that JSON writes with escapes (a PEM block) is not found in the frame the vault
  rewrites, and neither is one tainted before a reload turned the vault on;
* a panic of the sensor's handler lets the payload pass, as its comment says.

## 4. Proofs

Every invariant, action property and refinement that a passing run checks is also a
theorem, for all values of the constants; liveness stays with TLC. The shape is
the same throughout: an inductive invariant, which TLC checked before it was
proved; one lemma per action; the theorem by temporal logic. What follows is why
each invariant has the parts it has.

**Engine** (`TrifectaProofs`), for any texts, caps, tags and configurations and
any number of sessions: `TaintRemembered`, `NoSilentExfil`, `ExfilJustified`,
`SplitSecretObserved`, `EvictionSparesTaint`, `LegsFreshWhenTouched`,
`VaultHidesSecrets`, and `TypeOK`, `TaintBounded`, `ExcerptsFresh`. Whether a
request that is let through carries an observed value depends on the taint list
holding all observed values, which depends on how the list sheds and on sessions
outside the store being blank. `IInv` is the type invariant, a clock that has
started, a predicate `Good` of each session (legs stamped in the past, taint
remembered and bounded, excerpts fresh, every secret of the joined fragment
buffer observed) and soundness of the last decision. The lemmas follow the
handlers: each helper that rewrites a session preserves `Good`, and each handler
is a composition of them. `LegsAreFresh` rests on what every handler begins with:
it works on a session that was touched, so pruned, and lights legs only now.
`ExfilIsJustified` needs that a chunk is a run of its value that the entropy gate
lets pass and, of one PEM block, lies between header and footer (`ChunkIsRun`).
`VaultHides` adds to `IInv` that whatever was observed while the vault was on is
in the vault, whatever reloads do and however the list sheds. Its one hypothesis
is that JSON writes the secrets as they are; the findings say that it is needed.

**Breaker** (`FailClosedProofs`), for any thresholds, durations and number of
goroutines, and whatever an out-of-range conversion yields: `BadMeansTripped`, `ProxyFollows`,
`ClearsOnlyAfterHealth`, `BackoffGrows`, `TypeOK`. Its `IInv` adds to the
invariants how the ages relate (`Timed`: a recovery is no older than the health
before it, and starts after the floor), how the floor of the trip relates to the
loop's result (`Floored`), and how the deny flag relates to the callback in
flight (`Told`).

**Quarantine** (`FailClosedProofs`), for any PIDs, cgroups and goroutines:
`AllWatchedDenied`, `EarlyExfilHeld`. Both are about the end of a pass that takes
many map operations. `Covering` says what is true in the middle of engaging: what
is watched is denied, still listed, has its bookkeeping to come, which waits for
the mutex, or has lapsed. `Spared` follows an early block: it is in the snapshot
while engaging, so it never becomes fail-closed's own, so it is not listed when
that clears.

**Dispatch** (`ProxyProofs`), for any number of requests, tools, servers and
answers: `NothingLeftBehind`, `AnswersExamined`, `DeniedStaysOut`, `TypeOK` and the
refinement `KeepsPromise`. That an answer was examined is decided several steps
before it is returned, by a reader that looked up the call and the waiter
separately. `IInv` therefore follows a frame along its way: what is pending is
pending for the request with that id and its tool (`Routing`, `Maps`), a frame
read has the tool of its request, or no tool because the request was not yet
registered (then it is `guessed`) or is done (`Held`, `Readers`), channels and
answers hold only frames that were examined or guessed (`Channels`, `Answered`),
and requests past the deny flag are not `denied` (`Cleared`). The step that needs
it: a response read between the registration and the deferred delete was
attributed, and one read after that finds no waiter, because ids are not reused.
The refinement is proved step by step: `NextCourse` says which course a request
may take in a step (stand still, advance, or end in one of its ways), from the
invariant; `StepsKeepPromise` maps each course to a step of `Requests` or to none.

**Sessions** (`ProxyProofs`), for any sessions, servers and PIDs: `LookupRight`,
`WatchFollowsSessions`. Create and Cleanup are sequences of steps on the same
maps, so `SInv` says where each stands (`Placed`), that the holder of a number is
a running session that registered the process having it now (`Owned`), what the
registry has under a number at each step of a cleanup (`Filed`: nothing, or
exactly the present process), and the same for the sensor's watch list
(`Watched`). `Filed` is what makes a look-up right: the code takes the first
key under the PID, and there is only one.

**Evidence** (`EvidenceProofs`), for any queue, retention and number of trips and
crashes, both backends: `ChainIntact`, `TipSurvives`, `TamperDetected`,
`DrainedOnClose`, `TypeOK`. That what is stored is a chain is kept by appending a
record linked to the tip and by cutting a store at its old end; the second needs
the store to be in the order of the records' times, hence `InOrder`: what is in
the worker's hand, in the queue and in Emit is newer than what is stored and in
this order, unless a synchronous write overtook the queue. `Accounted` and
`Shutdown` follow an accepted record to its end, and say which goroutines can
still hold one at each stage of Close.

**Attribution** (`AttributionProofs`), for any pods, containers and PIDs:
`RemovedNotAttributed`, `NotGuessed`. The registry is written in steps by two
goroutines that each carry what they read earlier, so `IInv` says of each
goroutine, at each of its steps, which pod it works for and that this pod is
known, overtaken or about to be removed, and of the registry that whatever it
holds belongs to such a pod. The step that needs it is the end of a removal: the
informer's goroutine has no sync of its own under way then, and a rescan that
still has the pod put it among the overtaken. For `NotGuessed`, `TInv` says of
every key, wherever it is (in a goroutine's scan or among the entries), that if
its very process still runs it is the pod's (`Right`), and of every cgroup
recorded or about to be that it is the pod's or was misread: so an answer by
number can be wrong only through the key of an earlier process.

**Bridge** (`BridgeProofs`), for any registrations, connections and stops:
`HandledOnce`, `OkMeansDelivered`, `TypeOK`. The client writes again after a
failed write, so what must be shown is that the first attempt left no line:
`Single` says a line stands on one connection, once, and only until it is
handled, `Unsent` that a registration whose call is not over has no line at all.

**Kernel programs** (`SensorProofs`), for any tasks, buffers, iovec arrays and sizes:
`CapturedExactly`, `NothingLostUncounted`, `TypeOK`. The core is that `gather_iov`'s loop, with
its two caps, its window and its early exits, yields the longest readable beginning of what was
passed (`LongestReadable`, defined without a loop).

**Sensor** (`SensorProofs`), for any processes, descriptors, destinations and
sizes: `CorrelationExplained`, `PiecesJoined`.
The first says why a payload did not find its connection armed. `SensorInv`
carries a connection's number along every path its record takes (`Remembered`:
in the kernel between the two hooks, on the descriptor, on each ring) and says
that what was armed still is, until it expires, is replaced or is taken away
(`StillArmed`). `PiecesJoined` needs that the ring is in order of time (`InTime`), and
that the flow of each process holds its newest pieces as far as they are within
the limits, or was dropped for age, in which case the next piece comes too late
for them to be within the limits (`Buffered`); it assumes finitely many processes.
The attempt to prove it showed an earlier statement of it to be wrong: a DNS
query that is only a dot leaves no fragment, and the engine scans it alone, so it
is not a piece that can be joined (`engine.go:1163`). The property excepts it and
the run has such a payload.

`TextProofs` holds the facts about sequences the others need: pushing a chunk
leaves a suffix and keeps as many of the newest chunks as fit, its bounds hold,
runs of a join are joins of runs, and a text found in a suffix is found in the
whole.

Induction over data is out of the prover's reach, because its library states
induction with an operator parameter. Where a fact needs it (`Join` over chunks,
`gather_iov` over iovecs, what a scan of a list finds first), the proof takes the
least counterexample instead, which exists because the naturals are well ordered
(`LeastNat`), and refutes it from its predecessor.

Assumptions are the named `ASSUME`s of the modules: the types of the constants,
positive caps, for the breaker an age cap beyond the longest comparison, and for
dispatch that ids are not used twice; and the hypotheses of two theorems
(`VaultHides`: unescaped secrets; `PiecesAreJoined`: finitely many processes).

`TaintBounded`, `ExcerptsFresh`, `AnswersExamined`, `DeniedStaysOut` and the type
invariants named above are proved and not among the runs' properties. The
`TypeOK` of the other modules documents their state; the inductive invariants
have the types their proofs need.

Only model-checked: liveness (`RecoversOnceHealthy`, `EverySettles`,
`NobodyStuck`, `IdleReclaimed`, `LeakContained`, `AttributedInTheEnd`,
`CloseEnds`). It needs fairness and `ENABLED`, which the prover does not handle.

## 5. Not modelled

`ebpf/bpf/vmlinux.h` is generated: 162,000 lines of type declarations dumped from
a kernel, of which `connect.c` uses a few structs; there is nothing in it to
model. Byte-level codecs, container formats and the measure of entropy: an encoded
value is the same atoms, an archive that cannot be inspected an input. Loading, attaching and
pinning of the BPF objects. HTTP validation and the token bucket: sequential
checks of one request. The event log, alerting, formatting of OCSF and CEF, and
metrics: best-effort output nothing reads back. Configuration parsing and
validation; corpora, demos and sample servers.

## 6. Plan

1. Done: `Text`, `Tagger`, `Trifecta`; `Breaker`; `Quarantine`; `Evidence`;
   `Dispatch`; `Sessions`; proofs for the engine, the breaker and dispatch.
2. Done: `Probes`, `EgressFlows`, `Sensor`; `Attribution` with its proof;
   `Bridge`; `Requests` and the proved refinement.
3. Done: theorems for every safety property of the runs.
4. Dispatch with the engine's state: the gap between `IngestResult` and
   `VaultRewriteFrame`, the path stash of concurrent reads.
5. Composition of `Breaker` with `Quarantine` and `Dispatch`: an abstract
   "deny while degraded" specification, refined where callbacks do not overlap,
   and its proof.
