------------------------------ MODULE Evidence ------------------------------
(***************************************************************************)
(* The evidence pipeline (internal/engine/evidence_*.go): the asynchronous *)
(* sink and its worker, the two stores behind it, the hash chain, process  *)
(* shutdown, crash and restart.                                            *)
(*                                                                         *)
(* The engine emits with its mutex held, so there is one Emit at a time;   *)
(* the worker and Close run beside it.  A record is represented by its     *)
(* trip_ts, the number of the trip: trip_ts is the wall clock, taken here  *)
(* as never set back, or pruning would not go by age.  SHA-256 is          *)
(* represented by the tuple of what it hashes.  Of a file that holds a     *)
(* line cut short only that fact is kept: no reader gets past such a line. *)
(***************************************************************************)
EXTENDS Integers, Sequences, FiniteSets, Lists

CONSTANTS
  Backends,       \* evidence.backend: "jsonl", "sqlite"
  Backpressures,  \* evidence.backpressure: "block", "drop"
  QueueSize,      \* evidence.queue_size
  MaxRecords,     \* evidence.max_records (sqlite)
  MaxTrips,       \* bound: trips explored
  MaxCrashes      \* bound: crashes explored

ASSUME EvidenceAssumption ==
  /\ Backends \subseteq {"jsonl", "sqlite"} /\ Backpressures \subseteq {"block", "drop"}
  /\ QueueSize \in Nat \ {0} /\ MaxRecords \in Nat \ {0}
  /\ MaxTrips \in Nat /\ MaxCrashes \in Nat

VARIABLES
  cfg,       \* backend and backpressure
  trips,     \* trips so far
  emit,      \* the Emit under way: its record and where it stands
  queue,     \* AsyncEvidenceSink.queue
  closed,    \* AsyncEvidenceSink.closed; the done channel is closed with it
  worker,    \* the writeLoop goroutine
  hand,      \* the record taken from the queue and not yet written, or 0
  closing,   \* how far Close has got
  inner,     \* the JSONL or SQLite sink and its store
  crashes,
  accepted,  \* history: records whose Emit returned nil
  settled,   \* history: records written, or whose loss was logged or counted
  lost,      \* history: records in memory at a crash
  raced,     \* history: Close began while an Emit was past its closed check
  overtaken  \* history: a record was written before an older one

vars == <<cfg, trips, emit, queue, closed, worker, hand, closing, inner, crashes,
          accepted, settled, lost, raced, overtaken>>

NoEmit == [rec |-> 0, at |-> "none"]
-----------------------------------------------------------------------------
(* HashEvidenceRecord: everything but the hash itself.                     *)
HashOf(rec) == <<rec.ts, rec.seq, rec.prev>>

(* SealEvidenceRecord.                                                     *)
Seal(n, tip) ==
  LET rec == [ts |-> n, seq |-> tip.seq, prev |-> tip.hash]
  IN  [ts |-> rec.ts, seq |-> rec.seq, prev |-> rec.prev, hash |-> HashOf(rec)]

(* Mutant: links are not compared.                                         *)
VerifyHashesOnly(s) == \A i \in DOMAIN s : s[i].hash = HashOf(s[i])

VerifyChain(s) ==
  \A i \in DOMAIN s :
    /\ s[i].hash = HashOf(s[i])
    /\ i = 1 /\ s[i].seq = 0 => s[i].prev = <<>>
    /\ i > 1 => s[i].seq = s[i - 1].seq + 1 /\ s[i].prev = s[i - 1].hash

(* Mutant: a restart begins a new chain.                                   *)
ChainTipForgotten(backend, s) == [seq |-> 0, hash |-> <<>>]

(* scanJSONLChainTip counts lines; loadSQLiteChainTip reads the last row.  *)
ChainTip(backend, s) ==
  IF s = <<>> THEN [seq |-> 0, hash |-> <<>>]
  ELSE [seq |-> IF backend = "jsonl" THEN Len(s) ELSE s[Len(s)].seq + 1,
        hash |-> s[Len(s)].hash]

(* pruneLocked: the rows in excess with the least trip_ts go.              *)
Prune(s) ==
  LET overflow == Len(s) - MaxRecords
      Older(i) == {j \in DOMAIN s : s[j].ts < s[i].ts}
  IN  IF overflow <= 0 THEN s
      ELSE Subsequence(s, {i \in DOMAIN s : Cardinality(Older(i)) >= overflow})
-----------------------------------------------------------------------------
(* What a write to the store can come to: done; done, but the viewer's     *)
(* copy (or pruning) failed and the caller is told so; nothing written; a  *)
(* line cut short.                                                         *)
Outcomes == {"ok", "unpruned", "no_copy", "not_written", "cut"}

Possible(out) ==
  /\ out = "cut" => cfg.backend = "jsonl"
  /\ out = "unpruned" => cfg.backend = "sqlite"
  /\ ~inner.open => out = "not_written"

(* Mutant: the tip moves whether or not the record was written.            *)
TipMovesAnyway(n, out) ==
  LET rec == Seal(n, inner.tip)
      grown == Append(inner.store, rec)
  IN  [inner EXCEPT
        !.tip = [seq |-> @.seq + 1, hash |-> rec.hash],
        !.store = IF out \in {"not_written", "cut"} THEN @
                  ELSE IF cfg.backend = "sqlite" /\ out # "unpruned" THEN Prune(grown)
                  ELSE grown]

(* The store after Emit of the inner sink.  A line appended to one that    *)
(* was cut short is part of that line: nobody will read it.                *)
InnerAfter(n, out) ==
  LET rec == Seal(n, inner.tip)
      grown == IF inner.cut = "tail" THEN inner.store ELSE Append(inner.store, rec)
  IN  CASE out = "not_written" -> inner
        [] out = "cut" -> [inner EXCEPT !.cut = "tail"]
        [] OTHER ->
             [inner EXCEPT
               !.tip = [seq |-> @.seq + 1, hash |-> rec.hash],
               !.cut = IF @ = "tail" THEN "inside" ELSE @,
               !.store = IF cfg.backend = "sqlite" /\ out # "unpruned"
                         THEN Prune(grown) ELSE grown]

(* A write that fails is logged, by the worker or by the engine.           *)
InnerEmit(n, out) ==
  /\ Possible(out)
  /\ inner' = InnerAfter(n, out)
  /\ settled' = IF out = "ok" /\ inner.cut = "tail" THEN settled ELSE settled \cup {n}
-----------------------------------------------------------------------------
(* A trip: Emit up to its first unlock.                                    *)
Emit ==
  /\ worker # "none" /\ emit = NoEmit /\ trips < MaxTrips
  /\ trips' = trips + 1
  /\ \/ /\ closed
        /\ emit' = [rec |-> trips', at |-> "direct"]
        /\ UNCHANGED <<queue, accepted, settled>>
     \/ /\ ~closed /\ cfg.backpressure = "drop"
        /\ accepted' = accepted \cup {trips'}
        /\ IF Len(queue) < QueueSize
           THEN queue' = Append(queue, trips') /\ UNCHANGED settled
           ELSE settled' = settled \cup {trips'} /\ UNCHANGED queue
        /\ UNCHANGED emit
     \/ /\ ~closed /\ cfg.backpressure = "block"
        /\ emit' = [rec |-> trips', at |-> "checked"]
        /\ UNCHANGED <<queue, accepted, settled>>
  /\ UNCHANGED <<cfg, closed, worker, hand, closing, inner, crashes, lost, raced, overtaken>>

(* The two arms of Emit's select.                                          *)
EmitEnqueue ==
  /\ emit.at = "checked" /\ Len(queue) < QueueSize
  /\ queue' = Append(queue, emit.rec)
  /\ accepted' = accepted \cup {emit.rec}
  /\ emit' = NoEmit
  /\ UNCHANGED <<cfg, trips, closed, worker, hand, closing, inner, crashes, settled, lost, raced, overtaken>>

EmitDone ==
  /\ emit.at = "checked" /\ closed
  /\ emit' = [emit EXCEPT !.at = "direct"]
  /\ UNCHANGED <<cfg, trips, queue, closed, worker, hand, closing, inner, crashes, accepted,
                 settled, lost, raced, overtaken>>

EmitDirect(out) ==
  /\ emit.at = "direct"
  /\ InnerEmit(emit.rec, out)
  /\ accepted' = IF out = "ok" THEN accepted \cup {emit.rec} ELSE accepted
  /\ overtaken' = (overtaken \/ queue # <<>> \/ hand # 0)
  /\ emit' = NoEmit
  /\ UNCHANGED <<cfg, trips, queue, closed, worker, hand, closing, crashes, lost, raced>>
-----------------------------------------------------------------------------
(* The worker, and Close after it ("catch any race enqueue after drain     *)
(* started"), take records from the queue and write them.                  *)
Draining == worker = "running" \/ closing = "draining"

(* Mutant: the worker takes nothing more once it is told to stop.          *)
TakeUntilClosed ==
  /\ Draining /\ ~closed /\ hand = 0 /\ queue # <<>>
  /\ hand' = Head(queue) /\ queue' = Tail(queue)
  /\ UNCHANGED <<cfg, trips, emit, closed, worker, closing, inner, crashes, accepted,
                 settled, lost, raced, overtaken>>

Take ==
  /\ Draining /\ hand = 0 /\ queue # <<>>
  /\ hand' = Head(queue) /\ queue' = Tail(queue)
  /\ UNCHANGED <<cfg, trips, emit, closed, worker, closing, inner, crashes, accepted,
                 settled, lost, raced, overtaken>>

EmitInner(out) ==
  /\ hand # 0
  /\ InnerEmit(hand, out)
  /\ hand' = 0
  /\ UNCHANGED <<cfg, trips, emit, queue, closed, worker, closing, crashes, accepted,
                 lost, raced, overtaken>>

WorkerReturns ==
  /\ worker = "running" /\ closed /\ hand = 0 /\ queue = <<>>
  /\ worker' = "stopped"
  /\ UNCHANGED <<cfg, trips, emit, queue, closed, hand, closing, inner, crashes, accepted,
                 settled, lost, raced, overtaken>>

Close ==
  /\ worker = "running" /\ ~closed
  /\ closed' = TRUE /\ closing' = "waiting"
  /\ raced' = (raced \/ emit.at = "checked")
  /\ UNCHANGED <<cfg, trips, emit, queue, worker, hand, inner, crashes, accepted, settled, lost, overtaken>>

(* Mutant: Close does not wait for the worker.                             *)
CloseDoesNotWait ==
  /\ closing = "waiting"
  /\ closing' = "drained"
  /\ UNCHANGED <<cfg, trips, emit, queue, closed, worker, hand, inner, crashes, accepted,
                 settled, lost, raced, overtaken>>

CloseDrains ==
  /\ closing = "waiting" /\ worker = "stopped"
  /\ closing' = "draining"
  /\ UNCHANGED <<cfg, trips, emit, queue, closed, worker, hand, inner, crashes, accepted,
                 settled, lost, raced, overtaken>>

CloseDrained ==
  /\ closing = "draining" /\ hand = 0 /\ queue = <<>>
  /\ closing' = "drained"
  /\ UNCHANGED <<cfg, trips, emit, queue, closed, worker, hand, inner, crashes, accepted,
                 settled, lost, raced, overtaken>>

CloseInner ==
  /\ closing = "drained"
  /\ closing' = "closed" /\ inner' = [inner EXCEPT !.open = FALSE]
  /\ UNCHANGED <<cfg, trips, emit, queue, closed, worker, hand, crashes, accepted,
                 settled, lost, raced, overtaken>>
-----------------------------------------------------------------------------
Pending == {queue[i] : i \in DOMAIN queue} \cup ({hand, emit.rec} \ {0})

(* The process dies; a line being written may be cut short.                *)
Crash ==
  /\ worker # "none" /\ crashes < MaxCrashes
  /\ crashes' = crashes + 1
  /\ \E cut \in BOOLEAN :
       /\ cut => cfg.backend = "jsonl" /\ inner.open /\ (hand # 0 \/ emit.at = "direct")
       /\ inner' = [inner EXCEPT !.open = FALSE, !.cut = IF cut THEN "tail" ELSE @]
  /\ lost' = lost \cup Pending
  /\ worker' = "none" /\ closing' = "closed" /\ closed' = TRUE
  /\ queue' = <<>> /\ hand' = 0 /\ emit' = NoEmit
  /\ UNCHANGED <<cfg, trips, accepted, settled, raced, overtaken>>

(* NewEvidenceSink on an existing store: scanning a file that holds a line *)
(* cut short fails, and the process does not start.                        *)
Restart ==
  /\ worker = "none" /\ inner.cut = "none"
  /\ inner' = [inner EXCEPT !.open = TRUE, !.tip = ChainTip(cfg.backend, inner.store)]
  /\ worker' = "running" /\ closed' = FALSE /\ closing' = "no"
  /\ UNCHANGED <<cfg, trips, emit, queue, hand, crashes, accepted, settled, lost, raced, overtaken>>

Init ==
  /\ cfg \in [backend : Backends, backpressure : Backpressures]
  /\ trips = 0 /\ emit = NoEmit /\ queue = <<>> /\ closed = FALSE
  /\ worker = "running" /\ hand = 0 /\ closing = "no"
  /\ inner = [open |-> TRUE, store |-> <<>>, cut |-> "none",
              tip |-> [seq |-> 0, hash |-> <<>>]]
  /\ crashes = 0 /\ accepted = {} /\ settled = {} /\ lost = {}
  /\ raced = FALSE /\ overtaken = FALSE

Write == \E out \in Outcomes : EmitInner(out)
WriteDirect == \E out \in Outcomes : EmitDirect(out)

Next ==
  \/ Emit \/ EmitEnqueue \/ EmitDone \/ WriteDirect
  \/ Take \/ Write \/ WorkerReturns
  \/ Close \/ CloseDrains \/ CloseDrained \/ CloseInner
  \/ Crash \/ Restart

Spec == Init /\ [][Next]_vars

(* Go runs every goroutine that can run, and file writes return.           *)
Fairness ==
  /\ WF_vars(EmitEnqueue \/ EmitDone) /\ WF_vars(WriteDirect)
  /\ WF_vars(Take) /\ WF_vars(Write) /\ WF_vars(WorkerReturns)
  /\ WF_vars(CloseDrains) /\ WF_vars(CloseDrained) /\ WF_vars(CloseInner)

FairSpec == Spec /\ Fairness
-----------------------------------------------------------------------------
(***************************************************************************)
(* Properties.                                                             *)
(***************************************************************************)

(* Every variable has its type; the queue never outgrows its capacity.     *)
TypeOK ==
  /\ cfg \in [backend : Backends, backpressure : Backpressures]
  /\ trips \in 0..MaxTrips /\ crashes \in 0..MaxCrashes
  /\ emit \in [rec : 0..trips, at : {"none", "checked", "direct"}]
  /\ queue \in Seq(1..trips) /\ Len(queue) <= QueueSize
  /\ closed \in BOOLEAN /\ worker \in {"running", "stopped", "none"}
  /\ hand \in 0..trips
  /\ closing \in {"no", "waiting", "draining", "drained", "closed"}
  /\ inner.cut \in {"none", "tail", "inside"}
  /\ accepted \subseteq 1..trips /\ settled \subseteq 1..trips /\ lost \subseteq 1..trips
  /\ raced \in BOOLEAN /\ overtaken \in BOOLEAN

(* The store can be read and, in SQLite, was not pruned out of order.      *)
Orderly == inner.cut = "none" /\ (cfg.backend = "jsonl" \/ ~overtaken)

(* What is stored verifies at any moment, whatever writes failed, however  *)
(* much was pruned, and across crashes and restarts.                       *)
ChainIntact == Orderly => VerifyChain(inner.store)

(* "Chain tip survives process restart": the tip the sink keeps in memory  *)
(* is always the one a restart would find in the store, so the records of  *)
(* two runs make one chain.                                                *)
TipSurvives == Orderly /\ inner.open => inner.tip = ChainTip(cfg.backend, inner.store)

(* "mid-chain edit/delete in what remains is still detectable": deleting   *)
(* a record between two others, changing one, or changing one that is not  *)
(* the last and hashing it again, never leaves a chain that verifies.      *)
TamperDetected ==
  Orderly =>
    \A i \in DOMAIN inner.store :
      /\ i > 1 /\ i < Len(inner.store) =>
           ~VerifyChain(SubSeq(inner.store, 1, i - 1)
                          \o SubSeq(inner.store, i + 1, Len(inner.store)))
      /\ LET edited == [inner.store[i] EXCEPT !.ts = 0]
             rehashed == [edited EXCEPT !.hash = HashOf(edited)]
         IN  /\ ~VerifyChain([inner.store EXCEPT ![i] = edited])
             /\ i < Len(inner.store) => ~VerifyChain([inner.store EXCEPT ![i] = rehashed])

(* Close loses nothing: once it has closed the store, every record whose   *)
(* Emit returned nil has been written, or its loss was logged or counted,  *)
(* unless an Emit was past its closed check when Close began.              *)
DrainedOnClose ==
  closing = "closed" /\ ~raced /\ inner.cut = "none" => accepted \subseteq settled \cup lost

(* Every record whose Emit returned is eventually written or accounted     *)
(* for, unless an Emit raced Close or a line was cut short.                *)
EverySettles ==
  \A n \in 1..MaxTrips :
    (n \in accepted) ~> (n \in settled \cup lost \/ raced \/ inner.cut # "none")

=============================================================================
