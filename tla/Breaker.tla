------------------------------ MODULE Breaker ------------------------------
(***************************************************************************)
(* The fail-closed breaker (internal/failclosed) and the proxy's deny flag *)
(* it drives (wireFailClosed in cmd/interlock).                            *)
(*                                                                         *)
(* Four signals feed it: the drop rates of the two ring buffers, polled by *)
(* one goroutine, the outcome of evidence writes, reported by the sink's   *)
(* worker, and panics, reported by whichever goroutine recovered one.      *)
(* Breaker.mu makes each Record* call one step, except that a transition   *)
(* calls OnTransition with the mutex released: the call is then in flight  *)
(* (`calling`) and its effect on the proxy is a step of its own.           *)
(*                                                                         *)
(* A time.Time is represented by its age, kept at 0 where no code will     *)
(* read it again; ages stop at AgeCap, beyond every comparison.  A drop    *)
(* rate is represented by its place with respect to the two thresholds.    *)
(* flapFloor is the result of engageLocked's loop for the current          *)
(* flapCount: flapCount only ever grows by one or is reset, so the loop is *)
(* one multiplication on top of the last result.                           *)
(***************************************************************************)
EXTENDS Integers

CONSTANTS
  Handlers,              \* goroutines that may recover a panic
  SinkFailureThreshold,  \* fail_closed.sink_failure_threshold
  PanicThreshold,        \* fail_closed.panic_threshold
  MinTrip,               \* fail_closed.min_trip_duration
  RecoveryWindow,        \* fail_closed.recovery_window
  BackoffMultiplier,     \* fail_closed.backoff_multiplier
  MaxTrip,               \* fail_closed.max_trip_duration
  DurationMax,           \* the largest time.Duration
  OutOfRange,            \* what converting a larger float to a Duration gives
  AgeCap                 \* bound: ages saturate here

Threads == {"poller", "writer"} \cup Handlers
Rates == {"above", "between", "at_or_below"}
Ages == 0..AgeCap
Durations == -(DurationMax + 1)..DurationMax

ASSUME BreakerAssumption ==
  /\ {"poller", "writer"} \cap Handlers = {}
  /\ SinkFailureThreshold \in Nat \ {0} /\ PanicThreshold \in Nat \ {0}
  /\ RecoveryWindow \in Nat \ {0}
  /\ BackoffMultiplier \in Nat /\ BackoffMultiplier > 1
  /\ DurationMax \in Nat /\ OutOfRange \in Durations
  /\ MinTrip \in 1..DurationMax /\ MaxTrip \in 1..DurationMax
  /\ AgeCap \in Nat
  /\ AgeCap >= 5 * RecoveryWindow
  /\ AgeCap >= MinTrip + RecoveryWindow /\ AgeCap >= MaxTrip + RecoveryWindow

BreakerState ==
  [st : {"healthy", "tripped", "recovering"},
   trippedFor : Ages, recoveringFor : Ages,   \* trippedAt, recoveringAt
   everCleared : BOOLEAN, clearedFor : Ages,  \* lastCleared
   effectiveMin : Durations, flapFloor : Durations,
   rateBad : BOOLEAN, criticalRateBad : BOOLEAN,
   sinkFailures : 0..SinkFailureThreshold, sinkBad : BOOLEAN,
   panicCount : 0..PanicThreshold, panicBad : BOOLEAN]

VARIABLES
  b,         \* the Breaker
  calling,   \* the OnTransition call each goroutine is in
  denying,   \* Proxy.failClosedActive: tools/call is denied
  sinceBad,  \* history: age of the last evaluation that saw a bad signal
  overlapped \* history: a transition began while another was being passed on

vars == <<b, calling, denying, sinceBad, overlapped>>
-----------------------------------------------------------------------------
AnyBad(x) == x.rateBad \/ x.criticalRateBad \/ x.sinkBad \/ x.panicBad

(* Breaker.Tripped().                                                      *)
Tripped(x) == x.st \in {"tripped", "recovering"}

ToDuration(d) == IF d \in Durations THEN d ELSE OutOfRange

Lesser(m, n) == IF m < n THEN m ELSE n

Flapping(x) == x.everCleared /\ x.clearedFor < 5 * RecoveryWindow

(* Mutant: the loop starts from the default once more instead of growing.  *)
EngageWithoutGrowth(x) ==
  LET floor == IF Flapping(x) THEN ToDuration(MinTrip * BackoffMultiplier) ELSE x.flapFloor
  IN  [x EXCEPT !.st = "tripped", !.trippedFor = 0, !.clearedFor = 0,
         !.flapFloor = floor,
         !.effectiveMin = IF Flapping(x) THEN Lesser(floor, MaxTrip) ELSE MinTrip]

EngageLocked(x) ==
  LET floor == IF Flapping(x) THEN ToDuration(x.flapFloor * BackoffMultiplier) ELSE x.flapFloor
  IN  [x EXCEPT !.st = "tripped", !.trippedFor = 0, !.clearedFor = 0,
         !.flapFloor = floor,
         !.effectiveMin = IF Flapping(x) THEN Lesser(floor, MaxTrip) ELSE MinTrip]

ClearLocked(x) ==
  [x EXCEPT !.st = "healthy", !.trippedFor = 0, !.recoveringFor = 0,
     !.everCleared = TRUE, !.clearedFor = 0,
     !.panicCount = 0, !.panicBad = FALSE, !.sinkFailures = 0, !.sinkBad = FALSE]

(* Healthy long enough after a clear: the back-off starts over.            *)
ForgetFlaps(x) ==
  IF x.everCleared /\ x.clearedFor >= 5 * RecoveryWindow
  THEN [x EXCEPT !.flapFloor = MinTrip, !.effectiveMin = MinTrip] ELSE x

EvalHealthy(x) ==
  IF AnyBad(x) THEN EngageLocked(ForgetFlaps(x)) ELSE ForgetFlaps(x)

(* Mutant: the recovery window is counted from the trip.                   *)
EvalTrippedWindowFromTrip(x) ==
  IF AnyBad(x) \/ x.trippedFor < x.effectiveMin THEN x
  ELSE [x EXCEPT !.st = "recovering", !.recoveringFor = x.trippedFor]

(* Mutant: an evaluation before the floor is reached restarts the trip.    *)
EvalTrippedRestart(x) ==
  IF AnyBad(x) \/ x.trippedFor < x.effectiveMin THEN [x EXCEPT !.trippedFor = 0]
  ELSE [x EXCEPT !.st = "recovering", !.recoveringFor = 0]

EvalTripped(x) ==
  IF AnyBad(x) \/ x.trippedFor < x.effectiveMin THEN x
  ELSE [x EXCEPT !.st = "recovering", !.recoveringFor = 0]

(* Mutant: a bad signal during recovery is left for the next evaluation.   *)
EvalRecoveringOnly(x) ==
  IF x.recoveringFor >= RecoveryWindow THEN ClearLocked(x) ELSE x

EvalRecovering(x) ==
  IF AnyBad(x) THEN [x EXCEPT !.st = "tripped", !.trippedFor = 0, !.recoveringFor = 0]
  ELSE IF x.recoveringFor >= RecoveryWindow THEN ClearLocked(x)
  ELSE x

EvalLocked(x) ==
  CASE x.st = "healthy"    -> EvalHealthy(x)
    [] x.st = "tripped"    -> EvalTripped(x)
    [] x.st = "recovering" -> EvalRecovering(x)

AllReturned == \A th \in Threads : calling[th] = "none"

(* The part every Record* call ends with: evaluate the breaker x with its  *)
(* signal updated; engageLocked and clearLocked leave the goroutine in the *)
(* transition callback.                                                    *)
Record(th, x) ==
  /\ calling[th] = "none"
  /\ b' = EvalLocked(x)
  /\ calling' = [calling EXCEPT ![th] =
       IF b.st = "healthy" /\ b'.st = "tripped" THEN "engage"
       ELSE IF b.st = "recovering" /\ b'.st = "healthy" THEN "clear"
       ELSE "none"]
  /\ sinceBad' = IF AnyBad(x) THEN 0 ELSE sinceBad
  /\ overlapped' = (overlapped \/ (calling'[th] # "none" /\ ~AllReturned))
  /\ UNCHANGED denying
-----------------------------------------------------------------------------
(* Hysteresis: between the thresholds the last judgement stands.           *)
Judge(bad, rate) == rate = "above" \/ (rate = "between" /\ bad)

RecordDropCount(rate) ==
  Record("poller", [b EXCEPT !.rateBad = Judge(b.rateBad, rate)])

RecordCriticalDropCount(rate) ==
  Record("poller", [b EXCEPT !.criticalRateBad = Judge(b.criticalRateBad, rate)])

(* The counters stop at their thresholds: only reaching them is tested.    *)
RecordSinkFailure ==
  LET n == Lesser(b.sinkFailures + 1, SinkFailureThreshold)
  IN  Record("writer", [b EXCEPT !.sinkFailures = n,
                                 !.sinkBad = @ \/ n >= SinkFailureThreshold])

RecordSinkSuccess ==
  Record("writer", [b EXCEPT !.sinkFailures = 0, !.sinkBad = FALSE])

RecordPanic(th) ==
  LET n == Lesser(b.panicCount + 1, PanicThreshold)
  IN  Record(th, [b EXCEPT !.panicCount = n, !.panicBad = @ \/ n >= PanicThreshold])

(* Mutant: a clear is not passed on.                                       *)
SetFailClosedEngages(th) ==
  /\ calling[th] # "none"
  /\ denying' = (denying \/ calling[th] = "engage")
  /\ calling' = [calling EXCEPT ![th] = "none"]
  /\ UNCHANGED <<b, sinceBad, overlapped>>

(* The callback reaches p.SetFailClosed and returns.                       *)
SetFailClosed(th) ==
  /\ calling[th] # "none"
  /\ denying' = (calling[th] = "engage")
  /\ calling' = [calling EXCEPT ![th] = "none"]
  /\ UNCHANGED <<b, sinceBad, overlapped>>

Older(age) == Lesser(age + 1, AgeCap)

Tick ==
  /\ b' = [b EXCEPT
       !.trippedFor    = IF Tripped(b) THEN Older(@) ELSE @,
       !.recoveringFor = IF b.st = "recovering" THEN Older(@) ELSE @,
       !.clearedFor    = IF b.st = "healthy" /\ b.everCleared THEN Older(@) ELSE @]
  /\ sinceBad' = IF Tripped(b) THEN Older(sinceBad) ELSE sinceBad
  /\ UNCHANGED <<calling, denying, overlapped>>

Init ==
  /\ b = [st |-> "healthy", trippedFor |-> 0, recoveringFor |-> 0,
          everCleared |-> FALSE, clearedFor |-> 0,
          effectiveMin |-> MinTrip, flapFloor |-> MinTrip,
          rateBad |-> FALSE, criticalRateBad |-> FALSE,
          sinkFailures |-> 0, sinkBad |-> FALSE, panicCount |-> 0, panicBad |-> FALSE]
  /\ calling = [th \in Threads |-> "none"]
  /\ denying = FALSE
  /\ sinceBad = 0
  /\ overlapped = FALSE

Poll == \E rate \in Rates : RecordDropCount(rate)
PollCritical == \E rate \in Rates : RecordCriticalDropCount(rate)
Panic == \E th \in Handlers : RecordPanic(th)
Return == \E th \in Threads : SetFailClosed(th)

Next ==
  \/ Poll \/ PollCritical \/ RecordSinkFailure \/ RecordSinkSuccess
  \/ Panic \/ Return \/ Tick

Spec == Init /\ [][Next]_vars

(* The ticker of WatchRingbufDrops keeps polling, callbacks return and     *)
(* time passes.                                                            *)
Fairness ==
  /\ WF_vars(Poll) /\ WF_vars(PollCritical) /\ WF_vars(Tick)
  /\ \A th \in Threads : WF_vars(SetFailClosed(th))

FairSpec == Spec /\ Fairness
-----------------------------------------------------------------------------
(***************************************************************************)
(* Properties.                                                             *)
(***************************************************************************)

(* Every variable has its type.                                            *)
TypeOK ==
  /\ b \in BreakerState
  /\ calling \in [Threads -> {"none", "engage", "clear"}]
  /\ denying \in BOOLEAN
  /\ sinceBad \in Ages
  /\ overlapped \in BOOLEAN

(* A bad signal is never waited out: while any signal is bad the breaker   *)
(* is tripped, not recovering and not healthy, whichever goroutine         *)
(* reported it and whatever the others reported since (evalLocked).        *)
BadMeansTripped == AnyBad(b) => b.st = "tripped"

(* Clearing takes sustained health: no evaluation saw a bad signal for a   *)
(* whole recovery window, and the trip lasted its floor before that.       *)
ClearsOnlyAfterHealth ==
  [][Tripped(b) /\ b'.st = "healthy" =>
       /\ sinceBad >= RecoveryWindow
       /\ b.trippedFor >= b.effectiveMin + RecoveryWindow]_vars

(* "capped at max_trip_duration": the floor of a trip never falls below    *)
(* min_trip_duration (or its own ceiling, if that is lower) and never      *)
(* exceeds the larger of the two, however often the breaker flaps.         *)
BackoffBounded ==
  /\ b.effectiveMin >= Lesser(MinTrip, MaxTrip)
  /\ b.effectiveMin <= MinTrip \/ b.effectiveMin <= MaxTrip

(* "multiplies min trip by backoff, capped": each re-trip soon after a     *)
(* clear lasts the floor of the last trip times the multiplier, or the     *)
(* ceiling, for as long as the product that engageLocked's loop computes   *)
(* before it caps is a time.Duration.                                      *)
BackoffGrows ==
  [][/\ b.st = "healthy" /\ b'.st = "tripped" /\ Flapping(b)
     /\ b.flapFloor * BackoffMultiplier \in Durations
     => b'.effectiveMin = Lesser(BackoffMultiplier * b.effectiveMin, MaxTrip)]_vars

(* Recovery happens: if from some point on no signal is bad, the breaker   *)
(* becomes healthy and stays so.                                           *)
RecoversOnceHealthy == <>[]~AnyBad(b) => <>[](b.st = "healthy")

(* The proxy follows the breaker: once callbacks have returned, calls are  *)
(* denied exactly while the breaker is tripped or recovering, as long as   *)
(* no transition began while an earlier one was still being passed on.     *)
ProxyFollows == AllReturned /\ ~overlapped => (denying <=> Tripped(b))

(* "still blocking during recovery": once the transition callbacks have    *)
(* returned, calls are denied whenever the breaker is tripped or           *)
(* recovering.                                                             *)
DeniesWhileTripped == Tripped(b) /\ AllReturned => denying

=============================================================================
