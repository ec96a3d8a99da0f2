-------------------------- MODULE FailClosedProofs --------------------------
(***************************************************************************)
(* Proofs about the two halves of fail-closed: the breaker that decides    *)
(* (module Breaker) and the sensor's quarantine that enforces (module      *)
(* Quarantine).                                                            *)
(***************************************************************************)
EXTENDS Breaker, Quarantine, TLAPS

(***************************************************************************)
(* The breaker's safety properties for every threshold, duration, platform *)
(* and set of goroutines.  Every Record* call changes signals only and     *)
(* then evaluates, so one lemma about evaluating a breaker x that agrees   *)
(* with b on everything but its signals serves all five of them.           *)
(***************************************************************************)
(* A recovering breaker has been tripped for its floor, and seen no bad    *)
(* signal, before and since it started to recover.                         *)
Timed(x, since) ==
  x.st = "recovering" =>
    /\ x.trippedFor >= Lesser(AgeCap, x.effectiveMin + x.recoveringFor)
    /\ since >= x.recoveringFor

(* The floor of the trip is the loop's result, capped; a first trip is not *)
(* capped.                                                                 *)
Floored(x) ==
  /\ x.effectiveMin <= MinTrip \/ x.effectiveMin <= MaxTrip
  /\ ~x.everCleared => x.flapFloor = MinTrip
  /\ \/ x.effectiveMin = Lesser(x.flapFloor, MaxTrip)
     \/ x.effectiveMin = MinTrip /\ x.flapFloor = MinTrip

(* The floor of the next trip is the last one's, multiplied and capped.    *)
Multiplied(x, y) ==
  Flapping(x) /\ x.flapFloor * BackoffMultiplier \in Durations =>
    y.effectiveMin = Lesser(BackoffMultiplier * x.effectiveMin, MaxTrip)

(* What the proxy has been told, or is being told, agrees with the breaker.*)
Told ==
  ~overlapped =>
    \/ AllReturned /\ (denying <=> Tripped(b))
    \/ \E th \in Threads :
         /\ calling[th] # "none"
         /\ \A o \in Threads \ {th} : calling[o] = "none"
         /\ calling[th] = "engage" <=> Tripped(b)

IInv == TypeOK /\ BadMeansTripped /\ Timed(b, sinceBad) /\ Floored(b) /\ Told

SameButSignals(x) ==
  /\ x \in BreakerState
  /\ x.st = b.st /\ x.trippedFor = b.trippedFor /\ x.recoveringFor = b.recoveringFor
  /\ x.everCleared = b.everCleared /\ x.clearedFor = b.clearedFor
  /\ x.effectiveMin = b.effectiveMin /\ x.flapFloor = b.flapFloor
-----------------------------------------------------------------------------
(* A number of at least 1 does not shrink when multiplied.                 *)
LEMMA TimesGrows ==
  ASSUME NEW i \in Int, NEW k \in Nat, i >= 1, k > 1
  PROVE  i * k >= i /\ i * k \in Int
OBVIOUS

(* ForgetFlaps leaves the type and the floors in order.                    *)
LEMMA ForgetSane ==
  ASSUME NEW x \in BreakerState, Floored(x)
  PROVE  /\ ForgetFlaps(x) \in BreakerState
         /\ Floored(ForgetFlaps(x))
         /\ ForgetFlaps(x).st = x.st
         /\ AnyBad(ForgetFlaps(x)) = AnyBad(x)
         /\ Flapping(ForgetFlaps(x)) = Flapping(x)
         /\ Flapping(x) => ForgetFlaps(x) = x
         /\ ~Flapping(x) => ForgetFlaps(x).flapFloor = MinTrip
<1>1. MinTrip \in Durations /\ x.clearedFor \in Int
      /\ 5 * RecoveryWindow \in Int
  BY BreakerAssumption DEF Durations, BreakerState, Ages
<1>2. CASE x.everCleared /\ x.clearedFor >= 5 * RecoveryWindow
  <2>1. ForgetFlaps(x) = [x EXCEPT !.flapFloor = MinTrip, !.effectiveMin = MinTrip]
    BY <1>2 DEF ForgetFlaps
  <2>2. ForgetFlaps(x) \in BreakerState  BY <1>1, <2>1 DEF BreakerState
  <2>3. Floored(ForgetFlaps(x))
    BY <2>1, BreakerAssumption DEF Floored, BreakerState, Durations
  <2>. QED  BY <1>1, <1>2, <2>1, <2>2, <2>3 DEF BreakerState, AnyBad, Flapping
<1>3. CASE ~(x.everCleared /\ x.clearedFor >= 5 * RecoveryWindow)
  <2>1. ForgetFlaps(x) = x  BY <1>3 DEF ForgetFlaps
  <2>. QED  BY <1>1, <1>3, <2>1 DEF Floored, Flapping
<1>. QED  BY <1>2, <1>3

(* engageLocked trips with a floor in range, multiplied on a flap.         *)
LEMMA EngageSane ==
  ASSUME NEW x \in BreakerState, Floored(x), ~Flapping(x) => x.flapFloor = MinTrip
  PROVE  LET y == EngageLocked(x)
         IN  /\ y \in BreakerState
             /\ Floored(y)
             /\ y.st = "tripped"
             /\ Multiplied(x, y)
<1> DEFINE y == EngageLocked(x)
           grown == ToDuration(x.flapFloor * BackoffMultiplier)
           floor == IF Flapping(x) THEN grown ELSE x.flapFloor
           eff == IF Flapping(x) THEN Lesser(floor, MaxTrip) ELSE MinTrip
<1>1. /\ x.flapFloor \in Int /\ x.effectiveMin \in Int
      /\ x.flapFloor * BackoffMultiplier \in Int
      /\ BackoffMultiplier \in Nat /\ BackoffMultiplier > 1
      /\ MaxTrip \in Int /\ MaxTrip >= 1
  BY BreakerAssumption DEF BreakerState, Durations
<1>2. grown \in Durations /\ floor \in Durations /\ eff \in Durations
  BY <1>1, BreakerAssumption DEF ToDuration, Durations, Lesser, BreakerState
<1>3. y = [x EXCEPT !.st = "tripped", !.trippedFor = 0, !.clearedFor = 0,
                    !.flapFloor = floor, !.effectiveMin = eff]
  BY DEF EngageLocked
<1>4. /\ y \in BreakerState /\ y.st = "tripped"
      /\ y.effectiveMin = eff /\ y.flapFloor = floor /\ y.everCleared = x.everCleared
  <2> HIDE DEF floor, eff, y
  <2>1. 0 \in Ages  BY BreakerAssumption DEF Ages
  <2>2. y \in BreakerState  BY <1>2, <1>3, <2>1 DEF BreakerState
  <2>. QED  BY <1>3, <2>2 DEF BreakerState
<1>5. eff <= MinTrip \/ eff <= MaxTrip
  BY <1>2, BreakerAssumption DEF Lesser, Durations
<1>6. ~x.everCleared => floor = MinTrip
  BY DEF Flapping, Floored
<1>7. eff = Lesser(floor, MaxTrip) \/ (eff = MinTrip /\ floor = MinTrip)
  OBVIOUS
<1>8. ASSUME Flapping(x), x.flapFloor * BackoffMultiplier \in Durations
      PROVE  eff = Lesser(BackoffMultiplier * x.effectiveMin, MaxTrip)
  <2>1. eff = Lesser(x.flapFloor * BackoffMultiplier, MaxTrip)  BY <1>8 DEF ToDuration
  <2>2. CASE x.effectiveMin = x.flapFloor
    <3>1. BackoffMultiplier * x.effectiveMin = x.flapFloor * BackoffMultiplier  BY <1>1, <2>2
    <3>. QED  BY <2>1, <3>1
  <2>3. CASE x.effectiveMin = MaxTrip /\ x.flapFloor >= MaxTrip
    <3>1. x.flapFloor * BackoffMultiplier >= MaxTrip  BY <1>1, <2>3, TimesGrows
    <3>2. MaxTrip * BackoffMultiplier >= MaxTrip /\ MaxTrip * BackoffMultiplier \in Int
      BY <1>1, TimesGrows
    <3>3. BackoffMultiplier * x.effectiveMin = MaxTrip * BackoffMultiplier  BY <1>1, <2>3
    <3>4. Lesser(x.flapFloor * BackoffMultiplier, MaxTrip) = MaxTrip
      BY <1>1, <3>1 DEF Lesser
    <3>5. Lesser(MaxTrip * BackoffMultiplier, MaxTrip) = MaxTrip
      BY <1>1, <3>2 DEF Lesser
    <3>. QED  BY <2>1, <3>3, <3>4, <3>5
  <2>. QED  BY <1>1, <2>2, <2>3 DEF Floored, Lesser
<1> HIDE DEF eff, floor, y
<1>9. Floored(y)  BY <1>4, <1>5, <1>6, <1>7 DEF Floored
<1>10. Multiplied(x, y)  BY <1>4, <1>8 DEF Multiplied
<1>. QED  BY <1>4, <1>9, <1>10 DEF y

(* What one evaluation guarantees, whatever the state and the signals.     *)
EvalOK(x, since, y) ==
  /\ y \in BreakerState /\ Floored(y)
  /\ Timed(y, IF AnyBad(x) THEN 0 ELSE since)
  /\ AnyBad(y) => y.st = "tripped"
  /\ x.st = "healthy" => y.st \in {"healthy", "tripped"}
  /\ x.st = "tripped" => y.st \in {"tripped", "recovering"}
  /\ x.st # "healthy" /\ y.st = "healthy" =>
       /\ x.st = "recovering" /\ since >= RecoveryWindow
       /\ x.trippedFor >= x.effectiveMin + RecoveryWindow
  /\ x.st = "healthy" /\ y.st = "tripped" => Multiplied(x, y)

LEMMA EvalSane ==
  ASSUME NEW x \in BreakerState, Floored(x), NEW since \in Ages, Timed(x, since)
  PROVE  EvalOK(x, since, EvalLocked(x))
<1> DEFINE y == EvalLocked(x)
<1>1. CASE x.st = "healthy"
  <2>1. y = EvalHealthy(x)  BY <1>1 DEF EvalLocked
  <2>2. CASE AnyBad(x)
    <3> DEFINE z == ForgetFlaps(x)
    <3>1. /\ z \in BreakerState /\ Floored(z) /\ Flapping(z) = Flapping(x)
          /\ Flapping(x) => z = x
          /\ ~Flapping(z) => z.flapFloor = MinTrip
      BY ForgetSane
    <3>2. y = EngageLocked(z)  BY <2>1, <2>2 DEF EvalHealthy
    <3> HIDE DEF z, y
    <3>3. y \in BreakerState /\ Floored(y) /\ y.st = "tripped" /\ Multiplied(z, y)
      BY <3>1, <3>2, EngageSane
    <3>4. Multiplied(x, y)  BY <3>1, <3>3 DEF Multiplied
    <3>5. EvalOK(x, since, y)  BY <1>1, <3>3, <3>4 DEF EvalOK, Timed
    <3>. QED  BY <3>5 DEF y
  <2>3. CASE ~AnyBad(x)
    <3>1. y = ForgetFlaps(x)  BY <2>1, <2>3 DEF EvalHealthy
    <3>. QED  BY <1>1, <2>3, <3>1, ForgetSane DEF EvalOK, Timed
  <2>. QED  BY <2>2, <2>3
<1>2. CASE x.st = "tripped"
  <2>1. y = EvalTripped(x)  BY <1>2 DEF EvalLocked
  <2>2. CASE AnyBad(x) \/ x.trippedFor < x.effectiveMin
    <3>1. y = x  BY <2>1, <2>2 DEF EvalTripped
    <3>. QED  BY <1>2, <3>1 DEF EvalOK, Timed
  <2>3. CASE ~(AnyBad(x) \/ x.trippedFor < x.effectiveMin)
    <3>1. y = [x EXCEPT !.st = "recovering", !.recoveringFor = 0]
      BY <2>1, <2>3 DEF EvalTripped
    <3>2. 0 \in Ages  BY BreakerAssumption DEF Ages
    <3> HIDE DEF y
    <3>3. y \in BreakerState  BY <3>1, <3>2 DEF BreakerState
    <3>4. /\ y.st = "recovering" /\ y.recoveringFor = 0
          /\ y.trippedFor = x.trippedFor /\ y.effectiveMin = x.effectiveMin
          /\ y.flapFloor = x.flapFloor /\ y.everCleared = x.everCleared
          /\ ~AnyBad(y)
      BY <2>3, <3>1 DEF BreakerState, AnyBad
    <3>5. x.trippedFor \in Int /\ x.effectiveMin \in Int /\ AgeCap \in Int
      BY BreakerAssumption DEF BreakerState, Ages, Durations
    <3>6. Timed(y, since)
      BY <2>3, <3>4, <3>5 DEF Timed, Lesser, Ages
    <3>7. Floored(y)  BY <3>4 DEF Floored
    <3>8. EvalOK(x, since, y)  BY <1>2, <2>3, <3>3, <3>4, <3>6, <3>7 DEF EvalOK
    <3>. QED  BY <3>8 DEF y
  <2>. QED  BY <2>2, <2>3
<1>3. CASE x.st = "recovering"
  <2>1. y = EvalRecovering(x)  BY <1>3 DEF EvalLocked
  <2>2. CASE AnyBad(x)
    <3>1. y = [x EXCEPT !.st = "tripped", !.trippedFor = 0, !.recoveringFor = 0]
      BY <2>1, <2>2 DEF EvalRecovering
    <3>2. 0 \in Ages  BY BreakerAssumption DEF Ages
    <3> HIDE DEF y
    <3>3. y \in BreakerState  BY <3>1, <3>2 DEF BreakerState
    <3>4. /\ y.st = "tripped" /\ y.effectiveMin = x.effectiveMin
          /\ y.flapFloor = x.flapFloor /\ y.everCleared = x.everCleared
      BY <3>1 DEF BreakerState
    <3>5. Floored(y) /\ Timed(y, 0)  BY <3>4 DEF Floored, Timed
    <3>6. EvalOK(x, since, y)  BY <1>3, <2>2, <3>3, <3>4, <3>5 DEF EvalOK
    <3>. QED  BY <3>6 DEF y
  <2>3. CASE ~AnyBad(x) /\ x.recoveringFor >= RecoveryWindow
    <3>1. y = ClearLocked(x)  BY <2>1, <2>3 DEF EvalRecovering
    <3>2. 0 \in Ages /\ 0 \in 0..PanicThreshold /\ 0 \in 0..SinkFailureThreshold
      BY BreakerAssumption DEF Ages
    <3> HIDE DEF y
    <3>3. y \in BreakerState  BY <3>1, <3>2 DEF BreakerState, ClearLocked
    <3>4. /\ y.st = "healthy" /\ y.effectiveMin = x.effectiveMin
          /\ y.flapFloor = x.flapFloor /\ y.everCleared = TRUE
          /\ ~AnyBad(y)
      BY <2>3, <3>1 DEF BreakerState, ClearLocked, AnyBad
    <3>5. Floored(y) /\ Timed(y, since)  BY <3>4 DEF Floored, Timed
    <3>6. /\ x.trippedFor \in Int /\ x.effectiveMin \in Int
          /\ x.recoveringFor \in Int /\ since \in Int
      BY BreakerAssumption DEF BreakerState, Ages, Durations
    <3>7. /\ since >= RecoveryWindow
          /\ x.trippedFor >= x.effectiveMin + RecoveryWindow
      <4>1. x.effectiveMin <= MinTrip \/ x.effectiveMin <= MaxTrip  BY DEF Floored
      <4>2. x.effectiveMin + RecoveryWindow <= AgeCap  BY <3>6, <4>1, BreakerAssumption
      <4>. QED  BY <1>3, <2>3, <3>6, <4>2, BreakerAssumption DEF Timed, Lesser
    <3>8. EvalOK(x, since, y)  BY <1>3, <2>3, <3>3, <3>4, <3>5, <3>7 DEF EvalOK
    <3>. QED  BY <3>8 DEF y
  <2>4. CASE ~AnyBad(x) /\ ~(x.recoveringFor >= RecoveryWindow)
    <3>1. y = x  BY <2>1, <2>4 DEF EvalRecovering
    <3>. QED  BY <1>3, <2>4, <3>1 DEF EvalOK
  <2>. QED  BY <2>2, <2>3, <2>4
<1>. QED  BY <1>1, <1>2, <1>3 DEF BreakerState
-----------------------------------------------------------------------------
(* The bodies of the two action properties.                                *)
ClearStep ==
  Tripped(b) /\ b'.st = "healthy" =>
    /\ sinceBad >= RecoveryWindow
    /\ b.trippedFor >= b.effectiveMin + RecoveryWindow

GrowStep ==
  /\ b.st = "healthy" /\ b'.st = "tripped" /\ Flapping(b)
  /\ b.flapFloor * BackoffMultiplier \in Durations
  => b'.effectiveMin = Lesser(BackoffMultiplier * b.effectiveMin, MaxTrip)

(* Any Record* call keeps the invariant and satisfies the two properties.  *)
LEMMA RecordInv ==
  ASSUME IInv, NEW th \in Threads, NEW x, SameButSignals(x), Record(th, x)
  PROVE  IInv' /\ ClearStep /\ GrowStep
<1>1. x \in BreakerState /\ Floored(x) /\ sinceBad \in Ages /\ Timed(x, sinceBad)
  BY DEF IInv, TypeOK, SameButSignals, Floored, Timed
<1>2. b' = EvalLocked(x)  BY DEF Record
<1>3. EvalOK(x, sinceBad, b')  BY <1>1, <1>2, EvalSane
<1>4. sinceBad' = (IF AnyBad(x) THEN 0 ELSE sinceBad)  BY DEF Record
<1>5. ClearStep /\ GrowStep
  BY <1>3 DEF EvalOK, Multiplied, SameButSignals, ClearStep, GrowStep, Tripped, Flapping
<1>6. 0 \in Ages  BY BreakerAssumption DEF Ages
<1>7. TypeOK'
  <2>1. b' \in BreakerState  BY <1>3 DEF EvalOK
  <2>2. sinceBad' \in Ages  BY <1>1, <1>4, <1>6
  <2>3. calling' \in [Threads -> {"none", "engage", "clear"}]
    BY DEF Record, IInv, TypeOK
  <2>4. denying' \in BOOLEAN /\ overlapped' \in BOOLEAN
    <3>1. denying \in BOOLEAN /\ overlapped \in BOOLEAN  BY DEF IInv, TypeOK
    <3>2. overlapped' = (overlapped \/ (calling'[th] # "none" /\ ~AllReturned))
      BY DEF Record
    <3>. QED  BY <3>1, <3>2 DEF Record
  <2>. QED  BY <2>1, <2>2, <2>3, <2>4 DEF TypeOK
<1>8. BadMeansTripped' /\ Timed(b, sinceBad)' /\ Floored(b)'
  BY <1>3, <1>4 DEF EvalOK, BadMeansTripped, Timed, Floored, AnyBad
<1>9. Told'
  <2> DEFINE c == IF b.st = "healthy" /\ b'.st = "tripped" THEN "engage"
                  ELSE IF b.st = "recovering" /\ b'.st = "healthy" THEN "clear"
                  ELSE "none"
  <2>1. /\ calling[th] = "none" /\ calling' = [calling EXCEPT ![th] = c]
        /\ denying' = denying
        /\ overlapped' = (overlapped \/ (calling'[th] # "none" /\ ~AllReturned))
    BY DEF Record
  <2>2. calling \in [Threads -> {"none", "engage", "clear"}]  BY DEF IInv, TypeOK
  <2>3. x.st = b.st /\ b.st \in {"healthy", "tripped", "recovering"}
        /\ b'.st \in {"healthy", "tripped", "recovering"}
    BY <1>3 DEF SameButSignals, EvalOK, BreakerState
  <2>4. /\ c = "none" => (Tripped(b) <=> Tripped(b'))
        /\ c = "engage" => Tripped(b')
        /\ c = "clear" => ~Tripped(b')
        /\ c \in {"none", "engage", "clear"}
    BY <1>3, <2>3 DEF EvalOK, Tripped
  <2> HIDE DEF c
  <2>5. CASE c = "none"
    <3>1. calling' = calling  BY <2>1, <2>2, <2>5
    <3>. QED  BY <2>1, <2>4, <2>5, <3>1 DEF Told, IInv, AllReturned, Tripped
  <2>6. CASE c # "none"
    <3> SUFFICES ASSUME ~overlapped' PROVE Told'  BY DEF Told
    <3>1. calling'[th] = c /\ \A o \in Threads \ {th} : calling'[o] = calling[o]
      BY <2>1, <2>2
    <3>2. AllReturned  BY <2>1, <2>6, <3>1
    <3>3. calling'[th] = "engage" <=> Tripped(b')  BY <2>4, <2>6, <3>1
    <3>. QED  BY <2>6, <3>1, <3>2, <3>3 DEF Told, AllReturned, Tripped
  <2>. QED  BY <2>5, <2>6
<1>. QED  BY <1>5, <1>7, <1>8, <1>9 DEF IInv

(* The clock: ages move together.                                          *)
LEMMA TickInv ==
  ASSUME IInv, Tick
  PROVE  IInv' /\ ClearStep /\ GrowStep
<1>1. b \in BreakerState /\ sinceBad \in Ages  BY DEF IInv, TypeOK
<1>2. \A a \in Ages : Older(a) \in Ages
  BY BreakerAssumption DEF Older, Lesser, Ages
<1> DEFINE tf == IF Tripped(b) THEN Older(b.trippedFor) ELSE b.trippedFor
           rf == IF b.st = "recovering" THEN Older(b.recoveringFor) ELSE b.recoveringFor
           cf == IF b.st = "healthy" /\ b.everCleared THEN Older(b.clearedFor) ELSE b.clearedFor
<1>3. tf \in Ages /\ rf \in Ages /\ cf \in Ages
  BY <1>1, <1>2 DEF BreakerState
<1>4. b' = [b EXCEPT !.trippedFor = tf, !.recoveringFor = rf, !.clearedFor = cf]
  BY DEF Tick
<1>5. /\ sinceBad' = IF Tripped(b) THEN Older(sinceBad) ELSE sinceBad
      /\ UNCHANGED <<calling, denying, overlapped>>
  BY DEF Tick
<1>6. b.st = "recovering" => tf = Older(b.trippedFor) /\ rf = Older(b.recoveringFor)
                              /\ sinceBad' = Older(sinceBad)
  BY <1>5 DEF Tripped
<1> HIDE DEF tf, rf, cf
<1>7. b' \in BreakerState  BY <1>1, <1>3, <1>4 DEF BreakerState
<1>8. /\ b'.st = b.st /\ b'.trippedFor = tf /\ b'.recoveringFor = rf
      /\ b'.effectiveMin = b.effectiveMin /\ b'.flapFloor = b.flapFloor
      /\ b'.everCleared = b.everCleared /\ AnyBad(b') = AnyBad(b)
  BY <1>1, <1>4 DEF BreakerState, AnyBad
<1>9. TypeOK'  BY <1>1, <1>2, <1>5, <1>7 DEF TypeOK, IInv
<1>10. BadMeansTripped' /\ Floored(b)'
  BY <1>8 DEF IInv, BadMeansTripped, Floored, AnyBad
<1>11. Told'  BY <1>5, <1>8 DEF IInv, Told, AllReturned, Tripped
<1>12. Timed(b, sinceBad)'
  <2> SUFFICES ASSUME b.st = "recovering"
               PROVE  /\ tf >= Lesser(AgeCap, b.effectiveMin + rf)
                      /\ sinceBad' >= rf
    BY <1>8 DEF Timed
  <2>1. /\ b.trippedFor \in 0..AgeCap /\ b.recoveringFor \in 0..AgeCap
        /\ sinceBad \in 0..AgeCap /\ b.effectiveMin \in Int /\ AgeCap \in Nat
    BY <1>1, BreakerAssumption DEF BreakerState, Ages, Durations
  <2>2. /\ b.trippedFor >= Lesser(AgeCap, b.effectiveMin + b.recoveringFor)
        /\ sinceBad >= b.recoveringFor
    BY DEF IInv, Timed
  <2>. QED  BY <1>6, <2>1, <2>2 DEF Older, Lesser
<1>13. ClearStep /\ GrowStep  BY <1>8 DEF ClearStep, GrowStep, Tripped
<1>. QED  BY <1>9, <1>10, <1>11, <1>12, <1>13 DEF IInv

(* A callback that reaches the proxy.                                      *)
LEMMA ReturnInv ==
  ASSUME IInv, NEW th \in Threads, SetFailClosed(th)
  PROVE  IInv' /\ ClearStep /\ GrowStep
<1>1. /\ calling[th] # "none" /\ denying' = (calling[th] = "engage")
      /\ calling' = [calling EXCEPT ![th] = "none"]
      /\ b' = b /\ sinceBad' = sinceBad /\ overlapped' = overlapped
  BY DEF SetFailClosed
<1>2. calling \in [Threads -> {"none", "engage", "clear"}]  BY DEF IInv, TypeOK
<1>3. TypeOK'  BY <1>1, <1>2 DEF IInv, TypeOK
<1>4. BadMeansTripped' /\ Floored(b)' /\ Timed(b, sinceBad)'
  BY <1>1 DEF IInv, BadMeansTripped, Floored, AnyBad, Timed
<1>5. Told'
  <2> SUFFICES ASSUME ~overlapped PROVE Told'  BY <1>1 DEF Told
  <2>1. ~AllReturned  BY <1>1 DEF AllReturned
  <2>2. PICK o \in Threads : /\ calling[o] # "none"
                             /\ \A p \in Threads \ {o} : calling[p] = "none"
                             /\ calling[o] = "engage" <=> Tripped(b)
    BY <2>1 DEF IInv, Told
  <2>3. o = th  BY <1>1, <2>2
  <2>4. \A p \in Threads : calling'[p] = "none"  BY <1>1, <1>2, <2>2, <2>3
  <2>5. denying' <=> Tripped(b)  BY <1>1, <2>2, <2>3
  <2>. QED  BY <1>1, <2>4, <2>5 DEF Told, AllReturned, Tripped
<1>6. ClearStep /\ GrowStep  BY <1>1 DEF ClearStep, GrowStep, Tripped
<1>. QED  BY <1>3, <1>4, <1>5, <1>6 DEF IInv

LEMMA InitInv == Init => IInv
<1> SUFFICES ASSUME Init PROVE IInv  OBVIOUS
<1>1. /\ 0 \in Ages /\ MinTrip \in Durations
      /\ 0 \in 0..PanicThreshold /\ 0 \in 0..SinkFailureThreshold
  BY BreakerAssumption DEF Ages, Durations
<1>2. TypeOK  BY <1>1 DEF Init, TypeOK, BreakerState
<1>3. BadMeansTripped /\ Timed(b, sinceBad)  BY DEF Init, BadMeansTripped, AnyBad, Timed
<1>4. Floored(b)  BY BreakerAssumption DEF Init, Floored
<1>5. Told  BY DEF Init, Told, AllReturned, Tripped
<1>. QED  BY <1>2, <1>3, <1>4, <1>5 DEF IInv

(* One step of the breaker.                                                *)
LEMMA NextInv == IInv /\ [Next]_vars => IInv' /\ ClearStep /\ GrowStep
<1> SUFFICES ASSUME IInv, [Next]_vars PROVE IInv' /\ ClearStep /\ GrowStep  OBVIOUS
<1>1. b \in BreakerState /\ {"poller", "writer"} \subseteq Threads /\ Handlers \subseteq Threads
  BY DEF IInv, TypeOK, Threads
<1>2. CASE Poll
  <2>1. PICK rate \in Rates : RecordDropCount(rate)  BY <1>2 DEF Poll
  <2>2. Judge(b.rateBad, rate) \in BOOLEAN  BY <1>1 DEF Judge, BreakerState
  <2>3. SameButSignals([b EXCEPT !.rateBad = Judge(b.rateBad, rate)])
    BY <1>1, <2>2 DEF SameButSignals, BreakerState
  <2>. QED  BY <1>1, <2>1, <2>3, RecordInv DEF RecordDropCount
<1>3. CASE PollCritical
  <2>1. PICK rate \in Rates : RecordCriticalDropCount(rate)  BY <1>3 DEF PollCritical
  <2>2. Judge(b.criticalRateBad, rate) \in BOOLEAN  BY <1>1 DEF Judge, BreakerState
  <2>3. SameButSignals([b EXCEPT !.criticalRateBad = Judge(b.criticalRateBad, rate)])
    BY <1>1, <2>2 DEF SameButSignals, BreakerState
  <2>. QED  BY <1>1, <2>1, <2>3, RecordInv DEF RecordCriticalDropCount
<1>4. CASE RecordSinkFailure
  <2> DEFINE n == Lesser(b.sinkFailures + 1, SinkFailureThreshold)
             bad == b.sinkBad \/ n >= SinkFailureThreshold
             x == [b EXCEPT !.sinkFailures = n, !.sinkBad = bad]
  <2>1. n \in 0..SinkFailureThreshold
    BY <1>1, BreakerAssumption DEF BreakerState, Lesser
  <2>2. bad \in BOOLEAN  BY <1>1 DEF BreakerState
  <2>3. Record("writer", x)  BY <1>4 DEF RecordSinkFailure
  <2> HIDE DEF n, bad
  <2>4. SameButSignals(x)  BY <1>1, <2>1, <2>2 DEF SameButSignals, BreakerState
  <2> HIDE DEF x
  <2>. QED  BY <1>1, <2>3, <2>4, RecordInv
<1>5. CASE RecordSinkSuccess
  <2> DEFINE x == [b EXCEPT !.sinkFailures = 0, !.sinkBad = FALSE]
  <2>1. 0 \in 0..SinkFailureThreshold  BY BreakerAssumption
  <2>2. SameButSignals(x)  BY <1>1, <2>1 DEF SameButSignals, BreakerState
  <2>3. Record("writer", x)  BY <1>5 DEF RecordSinkSuccess
  <2> HIDE DEF x
  <2>. QED  BY <1>1, <2>2, <2>3, RecordInv
<1>6. CASE Panic
  <2>1. PICK th \in Handlers : RecordPanic(th)  BY <1>6 DEF Panic
  <2> DEFINE n == Lesser(b.panicCount + 1, PanicThreshold)
             bad == b.panicBad \/ n >= PanicThreshold
             x == [b EXCEPT !.panicCount = n, !.panicBad = bad]
  <2>2. n \in 0..PanicThreshold
    BY <1>1, BreakerAssumption DEF BreakerState, Lesser
  <2>3. bad \in BOOLEAN  BY <1>1 DEF BreakerState
  <2>4. Record(th, x)  BY <2>1 DEF RecordPanic
  <2> HIDE DEF n, bad
  <2>5. SameButSignals(x)  BY <1>1, <2>2, <2>3 DEF SameButSignals, BreakerState
  <2> HIDE DEF x
  <2>. QED  BY <1>1, <2>4, <2>5, RecordInv
<1>7. CASE Return  BY <1>7, ReturnInv DEF Return
<1>8. CASE Tick  BY <1>8, TickInv
<1>9. CASE UNCHANGED vars
  BY <1>9 DEF vars, IInv, TypeOK, BadMeansTripped, Timed, Floored, Told, AnyBad, AllReturned,
              Tripped, ClearStep, GrowStep
<1>. QED  BY <1>2, <1>3, <1>4, <1>5, <1>6, <1>7, <1>8, <1>9 DEF Next

(* The inductive invariant holds in every reachable state.                 *)
THEOREM Invariance == Spec => []IInv
BY InitInv, NextInv, PTL DEF Spec

(* Every reachable state of the breaker is well typed.                     *)
THEOREM BreakerTypeCorrect == Spec => []TypeOK
BY Invariance, PTL DEF IInv

(* evalLocked: a breaker with a bad signal is tripped.                     *)
THEOREM BadSignalsTrip == Spec => []BadMeansTripped
BY Invariance, PTL DEF IInv

(* wireFailClosed: as long as transitions are passed on one at a time, the *)
(* proxy denies calls exactly while the breaker is tripped or recovering.  *)
THEOREM ProxyFollowsBreaker == Spec => []ProxyFollows
<1>1. IInv => ProxyFollows
  BY DEF IInv, Told, ProxyFollows, AllReturned
<1>. QED  BY <1>1, Invariance, PTL

(* clearLocked is reached only after a floor's worth of trip and a whole   *)
(* recovery window without a bad signal.                                   *)
THEOREM ClearingTakesHealth == Spec => ClearsOnlyAfterHealth
<1>1. IInv /\ [Next]_vars => [ClearStep]_vars  BY NextInv
<1>2. ClearStep <=> (Tripped(b) /\ b'.st = "healthy" =>
        /\ sinceBad >= RecoveryWindow
        /\ b.trippedFor >= b.effectiveMin + RecoveryWindow)
  BY DEF ClearStep
<1>. QED  BY <1>1, <1>2, Invariance, PTL DEF Spec, ClearsOnlyAfterHealth

(* engageLocked: a re-trip soon after a clear multiplies the floor of the  *)
(* last trip, up to the ceiling, on every platform, as long as the product *)
(* is a time.Duration.                                                     *)
THEOREM FlapsBackOff == Spec => BackoffGrows
<1>1. IInv /\ [Next]_vars => [GrowStep]_vars  BY NextInv
<1>2. GrowStep <=>
        (/\ b.st = "healthy" /\ b'.st = "tripped" /\ Flapping(b)
         /\ b.flapFloor * BackoffMultiplier \in Durations
         => b'.effectiveMin = Lesser(BackoffMultiplier * b.effectiveMin, MaxTrip))
  BY DEF GrowStep
<1>. QED  BY <1>1, <1>2, Invariance, PTL DEF Spec, BackoffGrows
-----------------------------------------------------------------------------
(***************************************************************************)
(* The sensor's part (module Quarantine), for any processes, cgroups and   *)
(* goroutines: fail-closed denies all that is watched, and takes back no   *)
(* EXFIL quarantine from before it was engaged, with the exceptions the    *)
(* two properties name.                                                    *)
(***************************************************************************)

(* SetFailClosedActive changes the flag only at its end, and what is owned *)
(* is owned while the flag is set.                                         *)
Flagged ==
  /\ phase \in {"snapshot", "engaging"} => ~active
  /\ phase = "clearing" => active
  /\ ~active => owned = {}

(* While engaging, what is watched is denied, listed to be denied, or has  *)
(* its bookkeeping to come, which waits for fcMu.                          *)
Covering == phase = "engaging" => watched \ (Adding \cup lapsed) \subseteq blocked \cup listed

(* An early quarantine is in the snapshot while fail-closed engages, and   *)
(* neither owned nor listed while it clears.                               *)
Spared ==
  /\ early \cap owned = {}
  /\ phase \in {"snapshot", "engaging"} => early \subseteq already
  /\ phase = "clearing" => early \cap listed = {}

QuarantineInv ==
  QuarantineTypeOK /\ Flagged /\ Covering /\ Spared /\ AllWatchedDenied /\ EarlyExfilHeld
-----------------------------------------------------------------------------
(* The tasks are told apart by what they do and for which key.             *)
LEMMA TasksDiffer ==
  ASSUME NEW k \in Keys, NEW o \in Keys
  PROVE  /\ ToNote(k) \in Tasks /\ ToUnquarantine(k) \in Tasks /\ ToBookkeep(k) \in Tasks
         /\ Free \in Tasks /\ Free # ToNote(o)
         /\ ToUnquarantine(k) # ToNote(o) /\ ToBookkeep(k) # ToNote(o)
         /\ ToNote(k) = ToNote(o) => k = o
<1>1. /\ ToNote(k).next = "note" /\ ToNote(k).key = k
      /\ ToUnquarantine(k).next = "unquarantine" /\ ToBookkeep(k).next = "bookkeep"
      /\ ToNote(o).next = "note" /\ ToNote(o).key = o
      /\ Free.next = "nothing"
  BY DEF ToNote, ToUnquarantine, ToBookkeep, Free
<1>2. ToNote(k) \in Tasks /\ ToUnquarantine(k) \in Tasks /\ ToBookkeep(k) \in Tasks /\ Free \in Tasks
  BY DEF Tasks, ToNote, ToUnquarantine, ToBookkeep
<1>. QED  BY <1>1, <1>2

(* What a step of goroutine w does to the keys being added.                *)
LEMMA AddingStep ==
  ASSUME QuarantineTypeOK, NEW w \in Watchers, NEW t \in Tasks, task' = [task EXCEPT ![w] = t]
  PROVE  /\ task' \in [Watchers -> Tasks]
         /\ \A k \in Keys : task[w] # ToNote(k) => (k \in Adding => k \in Adding')
         /\ \A k \in Keys : t = ToNote(k) => k \in Adding'
<1>1. task' \in [Watchers -> Tasks]  BY DEF QuarantineTypeOK
<1>2. ASSUME NEW k \in Keys, task[w] # ToNote(k), k \in Adding PROVE k \in Adding'
  <2>1. PICK v \in Watchers : task[v] = ToNote(k)  BY <1>2 DEF Adding
  <2>2. task'[v] = ToNote(k)  BY <1>2, <2>1 DEF QuarantineTypeOK
  <2>. QED  BY <2>2 DEF Adding
<1>3. ASSUME NEW k \in Keys, t = ToNote(k) PROVE k \in Adding'
  <2>1. task'[w] = ToNote(k)  BY <1>3 DEF QuarantineTypeOK
  <2>. QED  BY <2>1 DEF Adding
<1>. QED  BY <1>1, <1>2, <1>3

LEMMA QuarantineInvInit == QuarantineInit => QuarantineInv
BY DEF QuarantineInit, QuarantineInv, QuarantineTypeOK, Flagged, Covering, Spared,
       AllWatchedDenied, EarlyExfilHeld, fcMuFree, Tasks

(* Every step keeps the types.                                             *)
LEMMA QuarantineTypes == QuarantineTypeOK /\ [QuarantineNext]_quarantineVars => QuarantineTypeOK'
<1> SUFFICES ASSUME QuarantineTypeOK, [QuarantineNext]_quarantineVars
             PROVE  QuarantineTypeOK'
  OBVIOUS
<1>1. CASE Add
  <2>1. ASSUME NEW w \in Watchers, NEW k \in Keys, AddToFilter(w, k) PROVE QuarantineTypeOK'
    <3>1. task' \in [Watchers -> Tasks]  BY <2>1, TasksDiffer, AddingStep DEF AddToFilter
    <3>. QED  BY <2>1, <3>1 DEF AddToFilter, QuarantineTypeOK
  <2>2. ASSUME NEW w \in Watchers, NEW k \in Keys, NoteFailClosedWatch(w, k)
        PROVE  QuarantineTypeOK'
    <3>1. task' \in [Watchers -> Tasks]  BY <2>2, TasksDiffer, AddingStep DEF NoteFailClosedWatch
    <3>. QED  BY <2>2, <3>1 DEF NoteFailClosedWatch, QuarantineTypeOK
  <2>. QED  BY <1>1, <2>1, <2>2 DEF Add
<1>2. CASE Remove
  <2>1. ASSUME NEW w \in Watchers, NEW k \in Keys, RemoveFromFilter(w, k)
        PROVE  QuarantineTypeOK'
    <3>1. task' \in [Watchers -> Tasks]  BY <2>1, TasksDiffer, AddingStep DEF RemoveFromFilter
    <3>. QED  BY <2>1, <3>1 DEF RemoveFromFilter, QuarantineTypeOK
  <2>2. ASSUME NEW w \in Watchers, NEW k \in Keys, Unquarantine(w, k) PROVE QuarantineTypeOK'
    <3>1. task' \in [Watchers -> Tasks]  BY <2>2, TasksDiffer, AddingStep DEF Unquarantine
    <3>. QED  BY <2>2, <3>1 DEF Unquarantine, QuarantineTypeOK
  <2>3. ASSUME NEW w \in Watchers, NEW k \in Keys, ClearFailClosedBookkeeping(w, k)
        PROVE  QuarantineTypeOK'
    <3>1. task' \in [Watchers -> Tasks]
      BY <2>3, TasksDiffer, AddingStep DEF ClearFailClosedBookkeeping
    <3>. QED  BY <2>3, <3>1 DEF ClearFailClosedBookkeeping, QuarantineTypeOK
  <2>. QED  BY <1>2, <2>1, <2>2, <2>3 DEF Remove
<1>3. CASE Exfil
  <2>0. \A p \in PIDs, u \in BOOLEAN :
          [pid |-> p, pidDone |-> u] \in [pid : PIDs, pidDone : BOOLEAN]
    OBVIOUS
  <2>1. ASSUME NEW p \in PIDs, ExfilVerdict(p) PROVE QuarantineTypeOK'
    <3>1. verdicts' \subseteq [pid : PIDs, pidDone : BOOLEAN]
      BY <2>0, <2>1 DEF ExfilVerdict, QuarantineTypeOK
    <3>. QED  BY <2>1, <3>1 DEF ExfilVerdict, QuarantineTypeOK
  <2>2. ASSUME NEW p \in PIDs, QuarantinePID(p) PROVE QuarantineTypeOK'
    <3>1. verdicts' \subseteq [pid : PIDs, pidDone : BOOLEAN]
      BY <2>0, <2>2 DEF QuarantinePID, QuarantineTypeOK
    <3>. QED  BY <2>2, <3>1 DEF QuarantinePID, PutExfil, QuarantineTypeOK, Keys
  <2>3. ASSUME NEW p \in PIDs, QuarantineCgroup(p) PROVE QuarantineTypeOK'
    BY <2>3, QuarantineAssumption DEF QuarantineCgroup, PutExfil, QuarantineTypeOK, Keys
  <2>. QED  BY <1>3, <2>1, <2>2, <2>3 DEF Exfil
<1>4. CASE Engage
  BY <1>4 DEF Engage, ListQuarantined, ListWatched, EngageFails, Claim, QuarantineAllWatched,
              QuarantineTypeOK
<1>5. CASE Clear
  BY <1>5 DEF Clear, ListOwned, Disown, UnquarantineWatched, QuarantineTypeOK
<1>6. CASE UNCHANGED quarantineVars
  BY <1>6 DEF quarantineVars, QuarantineTypeOK
<1>. QED  BY <1>1, <1>2, <1>3, <1>4, <1>5, <1>6 DEF QuarantineNext

LEMMA QuarantineInvNext == QuarantineInv /\ [QuarantineNext]_quarantineVars => QuarantineInv'
<1> SUFFICES ASSUME QuarantineInv, [QuarantineNext]_quarantineVars PROVE QuarantineInv'  OBVIOUS
<1>0. QuarantineTypeOK /\ QuarantineTypeOK'  BY QuarantineTypes DEF QuarantineInv
<1> DEFINE Rest == Flagged /\ Covering /\ Spared /\ AllWatchedDenied /\ EarlyExfilHeld
<1> SUFFICES Rest'  BY <1>0 DEF QuarantineInv
<1>1. Rest  BY DEF QuarantineInv
<1> USE DEF Flagged, Covering, Spared, AllWatchedDenied, EarlyExfilHeld, fcMuFree
<1>2. ASSUME NEW w \in Watchers, NEW k \in Keys, AddToFilter(w, k) PROVE Rest'
  <2>1. \A o \in Keys : o \in Adding \/ o = k => o \in Adding'
    BY <1>0, <1>2, TasksDiffer, AddingStep DEF AddToFilter
  <2>. QED  BY <1>0, <1>1, <1>2, <2>1 DEF AddToFilter, QuarantineTypeOK
<1>3. ASSUME NEW w \in Watchers, NEW k \in Keys, NoteFailClosedWatch(w, k) PROVE Rest'
  <2>1. \A o \in Keys : o \in Adding /\ o # k => o \in Adding'
    BY <1>0, <1>3, TasksDiffer, AddingStep DEF NoteFailClosedWatch
  <2>. QED  BY <1>0, <1>1, <1>3, <2>1 DEF NoteFailClosedWatch, QuarantineTypeOK
<1>4. ASSUME NEW w \in Watchers, NEW k \in Keys, RemoveFromFilter(w, k) PROVE Rest'
  <2>1. \A o \in Keys : o \in Adding => o \in Adding'
    BY <1>0, <1>4, TasksDiffer, AddingStep DEF RemoveFromFilter
  <2>. QED  BY <1>0, <1>1, <1>4, <2>1 DEF RemoveFromFilter, QuarantineTypeOK
<1>5. ASSUME NEW w \in Watchers, NEW k \in Keys, Unquarantine(w, k) PROVE Rest'
  <2>1. \A o \in Keys : o \in Adding => o \in Adding'
    BY <1>0, <1>5, TasksDiffer, AddingStep DEF Unquarantine
  <2>. QED  BY <1>0, <1>1, <1>5, <2>1 DEF Unquarantine, QuarantineTypeOK
<1>6. ASSUME NEW w \in Watchers, NEW k \in Keys, ClearFailClosedBookkeeping(w, k) PROVE Rest'
  <2>1. \A o \in Keys : o \in Adding => o \in Adding'
    BY <1>0, <1>6, TasksDiffer, AddingStep DEF ClearFailClosedBookkeeping
  <2>. QED  BY <1>0, <1>1, <1>6, <2>1 DEF ClearFailClosedBookkeeping, QuarantineTypeOK
<1> USE DEF Adding
<1>7. ASSUME NEW p \in PIDs, ExfilVerdict(p) PROVE Rest'
  BY <1>0, <1>1, <1>7 DEF ExfilVerdict
<1>8. ASSUME NEW p \in PIDs, QuarantinePID(p) PROVE Rest'
  BY <1>0, <1>1, <1>8 DEF QuarantinePID, PutExfil, QuarantineTypeOK
<1>9. ASSUME NEW p \in PIDs, QuarantineCgroup(p) PROVE Rest'
  BY <1>0, <1>1, <1>9 DEF QuarantineCgroup, PutExfil, QuarantineTypeOK
<1>10. CASE ListQuarantined  BY <1>0, <1>1, <1>10 DEF ListQuarantined
<1>11. CASE ListWatched  BY <1>0, <1>1, <1>11 DEF ListWatched
<1>12. ASSUME NEW k \in Keys, QuarantineAllWatched(k) PROVE Rest'
  BY <1>0, <1>1, <1>12 DEF QuarantineAllWatched
<1>13. CASE EngageFails  BY <1>0, <1>1, <1>13 DEF EngageFails
<1>14. CASE Claim  BY <1>0, <1>1, <1>14 DEF Claim
<1>15. CASE ListOwned  BY <1>0, <1>1, <1>15 DEF ListOwned
<1>16. ASSUME NEW k \in Keys, UnquarantineWatched(k) PROVE Rest'
  BY <1>0, <1>1, <1>16 DEF UnquarantineWatched
<1>17. CASE Disown  BY <1>0, <1>1, <1>17 DEF Disown
<1>18. CASE UNCHANGED quarantineVars  BY <1>0, <1>1, <1>18 DEF quarantineVars
<1> HIDE DEF Rest
<1>. QED
  BY <1>2, <1>3, <1>4, <1>5, <1>6, <1>7, <1>8, <1>9, <1>10, <1>11, <1>12, <1>13, <1>14,
     <1>15, <1>16, <1>17, <1>18
  DEF QuarantineNext, Add, Remove, Exfil, Engage, Clear
-----------------------------------------------------------------------------
LEMMA QuarantineInvariant == QuarantineSpec => []QuarantineInv
BY QuarantineInvInit, QuarantineInvNext, PTL DEF QuarantineSpec

(* While fail-closed is engaged everything watched is denied, whatever the *)
(* goroutines that watch and unwatch did while SetFailClosedActive ran,    *)
(* but for keys watched again in the middle of their removal and failed    *)
(* puts.                                                                   *)
THEOREM FailClosedDeniesAll == QuarantineSpec => []AllWatchedDenied
<1>1. QuarantineInv => AllWatchedDenied  BY DEF QuarantineInv
<1>. QED  BY QuarantineInvariant, <1>1, PTL

(* SetFailClosedActive(false) lifts no EXFIL quarantine of a process or    *)
(* cgroup that was in force before fail-closed engaged, unless the key was *)
(* watched again in between.                                               *)
THEOREM ClearingSparesExfil == QuarantineSpec => []EarlyExfilHeld
<1>1. QuarantineInv => EarlyExfilHeld  BY DEF QuarantineInv
<1>. QED  BY QuarantineInvariant, <1>1, PTL
=============================================================================
