---------------------------- MODULE MCFailClosed ----------------------------
(***************************************************************************)
(* A small instance of both halves of fail-closed: the breaker that        *)
(* decides and the sensor's quarantine that enforces.  They meet only in   *)
(* the calls of SetFailClosedActive, and Quarantine accepts these in any   *)
(* order, so it is enough that every behaviour of the run is one of either *)
(* half; `side` says of which.  The sensor watches one process and its     *)
(* container, with the two goroutines of the pod watcher.                  *)
(***************************************************************************)
EXTENDS MCBreaker, Quarantine

VARIABLE side

MCCgroupOf == [p \in PIDs |-> CHOOSE c \in Cgroups : TRUE]

SideInit == Init /\ QuarantineInit /\ side \in {"breaker", "quarantine"}

BreakerSide == side = "breaker" /\ UNCHANGED <<quarantineVars, side>>
QuarantineSide == side = "quarantine" /\ UNCHANGED <<vars, side>>

SideNext ==
  \/ Poll /\ BreakerSide
  \/ PollCritical /\ BreakerSide
  \/ RecordSinkFailure /\ BreakerSide
  \/ RecordSinkSuccess /\ BreakerSide
  \/ Panic /\ BreakerSide
  \/ Return /\ BreakerSide
  \/ Tick /\ BreakerSide
  \/ Add /\ QuarantineSide
  \/ Remove /\ QuarantineSide
  \/ Exfil /\ QuarantineSide
  \/ Engage /\ QuarantineSide
  \/ Clear /\ QuarantineSide

(* The fairness is the breaker's; the quarantine's properties are safety.  *)
SideSpec == SideInit /\ [][SideNext]_<<vars, quarantineVars, side>> /\ Fairness
=============================================================================
