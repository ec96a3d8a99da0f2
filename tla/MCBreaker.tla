----------------------------- MODULE MCBreaker -----------------------------
(***************************************************************************)
(* A small instance of Breaker.  Durations are 4 bits wide, so the         *)
(* back-off leaves their range after three flaps, as it leaves that of an  *)
(* int64 after 29 with the default configuration.                          *)
(***************************************************************************)
EXTENDS Breaker

(* What amd64, the only target the releases are built for, makes of a      *)
(* float64 that is no int64: the least one.                                *)
Indefinite == -(DurationMax + 1)
=============================================================================
