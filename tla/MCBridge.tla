------------------------------ MODULE MCBridge ------------------------------
(***************************************************************************)
(* Three registrations, one of which the server refuses, over up to three  *)
(* connections, with one shutdown and one crash: a registration before,    *)
(* during and after a reconnect.                                           *)
(***************************************************************************)
EXTENDS Bridge

MCValid == Registrations \ {"short"}
=============================================================================
