----------------------------- MODULE MCDispatch -----------------------------
(***************************************************************************)
(* Two servers with a tool each, and a tool nobody has.  Any server may    *)
(* answer any id.                                                          *)
(***************************************************************************)
EXTENDS Dispatch

MCId == [c \in Calls |-> c]
MCRoute == [t \in Tools \ {"unknown"} |-> IF t = "read" THEN "tickets" ELSE "mail"]
=============================================================================
