---------------------------- MODULE MCAttribution ----------------------------
(***************************************************************************)
(* Two pods of one container each and the host's own processes, over one   *)
(* PID that is used twice: a PID that changes hands between two pods, or   *)
(* between a pod and the host, while either goroutine is anywhere in its   *)
(* work.                                                                   *)
(***************************************************************************)
EXTENDS Attribution

MCPodOf == [c \in Containers |-> CASE c = "ca" -> "a" [] c = "cb" -> "b" [] OTHER -> None]
=============================================================================
