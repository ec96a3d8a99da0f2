----------------------------- MODULE MCSessions -----------------------------
(***************************************************************************)
(* Two initialize requests against a cap of one, two servers a session and *)
(* four process numbers: both fit at once, and a number is reused.         *)
(***************************************************************************)
EXTENDS Sessions
=============================================================================
