------------------------------ MODULE MCSensor ------------------------------
(***************************************************************************)
(* One process with one descriptor it connects, reconnects and writes to,  *)
(* a second destination it sends datagrams to, and a value of two atoms it *)
(* sends whole or over two payloads.  Few records fill a ring buffer, one  *)
(* entry the table of armed descriptors, so each of them overflows.  A     *)
(* tick of the clock is longer than the time limits.                       *)
(***************************************************************************)
EXTENDS Sensor

MCCgroupOf == [p \in PIDs |-> 101]
MCSecret == <<1, 2>>
MCBuffers == {<<1, 2>>, <<2, 1>>, <<DOT>>}
MCAllowlists == {{}, ConnectTo}
=============================================================================
