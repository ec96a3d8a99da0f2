----------------------------- MODULE MCEvidence -----------------------------
(***************************************************************************)
(* Both stores and both backpressure modes, a queue of two and a retention *)
(* of two records: four trips fill the queue, overflow it and prune.       *)
(***************************************************************************)
EXTENDS Evidence
=============================================================================
