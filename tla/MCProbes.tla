------------------------------ MODULE MCProbes ------------------------------
(***************************************************************************)
(* Two processes of one container, watched by PID or by their cgroup, and  *)
(* room for one of them in a map; every array of up to three iovecs, one   *)
(* more than is gathered, over readable, null and unreadable pieces.       *)
(***************************************************************************)
EXTENDS Probes

MCCgroupOf == [p \in PIDs |-> 101]
MCBuffers == {<<>>, <<1>>, <<1, 2, 3, 4>>, NULL, Unmapped}
MCIovArrays == UNION {[1..n -> {<<1>>, <<2, 3>>, NULL, Unmapped, BadIovec}] : n \in 0..3}
MCMessages == [iov : {<<>>, <<<<1>>, <<2, 3>>>>, <<NULL, <<1>>>>, <<Unmapped>>}, name : Names]
MCSymmetry == Permutations(PIDs)
=============================================================================
