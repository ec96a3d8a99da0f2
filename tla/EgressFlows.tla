---------------------------- MODULE EgressFlows -----------------------------
(***************************************************************************)
(* The engine's reassembly of egress (internal/engine/engine.go): payloads *)
(* of one process to one destination are joined in a rolling buffer, and   *)
(* all payloads of a process in another, so that a value sent in pieces is *)
(* scanned whole.  A buffer is bounded in chunks, bytes and age, and their *)
(* number is bounded too.                                                  *)
(*                                                                         *)
(* A table of flows is a function from its keys.  Which of several equally *)
(* old flows is evicted depends on the order of a Go map, so the operators *)
(* that evict return the set of possible results.                          *)
(***************************************************************************)
EXTENDS Text, FiniteSets

CONSTANTS
  egressFragmentMaxAge,     \* idle time after which a flow starts over
  egressFragmentMaxChunks, egressFragmentMaxBytes,
  egressMaxFlows,           \* flows per table
  NL, DOT                   \* the newline and the dot, as atoms

ASSUME EgressAssumption ==
  /\ {egressFragmentMaxAge, egressFragmentMaxBytes} \subseteq Nat
  /\ {egressFragmentMaxChunks, egressMaxFlows} \subseteq Nat \ {0}

NoFlows == [k \in {} |-> 0]
Keep(flows, keys) == [k \in keys |-> flows[k]]

pruneEgressFlows(flows, now) ==
  Keep(flows, {k \in DOMAIN flows : flows[k].last + egressFragmentMaxAge >= now})

enforceEgressFlowCap(flows) ==
  IF Cardinality(DOMAIN flows) < egressMaxFlows THEN {flows}
  ELSE {Keep(flows, DOMAIN flows \ {k}) :
          k \in {f \in DOMAIN flows : \A g \in DOMAIN flows : flows[f].last <= flows[g].last}}

(* appendFlow; the flow it finds has been used within the age limit, since *)
(* the others have just been pruned.                                       *)
appendFlow(flows, key, fragment, now) ==
  LET young == pruneEgressFlows(flows, now)
      push(chunks) == PushChunk(chunks, fragment, egressFragmentMaxChunks, egressFragmentMaxBytes)
      with(table, chunks) == [k \in DOMAIN table \cup {key} |->
                                IF k = key THEN [chunks |-> chunks, last |-> now] ELSE table[k]]
  IN  IF key \in DOMAIN young THEN {with(young, push(young[key].chunks))}
      ELSE {with(table, push(<<>>)) : table \in enforceEgressFlowCap(young)}

(* normalizedEgressFragment: of a DNS query the first label.               *)
normalizedEgressFragment(dns, payload) ==
  LET q == IF payload # <<>> /\ Last(payload) = DOT THEN Front(payload) ELSE payload
      dots == {i \in 2..Len(q) : q[i] = DOT}
  IN  IF ~dns THEN payload
      ELSE IF dots = {} \/ q[1] = DOT THEN q
      ELSE SubSeq(q, 1, (CHOOSE i \in dots : \A j \in dots : i <= j) - 1)

(* Mutant: pieces are joined per destination only.                         *)
scanOneFlow(window, pidWindow) == window

scanBoth(window, pidWindow) ==
  IF pidWindow = window THEN window ELSE window \o <<NL>> \o pidWindow

(* egressCandidatePayload: the tables afterwards and the text to scan.     *)
egressCandidatePayload(flows, pidFlows, pid, dest, dns, payload, now) ==
  LET fragment == normalizedEgressFragment(dns, payload)
      raw      == IF fragment = payload THEN <<>> ELSE <<NL>> \o payload
      result(f, g) == [flows |-> f, pidFlows |-> g,
                       scan |-> scanBoth(Join(f[<<pid, dest>>].chunks), Join(g[pid].chunks)) \o raw]
  IN  IF fragment = <<>> THEN {[flows |-> flows, pidFlows |-> pidFlows, scan |-> payload]}
      ELSE {result(x[1], x[2]) : x \in appendFlow(flows, <<pid, dest>>, fragment, now)
                                        \X appendFlow(pidFlows, pid, fragment, now)}
=============================================================================
