------------------------------ MODULE Trifecta ------------------------------
(***************************************************************************)
(* The detection engine (internal/engine): one state machine per session,  *)
(* with three decaying legs, the tainted values registered from sensitive  *)
(* sources, bounded excerpts of untrusted results, the fragment buffer     *)
(* that reassembles split secrets, the token vault, and the bounded store  *)
(* of sessions.  Engine.mu serialises every handler, so every handler is   *)
(* one action; the clock, the traffic and configuration reloads interleave *)
(* freely between them.                                                    *)
(*                                                                         *)
(* One process runs either beside the proxy (SensorMode = FALSE: requests, *)
(* results and the sensor's syscalls) or as the node sensor                *)
(* (SensorMode = TRUE: syscalls, and the taint bridge's messages).         *)
(*                                                                         *)
(* `observed`, `unvaulted` and `shedAny` are history variables: what       *)
(* sensitive sources gave to a session since it was created, which of it   *)
(* was first read while the vault was off, and whether the session's taint *)
(* list ever overflowed.  `decision` is what the last handler returned.    *)
(***************************************************************************)
EXTENDS Naturals, FiniteSets, Sequences, Text, Tagger

CONSTANTS
  Sessions,            \* session identifiers the traffic uses
  Tools,               \* tools of the configured servers, records [name, server]
  SecretTexts,         \* what the secret patterns of taint.go recognise
  ResultTexts,         \* texts tool results and opened files may hold
  ArgTexts,            \* texts sink arguments and egress payloads may hold
  VaultAuthorize,      \* vault.authorize: names of the tools that may detokenize
  JSONEscaped,         \* atoms a JSON string writes as an escape: newlines, quotes
  Armour,              \* [begin, end, putty]: atoms of PEM headers, PEM footers, PuTTY headers
  LowEntropy,          \* texts below minChunkEntropyBitsPerByte
  ChunkMatchBytes,     \* trifecta.chunk_match_bytes
  ChunkMatchMinLen,    \* trifecta.chunk_match_min_value_len
  Configs,             \* the configurations a reload may install
  Mode,                \* "block" or "monitor"
  SensorMode,          \* TRUE in the node sensor's process
  MaxSessions,         \* session_store.go maxSessions
  MaxTainted,          \* maxTaintedPerSession
  MaxTaintedBytes,     \* maxTaintedBytesPerSession
  MaxExcerpts,         \* maxUntrustedExcerpts
  MaxExcerptLen,       \* maxUntrustedExcerpt
  FragmentMaxChunks,   \* trifecta.fragment_max_chunks
  FragmentMaxBytes,    \* trifecta.fragment_max_bytes
  ContentBindMinLen,   \* trifecta.content_bind_min_len
  MaxEvents,           \* bound: events handled per session
  MaxTime              \* bound: clock ticks

LegNames == {"sensitive_source_touched", "untrusted_content_present", "external_sink_invoked"}
Leg == [Lit : BOOLEAN, LitAt : Nat, EventsAtLit : Nat]
DarkLeg == [Lit |-> FALSE, LitAt |-> 0, EventsAtLit |-> 0]

TaintValues == SecretTexts \cup ResultTexts
Atoms == UNION {ToSet(t) : t \in TaintValues}
Verdicts == {"", "EXFIL", "SUSPICIOUS"}
Actions == {"", "prevented", "allowed_monitor", "contained_by_kill", "detected_only"}
Syscalls == {"connect", "write", "dns", "openat"}

(* The reloadable knobs the properties tell apart (Engine.Configure).      *)
Config == [untrustedToolResults : BOOLEAN, legTTL : Nat, decayAfterCalls : Nat,
           vaultEnabled : BOOLEAN]

SessionState ==
  [Status : {"monitoring", "tripped"},
   Confidence : {0, 60, 95},
   Legs : [LegNames -> Leg],
   Tainted : Seq(TaintValues),
   UntrustedExcerpts : Seq(Seq(Atoms)),
   FragmentChunks : Seq(Seq(Atoms)),
   Vault : SUBSET TaintValues,
   PendingSensitiveReadPaths : SUBSET Tools,
   EventCount : Nat,
   LastActivity : Nat]

FreshSession(t) ==
  [Status |-> "monitoring", Confidence |-> 0,
   Legs |-> [l \in LegNames |-> DarkLeg],
   Tainted |-> <<>>, UntrustedExcerpts |-> <<>>, FragmentChunks |-> <<>>,
   Vault |-> {}, PendingSensitiveReadPaths |-> {},
   EventCount |-> 0, LastActivity |-> t]

Decision ==
  [op : {"none", "deliver", "request", "syscall", "lsm_deny"},
   session : Sessions \cup {""},
   Allow : BOOLEAN, Verdict : Verdicts, Action : Actions,
   evidence : BOOLEAN,            \* a record was handed to the evidence sink
   carries : SUBSET TaintValues,  \* values that arguments or payload hold, or hold a chunk of
   shares : SUBSET TaintValues,   \* values that they hold, or hold a distinctive run of
   visible : SUBSET SecretTexts]  \* secrets left in a result handed to the agent

NoDecision ==
  [op |-> "none", session |-> "", Allow |-> TRUE, Verdict |-> "", Action |-> "",
   evidence |-> FALSE, carries |-> {}, shares |-> {}, visible |-> {}]

ASSUME ConstantsAssumption ==
  /\ Sessions # {} /\ "" \notin Sessions
  /\ IsFiniteSet(SecretTexts)
  /\ SecretTexts \subseteq Seq(Atoms) \ {<<>>}
  /\ ResultTexts \subseteq Seq(Atoms)
  /\ Configs \subseteq Config
  /\ Mode \in {"block", "monitor"}
  /\ SensorMode \in BOOLEAN
  /\ MaxSessions \in Nat \ {0} /\ MaxTainted \in Nat \ {0} /\ MaxTaintedBytes \in Nat \ {0}
  /\ MaxExcerpts \in Nat \ {0} /\ MaxExcerptLen \in Nat \ {0}
  /\ FragmentMaxChunks \in Nat \ {0} /\ FragmentMaxBytes \in Nat \ {0}
  /\ ContentBindMinLen \in Nat \ {0}
  /\ ChunkMatchBytes \in Nat \ {0} /\ ChunkMatchMinLen \in Nat \ {0}
  /\ MaxEvents \in Nat /\ MaxTime \in Nat

VARIABLES
  now,        \* wall clock
  cfg,        \* the installed configuration
  live,       \* SessionStore: the sessions it holds
  state,      \* the state of each session; a session not in `live` is blank
  observed,   \* history: values sensitive sources gave to the session
  unvaulted,  \* history: those of them first read while the vault was off
  shedAny,    \* history: the session's taint list has shed a value
  decision    \* what the last handler returned

vars == <<now, cfg, live, state, observed, unvaulted, shedAny, decision>>
-----------------------------------------------------------------------------
(* Legs.                                                                   *)

LitLeg(st, t) == [Lit |-> TRUE, LitAt |-> t, EventsAtLit |-> st.EventCount]

(* The setters light a dark leg and leave a lit one alone.                 *)
LightIfDark(st, l, t) ==
  IF st.Legs[l].Lit THEN st ELSE [st EXCEPT !.Legs[l] = LitLeg(st, t)]

TTLExpired(leg, t) == cfg.legTTL > 0 /\ leg.LitAt > 0 /\ t - leg.LitAt >= cfg.legTTL

(* Mutant: a leg survives one call too many.                               *)
CallsExpiredLate(leg, count) ==
  /\ cfg.decayAfterCalls > 0 /\ leg.EventsAtLit > 0
  /\ count - leg.EventsAtLit > cfg.decayAfterCalls

CallsExpired(leg, count) ==
  /\ cfg.decayAfterCalls > 0 /\ leg.EventsAtLit > 0
  /\ count > leg.EventsAtLit
  /\ count - leg.EventsAtLit >= cfg.decayAfterCalls

Decays(leg, count, t) == leg.Lit /\ (TTLExpired(leg, t) \/ CallsExpired(leg, count))

(* Mutant: the taint goes with the sensitive leg.                          *)
PruneLegsAndTaint(st, t) ==
  [st EXCEPT
     !.Legs = [l \in LegNames |->
                 IF Decays(st.Legs[l], st.EventCount, t) THEN DarkLeg ELSE st.Legs[l]],
     !.UntrustedExcerpts =
        IF Decays(st.Legs["untrusted_content_present"], st.EventCount, t)
        THEN <<>> ELSE st.UntrustedExcerpts,
     !.Tainted = IF Decays(st.Legs["sensitive_source_touched"], st.EventCount, t)
                 THEN <<>> ELSE st.Tainted]

PruneLegs(st, t) ==
  [st EXCEPT
     !.Legs = [l \in LegNames |->
                 IF Decays(st.Legs[l], st.EventCount, t) THEN DarkLeg ELSE st.Legs[l]],
     !.UntrustedExcerpts =
        IF Decays(st.Legs["untrusted_content_present"], st.EventCount, t)
        THEN <<>> ELSE st.UntrustedExcerpts]

TouchSession(st, t) ==
  PruneLegs([st EXCEPT !.LastActivity = t, !.EventCount = st.EventCount + 1], t)

AllLit(st) == \A l \in LegNames : st.Legs[l].Lit
-----------------------------------------------------------------------------
(* Taint.                                                                  *)

(* ExtractTaintedValues: the secrets the patterns find in a text.          *)
ExtractTaintedValues(t) == {p \in SecretTexts : HasText(t, p)}

(* addTainted: append what is new, then shed from the head past the caps,  *)
(* always keeping the newest value.                                        *)
ShedOldest(tainted) ==
  LET fits(k) == \/ k = Len(tainted) - 1
                 \/ /\ Len(tainted) - k <= MaxTainted
                    /\ Bytes(DropHead(tainted, k)) <= MaxTaintedBytes
      shed    == CHOOSE k \in 0..(Len(tainted) - 1) :
                   /\ fits(k)
                   /\ \A j \in 0..(Len(tainted) - 1) : j < k => ~fits(j)
  IN  DropHead(tainted, shed)

AddTainted(st, added) ==
  IF added = <<>> THEN st
  ELSE [st EXCEPT !.Tainted = ShedOldest(st.Tainted \o added)]

(* appendUniqueTainted: the candidates not registered yet.  The order of   *)
(* the patterns' matches is abstracted to any order.                       *)
NewTaints(st, candidates) == SetToSeqs(candidates \ ToSet(st.Tainted))

(* Mutant: each mint starts a new vault.                                   *)
VaultMintAnew(st, added) ==
  IF cfg.vaultEnabled /\ added # <<>> THEN [st EXCEPT !.Vault = ToSet(added)] ELSE st

VaultMint(st, added) ==
  IF cfg.vaultEnabled THEN [st EXCEPT !.Vault = st.Vault \cup ToSet(added)] ELSE st

(* appendFragment.  It strips trailing newlines, so that the halves of a   *)
(* split secret abut: a text here never ends in one.                       *)
AppendFragment(st, t) ==
  [st EXCEPT !.FragmentChunks =
     PushChunk(st.FragmentChunks, t, FragmentMaxChunks, FragmentMaxBytes)]

StoreUntrustedExcerpt(st, t) ==
  IF t = <<>> THEN st
  ELSE LET ex   == SubSeq(t, 1, IF Len(t) > MaxExcerptLen THEN MaxExcerptLen ELSE Len(t))
           kept == IF Len(st.UntrustedExcerpts) >= MaxExcerpts
                   THEN Tail(st.UntrustedExcerpts) ELSE st.UntrustedExcerpts
       IN  [st EXCEPT !.UntrustedExcerpts = Append(kept, ex)]

(* chunkableBody: what lies between the first PEM header and the last PEM  *)
(* footer, a PuTTY key without its header, or the whole value.             *)
PemInterior(v) ==
  {x \in (DOMAIN v) \X (DOMAIN v) :
     /\ v[x[1]] \in Armour.begin /\ v[x[2]] \in Armour.end /\ x[1] + 1 < x[2]
     /\ \A i \in DOMAIN v : /\ v[i] \in Armour.begin => x[1] <= i
                            /\ v[i] \in Armour.end => i <= x[2]}

BodyBounds(v) ==
  LET pem == PemInterior(v)
  IN  IF pem # {}
      THEN LET x == CHOOSE x \in pem : TRUE IN <<x[1] + 1, x[2] - 1>>
      ELSE IF Len(v) > 1 /\ v[1] \in Armour.putty THEN <<2, Len(v)>>
      ELSE <<1, Len(v)>>

ChunkableBody(v) == LET b == BodyBounds(v) IN SubSeq(v, b[1], b[2])

Windows(body) ==
  {SubSeq(body, k + 1, k + ChunkMatchBytes) :
     k \in {j \in 0..(Len(body) - ChunkMatchBytes) : j % ChunkMatchBytes = 0}}

(* Mutant: no entropy gate.                                                *)
ContiguousChunksUngated(v) ==
  IF Len(v) < ChunkMatchMinLen THEN {} ELSE Windows(ChunkableBody(v))

(* ContiguousChunks: the body of a long value is cut into adjacent windows *)
(* of ChunkMatchBytes, of which those of low entropy are left out.         *)
ContiguousChunks(v) ==
  IF Len(v) < ChunkMatchMinLen THEN {} ELSE Windows(ChunkableBody(v)) \ LowEntropy

(* matchTaintedValue: t holds the whole of v, or a chunk of it.            *)
MatchTaintedValue(t, v) ==
  /\ t # <<>>
  /\ HasText(t, v) \/ \E c \in ContiguousChunks(v) : HasText(t, c)

(* CheckOverlapLimited / CheckOverlapPayloadLimited.                       *)
CheckOverlap(st, t) == \E i \in DOMAIN st.Tainted : MatchTaintedValue(t, st.Tainted[i])

CheckContentBind(st, t) ==
  \E i \in DOMAIN st.UntrustedExcerpts :
     SharesText(st.UntrustedExcerpts[i], t, ContentBindMinLen)

Carried(t) == {v \in TaintValues : MatchTaintedValue(t, v)}

(* The value is one PEM block, possibly with other text around it.         *)
OnePemBlock(v) ==
  \E b, e \in DOMAIN v :
    /\ v[b] \in Armour.begin /\ v[e] \in Armour.end /\ b + 1 < e
    /\ \A i \in DOMAIN v \ {b, e} : v[i] \notin Armour.begin \cup Armour.end

(* A run of atoms that tells the value v from other texts.                 *)
Distinctive(w, v) ==
  /\ w \notin LowEntropy
  /\ OnePemBlock(v) => ToSet(w) \cap (Armour.begin \cup Armour.end) = {}

SharesRun(t, v) ==
  /\ Len(v) >= ChunkMatchMinLen
  /\ \E i \in 1..(Len(v) - ChunkMatchBytes + 1) :
       LET w == SubSeq(v, i, i + ChunkMatchBytes - 1)
       IN  HasText(t, w) /\ Distinctive(w, v)

Shared(t) == {v \in TaintValues : HasText(t, v) \/ SharesRun(t, v)}
-----------------------------------------------------------------------------
(* Verdict and action.                                                     *)

(* Mutant: EXFIL waits for the three legs too.                             *)
ClassifyTripLegsFirst(st, overlap, payload, hasPayloadChannel, containerAbort) ==
  IF ~AllLit(st) THEN ""
  ELSE IF overlap THEN "EXFIL"
  ELSE IF ~hasPayloadChannel \/ CheckContentBind(st, payload) \/ containerAbort
       THEN "SUSPICIOUS" ELSE ""

(* classifyTrip: overlap is EXFIL whatever the legs; the rest needs all    *)
(* three legs lit.                                                         *)
ClassifyTrip(st, overlap, payload, hasPayloadChannel, containerAbort) ==
  IF overlap THEN "EXFIL"
  ELSE IF /\ AllLit(st)
          /\ \/ ~hasPayloadChannel
             \/ CheckContentBind(st, payload)
             \/ containerAbort
       THEN "SUSPICIOUS"
  ELSE ""

ConfidenceOf(verdict) == IF verdict = "EXFIL" THEN 95 ELSE 60

ProxyAction(verdict) ==
  IF verdict = "EXFIL" /\ Mode # "monitor"
  THEN [Allow |-> FALSE, Action |-> "prevented"]
  ELSE [Allow |-> TRUE, Action |-> "allowed_monitor"]

VariantBAction(verdict) ==
  IF verdict = "EXFIL" THEN [Allow |-> FALSE, Action |-> "contained_by_kill"]
  ELSE [Allow |-> TRUE, Action |-> "detected_only"]

Trip(st, verdict) ==
  IF verdict = "" THEN st
  ELSE [st EXCEPT !.Status = "tripped", !.Confidence = ConfidenceOf(verdict)]
-----------------------------------------------------------------------------
(* The session store.                                                      *)

(* Mutant: plain LRU.                                                      *)
BetterVictimLRU(a, b) == state[a].LastActivity < state[b].LastActivity

(* evictOne's order: a session without taint before one with, then the     *)
(* least recently active.                                                  *)
BetterVictim(a, b) ==
  \/ state[a].Tainted = <<>> /\ state[b].Tainted # <<>>
  \/ /\ (state[a].Tainted = <<>>) = (state[b].Tainted = <<>>)
     /\ state[a].LastActivity < state[b].LastActivity

Victims == {v \in live : \A o \in live : ~BetterVictim(o, v)}

(* The sessions GetOrCreate(s) may drop to make room: none when the        *)
(* session exists or the store is below its cap.                           *)
Evictions(s) ==
  IF s \in live \/ Cardinality(live) < MaxSessions THEN {{}}
  ELSE {{v} : v \in Victims}

(* Every handler gets its session from the store, touches it and installs  *)
(* the state `st` it computed, the values `obs` newly observed in it and   *)
(* the decision `d`.                                                       *)
Touched(s) ==
  TouchSession(IF s \in live THEN state[s] ELSE FreshSession(now), now)

Install(s, gone, st, obs, didShed, d) ==
  /\ live' = (live \ gone) \cup {s}
  /\ state' = [x \in Sessions |->
                 IF x = s THEN st ELSE IF x \in gone THEN FreshSession(0) ELSE state[x]]
  /\ observed' = [x \in Sessions |->
                    IF x = s THEN observed[s] \cup obs
                    ELSE IF x \in gone THEN {} ELSE observed[x]]
  /\ unvaulted' = [x \in Sessions |->
                     IF x = s /\ ~cfg.vaultEnabled THEN unvaulted[s] \cup (obs \ observed[s])
                     ELSE IF x \in gone THEN {} ELSE unvaulted[x]]
  /\ shedAny' = [x \in Sessions |->
                   IF x = s THEN shedAny[s] \/ didShed
                   ELSE IF x \in gone THEN FALSE ELSE shedAny[x]]
  /\ decision' = d
  /\ UNCHANGED <<now, cfg>>

DropsTaint(old, added, new) == Len(new.Tainted) < Len(old.Tainted) + Len(added)
-----------------------------------------------------------------------------
(* Handlers of the proxy's process.                                        *)

(* Mutant: the fragment buffer is not looked at.                           *)
CandidatesOfText(st, t, path) ==
  IF t = <<>> THEN {} ELSE ExtractTaintedValues(t) \cup (IF path THEN {t} ELSE {})

(* What a sensitive result taints: the secrets of the text itself, those   *)
(* of the joined fragment buffer, and the whole text of a sensitive path.  *)
Candidates(st, t, path) ==
  IF t = <<>> THEN {}
  ELSE ExtractTaintedValues(t) \cup ExtractTaintedValues(Join(st.FragmentChunks))
         \cup (IF path THEN {t} ELSE {})

(* VaultRewriteFrame works on the frame as received, where JSON escapes    *)
(* some characters of the texts: the secrets of t that no vaulted value    *)
(* found in the frame covers stay visible to the agent.                    *)
FrameText(t) == [i \in DOMAIN t |-> IF t[i] \in JSONEscaped THEN [escaped |-> t[i]] ELSE t[i]]

LeftVisible(st, t) ==
  {p \in ExtractTaintedValues(t) :
     ~ /\ cfg.vaultEnabled
       /\ \E v \in st.Vault : HasText(FrameText(t), v) /\ HasText(v, p)}

(* IngestResult for a sensitive source: light the leg, buffer the text,    *)
(* extract from the result and from the joined buffer, add the whole text  *)
(* when a sensitive path was stashed for this tool, register, mint.        *)
IngestSensitive(s, tool, t, gone) ==
  LET st0   == LightIfDark(Touched(s), "sensitive_source_touched", now)
      path  == tool \in st0.PendingSensitiveReadPaths /\ t # <<>>
      st1   == [st0 EXCEPT !.PendingSensitiveReadPaths = @ \ {tool}]
      st2   == IF t = <<>> THEN st1 ELSE AppendFragment(st1, t)
      cands == Candidates(st2, t, path)
  IN  \E added \in NewTaints(st2, cands) :
        LET st3 == VaultMint(AddTainted(st2, added), added)
        IN  Install(s, gone, st3, cands, DropsTaint(st2, added, st3),
              [NoDecision EXCEPT !.op = "deliver", !.session = s,
                 !.visible = LeftVisible(st3, t)])

(* IngestResult for any other tool: keep an excerpt and light the leg.     *)
(* Nothing is minted, but what the vault knows is replaced here too.       *)
IngestUntrusted(s, t, gone) ==
  LET st1 == IF cfg.untrustedToolResults
             THEN LightIfDark(StoreUntrustedExcerpt(Touched(s), t),
                              "untrusted_content_present", now)
             ELSE Touched(s)
  IN  Install(s, gone, st1, {}, FALSE,
        [NoDecision EXCEPT !.op = "deliver", !.session = s,
           !.visible = LeftVisible(st1, t)])

(* deliverServerFrame's engine calls: IngestResult, then VaultRewriteFrame *)
(* replaces the vaulted values in what the agent is given (`visible`).     *)
IngestResult(s, tool, t) ==
  /\ ~SensorMode
  /\ state[s].EventCount < MaxEvents
  /\ \E gone \in Evictions(s) :
       \/ IsSensitiveSource(tool) /\ IngestSensitive(s, tool, t, gone)
       \/ ~IsSensitiveSource(tool) /\ IngestUntrusted(s, t, gone)

StashSensitiveReadPath(st, tool, readsPath) ==
  IF IsSensitiveSource(tool) /\ readsPath
  THEN [st EXCEPT !.PendingSensitiveReadPaths = @ \cup {tool}] ELSE st

(* vaultDetokenize: dummies of vaulted values become the values.           *)
VaultDetokenize(st, t) ==
  FlattenSeq([i \in DOMAIN t |->
    IF \E v \in st.Vault : t[i] = [dummy |-> v]
    THEN CHOOSE v \in st.Vault : t[i] = [dummy |-> v]
    ELSE <<t[i]>>])

(* What an authorised tool would be sent, and what is scanned: the same.   *)
ForwardArgs(st, tool, args) ==
  IF cfg.vaultEnabled /\ tool.name \in VaultAuthorize THEN VaultDetokenize(st, args) ELSE args

(* Mutant: the arguments are scanned as the agent wrote them.              *)
ScannedAsWritten(st, tool, args) == args

Scanned(st, tool, args) == ForwardArgs(st, tool, args)

EvaluateSink(s, st, gone, tool, args, containerAbort) ==
  LET st1     == LightIfDark(st, "external_sink_invoked", now)
      scanned == Scanned(st1, tool, args)
      overlap == CheckOverlap(st1, scanned)
      verdict == ClassifyTrip(st1, overlap, scanned, TRUE, containerAbort /\ ~overlap)
      act     == ProxyAction(verdict)
  IN  Install(s, gone, Trip(st1, verdict), {}, FALSE,
        [NoDecision EXCEPT !.op = "request", !.session = s,
           !.Allow = (verdict = "" \/ act.Allow),
           !.Verdict = verdict,
           !.Action = IF verdict = "" THEN "" ELSE act.Action,
           !.evidence = verdict # "",
           !.carries = Carried(ForwardArgs(st1, tool, args)),
           !.shares = Shared(ForwardArgs(st1, tool, args))])

EvaluateRequest(s, tool, args, readsPath, containerAbort) ==
  /\ ~SensorMode
  /\ state[s].EventCount < MaxEvents
  /\ \E gone \in Evictions(s) :
       LET st == StashSensitiveReadPath(Touched(s), tool, readsPath)
       IN  \/ IsExternalSink(tool) /\ EvaluateSink(s, st, gone, tool, args, containerAbort)
           \/ /\ ~IsExternalSink(tool)
              /\ Install(s, gone, st, {}, FALSE,
                   [NoDecision EXCEPT !.op = "request", !.session = s])
-----------------------------------------------------------------------------
(* Handlers of kernel events.                                              *)

(* finishVariantBSyscallTrip, or a plain allow when nothing tripped.       *)
FinishVariantB(s, st, gone, payload, window, verdict) ==
  LET act == VariantBAction(verdict)
  IN  Install(s, gone, Trip(st, verdict), {}, FALSE,
        [NoDecision EXCEPT !.op = "syscall", !.session = s,
           !.Allow = (verdict = "" \/ act.Allow),
           !.Verdict = verdict,
           !.Action = IF verdict = "" THEN "" ELSE act.Action,
           !.evidence = verdict # "",
           !.carries = Carried(window), !.shares = Shared(window)])

(* IngestSyscall (beside the proxy).  `window` is what the egress buffers  *)
(* of EgressFlows made of this payload and earlier ones.                   *)
IngestSyscall(s, call, payload, window, containerAbort) ==
  /\ ~SensorMode
  /\ state[s].EventCount < MaxEvents
  /\ \E gone \in Evictions(s) :
       LET st      == LightIfDark(Touched(s), "external_sink_invoked", now)
           scans   == call # "openat" /\ payload # <<>>
           overlap == scans /\ CheckOverlap(st, window)
       IN  FinishVariantB(s, st, gone, payload, IF scans THEN window ELSE <<>>,
             ClassifyTrip(st, overlap, payload, call # "connect",
                          containerAbort /\ scans /\ ~overlap))

(* IngestSyscallSensor (node sensor): the sink leg is lit again by every   *)
(* egress event.                                                           *)
IngestSyscallSensor(s, call, payload, window, containerAbort) ==
  /\ SensorMode
  /\ state[s].EventCount < MaxEvents
  /\ call # "openat"
  /\ \E gone \in Evictions(s) :
       LET st0     == Touched(s)
           st      == [st0 EXCEPT !.Legs["external_sink_invoked"] = LitLeg(st0, now)]
           scans   == payload # <<>>
           overlap == scans /\ CheckOverlap(st, window)
       IN  FinishVariantB(s, st, gone, payload, IF scans THEN window ELSE <<>>,
             ClassifyTrip(st, overlap, payload, call # "connect",
                          containerAbort /\ scans /\ ~overlap))

(* seedSensorSensitiveOpen: an openat lights the leg and seeds taint from  *)
(* the file's contents; the whole file when no pattern matches and the     *)
(* path is sensitive.                                                      *)
SeedSensitiveOpen(s, contents, sensitivePath) ==
  /\ SensorMode
  /\ state[s].EventCount < MaxEvents
  /\ \E gone \in Evictions(s) :
       LET st    == LightIfDark(Touched(s), "sensitive_source_touched", now)
           found == ExtractTaintedValues(contents)
           cands == IF contents = <<>> THEN {}
                    ELSE IF found = {} /\ sensitivePath THEN {contents} ELSE found
       IN  \E added \in NewTaints(st, cands) :
             LET st1 == AddTainted(st, added)
             IN  Install(s, gone, st1, cands, DropsTaint(st, added, st1), NoDecision)

RegisterRemoteTaint(s, v) ==
  /\ SensorMode
  /\ state[s].EventCount < MaxEvents
  /\ \E gone \in Evictions(s) :
       LET st == LightIfDark(Touched(s), "sensitive_source_touched", now)
       IN  \E added \in NewTaints(st, {v}) :
             LET st1 == AddTainted(st, added)
             IN  Install(s, gone, st1, {v}, DropsTaint(st, added, st1), NoDecision)

RegisterRemoteUntrusted(s) ==
  /\ SensorMode
  /\ state[s].EventCount < MaxEvents
  /\ \E gone \in Evictions(s) :
       Install(s, gone, LightIfDark(Touched(s), "untrusted_content_present", now),
               {}, FALSE, NoDecision)

(* ingestLSMDeny: no touch, no session is created; a record only when the  *)
(* session is tripped here.                                                *)
IngestLSMDeny(s) ==
  /\ decision' = [NoDecision EXCEPT !.op = "lsm_deny", !.session = s,
                    !.Allow = FALSE, !.Verdict = "EXFIL", !.Action = "prevented",
                    !.evidence = (s \in live /\ state[s].Status = "tripped")]
  /\ UNCHANGED <<now, cfg, live, state, observed, unvaulted, shedAny>>

(* A syscall of a process with no session: audited, never guessed.         *)
RecordUnattributedSyscall(isDeny) ==
  /\ decision' = IF isDeny
                 THEN [NoDecision EXCEPT !.op = "lsm_deny", !.Verdict = "EXFIL",
                         !.Action = "prevented"]
                 ELSE [NoDecision EXCEPT !.op = "syscall"]
  /\ UNCHANGED <<now, cfg, live, state, observed, unvaulted, shedAny>>
-----------------------------------------------------------------------------
Configure(c) ==
  /\ c # cfg
  /\ cfg' = c
  /\ decision' = NoDecision
  /\ UNCHANGED <<now, live, state, observed, unvaulted, shedAny>>

Tick ==
  /\ now < MaxTime
  /\ now' = now + 1
  /\ decision' = NoDecision
  /\ UNCHANGED <<cfg, live, state, observed, unvaulted, shedAny>>

Init ==
  /\ now = 1
  /\ cfg \in Configs
  /\ live = {}
  /\ state = [s \in Sessions |-> FreshSession(0)]
  /\ observed = [s \in Sessions |-> {}]
  /\ unvaulted = [s \in Sessions |-> {}]
  /\ shedAny = [s \in Sessions |-> FALSE]
  /\ decision = NoDecision

Result == \E s \in Sessions, tool \in Tools, t \in ResultTexts : IngestResult(s, tool, t)

Request ==
  \E s \in Sessions, tool \in Tools, args \in ArgTexts, readsPath, abort \in BOOLEAN :
     /\ readsPath => IsSensitiveSource(tool)
     /\ abort => args # <<>>
     /\ EvaluateRequest(s, tool, args, readsPath, abort)

(* A connect or an openat never carries a payload; the window of a payload *)
(* always contains it.                                                     *)
Syscall ==
  \E s \in Sessions, call \in Syscalls, payload, window \in ArgTexts, abort \in BOOLEAN :
     /\ call \in {"connect", "openat"} => payload = <<>>
     /\ IF payload = <<>> THEN window = <<>> /\ ~abort ELSE HasText(window, payload)
     /\ \/ IngestSyscall(s, call, payload, window, abort)
        \/ IngestSyscallSensor(s, call, payload, window, abort)

SensorOpen ==
  \E s \in Sessions, t \in ResultTexts, sens \in BOOLEAN : SeedSensitiveOpen(s, t, sens)

Bridge ==
  \E s \in Sessions : \/ \E v \in SecretTexts : RegisterRemoteTaint(s, v)
                      \/ RegisterRemoteUntrusted(s)

LSMDeny == \E s \in Sessions : IngestLSMDeny(s)

Unattributed == \E isDeny \in BOOLEAN : RecordUnattributedSyscall(isDeny)

Reload == \E c \in Configs : Configure(c)

Next ==
  \/ Result \/ Request \/ Syscall \/ SensorOpen \/ Bridge
  \/ LSMDeny \/ Unattributed \/ Reload \/ Tick

Spec == Init /\ [][Next]_vars
-----------------------------------------------------------------------------
(***************************************************************************)
(* Properties.                                                             *)
(***************************************************************************)

(* Every variable has its type, and a session the store does not hold is   *)
(* blank.                                                                  *)
TypeOK ==
  /\ now \in Nat
  /\ cfg \in Config
  /\ live \subseteq Sessions
  /\ state \in [Sessions -> SessionState]
  /\ observed \in [Sessions -> SUBSET TaintValues]
  /\ unvaulted \in [Sessions -> SUBSET TaintValues]
  /\ shedAny \in [Sessions -> BOOLEAN]
  /\ decision \in Decision
  /\ \A s \in Sessions \ live :
       state[s] = FreshSession(0) /\ observed[s] = {} /\ unvaulted[s] = {} /\ ~shedAny[s]

(* Taint outlives the legs: unless the per-session cap forced values out,  *)
(* the engine still matches on exactly the values the session's sensitive  *)
(* sources gave it, whatever decayed, tripped or was reloaded meanwhile.   *)
TaintRemembered ==
  \A s \in Sessions :
    /\ ToSet(state[s].Tainted) \subseteq observed[s]
    /\ ~shedAny[s] => observed[s] \subseteq ToSet(state[s].Tainted)

(* The caps of addTainted: at most MaxTainted values, and no value twice.  *)
TaintBounded ==
  \A s \in Sessions :
    /\ Len(state[s].Tainted) <= MaxTainted
    /\ \A i, j \in DOMAIN state[s].Tainted :
          i # j => state[s].Tainted[i] # state[s].Tainted[j]

(* No silent exfiltration: in block mode a call of a sink, and in every    *)
(* mode a syscall, that was let through holds no value this session        *)
(* observed and no chunk of one, whether or not the legs are lit and       *)
(* whether or not the arguments were detokenized, unless the taint list    *)
(* had overflowed.                                                         *)
NoSilentExfil ==
  /\ decision.op \in {"request", "syscall"} /\ decision.session # ""
  /\ decision.Allow /\ (Mode = "block" \/ decision.op = "syscall")
  /\ ~shedAny[decision.session]
  => decision.carries \cap observed[decision.session] = {}

(* No false EXFIL and no taint across sessions: an EXFIL verdict is backed *)
(* by a value that a sensitive source gave to that very session.  What     *)
(* would leave holds all of it or, of a long value, a run of               *)
(* ChunkMatchBytes that passes the entropy gate and, if the value is one   *)
(* PEM block, touches neither its header nor its footer.  (The headers     *)
(* between the blocks of a bundle are not stripped and do count.)          *)
ExfilJustified ==
  decision.op \in {"request", "syscall"} /\ decision.Verdict = "EXFIL"
    => decision.shares \cap observed[decision.session] # {}

(* Excerpts of untrusted content are kept only while their leg is lit, so  *)
(* a decayed excerpt can never bind a later call.                          *)
ExcerptsFresh ==
  \A s \in Sessions :
    /\ Len(state[s].UntrustedExcerpts) <= MaxExcerpts
    /\ state[s].UntrustedExcerpts # <<>> => state[s].Legs["untrusted_content_present"].Lit

(* Reassembly first: every secret that shows in the joined fragment buffer *)
(* has been registered, even when no single result held it whole.          *)
SplitSecretObserved ==
  \A s \in Sessions :
    ExtractTaintedValues(Join(state[s].FragmentChunks)) \subseteq observed[s]

(* A handled event leaves no stale leg: after any step that touches a      *)
(* session, each lit leg is younger than the TTL and than the call count   *)
(* of the configuration in force, so a SUSPICIOUS verdict never rests on   *)
(* legs lit longer ago.                                                    *)
LegsFreshWhenTouched ==
  [][\A s \in Sessions :
       state'[s].EventCount > state[s].EventCount =>
         \A l \in LegNames :
           LET leg == state'[s].Legs[l]
           IN  leg.Lit =>
                 /\ cfg.legTTL > 0 => now - leg.LitAt < cfg.legTTL
                 /\ cfg.decayAfterCalls > 0 =>
                      state'[s].EventCount - leg.EventsAtLit < cfg.decayAfterCalls]_vars

(* A flood of empty sessions cannot push out one that holds a secret: a    *)
(* session with taint leaves the store only when every stored session has  *)
(* taint.                                                                  *)
EvictionSparesTaint ==
  [][\A s \in live \ live' :
       state[s].Tainted # <<>> => \A o \in live : state[o].Tainted # <<>>]_vars

(* With the vault on, no result of any tool shows the agent a secret that  *)
(* the session's sensitive sources have given it, earlier or in this very  *)
(* result.  Left out: a value first read while the vault was off, which    *)
(* stays unknown to the vault when a reload turns it on, and a secret that *)
(* only an untrusted tool has returned, which nothing registers.           *)
VaultHidesSecrets ==
  cfg.vaultEnabled /\ decision.op = "deliver" =>
    decision.visible \cap observed[decision.session] \subseteq unvaulted[decision.session]
=============================================================================
