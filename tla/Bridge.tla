------------------------------- MODULE Bridge -------------------------------
(***************************************************************************)
(* The taint bridge (internal/bridge): a proxy forwards what it learns to  *)
(* the sensor of its node over a Unix socket, one line per registration.   *)
(*                                                                         *)
(* The client sends one line at a time, over a connection it keeps, and    *)
(* tries once more over a new one when a write fails.  The server accepts, *)
(* checks the peer, and gives each connection a goroutine that reads lines *)
(* until the peer is gone or 30 s are over, whether the connection is busy *)
(* or not.  The sensor may be shut down (Close) or crash, and start again  *)
(* with an engine that knows nothing.                                      *)
(*                                                                         *)
(* The socket is the kernel's: a connection exists from the dial on, and   *)
(* holds what is written before it is accepted; a write to a connection    *)
(* whose other end is closed fails; a write that finds the buffer full     *)
(* fails after its 5 s having written any part of the line, perhaps all    *)
(* but the newline.                                                        *)
(***************************************************************************)
EXTENDS Integers, Sequences, FiniteSets

CONSTANTS
  Registrations,  \* what the proxy has to forward, each once
  Valid,          \* those parseRegisterLine and its sibling accept
  Conns,          \* connections, a bound
  MaxStops,       \* bound: shutdowns and crashes of the sensor
  None

ASSUME BridgeAssumption ==
  Valid \subseteq Registrations /\ None \notin Registrations \cup Conns /\ MaxStops \in Nat

VARIABLES
  \* Client.
  outbox,      \* registrations not yet sent
  call,        \* the call of sendJSON under way: its step and its message
  conn,        \* Client.conn
  outcome,     \* what each call returned
  \* Socket.
  state,       \* per connection: unused, waiting to be accepted, accepted, closed
  buffer,      \* per connection: lines written and not read
  hungUp,      \* connections the client has closed
  \* Server.
  server,      \* down, listening, closing (Close waits), closed
  serve,       \* the accepting goroutine: the connection it has in hand
  handlers,    \* connections with a goroutine that wg counts
  stops,
  \* History.
  handled,     \* per registration: how often a handler was called with it
  cut          \* registrations on a connection when the server dropped it

vars == <<outbox, call, conn, outcome, state, buffer, hungUp, server, serve, handlers,
          stops, handled, cut>>
client == <<outbox, call, conn, outcome>>
srv == <<server, serve, handlers, stops>>

Line(m) == [msg |-> m, whole |-> TRUE]
Stub(m) == [msg |-> m, whole |-> FALSE]   \* a line without its newline
Lines(q) == {q[i].msg : i \in {j \in 1..Len(q) : q[j].whole}}
NoCall == [step |-> "idle", msg |-> None]
-----------------------------------------------------------------------------
(* sendJSON.  try is the first attempt, retry the second.                  *)
Send(m) ==
  /\ call.step = "idle" /\ m \in outbox
  /\ outbox' = outbox \ {m}
  /\ call' = [step |-> "try", msg |-> m]
  /\ UNCHANGED <<conn, outcome, state, buffer, hungUp, srv, handled, cut>>

Finish(r) ==
  /\ outcome' = [outcome EXCEPT ![call.msg] = r]
  /\ call' = NoCall

(* ensureConnLocked: a dial succeeds only while somebody listens, and may  *)
(* fail then too (its time-out, a full backlog).                           *)
ensureConn ==
  /\ call.step \in {"try", "retry"} /\ conn = None
  /\ \/ /\ server = "listening"
        /\ \E c \in Conns : state[c] = "unused"
        /\ conn' = CHOOSE c \in Conns : state[c] = "unused"
        /\ state' = [state EXCEPT ![conn'] = "waiting"]
        /\ UNCHANGED <<call, outcome>>
     \/ /\ Finish("error")
        /\ UNCHANGED <<conn, state>>
  /\ UNCHANGED <<outbox, buffer, hungUp, srv, handled, cut>>

Written ==
  /\ state[conn] \in {"waiting", "accepted"}
  /\ buffer' = [buffer EXCEPT ![conn] = Append(@, Line(call.msg))]
  /\ Finish("ok")
  /\ UNCHANGED <<conn, hungUp>>

(* Mutant: a second failure is not reported.                               *)
FailedQuietly ==
  /\ \/ state[conn] = "closed" /\ UNCHANGED buffer
     \/ /\ state[conn] # "closed"
        /\ buffer' = [buffer EXCEPT ![conn] = Append(@, Stub(call.msg))]
  /\ hungUp' = hungUp \cup {conn} /\ conn' = None
  /\ IF call.step = "try"
     THEN call' = [call EXCEPT !.step = "retry"] /\ UNCHANGED outcome
     ELSE Finish("ok")

(* The peer is gone, or the write deadline cut the line.                   *)
Failed ==
  /\ \/ state[conn] = "closed" /\ UNCHANGED buffer
     \/ /\ state[conn] # "closed"
        /\ buffer' = [buffer EXCEPT ![conn] = Append(@, Stub(call.msg))]
  /\ hungUp' = hungUp \cup {conn} /\ conn' = None
  /\ IF call.step = "try"
     THEN call' = [call EXCEPT !.step = "retry"] /\ UNCHANGED outcome
     ELSE Finish("error")

Write ==
  /\ call.step \in {"try", "retry"} /\ conn # None
  /\ Written \/ Failed
  /\ UNCHANGED <<outbox, state, srv, handled, cut>>

(* Client.Close, at the end of the proxy.                                  *)
ClientClose ==
  /\ call.step = "idle" /\ conn # None
  /\ hungUp' = hungUp \cup {conn} /\ conn' = None
  /\ UNCHANGED <<outbox, call, outcome, state, buffer, srv, handled, cut>>
-----------------------------------------------------------------------------
(* The server drops connections: what they hold unread is lost.            *)
DropAll(cs) ==
  /\ state' = [c \in Conns |-> IF c \in cs THEN "closed" ELSE state[c]]
  /\ cut' = cut \cup UNION {Lines(buffer[c]) : c \in cs}
  /\ buffer' = [c \in Conns |-> IF c \in cs THEN <<>> ELSE buffer[c]]
Waiting == {c \in Conns : state[c] = "waiting"}

Listen ==
  /\ server = "down"
  /\ server' = "listening"
  /\ UNCHANGED <<client, state, buffer, hungUp, serve, handlers, stops, handled, cut>>

(* Serve.  Accept returns a connection; only then is the peer checked and  *)
(* the goroutine counted.                                                  *)
Accept ==
  /\ server = "listening" /\ serve = None
  /\ \E c \in Waiting :
       /\ state' = [state EXCEPT ![c] = "accepted"]
       /\ serve' = c
  /\ UNCHANGED <<client, buffer, hungUp, server, handlers, stops, handled, cut>>

(* SO_PEERCRED does not match: the connection is closed.                   *)
Reject ==
  /\ serve # None
  /\ DropAll({serve}) /\ serve' = None
  /\ UNCHANGED <<client, hungUp, server, handlers, stops, handled>>

Spawn ==
  /\ serve # None
  /\ handlers' = handlers \cup {serve} /\ serve' = None
  /\ UNCHANGED <<client, state, buffer, hungUp, server, stops, handled, cut>>

(* handleConn.                                                             *)
Handle(c, m) ==
  handled' = IF m \in Valid THEN [handled EXCEPT ![m] = @ + 1] ELSE handled

(* Mutant: what precedes the end of the stream is taken for a line.        *)
ReadAny(c) ==
  /\ c \in handlers /\ buffer[c] # <<>>
  /\ Handle(c, Head(buffer[c]).msg)
  /\ buffer' = [buffer EXCEPT ![c] = Tail(@)]
  /\ UNCHANGED <<client, state, hungUp, srv, cut>>

ReadLine(c) ==
  /\ c \in handlers /\ buffer[c] # <<>> /\ Head(buffer[c]).whole
  /\ Handle(c, Head(buffer[c]).msg)
  /\ buffer' = [buffer EXCEPT ![c] = Tail(@)]
  /\ UNCHANGED <<client, state, hungUp, srv, cut>>

(* EOF, after a line without its newline or not.                           *)
EndOfStream(c) ==
  /\ c \in handlers /\ c \in hungUp /\ Lines(buffer[c]) = {}
  /\ DropAll({c}) /\ handlers' = handlers \ {c}
  /\ UNCHANGED <<client, hungUp, server, serve, stops, handled>>

(* Mutant: a connection may stay open for as long as its peer likes.       *)
NoDeadline(c) == FALSE /\ UNCHANGED vars

(* The 30 s are over, read and unread lines alike.                         *)
Deadline(c) ==
  /\ c \in handlers
  /\ DropAll({c}) /\ handlers' = handlers \ {c}
  /\ UNCHANGED <<client, hungUp, server, serve, stops, handled>>

(* Close: no more connections, then wait for the goroutines counted so     *)
(* far.  A connection in the accepting goroutine's hand is not.            *)
Close ==
  /\ server = "listening" /\ stops < MaxStops
  /\ server' = "closing" /\ stops' = stops + 1
  /\ DropAll(Waiting)
  /\ UNCHANGED <<client, hungUp, serve, handlers, handled>>

CloseReturns ==
  /\ server = "closing" /\ handlers = {}
  /\ server' = "closed"
  /\ UNCHANGED <<client, state, buffer, hungUp, serve, handlers, stops, handled, cut>>

(* The process ends, after Close or without it.                            *)
Exit ==
  /\ server = "closed" \/ (server \in {"listening", "closing"} /\ stops < MaxStops)
  /\ stops' = IF server = "closed" THEN stops ELSE stops + 1
  /\ server' = "down"
  /\ DropAll({c \in Conns : state[c] \in {"waiting", "accepted"}})
  /\ serve' = None /\ handlers' = {}
  /\ UNCHANGED <<client, hungUp, handled>>
-----------------------------------------------------------------------------
Init ==
  /\ outbox = Registrations /\ call = NoCall /\ conn = None
  /\ outcome = [m \in Registrations |-> "none"]
  /\ state = [c \in Conns |-> "unused"] /\ buffer = [c \in Conns |-> <<>>] /\ hungUp = {}
  /\ server = "down" /\ serve = None /\ handlers = {} /\ stops = 0
  /\ handled = [m \in Registrations |-> 0] /\ cut = {}

Handler(c) == ReadLine(c) \/ EndOfStream(c) \/ Deadline(c)

Next ==
  \/ \E m \in Registrations : Send(m)
  \/ ensureConn \/ Write \/ ClientClose
  \/ Listen \/ Accept \/ Reject \/ Spawn \/ Close \/ CloseReturns \/ Exit
  \/ \E c \in Conns : Handler(c)

Spec == Init /\ [][Next]_vars

(* The server's goroutines run, and time passes; a client may never hang   *)
(* up.                                                                     *)
FairSpec ==
  /\ Spec
  /\ WF_vars(Spawn \/ Reject) /\ WF_vars(CloseReturns)
  /\ \A c \in Conns : WF_vars(Deadline(c))
-----------------------------------------------------------------------------
TypeOK ==
  /\ outbox \subseteq Registrations
  /\ call \in [step : {"idle", "try", "retry"}, msg : Registrations \cup {None}]
  /\ conn \in Conns \cup {None}
  /\ outcome \in [Registrations -> {"none", "ok", "error"}]
  /\ state \in [Conns -> {"unused", "waiting", "accepted", "closed"}]
  /\ buffer \in [Conns -> Seq([msg : Registrations, whole : BOOLEAN])]
  /\ hungUp \subseteq Conns
  /\ server \in {"down", "listening", "closing", "closed"}
  /\ serve \in Conns \cup {None} /\ handlers \subseteq Conns
  /\ stops \in Nat /\ handled \in [Registrations -> Nat] /\ cut \subseteq Registrations

(* The sensor acts on a registration at most once, though the client may   *)
(* send it twice, and never on one whose Register returned an error: what  *)
(* a failed write left behind is not a line.                               *)
HandledOnce ==
  \A m \in Registrations :
    /\ handled[m] <= 1
    /\ outcome[m] = "error" => handled[m] = 0 /\ \A c \in Conns : m \notin Lines(buffer[c])

(* A registration whose Register returned nil has been handled, or will be *)
(* unless the server drops the connection that holds it first (its 30 s,   *)
(* the peer check, the end of the sensor), or is one the server refuses.   *)
(* Nothing else loses it.                                                  *)
OkMeansDelivered ==
  \A m \in Valid : outcome[m] = "ok" =>
    \/ handled[m] = 1 \/ m \in cut
    \/ \E c \in Conns : m \in Lines(buffer[c]) /\ state[c] \in {"waiting", "accepted"}

(* Close returns, whatever clients keep their connections open: because of *)
(* the deadline each goroutine it waits for ends.                          *)
CloseEnds == server = "closing" ~> server # "closing"
=============================================================================
