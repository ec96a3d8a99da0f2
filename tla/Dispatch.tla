------------------------------ MODULE Dispatch ------------------------------
(***************************************************************************)
(* The proxy's dispatch of one session (internal/proxy/dispatch.go and the *)
(* two frame loops of proxy.go).  A goroutine per request carries it from  *)
(* the agent to a server and waits for the answer; a goroutine per server  *)
(* reads frames, shows results to the engine and hands them to the waiter  *)
(* or, if there is none, to the agent's writer.  They meet in two maps,    *)
(* pending and syncWait, under the session's mutex; each action below is   *)
(* what one goroutine does between two points where another may act.       *)
(*                                                                         *)
(* The engine is its verdict: allow, deny or panic (module Trifecta says   *)
(* which).  Any server may send a response with any id at any time: to     *)
(* what it was sent, to what another server was sent, to what nobody was   *)
(* sent yet, several times or never; deliverServerFrame looks at the id    *)
(* only.  After the session is cancelled neither side sends more, which is *)
(* one of the things they may do anyway.  Over HTTP requests overlap; over *)
(* stdio the agent has one at a time, which is one way they may come.      *)
(***************************************************************************)
EXTENDS Integers, FiniteSets

CONSTANTS
  Calls,      \* requests of the agent
  Ids,        \* JSON-RPC ids
  Id,         \* the id of each request
  Tools,      \* names of tools an agent may ask for
  Servers,    \* the session's servers
  Route,      \* toolRoute: the server of each known tool
  MaxAnswers, \* bound: responses the servers send
  NoCall, NoTool

(* The MCP specification forbids a client to use an id twice in a session. *)
ASSUME DispatchAssumption ==
  /\ Id \in [Calls -> Ids]
  /\ \A c, d \in Calls : Id[c] = Id[d] => c = d
  /\ Route \in [DOMAIN Route -> Servers] /\ DOMAIN Route \subseteq Tools
  /\ MaxAnswers \in Nat
  /\ NoCall \notin Calls /\ NoTool \notin Tools

(* What travels from a server: the request whose id it bears, the tool it  *)
(* was attributed to, and its body: as the server sent it, or as the       *)
(* engine left it (an error, if the engine panicked on it).                *)
Frame == [of : Calls \cup {NoCall}, as : Tools \cup {NoTool}, body : {"raw", "examined"}]
Nothing == [of |-> NoCall, as |-> NoTool, body |-> "raw"]

Stages == {"new", "routed", "open", "allowed", "registered", "sent", "returning", "done"}
Results == {"none", "local", "blocked", "error", "answer"}

VARIABLES
  failClosed, \* failClosedActive
  stage,      \* where each request stands
  tool,       \* the tool each request asks for
  result,     \* what HandleAgentRequest returned for it
  answer,     \* and with which frame
  pending,    \* id -> the call and tool a response is attributed to
  syncWait,   \* id -> whose channel waits for the response
  chan,       \* the channels, of capacity one
  received,   \* what each server has been sent
  answers,    \* how many responses the servers have sent
  reader,     \* each server's reader: its step, its frame, the waiter it found
  denied,     \* history: fail-closed has been on since the request came in
  guessed     \* history: requests some server answered before they were registered

vars == <<failClosed, stage, tool, result, answer, pending, syncWait,
          chan, received, answers, reader, denied, guessed>>
calls == <<stage, tool, result, answer, denied>>
waiting == <<pending, syncWait>>
servers == <<received, answers, reader, guessed>>

Entry == [call : Calls \cup {NoCall}, tool : Tools \cup {NoTool}]
NoEntry == [call |-> NoCall, tool |-> NoTool]
InFlight(c) == stage[c] \notin {"new", "done"}
BeforeRegister(c) == stage[c] \in {"new", "routed", "open", "allowed"}
-----------------------------------------------------------------------------
Finish(c, r) ==
  /\ stage' = [stage EXCEPT ![c] = "done"]
  /\ result' = [result EXCEPT ![c] = r]

(* A frame reaches HandleAgentRequest.  The proxy itself answers every     *)
(* method but tools/call, and tools/call with bad parameters or a tool     *)
(* nobody registered; a notification needs no answer; a frame that is not  *)
(* JSON is an error; all of that is local.                                 *)
HandleLocally(c) ==
  /\ stage[c] = "new"
  /\ Finish(c, "local")
  /\ UNCHANGED <<failClosed, tool, answer, denied, waiting, chan, servers>>

DispatchToolsCall(c, t) ==
  /\ stage[c] = "new"
  /\ t \in DOMAIN Route
  /\ stage' = [stage EXCEPT ![c] = "routed"]
  /\ tool' = [tool EXCEPT ![c] = t]
  /\ denied' = [denied EXCEPT ![c] = failClosed]
  /\ UNCHANGED <<failClosed, result, answer, waiting, chan, servers>>

CheckFailClosed(c) ==
  /\ stage[c] = "routed"
  /\ IF failClosed
     THEN Finish(c, "blocked")
     ELSE stage' = [stage EXCEPT ![c] = "open"] /\ UNCHANGED result
  /\ UNCHANGED <<failClosed, tool, answer, denied, waiting, chan, servers>>

(* EvaluateRequest: denied, panicked, or allowed but with arguments that   *)
(* cannot be put back into the frame: blocked.                             *)
EvaluateRequest(c) ==
  /\ stage[c] = "open"
  /\ \/ Finish(c, "blocked")
     \/ stage' = [stage EXCEPT ![c] = "allowed"] /\ UNCHANGED result
  /\ UNCHANGED <<failClosed, tool, answer, denied, waiting, chan, servers>>

Register(c) ==
  /\ stage[c] = "allowed"
  /\ stage' = [stage EXCEPT ![c] = "registered"]
  /\ pending' = [pending EXCEPT ![Id[c]] = [call |-> c, tool |-> tool[c]]]
  /\ syncWait' = [syncWait EXCEPT ![Id[c]] = c]
  /\ UNCHANGED <<failClosed, tool, result, answer, denied, chan, servers>>

Send(c) ==
  /\ stage[c] = "registered"
  /\ stage' = [stage EXCEPT ![c] = "sent"]
  /\ received' = [received EXCEPT ![Route[tool[c]]] = @ \cup {c}]
  /\ UNCHANGED <<failClosed, tool, result, answer, denied, waiting, chan, answers, reader, guessed>>

(* The write fails: the frame is too long or the server's stdin is closed. *)
SendFails(c) ==
  /\ stage[c] = "registered"
  /\ stage' = [stage EXCEPT ![c] = "returning"]
  /\ result' = [result EXCEPT ![c] = "error"]
  /\ UNCHANGED <<failClosed, tool, answer, denied, waiting, chan, servers>>

Receive(c) ==
  /\ stage[c] = "sent" /\ chan[c] # {}
  /\ \E f \in chan[c] : answer' = [answer EXCEPT ![c] = f]
  /\ chan' = [chan EXCEPT ![c] = {}]
  /\ stage' = [stage EXCEPT ![c] = "returning"]
  /\ result' = [result EXCEPT ![c] = "answer"]
  /\ UNCHANGED <<failClosed, tool, denied, waiting, servers>>

(* The wait of 30 s ends, the client goes away or the session is cancelled;*)
(* a select with both cases ready takes either.                            *)
Timeout(c) ==
  /\ stage[c] = "sent"
  /\ stage' = [stage EXCEPT ![c] = "returning"]
  /\ result' = [result EXCEPT ![c] = "error"]
  /\ UNCHANGED <<failClosed, tool, answer, denied, waiting, chan, servers>>

Returns(c) == Receive(c) \/ Timeout(c)

(* Mutant: only the waiter is removed.                                     *)
ForgetWaiter(c) ==
  /\ stage[c] = "returning"
  /\ stage' = [stage EXCEPT ![c] = "done"]
  /\ syncWait' = [syncWait EXCEPT ![Id[c]] = NoCall]
  /\ UNCHANGED <<failClosed, tool, result, answer, denied, pending, chan, servers>>

(* The deferred cleanup; what is left in the channel stays there.          *)
Forget(c) ==
  /\ stage[c] = "returning"
  /\ stage' = [stage EXCEPT ![c] = "done"]
  /\ pending' = [pending EXCEPT ![Id[c]] = NoEntry]
  /\ syncWait' = [syncWait EXCEPT ![Id[c]] = NoCall]
  /\ UNCHANGED <<failClosed, tool, result, answer, denied, chan, servers>>
-----------------------------------------------------------------------------
(* readServerFrames and deliverServerFrame.  A reader that a read error,   *)
(* the end of the stream or a frame over the size limit has ended is one   *)
(* that reads no more.  A notification or a request of the server's own    *)
(* has no id to look up and goes to the agent's writer: nothing changes.   *)
Idle == [step |-> "idle", frame |-> Nothing, waiter |-> NoCall]

(* A response, from whichever server: its tool is that of the pending call *)
(* with its id, if any.                                                    *)
ReadResponse(s, c) ==
  /\ reader[s].step = "idle"
  /\ answers < MaxAnswers
  /\ answers' = answers + 1
  /\ guessed' = IF BeforeRegister(c) THEN guessed \cup {c} ELSE guessed
  /\ reader' = [reader EXCEPT ![s] =
       [step |-> "read", waiter |-> NoCall,
        frame |-> [of |-> c, as |-> pending[Id[c]].tool, body |-> "raw"]]]
  /\ UNCHANGED <<failClosed, calls, waiting, chan, received>>

(* Mutant: a result the engine panicked on is passed on as it is.          *)
ExaminedOrRaw(f) == IF f.as = NoTool THEN {f} ELSE {f, [f EXCEPT !.body = "examined"]}

(* IngestResult and VaultRewriteFrame, or the error that replaces a result *)
(* on which the engine panicked.  An unattributed frame is only logged.    *)
Examined(f) == {IF f.as = NoTool THEN f ELSE [f EXCEPT !.body = "examined"]}

(* The engine's part touches nothing here, so that it and the look-up of   *)
(* the waiter are one step.                                                *)
FindWaiter(s) ==
  /\ reader[s].step = "read"
  /\ \E f \in Examined(reader[s].frame) :
       reader' = [reader EXCEPT ![s] = [step |-> "found", frame |-> f, waiter |-> syncWait[Id[f.of]]]]
  /\ UNCHANGED <<failClosed, calls, waiting, chan, received, answers, guessed>>

(* Mutant: the reader waits until the channel has room.                    *)
ReadyOnlyIfRoom(s) == reader[s].waiter # NoCall => chan[reader[s].waiter] = {}

(* The send on the channel is tried, never waited for.                     *)
Ready(s) == TRUE

(* A frame nobody takes goes to the agent's writer over stdio, is dropped  *)
(* over HTTP, and changes nothing here.                                    *)
Hand(s) ==
  /\ reader[s].step = "found" /\ Ready(s)
  /\ LET w == reader[s].waiter
     IN chan' = IF w # NoCall /\ chan[w] = {} THEN [chan EXCEPT ![w] = {reader[s].frame}] ELSE chan
  /\ reader' = [reader EXCEPT ![s] = Idle]
  /\ UNCHANGED <<failClosed, calls, waiting, received, answers, guessed>>
-----------------------------------------------------------------------------
(* The breaker's callback (module Breaker).                                *)
SetFailClosed(active) ==
  /\ failClosed # active
  /\ failClosed' = active
  /\ denied' = [c \in Calls |-> denied[c] /\ active]
  /\ UNCHANGED <<stage, tool, result, answer, waiting, chan, servers>>

Init ==
  /\ failClosed = FALSE
  /\ stage = [c \in Calls |-> "new"]
  /\ tool = [c \in Calls |-> NoTool]
  /\ result = [c \in Calls |-> "none"]
  /\ answer = [c \in Calls |-> Nothing]
  /\ denied = [c \in Calls |-> FALSE]
  /\ pending = [i \in Ids |-> NoEntry]
  /\ syncWait = [i \in Ids |-> NoCall]
  /\ chan = [c \in Calls |-> {}]
  /\ received = [s \in Servers |-> {}]
  /\ answers = 0
  /\ reader = [s \in Servers |-> Idle]
  /\ guessed = {}

CallStep(c) ==
  \/ CheckFailClosed(c) \/ EvaluateRequest(c) \/ Register(c)
  \/ Send(c) \/ SendFails(c) \/ Returns(c) \/ Forget(c)

ReaderStep(s) == FindWaiter(s) \/ Hand(s)

Next ==
  \/ \E c \in Calls : HandleLocally(c) \/ CallStep(c)
  \/ \E c \in Calls, t \in Tools : DispatchToolsCall(c, t)
  \/ \E s \in Servers : ReaderStep(s)
  \/ \E s \in Servers, c \in Calls : ReadResponse(s, c)
  \/ \E active \in BOOLEAN : SetFailClosed(active)

Spec == Init /\ [][Next]_vars

(* A goroutine that can run runs, and the agent reads what it is given.    *)
(* A write to a server is not assumed to return: the server may have       *)
(* stopped reading, and the time limit starts only after the write.        *)
FairSpec ==
  /\ Spec
  /\ \A c \in Calls : WF_vars(CallStep(c) /\ stage[c] # "registered")
  /\ \A s \in Servers : WF_vars(ReaderStep(s))
-----------------------------------------------------------------------------
TypeOK ==
  /\ failClosed \in BOOLEAN
  /\ stage \in [Calls -> Stages]
  /\ tool \in [Calls -> Tools \cup {NoTool}]
  /\ result \in [Calls -> Results]
  /\ answer \in [Calls -> Frame]
  /\ denied \in [Calls -> BOOLEAN]
  /\ pending \in [Ids -> Entry]
  /\ syncWait \in [Ids -> Calls \cup {NoCall}]
  /\ chan \in [Calls -> SUBSET Frame]
  /\ received \in [Servers -> SUBSET Calls]
  /\ answers \in Nat
  /\ reader \in [Servers -> [step : {"idle", "read", "found"},
                            frame : Frame, waiter : Calls \cup {NoCall}]]
  /\ guessed \subseteq Calls

(* A request that is answered is answered by a response with its own id,   *)
(* ingested under the request's own tool or replaced by an error because   *)
(* the engine panicked: whichever server sent it, however requests         *)
(* overlap, however often an id is answered and whenever the wait for      *)
(* another one ends.  The one way around is a server that guesses the id   *)
(* before the request is registered: deliverServerFrame then finds no      *)
(* pending call, does not ingest the frame, and finds the waiter after.    *)
AnswersExamined ==
  \A c \in Calls : result[c] = "answer" =>
    /\ answer[c].of = c
    /\ \/ answer[c].as = tool[c] /\ answer[c].body # "raw"
       \/ answer[c].as = NoTool /\ c \in guessed

(* The two maps hold exactly the requests under way and agree about them,  *)
(* so nothing is left behind by an error, a timeout or a double answer.    *)
NothingLeftBehind ==
  \A i \in Ids :
    /\ pending[i].call = syncWait[i]
    /\ syncWait[i] # NoCall <=>
         \E c \in Calls : Id[c] = i /\ stage[c] \in {"registered", "sent", "returning"}
    /\ syncWait[i] # NoCall => Id[syncWait[i]] = i

(* A request that finds fail-closed on and is overtaken by no clearing     *)
(* never reaches a server.                                                 *)
DeniedStaysOut ==
  [][\A c \in Calls, s \in Servers : c \in received'[s] \ received[s] => ~denied[c]]_vars

(* Nobody waits for good: every request comes to an end or to a write the  *)
(* server does not take, whatever else the server does, and every reader   *)
(* gets back to reading, however often an answer is repeated and whoever   *)
(* has stopped waiting for it.                                             *)
NobodyStuck ==
  /\ \A c \in Calls : InFlight(c) ~> ~InFlight(c) \/ stage[c] = "registered"
  /\ \A s \in Servers : reader[s].step # "idle" ~> reader[s].step = "idle"

(* What the steps above come to for each request (module Requests).  A     *)
(* request is forwarded once a server has it; an answer is one the engine  *)
(* has examined for this request, or a guess that it has not.              *)
Reached(c) == \E s \in Servers : c \in received[s]
GoodAnswer(c) == answer[c].of = c /\ answer[c].as = tool[c] /\ answer[c].body # "raw"
GuessedAnswer(c) == answer[c].of = c /\ answer[c].as = NoTool /\ c \in guessed
Status(c) ==
  IF stage[c] = "new" THEN "new"
  ELSE IF tool[c] = NoTool THEN "settled"
  ELSE IF result[c] = "none" THEN IF Reached(c) THEN "forwarded" ELSE "open"
  ELSE IF result[c] = "answer" THEN IF GoodAnswer(c) THEN "answered"
                                    ELSE IF GuessedAnswer(c) THEN "unvetted" ELSE "mistaken"
  ELSE IF Reached(c) THEN "failed" ELSE "refused"

Promise == INSTANCE Requests WITH status <- [c \in Calls |-> Status(c)],
                                  sealed <- {c \in Calls : denied[c]}

(* Dispatch keeps what Requests promises: a request is forwarded at most   *)
(* once and never after it was refused, nor while fail-closed has been on  *)
(* since it came in; it is answered at most once, after it was forwarded,  *)
(* with a response of its own id that the engine has seen, and with one    *)
(* the engine has not seen only if a server named the id too early.        *)
KeepsPromise == Promise!Spec

=============================================================================
