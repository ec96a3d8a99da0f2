----------------------------- MODULE ProxyProofs -----------------------------
(***************************************************************************)
(* Proofs about the proxy: the dispatcher of one session (module Dispatch) *)
(* and the manager of the sessions (module Sessions).                      *)
(***************************************************************************)
EXTENDS Dispatch, Sessions, TLAPS, SequenceTheorems, FiniteSetTheorems

(***************************************************************************)
(* The safety properties of dispatch for any number of requests, servers,  *)
(* tools and answers.  The argument: pending and syncWait change together, *)
(* under one lock, so a reader that finds a waiter for a response had      *)
(* found the pending call before, and the frame it holds was examined;     *)
(* unless the request was registered between the two look-ups (guessed).   *)
(***************************************************************************)

Waiting(c) == stage[c] \in {"registered", "sent", "returning"}
Entered(c) == stage[c] \in {"registered", "sent", "returning", "done"} /\ tool[c] \in DOMAIN Route
GoodFor(f, c) ==
  /\ f.of = c
  /\ \/ f.as = tool[c] /\ f.body # "raw"
     \/ f.as = NoTool /\ c \in guessed

(* A request under way has a server; what a server was sent went that way. *)
Routing ==
  /\ \A c \in Calls : stage[c] \notin {"new", "done"} => tool[c] \in DOMAIN Route
  /\ \A s \in Servers : \A c \in received[s] : Entered(c)

(* Denied means that fail-closed is on; a request past the check is not.   *)
Cleared ==
  \A c \in Calls :
    /\ denied[c] => failClosed
    /\ stage[c] \in {"open", "allowed", "registered"} => ~denied[c]

(* The maps have the entries of the requests that wait, and no others.     *)
Maps ==
  /\ \A c \in Calls : Waiting(c) =>
       pending[Id[c]] = [call |-> c, tool |-> tool[c]] /\ syncWait[Id[c]] = c
  /\ \A i \in Ids : (\A c \in Calls : Id[c] = i => ~Waiting(c)) =>
       pending[i] = NoEntry /\ syncWait[i] = NoCall

(* A frame a reader holds was attributed to the request it names, unless   *)
(* that request was not registered yet, or has returned.                   *)
Held(f) ==
  /\ f.of \in Calls
  /\ \/ f.as = tool[f.of] /\ Entered(f.of)
     \/ f.as = NoTool /\ (f.of \in guessed \/ stage[f.of] = "done")

Readers ==
  \A s \in Servers :
    /\ reader[s].step = "read" => Held(reader[s].frame)
    /\ reader[s].step = "found" /\ reader[s].waiter # NoCall =>
         Entered(reader[s].waiter) /\ GoodFor(reader[s].frame, reader[s].waiter)

Channels == \A c \in Calls : \A f \in chan[c] : Entered(c) /\ GoodFor(f, c)

Answered == \A c \in Calls : result[c] = "answer" => Entered(c) /\ GoodFor(answer[c], c)

IInv == TypeOK /\ Routing /\ Cleared /\ Maps /\ Readers /\ Channels /\ Answered
-----------------------------------------------------------------------------
(* The start satisfies the invariant.                                      *)
LEMMA InitIInv == Init => IInv
<1> SUFFICES ASSUME Init PROVE IInv
  OBVIOUS
<1>1. TypeOK
  BY DispatchAssumption DEF Init, TypeOK, Stages, Results, Frame, Nothing, Entry, NoEntry, Idle
<1>2. Routing /\ Cleared /\ Maps /\ Readers /\ Channels /\ Answered
  BY DEF Init, Routing, Cleared, Maps, Readers, Channels, Answered, Waiting, NoEntry, Idle
<1> QED
  BY <1>1, <1>2 DEF IInv

(* A request moves to stage st and no frame is touched.                    *)
Advance(c, st) ==
  /\ stage' = [stage EXCEPT ![c] = st]
  /\ Entered(c) => Entered(c)'
  /\ stage[c] = "done" => st = "done"
  /\ \A d \in Calls : d # c \/ stage[c] # "new" => tool'[d] = tool[d]
  /\ reader' = reader /\ chan' = chan /\ answer' = answer /\ guessed' = guessed
  /\ \A d \in Calls : result'[d] = "answer" => result[d] = "answer"

(* Such a step keeps the invariant if it keeps types, routes, the check    *)
(* and the maps.                                                           *)
LEMMA StageStep ==
  ASSUME IInv, NEW c \in Calls, NEW st \in Stages, Advance(c, st),
         TypeOK', Routing', Cleared', Maps'
  PROVE  IInv'
<1> USE DEF Advance
<1>1. \A d \in Calls : Entered(d) => Entered(d)' /\ tool'[d] = tool[d]
  BY DEF Entered, IInv, TypeOK
<1>2. \A d \in Calls : stage[d] = "done" => stage'[d] = "done"
  BY DEF IInv, TypeOK
<1>3. Readers'
  BY <1>1, <1>2 DEF IInv, TypeOK, Readers, Held, GoodFor, Entered
<1>4. Channels' /\ Answered'
  BY <1>1 DEF IInv, TypeOK, Channels, Answered, GoodFor
<1> QED
  BY <1>3, <1>4 DEF IInv
-----------------------------------------------------------------------------
(* The steps of a request.                                                 *)
LEMMA CallStepIInv == ASSUME IInv, NEW c \in Calls, CallStep(c) PROVE IInv'
<1> USE DispatchAssumption
<1>0. TypeOK /\ Routing /\ Cleared /\ Maps /\ Readers /\ Channels /\ Answered
  BY DEF IInv
<1>1. CASE CheckFailClosed(c)
  <2> USE DEF Stages, Results, waiting, servers
  <2>1. PICK st \in {"open", "done"}, r \in {"blocked", result[c]} :
          /\ stage' = [stage EXCEPT ![c] = st]
          /\ result' = [result EXCEPT ![c] = r]
          /\ st = "open" => ~failClosed
    BY <1>0, <1>1 DEF CheckFailClosed, Finish, TypeOK
  <2>2. UNCHANGED <<failClosed, tool, answer, denied, waiting, chan, servers>>
        /\ stage[c] = "routed"
    BY <1>1 DEF CheckFailClosed
  <2>3. TypeOK'
    BY <1>0, <2>1, <2>2 DEF TypeOK
  <2>4. Routing' /\ Cleared'
    BY <1>0, <2>1, <2>2 DEF TypeOK, Routing, Cleared, Entered
  <2>5. Maps'
    BY <1>0, <2>1, <2>2 DEF TypeOK, Maps, Waiting
  <2>6. Advance(c, st)
    BY <1>0, <2>1, <2>2 DEF Advance, TypeOK, Entered
  <2>7. QED
    BY <2>3, <2>4, <2>5, <2>6, StageStep
<1>2. CASE EvaluateRequest(c)
  <2> USE DEF Stages, Results, waiting, servers
  <2>1. PICK st \in {"allowed", "done"}, r \in {"blocked", result[c]} :
          /\ stage' = [stage EXCEPT ![c] = st]
          /\ result' = [result EXCEPT ![c] = r]
    BY <1>0, <1>2 DEF EvaluateRequest, Finish, TypeOK
  <2>2. UNCHANGED <<failClosed, tool, answer, denied, waiting, chan, servers>>
        /\ stage[c] = "open"
    BY <1>2 DEF EvaluateRequest
  <2>3. TypeOK'
    BY <1>0, <2>1, <2>2 DEF TypeOK
  <2>4. Routing' /\ Cleared'
    BY <1>0, <2>1, <2>2 DEF TypeOK, Routing, Cleared, Entered
  <2>5. Maps'
    BY <1>0, <2>1, <2>2 DEF TypeOK, Maps, Waiting
  <2>6. Advance(c, st)
    BY <1>0, <2>1, <2>2 DEF Advance, TypeOK, Entered
  <2>7. QED
    BY <2>3, <2>4, <2>5, <2>6, StageStep
<1>3. CASE Register(c)
  <2> USE <1>3 DEF Register
  <2>1. TypeOK'
    BY <1>0 DEF TypeOK, Stages, Results, waiting, servers, Entry, NoEntry
  <2>2. Routing' /\ Cleared'
    BY <1>0 DEF TypeOK, Routing, Cleared, Entered, Stages, Results, waiting, servers
  <2>3. Maps'
    BY <1>0 DEF TypeOK, Maps, Waiting, Stages, Results, waiting, servers, Entry, NoEntry
  <2>4. Advance(c, "registered")
    BY <1>0 DEF Advance, TypeOK, Entered, Stages, Results, waiting, servers
  <2>5. QED
    BY <2>1, <2>2, <2>3, <2>4, StageStep DEF Stages
<1>4. CASE Send(c)
  <2> USE <1>4 DEF Send
  <2>1. TypeOK'
    BY <1>0 DEF TypeOK, Stages, Results, waiting, servers
  <2>2. Routing' /\ Cleared'
    BY <1>0 DEF TypeOK, Routing, Cleared, Entered, Stages, Results, waiting, servers
  <2>3. Maps'
    BY <1>0 DEF TypeOK, Maps, Waiting, Stages, Results, waiting, servers
  <2>4. Advance(c, "sent")
    BY <1>0 DEF Advance, TypeOK, Entered, Stages, Results, waiting, servers
  <2>5. QED
    BY <2>1, <2>2, <2>3, <2>4, StageStep DEF Stages
<1>5. CASE SendFails(c)
  <2> USE <1>5 DEF SendFails
  <2>1. TypeOK'
    BY <1>0 DEF TypeOK, Stages, Results, waiting, servers
  <2>2. Routing' /\ Cleared'
    BY <1>0 DEF TypeOK, Routing, Cleared, Entered, Stages, Results, waiting, servers
  <2>3. Maps'
    BY <1>0 DEF TypeOK, Maps, Waiting, Stages, Results, waiting, servers
  <2>4. Advance(c, "returning")
    BY <1>0 DEF Advance, TypeOK, Entered, Stages, Results, waiting, servers
  <2>5. QED
    BY <2>1, <2>2, <2>3, <2>4, StageStep DEF Stages
<1>6. CASE Receive(c)
  <2> USE <1>6 DEF Receive, Stages, Results, waiting, servers
  <2>1. PICK f \in chan[c] : answer' = [answer EXCEPT ![c] = f]
    OBVIOUS
  <2>2. GoodFor(f, c) /\ Entered(c)
    BY <1>0, <2>1 DEF Channels
  <2>3. TypeOK'
    BY <1>0, <2>1 DEF TypeOK
  <2>4. \A d \in Calls : Entered(d) => Entered(d)'
    BY <1>0 DEF TypeOK, Entered
  <2>5. Routing' /\ Cleared'
    BY <1>0, <2>4 DEF TypeOK, Routing, Cleared
  <2>6. Maps'
    BY <1>0 DEF TypeOK, Maps, Waiting
  <2>7. Readers'
    BY <1>0, <2>4 DEF TypeOK, Readers, Held, GoodFor
  <2>8. Channels' /\ Answered'
    BY <1>0, <2>1, <2>2, <2>4 DEF TypeOK, Channels, Answered, GoodFor
  <2>9. QED
    BY <2>3, <2>5, <2>6, <2>7, <2>8 DEF IInv
<1>7. CASE Timeout(c)
  <2> USE <1>7 DEF Timeout
  <2>1. TypeOK'
    BY <1>0 DEF TypeOK, Stages, Results, waiting, servers
  <2>2. Routing' /\ Cleared'
    BY <1>0 DEF TypeOK, Routing, Cleared, Entered, Stages, Results, waiting, servers
  <2>3. Maps'
    BY <1>0 DEF TypeOK, Maps, Waiting, Stages, Results, waiting, servers
  <2>4. Advance(c, "returning")
    BY <1>0 DEF Advance, TypeOK, Entered, Stages, Results, waiting, servers
  <2>5. QED
    BY <2>1, <2>2, <2>3, <2>4, StageStep DEF Stages
<1>8. CASE Forget(c)
  <2> USE <1>8 DEF Forget
  <2>1. TypeOK'
    BY <1>0 DEF TypeOK, Stages, Results, waiting, servers, Entry, NoEntry
  <2>2. Routing' /\ Cleared'
    BY <1>0 DEF TypeOK, Routing, Cleared, Entered, Stages, Results, waiting, servers
  <2>3. Maps'
    BY <1>0 DEF TypeOK, Maps, Waiting, Stages, Results, waiting, servers, Entry, NoEntry
  <2>4. Advance(c, "done")
    BY <1>0 DEF Advance, TypeOK, Entered, Stages, Results, waiting, servers
  <2>5. QED
    BY <2>1, <2>2, <2>3, <2>4, StageStep DEF Stages
<1> QED
  BY <1>1, <1>2, <1>3, <1>4, <1>5, <1>6, <1>7, <1>8 DEF CallStep, Returns
-----------------------------------------------------------------------------
(* The steps of a reader change frames and no request.                     *)
LEMMA FramesStep ==
  ASSUME IInv, TypeOK', Readers', Channels',
         UNCHANGED <<failClosed, calls, waiting, received>>, guessed \subseteq guessed'
  PROVE  IInv'
BY DEF IInv, TypeOK, Routing, Cleared, Maps, Answered, Entered, Waiting, GoodFor, calls, waiting

(* Reading a response attributes it to the pending call.                   *)
LEMMA ReadResponseIInv ==
  ASSUME IInv, NEW s \in Servers, NEW c \in Calls, ReadResponse(s, c) PROVE IInv'
<1> USE DispatchAssumption
<1> DEFINE e == pending[Id[c]]
<1>0. TypeOK /\ Routing /\ Maps /\ Readers /\ Channels
  BY DEF IInv
<1>1. PICK f :
      /\ f = [of |-> c, as |-> e.tool, body |-> "raw"]
      /\ UNCHANGED <<failClosed, calls, waiting, chan, received>>
      /\ reader' = [reader EXCEPT ![s] = [step |-> "read", waiter |-> NoCall, frame |-> f]]
      /\ answers' = answers + 1
      /\ guessed' = IF BeforeRegister(c) THEN guessed \cup {c} ELSE guessed
  BY DEF ReadResponse
<1>2. UNCHANGED <<stage, tool>>
  BY <1>1 DEF calls
<1>f. f.of = c /\ f.as = e.tool /\ f \in Frame
  BY <1>0, <1>1 DEF TypeOK, Frame, Entry
<1>3. guessed \subseteq guessed' /\ guessed' \subseteq Calls
  BY <1>0, <1>1 DEF TypeOK, Frame, Entry
<1>4. Held(f)'
  <2>1. CASE Waiting(c)
    <3>1. e = [call |-> c, tool |-> tool[c]] /\ Entered(c)
      BY <1>0, <2>1 DEF Maps, Waiting, Routing, Entered
    <3>2. QED
      BY <1>2, <1>f, <3>1 DEF Held, Entered
  <2>2. CASE ~Waiting(c)
    <3>1. e.tool = NoTool
      BY <1>0, <2>2 DEF Maps, NoEntry
    <3>2. BeforeRegister(c) \/ stage[c] = "done"
      BY <1>0, <2>2 DEF TypeOK, Stages, Waiting, BeforeRegister
    <3>3. QED
      BY <1>1, <1>2, <1>f, <3>1, <3>2 DEF Held
  <2>3. QED
    BY <2>1, <2>2
<1> HIDE DEF e
<1>5. TypeOK'
  BY <1>0, <1>1, <1>f, <1>3 DEF TypeOK, calls, waiting
<1>6. \A g, d : GoodFor(g, d) => GoodFor(g, d)'
  BY <1>2, <1>3 DEF GoodFor
<1>7. Readers'
  <2>1. \A g : Held(g) => Held(g)'
    BY <1>2, <1>3 DEF Held, Entered
  <2>2. reader'[s].step = "read" /\ reader'[s].frame = f /\ \A t \in Servers \ {s} : reader'[t] = reader[t]
    BY <1>0, <1>1 DEF TypeOK
  <2>3. QED
    BY <1>0, <1>2, <1>4, <1>6, <2>1, <2>2 DEF Readers, Entered
<1>8. Channels'
  BY <1>0, <1>1, <1>2, <1>6 DEF Channels, Entered
<1> QED
  BY <1>1, <1>3, <1>5, <1>7, <1>8, FramesStep

(* The rest of delivery.                                                   *)
LEMMA ReaderStepIInv ==
  ASSUME IInv, NEW s \in Servers, ReaderStep(s) PROVE IInv'
<1> USE DispatchAssumption
<1>0. TypeOK /\ Routing /\ Maps /\ Readers /\ Channels
  BY DEF IInv
<1>1. CASE FindWaiter(s)
  <2> DEFINE g == reader[s].frame
  <2>1. PICK f \in Examined(g) :
          reader' = [reader EXCEPT ![s] =
            [step |-> "found", frame |-> f, waiter |-> syncWait[Id[f.of]]]]
    BY <1>1 DEF FindWaiter
  <2>2. UNCHANGED <<failClosed, calls, waiting, chan, received, answers, guessed>>
        /\ Held(g) /\ g \in Frame
    BY <1>0, <1>1 DEF FindWaiter, Readers, TypeOK
  <2>3. /\ f \in Frame /\ f.of = g.of /\ f.as = g.as
        /\ f.as # NoTool => f.body # "raw"
    <3>1. CASE g.as = NoTool
      BY <2>2, <3>1 DEF Examined
    <3>2. CASE g.as # NoTool
      <4>1. f = [g EXCEPT !.body = "examined"]
        BY <3>2 DEF Examined
      <4>2. QED
        BY <2>2, <4>1 DEF Frame
    <3>3. QED
      BY <3>1, <3>2
  <2> DEFINE o == f.of
             w == syncWait[Id[o]]
  <2>4. o \in Calls /\ Held(f)
    BY <2>2, <2>3 DEF Held
  <2>5. w \in {o, NoCall} /\ (w = o => Waiting(o))
    <3>1. Id[o] \in Ids /\ \A c \in Calls : Id[c] = Id[o] => c = o
      BY <2>4
    <3>2. CASE Waiting(o)
      BY <1>0, <2>4, <3>2 DEF Maps
    <3>3. CASE ~Waiting(o)
      BY <1>0, <2>4, <3>1, <3>3 DEF Maps
    <3>4. QED
      BY <3>2, <3>3
  <2>6. w # NoCall => Entered(w) /\ GoodFor(f, w)
    <3>1. SUFFICES ASSUME w = o, Waiting(o) PROVE Entered(o) /\ GoodFor(f, o)
      BY <2>5
    <3>2. Entered(o) /\ stage[o] # "done"
      BY <1>0, <2>4, <3>1 DEF Waiting, Routing, Entered
    <3>3. tool[o] # NoTool
      BY <3>2 DEF Entered
    <3>4. QED
      BY <2>3, <2>4, <3>2, <3>3 DEF Held, GoodFor
  <2>7. TypeOK'
    BY <1>0, <2>1, <2>2, <2>3, <2>4, <2>5 DEF TypeOK, calls, waiting
  <2>8. UNCHANGED <<stage, tool, guessed>>
    BY <2>2 DEF calls
  <2>9. /\ reader'[s].step = "found" /\ reader'[s].frame = f /\ reader'[s].waiter = w
        /\ \A t \in Servers \ {s} : reader'[t] = reader[t]
    BY <1>0, <2>1 DEF TypeOK
  <2> HIDE DEF g, o, w
  <2>10. Readers'
    BY <1>0, <2>6, <2>8, <2>9 DEF Readers, Held, GoodFor, Entered
  <2>11. Channels'
    BY <1>0, <2>2, <2>8 DEF Channels, GoodFor, Entered
  <2>12. QED
    BY <2>2, <2>7, <2>8, <2>10, <2>11, FramesStep
<1>2. CASE Hand(s)
  <2> DEFINE w == reader[s].waiter
             f == reader[s].frame
  <2>1. /\ chan' = chan \/ (w # NoCall /\ chan' = [chan EXCEPT ![w] = {f}])
        /\ reader' = [reader EXCEPT ![s] = Idle]
        /\ UNCHANGED <<failClosed, calls, waiting, received, answers, guessed>>
    BY <1>2 DEF Hand
  <2>2. w # NoCall => w \in Calls /\ Entered(w) /\ GoodFor(f, w)
    BY <1>0, <1>2 DEF Hand, Readers, TypeOK
  <2>3. f \in Frame
    BY <1>0 DEF TypeOK
  <2>4. TypeOK'
    <3>1. chan' \in [Calls -> SUBSET Frame]
      BY <1>0, <2>1, <2>2, <2>3 DEF TypeOK
    <3>2. Idle \in [step : {"idle", "read", "found"}, frame : Frame, waiter : Calls \cup {NoCall}]
      BY DEF Idle, Nothing, Frame
    <3>3. QED
      BY <1>0, <2>1, <2>3, <3>1, <3>2 DEF TypeOK, calls, waiting
  <2>5. Readers'
    BY <1>0, <2>1 DEF TypeOK, Readers, Held, GoodFor, Entered, Idle, calls
  <2>6. Channels'
    BY <1>0, <2>1, <2>2 DEF TypeOK, Channels, GoodFor, Entered, calls
  <2>7. QED
    BY <2>1, <2>4, <2>5, <2>6, FramesStep
<1> QED
  BY <1>1, <1>2 DEF ReaderStep
-----------------------------------------------------------------------------
(* The invariant is inductive.                                             *)
LEMMA NextIInv == IInv /\ [Next]_vars => IInv'
<1> SUFFICES ASSUME IInv, [Next]_vars PROVE IInv'
  OBVIOUS
<1> USE DispatchAssumption
<1>0. TypeOK /\ Routing /\ Cleared /\ Maps
  BY DEF IInv
<1>1. ASSUME NEW c \in Calls, HandleLocally(c) PROVE IInv'
  <2> USE <1>1 DEF HandleLocally, Finish, Stages, Results, waiting, servers
  <2>1. TypeOK'
    BY <1>0 DEF TypeOK
  <2>2. Routing' /\ Cleared' /\ Maps'
    BY <1>0 DEF TypeOK, Routing, Cleared, Maps, Waiting, Entered
  <2>3. Advance(c, "done")
    BY <1>0 DEF Advance, TypeOK, Entered
  <2>4. QED
    BY <2>1, <2>2, <2>3, StageStep
<1>2. ASSUME NEW c \in Calls, NEW t \in Tools, DispatchToolsCall(c, t) PROVE IInv'
  <2> USE <1>2 DEF DispatchToolsCall, Stages, waiting, servers
  <2>1. TypeOK'
    BY <1>0 DEF TypeOK
  <2>2. Routing' /\ Cleared' /\ Maps'
    BY <1>0 DEF TypeOK, Routing, Cleared, Maps, Waiting, Entered
  <2>3. Advance(c, "routed")
    BY <1>0 DEF Advance, TypeOK, Entered
  <2>4. QED
    BY <2>1, <2>2, <2>3, StageStep
<1>3. ASSUME NEW active \in BOOLEAN, SetFailClosed(active) PROVE IInv'
  <2> USE <1>3 DEF SetFailClosed, waiting, servers
  <2>1. TypeOK' /\ Cleared'
    BY <1>0 DEF TypeOK, Cleared
  <2>2. QED
    BY <2>1 DEF IInv, Routing, Maps, Readers, Channels, Answered, Held, Entered, Waiting, GoodFor
<1>4. CASE UNCHANGED vars
  BY <1>4 DEF IInv, TypeOK, Routing, Cleared, Maps, Readers, Channels, Answered, Held, Entered,
              Waiting, GoodFor, vars
<1> QED
  BY <1>1, <1>2, <1>3, <1>4, CallStepIInv, ReaderStepIInv, ReadResponseIInv DEF Next

(* The inductive invariant holds throughout.                               *)
THEOREM Invariance == Spec => []IInv
BY InitIInv, NextIInv, PTL DEF Spec

(* Type correctness.                                                       *)
THEOREM TypeCorrect == Spec => []TypeOK
<1>1. IInv => TypeOK
  BY DEF IInv
<1> QED
  BY <1>1, Invariance, PTL

(* A request gets a response of its own id that was examined, or that came *)
(* before the request was registered (deliverServerFrame).                 *)
THEOREM AnswersAreExamined == Spec => []AnswersExamined
<1>1. IInv => AnswersExamined
  BY DEF IInv, Answered, AnswersExamined, GoodFor
<1> QED
  BY <1>1, Invariance, PTL

(* The deferred cleanup of dispatchToolsCall leaves nothing in the maps.   *)
THEOREM NothingIsLeftBehind == Spec => []NothingLeftBehind
<1>1. IInv => NothingLeftBehind
  <2> SUFFICES ASSUME IInv, NEW i \in Ids
               PROVE /\ pending[i].call = syncWait[i]
                     /\ syncWait[i] # NoCall <=> \E c \in Calls : Id[c] = i /\ Waiting(c)
                     /\ syncWait[i] # NoCall => Id[syncWait[i]] = i
    BY DEF NothingLeftBehind, Waiting
  <2>1. CASE \E c \in Calls : Id[c] = i /\ Waiting(c)
    <3>1. PICK c \in Calls : Id[c] = i /\ Waiting(c)
      BY <2>1
    <3>2. pending[i] = [call |-> c, tool |-> tool[c]] /\ syncWait[i] = c
      BY <3>1 DEF IInv, Maps
    <3>3. QED
      BY <3>1, <3>2, DispatchAssumption
  <2>2. CASE ~\E c \in Calls : Id[c] = i /\ Waiting(c)
    BY <2>2 DEF IInv, Maps, NoEntry
  <2>3. QED
    BY <2>1, <2>2
<1> QED
  BY <1>1, Invariance, PTL

(* What fail-closed denies is not forwarded (dispatchToolsCall).           *)
THEOREM DeniedIsNotForwarded == Spec => DeniedStaysOut
<1>1. IInv /\ [Next]_vars =>
        [\A c \in Calls, s \in Servers : c \in received'[s] \ received[s] => ~denied[c]]_vars
  <2> SUFFICES ASSUME IInv, Next, NEW c \in Calls, NEW s \in Servers,
                      c \in received'[s] \ received[s]
               PROVE ~denied[c]
    OBVIOUS
  <2>1. \E d \in Calls : Send(d)
    BY DEF Next, CallStep, ReaderStep, Returns, HandleLocally, DispatchToolsCall, CheckFailClosed,
           EvaluateRequest, Register, SendFails, Receive, Timeout, Forget, ReadResponse,
           FindWaiter, Hand, SetFailClosed, servers
  <2>2. PICK d \in Calls : Send(d)
    BY <2>1
  <2>3. c = d
    BY <2>2 DEF Send, IInv, TypeOK
  <2>4. QED
    BY <2>2, <2>3 DEF Send, IInv, Cleared
<1> QED
  BY <1>1, Invariance, PTL DEF Spec, DeniedStaysOut
-----------------------------------------------------------------------------
(* How far a request has come shows in its tool, its result and who has it. *)
Course ==
  \A c \in Calls :
    /\ stage[c] = "new" => tool[c] = NoTool /\ ~denied[c]
    /\ stage[c] \notin {"returning", "done"} => result[c] = "none"
    /\ stage[c] \in {"returning", "done"} => result[c] # "none"
    /\ stage[c] \in {"new", "routed", "open", "allowed", "registered"} => ~Reached(c)
    /\ stage[c] = "sent" => Reached(c)

(* Nothing happens to any request but one.                                 *)
Alone(c) ==
  \A d \in Calls \ {c} :
    /\ stage'[d] = stage[d] /\ tool'[d] = tool[d] /\ result'[d] = result[d]
    /\ answer'[d] = answer[d] /\ (Reached(d)' <=> Reached(d))

CallActions == \E c \in Calls : HandleLocally(c) \/ CallStep(c) \/ \E t \in Tools : DispatchToolsCall(c, t)

(* Readers and the breaker leave the requests alone.                       *)
LEMMA OthersLeaveCalls ==
  ASSUME [Next]_vars, ~CallActions
  PROVE  /\ UNCHANGED <<stage, tool, result, answer, received>>
         /\ \/ UNCHANGED <<denied, guessed>>
            \/ UNCHANGED guessed /\ denied' = [c \in Calls |-> FALSE]
            \/ UNCHANGED guessed /\ denied' = [c \in Calls |-> denied[c] /\ TRUE]
            \/ \E c \in Calls : BeforeRegister(c) /\ guessed' = guessed \cup {c} /\ UNCHANGED denied
<1>1. ASSUME NEW s \in Servers, ReaderStep(s)
      PROVE  UNCHANGED <<stage, tool, result, answer, received, denied, guessed>>
  BY <1>1 DEF ReaderStep, FindWaiter, Hand, calls
<1>2. ASSUME NEW s \in Servers, NEW c \in Calls, ReadResponse(s, c)
      PROVE  /\ UNCHANGED <<stage, tool, result, answer, received, denied>>
             /\ UNCHANGED guessed \/ (BeforeRegister(c) /\ guessed' = guessed \cup {c})
  BY <1>2 DEF ReadResponse, calls
<1>3. ASSUME NEW active \in BOOLEAN, SetFailClosed(active)
      PROVE  /\ UNCHANGED <<stage, tool, result, answer, received, guessed>>
             /\ \/ denied' = [c \in Calls |-> FALSE]
                \/ denied' = [c \in Calls |-> denied[c] /\ TRUE]
  <2>1. CASE active
    BY <1>3, <2>1 DEF SetFailClosed, servers
  <2>2. CASE ~active
    BY <1>3, <2>2 DEF SetFailClosed, servers
  <2>3. QED
    BY <2>1, <2>2
<1>4. CASE UNCHANGED vars
  BY <1>4 DEF vars
<1> QED
  BY <1>1, <1>2, <1>3, <1>4 DEF Next, CallActions

(* A request's own steps guess nothing.                                    *)
LEMMA CallsLeaveGuesses == CallActions => guessed' = guessed
BY DEF CallActions, HandleLocally, DispatchToolsCall, CallStep, Returns, CheckFailClosed,
       EvaluateRequest, Register, Send, SendFails, Receive, Timeout, Forget, servers

(* A request that is sent reaches its server, and no other request does.   *)
LEMMA SendReaches ==
  ASSUME TypeOK, Routing, NEW c \in Calls, Send(c), NEW d \in Calls
  PROVE  Reached(d)' <=> Reached(d) \/ d = c
<1> DEFINE s == Route[tool[c]]
<1>1. s \in Servers
  BY DispatchAssumption DEF Routing, Send
<1>2. received' = [received EXCEPT ![s] = @ \cup {c}] /\ received \in [Servers -> SUBSET Calls]
  BY DEF Send, TypeOK
<1> HIDE DEF s
<1>3. \A t \in Servers : d \in received'[t] <=> d \in received[t] \/ (t = s /\ d = c)
  BY <1>1, <1>2
<1> QED
  BY <1>1, <1>3 DEF Reached

(* The course of a request is kept by every step.                          *)
LEMMA NextCourse == TypeOK /\ Routing /\ Course /\ [Next]_vars => Course'
<1> SUFFICES ASSUME TypeOK, Routing, Course, [Next]_vars PROVE Course'
  OBVIOUS
<1>1. CASE ~CallActions
  BY <1>1, OthersLeaveCalls DEF Course, Reached
<1>2. ASSUME NEW c \in Calls, HandleLocally(c) PROVE Course'
  BY <1>2 DEF HandleLocally, Finish, Course, Reached, TypeOK, servers
<1>3. ASSUME NEW c \in Calls, NEW t \in Tools, DispatchToolsCall(c, t) PROVE Course'
  BY <1>3 DEF DispatchToolsCall, Course, Reached, TypeOK, servers
<1>4. ASSUME NEW c \in Calls, CallStep(c) PROVE Course'
  <2>1. CASE CheckFailClosed(c)
    BY <2>1 DEF CheckFailClosed, Finish, Course, Reached, TypeOK, servers
  <2>2. CASE EvaluateRequest(c)
    BY <2>2 DEF EvaluateRequest, Finish, Course, Reached, TypeOK, servers
  <2>3. CASE Register(c)
    BY <2>3 DEF Register, Course, Reached, TypeOK, servers
  <2>4. CASE Send(c)
    BY <2>4, SendReaches DEF Send, Course, TypeOK
  <2>5. CASE SendFails(c)
    BY <2>5 DEF SendFails, Course, Reached, TypeOK, servers
  <2>6. CASE Receive(c)
    BY <2>6 DEF Receive, Course, Reached, TypeOK, servers
  <2>7. CASE Timeout(c)
    BY <2>7 DEF Timeout, Course, Reached, TypeOK, servers
  <2>8. CASE Forget(c)
    BY <2>8 DEF Forget, Course, Reached, TypeOK, servers
  <2>9. QED
    BY <1>4, <2>1, <2>2, <2>3, <2>4, <2>5, <2>6, <2>7, <2>8 DEF CallStep, Returns
<1> QED
  BY <1>1, <1>2, <1>3, <1>4 DEF CallActions

(* Each step of dispatch is a step of Requests, or none.                   *)
LEMMA StepsKeepPromise ==
  IInv /\ IInv' /\ Course /\ Course' /\ [Next]_vars => [Promise!Next]_(Promise!vars)
<1> SUFFICES ASSUME IInv, IInv', Course, Course', [Next]_vars
             PROVE  [Promise!Next]_(Promise!vars)
  OBVIOUS
<1> DEFINE st == [c \in Calls |-> Status(c)]
           se == {c \in Calls : denied[c]}
<1>0. TypeOK /\ Routing /\ Cleared /\ TypeOK' /\ Routing'
  BY DEF IInv
<1>s. ASSUME st' = st, se' = se, guessed' = guessed PROVE [Promise!Next]_(Promise!vars)
  BY <1>s DEF Promise!vars
<1>m. ASSUME NEW c \in Calls, NEW x, Status(c)' = x,
             \A d \in Calls \ {c} : Status(d)' = Status(d)
      PROVE  st' = [st EXCEPT ![c] = x]
  BY <1>m
<1>1. CASE ~CallActions
  <2>0. UNCHANGED <<stage, tool, result, answer, received>>
    BY <1>1, OthersLeaveCalls
  <2>1. ASSUME guessed' = guessed PROVE st' = st
    <3>1. \A c \in Calls : /\ Reached(c)' = Reached(c)
                           /\ GoodAnswer(c)' = GoodAnswer(c)
                           /\ GuessedAnswer(c)' = GuessedAnswer(c)
      BY <2>0, <2>1 DEF Reached, GoodAnswer, GuessedAnswer
    <3>2. \A c \in Calls : Status(c)' = Status(c)
      BY <2>0, <3>1 DEF Status
    <3>3. QED
      BY <3>2
  <2>2. CASE guessed' = guessed /\ se' = se
    BY <2>1, <2>2, <1>s
  <2>3. CASE guessed' = guessed /\ se' = {}
    <3>1. Promise!Unseal
      BY <2>1, <2>3 DEF Promise!Unseal
    <3>2. QED
      BY <3>1 DEF Promise!Next
  <2>4. ASSUME NEW c \in Calls, BeforeRegister(c), guessed' = guessed \cup {c}, denied' = denied
        PROVE  [Promise!Next]_(Promise!vars)
    <3>1. \A d \in Calls : /\ Reached(d)' = Reached(d)
                           /\ GoodAnswer(d)' = GoodAnswer(d)
                           /\ d # c => GuessedAnswer(d)' = GuessedAnswer(d)
      BY <2>0, <2>4 DEF Reached, GoodAnswer, GuessedAnswer
    <3>2. stage[c] = "new" \/ (tool[c] # NoTool /\ result[c] = "none" /\ ~Reached(c))
      BY <1>0, <2>4, DispatchAssumption DEF BeforeRegister, Course, Routing
    <3>3. Status(c) \in {"new", "open"} /\ Status(c)' = Status(c)
      BY <2>0, <3>1, <3>2 DEF Status
    <3>4. \A d \in Calls : Status(d)' = Status(d)
      BY <2>0, <3>1, <3>3 DEF Status
    <3>5. st' = st /\ se' = se
      BY <2>4, <3>4
    <3>6. Promise!Guess(c)
      BY <2>4, <3>3, <3>5 DEF Promise!Guess
    <3>7. QED
      BY <3>6 DEF Promise!Next
  <2>5. QED
    BY <1>1, OthersLeaveCalls, <2>2, <2>3, <2>4
<1>f. ASSUME NEW c \in Calls, Alone(c), guessed' = guessed
      PROVE \A d \in Calls \ {c} : Status(d)' = Status(d)
  BY <1>f DEF Alone, Status, GoodAnswer, GuessedAnswer
<1>2. ASSUME NEW c \in Calls, HandleLocally(c) PROVE [Promise!Next]_(Promise!vars)
  <2>g. guessed' = guessed
    BY <1>2, CallsLeaveGuesses DEF CallActions, CallStep, Returns
  <2>1. Alone(c) /\ Status(c) = "new" /\ Status(c)' = "settled" /\ se' = se
    BY <1>0, <1>2 DEF HandleLocally, Finish, Alone, Reached, Status, Course, TypeOK, servers
  <2>2. Promise!AnswerHere(c)
    BY <2>1, <2>g, <1>f, <1>m DEF Promise!AnswerHere, Promise!Move
  <2>3. QED
    BY <2>2 DEF Promise!Next
<1>3. ASSUME NEW c \in Calls, NEW t \in Tools, DispatchToolsCall(c, t)
      PROVE  [Promise!Next]_(Promise!vars)
  <2>g. guessed' = guessed
    BY <1>3, CallsLeaveGuesses DEF CallActions, CallStep, Returns
  <2>1. Alone(c) /\ Status(c) = "new" /\ Status(c)' = "open"
    BY <1>0, <1>3, DispatchAssumption
       DEF DispatchToolsCall, Alone, Reached, Status, Course, TypeOK, servers
  <2>2. ~denied[c]
    BY <1>3 DEF DispatchToolsCall, Course
  <2>3. se' = IF failClosed THEN se \cup {c} ELSE se
    BY <1>0, <1>3, <2>2 DEF DispatchToolsCall, TypeOK
  <2>4. CASE failClosed
    <3>1. Promise!Open(c, TRUE)
      BY <2>1, <2>3, <2>4, <2>g, <1>f, <1>m DEF Promise!Open, Promise!Move
    <3>2. QED
      BY <3>1 DEF Promise!Next
  <2>5. CASE ~failClosed
    <3>1. Promise!Open(c, FALSE)
      BY <2>1, <2>3, <2>5, <2>g, <1>f, <1>m DEF Promise!Open, Promise!Move
    <3>2. QED
      BY <3>1 DEF Promise!Next
  <2>6. QED
    BY <2>4, <2>5
<1>4. ASSUME NEW c \in Calls, CheckFailClosed(c) \/ EvaluateRequest(c) \/ SendFails(c)
      PROVE  [Promise!Next]_(Promise!vars)
  <2>g. guessed' = guessed
    BY <1>4, CallsLeaveGuesses DEF CallActions, CallStep, Returns
  <2>1. Alone(c) /\ Status(c) = "open" /\ se' = se
    BY <1>0, <1>4, DispatchAssumption
       DEF CheckFailClosed, EvaluateRequest, SendFails, Finish, Alone, Reached, Status, Course,
           Routing, TypeOK, servers
  <2>2. Status(c)' \in {"open", "refused"}
    BY <1>0, <1>4, DispatchAssumption
       DEF CheckFailClosed, EvaluateRequest, SendFails, Finish, Reached, Status, Course, Routing,
           TypeOK, servers
  <2>3. CASE Status(c)' = "open"
    <3>1. st' = st
      BY <2>1, <2>3, <2>g, <1>f
    <3>2. QED
      BY <3>1, <2>1, <2>g, <1>s
  <2>4. CASE Status(c)' = "refused"
    <3>1. Promise!Refuse(c)
      BY <2>1, <2>4, <2>g, <1>f, <1>m DEF Promise!Refuse, Promise!Move
    <3>2. QED
      BY <3>1 DEF Promise!Next
  <2>5. QED
    BY <2>2, <2>3, <2>4
<1>5. ASSUME NEW c \in Calls, Register(c) \/ Forget(c) PROVE [Promise!Next]_(Promise!vars)
  <2>g. guessed' = guessed
    BY <1>5, CallsLeaveGuesses DEF CallActions, CallStep, Returns
  <2>1. Alone(c) /\ Status(c)' = Status(c) /\ se' = se
    BY <1>0, <1>5 DEF Register, Forget, Alone, Reached, Status, GoodAnswer, GuessedAnswer, Course, TypeOK, servers
  <2>2. st' = st
    BY <2>1, <2>g, <1>f
  <2>3. QED
    BY <2>1, <2>2, <2>g, <1>s
<1>6. ASSUME NEW c \in Calls, Send(c) PROVE [Promise!Next]_(Promise!vars)
  <2>g. guessed' = guessed
    BY <1>6, CallsLeaveGuesses DEF CallActions, CallStep, Returns
  <2>1. Alone(c)
    BY <1>0, <1>6, SendReaches DEF Send, Alone, TypeOK
  <2>2. Status(c) = "open" /\ Status(c)' = "forwarded" /\ se' = se
    BY <1>0, <1>6, SendReaches, DispatchAssumption DEF Send, Status, Course, Routing, TypeOK
  <2>3. c \notin se
    BY <1>0, <1>6 DEF Send, Cleared
  <2>4. Promise!Forward(c)
    BY <2>1, <2>2, <2>3, <2>g, <1>f, <1>m DEF Promise!Forward, Promise!Move
  <2>5. QED
    BY <2>4 DEF Promise!Next
<1>7. ASSUME NEW c \in Calls, Receive(c) PROVE [Promise!Next]_(Promise!vars)
  <2>g. guessed' = guessed
    BY <1>7, CallsLeaveGuesses DEF CallActions, CallStep, Returns
  <2>1. Alone(c) /\ Status(c) = "forwarded" /\ se' = se
    BY <1>0, <1>7, DispatchAssumption, SMTT(30)
       DEF Receive, Alone, Reached, Status, Course, Routing, TypeOK, servers
  <2>2. result'[c] = "answer" /\ tool'[c] # NoTool /\ stage'[c] = "returning"
    BY <1>0, <1>7, DispatchAssumption DEF Receive, Routing, TypeOK
  <2>3. GoodAnswer(c)' \/ GuessedAnswer(c)'
    BY <2>2 DEF IInv, Answered, GoodFor, GoodAnswer, GuessedAnswer
  <2>4. CASE GoodAnswer(c)'
    <3>1. Status(c)' = "answered"
      BY <2>2, <2>4 DEF Status
    <3>2. Promise!Answer(c)
      BY <2>1, <3>1, <2>g, <1>f, <1>m DEF Promise!Answer, Promise!Move
    <3>3. QED
      BY <3>2 DEF Promise!Next
  <2>5. CASE ~GoodAnswer(c)' /\ GuessedAnswer(c)'
    <3>1. Status(c)' = "unvetted" /\ c \in guessed
      BY <2>2, <2>5, <2>g DEF Status, GuessedAnswer
    <3>2. Promise!Mislead(c)
      BY <2>1, <3>1, <2>g, <1>f, <1>m DEF Promise!Mislead, Promise!Move
    <3>3. QED
      BY <3>2 DEF Promise!Next
  <2>6. QED
    BY <2>3, <2>4, <2>5
<1>8. ASSUME NEW c \in Calls, Timeout(c) PROVE [Promise!Next]_(Promise!vars)
  <2>g. guessed' = guessed
    BY <1>8, CallsLeaveGuesses DEF CallActions, CallStep, Returns
  <2>0. Alone(c) /\ Reached(c) /\ Reached(c)' /\ se' = se
    BY <1>0, <1>8 DEF Timeout, Alone, Reached, Course, TypeOK, servers
  <2>1. Status(c) = "forwarded" /\ Status(c)' = "failed"
    <3>1. stage[c] = "sent" /\ result[c] = "none" /\ tool[c] # NoTool
      BY <1>0, <1>8, DispatchAssumption DEF Timeout, Course, Routing
    <3>2. stage'[c] = "returning" /\ result'[c] = "error" /\ tool'[c] = tool[c]
      BY <1>0, <1>8 DEF Timeout, TypeOK
    <3>3. QED
      BY <2>0, <3>1, <3>2 DEF Status
  <2>2. Promise!Fail(c)
    BY <2>0, <2>1, <2>g, <1>f, <1>m DEF Promise!Fail, Promise!Move
  <2>3. QED
    BY <2>2 DEF Promise!Next
<1> QED
  BY <1>1, <1>2, <1>3, <1>4, <1>5, <1>6, <1>7, <1>8 DEF CallActions, CallStep, Returns

(* Dispatch implements Requests.                                           *)
THEOREM DispatchKeepsPromise == Spec => KeepsPromise
<1>1. Init => Course /\ Promise!Init
  <2> SUFFICES ASSUME Init PROVE Course /\ Promise!Init
    OBVIOUS
  <2>1. Course
    BY DEF Init, Course, Reached
  <2>2. guessed = {} /\ \A c \in Calls : Status(c) = "new" /\ ~denied[c]
    BY DEF Init, Status
  <2>3. QED
    BY <2>1, <2>2 DEF Promise!Init
<1>2. IInv /\ Course /\ [Next]_vars => Course'
  BY NextCourse DEF IInv
<1> QED
  BY <1>1, <1>2, Invariance, NextIInv, StepsKeepPromise, PTL DEF Spec, KeepsPromise, Promise!Spec
-----------------------------------------------------------------------------
(***************************************************************************)
(* The session manager.                                                    *)
(***************************************************************************)

(* The servers of s are running: Create has not given up, and Cleanup has  *)
(* not stopped them.                                                       *)
Running(s) == step[s] \in {"starting", "spawned", "failing"} \/ s \in runtimes \/ s = sweep.session

KeysOf(s) == {registered[s][i] : i \in DOMAIN registered[s]}

(* The key of the process that has the number now.                         *)
KeyNow(p) == [pid |-> p, start |-> starts[p]]

Typed ==
  /\ step \in [SessionIDs -> Steps]
  /\ registered \in [SessionIDs -> Seq(ProcessKey)]
  /\ runtimes \subseteq SessionIDs /\ mcpSessions \subseteq SessionIDs
  /\ byPID = [p \in PIDs |-> byPID[p]]
  /\ holder \in [PIDs -> SessionIDs \cup {None}]
  /\ starts \in [PIDs -> Nat]
  /\ sweep \in [todo : SUBSET SessionIDs, session : SessionIDs \cup {None},
                at : {"idle", "removed", "unregistered", "unwatched"}]

(* Where Create stands and where the sweeper stands.  A session is filed   *)
(* after its servers have started; from then on it is filed, being cleaned *)
(* up, or gone, and if Create has not returned by then it was overtaken.   *)
Placed ==
  /\ \A s \in SessionIDs : step[s] \in {"new", "refused"} => registered[s] = <<>>
  /\ \A s \in runtimes \cup ({sweep.session} \ {None}) : step[s] \in {"listed", "watched", "created"}
  /\ sweep.todo \subseteq runtimes /\ sweep.session \notin runtimes
  /\ sweep.at = "idle" <=> sweep.session = None
  /\ \A s \in SessionIDs : step[s] \in {"listed", "watched"} => s \in runtimes \cup overtaken
  /\ \A s \in mcpSessions : step[s] = "created" /\ s \in runtimes \cup overtaken

(* A running session holds the numbers of its servers, and a number is     *)
(* held by a running session that registered the process that has it.      *)
Owned ==
  /\ \A s \in SessionIDs : Running(s) => \A p \in PidsOf(s) : holder[p] = s
  /\ \A p \in PIDs, s \in SessionIDs : holder[p] = s => Running(s) /\ KeyNow(p) \in KeysOf(s)

(* What a number is registered as, unless a failed Create left something   *)
(* behind: nothing, or the process that has it, with its session.  Its     *)
(* registration goes when its session is cleaned up and before it is       *)
(* stopped.                                                                *)
Unregistered(s) == s = sweep.session /\ sweep.at \in {"unregistered", "unwatched"}

NotFiled(p) == byPID[p] = <<>> /\ {e \in entries : e.key.pid = p} = {}
FiledFor(p, s) ==
  /\ byPID[p] = <<KeyNow(p)>>
  /\ {e \in entries : e.key.pid = p} = {[key |-> KeyNow(p), session |-> s]}

Filed ==
  \A p \in PIDs \ orphaned :
    /\ holder[p] = None => NotFiled(p)
    /\ \A s \in SessionIDs :
         holder[p] = s => IF Unregistered(s) THEN NotFiled(p) ELSE FiledFor(p, s)

(* What the sensor watches, step by step of the cleanup.                   *)
Watched ==
  /\ \A s \in runtimes : step[s] \in {"watched", "created"} => PidsOf(s) \subseteq watched
  /\ \A p \in watched :
       \E s \in runtimes \cup overtaken
                  \cup (IF sweep.at = "unwatched" THEN {} ELSE {sweep.session} \ {None}) :
          s \in SessionIDs /\ p \in PidsOf(s)

SInv == Typed /\ Placed /\ Owned /\ Filed /\ Watched
-----------------------------------------------------------------------------
(* The numbers of a session are those of its keys.                         *)
LEMMA PidsOfKeys ==
  ASSUME Typed, NEW s \in SessionIDs
  PROVE  /\ KeysOf(s) \subseteq ProcessKey
         /\ PidsOf(s) = {k.pid : k \in KeysOf(s)}
         /\ PidsOf(s) \subseteq PIDs
<1>1. registered[s] \in Seq(ProcessKey)  BY DEF Typed
<1>2. KeysOf(s) \subseteq ProcessKey  BY <1>1, ElementOfSeq, LenProperties DEF KeysOf
<1>3. PidsOf(s) = {k.pid : k \in KeysOf(s)}  BY DEF PidsOf, KeysOf
<1>4. \A k \in ProcessKey : k.pid \in PIDs  BY DEF ProcessKey
<1>. QED  BY <1>2, <1>3, <1>4

(* Starting a server adds its key to those of its session.                 *)
LEMMA KeysGrow ==
  ASSUME Typed, NEW s \in SessionIDs, NEW key \in ProcessKey,
         registered' = [registered EXCEPT ![s] = Append(@, key)]
  PROVE  /\ registered' \in [SessionIDs -> Seq(ProcessKey)]
         /\ KeysOf(s)' = KeysOf(s) \cup {key} /\ PidsOf(s)' = PidsOf(s) \cup {key.pid}
         /\ \A t \in SessionIDs \ {s} : KeysOf(t)' = KeysOf(t) /\ PidsOf(t)' = PidsOf(t)
<1> DEFINE q == registered[s]
<1>1. q \in Seq(ProcessKey)  BY DEF Typed
<1> DEFINE r == Append(q, key)
<1>2. /\ r \in Seq(ProcessKey) /\ DOMAIN r = DOMAIN q \cup {Len(q) + 1}
      /\ \A i \in DOMAIN q : r[i] = q[i]
      /\ r[Len(q) + 1] = key
  BY <1>1, AppendProperties, LenProperties
<1>3. registered'[s] = r /\ \A t \in SessionIDs \ {s} : registered'[t] = registered[t]
  BY DEF Typed
<1>4. registered' \in [SessionIDs -> Seq(ProcessKey)]
  <2>1. registered' = [t \in SessionIDs |-> IF t = s THEN r ELSE registered[t]]  BY DEF Typed
  <2> HIDE DEF r
  <2>. QED  BY <1>2, <2>1 DEF Typed
<1> HIDE DEF r
<1>5. {r[i] : i \in DOMAIN r} = {q[i] : i \in DOMAIN q} \cup {key}  BY <1>2
<1>6. {r[i].pid : i \in DOMAIN r} = {q[i].pid : i \in DOMAIN q} \cup {key.pid}  BY <1>2
<1>7. KeysOf(s)' = KeysOf(s) \cup {key}  BY <1>3, <1>5 DEF KeysOf
<1>8. PidsOf(s)' = PidsOf(s) \cup {key.pid}  BY <1>3, <1>6 DEF PidsOf
<1>9. ASSUME NEW t \in SessionIDs \ {s} PROVE KeysOf(t)' = KeysOf(t) /\ PidsOf(t)' = PidsOf(t)
  BY <1>3 DEF KeysOf, PidsOf
<1>. QED  BY <1>4, <1>7, <1>8, <1>9

(* What Without returns for the lists of the registry.                     *)
LEMMA WithoutNone == \A gone : Without(<<>>, gone) = <<>>
<1> TAKE gone
<1>1. {i \in DOMAIN <<>> : <<>>[i] \notin gone} = {}  OBVIOUS
<1>2. 1..Cardinality({}) = {}  BY FS_EmptySet
<1>3. Subsequence(<<>>, {}) = [k \in {} |-> <<>>[CHOOSE i \in {} : Cardinality({j \in {} : j < i}) = k - 1]]
  BY <1>2 DEF Subsequence
<1>. QED  BY <1>1, <1>3 DEF Without

LEMMA WithoutOne ==
  \A k, gone : Without(<<k>>, gone) = IF k \in gone THEN <<>> ELSE <<k>>
<1> TAKE k, gone
<1> DEFINE places == {i \in DOMAIN <<k>> : <<k>>[i] \notin gone}
<1>1. CASE k \in gone
  <2>1. places = {}  BY <1>1
  <2>2. 1..Cardinality({}) = {}  BY FS_EmptySet
  <2>3. Subsequence(<<k>>, {}) = <<>>  BY <2>2 DEF Subsequence
  <2>. QED  BY <1>1, <2>1, <2>3 DEF Without
<1>2. CASE k \notin gone
  <2>1. places = {1}  BY <1>2
  <2>2. Cardinality({1}) = 1  BY FS_Singleton
  <2>3. {j \in {1} : j < 1} = {}  OBVIOUS
  <2>4. Cardinality({j \in {1} : j < 1}) = 1 - 1  BY <2>3, FS_EmptySet
  <2>5. (CHOOSE i \in {1} : Cardinality({j \in {1} : j < i}) = 1 - 1) = 1  BY <2>4
  <2>6. Subsequence(<<k>>, {1}) = [n \in 1..1 |-> k]
    <3>1. Subsequence(<<k>>, {1}) =
            [n \in 1..1 |-> <<k>>[CHOOSE i \in {1} : Cardinality({j \in {1} : j < i}) = n - 1]]
      BY <2>2 DEF Subsequence
    <3>2. ASSUME NEW n \in 1..1
          PROVE  <<k>>[CHOOSE i \in {1} : Cardinality({j \in {1} : j < i}) = n - 1] = k
      <4>1. n = 1  OBVIOUS
      <4>2. <<k>>[1] = k  OBVIOUS
      <4>. QED  BY <2>5, <4>1, <4>2, Zenon
    <3>. QED  BY <3>1, <3>2
  <2>. QED  BY <1>2, <2>1, <2>6 DEF Without
<1>. QED  BY <1>1, <1>2
-----------------------------------------------------------------------------
LEMMA KeysStay ==
  ASSUME registered' = registered
  PROVE  \A t : KeysOf(t)' = KeysOf(t) /\ PidsOf(t)' = PidsOf(t)
BY DEF KeysOf, PidsOf

LEMMA SInvInit == SessionsInit => SInv
<1> SUFFICES ASSUME SessionsInit PROVE SInv  OBVIOUS
<1> USE DEF SessionsInit
<1>1. Typed
  <2>1. <<>> \in Seq(ProcessKey)  OBVIOUS
  <2>. QED  BY <2>1 DEF Typed, Steps
<1>2. Placed  BY SessionsAssumption DEF Placed
<1>3. Owned
  <2>1. \A s \in SessionIDs : ~Running(s)  BY SessionsAssumption DEF Running
  <2>. QED  BY <2>1, SessionsAssumption DEF Owned
<1>4. Filed  BY SessionsAssumption DEF Filed, NotFiled
<1>5. Watched  BY DEF Watched
<1>. QED  BY <1>1, <1>2, <1>3, <1>4, <1>5 DEF SInv

(* A session whose Create has not filed it is not being cleaned up either. *)
LEMMA NotYetFiled ==
  ASSUME Typed, Placed, NEW s \in SessionIDs, step[s] \notin {"listed", "watched", "created"}
  PROVE  s \notin runtimes /\ s # sweep.session
BY SessionsAssumption DEF Placed, Typed

(* A step that starts and stops no server and registers nothing.           *)
LEMMA QuietKeeps ==
  ASSUME SInv,
         UNCHANGED <<registered, holder, starts, entries, byPID, orphaned>>,
         \A t \in SessionIDs : /\ Running(t) => Running(t)'
                               /\ Running(t)' => Running(t) \/ PidsOf(t) = {}
                               /\ Unregistered(t)' <=> Unregistered(t)
  PROVE  Owned' /\ Filed'
<1>0. \A t : KeysOf(t)' = KeysOf(t) /\ PidsOf(t)' = PidsOf(t)  BY KeysStay
<1>1. \A p \in PIDs : KeyNow(p)' = KeyNow(p)  BY DEF KeyNow
<1>2. \A p \in PIDs : /\ NotFiled(p)' <=> NotFiled(p)
                      /\ \A t : FiledFor(p, t)' <=> FiledFor(p, t)
  BY <1>1 DEF NotFiled, FiledFor
<1>3. Owned'  BY <1>0, <1>1 DEF SInv, Owned
<1>4. Filed'  BY <1>2 DEF SInv, Filed
<1>. QED  BY <1>3, <1>4

LEMMA CheckCapKeeps ==
  ASSUME SInv, NEW s \in SessionIDs, CheckCap(s)
  PROVE  SInv'
<1> USE DEF CheckCap, SInv, maps, registry
<1>0. \A t : PidsOf(t)' = PidsOf(t)  BY KeysStay
<1>1. s \notin runtimes /\ s # sweep.session  BY NotYetFiled
<1>2. Typed'  BY DEF Typed, Steps
<1>3. Placed'  BY <1>1 DEF Placed, Typed
<1>4. PidsOf(s) = {}  BY DEF Placed, PidsOf
<1>5. Owned' /\ Filed'
  <2>1. \A t \in SessionIDs : /\ Running(t) => Running(t)'
                              /\ Running(t)' => Running(t) \/ PidsOf(t) = {}
                              /\ Unregistered(t)' <=> Unregistered(t)
    BY <1>1, <1>4 DEF Running, Unregistered, Typed
  <2>. QED  BY <2>1, QuietKeeps
<1>6. Watched'  BY <1>0, <1>1 DEF Watched, Typed
<1>. QED  BY <1>2, <1>3, <1>5, <1>6

(* The server answers, or the start fails.                                 *)
LEMMA StartingKeeps ==
  ASSUME SInv, NEW s \in SessionIDs,
         StartFails(s) \/ \E offersTool \in BOOLEAN : InitServer(s, offersTool)
  PROVE  SInv'
<1> USE DEF StartFails, InitServer, SInv, maps, registry, history
<1>0. /\ step[s] \in {"starting", "spawned"} /\ step'[s] \in {"starting", "failing"}
      /\ step' = [step EXCEPT ![s] = step'[s]]
      /\ UNCHANGED <<registered, runtimes, mcpSessions, entries, byPID, watched, holder, starts,
                     sweep, orphaned, overtaken>>
  BY DEF Typed
<1>1. s \notin runtimes /\ s # sweep.session  BY <1>0, NotYetFiled
<1>2. Typed'  BY <1>0 DEF Typed, Steps
<1>3. Placed'  BY <1>0, <1>1 DEF Placed, Typed
<1>4. Owned' /\ Filed'
  <2>1. \A t \in SessionIDs : /\ Running(t) => Running(t)'
                              /\ Running(t)' => Running(t) \/ PidsOf(t) = {}
                              /\ Unregistered(t)' <=> Unregistered(t)
    BY <1>0 DEF Running, Unregistered, Typed
  <2>. QED  BY <1>0, <2>1, QuietKeeps
<1>5. Watched'
  <2>1. \A t : PidsOf(t)' = PidsOf(t)  BY <1>0, KeysStay
  <2>. QED  BY <1>0, <1>1, <2>1 DEF Watched, Typed
<1>. QED  BY <1>2, <1>3, <1>4, <1>5

(* The session is filed, its numbers watched, its MCP id bound.            *)
LEMMA FilingKeeps ==
  ASSUME SInv, NEW s \in SessionIDs, AddRuntime(s) \/ WatchRuntimePIDs(s) \/ BindMCP(s)
  PROVE  SInv'
<1> USE DEF SInv, maps, registry, history
<1>1. CASE AddRuntime(s)
  <2> USE <1>1 DEF AddRuntime
  <2>1. s \notin runtimes /\ s # sweep.session  BY NotYetFiled
  <2>2. Typed'  BY DEF Typed, Steps
  <2>3. Placed'  BY <2>1 DEF Placed, Typed
  <2>4. Owned' /\ Filed'
    <3>1. \A t \in SessionIDs : /\ Running(t) => Running(t)'
                                /\ Running(t)' => Running(t) \/ PidsOf(t) = {}
                                /\ Unregistered(t)' <=> Unregistered(t)
      BY DEF Running, Unregistered, Typed
    <3>. QED  BY <3>1, QuietKeeps
  <2>5. Watched'
    <3>1. \A t : PidsOf(t)' = PidsOf(t)  BY KeysStay
    <3>. QED  BY <2>1, <3>1 DEF Watched, Typed
  <2>. QED  BY <2>2, <2>3, <2>4, <2>5
<1>2. CASE WatchRuntimePIDs(s)
  <2> USE <1>2 DEF WatchRuntimePIDs
  <2>1. s \in runtimes \cup overtaken  BY DEF Placed
  <2>2. Typed'  BY DEF Typed, Steps
  <2>3. Placed'  BY <2>1 DEF Placed, Typed
  <2>4. Owned' /\ Filed'
    <3>1. \A t \in SessionIDs : /\ Running(t) => Running(t)'
                                /\ Running(t)' => Running(t) \/ PidsOf(t) = {}
                                /\ Unregistered(t)' <=> Unregistered(t)
      BY DEF Running, Unregistered, Typed
    <3>. QED  BY <3>1, QuietKeeps
  <2>5. Watched'
    <3>1. \A t : PidsOf(t)' = PidsOf(t)  BY KeysStay
    <3>. QED  BY <2>1, <3>1 DEF Watched, Typed
  <2>. QED  BY <2>2, <2>3, <2>4, <2>5
<1>3. CASE BindMCP(s)
  <2> USE <1>3 DEF BindMCP
  <2>1. s \in runtimes \cup overtaken  BY DEF Placed
  <2>2. Typed'  BY DEF Typed, Steps
  <2>3. Placed'  BY <2>1 DEF Placed, Typed
  <2>4. Owned' /\ Filed'
    <3>1. \A t \in SessionIDs : /\ Running(t) => Running(t)'
                                /\ Running(t)' => Running(t) \/ PidsOf(t) = {}
                                /\ Unregistered(t)' <=> Unregistered(t)
      BY DEF Running, Unregistered, Typed
    <3>. QED  BY <3>1, QuietKeeps
  <2>5. Watched'
    <3>1. \A t : PidsOf(t)' = PidsOf(t)  BY KeysStay
    <3>. QED  BY <2>1, <3>1 DEF Watched, Typed
  <2>. QED  BY <2>2, <2>3, <2>4, <2>5
<1>. QED  BY <1>1, <1>2, <1>3

(* A server is started on a number nobody holds, so no running session has *)
(* it, and unless it is orphaned nothing is registered under it.           *)
LEMMA StartServerKeeps ==
  ASSUME SInv, NEW s \in SessionIDs, NEW p \in PIDs, StartServer(s, p)
  PROVE  SInv'
<1> USE DEF SInv
<1> DEFINE key == [pid |-> p, start |-> starts[p] + 1]
<1>0. /\ step[s] = "starting" /\ holder[p] = None
      /\ holder' = [holder EXCEPT ![p] = s]
      /\ starts' = [starts EXCEPT ![p] = @ + 1]
      /\ registered' = [registered EXCEPT ![s] = Append(@, key)]
      /\ entries' = entries \cup {[key |-> key, session |-> s]}
      /\ byPID' = [byPID EXCEPT ![p] = Append(@, key)]
      /\ step' = [step EXCEPT ![s] = "spawned"]
      /\ UNCHANGED <<runtimes, mcpSessions, watched, sweep, orphaned, overtaken>>
  BY DEF StartServer, Free, RegistryAdd, maps, history
<1>1. s \notin runtimes /\ s # sweep.session  BY <1>0, NotYetFiled
<1>2. key \in ProcessKey /\ key.pid = p  BY DEF ProcessKey, Typed
<1>3. KeyNow(p)' = key /\ \A q \in PIDs \ {p} : KeyNow(q)' = KeyNow(q)
  BY <1>0 DEF KeyNow, Typed
<1> HIDE DEF key
<1>4. /\ registered' \in [SessionIDs -> Seq(ProcessKey)]
      /\ KeysOf(s)' = KeysOf(s) \cup {key} /\ PidsOf(s)' = PidsOf(s) \cup {p}
      /\ \A t \in SessionIDs \ {s} : KeysOf(t)' = KeysOf(t) /\ PidsOf(t)' = PidsOf(t)
  BY <1>0, <1>2, KeysGrow
<1>5. \A t \in SessionIDs : (Running(t)' <=> Running(t)) /\ (Unregistered(t)' <=> Unregistered(t))
  BY <1>0 DEF Running, Unregistered, Typed
<1>6. Typed'
  <2>1. starts' \in [PIDs -> Nat]  BY <1>0 DEF Typed
  <2>2. holder' \in [PIDs -> SessionIDs \cup {None}]  BY <1>0 DEF Typed
  <2>3. step' \in [SessionIDs -> Steps]  BY <1>0 DEF Typed, Steps
  <2>4. byPID' = [q \in PIDs |-> byPID'[q]]  BY <1>0 DEF Typed
  <2>. QED  BY <1>0, <1>4, <2>1, <2>2, <2>3, <2>4 DEF Typed
<1>7. Placed'
  <2>1. \A t \in SessionIDs \ {s} : step'[t] = step[t] /\ registered'[t] = registered[t]
    BY <1>0 DEF Typed
  <2>2. step'[s] = "spawned"  BY <1>0 DEF Typed
  <2>. QED  BY <1>0, <1>1, <2>1, <2>2 DEF Placed, Typed
<1>8. Owned'
  <2>1. \A t \in SessionIDs : Running(t) => p \notin PidsOf(t)
    BY <1>0, SessionsAssumption DEF Owned
  <2>2. holder'[p] = s /\ \A q \in PIDs \ {p} : holder'[q] = holder[q]  BY <1>0 DEF Typed
  <2>3. Running(s)  BY <1>0 DEF Running
  <2>4. \A t \in SessionIDs : PidsOf(t) \subseteq PIDs  BY PidsOfKeys
  <2>5. ASSUME NEW t \in SessionIDs, Running(t)', NEW q \in PidsOf(t)' PROVE holder'[q] = t
    BY <1>4, <1>5, <2>1, <2>2, <2>4, <2>5 DEF Owned
  <2>6. ASSUME NEW q \in PIDs, NEW t \in SessionIDs, holder'[q] = t
        PROVE  Running(t)' /\ KeyNow(q)' \in KeysOf(t)'
    <3>1. CASE q = p  BY <1>3, <1>4, <1>5, <2>2, <2>3, <2>6, <3>1
    <3>2. CASE q # p  BY <1>3, <1>4, <1>5, <2>2, <2>6, <3>2 DEF Owned
    <3>. QED  BY <3>1, <3>2
  <2>. QED  BY <2>5, <2>6 DEF Owned
<1>9. Filed'
  <2> DEFINE new == [key |-> key, session |-> s]
  <2>1. new.key.pid = p /\ entries' = entries \cup {new}  BY <1>0, <1>2
  <2>2. ASSUME NEW q \in PIDs \ orphaned, q # p
        PROVE  /\ holder'[q] = holder[q] /\ (NotFiled(q)' <=> NotFiled(q))
               /\ \A t : FiledFor(q, t)' <=> FiledFor(q, t)
    <3>1. holder'[q] = holder[q] /\ byPID'[q] = byPID[q] /\ KeyNow(q)' = KeyNow(q)
      BY <1>0, <1>3, <2>2 DEF Typed
    <3>2. {e \in entries' : e.key.pid = q} = {e \in entries : e.key.pid = q}  BY <2>1, <2>2
    <3>. QED  BY <3>1, <3>2 DEF NotFiled, FiledFor
  <2>3. ASSUME p \notin orphaned PROVE FiledFor(p, s)'
    <3>1. byPID[p] = <<>> /\ {e \in entries : e.key.pid = p} = {}
      BY <1>0, <2>3 DEF Filed, NotFiled
    <3>2. {e \in entries' : e.key.pid = p} = {new}  BY <2>1, <3>1
    <3>3. byPID'[p] = <<key>>  BY <1>0, <3>1 DEF Typed
    <3>. QED  BY <1>3, <3>2, <3>3 DEF FiledFor
  <2>4. holder'[p] = s /\ s # None /\ ~Unregistered(s)'
    BY <1>0, <1>1, SessionsAssumption DEF Unregistered, Typed
  <2>. QED  BY <1>0, <1>5, <2>2, <2>3, <2>4 DEF Filed
<1>10. Watched'
  <2>1. \A t \in runtimes : t # s /\ step'[t] = step[t]  BY <1>0, <1>1 DEF Typed
  <2>2. \A t \in SessionIDs : PidsOf(t) \subseteq PidsOf(t)'  BY <1>4
  <2>3. runtimes \subseteq SessionIDs  BY DEF Typed
  <2>. QED  BY <1>0, <1>1, <1>4, <2>1, <2>2, <2>3 DEF Watched
<1>. QED  BY <1>6, <1>7, <1>8, <1>9, <1>10

(* Stopping a session's servers frees its numbers and no others.           *)
LEMMA ReleasedFrees ==
  ASSUME Typed, NEW s \in SessionIDs, holder' = Released(s)
  PROVE  /\ holder' \in [PIDs -> SessionIDs \cup {None}]
         /\ \A p \in PIDs : /\ holder[p] = s => holder'[p] = None
                            /\ holder[p] # s => holder'[p] = holder[p]
BY DEF Released, Typed

(* Create gives up on a session nobody else knows of.                      *)
LEMMA AbandonKeeps ==
  ASSUME SInv, NEW s \in SessionIDs, Abandon(s)
  PROVE  SInv'
<1> USE DEF SInv
<1>0. /\ step[s] = "failing" /\ step' = [step EXCEPT ![s] = "failed"]
      /\ holder' = Released(s) /\ orphaned' = orphaned \cup PidsOf(s)
      /\ UNCHANGED <<registered, runtimes, mcpSessions, entries, byPID, watched, starts, sweep,
                     overtaken>>
  BY DEF Abandon, maps, registry
<1>1. s \notin runtimes /\ s # sweep.session  BY <1>0, NotYetFiled
<1>2. \A t : KeysOf(t)' = KeysOf(t) /\ PidsOf(t)' = PidsOf(t)  BY <1>0, KeysStay
<1>3. \A p \in PIDs : KeyNow(p)' = KeyNow(p)  BY <1>0 DEF KeyNow
<1>4. \A t \in SessionIDs : /\ Running(t)' => Running(t) /\ t # s
                            /\ Running(t) /\ t # s => Running(t)'
                            /\ Unregistered(t)' <=> Unregistered(t)
  BY <1>0, <1>1 DEF Running, Unregistered, Typed
<1>5. /\ holder' \in [PIDs -> SessionIDs \cup {None}]
      /\ \A p \in PIDs : /\ holder[p] = s => holder'[p] = None
                         /\ holder[p] # s => holder'[p] = holder[p]
  BY <1>0, ReleasedFrees
<1>6. \A p \in PIDs : holder[p] = s => p \in PidsOf(s)
  <2>1. \A p \in PIDs : KeyNow(p).pid = p  BY DEF KeyNow
  <2>2. \A p \in PIDs : holder[p] = s => KeyNow(p) \in KeysOf(s)
    BY SessionsAssumption DEF Owned
  <2>. QED  BY <2>1, <2>2, PidsOfKeys
<1>7. Typed'  BY <1>0, <1>5 DEF Typed, Steps
<1>8. Placed'  BY <1>0, <1>1 DEF Placed, Typed
<1>9. Owned'
  <2>1. \A t \in SessionIDs : PidsOf(t) \subseteq PIDs  BY PidsOfKeys
  <2>2. ASSUME NEW t \in SessionIDs, Running(t)', NEW p \in PidsOf(t)' PROVE holder'[p] = t
    BY <1>2, <1>4, <1>5, <2>1, <2>2 DEF Owned
  <2>3. ASSUME NEW p \in PIDs, NEW t \in SessionIDs, holder'[p] = t
        PROVE  Running(t)' /\ KeyNow(p)' \in KeysOf(t)'
    <3>1. holder[p] = t /\ t # s  BY <1>5, <2>3, SessionsAssumption
    <3>. QED  BY <1>2, <1>3, <1>4, <3>1 DEF Owned
  <2>. QED  BY <2>2, <2>3 DEF Owned
<1>10. Filed'
  <2>1. \A p \in PIDs \ orphaned' : p \notin orphaned /\ holder'[p] = holder[p]
    BY <1>0, <1>5, <1>6
  <2>2. \A p \in PIDs : /\ NotFiled(p)' <=> NotFiled(p)
                        /\ \A t : FiledFor(p, t)' <=> FiledFor(p, t)
    BY <1>0, <1>3 DEF NotFiled, FiledFor
  <2>. QED  BY <1>4, <2>1, <2>2 DEF Filed
<1>11. Watched'  BY <1>0, <1>1, <1>2 DEF Watched, Typed
<1>. QED  BY <1>7, <1>8, <1>9, <1>10, <1>11

(* The clock, a request, and the sweeper's look at the sessions.           *)
LEMMA IdleKeeps ==
  ASSUME SInv, CollectExpired \/ \E s \in SessionIDs : GoIdle(s) \/ Touch(s)
  PROVE  SInv'
<1> USE DEF SInv
<1>0. /\ UNCHANGED <<step, registered, runtimes, mcpSessions, entries, byPID, watched, holder,
                     starts, orphaned, overtaken>>
      /\ sweep' = [sweep EXCEPT !.todo = sweep'.todo]
      /\ sweep'.todo \subseteq runtimes
  BY DEF CollectExpired, GoIdle, Touch, maps, registry, history, Typed, Placed
<1>1. sweep'.session = sweep.session /\ sweep'.at = sweep.at  BY <1>0 DEF Typed
<1>2. Typed'
  <2>1. sweep' \in [todo : SUBSET SessionIDs, session : SessionIDs \cup {None},
                    at : {"idle", "removed", "unregistered", "unwatched"}]
    BY <1>0 DEF Typed
  <2>. QED  BY <1>0, <2>1 DEF Typed
<1>3. Placed'  BY <1>0, <1>1 DEF Placed
<1>4. Owned' /\ Filed'
  <2>1. \A t \in SessionIDs : /\ Running(t) => Running(t)'
                              /\ Running(t)' => Running(t) \/ PidsOf(t) = {}
                              /\ Unregistered(t)' <=> Unregistered(t)
    BY <1>0, <1>1 DEF Running, Unregistered
  <2>. QED  BY <1>0, <2>1, QuietKeeps
<1>5. Watched'
  <2>1. \A t : PidsOf(t)' = PidsOf(t)  BY <1>0, KeysStay
  <2>. QED  BY <1>0, <1>1, <2>1 DEF Watched
<1>. QED  BY <1>2, <1>3, <1>4, <1>5

(* Cleanup takes a filed session out of the maps.                          *)
LEMMA CleanupMapsKeeps ==
  ASSUME SInv, NEW s \in SessionIDs, CleanupMaps(s)
  PROVE  SInv'
<1> USE DEF SInv
<1>0. /\ s \in sweep.todo /\ sweep.at = "idle"
      /\ sweep' = [todo |-> sweep.todo \ {s}, session |-> s, at |-> "removed"]
      /\ runtimes' = runtimes \ {s} /\ mcpSessions' = mcpSessions \ {s}
      /\ overtaken' = IF step[s] # "created" THEN overtaken \cup {s} ELSE overtaken
      /\ UNCHANGED <<step, registered, entries, byPID, watched, holder, starts, orphaned>>
  BY DEF CleanupMaps, registry
<1>1. s \in runtimes /\ sweep.session = None /\ s # None
  BY <1>0, SessionsAssumption DEF Placed
<1>2. sweep'.todo = sweep.todo \ {s} /\ sweep'.session = s /\ sweep'.at = "removed"
  BY <1>0
<1>3. Typed'
  <2>1. sweep' \in [todo : SUBSET SessionIDs, session : SessionIDs \cup {None},
                    at : {"idle", "removed", "unregistered", "unwatched"}]
    BY <1>0 DEF Typed
  <2>. QED  BY <1>0, <2>1 DEF Typed
<1>4. Placed'  BY <1>0, <1>1, <1>2 DEF Placed, Typed
<1>5. Owned' /\ Filed'
  <2>1. \A t \in SessionIDs : /\ Running(t) => Running(t)'
                              /\ Running(t)' => Running(t) \/ PidsOf(t) = {}
                              /\ Unregistered(t)' <=> Unregistered(t)
    BY <1>0, <1>1, <1>2, SessionsAssumption DEF Running, Unregistered
  <2>. QED  BY <1>0, <2>1, QuietKeeps
<1>6. Watched'
  <2>1. \A t : PidsOf(t)' = PidsOf(t)  BY <1>0, KeysStay
  <2>. QED  BY <1>0, <1>1, <1>2, <2>1 DEF Watched
<1>. QED  BY <1>3, <1>4, <1>5, <1>6

(* ... its keys out of the registry: the numbers it holds are no longer    *)
(* registered, and those of the others are as they were.                   *)
LEMMA CleanupRegistryKeeps ==
  ASSUME SInv, CleanupRegistry
  PROVE  SInv'
<1> USE DEF SInv
<1> DEFINE s == sweep.session
<1>0. /\ sweep.at = "removed" /\ sweep' = [sweep EXCEPT !.at = "unregistered"]
      /\ entries' = {e \in entries : e.key \notin KeysOf(s)}
      /\ byPID' = [p \in PIDs |-> Without(byPID[p], KeysOf(s))]
      /\ UNCHANGED <<step, registered, runtimes, mcpSessions, watched, holder, starts, orphaned,
                     overtaken>>
  BY DEF CleanupRegistry, RegistryRemove, KeysOf, maps, history
<1>1. s \in SessionIDs /\ s # None  BY <1>0 DEF Placed, Typed
<1>2. sweep'.todo = sweep.todo /\ sweep'.session = s /\ sweep'.at = "unregistered"
  BY <1>0 DEF Typed
<1> HIDE DEF s
<1>3. \A t : KeysOf(t)' = KeysOf(t) /\ PidsOf(t)' = PidsOf(t)  BY <1>0, KeysStay
<1>4. \A p \in PIDs : KeyNow(p)' = KeyNow(p) /\ KeyNow(p).pid = p  BY <1>0 DEF KeyNow
<1>5. \A t \in SessionIDs : /\ Running(t)' <=> Running(t)
                            /\ Unregistered(t)' <=> t = s
                            /\ ~Unregistered(t)
  BY <1>0, <1>2 DEF Running, Unregistered, s
<1>6. Typed'
  <2>1. sweep' \in [todo : SUBSET SessionIDs, session : SessionIDs \cup {None},
                    at : {"idle", "removed", "unregistered", "unwatched"}]
    BY <1>0 DEF Typed
  <2>2. byPID' = [p \in PIDs |-> byPID'[p]]  BY <1>0
  <2>. QED  BY <1>0, <2>1, <2>2 DEF Typed
<1>7. Placed'  BY <1>0, <1>1, <1>2 DEF Placed, s
<1>8. Owned'  BY <1>0, <1>3, <1>4, <1>5 DEF Owned
<1>9. Filed'
  <2>1. ASSUME NEW p \in PIDs, NotFiled(p) PROVE NotFiled(p)'
    <3>1. byPID'[p] = <<>>  BY <1>0, <2>1, WithoutNone DEF NotFiled
    <3>2. {e \in entries' : e.key.pid = p} = {}  BY <1>0, <2>1 DEF NotFiled
    <3>. QED  BY <3>1, <3>2 DEF NotFiled
  <2>2. ASSUME NEW p \in PIDs, holder[p] = s, FiledFor(p, s) PROVE NotFiled(p)'
    <3>1. KeyNow(p) \in KeysOf(s)  BY <1>1, <2>2 DEF Owned
    <3>2. byPID'[p] = <<>>  BY <1>0, <2>2, <3>1, WithoutOne DEF FiledFor
    <3>3. \A e \in entries : e.key.pid = p => e.key = KeyNow(p)  BY <2>2 DEF FiledFor
    <3>4. {e \in entries' : e.key.pid = p} = {}  BY <1>0, <3>1, <3>3
    <3>. QED  BY <3>2, <3>4 DEF NotFiled
  <2>3. ASSUME NEW p \in PIDs, NEW t \in SessionIDs \ {s}, holder[p] = t, FiledFor(p, t)
        PROVE  FiledFor(p, t)'
    <3>1. \A k \in KeysOf(s) : holder[k.pid] = s
      <4>1. Running(s)  BY DEF Running, s
      <4>2. \A k \in KeysOf(s) : k.pid \in PidsOf(s)  BY <1>1, PidsOfKeys
      <4>. QED  BY <1>1, <4>1, <4>2 DEF Owned
    <3>2. \A k \in KeysOf(s) : k.pid # p  BY <2>3, <3>1
    <3>3. byPID'[p] = <<KeyNow(p)>>
      <4>1. KeyNow(p) \notin KeysOf(s)  BY <1>4, <3>2
      <4>2. byPID'[p] = Without(<<KeyNow(p)>>, KeysOf(s))  BY <1>0, <2>3 DEF FiledFor
      <4>. QED  BY <4>1, <4>2, WithoutOne
    <3>4. {e \in entries' : e.key.pid = p} = {e \in entries : e.key.pid = p}
      BY <1>0, <3>2
    <3>. QED  BY <1>4, <2>3, <3>3, <3>4 DEF FiledFor
  <2>. QED  BY <1>0, <1>1, <1>5, <2>1, <2>2, <2>3 DEF Filed
<1>10. Watched'  BY <1>0, <1>2, <1>3 DEF Watched, s
<1>. QED  BY <1>6, <1>7, <1>8, <1>9, <1>10

(* ... its numbers out of the sensor's filter, where no other session that *)
(* is filed has them.                                                      *)
LEMMA CleanupWatchKeeps ==
  ASSUME SInv, CleanupWatch
  PROVE  SInv'
<1> USE DEF SInv
<1> DEFINE s == sweep.session
<1>0. /\ sweep.at = "unregistered" /\ sweep' = [sweep EXCEPT !.at = "unwatched"]
      /\ watched' = watched \ PidsOf(s)
      /\ UNCHANGED <<step, registered, runtimes, mcpSessions, entries, byPID, holder, starts,
                     orphaned, overtaken>>
  BY DEF CleanupWatch, Unwatched, maps, registry, history
<1>1. s \in SessionIDs /\ s # None  BY <1>0 DEF Placed, Typed
<1>2. sweep'.todo = sweep.todo /\ sweep'.session = s /\ sweep'.at = "unwatched"
  BY <1>0 DEF Typed
<1> HIDE DEF s
<1>3. \A t : PidsOf(t)' = PidsOf(t)  BY <1>0, KeysStay
<1>4. Typed'
  <2>1. sweep' \in [todo : SUBSET SessionIDs, session : SessionIDs \cup {None},
                    at : {"idle", "removed", "unregistered", "unwatched"}]
    BY <1>0 DEF Typed
  <2>. QED  BY <1>0, <2>1 DEF Typed
<1>5. Placed'  BY <1>0, <1>1, <1>2 DEF Placed, s
<1>6. Owned' /\ Filed'
  <2>1. \A t \in SessionIDs : /\ Running(t) => Running(t)'
                              /\ Running(t)' => Running(t) \/ PidsOf(t) = {}
                              /\ Unregistered(t)' <=> Unregistered(t)
    BY <1>0, <1>2 DEF Running, Unregistered, s
  <2>. QED  BY <1>0, <2>1, QuietKeeps
<1>7. Watched'
  <2>1. \A t \in runtimes : PidsOf(t) \cap PidsOf(s) = {}
    <3>1. Running(s) /\ \A t \in runtimes : Running(t)  BY DEF Running, s
    <3>2. s \notin runtimes /\ runtimes \subseteq SessionIDs  BY DEF Placed, Typed, s
    <3>. QED  BY <1>1, <3>1, <3>2 DEF Owned
  <2>2. \A t \in runtimes' : step'[t] \in {"watched", "created"} => PidsOf(t)' \subseteq watched'
    BY <1>0, <1>3, <2>1 DEF Watched
  <2>3. \A p \in watched' : \E t \in runtimes \cup overtaken : t \in SessionIDs /\ p \in PidsOf(t)
    BY <1>0 DEF Watched, s
  <2>. QED  BY <1>0, <1>2, <1>3, <2>2, <2>3 DEF Watched
<1>. QED  BY <1>4, <1>5, <1>6, <1>7

(* ... and its servers are stopped.                                        *)
LEMMA CleanupStopKeeps ==
  ASSUME SInv, CleanupStop
  PROVE  SInv'
<1> USE DEF SInv
<1> DEFINE s == sweep.session
<1>0. /\ sweep.at = "unwatched" /\ sweep' = [sweep EXCEPT !.at = "idle", !.session = None]
      /\ holder' = Released(s)
      /\ UNCHANGED <<step, registered, runtimes, mcpSessions, entries, byPID, watched, starts,
                     orphaned, overtaken>>
  BY DEF CleanupStop, Stopped, maps, registry, history
<1>1. s \in SessionIDs /\ s # None  BY <1>0 DEF Placed, Typed
<1>2. sweep'.todo = sweep.todo /\ sweep'.session = None /\ sweep'.at = "idle"
  BY <1>0 DEF Typed
<1>3. s \notin runtimes /\ step[s] \in {"listed", "watched", "created"}
  BY <1>1 DEF Placed
<1>4. \A t \in SessionIDs : /\ Unregistered(t) <=> t = s
                            /\ ~Unregistered(t)'
                            /\ Running(t)' <=> Running(t) /\ t # s
  BY <1>0, <1>1, <1>2, <1>3, SessionsAssumption DEF Unregistered, Running
<1> HIDE DEF s
<1>5. \A t : KeysOf(t)' = KeysOf(t) /\ PidsOf(t)' = PidsOf(t)  BY <1>0, KeysStay
<1>6. \A p \in PIDs : KeyNow(p)' = KeyNow(p)  BY <1>0 DEF KeyNow
<1>7. /\ holder' \in [PIDs -> SessionIDs \cup {None}]
      /\ \A p \in PIDs : /\ holder[p] = s => holder'[p] = None
                         /\ holder[p] # s => holder'[p] = holder[p]
  BY <1>0, <1>1, ReleasedFrees
<1>8. Typed'
  <2>1. sweep' \in [todo : SUBSET SessionIDs, session : SessionIDs \cup {None},
                    at : {"idle", "removed", "unregistered", "unwatched"}]
    BY <1>0 DEF Typed
  <2>. QED  BY <1>0, <1>7, <2>1 DEF Typed
<1>9. Placed'  BY <1>0, <1>2, SessionsAssumption DEF Placed, Typed
<1>10. Owned'
  <2>1. \A t \in SessionIDs : PidsOf(t) \subseteq PIDs  BY PidsOfKeys
  <2>2. ASSUME NEW t \in SessionIDs, Running(t)', NEW p \in PidsOf(t)' PROVE holder'[p] = t
    BY <1>4, <1>5, <1>7, <2>1, <2>2 DEF Owned
  <2>3. ASSUME NEW p \in PIDs, NEW t \in SessionIDs, holder'[p] = t
        PROVE  Running(t)' /\ KeyNow(p)' \in KeysOf(t)'
    <3>1. holder[p] = t /\ t # s  BY <1>7, <2>3, SessionsAssumption
    <3>. QED  BY <1>4, <1>5, <1>6, <3>1 DEF Owned
  <2>. QED  BY <2>2, <2>3 DEF Owned
<1>11. Filed'
  <2>1. \A p \in PIDs : /\ NotFiled(p)' <=> NotFiled(p)
                        /\ \A t : FiledFor(p, t)' <=> FiledFor(p, t)
    BY <1>0, <1>6 DEF NotFiled, FiledFor
  <2>2. ASSUME NEW p \in PIDs \ orphaned, holder'[p] = None PROVE NotFiled(p)
    BY <1>1, <1>4, <1>7, <2>2 DEF Filed
  <2>3. ASSUME NEW p \in PIDs \ orphaned, NEW t \in SessionIDs, holder'[p] = t
        PROVE  FiledFor(p, t)
    <3>1. holder[p] = t /\ t # s  BY <1>7, <2>3, SessionsAssumption
    <3>. QED  BY <1>4, <3>1 DEF Filed
  <2>. QED  BY <1>0, <1>4, <2>1, <2>2, <2>3 DEF Filed
<1>12. Watched'  BY <1>0, <1>2, <1>5 DEF Watched
<1>. QED  BY <1>8, <1>9, <1>10, <1>11, <1>12

LEMMA SInvNext == SInv /\ [SessionsNext]_sessionsVars => SInv'
<1> SUFFICES ASSUME SInv, [SessionsNext]_sessionsVars PROVE SInv'  OBVIOUS
<1>1. ASSUME NEW s \in SessionIDs, Create(s) PROVE SInv'
  BY <1>1, CheckCapKeeps, StartingKeeps, AbandonKeeps, FilingKeeps, StartServerKeeps DEF Create
<1>2. ASSUME NEW s \in SessionIDs, GoIdle(s) \/ Touch(s) PROVE SInv'  BY <1>2, IdleKeeps
<1>3. CASE Sweeper
  BY <1>3, IdleKeeps, CleanupMapsKeeps, CleanupRegistryKeeps, CleanupWatchKeeps, CleanupStopKeeps
  DEF Sweeper
<1>4. CASE UNCHANGED sessionsVars
  BY <1>4 DEF sessionsVars, SInv, Typed, Placed, Owned, Filed, Watched, Running, Unregistered,
              NotFiled, FiledFor, KeysOf, PidsOf, KeyNow
<1>. QED  BY <1>1, <1>2, <1>3, <1>4 DEF SessionsNext

LEMMA SessionsInvariance == SessionsSpec => []SInv
BY SInvInit, SInvNext, PTL DEF SessionsSpec

(* A PID the sensor reports is attributed to the session whose server it   *)
(* is (PIDRegistry.Lookup), however often the number was used before.      *)
THEOREM LookupFindsOwner == SessionsSpec => []LookupRight
<1>1. SInv => LookupRight
  <2> SUFFICES ASSUME SInv, NEW s \in runtimes, NEW p \in PIDs, holder[p] = s, p \notin orphaned
               PROVE  Lookup(p) = s
    BY DEF LookupRight
  <2>1. FiledFor(p, s)
    <3>1. s \in SessionIDs /\ ~Unregistered(s)  BY DEF SInv, Placed, Typed, Unregistered
    <3>. QED  BY <3>1 DEF SInv, Filed
  <2> DEFINE k == KeyNow(p)
             e == [key |-> k, session |-> s]
             known == {i \in DOMAIN byPID[p] : \E x \in entries : x.key = byPID[p][i]}
  <2>2. byPID[p] = <<k>> /\ e \in entries /\ e.key = k  BY <2>1 DEF FiledFor
  <2>3. \A x \in entries : x.key = k => x = e
    <3>1. k.pid = p  BY DEF KeyNow
    <3>. QED  BY <2>1, <3>1 DEF FiledFor
  <2> HIDE DEF k
  <2>4. known = {1}  BY <2>2
  <2> DEFINE first == CHOOSE i \in known : \A j \in known : i <= j
             y == byPID[p][first]
  <2>5. first = 1  BY <2>4
  <2>6. Lookup(p) = IF known = {} THEN None ELSE (CHOOSE x \in entries : x.key = y).session
    BY DEF Lookup
  <2>7. y = k /\ known # {}
    <3> HIDE DEF first, known
    <3>. QED  BY <2>2, <2>4, <2>5
  <2> HIDE DEF y, known
  <2>8. (CHOOSE x \in entries : x.key = y).session = s  BY <2>2, <2>3, <2>7
  <2>. QED  BY <2>6, <2>7, <2>8
<1>. QED  BY SessionsInvariance, <1>1, PTL

(* The sensor watches the servers of the sessions a request can name, and  *)
(* of no session that is gone (Create against Cleanup).                    *)
THEOREM SensorFollowsSessions == SessionsSpec => []WatchFollowsSessions
<1>1. SInv => WatchFollowsSessions
  <2> SUFFICES ASSUME SInv PROVE WatchFollowsSessions  OBVIOUS
  <2>1. ASSUME NEW s \in mcpSessions \ overtaken
        PROVE  s \in runtimes /\ PidsOf(s) \subseteq watched /\ \A p \in PidsOf(s) : holder[p] = s
    <3>1. s \in runtimes /\ s \in SessionIDs /\ step[s] = "created"  BY DEF SInv, Placed, Typed
    <3>2. Running(s)  BY <3>1 DEF Running
    <3>. QED  BY <3>1, <3>2 DEF SInv, Owned, Watched
  <2>2. ASSUME NEW p \in watched
        PROVE  \E s \in (runtimes \cup overtaken \cup {sweep.session}) \ {None} : p \in PidsOf(s)
    BY SessionsAssumption DEF SInv, Watched
  <2>. QED  BY <2>1, <2>2 DEF WatchFollowsSessions
<1>. QED  BY SessionsInvariance, <1>1, PTL
=============================================================================
