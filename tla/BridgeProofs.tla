---------------------------- MODULE BridgeProofs ----------------------------
(***************************************************************************)
(* Proofs about Bridge, for any registrations, connections and stops: the  *)
(* sensor acts on a registration at most once and never on one reported    *)
(* lost, and one reported delivered is lost only with its connection.      *)
(***************************************************************************)
EXTENDS Bridge, TLAPS, SequenceTheorems

Lined == [msg : Registrations, whole : BOOLEAN]

(* No two whole lines of one connection carry the same registration.       *)
Once(q) ==
  \A i, j \in 1..Len(q) : q[i].whole /\ q[j].whole /\ q[i].msg = q[j].msg => i = j

Buffered(m) == \E c \in Conns : m \in Lines(buffer[c])

(***************************************************************************)
(* The inductive invariant.                                                *)
(***************************************************************************)

(* The call in progress has a message, taken out of the outbox.            *)
Calling ==
  /\ call.step = "idle" <=> call.msg = None
  /\ call.msg \notin outbox

(* What has not been sent has left no trace.                               *)
Unsent ==
  \A m \in Registrations : m \in outbox \/ m = call.msg =>
    outcome[m] = "none" /\ handled[m] = 0 /\ ~Buffered(m)

(* Only a connection that is open holds anything; the client's connection  *)
(* has been dialled.                                                       *)
Sockets ==
  /\ \A c \in Conns : buffer[c] # <<>> => state[c] \in {"waiting", "accepted"}
  /\ conn # None => state[conn] # "unused"

(* A line stands on one connection, once, and has not been handled.        *)
Single ==
  /\ \A c \in Conns : Once(buffer[c])
  /\ \A c, d \in Conns : c # d => Lines(buffer[c]) \cap Lines(buffer[d]) = {}
  /\ \A m \in Registrations : handled[m] > 0 => ~Buffered(m)
  /\ \A m \in Registrations : handled[m] <= 1

(* A failed call left no line; a successful one is on its way or settled.  *)
Errors == \A m \in Registrations : outcome[m] = "error" => handled[m] = 0 /\ ~Buffered(m)
Successes ==
  \A m \in Valid : outcome[m] = "ok" => handled[m] = 1 \/ m \in cut \/ Buffered(m)

IInv == TypeOK /\ Calling /\ Unsent /\ Sockets /\ Single /\ Errors /\ Successes
-----------------------------------------------------------------------------
(***************************************************************************)
(* What writing to and reading from a connection makes of its lines.       *)
(***************************************************************************)

(* A line written whole is one more; one that does not end is none.        *)
LEMMA LinesAppend ==
  ASSUME NEW q \in Seq(Lined), NEW x \in Lined
  PROVE  /\ Append(q, x) \in Seq(Lined) /\ Append(q, x) # <<>>
         /\ Lines(Append(q, x)) = IF x.whole THEN Lines(q) \cup {x.msg} ELSE Lines(q)
         /\ Once(q) /\ (x.whole => x.msg \notin Lines(q)) => Once(Append(q, x))
<1> DEFINE a == Append(q, x)
<1>1. /\ a \in Seq(Lined) /\ Len(a) = Len(q) + 1 /\ Len(q) \in Nat
      /\ \A i \in 1..Len(q) : a[i] = q[i]
      /\ a[Len(q) + 1] = x
  BY AppendProperties, LenProperties
<1>2. a # <<>>  BY <1>1, EmptySeq
<1> HIDE DEF a
<1>3. 1..Len(a) = 1..Len(q) \cup {Len(q) + 1}  BY <1>1
<1>4. Lines(a) = IF x.whole THEN Lines(q) \cup {x.msg} ELSE Lines(q)
  <2>1. CASE x.whole  BY <1>1, <1>3, <2>1 DEF Lines
  <2>2. CASE ~x.whole  BY <1>1, <1>3, <2>2 DEF Lines
  <2>. QED  BY <2>1, <2>2
<1>5. ASSUME Once(q), x.whole => x.msg \notin Lines(q)
      PROVE  Once(a)
  BY <1>1, <1>3, <1>5 DEF Once, Lines
<1>. QED  BY <1>1, <1>2, <1>4, <1>5 DEF a

(* Reading takes the first line, which was there once.                     *)
LEMMA LinesTail ==
  ASSUME NEW q \in Seq(Lined), q # <<>>, Head(q).whole, Once(q)
  PROVE  /\ Head(q) \in Lined /\ Tail(q) \in Seq(Lined) /\ Once(Tail(q))
         /\ Lines(q) = Lines(Tail(q)) \cup {Head(q).msg}
         /\ Head(q).msg \notin Lines(Tail(q))
<1> DEFINE t == Tail(q)
<1>1. /\ t \in Seq(Lined) /\ Len(t) = Len(q) - 1 /\ Len(q) \in Nat \ {0}
      /\ \A i \in 1..Len(t) : t[i] = q[i + 1]
      /\ Head(q) = q[1] /\ Head(q) \in Lined
  BY HeadTailProperties, EmptySeq, LenProperties
<1> HIDE DEF t
<1>2. \A i \in 1..Len(q) : i = 1 \/ (i - 1 \in 1..Len(t) /\ q[i] = t[i - 1])  BY <1>1
<1>3. \A i \in 1..Len(t) : i + 1 \in 1..Len(q) /\ i + 1 # 1 /\ t[i] = q[i + 1]  BY <1>1
<1>4. Once(t)
  <2> SUFFICES ASSUME NEW i \in 1..Len(t), NEW j \in 1..Len(t),
                      t[i].whole, t[j].whole, t[i].msg = t[j].msg
               PROVE  i = j
    BY DEF Once
  <2>1. i + 1 = j + 1  BY <1>3 DEF Once
  <2>2. i \in Int /\ j \in Int  BY <1>1
  <2>. QED  BY <2>1, <2>2
<1>5. Lines(q) = Lines(t) \cup {q[1].msg}
  <2>1. 1 \in 1..Len(q) /\ q[1].whole  BY <1>1
  <2>2. Lines(q) \subseteq Lines(t) \cup {q[1].msg}  BY <1>2 DEF Lines
  <2>3. Lines(t) \cup {q[1].msg} \subseteq Lines(q)  BY <1>3, <2>1 DEF Lines
  <2>. QED  BY <2>2, <2>3
<1>6. q[1].msg \notin Lines(t)
  <2> SUFFICES ASSUME NEW i \in 1..Len(t), t[i].whole, t[i].msg = q[1].msg
               PROVE  FALSE
    BY DEF Lines
  <2>1. 1 \in 1..Len(q) /\ q[1].whole  BY <1>1
  <2>. QED  BY <1>3, <2>1 DEF Once
<1>. QED  BY <1>1, <1>4, <1>5, <1>6 DEF t

(* Nothing stands on an empty connection, and lines are registrations.     *)
LEMMA LinesEmpty == Lines(<<>>) = {} /\ Once(<<>>)
BY EmptySeq DEF Lines, Once

LEMMA LinesType ==
  ASSUME NEW q \in Seq(Lined)
  PROVE  Lines(q) \subseteq Registrations
<1>1. \A i \in 1..Len(q) : q[i] \in Lined  BY ElementOfSeq
<1>2. \A x \in Lined : x.msg \in Registrations  BY DEF Lined
<1>. QED  BY <1>1, <1>2 DEF Lines
-----------------------------------------------------------------------------
(***************************************************************************)
(* Steps of the three kinds: one that leaves the sockets alone, one in     *)
(* which the server drops connections, and the writes and reads.           *)
(***************************************************************************)

(* While no buffer changes, the same registrations stand on connections.   *)
LEMMA SameBuffered ==
  ASSUME UNCHANGED buffer
  PROVE  /\ \A m : Buffered(m)' <=> Buffered(m)
         /\ \A c \in Conns : Lines(buffer[c])' = Lines(buffer[c])
         /\ \A c \in Conns : Once(buffer[c])' <=> Once(buffer[c])
BY DEF Buffered

(* Dropping connections takes lines away and remembers them in cut.        *)
LEMMA DropKeeps ==
  ASSUME IInv, NEW cs \in SUBSET Conns, DropAll(cs), UNCHANGED <<client, handled>>
  PROVE  /\ state' \in [Conns -> {"unused", "waiting", "accepted", "closed"}]
         /\ buffer' \in [Conns -> Seq(Lined)] /\ cut' \subseteq Registrations
         /\ Calling' /\ Unsent' /\ Sockets' /\ Single' /\ Errors' /\ Successes'
<1> USE DEF IInv
<1>1. /\ buffer \in [Conns -> Seq(Lined)] /\ state \in [Conns -> {"unused", "waiting", "accepted", "closed"}]
      /\ handled \in [Registrations -> Nat] /\ cut \subseteq Registrations
      /\ conn \in Conns \cup {None}
  BY DEF TypeOK, Lined
<1>2. UNCHANGED <<outbox, call, conn, outcome, handled>>  BY DEF client
<1>3. \A c \in Conns : buffer'[c] = IF c \in cs THEN <<>> ELSE buffer[c]  BY DEF DropAll
<1>4. \A c \in Conns : state'[c] = IF c \in cs THEN "closed" ELSE state[c]  BY DEF DropAll
<1>5. cut' = cut \cup UNION {Lines(buffer[c]) : c \in cs}  BY DEF DropAll
<1>6. state' \in [Conns -> {"unused", "waiting", "accepted", "closed"}]  BY <1>1 DEF DropAll
<1>7. buffer' \in [Conns -> Seq(Lined)]
  <2>1. <<>> \in Seq(Lined)  BY EmptySeq
  <2>. QED  BY <1>1, <2>1 DEF DropAll
<1>8. cut' \subseteq Registrations  BY <1>1, <1>5, LinesType
<1>9. /\ \A c \in Conns : Lines(buffer'[c]) = IF c \in cs THEN {} ELSE Lines(buffer[c])
      /\ \A c \in Conns : Once(buffer'[c])
  BY <1>3, LinesEmpty DEF Single
<1>10. \A m : /\ Buffered(m)' => Buffered(m)
              /\ Buffered(m) => Buffered(m)' \/ m \in cut'
  BY <1>5, <1>9 DEF Buffered
<1>11. Calling'  BY <1>2 DEF Calling
<1>12. Unsent'  BY <1>2, <1>10 DEF Unsent
<1>13. Sockets'  BY <1>1, <1>2, <1>3, <1>4 DEF Sockets
<1>14. Single'  BY <1>2, <1>9, <1>10 DEF Single
<1>15. Errors'  BY <1>2, <1>10 DEF Errors
<1>16. Successes'
  <2>1. cut \subseteq cut'  BY <1>5
  <2>. QED  BY <1>2, <1>10, <2>1 DEF Successes
<1>. QED  BY <1>6, <1>7, <1>8, <1>11, <1>12, <1>13, <1>14, <1>15, <1>16

(* A whole line is written: the call returns nil and its registration is   *)
(* on the connection, once.                                                *)
LEMMA WrittenKeeps ==
  ASSUME IInv, Write, Written
  PROVE  IInv'
<1> USE DEF IInv
<1>1. /\ buffer \in [Conns -> Seq(Lined)] /\ conn \in Conns
      /\ call.msg \in Registrations /\ call.msg # None
      /\ outcome \in [Registrations -> {"none", "ok", "error"}]
      /\ handled \in [Registrations -> Nat]
  BY BridgeAssumption DEF TypeOK, Lined, Write, Calling
<1>2. /\ UNCHANGED <<outbox, conn, state, hungUp, srv, handled, cut>>
      /\ outcome' = [outcome EXCEPT ![call.msg] = "ok"] /\ call' = NoCall
      /\ buffer' = [buffer EXCEPT ![conn] = Append(buffer[conn], Line(call.msg))]
      /\ state[conn] \in {"waiting", "accepted"}
  BY DEF Write, Written, Finish
<1> DEFINE m0 == call.msg
           x  == Line(m0)
<1>3. x \in Lined /\ x.whole /\ x.msg = m0  BY <1>1 DEF Line, Lined
<1>4. outcome[m0] = "none" /\ handled[m0] = 0 /\ ~Buffered(m0) /\ m0 \notin outbox
  BY <1>1 DEF Unsent, Calling
<1>5. m0 \notin Lines(buffer[conn]) /\ Once(buffer[conn])  BY <1>1, <1>4 DEF Buffered, Single
<1>6. /\ Append(buffer[conn], x) \in Seq(Lined) /\ Append(buffer[conn], x) # <<>>
      /\ Lines(Append(buffer[conn], x)) = Lines(buffer[conn]) \cup {m0}
      /\ Once(Append(buffer[conn], x))
  BY <1>1, <1>3, <1>5, LinesAppend
<1>7. /\ buffer' \in [Conns -> Seq(Lined)]
      /\ \A c \in Conns : buffer'[c] = IF c = conn THEN Append(buffer[conn], x) ELSE buffer[c]
  BY <1>1, <1>2, <1>6
<1> HIDE DEF x, m0
<1>8. /\ \A c \in Conns : Lines(buffer'[c]) = IF c = conn THEN Lines(buffer[c]) \cup {m0}
                                              ELSE Lines(buffer[c])
      /\ \A c \in Conns : Once(buffer'[c])
  BY <1>6, <1>7 DEF Single
<1>9. \A m : Buffered(m)' <=> Buffered(m) \/ m = m0  BY <1>1, <1>8 DEF Buffered
<1>10. /\ outcome' \in [Registrations -> {"none", "ok", "error"}]
       /\ \A m \in Registrations : outcome'[m] = IF m = m0 THEN "ok" ELSE outcome[m]
  BY <1>1, <1>2 DEF m0
<1>11. call'.msg = None /\ call'.step = "idle"  BY <1>2 DEF NoCall
<1>12. TypeOK'
  BY <1>2, <1>7, <1>10 DEF TypeOK, NoCall, Lined, srv
<1>13. None \notin outbox  BY BridgeAssumption DEF TypeOK
<1>14. Calling'  BY <1>2, <1>11, <1>13 DEF Calling
<1>15. Unsent'
  BY <1>2, <1>4, <1>9, <1>10, <1>11, BridgeAssumption DEF Unsent
<1>16. Sockets'  BY <1>2, <1>7 DEF Sockets
<1>17. Single'
  <2>1. \A c \in Conns : m0 \notin Lines(buffer[c])  BY <1>4 DEF Buffered
  <2>2. \A c, d \in Conns : c # d => Lines(buffer'[c]) \cap Lines(buffer'[d]) = {}
    BY <1>8, <2>1 DEF Single
  <2>3. \A m \in Registrations : handled[m] > 0 => m # m0  BY <1>4
  <2>4. \A m \in Registrations : handled'[m] > 0 => ~Buffered(m)'
    BY <1>2, <1>9, <2>3 DEF Single
  <2>. QED  BY <1>2, <1>8, <2>2, <2>4 DEF Single
<1>18. Errors'  BY <1>2, <1>9, <1>10 DEF Errors
<1>19. Successes'  BY <1>2, <1>9, <1>10, BridgeAssumption DEF Successes
<1>. QED  BY <1>12, <1>14, <1>15, <1>16, <1>17, <1>18, <1>19

(* A write that fails leaves no line.                                      *)
LEMMA FailedKeeps ==
  ASSUME IInv, Write, Failed
  PROVE  IInv'
<1> USE DEF IInv
<1>1. /\ buffer \in [Conns -> Seq(Lined)] /\ conn \in Conns
      /\ call.msg \in Registrations /\ call.msg # None
      /\ outcome \in [Registrations -> {"none", "ok", "error"}]
      /\ handled \in [Registrations -> Nat]
      /\ call \in [step : {"idle", "try", "retry"}, msg : Registrations \cup {None}]
  BY BridgeAssumption DEF TypeOK, Lined, Write, Calling
<1>2. /\ UNCHANGED <<outbox, state, srv, handled, cut>>
      /\ hungUp' = hungUp \cup {conn} /\ conn' = None
  BY DEF Write, Failed
<1> DEFINE m0 == call.msg
           x  == Stub(m0)
<1>3. /\ buffer' \in [Conns -> Seq(Lined)]
      /\ \A c \in Conns : Lines(buffer'[c]) = Lines(buffer[c]) /\ Once(buffer'[c])
      /\ \A c \in Conns : buffer'[c] # <<>> => state[c] \in {"waiting", "accepted"}
  <2>1. CASE state[conn] = "closed" /\ UNCHANGED buffer
    BY <1>1, <2>1 DEF Single, Sockets
  <2>2. CASE state[conn] # "closed" /\ buffer' = [buffer EXCEPT ![conn] = Append(@, x)]
    <3>1. x \in Lined /\ ~x.whole  BY <1>1 DEF Stub, Lined
    <3>2. Once(buffer[conn])  BY <1>1 DEF Single
    <3>3. /\ Append(buffer[conn], x) \in Seq(Lined)
          /\ Lines(Append(buffer[conn], x)) = Lines(buffer[conn])
          /\ Once(Append(buffer[conn], x))
      BY <1>1, <3>1, <3>2, LinesAppend
    <3>4. state[conn] \in {"waiting", "accepted"}
      <4>1. state[conn] # "unused"  BY <1>1, BridgeAssumption DEF Sockets
      <4>. QED  BY <1>1, <2>2, <4>1 DEF TypeOK
    <3>5. /\ buffer' \in [Conns -> Seq(Lined)]
          /\ \A c \in Conns : buffer'[c] = IF c = conn THEN Append(buffer[conn], x) ELSE buffer[c]
      BY <1>1, <2>2, <3>3
    <3> HIDE DEF x
    <3>. QED  BY <3>3, <3>4, <3>5 DEF Single, Sockets
  <2>. QED  BY <2>1, <2>2 DEF Failed
<1> HIDE DEF x
<1>4. \A m : Buffered(m)' <=> Buffered(m)  BY <1>3 DEF Buffered
<1>5. \/ call' = [call EXCEPT !.step = "retry"] /\ outcome' = outcome
      \/ call' = NoCall /\ outcome' = [outcome EXCEPT ![m0] = "error"]
  BY DEF Failed, Finish
<1>6. outcome[m0] = "none" /\ handled[m0] = 0 /\ ~Buffered(m0) /\ m0 \notin outbox
  BY <1>1 DEF Unsent, Calling
<1>7. None \notin outbox  BY BridgeAssumption DEF TypeOK
<1>8. /\ outcome' \in [Registrations -> {"none", "ok", "error"}]
      /\ call' \in [step : {"idle", "try", "retry"}, msg : Registrations \cup {None}]
  BY <1>1, <1>5 DEF NoCall
<1>9. \/ call'.step = "retry" /\ call'.msg = m0 /\ outcome' = outcome
      \/ /\ call'.step = "idle" /\ call'.msg = None
         /\ \A m \in Registrations : outcome'[m] = IF m = m0 THEN "error" ELSE outcome[m]
  BY <1>1, <1>5 DEF NoCall
<1>10. TypeOK'  BY <1>1, <1>2, <1>3, <1>8 DEF TypeOK, Lined, srv
<1> HIDE DEF m0
<1>11. Calling'
  <2>1. m0 # None  BY <1>1 DEF m0
  <2>. QED  BY <1>2, <1>6, <1>7, <1>9, <2>1 DEF Calling
<1>12. Unsent'
  <2>1. \A m \in Registrations : m # None  BY BridgeAssumption
  <2>. QED  BY <1>2, <1>4, <1>6, <1>9, <2>1 DEF Unsent, m0
<1>13. Sockets'  BY <1>2, <1>3 DEF Sockets
<1>14. Single'  BY <1>2, <1>3, <1>4 DEF Single
<1>15. Errors'  BY <1>2, <1>4, <1>6, <1>9 DEF Errors
<1>16. Successes'
  <2>1. \A m \in Valid : outcome'[m] = "ok" => outcome[m] = "ok"
    BY <1>9, BridgeAssumption
  <2>. QED  BY <1>2, <1>4, <2>1 DEF Successes
<1>. QED  BY <1>10, <1>11, <1>12, <1>13, <1>14, <1>15, <1>16

(* A line is read: it was there once, is there no more, and counts once.   *)
LEMMA ReadKeeps ==
  ASSUME IInv, NEW c0 \in Conns, ReadLine(c0)
  PROVE  IInv'
<1> USE DEF IInv
<1>1. /\ buffer \in [Conns -> Seq(Lined)] /\ handled \in [Registrations -> Nat]
  BY DEF TypeOK, Lined
<1> DEFINE q == buffer[c0]
           m0 == Head(q).msg
<1>2. /\ UNCHANGED <<client, state, hungUp, srv, cut>>
      /\ q # <<>> /\ Head(q).whole
      /\ handled' = IF m0 \in Valid THEN [handled EXCEPT ![m0] = @ + 1] ELSE handled
      /\ buffer' = [buffer EXCEPT ![c0] = Tail(q)]
  BY DEF ReadLine, Handle
<1>3. UNCHANGED <<outbox, call, conn, outcome, state, hungUp, server, serve, handlers, stops, cut>>
  BY <1>2 DEF client, srv
<1>4. q \in Seq(Lined) /\ Once(q)  BY <1>1 DEF Single
<1>5. /\ Head(q) \in Lined /\ Tail(q) \in Seq(Lined) /\ Once(Tail(q))
      /\ Lines(q) = Lines(Tail(q)) \cup {m0} /\ m0 \notin Lines(Tail(q))
  BY <1>2, <1>4, LinesTail
<1>6. m0 \in Registrations  BY <1>5 DEF Lined
<1>7. /\ buffer' \in [Conns -> Seq(Lined)]
      /\ \A c \in Conns : buffer'[c] = IF c = c0 THEN Tail(q) ELSE buffer[c]
  BY <1>1, <1>2, <1>5
<1>8. Buffered(m0)  BY <1>5 DEF Buffered
<1>9. /\ handled[m0] = 0
      /\ m0 \notin outbox /\ m0 # call.msg /\ outcome[m0] # "error"
  <2>1. handled[m0] = 0  BY <1>1, <1>6, <1>8 DEF Single
  <2>. QED  BY <1>6, <1>8, <2>1 DEF Unsent, Errors
<1>10. /\ handled' \in [Registrations -> Nat]
       /\ \A m \in Registrations : handled'[m] = IF m = m0 /\ m \in Valid THEN 1 ELSE handled[m]
  BY <1>1, <1>2, <1>6, <1>9
<1>11. /\ \A c \in Conns : Lines(buffer'[c]) = IF c = c0 THEN Lines(buffer[c]) \ {m0}
                                              ELSE Lines(buffer[c])
       /\ \A c \in Conns : Once(buffer'[c])
  <2>1. Lines(Tail(q)) = Lines(q) \ {m0}  BY <1>5
  <2>. QED  BY <1>5, <1>7, <2>1 DEF Single
<1>12. \A c \in Conns : c # c0 => m0 \notin Lines(buffer[c])
  <2>1. m0 \in Lines(buffer[c0])  BY <1>5
  <2> HIDE DEF m0, q
  <2>. QED  BY <2>1 DEF Single
<1> HIDE DEF m0
<1>13. \A m : Buffered(m)' <=> Buffered(m) /\ m # m0  BY <1>11, <1>12 DEF Buffered
<1>14. TypeOK'  BY <1>3, <1>7, <1>10 DEF TypeOK, Lined
<1>15. Calling'  BY <1>3 DEF Calling
<1>16. Unsent'  BY <1>3, <1>9, <1>10, <1>13 DEF Unsent
<1>17. Sockets'
  <2>1. state[c0] \in {"waiting", "accepted"}  BY <1>2 DEF Sockets
  <2>. QED  BY <1>3, <1>7, <2>1 DEF Sockets
<1>18. Single'
  <2>1. \A c, d \in Conns : c # d => Lines(buffer'[c]) \cap Lines(buffer'[d]) = {}
    BY <1>11 DEF Single
  <2>2. \A m \in Registrations : handled'[m] > 0 => m = m0 \/ handled[m] > 0  BY <1>10
  <2>3. \A m \in Registrations : handled'[m] > 0 => ~Buffered(m)'
    BY <1>13, <2>2 DEF Single
  <2>4. \A m \in Registrations : handled'[m] <= 1  BY <1>10 DEF Single
  <2>. QED  BY <1>11, <2>1, <2>3, <2>4 DEF Single
<1>19. Errors'  BY <1>3, <1>9, <1>10, <1>13 DEF Errors
<1>20. Successes'
  <2>1. \A m \in Valid : Buffered(m) => Buffered(m)' \/ handled'[m] = 1
    BY <1>10, <1>13, BridgeAssumption
  <2>2. \A m \in Valid : handled[m] = 1 => handled'[m] = 1  BY <1>10, BridgeAssumption
  <2>. QED  BY <1>3, <2>1, <2>2 DEF Successes
<1>. QED  BY <1>14, <1>15, <1>16, <1>17, <1>18, <1>19, <1>20

(* A new call takes its registration out of the outbox.                    *)
LEMMA SendKeeps ==
  ASSUME IInv, NEW m0 \in Registrations, Send(m0)
  PROVE  IInv'
<1> USE DEF IInv
<1>1. /\ UNCHANGED <<conn, outcome, state, buffer, hungUp, server, serve, handlers, stops, handled, cut>>
      /\ m0 \in outbox /\ outbox' = outbox \ {m0}
      /\ call' = [step |-> "try", msg |-> m0]
  BY DEF Send, srv
<1>2. call'.step = "try" /\ call'.msg = m0  BY <1>1
<1>3. /\ \A m : Buffered(m)' <=> Buffered(m)
      /\ \A c \in Conns : Lines(buffer[c])' = Lines(buffer[c])
      /\ \A c \in Conns : Once(buffer[c])' <=> Once(buffer[c])
  BY <1>1, SameBuffered
<1>4. TypeOK'  BY <1>1 DEF TypeOK
<1>5. Calling'  BY <1>1, <1>2, BridgeAssumption DEF Calling
<1>6. Unsent'  BY <1>1, <1>2, <1>3 DEF Unsent
<1>7. Sockets'  BY <1>1 DEF Sockets
<1>8. Single'  BY <1>1, <1>3 DEF Single
<1>9. Errors' /\ Successes'  BY <1>1, <1>3 DEF Errors, Successes
<1>. QED  BY <1>4, <1>5, <1>6, <1>7, <1>8, <1>9

(* Dialling: a new connection, or the call ends with an error.             *)
LEMMA EnsureConnKeeps ==
  ASSUME IInv, ensureConn
  PROVE  IInv'
<1> USE DEF IInv
<1>1. UNCHANGED <<outbox, buffer, hungUp, server, serve, handlers, stops, handled, cut>>
  BY DEF ensureConn, srv
<1>2. /\ \A m : Buffered(m)' <=> Buffered(m)
      /\ \A c \in Conns : Lines(buffer[c])' = Lines(buffer[c])
      /\ \A c \in Conns : Once(buffer[c])' <=> Once(buffer[c])
  BY <1>1, SameBuffered
<1>3. Single'  BY <1>1, <1>2 DEF Single
<1>4. CASE /\ \E c \in Conns : state[c] = "unused"
           /\ conn' = CHOOSE c \in Conns : state[c] = "unused"
           /\ state' = [state EXCEPT ![conn'] = "waiting"]
           /\ UNCHANGED <<call, outcome>>
  <2>1. conn' \in Conns /\ state[conn'] = "unused"  BY <1>4
  <2>2. /\ state' \in [Conns -> {"unused", "waiting", "accepted", "closed"}]
        /\ \A c \in Conns : state'[c] = IF c = conn' THEN "waiting" ELSE state[c]
    BY <1>4, <2>1 DEF TypeOK
  <2>3. TypeOK'  BY <1>1, <1>4, <2>1, <2>2 DEF TypeOK
  <2>4. Calling' /\ Unsent'  BY <1>1, <1>2, <1>4 DEF Calling, Unsent
  <2>5. Sockets'  BY <1>1, <2>1, <2>2 DEF Sockets
  <2>6. Errors' /\ Successes'  BY <1>1, <1>2, <1>4 DEF Errors, Successes
  <2>. QED  BY <1>3, <2>3, <2>4, <2>5, <2>6
<1>5. CASE Finish("error") /\ UNCHANGED <<conn, state>>
  <2> DEFINE m0 == call.msg
  <2>1. /\ m0 \in Registrations /\ m0 # None
        /\ outcome \in [Registrations -> {"none", "ok", "error"}]
    BY BridgeAssumption DEF TypeOK, ensureConn, Calling
  <2>2. /\ call' = NoCall /\ call'.step = "idle" /\ call'.msg = None
        /\ outcome' \in [Registrations -> {"none", "ok", "error"}]
        /\ \A m \in Registrations : outcome'[m] = IF m = m0 THEN "error" ELSE outcome[m]
    BY <1>5, <2>1 DEF Finish, NoCall
  <2>3. handled[m0] = 0 /\ ~Buffered(m0)  BY <2>1 DEF Unsent
  <2>4. TypeOK'  BY <1>1, <1>5, <2>2 DEF TypeOK, NoCall
  <2>5. None \notin outbox /\ m0 \notin outbox /\ \A m \in Registrations : m # None
    BY BridgeAssumption DEF TypeOK, Calling
  <2> HIDE DEF m0
  <2>6. Calling'  BY <1>1, <2>2, <2>5 DEF Calling
  <2>7. Unsent'  BY <1>1, <1>2, <2>2, <2>5 DEF Unsent
  <2>8. Sockets'  BY <1>1, <1>5 DEF Sockets
  <2>9. Errors'  BY <1>1, <1>2, <2>2, <2>3 DEF Errors
  <2>10. \A m \in Valid : outcome'[m] = "ok" => outcome[m] = "ok"  BY <2>2, BridgeAssumption
  <2>11. Successes'  BY <1>1, <1>2, <2>10 DEF Successes
  <2>. QED  BY <1>3, <2>4, <2>6, <2>7, <2>8, <2>9, <2>11
<1>. QED  BY <1>4, <1>5 DEF ensureConn

(* Steps that change no line, no call and no outcome.                      *)
LEMMA QuietKeeps ==
  ASSUME IInv, TypeOK', UNCHANGED <<outbox, call, outcome, buffer, handled, cut>>,
         \A c \in Conns : state[c] \in {"waiting", "accepted"} => state'[c] \in {"waiting", "accepted"},
         conn' # None => conn' = conn /\ state'[conn] # "unused"
  PROVE  IInv'
<1> USE DEF IInv
<1>1. /\ \A m : Buffered(m)' <=> Buffered(m)
      /\ \A c \in Conns : Lines(buffer[c])' = Lines(buffer[c])
      /\ \A c \in Conns : Once(buffer[c])' <=> Once(buffer[c])
  BY SameBuffered
<1>2. Calling' /\ Unsent'  BY <1>1 DEF Calling, Unsent
<1>3. Sockets'  BY DEF Sockets
<1>4. Single'  BY <1>1 DEF Single
<1>5. Errors' /\ Successes'  BY <1>1 DEF Errors, Successes
<1>. QED  BY <1>2, <1>3, <1>4, <1>5
-----------------------------------------------------------------------------
LEMMA InitIInv == Init => IInv
<1> SUFFICES ASSUME Init PROVE IInv  OBVIOUS
<1>1. \A c \in Conns : buffer[c] = <<>>  BY DEF Init
<1>2. \A m : ~Buffered(m)  BY <1>1, LinesEmpty DEF Buffered
<1>3. TypeOK
  <2>1. <<>> \in Seq([msg : Registrations, whole : BOOLEAN])  BY EmptySeq
  <2>. QED  BY <2>1, BridgeAssumption DEF Init, TypeOK, NoCall
<1>4. Calling  BY BridgeAssumption DEF Init, Calling, NoCall
<1>5. Unsent  BY <1>2 DEF Init, Unsent
<1>6. Sockets  BY <1>1 DEF Init, Sockets
<1>7. Single
  <2>1. \A c \in Conns : Once(buffer[c]) /\ Lines(buffer[c]) = {}  BY <1>1, LinesEmpty
  <2>2. \A m \in Registrations : handled[m] = 0  BY DEF Init
  <2>. QED  BY <1>2, <2>1, <2>2 DEF Single
<1>8. Errors /\ Successes
  <2>1. \A m \in Registrations : outcome[m] = "none"  BY DEF Init
  <2>. QED  BY <2>1, BridgeAssumption DEF Errors, Successes
<1>. QED  BY <1>3, <1>4, <1>5, <1>6, <1>7, <1>8 DEF IInv

LEMMA NextIInv == IInv /\ [Next]_vars => IInv'
<1> SUFFICES ASSUME IInv, [Next]_vars PROVE IInv'  OBVIOUS
<1> USE DEF IInv
<1>1. ASSUME NEW m \in Registrations, Send(m) PROVE IInv'  BY <1>1, SendKeeps
<1>2. CASE ensureConn  BY <1>2, EnsureConnKeeps
<1>3. CASE Write  BY <1>3, WrittenKeeps, FailedKeeps DEF Write
<1>4. CASE ClientClose
  <2>1. TypeOK'  BY <1>4 DEF ClientClose, TypeOK, srv
  <2>. QED  BY <1>4, <2>1, QuietKeeps DEF ClientClose
<1>5. CASE Listen
  <2>1. TypeOK'  BY <1>5 DEF Listen, TypeOK, client
  <2>. QED  BY <1>5, <2>1, QuietKeeps DEF Listen, client, Sockets
<1>6. CASE Accept
  <2>1. PICK c \in Conns : state' = [state EXCEPT ![c] = "accepted"] /\ serve' = c
    BY <1>6 DEF Accept, Waiting
  <2>2. UNCHANGED <<outbox, call, conn, outcome, buffer, hungUp, server, handlers, stops, handled, cut>>
    BY <1>6 DEF Accept, client
  <2>3. TypeOK'  BY <2>1, <2>2 DEF TypeOK
  <2>4. \A d \in Conns : state'[d] = IF d = c THEN "accepted" ELSE state[d]
    BY <2>1 DEF TypeOK
  <2>5. conn # None => conn \in Conns  BY DEF TypeOK
  <2>. QED  BY <2>2, <2>3, <2>4, <2>5, QuietKeeps DEF Sockets
<1>7. CASE Reject
  <2>1. {serve} \in SUBSET Conns /\ DropAll({serve}) /\ UNCHANGED <<client, handled>>
    BY <1>7 DEF Reject, TypeOK
  <2>2. TypeOK'  BY <1>7, <2>1, DropKeeps DEF Reject, TypeOK, client, Lined
  <2>. QED  BY <2>1, <2>2, DropKeeps
<1>8. CASE Spawn
  <2>1. TypeOK'  BY <1>8 DEF Spawn, TypeOK, client
  <2>. QED  BY <1>8, <2>1, QuietKeeps DEF Spawn, client, Sockets
<1>9. CASE Close
  <2>1. Waiting \in SUBSET Conns /\ DropAll(Waiting) /\ UNCHANGED <<client, handled>>
    BY <1>9 DEF Close, Waiting
  <2>2. /\ state' \in [Conns -> {"unused", "waiting", "accepted", "closed"}]
        /\ buffer' \in [Conns -> Seq(Lined)] /\ cut' \subseteq Registrations
    BY <2>1, DropKeeps
  <2>3. server' = "closing" /\ stops' \in Nat /\ UNCHANGED <<hungUp, serve, handlers>>
    BY <1>9 DEF Close, TypeOK
  <2>4. TypeOK'  BY <2>1, <2>2, <2>3 DEF TypeOK, client, Lined
  <2>. QED  BY <2>1, <2>4, DropKeeps
<1>10. CASE CloseReturns
  <2>1. TypeOK'  BY <1>10 DEF CloseReturns, TypeOK, client
  <2>. QED  BY <1>10, <2>1, QuietKeeps DEF CloseReturns, client, Sockets
<1>11. CASE Exit
  <2> DEFINE cs == {c \in Conns : state[c] \in {"waiting", "accepted"}}
  <2>1. cs \in SUBSET Conns /\ DropAll(cs) /\ UNCHANGED <<client, handled>>
    BY <1>11 DEF Exit
  <2> HIDE DEF cs
  <2>2. /\ state' \in [Conns -> {"unused", "waiting", "accepted", "closed"}]
        /\ buffer' \in [Conns -> Seq(Lined)] /\ cut' \subseteq Registrations
    BY <2>1, DropKeeps
  <2>3. server' = "down" /\ stops' \in Nat /\ serve' = None /\ handlers' = {} /\ UNCHANGED hungUp
    BY <1>11 DEF Exit, TypeOK
  <2>4. TypeOK'  BY <2>1, <2>2, <2>3 DEF TypeOK, client, Lined
  <2>. QED  BY <2>1, <2>4, DropKeeps
<1>12. ASSUME NEW c \in Conns, ReadLine(c) PROVE IInv'  BY <1>12, ReadKeeps
<1>13. ASSUME NEW c \in Conns, EndOfStream(c) \/ Deadline(c) PROVE IInv'
  <2>1. /\ {c} \in SUBSET Conns /\ DropAll({c}) /\ UNCHANGED <<client, handled>>
        /\ handlers' = handlers \ {c} /\ UNCHANGED <<hungUp, server, serve, stops>>
    BY <1>13 DEF EndOfStream, Deadline
  <2>2. TypeOK'  BY <2>1, DropKeeps DEF TypeOK, client, Lined
  <2>. QED  BY <2>1, <2>2, DropKeeps
<1>14. CASE UNCHANGED vars
  <2>1. TypeOK'  BY <1>14 DEF vars, TypeOK
  <2>. QED  BY <1>14, <2>1, QuietKeeps DEF vars, Sockets
<1>. QED
  BY <1>1, <1>2, <1>3, <1>4, <1>5, <1>6, <1>7, <1>8, <1>9, <1>10, <1>11, <1>12, <1>13, <1>14
  DEF Next, Handler
-----------------------------------------------------------------------------
LEMMA Invariance == Spec => []IInv
BY InitIInv, NextIInv, PTL DEF Spec

(* Every variable of the bridge keeps its type.                            *)
THEOREM BridgeTypeOK == Spec => []TypeOK
<1>1. IInv => TypeOK  BY DEF IInv
<1>. QED  BY Invariance, <1>1, PTL

(* sendJSON's second attempt never makes the sensor act twice, and what    *)
(* Register reported as an error is never acted on.                        *)
THEOREM ActedOnAtMostOnce == Spec => []HandledOnce
<1>1. IInv => HandledOnce  BY DEF IInv, HandledOnce, Single, Errors, Buffered
<1>. QED  BY Invariance, <1>1, PTL

(* A registration whose Register returned nil is lost only with the        *)
(* connection that held it.                                                *)
THEOREM LostOnlyWithConnection == Spec => []OkMeansDelivered
<1>1. IInv => OkMeansDelivered
  <2> SUFFICES ASSUME IInv, NEW m \in Valid, outcome[m] = "ok", Buffered(m)
               PROVE  \E c \in Conns : m \in Lines(buffer[c]) /\ state[c] \in {"waiting", "accepted"}
    BY DEF IInv, Successes, OkMeansDelivered
  <2>1. PICK c \in Conns : m \in Lines(buffer[c])  BY DEF Buffered
  <2>2. buffer[c] # <<>>  BY <2>1, LinesEmpty
  <2>. QED  BY <2>1, <2>2 DEF IInv, Sockets
<1>. QED  BY Invariance, <1>1, PTL
=============================================================================
