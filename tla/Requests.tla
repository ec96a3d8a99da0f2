------------------------------ MODULE Requests ------------------------------
(***************************************************************************)
(* What the dispatch of a session promises an agent, without saying how:   *)
(* every request is refused, answered by the proxy, or forwarded once; a   *)
(* forwarded one is answered once with what some server said to it and the *)
(* engine has seen, or fails; a sealed request (one that has found the     *)
(* fail-closed flag on ever since it came) is never forwarded.  A request  *)
(* whose id a server guessed before the request was forwarded may also be  *)
(* answered with what the engine has not seen.                             *)
(***************************************************************************)
CONSTANT Calls

VARIABLES
  status,   \* where each request stands
  sealed,   \* requests that may not be forwarded
  guessed   \* requests answered before they were asked

vars == <<status, sealed, guessed>>

Init == status = [c \in Calls |-> "new"] /\ sealed = {} /\ guessed = {}

Move(c, from, to) ==
  status[c] = from /\ status' = [status EXCEPT ![c] = to] /\ UNCHANGED guessed

Open(c, seal) ==
  /\ Move(c, "new", "open")
  /\ sealed' = IF seal THEN sealed \cup {c} ELSE sealed
AnswerHere(c) == Move(c, "new", "settled") /\ UNCHANGED sealed
Refuse(c) == Move(c, "open", "refused") /\ UNCHANGED sealed
Forward(c) == c \notin sealed /\ Move(c, "open", "forwarded") /\ UNCHANGED sealed
Answer(c) == Move(c, "forwarded", "answered") /\ UNCHANGED sealed
Mislead(c) == c \in guessed /\ Move(c, "forwarded", "unvetted") /\ UNCHANGED sealed
Fail(c) == Move(c, "forwarded", "failed") /\ UNCHANGED sealed
Guess(c) ==
  status[c] \in {"new", "open"} /\ guessed' = guessed \cup {c} /\ UNCHANGED <<status, sealed>>
Unseal == sealed' = {} /\ UNCHANGED <<status, guessed>>

Next ==
  \/ \E c \in Calls : \/ \E seal \in BOOLEAN : Open(c, seal)
                      \/ AnswerHere(c) \/ Refuse(c) \/ Forward(c)
                      \/ Answer(c) \/ Mislead(c) \/ Fail(c) \/ Guess(c)
  \/ Unseal

Spec == Init /\ [][Next]_vars
=============================================================================
