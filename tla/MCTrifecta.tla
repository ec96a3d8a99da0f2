----------------------------- MODULE MCTrifecta -----------------------------
(***************************************************************************)
(* Small instances of Trifecta.  Secret k1 is two atoms long, so it can be *)
(* split over two results; k2 is one atom and comes with the end of k1.    *)
(* `page` is what a fetched page holds and what a file without             *)
(* recognisable secrets holds.  A call carries nothing, the secret itself, *)
(* or the page with what the vault put in the secret's place.              *)
(***************************************************************************)
EXTENDS Trifecta, TLC

A(x) == [lit |-> x]
k1 == <<A("k1a"), A("k1b")>>
k2 == <<A("k2")>>
page == <<A("newline"), A("p")>>

(* A newline is an escape on the wire; no secret of these instances holds  *)
(* one.                                                                    *)
MCEscaped == {A("newline")}

MCSecretTexts == {k1, k2}
MCResultTexts == {<<A("k1a")>>, <<A("k1b")>> \o k2, page}
MCArgTexts    == {<<>>, k1, page \o <<[dummy |-> k1]>>}

(* The store instance has one key, long enough to be matched by chunks:    *)
(* armour around a body and a dull ruler.  A payload holds a piece of the  *)
(* body, or only what many such files hold.  Sessions are interchangeable. *)
SessionSymmetry == Permutations(Sessions)
key == <<A("begin"), A("body"), A("ruler"), A("end")>>
MCArmour == [begin |-> {A("begin")}, end |-> {A("end")}, putty |-> {A("ppk")}]
MCLowEntropy == {<<A("ruler")>>}
StoreResultTexts == {<<>>, key}
StoreSecretTexts == {key}
StoreArgTexts == {<<A("body")>>, <<A("end"), A("begin"), A("ruler")>>}

Read == [name |-> "read_ticket", server |-> "tickets"]
Fetch == [name |-> "fetch_page", server |-> "web"]
Send == [name |-> "send_message", server |-> "messenger"]
Helper == [name |-> "helper", server |-> "tickets"]

MCTools == {Read, Fetch, Send}
StoreTools == {Read, Helper}
MCToolTags == [x \in {"helper"} |-> {}]
MCServerTags == [x \in {"tickets", "messenger"} |->
                   IF x = "tickets" THEN {"sensitive_source"} ELSE {"external_sink"}]

Vaulting == [untrustedToolResults |-> TRUE, legTTL |-> 0, decayAfterCalls |-> 3, vaultEnabled |-> TRUE]
Hurried == [untrustedToolResults |-> TRUE, legTTL |-> 1, decayAfterCalls |-> 2, vaultEnabled |-> FALSE]
MCConfigs == {Vaulting, Hurried}
StoreConfigs == {Hurried}
=============================================================================
