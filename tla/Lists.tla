-------------------------------- MODULE Lists -------------------------------
(***************************************************************************)
(* Rows and keys that go from a list while the others keep their order, as *)
(* pruneLocked deletes rows, and filterPIDKeysLocked and Remove keys.      *)
(***************************************************************************)
EXTENDS Integers, Sequences, FiniteSets

(* The members of s at the given places, in the order they have in s.      *)
Subsequence(s, places) ==
  [k \in 1..Cardinality(places) |->
     s[CHOOSE i \in places : Cardinality({j \in places : j < i}) = k - 1]]

(* The members of s that are not in `gone`.                                *)
Without(s, gone) == Subsequence(s, {i \in DOMAIN s : s[i] \notin gone})
=============================================================================
