----------------------------- MODULE MCSessions -----------------------------
(* Handles are alike, and so are ids.                                      *)
EXTENDS Sessions, TLC

Alike == Permutations(Handles) \cup Permutations(Ids)
=============================================================================
