----------------------------- MODULE MCGovernor -----------------------------
(* Instances of Governor for TLC. *)
EXTENDS Governor, TLC

\* Creators are alike, and so are goals.
Alikes == Permutations(Creators) \cup Permutations(Goals)
=============================================================================
