---------------------------- MODULE MCReplayCache ----------------------------
(* Instances of ReplayCache for TLC.  Keys and scopes are interchangeable.    *)
EXTENDS ReplayCache, TLC

Symmetry == Permutations(Keys) \cup Permutations(Scopes)

=============================================================================
