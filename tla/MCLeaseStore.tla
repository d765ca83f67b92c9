---------------------------- MODULE MCLeaseStore ----------------------------
(* Instances of LeaseStore for TLC.  Leases, manifests and failure codes are *)
(* interchangeable, so the runs that check invariants use symmetry.          *)
EXTENDS LeaseStore, TLC

Symmetry == Permutations(Leases) \cup Permutations(Manifests) \cup Permutations(Codes)

=============================================================================
