-------------------------- MODULE MCArtifactTransfer --------------------------
(* Three artifacts for ArtifactTransfer, of different lengths, one of them     *)
(* larger than what may be fetched.                                           *)
EXTENDS ArtifactTransfer, TLC

CONSTANTS short, long, huge

MCSize == (short :> 1) @@ (long :> 2) @@ (huge :> 3)

=============================================================================
