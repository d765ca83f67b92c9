-------------------------------- MODULE Gates --------------------------------
(***************************************************************************)
(* Ordered checks.  The verifiers of gpuforge are sequences of conditions, *)
(* each with the reason or error code that is given when it is the first   *)
(* not to hold.  A gate is a record of such a reason and whether it        *)
(* passes.                                                                 *)
(***************************************************************************)
EXTENDS Naturals, Sequences

Gate(reason, passes) == [reason |-> reason, passes |-> passes]

AllPass(gates) == \A i \in DOMAIN gates : gates[i].passes

FirstFailure(gates) ==
    gates[CHOOSE i \in DOMAIN gates :
              ~gates[i].passes /\ \A j \in 1..(i - 1) : gates[j].passes].reason

=============================================================================
