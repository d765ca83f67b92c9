---------------------------- MODULE MCAttestation ----------------------------
(* Two requests, of which one expects an H100; one GPU whose certificates     *)
(* expire early, one in order, and three with one fault each; bundles of one  *)
(* and two GPUs collected at three times.                                     *)
EXTENDS Attestation

InOrder == [measured |-> TRUE, sound |-> TRUE, hopper |-> TRUE, expiry |-> 9]
Early   == [InOrder EXCEPT !.expiry = 1]
Altered == [InOrder EXCEPT !.measured = FALSE]
Debug   == [InOrder EXCEPT !.sound = FALSE]
Other   == [InOrder EXCEPT !.hopper = FALSE]

MCDevices == {InOrder, Early, Altered, Debug, Other}

Rest == {b \in [supported : BOOLEAN, nvat : BOOLEAN, nonce : Requests, collected_at : {0},
                devices : {{Altered}, {Other}}] : b.supported \/ b.nvat}

MCBundles ==
    Rest \cup [supported : {TRUE}, nvat : {TRUE}, nonce : Requests, collected_at : {0, 1, 3},
               devices : {{InOrder}, {Early, InOrder}, {InOrder, Debug}}]

=============================================================================
