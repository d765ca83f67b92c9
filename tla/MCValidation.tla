---------------------------- MODULE MCValidation ----------------------------
(* Two leases with a commitment each, and evidence that is right, a second    *)
(* piece of evidence for the same lease, one with a seed that was made up,    *)
(* and pieces that fail at one or more of the gates.                          *)
EXTENDS Validation

C1 == [lease |-> "l1", deadline |-> 2]
C2 == [lease |-> "l2", deadline |-> 1]
MCCommitments == {C1, C2}

Good(c) ==
    [lease |-> c.lease, reveal |-> BuildReveal(c), signed |-> TRUE, leased |-> TRUE,
     bundled |-> TRUE,
     tier |-> "B", linked |-> TRUE, image |-> TRUE, measured |-> TRUE,
     plausibility |-> "plausible"]

MCEvidences ==
    {Good(C1),
     [Good(C1) EXCEPT !.tier = "A", !.plausibility = "slow_review"],
     [Good(C1) EXCEPT !.reveal.seed = Guess],
     [Good(C2) EXCEPT !.signed = FALSE, !.bundled = FALSE, !.tier = "C", !.image = FALSE],
     [Good(C2) EXCEPT !.reveal.intact = FALSE],
     [Good(C2) EXCEPT !.measured = FALSE, !.plausibility = "unprofiled"]}

=============================================================================
