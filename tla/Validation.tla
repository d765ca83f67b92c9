----------------------------- MODULE Validation -----------------------------
(***************************************************************************)
(* validate_execution (validation.py): the ordered gates between evidence  *)
(* and a receipt, composed with the challenge verifier that its            *)
(* challenge_check calls.                                                  *)
(*                                                                         *)
(* The validator may validate any submitted evidence at any block, and any *)
(* evidence again, for instance after a receipt that says a verifier was   *)
(* unavailable.  Its process may restart.  The correctness check is the    *)
(* caller's and may answer either way or raise; a challenge_check that     *)
(* fails answers False or lets the ChallengeFailure through.               *)
(***************************************************************************)
EXTENDS ChallengeVerifier, Gates

CONSTANTS
    Evidences,      \* the evidence miners submit, see IsEvidence
    Start,          \* lease.start_block
    Deadline,       \* lease.deadline_block
    Expires,        \* manifest.expires_at_block
    MaximumAge,     \* maximum_age_blocks
    MinimumTier,    \* minimum_tier
    NoEvidence      \* no evidence

VARIABLES
    submitted,      \* submitted_at_block of each evidence, -1 before
    receipt,        \* the receipt the last step issued, or NoReceipt
    acceptances,    \* history: accepted receipts of each lease in this process
    early           \* history: evidence submitted before the reveal for its lease

validationVars == <<challengeVars, submitted, receipt, acceptances, early>>

NoReceipt == [evidence |-> NoEvidence, reason |-> "none"]

Tiers == {"C", "B", "A"}
Rank == [C |-> 1, B |-> 2, A |-> 3]

Decisions == {"plausible", "slow_review", "impossible", "unprofiled"}

\* What validation reads: the lease, the reveal its challenge is answered with,
\* whether the three signatures verify, whether the lease is for the manifest
\* and the miner, whether the bundle's references are those of the lease and of
\* the signed evidence, the attested tier or "none", whether the attestation is
\* the one in the evidence, the image the manifest's, and the measurement the
\* one reported, and the plausibility decision.
IsEvidence(e) ==
    /\ \E c \in Commitments : c.lease = e.lease
    /\ IsReveal(e.reveal)
    /\ {e.signed, e.leased, e.bundled, e.linked, e.image, e.measured} \subseteq BOOLEAN
    /\ e.tier \in Tiers \cup {"none"}
    /\ e.plausibility \in Decisions

ASSUME EvidencesAssumption == \A e \in Evidences : IsEvidence(e)
ASSUME ValidationAssumption ==
    /\ {Start, Deadline, Expires} \subseteq Nat
    /\ MaximumAge \in Nat \ {0}
    /\ MinimumTier \in Tiers

LeasesOf == {e.lease : e \in Evidences}

\* lease.challenge_commitment: each lease carries one.
CommitmentOf(l) == CHOOSE c \in Commitments : c.lease = l

-----------------------------------------------------------------------------
(* The gates                                                                *)

Fresh(e) ==
    /\ submitted[e] <= block
    /\ block - submitted[e] <= MaximumAge
    /\ block <= Expires
    /\ Start <= block /\ block <= Deadline

\* EvidenceBundle.verify_binding
BundleBinds(e) == e.bundled

Bound(e) == e.leased /\ BundleBinds(e)

Attested(e) ==
    /\ e.tier # "none"
    /\ Rank[e.tier] >= Rank[MinimumTier]
    /\ e.linked

\* The gates before the checks, in their order.  The first one, schema_invalid,
\* is for values that cannot be constructed.
EarlyGates(e) ==
    << Gate("signature_invalid", e.signed),
       Gate("evidence_stale", Fresh(e)),
       Gate("lease_mismatch", Bound(e)),
       Gate("attestation_rejected", Attested(e)),
       Gate("image_mismatch", e.image) >>

\* The gates after them.
LateGates(e) ==
    << Gate("measurement_invalid", e.measured),
       Gate("throughput_implausible", e.plausibility # "impossible"),
       Gate("verifier_unavailable", e.plausibility # "unprofiled") >>

-----------------------------------------------------------------------------
(* validate_execution                                                       *)

Issue(e, reason) == receipt' = [evidence |-> e, reason |-> reason]

\* challenge_check returned True: the commitment is consumed.
Spend(e) ==
    LET c == CommitmentOf(e.lease) IN
    /\ Consumable(c, e.reveal, e.lease)
    /\ consumed' = consumed \cup {c}

RejectEarly(e) ==
    /\ ~AllPass(EarlyGates(e))
    /\ Issue(e, FirstFailure(EarlyGates(e)))
    /\ UNCHANGED <<consumed, acceptances>>

RejectChallenge(e) ==
    /\ AllPass(EarlyGates(e))
    /\ ~Consumable(CommitmentOf(e.lease), e.reveal, e.lease)
    /\ Issue(e, "challenge_rejected") \/ Issue(e, "verifier_unavailable")
    /\ UNCHANGED <<consumed, acceptances>>

RejectCorrectness(e) ==
    /\ AllPass(EarlyGates(e))
    /\ Spend(e)
    /\ Issue(e, "training_incorrect") \/ Issue(e, "verifier_unavailable")
    /\ UNCHANGED acceptances

RejectLate(e) ==
    /\ AllPass(EarlyGates(e))
    /\ Spend(e)
    /\ ~AllPass(LateGates(e))
    /\ Issue(e, FirstFailure(LateGates(e)))
    /\ UNCHANGED acceptances

Accept(e) ==
    /\ AllPass(EarlyGates(e))
    /\ Spend(e)
    /\ AllPass(LateGates(e))
    /\ Issue(e, "accepted")
    /\ acceptances' = [acceptances EXCEPT ![e.lease] = @ + 1]

\* Variant of Validate: the challenge is checked before the other gates.
ValidateChallengeFirst(e) ==
    /\ submitted[e] >= 0
    /\ \/ RejectChallenge(e)
       \/ /\ ~AllPass(EarlyGates(e))
          /\ Spend(e)
          /\ Issue(e, FirstFailure(EarlyGates(e)))
          /\ UNCHANGED acceptances
       \/ RejectCorrectness(e)
       \/ RejectLate(e)
       \/ Accept(e)
    /\ UNCHANGED <<block, published, acceptedLeases, revealed, blind, submitted, early>>

Validate(e) ==
    /\ submitted[e] >= 0
    /\ \/ RejectEarly(e)
       \/ RejectChallenge(e)
       \/ RejectCorrectness(e)
       \/ RejectLate(e)
       \/ Accept(e)
    /\ UNCHANGED <<block, published, acceptedLeases, revealed, blind, submitted, early>>

\* The miner signs evidence and says at which block s.  It may do so before it is
\* handed the reveal, with a seed it made up or one of another lease: it has the
\* seed of a commitment only from a reveal.
Submit(e, s) ==
    /\ submitted[e] = -1
    /\ e.lease \in acceptedLeases
    /\ e.reveal.seed # Guess => e.reveal.seed \in revealed
    /\ submitted' = [submitted EXCEPT ![e] = s]
    /\ early' = early \cup {x \in {e} : CommitmentOf(x.lease) \notin revealed}
    /\ receipt' = NoReceipt
    /\ UNCHANGED <<challengeVars, acceptances>>

Restart ==
    /\ RestartVerifier
    /\ acceptances' = [l \in LeasesOf |-> 0]
    /\ receipt' = NoReceipt
    /\ UNCHANGED <<submitted, early>>

-----------------------------------------------------------------------------
ValidationInit ==
    /\ ChallengeInit
    /\ submitted = [e \in Evidences |-> -1]
    /\ receipt = NoReceipt
    /\ acceptances = [l \in LeasesOf |-> 0]
    /\ early = {}

ChallengeNext ==
    \/ \E c \in Commitments : Commit(c) \/ Reveal(c)
    \/ \E l \in LeasesOf : AcceptLease(l)
    \/ Tick

ValidationNext ==
    \/ ChallengeNext /\ receipt' = NoReceipt /\ UNCHANGED <<submitted, acceptances, early>>
    \/ \E e \in Evidences, s \in 0..MaxBlock : Submit(e, s)
    \/ \E e \in Evidences : Validate(e)
    \/ Restart

ValidationSpec == ValidationInit /\ [][ValidationNext]_validationVars

-----------------------------------------------------------------------------
(* Properties                                                               *)

\* One lease is paid for once: however many pieces of evidence are submitted
\* for it and however often they are validated, at most one receipt accepts
\* one of them while the validator's process lives.
AcceptedOncePerLease == \A l \in LeasesOf : acceptances[l] <= 1

\* Evidence that anybody could have made up does not use up a challenge: a
\* commitment is only ever consumed for evidence of its own lease that is
\* signed, fresh, bound, attested and of the right image.
ChallengeNotWasted ==
    [][\A c \in consumed' \ consumed :
          LET e == receipt'.evidence IN
          /\ e \in Evidences
          /\ e.lease = c.lease
          /\ e.signed /\ Fresh(e) /\ Bound(e) /\ Attested(e) /\ e.image]_validationVars

\* An accepted receipt stands at the end of one order of events: the miner
\* accepted the lease before the selection was revealed, and submitted the evidence
\* after.  Evidence made up before the reveal is never accepted, also not when it
\* is validated again after it.
RevealInOrder ==
    receipt.reason = "accepted" =>
       receipt.evidence.lease \in blind /\ receipt.evidence \notin early

=============================================================================
