-------------------------- MODULE ChallengeVerifier --------------------------
(***************************************************************************)
(* Commit-reveal challenges (challenge.py): the validator's generator      *)
(* commits to a selection for a lease, reveals it once the lease is        *)
(* accepted, and a verifier checks a reveal against its commitment and     *)
(* consumes the commitment.  The set of consumed commitments is kept in    *)
(* memory.                                                                 *)
(*                                                                         *)
(* The seed of a commitment is an HMAC of its context (challenge, lease,   *)
(* job, deadline, counts) under the validator's secret, and the digest a   *)
(* hash of context and seed: both are injective here, so that a commitment *)
(* is its own context and stands for its seed too.                         *)
(***************************************************************************)
EXTENDS Integers, FiniteSets

CONSTANTS
    Commitments,    \* records with the lease and the deadline they are bound to
    Guess,          \* a seed that somebody made up
    MaxConsumed,    \* max_consumed
    MaxBlock        \* bound on the chain's block

VARIABLES
    block,          \* the chain's block
    published,      \* commitments the generator has made
    acceptedLeases, \* leases that the miner has accepted
    revealed,       \* commitments whose reveal was handed out
    consumed,       \* ChallengeVerifier._consumed
    blind           \* history: leases accepted before a reveal for them

challengeVars == <<block, published, acceptedLeases, revealed, consumed, blind>>

\* ChallengeCommitment.__post_init__
IsCommitment(c) == c.deadline \in 1..MaxBlock

ASSUME CommitmentsAssumption == \A c \in Commitments : IsCommitment(c)
ASSUME GuardAssumption == MaxConsumed \in Nat \ {0} /\ MaxBlock \in Nat /\ Guess \notin Commitments

-----------------------------------------------------------------------------
(* Reveals.  seed is the commitment whose seed it carries, or Guess; intact *)
(* says whether the shard order and the canary indices are the ones of the  *)
(* seed, which whoever has the seed can compute.                            *)

IsReveal(r) ==
    /\ r.challenge \in Commitments
    /\ r.seed \in Commitments \cup {Guess}
    /\ r.intact \in BOOLEAN

\* The seed of c's context, and with it c's digest.
SeedOf(c) == c

BuildReveal(c) == [challenge |-> c, seed |-> SeedOf(c), intact |-> TRUE]

\* Variant of Matches: the digest of the seed is not compared with the
\* commitment's.
MatchesAnySeed(c, r, l) == c.lease = l /\ r.challenge = c /\ r.intact

\* verify_and_consume's comparison of the reveal with the commitment c, in the
\* context of lease l.
Matches(c, r, l) ==
    /\ c.lease = l
    /\ r.challenge = c
    /\ r.seed = SeedOf(c)
    /\ r.intact

\* _acceptance_window, for a caller that says whether lease l is accepted.
InWindow(c, l) == l \in acceptedLeases /\ block <= c.deadline

-----------------------------------------------------------------------------
(* Operations                                                               *)

Commit(c) ==
    /\ c \notin published
    /\ published' = published \cup {c}
    /\ UNCHANGED <<block, acceptedLeases, revealed, consumed, blind>>

\* The signed lease carries the commitment, so it exists before the miner
\* accepts.
AcceptLease(l) ==
    /\ l \notin acceptedLeases
    /\ \E c \in published : c.lease = l
    /\ acceptedLeases' = acceptedLeases \cup {l}
    /\ blind' = blind \cup {x \in {l} : \A c \in revealed : c.lease # x}
    /\ UNCHANGED <<block, published, revealed, consumed>>

\* reveal raises outside the window and for a commitment that is not its own.
Reveal(c) ==
    /\ c \in published
    /\ InWindow(c, c.lease)
    /\ revealed' = revealed \cup {c}
    /\ UNCHANGED <<block, published, acceptedLeases, consumed, blind>>

\* Variant of Consumable: a commitment may be consumed again.
ConsumableAgain(c, r, l) ==
    /\ InWindow(c, l)
    /\ Matches(c, r, l)
    /\ c \in consumed \/ Cardinality(consumed) < MaxConsumed

\* verify_and_consume returns: within the window, matching, not consumed
\* before, and room for one more.
Consumable(c, r, l) ==
    /\ InWindow(c, l)
    /\ Matches(c, r, l)
    /\ c \notin consumed
    /\ Cardinality(consumed) < MaxConsumed

\* A new process starts with an empty set.
RestartVerifier ==
    /\ consumed' = {}
    /\ UNCHANGED <<block, published, acceptedLeases, revealed, blind>>

Tick ==
    /\ block < MaxBlock
    /\ block' = block + 1
    /\ UNCHANGED <<published, acceptedLeases, revealed, consumed, blind>>

ChallengeInit ==
    /\ block = 0
    /\ published = {}
    /\ acceptedLeases = {}
    /\ revealed = {}
    /\ consumed = {}
    /\ blind = {}

=============================================================================
