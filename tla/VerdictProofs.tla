---------------------------- MODULE VerdictProofs ----------------------------
(***************************************************************************)
(* Proofs about Validation and Performance, the verdicts a validator gives *)
(* on evidence and on its time, for any commitments, evidence and capacity *)
(* of the challenge verifier and any intervals, policies and profile.      *)
(* Both are sequences of gates and share the lemmas about those.           *)
(*                                                                         *)
(* Validation: a lease that was paid for has its commitment in the         *)
(* consumed set of the same process (Paid), a lease whose challenge was    *)
(* revealed had been accepted before (AcceptedBlind), and evidence that    *)
(* was submitted before the reveal lacks the seed (Untaught).              *)
(*                                                                         *)
(* Performance: a sum is a recursive function; that it exists, is the only *)
(* one and grows by what is appended is shown by looking at the least      *)
(* number at which it would fail.  The invariant divides the time from the *)
(* first start to the last end into warm-up, the active span and the       *)
(* checkpoints after it (BeforeActive, SinceActive), and ties the counted  *)
(* batches to the set of steps the active intervals name (StepsCounted).   *)
(***************************************************************************)
EXTENDS Validation, Performance, FiniteSetTheorems, WellFoundedInduction, TLAPS

-----------------------------------------------------------------------------
(* The first gate that fails                                                *)

\* A set of natural numbers has a least element.
LEMMA LeastElement ==
    ASSUME NEW T, T \subseteq Nat, T # {}
    PROVE  \E x \in T : \A y \in T : x <= y
<1>1. PICK x \in T : \A y \in T : ~(<<y, x>> \in OpToRel(<, Nat))
  BY NatLessThanWellFounded, WFMin
<1>2. \A y \in T : ~(y < x)
  BY <1>1 DEF OpToRel
<1> QED  BY <1>2

\* A sequence of gates that does not pass has a first one that fails, and the
\* reason is the one of a gate of the sequence.
LEMMA FirstFailureExists ==
    ASSUME NEW g, NEW n \in Nat, DOMAIN g = 1..n, ~AllPass(g)
    PROVE  \E i \in 1..n : FirstFailure(g) = g[i].reason
<1> DEFINE failing  == {i \in 1..n : ~g[i].passes}
           First(i) == ~g[i].passes /\ \A j \in 1..(i - 1) : g[j].passes
<1>1. failing \subseteq Nat /\ failing # {}
  BY DEF AllPass
<1>2. PICK i \in failing : \A j \in failing : i <= j
  BY <1>1, LeastElement
<1>3. \A j \in 1..(i - 1) : j \in 1..n /\ ~(i <= j)
  BY <1>2
<1>4. First(i)
  BY <1>2, <1>3
<1>5. (CHOOSE k \in 1..n : First(k)) \in 1..n
  BY <1>2, <1>4
<1> QED  BY <1>5 DEF FirstFailure

-----------------------------------------------------------------------------
(* Validation: its gates                                                    *)

\* Evidence that passes the early gates passes each of them.
LEMMA EarlyPass ==
    ASSUME NEW e, AllPass(EarlyGates(e))
    PROVE  e.signed /\ Fresh(e) /\ Bound(e) /\ Attested(e) /\ e.image
<1> DEFINE g == EarlyGates(e)
<1>1. DOMAIN g = 1..5
  BY DEF EarlyGates
<1>2. \A i \in 1..5 : g[i].passes
  BY <1>1 DEF AllPass
<1>3. /\ g[1] = Gate("signature_invalid", e.signed)
      /\ g[2] = Gate("evidence_stale", Fresh(e))
      /\ g[3] = Gate("lease_mismatch", Bound(e))
      /\ g[4] = Gate("attestation_rejected", Attested(e))
      /\ g[5] = Gate("image_mismatch", e.image)
  BY DEF EarlyGates
<1> HIDE DEF g
<1>4. 1 \in 1..5 /\ 2 \in 1..5 /\ 3 \in 1..5 /\ 4 \in 1..5 /\ 5 \in 1..5
  OBVIOUS
<1>5. g[1].passes /\ g[2].passes /\ g[3].passes /\ g[4].passes /\ g[5].passes
  BY <1>2, <1>4
<1>6. /\ g[1].passes = e.signed
      /\ g[2].passes = Fresh(e)
      /\ g[3].passes = Bound(e)
      /\ g[4].passes = Attested(e)
      /\ g[5].passes = e.image
  BY <1>3 DEF Gate
<1> QED  BY <1>5, <1>6, Zenon

\* No gate rejects with the reason "accepted".
LEMMA RejectionIsNotAcceptance ==
    ASSUME NEW e
    PROVE  /\ ~AllPass(EarlyGates(e)) => FirstFailure(EarlyGates(e)) # "accepted"
           /\ ~AllPass(LateGates(e)) => FirstFailure(LateGates(e)) # "accepted"
<1>1. DOMAIN EarlyGates(e) = 1..5 /\ DOMAIN LateGates(e) = 1..3
  BY DEF EarlyGates, LateGates
<1>2. \A i \in 1..5 : EarlyGates(e)[i].reason # "accepted"
  BY DEF EarlyGates, Gate
<1>3. \A i \in 1..3 : LateGates(e)[i].reason # "accepted"
  BY DEF LateGates, Gate
<1> QED  BY <1>1, <1>2, <1>3, FirstFailureExists

-----------------------------------------------------------------------------
(* The inductive invariant                                                  *)

\* The variables the proofs count and compare with have their types.
ValidationTypeOK ==
    /\ acceptances \in [LeasesOf -> Nat]
    /\ submitted \in [Evidences -> Int]
    /\ consumed \subseteq Commitments

\* A lease is paid for at most once, and its commitment is then consumed.
Paid ==
    \A l \in LeasesOf :
       acceptances[l] <= 1 /\ (acceptances[l] = 1 => CommitmentOf(l) \in consumed)

\* A lease was accepted before its commitment was revealed: reveals are for
\* accepted leases, so one that is not accepted yet has none.
AcceptedBlind ==
    /\ \A c \in revealed : c.lease \in acceptedLeases
    /\ acceptedLeases \subseteq blind

\* Evidence submitted before the reveal does not carry the seed of its lease's
\* commitment, which only the reveal teaches.
Untaught == \A e \in early : e.reveal.seed # CommitmentOf(e.lease)

ValidationInv ==
    /\ ValidationTypeOK
    /\ Paid
    /\ AcceptedBlind
    /\ Untaught
    /\ RevealInOrder

\* The commitment of a lease that evidence is for is one of the commitments, and
\* is bound to that lease.
LEMMA CommitmentOfLease ==
    ASSUME NEW e \in Evidences
    PROVE  CommitmentOf(e.lease) \in Commitments /\ CommitmentOf(e.lease).lease = e.lease
<1>1. \E c \in Commitments : c.lease = e.lease
  BY EvidencesAssumption DEF IsEvidence
<1> QED  BY <1>1 DEF CommitmentOf

-----------------------------------------------------------------------------
(* What a validation does                                                   *)

\* The commitment of e's lease is used up by evidence that passes the early
\* gates and answers it.
Spends(e) ==
    /\ AllPass(EarlyGates(e))
    /\ CommitmentOf(e.lease) \notin consumed
    /\ e.reveal.seed = CommitmentOf(e.lease)
    /\ e.lease \in acceptedLeases
    /\ consumed' = consumed \cup {CommitmentOf(e.lease)}

\* A validation consumes a challenge only after the early gates, and accepts only if
\* it does.
LEMMA ValidateCases ==
    ASSUME NEW e \in Evidences, Validate(e)
    PROVE  /\ receipt'.evidence = e
           /\ \/ /\ UNCHANGED consumed \/ Spends(e)
                 /\ receipt'.reason # "accepted" /\ UNCHANGED acceptances
              \/ /\ Spends(e) /\ receipt'.reason = "accepted"
                 /\ acceptances' = [acceptances EXCEPT ![e.lease] = @ + 1]
           /\ submitted[e] >= 0
           /\ UNCHANGED <<block, published, acceptedLeases, revealed, blind, submitted, early>>
<1>1. submitted[e] >= 0 /\ UNCHANGED <<block, published, acceptedLeases, revealed, blind, submitted, early>>
  BY DEF Validate
<1>2. AllPass(EarlyGates(e)) /\ Spend(e) => Spends(e)
  BY DEF Spend, Spends, Consumable, InWindow, Matches, SeedOf
<1>3. ASSUME NEW reason, Issue(e, reason)
      PROVE  receipt'.evidence = e /\ receipt'.reason = reason
  BY <1>3 DEF Issue
<1>4. CASE RejectEarly(e)
  BY <1>1, <1>3, <1>4, RejectionIsNotAcceptance DEF RejectEarly
<1>5. CASE RejectChallenge(e)
  BY <1>1, <1>3, <1>5 DEF RejectChallenge
<1>6. CASE RejectCorrectness(e)
  BY <1>1, <1>2, <1>3, <1>6 DEF RejectCorrectness
<1>7. CASE RejectLate(e)
  BY <1>1, <1>2, <1>3, <1>7, RejectionIsNotAcceptance DEF RejectLate
<1>8. CASE Accept(e)
  BY <1>1, <1>2, <1>3, <1>8 DEF Accept
<1> QED  BY <1>4, <1>5, <1>6, <1>7, <1>8 DEF Validate

\* A step of the challenge protocol keeps the order of acceptance and reveal.
LEMMA ChallengeCases ==
    ASSUME AcceptedBlind, ChallengeNext
    PROVE  UNCHANGED consumed /\ AcceptedBlind'
<1> USE DEF AcceptedBlind
<1>1. ASSUME NEW c, Commit(c) \/ Tick
      PROVE  UNCHANGED <<consumed, revealed, acceptedLeases, blind>>
  BY <1>1 DEF Commit, Tick
<1>2. ASSUME NEW c, Reveal(c)
      PROVE  /\ UNCHANGED <<consumed, acceptedLeases, blind>>
             /\ revealed' = revealed \cup {c} /\ c.lease \in acceptedLeases
  BY <1>2 DEF Reveal, InWindow
<1>3. ASSUME NEW l, AcceptLease(l)
      PROVE  UNCHANGED consumed /\ AcceptedBlind'
  <2>1. /\ l \notin acceptedLeases /\ acceptedLeases' = acceptedLeases \cup {l}
        /\ blind' = blind \cup {x \in {l} : \A c \in revealed : c.lease # x}
        /\ UNCHANGED <<consumed, revealed>>
    BY <1>3 DEF AcceptLease
  <2>2. \A c \in revealed : c.lease # l
    BY <2>1
  <2>3. l \in blind'
    BY <2>1, <2>2
  <2> QED  BY <2>1, <2>3
<1> QED  BY <1>1, <1>2, <1>3 DEF ChallengeNext

\* Every step keeps the inductive invariant.
LEMMA ValidationInvStep ==
    ASSUME ValidationInv, [ValidationNext]_validationVars
    PROVE  ValidationInv'
<1> USE DEF ValidationInv, ValidationTypeOK
<1>1. CASE ChallengeNext /\ receipt' = NoReceipt /\ UNCHANGED <<submitted, acceptances, early>>
  <2>1. receipt'.reason # "accepted"
    BY <1>1 DEF NoReceipt
  <2>2. UNCHANGED consumed /\ AcceptedBlind'
    BY <1>1, ChallengeCases
  <2>3. Paid' /\ Untaught'
    BY <1>1, <2>2 DEF Paid, Untaught, CommitmentOf
  <2> QED  BY <1>1, <2>1, <2>2, <2>3 DEF RevealInOrder
<1>2. ASSUME NEW e \in Evidences, NEW s \in 0..MaxBlock, Submit(e, s)
      PROVE  ValidationInv'
  <2>1. receipt'.reason # "accepted"
    BY <1>2 DEF Submit, NoReceipt
  <2>2. /\ submitted' = [submitted EXCEPT ![e] = s] /\ s \in Int
        /\ UNCHANGED <<acceptances, consumed, revealed, acceptedLeases, blind>>
        /\ e.reveal.seed # Guess => e.reveal.seed \in revealed
        /\ early' = early \cup {x \in {e} : CommitmentOf(x.lease) \notin revealed}
    BY <1>2, GuardAssumption DEF Submit, challengeVars
  <2>3. ValidationTypeOK'
    BY <2>2
  <2>4. ASSUME NEW f \in early'
        PROVE  f.reveal.seed # CommitmentOf(f.lease)
    <3>1. CASE f \in early
      BY <3>1 DEF Untaught
    <3>2. CASE f = e /\ CommitmentOf(e.lease) \notin revealed
      BY <2>2, <3>2, CommitmentOfLease, GuardAssumption
    <3> QED  BY <2>2, <2>4, <3>1, <3>2
  <2>5. Untaught'
    BY <2>4 DEF Untaught, CommitmentOf
  <2>6. Paid' /\ AcceptedBlind'
    BY <2>2 DEF Paid, AcceptedBlind, CommitmentOf
  <2> QED  BY <2>1, <2>3, <2>5, <2>6 DEF RevealInOrder
<1>3. ASSUME NEW e \in Evidences, Validate(e)
      PROVE  ValidationInv'
  <2> DEFINE c == CommitmentOf(e.lease)
  <2>1. e.lease \in LeasesOf /\ c \in Commitments
    BY CommitmentOfLease DEF LeasesOf
  <2>2. UNCHANGED <<submitted, revealed, acceptedLeases, blind, early>>
    BY <1>3, ValidateCases
  <2>3. consumed \subseteq consumed' /\ consumed' \subseteq Commitments
    <3>1. UNCHANGED consumed \/ consumed' = consumed \cup {c}
      BY <1>3, ValidateCases DEF Spends
    <3> QED  BY <2>1, <3>1
  <2>4. AcceptedBlind' /\ Untaught'
    BY <2>2 DEF AcceptedBlind, Untaught, CommitmentOf
  <2>5. CASE UNCHANGED acceptances /\ receipt'.reason # "accepted"
    <3>1. Paid'
      BY <2>3, <2>5 DEF Paid, CommitmentOf
    <3> QED  BY <2>2, <2>3, <2>4, <2>5, <3>1 DEF RevealInOrder
  <2>6. CASE /\ Spends(e) /\ receipt'.reason = "accepted"
             /\ acceptances' = [acceptances EXCEPT ![e.lease] = @ + 1]
    <3>1. acceptances' \in [LeasesOf -> Nat]
      BY <2>1, <2>6
    <3>2. c \notin consumed /\ c \in consumed' /\ e.reveal.seed = c /\ e.lease \in acceptedLeases
      BY <2>6 DEF Spends
    <3>3. acceptances[e.lease] = 0
      BY <2>1, <3>2 DEF Paid
    <3>4. \A l \in LeasesOf :
             acceptances'[l] <= 1 /\ (acceptances'[l] = 1 => CommitmentOf(l) \in consumed')
      BY <2>1, <2>3, <2>6, <3>2, <3>3 DEF Paid
    <3>5. e.lease \in blind' /\ e \notin early'
      BY <2>2, <3>2 DEF AcceptedBlind, Untaught
    <3>6. receipt'.evidence = e
      BY <1>3, ValidateCases
    <3>7. Paid'
      BY <3>4 DEF Paid, CommitmentOf
    <3>8. RevealInOrder'
      BY <3>5, <3>6 DEF RevealInOrder
    <3> QED  BY <2>2, <2>3, <2>4, <3>1, <3>7, <3>8
  <2> QED  BY <1>3, <2>5, <2>6, ValidateCases
<1>4. CASE Restart
  <2>1. /\ consumed' = {} /\ UNCHANGED <<submitted, acceptedLeases, revealed, blind, early>>
        /\ acceptances' = [l \in LeasesOf |-> 0]
        /\ receipt'.reason # "accepted"
    BY <1>4 DEF Restart, RestartVerifier, NoReceipt
  <2>2. ValidationTypeOK'
    BY <2>1
  <2>3. Paid'
    BY <2>1 DEF Paid
  <2>4. AcceptedBlind' /\ Untaught' /\ RevealInOrder'
    BY <2>1 DEF AcceptedBlind, Untaught, RevealInOrder, CommitmentOf
  <2> QED  BY <2>2, <2>3, <2>4
<1>5. CASE UNCHANGED validationVars
  BY <1>5 DEF validationVars, challengeVars, Paid, AcceptedBlind, Untaught, RevealInOrder,
              CommitmentOf
<1> QED  BY <1>1, <1>2, <1>3, <1>4, <1>5 DEF ValidationNext

\* The inductive invariant of the validation pipeline.
LEMMA ValidationInvariant == ValidationSpec => []ValidationInv
<1>1. ValidationInit => ValidationInv
  BY DEF ValidationInit, ChallengeInit, ValidationInv, ValidationTypeOK, Paid, AcceptedBlind,
         Untaught, RevealInOrder, NoReceipt
<1>2. ValidationInv /\ [ValidationNext]_validationVars => ValidationInv'
  BY ValidationInvStep
<1> QED  BY <1>1, <1>2, PTL DEF ValidationSpec

-----------------------------------------------------------------------------
(* The theorems                                                             *)

\* However many pieces of evidence there are for a lease and however often they
\* are validated, one validator process accepts at most one of them:
\* verify_and_consume stands before every acceptance.
THEOREM LeasePaidOnce == ValidationSpec => []AcceptedOncePerLease
<1>1. ValidationInv => AcceptedOncePerLease
  BY DEF ValidationInv, Paid, AcceptedOncePerLease
<1> QED  BY <1>1, ValidationInvariant, PTL

\* Whatever miners make up and whenever it is validated, accepted evidence was
\* submitted after the validator revealed the selection, and the lease accepted
\* before.
THEOREM RevealsAreInOrder == ValidationSpec => []RevealInOrder
<1>1. ValidationInv => RevealInOrder
  BY DEF ValidationInv
<1> QED  BY <1>1, ValidationInvariant, PTL

\* A commitment is only consumed for evidence of its own lease that has passed
\* every gate before the challenge.
THEOREM ChallengesAreNotWasted == ValidationSpec => ChallengeNotWasted
<1>1. ASSUME [ValidationNext]_validationVars, NEW c \in consumed' \ consumed
      PROVE  LET e == receipt'.evidence IN
             /\ e \in Evidences
             /\ e.lease = c.lease
             /\ e.signed /\ Fresh(e) /\ Bound(e) /\ Attested(e) /\ e.image
  <2>a. ASSUME ChallengeNext PROVE FALSE
    BY <1>1, <2>a DEF ChallengeNext, Commit, Reveal, AcceptLease, Tick
  <2>b. ASSUME NEW x \in Evidences, NEW s \in 0..MaxBlock, Submit(x, s) PROVE FALSE
    BY <1>1, <2>b DEF Submit, challengeVars
  <2>c. ASSUME Restart PROVE FALSE
    BY <1>1, <2>c DEF Restart, RestartVerifier
  <2>d. ASSUME UNCHANGED validationVars PROVE FALSE
    BY <1>1, <2>d DEF validationVars, challengeVars
  <2>1. PICK e \in Evidences : Validate(e)
    BY <1>1, <2>a, <2>b, <2>c, <2>d DEF ValidationNext
  <2>2. Spends(e) /\ receipt'.evidence = e
    BY <1>1, <2>1, ValidateCases
  <2>3. c = CommitmentOf(e.lease)
    BY <1>1, <2>2 DEF Spends
  <2>4. e.lease = c.lease
    BY <2>3, CommitmentOfLease
  <2>5. e.signed /\ Fresh(e) /\ Bound(e) /\ Attested(e) /\ e.image
    BY <2>2, EarlyPass DEF Spends
  <2> QED  BY <2>2, <2>4, <2>5
<1>2. [ValidationNext]_validationVars =>
        [\A c \in consumed' \ consumed :
            LET e == receipt'.evidence IN
            /\ e \in Evidences
            /\ e.lease = c.lease
            /\ e.signed /\ Fresh(e) /\ Bound(e) /\ Attested(e) /\ e.image]_validationVars
  BY <1>1
<1> QED  BY <1>2, PTL DEF ValidationSpec, ChallengeNotWasted

-----------------------------------------------------------------------------
(* Performance: sums                                                        *)

\* f holds the sums of the first n numbers of s.
Sums(s, n, f) == f = [m \in 0..n |-> IF m = 0 THEN 0 ELSE f[m - 1] + s[m]]

\* Sums exist, for as many numbers as s has.
LEMMA SumsExist ==
    ASSUME NEW s \in Seq(Nat), NEW n \in 0..Len(s)
    PROVE  \E f : Sums(s, n, f)
<1> DEFINE missing == {k \in 0..Len(s) : ~\E f : Sums(s, k, f)}
<1> SUFFICES missing = {}
  OBVIOUS
<1> SUFFICES ASSUME missing # {} PROVE FALSE
  OBVIOUS
<1>1. missing \subseteq Nat
  OBVIOUS
<1>2. PICK k \in missing : \A j \in missing : k <= j
  BY <1>1, LeastElement
<1>3. k # 0
  <2>1. Sums(s, 0, [m \in 0..0 |-> 0])
    BY DEF Sums
  <2> QED  BY <2>1
<1>4. k - 1 \in 0..Len(s) /\ ~(k <= k - 1)
  BY <1>3
<1>5. PICK f : Sums(s, k - 1, f)
  BY <1>2, <1>4
<1> DEFINE g == [m \in 0..k |-> IF m = k THEN f[k - 1] + s[k] ELSE f[m]]
<1>6. \A m \in 0..(k - 1) : f[m] = IF m = 0 THEN 0 ELSE f[m - 1] + s[m]
  BY <1>5, <1>4 DEF Sums
<1>7. \A m \in 0..k : g[m] = IF m = 0 THEN 0 ELSE g[m - 1] + s[m]
  <2> SUFFICES ASSUME NEW m \in 0..k PROVE g[m] = IF m = 0 THEN 0 ELSE g[m - 1] + s[m]
    OBVIOUS
  <2>1. CASE m = k
    BY <2>1, <1>3
  <2>2. CASE m # k
    <3>1. m \in 0..(k - 1) /\ g[m] = f[m]
      BY <2>2, <1>4
    <3>2. CASE m = 0
      BY <3>1, <3>2, <1>6
    <3>3. CASE m # 0
      <4>1. m - 1 \in 0..k /\ m - 1 # k /\ g[m - 1] = f[m - 1]
        BY <3>1, <3>3, <1>4
      <4> QED  BY <3>1, <3>3, <4>1, <1>6
    <3> QED  BY <3>2, <3>3
  <2> QED  BY <2>1, <2>2
<1>8. Sums(s, k, g)
  BY <1>7 DEF Sums
<1> QED  BY <1>2, <1>8

\* Two sequences that agree up to a place have the same sums up to it.
LEMMA SumsAgree ==
    ASSUME NEW s, NEW t, NEW n \in Nat, NEW p \in Nat, NEW f, NEW g,
           Sums(s, n, f), Sums(t, p, g), n <= p, \A m \in 1..n : s[m] = t[m]
    PROVE  \A m \in 0..n : f[m] = g[m]
<1> DEFINE different == {k \in 0..n : f[k] # g[k]}
<1> SUFFICES ASSUME different # {} PROVE FALSE
  OBVIOUS
<1>1. different \subseteq Nat
  OBVIOUS
<1>2. PICK k \in different : \A j \in different : k <= j
  BY <1>1, LeastElement
<1>3. \A m \in 0..n : f[m] = IF m = 0 THEN 0 ELSE f[m - 1] + s[m]
  BY DEF Sums
<1>4. \A m \in 0..p : g[m] = IF m = 0 THEN 0 ELSE g[m - 1] + t[m]
  BY DEF Sums
<1>5. k \in 0..n /\ k \in 0..p
  OBVIOUS
<1>6. k # 0
  BY <1>2, <1>3, <1>4, <1>5
<1>7. k - 1 \in 0..n /\ ~(k <= k - 1) /\ k \in 1..n
  BY <1>5, <1>6
<1>8. f[k - 1] = g[k - 1]
  BY <1>2, <1>7
<1> QED  BY <1>2, <1>3, <1>4, <1>5, <1>6, <1>7, <1>8

\* Sums of natural numbers are natural numbers.
LEMMA SumsAreNatural ==
    ASSUME NEW s \in Seq(Nat), NEW f, Sums(s, Len(s), f)
    PROVE  \A m \in 0..Len(s) : f[m] \in Nat
<1> DEFINE other == {k \in 0..Len(s) : f[k] \notin Nat}
<1> SUFFICES ASSUME other # {} PROVE FALSE
  OBVIOUS
<1>1. other \subseteq Nat
  OBVIOUS
<1>2. PICK k \in other : \A j \in other : k <= j
  BY <1>1, LeastElement
<1>3. \A m \in 0..Len(s) : f[m] = IF m = 0 THEN 0 ELSE f[m - 1] + s[m]
  BY DEF Sums
<1>4. k # 0
  BY <1>2, <1>3
<1>5. k - 1 \in 0..Len(s) /\ ~(k <= k - 1) /\ k \in 1..Len(s)
  BY <1>4
<1>6. f[k - 1] \in Nat /\ s[k] \in Nat
  BY <1>2, <1>5
<1> QED  BY <1>2, <1>3, <1>4, <1>5, <1>6

\* Total is the last of the sums.
LEMMA TotalIsSum ==
    ASSUME NEW s \in Seq(Nat)
    PROVE  \E f : Sums(s, Len(s), f) /\ Total(s) = f[Len(s)]
<1> DEFINE f == CHOOSE f : Sums(s, Len(s), f)
<1>1. Len(s) \in 0..Len(s)
  OBVIOUS
<1>2. Sums(s, Len(s), f)
  BY <1>1, SumsExist
<1>3. Total(s) = f[Len(s)]
  BY DEF Total, Sums
<1> QED  BY <1>2, <1>3

\* The empty sum is zero.
LEMMA TotalOfNone == Total(<< >>) = 0
<1>1. << >> \in Seq(Nat) /\ Len(<< >>) = 0
  OBVIOUS
<1>2. PICK f : Sums(<< >>, 0, f) /\ Total(<< >>) = f[0]
  BY <1>1, TotalIsSum
<1>3. f[0] = 0
  BY <1>2 DEF Sums
<1> QED  BY <1>2, <1>3

\* A number that is appended is added.
LEMMA TotalOfAppend ==
    ASSUME NEW s \in Seq(Nat), NEW x \in Nat
    PROVE  /\ Total(s) \in Nat
           /\ Total(Append(s, x)) = Total(s) + x
<1> DEFINE t == Append(s, x)
           n == Len(s)
<1>1. t \in Seq(Nat) /\ Len(t) = n + 1 /\ t[n + 1] = x /\ \A m \in 1..n : t[m] = s[m]
  OBVIOUS
<1>2. n \in Nat
  OBVIOUS
<1>3. PICK f : Sums(s, n, f) /\ Total(s) = f[n]
  BY TotalIsSum
<1> HIDE DEF t
<1>4. PICK g : Sums(t, n + 1, g) /\ Total(t) = g[n + 1]
  BY <1>1, TotalIsSum
<1>5. f[n] = g[n]
  <2>1. n <= n + 1 /\ n + 1 \in Nat /\ n \in 0..n
    BY <1>2
  <2>2. \A m \in 1..n : s[m] = t[m]
    BY <1>1
  <2> HIDE DEF n
  <2>3. \A m \in 0..n : f[m] = g[m]
    BY <1>2, <1>3, <1>4, <2>1, <2>2, SumsAgree
  <2> QED  BY <2>1, <2>3
<1>6. g[n + 1] = g[n] + x
  BY <1>1, <1>2, <1>4 DEF Sums
<1>7. f[n] \in Nat
  BY <1>2, <1>3, SumsAreNatural
<1> QED  BY <1>3, <1>4, <1>5, <1>6, <1>7 DEF t

-----------------------------------------------------------------------------
(* Times of intervals                                                       *)

\* Intervals are of natural length, and longer than nothing.
LEMMA IntervalFacts ==
    ASSUME NEW i \in Intervals
    PROVE  /\ i.start \in Nat /\ i.end \in Nat /\ i.start < i.end
           /\ Duration(i) \in Nat
           /\ i.phase # "checkpoint" =>
                 i.first \in Nat \ {0} /\ i.last \in Nat \ {0} /\ i.first <= i.last
  BY IntervalsAssumption DEF IsInterval, Duration

\* The times of a sequence of intervals are natural numbers, whichever count.
LEMMA TimesType ==
    ASSUME NEW s \in Seq(Intervals), NEW S
    PROVE  Times(s, S) \in Seq(Nat) /\ Total(Times(s, S)) \in Nat
<1>1. \A n \in 1..Len(s) : s[n] \in Intervals
  OBVIOUS
<1>2. \A n \in 1..Len(s) : (IF s[n] \in S THEN Duration(s[n]) ELSE 0) \in Nat
  BY <1>1, IntervalFacts
<1>3. Times(s, S) \in Seq(Nat)
  BY <1>2 DEF Times
<1> QED  BY <1>3, TotalOfAppend

\* An interval that is appended adds its time if it counts.
LEMMA TimeOfAppend ==
    ASSUME NEW s \in Seq(Intervals), NEW i \in Intervals, NEW S
    PROVE  Total(Times(Append(s, i), S)) =
               Total(Times(s, S)) + (IF i \in S THEN Duration(i) ELSE 0)
<1> DEFINE x == IF i \in S THEN Duration(i) ELSE 0
           t == Append(s, i)
<1>1. x \in Nat
  BY IntervalFacts
<1>2. Times(s, S) \in Seq(Nat)
  BY TimesType
<1>3. /\ Len(t) = Len(s) + 1 /\ t[Len(s) + 1] = i
      /\ \A n \in 1..Len(s) : t[n] = s[n]
      /\ Len(s) \in Nat
  OBVIOUS
<1> HIDE DEF t
<1>4. Times(t, S) = Append(Times(s, S), x)
  BY <1>2, <1>3 DEF Times
<1>5. Total(Append(Times(s, S), x)) = Total(Times(s, S)) + x
  BY <1>1, <1>2, TotalOfAppend
<1> QED  BY <1>4, <1>5 DEF t

\* Without intervals there is no time.
LEMMA TimeOfNone ==
    ASSUME NEW S
    PROVE  Total(Times(<< >>, S)) = 0
<1>1. Times(<< >>, S) = << >>
  BY DEF Times
<1> QED  BY <1>1, TotalOfNone

\* Sets that hold the same intervals of a sequence count the same time.
LEMMA SameTimes ==
    ASSUME NEW s, NEW S, NEW T, \A n \in 1..Len(s) : s[n] \in S <=> s[n] \in T
    PROVE  Times(s, S) = Times(s, T)
  BY DEF Times

-----------------------------------------------------------------------------
(* Gates                                                                    *)

\* Two sequences of gates in a row: the gates of the one, then of the other.
LEMMA Joined ==
    ASSUME NEW G, NEW a \in Seq(G), NEW b \in Seq(G)
    PROVE  /\ DOMAIN (a \o b) = 1..(Len(a) + Len(b))
           /\ \A n \in 1..Len(a) : (a \o b)[n] = a[n]
           /\ \A n \in 1..Len(b) : (a \o b)[Len(a) + n] = b[n]
<1>1. Len(a \o b) = Len(a) + Len(b) /\ a \o b \in Seq(G)
  OBVIOUS
<1>2. DOMAIN (a \o b) = 1..(Len(a) + Len(b))
  BY <1>1
<1>3. /\ \A n \in 1..Len(a) : (a \o b)[n] = a[n]
      /\ \A n \in 1..Len(b) : (a \o b)[Len(a) + n] = b[n]
  OBVIOUS
<1> QED  BY <1>2, <1>3

\* A reason that is none of theirs is none of the whole's.
LEMMA JoinedReasons ==
    ASSUME NEW G, NEW a \in Seq(G), NEW b \in Seq(G), NEW reason,
           \A n \in 1..Len(a) : a[n].reason # reason,
           \A n \in 1..Len(b) : b[n].reason # reason
    PROVE  \A n \in 1..(Len(a) + Len(b)) : (a \o b)[n].reason # reason
<1> SUFFICES ASSUME NEW n \in 1..(Len(a) + Len(b))
             PROVE  (a \o b)[n].reason # reason
  OBVIOUS
<1>1. Len(a) \in Nat /\ Len(b) \in Nat
  OBVIOUS
<1>2. CASE n <= Len(a)
  <2>1. n \in 1..Len(a)
    BY <1>1, <1>2
  <2>2. (a \o b)[n] = a[n]
    BY <2>1, Joined
  <2> QED  BY <2>1, <2>2
<1>3. CASE n > Len(a)
  <2>1. n - Len(a) \in 1..Len(b) /\ Len(a) + (n - Len(a)) = n
    BY <1>1, <1>3
  <2>2. (a \o b)[Len(a) + (n - Len(a))] = b[n - Len(a)]
    BY <2>1, Joined
  <2> QED  BY <2>1, <2>2
<1> QED  BY <1>1, <1>2, <1>3

\* An interval that passes starts where the one before it ended, or later.
LEMMA TimingPasses ==
    ASSUME NEW i, AllPass(TimingGates(i))
    PROVE  loop.previousEnd # None => i.start >= loop.previousEnd
<1> DEFINE g == TimingGates(i)
<1>1. 3 \in DOMAIN g
  BY DEF TimingGates
<1>2. g[3].passes
  BY <1>1, Zenon DEF AllPass
<1>3. g[3].passes = (loop.previousEnd # None => i.start >= loop.previousEnd)
  BY DEF TimingGates, Gate
<1> QED  BY <1>2, <1>3, Zenon

\* The work of an interval that passes: the next steps, with their batches, and
\* no warm-up after the first active interval.
LEMMA WorkPasses ==
    ASSUME NEW i, AllPass(WorkGates(i))
    PROVE  /\ loop.previousStep # None => i.first = loop.previousStep + 1
           /\ i.batches = Steps(i) * BatchesPerStep
           /\ i.phase = "warmup" => ~loop.activeStarted
<1> DEFINE g == WorkGates(i)
<1>1. DOMAIN g = 1..3
  BY DEF WorkGates
<1>2. \A n \in 1..3 : g[n].passes
  BY <1>1, Zenon DEF AllPass
<1>3. g[1].passes /\ g[2].passes /\ g[3].passes
  BY <1>2
<1>4. /\ g[1].passes = (loop.previousStep # None => i.first = loop.previousStep + 1)
      /\ g[2].passes = (i.batches = Steps(i) * BatchesPerStep)
      /\ g[3].passes = (i.phase = "warmup" => ~loop.activeStarted)
  BY DEF WorkGates, Gate
<1> QED  BY <1>3, <1>4, Zenon

\* If they pass in a row, the one and the other pass.
LEMMA JoinedPass ==
    ASSUME NEW G, NEW a \in Seq(G), NEW b \in Seq(G), AllPass(a \o b)
    PROVE  AllPass(a) /\ AllPass(b)
<1>1. DOMAIN a = 1..Len(a) /\ DOMAIN b = 1..Len(b) /\ Len(a) \in Nat /\ Len(b) \in Nat
  OBVIOUS
<1>2. \A n \in 1..(Len(a) + Len(b)) : (a \o b)[n].passes
  <2>1. DOMAIN (a \o b) = 1..(Len(a) + Len(b))
    BY Joined
  <2> QED  BY <2>1, Zenon DEF AllPass
<1>3. ASSUME NEW n \in 1..Len(a) PROVE a[n].passes
  <2>1. n \in 1..(Len(a) + Len(b)) /\ (a \o b)[n] = a[n]
    BY <1>1, Joined
  <2>2. (a \o b)[n].passes
    BY <1>2, <2>1
  <2> QED  BY <2>1, <2>2
<1>4. ASSUME NEW n \in 1..Len(b) PROVE b[n].passes
  <2>1. Len(a) + n \in 1..(Len(a) + Len(b)) /\ (a \o b)[Len(a) + n] = b[n]
    BY <1>1, Joined
  <2>2. (a \o b)[Len(a) + n].passes
    BY <1>2, <2>1
  <2> QED  BY <2>1, <2>2
<1> QED  BY <1>1, <1>3, <1>4 DEF AllPass

\* The gate of a checkpoint, after those of its timing.
CheckpointGates == << Gate("timer_invalid", loop.activeStarted) >>

\* All gates of an interval are members of one set.
LEMMA GatesAreSequences ==
    ASSUME NEW i
    PROVE  \E G : /\ TimingGates(i) \in Seq(G)
                  /\ CheckpointGates \in Seq(G)
                  /\ WorkGates(i) \in Seq(G)
<1> DEFINE G == {TimingGates(i)[n] : n \in 1..5} \cup {CheckpointGates[1]}
                    \cup {WorkGates(i)[n] : n \in 1..3}
<1>1. TimingGates(i) \in Seq({TimingGates(i)[n] : n \in 1..5})
  BY DEF TimingGates
<1>2. CheckpointGates \in Seq({CheckpointGates[1]})
  BY DEF CheckpointGates
<1>3. WorkGates(i) \in Seq({WorkGates(i)[n] : n \in 1..3})
  BY DEF WorkGates
<1>4. TimingGates(i) \in Seq(G) /\ CheckpointGates \in Seq(G) /\ WorkGates(i) \in Seq(G)
  BY <1>1, <1>2, <1>3
<1> QED  BY <1>4

\* What an interval that is read has passed, by its phase.
LEMMA IntervalPasses ==
    ASSUME NEW i, AllPass(IntervalGates(i))
    PROVE  /\ loop.previousEnd # None => i.start >= loop.previousEnd
           /\ i.phase = "checkpoint" => loop.activeStarted
           /\ i.phase # "checkpoint" =>
                 /\ loop.previousStep # None => i.first = loop.previousStep + 1
                 /\ i.batches = Steps(i) * BatchesPerStep
                 /\ i.phase = "warmup" => ~loop.activeStarted
<1>1. PICK G : /\ TimingGates(i) \in Seq(G)
               /\ CheckpointGates \in Seq(G)
               /\ WorkGates(i) \in Seq(G)
  BY GatesAreSequences
<1>2. CASE i.phase = "checkpoint"
  <2>1. AllPass(TimingGates(i) \o CheckpointGates)
    BY <1>2 DEF IntervalGates, CheckpointGates
  <2>2. AllPass(TimingGates(i)) /\ AllPass(CheckpointGates)
    BY <1>1, <2>1, JoinedPass
  <2>3. loop.previousEnd # None => i.start >= loop.previousEnd
    BY <2>2, TimingPasses
  <2>4. 1 \in DOMAIN CheckpointGates /\ CheckpointGates[1].passes = loop.activeStarted
    BY DEF CheckpointGates, Gate
  <2>5. CheckpointGates[1].passes
    BY <2>2, <2>4, Zenon DEF AllPass
  <2>6. loop.activeStarted
    BY <2>4, <2>5, Zenon
  <2> QED  BY <1>2, <2>3, <2>6
<1>3. CASE i.phase # "checkpoint"
  <2>1. AllPass(TimingGates(i) \o WorkGates(i))
    BY <1>3 DEF IntervalGates
  <2>2. AllPass(TimingGates(i)) /\ AllPass(WorkGates(i))
    BY <1>1, <2>1, JoinedPass
  <2> QED  BY <1>3, <2>2, TimingPasses, WorkPasses
<1> QED  BY <1>2, <1>3

\* No check fails with the code "measured".
LEMMA IntervalRejected ==
    ASSUME NEW i, ~AllPass(IntervalGates(i))
    PROVE  FirstFailure(IntervalGates(i)) # "measured"
<1> DEFINE a == TimingGates(i)
           b == IF i.phase = "checkpoint" THEN CheckpointGates ELSE WorkGates(i)
<1>1. PICK G : a \in Seq(G) /\ b \in Seq(G)
  BY GatesAreSequences
<1>2. Len(a) = 5 /\ (Len(b) = 1 \/ Len(b) = 3)
  BY DEF TimingGates, WorkGates, CheckpointGates
<1>3. \A n \in 1..Len(a) : a[n].reason # "measured"
  BY DEF TimingGates, Gate
<1>4. \A n \in 1..Len(b) : b[n].reason # "measured"
  BY DEF WorkGates, CheckpointGates, Gate
<1>5. IntervalGates(i) = a \o b
  BY DEF IntervalGates, CheckpointGates
<1> HIDE DEF a, b
<1>6. \A n \in 1..(Len(a) + Len(b)) : (a \o b)[n].reason # "measured"
  BY <1>1, <1>3, <1>4, JoinedReasons
<1>7. DOMAIN (a \o b) = 1..(Len(a) + Len(b))
  BY <1>1, Joined
<1>8. PICK n \in 1..(Len(a) + Len(b)) : FirstFailure(a \o b) = (a \o b)[n].reason
  <2>1. Len(a) + Len(b) \in Nat
    BY <1>2
  <2> QED  BY <2>1, <1>5, <1>7, FirstFailureExists
<1> QED  BY <1>5, <1>6, <1>8

\* Nor do the last checks fail with the code "measured".
LEMMA FinalRejected ==
    ASSUME ~AllPass(FinalGates)
    PROVE  FirstFailure(FinalGates) # "measured"
<1>1. DOMAIN FinalGates = 1..6
  BY DEF FinalGates
<1>2. \A n \in 1..6 : FinalGates[n].reason # "measured"
  BY DEF FinalGates, Gate
<1> QED  BY <1>1, <1>2, FirstFailureExists

\* What a run that passes the last checks has.
LEMMA FinalPasses ==
    ASSUME AllPass(FinalGates)
    PROVE  /\ loop.activeSteps >= MinimumActive
           /\ ActiveTime \in 1..MaximumActive
           /\ RequiredTime <= run.observed
           /\ AcceptedUnits \in 1..MaximumUnits
<1> DEFINE g == FinalGates
<1>1. DOMAIN g = 1..6
  BY DEF FinalGates
<1>2. \A n \in 1..6 : g[n].passes
  BY <1>1, Zenon DEF AllPass
<1>3. g[2].passes /\ g[4].passes /\ g[5].passes /\ g[6].passes
  BY <1>2
<1>4. /\ g[2].passes = (loop.activeSteps >= MinimumActive)
      /\ g[4].passes = (ActiveTime \in 1..MaximumActive)
      /\ g[5].passes = (RequiredTime <= run.observed /\ run.observed <= MaximumObserved)
      /\ g[6].passes = (AcceptedUnits \in 1..MaximumUnits)
  BY DEF FinalGates, Gate
<1> QED  BY <1>3, <1>4, Zenon

\* A call that is not for this run fails with another code.
LEMMA BeginRejected ==
    ASSUME NEW r, NEW m, Begin(r, m)
    PROVE  result'.reason # "measured"
<1> DEFINE g == << Gate("identity_mismatch", m # "other lease"),
                   Gate("metadata_mismatch", m # "other workload"),
                   Gate("timer_invalid", r.fetch + r.setup <= MaximumSetup) >>
<1>1. result' = IF AllPass(g) THEN Pending ELSE Failed(FirstFailure(g))
  BY DEF Begin
<1>2. DOMAIN g = 1..3
  OBVIOUS
<1>3. \A n \in 1..3 : g[n].reason # "measured"
  <2>1. \A x, y, z : \A n \in 1..3 :
           << Gate("identity_mismatch", x), Gate("metadata_mismatch", y),
              Gate("timer_invalid", z) >>[n].reason # "measured"
    BY DEF Gate
  <2> QED  BY <2>1, Zenon
<1> HIDE DEF g
<1>4. ~AllPass(g) => FirstFailure(g) # "measured"
  BY <1>2, <1>3, FirstFailureExists
<1> QED  BY <1>1, <1>4 DEF Pending, Failed, Unmeasured

-----------------------------------------------------------------------------
(* The invariant                                                            *)

\* The loop's variables.
LoopType ==
    [previousEnd : Nat \cup {None}, previousStep : Nat \cup {None},
     activeStarted : BOOLEAN, firstActive : Nat \cup {None}, lastActive : Nat \cup {None},
     warmupSteps : Nat, activeSteps : Nat, activeBatches : Nat, warmupTime : Nat,
     checkpoints : Seq(Intervals)]

TypeOK ==
    /\ run \in Runs
    /\ seen \in Seq(Intervals)
    /\ loop \in LoopType

\* The time of the active intervals that were seen.
ActiveSum == Total(Times(seen, ActiveIntervals))

\* The last interval that was seen ends last.
LastSeen ==
    IF seen = << >> THEN loop.previousEnd = None
    ELSE loop.previousEnd \in Nat /\ loop.previousEnd = Last(seen).end

\* Before the first active interval: only warm-up, from the first start on.
BeforeActive ==
    ~loop.activeStarted =>
        /\ loop.checkpoints = << >>
        /\ loop.firstActive = None /\ loop.lastActive = None /\ loop.activeSteps = 0
        /\ ActiveSum = 0
        /\ IF seen = << >> THEN loop.warmupTime = 0
           ELSE loop.warmupTime <= loop.previousEnd - seen[1].start

\* From the first active interval on, the time from the first start to the last
\* end falls into three parts: warm-up, the span of the active intervals with the
\* checkpoints inside it, and the checkpoints after it.
SinceActive ==
    loop.activeStarted =>
        /\ seen # << >>
        /\ loop.firstActive \in Nat /\ loop.lastActive \in Nat
        /\ loop.lastActive <= loop.previousEnd
        /\ loop.warmupTime <= loop.firstActive - seen[1].start
        /\ ActiveSum + ExcludedInside <= loop.lastActive - loop.firstActive
        /\ CheckpointTime - ExcludedInside <= loop.previousEnd - loop.lastActive
        /\ \A n \in 1..Len(loop.checkpoints) :
              /\ loop.checkpoints[n].start >= loop.firstActive
              /\ loop.checkpoints[n].end <= loop.previousEnd

\* The steps of the active intervals are those counted, and are behind the last.
StepsCounted ==
    /\ IsFiniteSet(StepsDone)
    /\ loop.activeBatches = Cardinality(StepsDone) * BatchesPerStep
    /\ \A n \in StepsDone : n \in Nat /\ n <= loop.previousStep

\* A result is what the last checks found in the loop's variables.
Concluded ==
    Measured =>
        /\ seen # << >> /\ loop.activeStarted
        /\ ActiveTime \in 1..MaximumActive
        /\ RequiredTime <= run.observed
        /\ AcceptedUnits \in 1..MaximumUnits
        /\ result.units = AcceptedUnits
        /\ result.active = ActiveTime
        /\ result.excluded = run.fetch + run.setup + loop.warmupTime + CheckpointTime
        /\ result.rate = Rate(AcceptedUnits, ActiveTime)

\* A decision compares the rate of a result with the envelope.
Decided ==
    /\ decision # "none" => Measured
    /\ decision = "impossible" => result.rate > Upper
    /\ decision = "slow_review" => result.rate < Lower
    /\ decision = "plausible" => Lower <= result.rate /\ result.rate <= Upper

Inv == /\ TypeOK /\ LastSeen /\ BeforeActive /\ SinceActive /\ StepsCounted
       /\ Concluded /\ Decided

-----------------------------------------------------------------------------
(* What reading an interval does                                            *)

\* The next interval becomes the last one seen, and starts no earlier than the
\* one before it ended.
Sees(i) ==
    /\ UNCHANGED <<run, result, decision>>
    /\ result.reason = "pending"
    /\ seen' = Append(seen, i)
    /\ loop'.previousEnd = i.end
    /\ loop.previousEnd # None => i.start >= loop.previousEnd

\* A checkpoint changes the list of checkpoints only.
LEMMA CheckpointRead ==
    ASSUME TypeOK, NEW i \in Intervals, ReadCheckpoint(i)
    PROVE  /\ Sees(i)
           /\ i.phase = "checkpoint" /\ loop.activeStarted
           /\ loop' \in LoopType
           /\ loop'.checkpoints = Append(loop.checkpoints, i)
           /\ loop'.activeStarted = loop.activeStarted
           /\ loop'.firstActive = loop.firstActive
           /\ loop'.lastActive = loop.lastActive
           /\ loop'.warmupTime = loop.warmupTime
           /\ loop'.previousStep = loop.previousStep
           /\ loop'.activeBatches = loop.activeBatches
<1>1. i.end \in Nat
  BY IntervalFacts
<1>2. AllPass(IntervalGates(i)) /\ i.phase = "checkpoint"
  BY DEF ReadCheckpoint
<1>3. /\ loop.previousEnd # None => i.start >= loop.previousEnd
      /\ loop.activeStarted
  BY <1>2, IntervalPasses
<1>4. /\ loop' = [loop EXCEPT !.previousEnd = i.end, !.checkpoints = Append(@, i)]
      /\ result.reason = "pending" /\ seen' = Append(seen, i)
      /\ UNCHANGED <<run, result, decision>>
  BY DEF ReadCheckpoint, ReadNext
<1>5. Append(loop.checkpoints, i) \in Seq(Intervals)
  BY DEF TypeOK, LoopType
<1>6. /\ loop' \in LoopType /\ loop'.previousEnd = i.end
      /\ loop'.checkpoints = Append(loop.checkpoints, i)
      /\ loop'.activeStarted = loop.activeStarted
      /\ loop'.firstActive = loop.firstActive
      /\ loop'.lastActive = loop.lastActive
      /\ loop'.warmupTime = loop.warmupTime
      /\ loop'.previousStep = loop.previousStep
      /\ loop'.activeBatches = loop.activeBatches
  BY <1>1, <1>4, <1>5 DEF TypeOK, LoopType
<1> QED  BY <1>2, <1>3, <1>4, <1>6 DEF Sees

\* Warm-up comes before the first active interval and adds to its time.
LEMMA WarmupRead ==
    ASSUME TypeOK, NEW i \in Intervals, ReadWarmup(i)
    PROVE  /\ Sees(i)
           /\ i.phase = "warmup" /\ ~loop.activeStarted
           /\ loop' \in LoopType
           /\ loop'.checkpoints = loop.checkpoints
           /\ loop'.activeStarted = loop.activeStarted
           /\ loop'.firstActive = loop.firstActive
           /\ loop'.lastActive = loop.lastActive
           /\ loop'.warmupTime = loop.warmupTime + Duration(i)
           /\ loop'.activeBatches = loop.activeBatches
           /\ loop'.activeSteps = loop.activeSteps
           /\ loop'.previousStep = i.last
           /\ loop.previousStep # None => i.first = loop.previousStep + 1
<1>1. /\ i.end \in Nat /\ Duration(i) \in Nat
      /\ i.phase # "checkpoint" => i.last \in Nat /\ i.first \in Nat /\ i.first <= i.last
  BY IntervalFacts
<1>2. AllPass(IntervalGates(i)) /\ i.phase = "warmup"
  BY DEF ReadWarmup
<1>3. /\ loop.previousEnd # None => i.start >= loop.previousEnd
      /\ ~loop.activeStarted
      /\ loop.previousStep # None => i.first = loop.previousStep + 1
  BY <1>2, IntervalPasses
<1>4. /\ loop' = [loop EXCEPT !.previousEnd = i.end, !.previousStep = i.last,
                              !.warmupSteps = @ + Steps(i),
                              !.warmupTime = @ + Duration(i)]
      /\ result.reason = "pending" /\ seen' = Append(seen, i)
      /\ UNCHANGED <<run, result, decision>>
  BY DEF ReadWarmup, ReadNext
<1>5. Steps(i) \in Nat /\ i.last \in Nat
  BY <1>1, <1>2 DEF Steps
<1>6. loop' = [previousEnd |-> i.end, previousStep |-> i.last,
               activeStarted |-> loop.activeStarted, firstActive |-> loop.firstActive,
               lastActive |-> loop.lastActive, warmupSteps |-> loop.warmupSteps + Steps(i),
               activeSteps |-> loop.activeSteps, activeBatches |-> loop.activeBatches,
               warmupTime |-> loop.warmupTime + Duration(i),
               checkpoints |-> loop.checkpoints]
  BY <1>4 DEF TypeOK, LoopType
<1>7. loop' \in LoopType
  <2>1. /\ loop.firstActive \in Nat \cup {None} /\ loop.lastActive \in Nat \cup {None}
        /\ loop.activeStarted \in BOOLEAN /\ loop.checkpoints \in Seq(Intervals)
        /\ loop.activeSteps \in Nat /\ loop.activeBatches \in Nat
        /\ loop.warmupSteps + Steps(i) \in Nat /\ loop.warmupTime + Duration(i) \in Nat
    BY <1>1, <1>5 DEF TypeOK, LoopType
  <2> QED  BY <1>1, <1>5, <1>6, <2>1 DEF LoopType
<1>8. /\ loop'.previousEnd = i.end
      /\ loop'.checkpoints = loop.checkpoints
      /\ loop'.activeStarted = loop.activeStarted
      /\ loop'.firstActive = loop.firstActive
      /\ loop'.lastActive = loop.lastActive
      /\ loop'.warmupTime = loop.warmupTime + Duration(i)
      /\ loop'.activeBatches = loop.activeBatches
      /\ loop'.activeSteps = loop.activeSteps
      /\ loop'.previousStep = i.last
  BY <1>6
<1> QED  BY <1>2, <1>3, <1>4, <1>7, <1>8 DEF Sees

\* An active interval moves the end of the active span and adds its batches.
LEMMA ActiveRead ==
    ASSUME TypeOK, NEW i \in Intervals, ReadActive(i)
    PROVE  /\ Sees(i)
           /\ i.phase = "active"
           /\ loop' \in LoopType
           /\ loop'.checkpoints = loop.checkpoints
           /\ loop'.activeStarted
           /\ loop'.firstActive = IF loop.firstActive = None THEN i.start
                                  ELSE loop.firstActive
           /\ loop'.lastActive = i.end
           /\ loop'.warmupTime = loop.warmupTime
           /\ loop'.activeBatches = loop.activeBatches + Steps(i) * BatchesPerStep
           /\ loop'.previousStep = i.last
           /\ loop.previousStep # None => i.first = loop.previousStep + 1
<1>1. /\ i.end \in Nat /\ i.start \in Nat
      /\ i.phase # "checkpoint" => i.last \in Nat /\ i.first \in Nat /\ i.first <= i.last
  BY IntervalFacts
<1>2. AllPass(IntervalGates(i)) /\ i.phase = "active"
  BY DEF ReadActive
<1>3. /\ loop.previousEnd # None => i.start >= loop.previousEnd
      /\ loop.previousStep # None => i.first = loop.previousStep + 1
      /\ i.batches = Steps(i) * BatchesPerStep
  BY <1>2, IntervalPasses
<1> DEFINE b == Steps(i) * BatchesPerStep
<1>4. /\ loop' = [loop EXCEPT !.previousEnd = i.end, !.previousStep = i.last,
                              !.activeStarted = TRUE,
                              !.activeSteps = @ + Steps(i), !.activeBatches = @ + b,
                              !.firstActive = IF @ = None THEN i.start ELSE @,
                              !.lastActive = i.end]
      /\ result.reason = "pending" /\ seen' = Append(seen, i)
      /\ UNCHANGED <<run, result, decision>>
  BY <1>3 DEF ReadActive, ReadNext
<1>5. Steps(i) \in Nat /\ i.last \in Nat
  BY <1>1, <1>2 DEF Steps
<1>6. b \in Nat
  BY <1>5, PolicyAssumption DEF PolicyIsValid
<1> HIDE DEF b
<1>7. loop' = [previousEnd |-> i.end, previousStep |-> i.last, activeStarted |-> TRUE,
               firstActive |-> IF loop.firstActive = None THEN i.start
                               ELSE loop.firstActive,
               lastActive |-> i.end, warmupSteps |-> loop.warmupSteps,
               activeSteps |-> loop.activeSteps + Steps(i),
               activeBatches |-> loop.activeBatches + b,
               warmupTime |-> loop.warmupTime, checkpoints |-> loop.checkpoints]
  BY <1>4 DEF TypeOK, LoopType
<1>8. loop' \in LoopType
  <2>1. /\ loop.firstActive \in Nat \cup {None} /\ loop.checkpoints \in Seq(Intervals)
        /\ loop.warmupSteps \in Nat /\ loop.warmupTime \in Nat
        /\ loop.activeSteps + Steps(i) \in Nat /\ loop.activeBatches + b \in Nat
    BY <1>5, <1>6 DEF TypeOK, LoopType
  <2>2. (IF loop.firstActive = None THEN i.start ELSE loop.firstActive) \in Nat \cup {None}
    BY <1>1, <2>1
  <2> QED  BY <1>1, <1>5, <1>7, <2>1, <2>2 DEF LoopType
<1>9. /\ loop'.previousEnd = i.end
      /\ loop'.checkpoints = loop.checkpoints
      /\ loop'.activeStarted = TRUE
      /\ loop'.firstActive = IF loop.firstActive = None THEN i.start ELSE loop.firstActive
      /\ loop'.lastActive = i.end
      /\ loop'.warmupTime = loop.warmupTime
      /\ loop'.activeBatches = loop.activeBatches + b
      /\ loop'.previousStep = i.last
  BY <1>7
<1> QED  BY <1>2, <1>3, <1>4, <1>8, <1>9 DEF Sees, b

-----------------------------------------------------------------------------
(* The invariant on time                                                    *)

\* The interval is the last one now, and its time is added if it is active.
LEMMA SeenFacts ==
    ASSUME TypeOK, NEW i \in Intervals, Sees(i)
    PROVE  /\ seen' \in Seq(Intervals) /\ seen' # << >>
           /\ LastSeen'
           /\ seen'[1] = IF seen = << >> THEN i ELSE seen[1]
           /\ seen # << >> => seen[1] \in Intervals
           /\ ActiveSum \in Nat
           /\ ActiveSum' = ActiveSum + (IF i.phase = "active" THEN Duration(i) ELSE 0)
<1>1. seen \in Seq(Intervals) /\ seen' = Append(seen, i) /\ loop'.previousEnd = i.end
  BY DEF TypeOK, Sees
<1>2. i.end \in Nat
  BY IntervalFacts
<1>3. /\ seen' \in Seq(Intervals) /\ Len(seen') = Len(seen) + 1 /\ Len(seen) \in Nat
      /\ seen'[Len(seen) + 1] = i
      /\ seen' # << >>
  BY <1>1
<1>4. LastSeen'
  BY <1>1, <1>2, <1>3 DEF LastSeen, Last
<1>5. seen'[1] = IF seen = << >> THEN i ELSE seen[1]
  BY <1>1
<1>6. seen # << >> => seen[1] \in Intervals
  BY <1>1
<1>7. ActiveSum \in Nat
  BY <1>1, TimesType DEF ActiveSum
<1>8. i \in ActiveIntervals <=> i.phase = "active"
  BY DEF ActiveIntervals
<1>9. ActiveSum' = ActiveSum + (IF i \in ActiveIntervals THEN Duration(i) ELSE 0)
  BY <1>1, TimeOfAppend DEF ActiveSum
<1> QED  BY <1>3, <1>4, <1>5, <1>6, <1>7, <1>8, <1>9

\* The times of checkpoints are natural numbers.
LEMMA CheckpointTimes ==
    ASSUME TypeOK
    PROVE  CheckpointTime \in Nat /\ ExcludedInside \in Nat
<1>1. loop.checkpoints \in Seq(Intervals)
  BY DEF TypeOK, LoopType
<1> QED  BY <1>1, TimesType DEF CheckpointTime, ExcludedInside

TimeInv == TypeOK /\ LastSeen /\ BeforeActive /\ SinceActive

\* A checkpoint ends after the last active interval, so it is not inside.
LEMMA CheckpointTimeStep ==
    ASSUME TimeInv, NEW i \in Intervals, ReadCheckpoint(i)
    PROVE  BeforeActive' /\ SinceActive'
<1> DEFINE c == loop.checkpoints
<1>1. TypeOK /\ LastSeen /\ SinceActive
  BY DEF TimeInv
<1>2. /\ Sees(i)
      /\ i.phase = "checkpoint" /\ loop.activeStarted
      /\ loop' \in LoopType
      /\ loop'.checkpoints = Append(c, i)
      /\ loop'.activeStarted = loop.activeStarted
      /\ loop'.firstActive = loop.firstActive
      /\ loop'.lastActive = loop.lastActive
      /\ loop'.warmupTime = loop.warmupTime
  BY <1>1, CheckpointRead
<1>3. /\ seen # << >>
      /\ loop.firstActive \in Nat /\ loop.lastActive \in Nat
      /\ loop.lastActive <= loop.previousEnd
      /\ loop.warmupTime <= loop.firstActive - seen[1].start
      /\ ActiveSum + ExcludedInside <= loop.lastActive - loop.firstActive
      /\ CheckpointTime - ExcludedInside <= loop.previousEnd - loop.lastActive
      /\ \A n \in 1..Len(c) :
            c[n].start >= loop.firstActive /\ c[n].end <= loop.previousEnd
  BY <1>1, <1>2 DEF SinceActive
<1>4. /\ i.start \in Nat /\ i.end \in Nat /\ i.start < i.end /\ Duration(i) = i.end - i.start
  BY IntervalFacts DEF Duration
<1>5. loop.previousEnd \in Nat /\ i.start >= loop.previousEnd /\ loop'.previousEnd = i.end
  BY <1>1, <1>2, <1>3 DEF LastSeen, Sees, None
<1>6. c \in Seq(Intervals)
  BY <1>1 DEF TypeOK, LoopType
<1>7. InsideActive' = InsideActive
  BY <1>2 DEF InsideActive
<1>8. i \notin InsideActive
  BY <1>3, <1>4, <1>5 DEF InsideActive
<1>9. CheckpointTime' = CheckpointTime + Duration(i)
  BY <1>2, <1>6, TimeOfAppend DEF CheckpointTime
<1>10. ExcludedInside' = ExcludedInside + 0
  BY <1>2, <1>6, <1>7, <1>8, TimeOfAppend DEF ExcludedInside
<1>11. CheckpointTime \in Nat /\ ExcludedInside \in Nat
  BY <1>1, CheckpointTimes
<1>12. seen' # << >> /\ seen'[1] = seen[1] /\ ActiveSum' = ActiveSum + 0 /\ ActiveSum \in Nat
  BY <1>1, <1>2, <1>3, SeenFacts
<1>13. \A n \in 1..Len(c) : c[n].end \in Nat
  BY <1>6, IntervalFacts
<1>14. \A n \in 1..Len(Append(c, i)) :
          /\ Append(c, i)[n].start >= loop.firstActive
          /\ Append(c, i)[n].end <= i.end
  <2> SUFFICES ASSUME NEW n \in 1..Len(Append(c, i))
               PROVE  /\ Append(c, i)[n].start >= loop.firstActive
                      /\ Append(c, i)[n].end <= i.end
    OBVIOUS
  <2>1. (n \in 1..Len(c) /\ Append(c, i)[n] = c[n]) \/ Append(c, i)[n] = i
    BY <1>6
  <2>2. CASE n \in 1..Len(c) /\ Append(c, i)[n] = c[n]
    BY <2>2, <1>3, <1>4, <1>5, <1>13
  <2>3. CASE Append(c, i)[n] = i
    <3>1. loop.firstActive <= loop.lastActive
      BY <1>3, <1>11, <1>12
    <3> QED  BY <2>3, <3>1, <1>3, <1>4, <1>5
  <2> QED  BY <2>1, <2>2, <2>3
<1>15. CheckpointTime' - ExcludedInside' <= i.end - loop.lastActive
  <2>1. CheckpointTime' - ExcludedInside' = CheckpointTime - ExcludedInside + Duration(i)
    BY <1>4, <1>9, <1>10, <1>11
  <2>2. Duration(i) \in Nat /\ Duration(i) <= i.end - loop.previousEnd
    BY <1>4, <1>5
  <2>3. loop.lastActive \in Nat
    BY <1>3
  <2>4. CheckpointTime - ExcludedInside <= loop.previousEnd - loop.lastActive
    BY <1>3
  <2> QED  BY <1>4, <1>5, <1>11, <2>1, <2>2, <2>3, <2>4
<1>16. ActiveSum' + ExcludedInside' <= loop.lastActive - loop.firstActive
  BY <1>3, <1>10, <1>11, <1>12
<1>17. loop.lastActive <= i.end
  BY <1>3, <1>4, <1>5
<1> HIDE DEF c
<1>18. SinceActive'
  BY <1>2, <1>3, <1>5, <1>12, <1>14, <1>15, <1>16, <1>17 DEF SinceActive
<1> QED  BY <1>2, <1>18 DEF BeforeActive

\* Warm-up goes on before the first active interval.
LEMMA WarmupTimeStep ==
    ASSUME TimeInv, NEW i \in Intervals, ReadWarmup(i)
    PROVE  BeforeActive' /\ SinceActive'
<1>1. TypeOK /\ LastSeen /\ BeforeActive
  BY DEF TimeInv
<1>2. /\ Sees(i)
      /\ i.phase = "warmup" /\ ~loop.activeStarted
      /\ loop'.checkpoints = loop.checkpoints
      /\ loop'.activeStarted = loop.activeStarted
      /\ loop'.firstActive = loop.firstActive
      /\ loop'.lastActive = loop.lastActive
      /\ loop'.warmupTime = loop.warmupTime + Duration(i)
      /\ loop'.activeSteps = loop.activeSteps
  BY <1>1, WarmupRead
<1>3. /\ loop.checkpoints = << >>
      /\ loop.firstActive = None /\ loop.lastActive = None /\ loop.activeSteps = 0
      /\ ActiveSum = 0
      /\ seen = << >> => loop.warmupTime = 0
      /\ seen # << >> => loop.warmupTime <= loop.previousEnd - seen[1].start
  BY <1>1, <1>2 DEF BeforeActive
<1>4. /\ i.start \in Nat /\ i.end \in Nat /\ i.start < i.end /\ Duration(i) = i.end - i.start
      /\ seen # << >> => seen[1].start \in Nat
      /\ loop.warmupTime \in Nat
  <2>1. seen # << >> => seen[1] \in Intervals
    BY <1>1, <1>2, SeenFacts
  <2> QED  BY <1>1, <2>1, IntervalFacts DEF Duration, TypeOK, LoopType
<1>5. /\ seen' # << >> /\ ActiveSum' = ActiveSum + 0 /\ loop'.previousEnd = i.end
      /\ seen'[1] = IF seen = << >> THEN i ELSE seen[1]
  BY <1>1, <1>2, SeenFacts DEF Sees
<1>6. loop'.warmupTime <= i.end - seen'[1].start
  <2>1. CASE seen = << >>
    BY <2>1, <1>2, <1>3, <1>4, <1>5
  <2>2. CASE seen # << >>
    <3>1. loop.previousEnd \in Nat /\ i.start >= loop.previousEnd
      BY <2>2, <1>1, <1>2 DEF LastSeen, Sees, None
    <3> QED  BY <2>2, <3>1, <1>2, <1>3, <1>4, <1>5
  <2> QED  BY <2>1, <2>2
<1>7. BeforeActive'
  BY <1>2, <1>3, <1>5, <1>6 DEF BeforeActive
<1> QED  BY <1>2, <1>7 DEF SinceActive

\* An active interval: the checkpoints that were read so far are inside now.
LEMMA ActiveTimeStep ==
    ASSUME TimeInv, NEW i \in Intervals, ReadActive(i)
    PROVE  BeforeActive' /\ SinceActive'
<1> DEFINE c == loop.checkpoints
<1>1. TypeOK /\ LastSeen /\ BeforeActive /\ SinceActive
  BY DEF TimeInv
<1>2. /\ Sees(i)
      /\ i.phase = "active"
      /\ loop'.checkpoints = c
      /\ loop'.activeStarted
      /\ loop'.firstActive = IF loop.firstActive = None THEN i.start ELSE loop.firstActive
      /\ loop'.lastActive = i.end
      /\ loop'.warmupTime = loop.warmupTime
  BY <1>1, ActiveRead
<1>3. /\ i.start \in Nat /\ i.end \in Nat /\ i.start < i.end /\ Duration(i) = i.end - i.start
      /\ seen # << >> => seen[1].start \in Nat
      /\ loop.warmupTime \in Nat /\ c \in Seq(Intervals)
  <2>1. seen # << >> => seen[1] \in Intervals
    BY <1>1, <1>2, SeenFacts
  <2> QED  BY <1>1, <2>1, IntervalFacts DEF Duration, TypeOK, LoopType
<1>4. /\ seen' # << >> /\ ActiveSum' = ActiveSum + Duration(i) /\ ActiveSum \in Nat
      /\ seen'[1] = IF seen = << >> THEN i ELSE seen[1]
      /\ loop'.previousEnd = i.end
  BY <1>1, <1>2, SeenFacts DEF Sees
<1>5. seen # << >> => loop.previousEnd \in Nat /\ i.start >= loop.previousEnd
  BY <1>1, <1>2 DEF LastSeen, Sees, None
<1>6. CheckpointTime \in Nat /\ ExcludedInside \in Nat
  BY <1>1, CheckpointTimes
<1>7. CheckpointTime' = CheckpointTime
  BY <1>2 DEF CheckpointTime
<1>8. CASE ~loop.activeStarted
  <2>1. /\ c = << >>
        /\ loop.firstActive = None
        /\ ActiveSum = 0
        /\ seen = << >> => loop.warmupTime = 0
        /\ seen # << >> => loop.warmupTime <= loop.previousEnd - seen[1].start
    BY <1>1, <1>8 DEF BeforeActive
  <2>2. loop'.firstActive = i.start
    BY <1>2, <2>1
  <2>3. CheckpointTime' = 0 /\ ExcludedInside' = 0
    BY <1>2, <2>1, TimeOfNone DEF CheckpointTime, ExcludedInside
  <2>4. loop.warmupTime <= i.start - seen'[1].start
    BY <1>3, <1>4, <1>5, <2>1
  <2>5. /\ ActiveSum' + ExcludedInside' <= i.end - i.start
        /\ CheckpointTime' - ExcludedInside' <= i.end - i.end
    BY <1>3, <1>4, <2>1, <2>3
  <2>6. Len(loop'.checkpoints) = 0
    BY <1>2, <2>1
  <2> HIDE DEF c
  <2>7. SinceActive'
    BY <1>2, <1>3, <1>4, <2>2, <2>4, <2>5, <2>6 DEF SinceActive
  <2> QED  BY <1>2, <2>7 DEF BeforeActive
<1>9. CASE loop.activeStarted
  <2>1. /\ seen # << >>
        /\ loop.firstActive \in Nat /\ loop.lastActive \in Nat
        /\ loop.lastActive <= loop.previousEnd
        /\ loop.warmupTime <= loop.firstActive - seen[1].start
        /\ ActiveSum + ExcludedInside <= loop.lastActive - loop.firstActive
        /\ CheckpointTime - ExcludedInside <= loop.previousEnd - loop.lastActive
        /\ \A n \in 1..Len(c) :
              c[n].start >= loop.firstActive /\ c[n].end <= loop.previousEnd
    BY <1>1, <1>9 DEF SinceActive
  <2>2. loop'.firstActive = loop.firstActive
    BY <1>2, <2>1 DEF None
  <2>3. loop.previousEnd \in Nat /\ i.start >= loop.previousEnd /\ loop.previousEnd <= i.end
    BY <1>3, <1>5, <2>1
  <2>4. \A n \in 1..Len(c) : c[n] \in Intervals /\ c[n].end \in Nat /\ c[n].end <= i.end
    <3> SUFFICES ASSUME NEW n \in 1..Len(c)
                 PROVE  c[n] \in Intervals /\ c[n].end \in Nat /\ c[n].end <= i.end
      OBVIOUS
    <3>1. c[n] \in Intervals
      BY <1>3
    <3>2. c[n].end \in Nat /\ c[n].end <= loop.previousEnd
      BY <2>1, <3>1, IntervalFacts
    <3> QED  BY <1>3, <2>3, <3>1, <3>2
  <2>5. \A n \in 1..Len(c) : c[n] \in InsideActive' <=> c[n] \in Intervals
    BY <1>2, <2>1, <2>2, <2>4 DEF InsideActive
  <2>6. ExcludedInside' = CheckpointTime
    <3>1. Times(c, InsideActive') = Times(c, Intervals)
      BY <2>5, SameTimes
    <3> QED  BY <1>2, <3>1 DEF ExcludedInside, CheckpointTime
  <2>7. ActiveSum' + ExcludedInside' <= i.end - loop.firstActive
    <3>1. ActiveSum + CheckpointTime <= loop.previousEnd - loop.firstActive
      BY <1>4, <1>6, <2>1, <2>3
    <3>2. Duration(i) \in Nat /\ Duration(i) <= i.end - loop.previousEnd
      BY <1>3, <2>3
    <3>3. loop.firstActive \in Nat
      BY <2>1
    <3>4. ActiveSum + Duration(i) + CheckpointTime <= i.end - loop.firstActive
      <4>1. /\ ActiveSum \in Nat /\ CheckpointTime \in Nat
            /\ i.end \in Nat /\ loop.previousEnd \in Nat
        BY <1>3, <1>4, <1>6, <2>3
      <4> QED  BY <3>1, <3>2, <3>3, <4>1
    <3> QED  BY <1>4, <2>6, <3>4
  <2>8. CheckpointTime' - ExcludedInside' <= i.end - i.end
    BY <1>3, <1>6, <1>7, <2>6
  <2> HIDE DEF c
  <2>9. SinceActive'
    BY <1>2, <1>3, <1>4, <2>1, <2>2, <2>4, <2>7, <2>8 DEF SinceActive
  <2> QED  BY <1>2, <2>9 DEF BeforeActive
<1> QED  BY <1>8, <1>9

-----------------------------------------------------------------------------
(* The invariant on steps                                                   *)

\* The steps of an interval are done if it is active.
LEMMA StepsOfNext ==
    ASSUME TypeOK, NEW i \in Intervals, Sees(i)
    PROVE  /\ i.phase # "active" => StepsDone' = StepsDone
           /\ i.phase = "active" => StepsDone' = StepsDone \cup (i.first..i.last)
<1> DEFINE A == Range(seen) \cap ActiveIntervals
           B == Range(seen)' \cap ActiveIntervals
<1>1. seen \in Seq(Intervals) /\ seen' = Append(seen, i)
  BY DEF TypeOK, Sees
<1>2. Range(seen)' = Range(seen) \cup {i}
  <2>1. /\ DOMAIN seen = 1..Len(seen) /\ DOMAIN seen' = 1..(Len(seen) + 1)
        /\ \A n \in 1..Len(seen) : seen'[n] = seen[n]
        /\ seen'[Len(seen) + 1] = i
        /\ Len(seen) \in Nat
    BY <1>1
  <2>2. \A n \in 1..(Len(seen) + 1) : n \in 1..Len(seen) \/ n = Len(seen) + 1
    BY <2>1
  <2>3. 1..Len(seen) \subseteq 1..(Len(seen) + 1) /\ Len(seen) + 1 \in 1..(Len(seen) + 1)
    BY <2>1
  <2> QED  BY <2>1, <2>2, <2>3 DEF Range
<1>3. StepsDone = UNION {j.first..j.last : j \in A}
  BY DEF StepsDone
<1>4. StepsDone' = UNION {j.first..j.last : j \in B}
  BY DEF StepsDone
<1>5. CASE i.phase # "active"
  <2>1. B = A
    BY <1>2, <1>5 DEF ActiveIntervals
  <2> QED  BY <1>3, <1>4, <1>5, <2>1
<1>6. CASE i.phase = "active"
  <2>1. B = A \cup {i}
    BY <1>2, <1>6 DEF ActiveIntervals
  <2> HIDE DEF A, B
  <2>2. UNION {j.first..j.last : j \in A \cup {i}}
            = (UNION {j.first..j.last : j \in A}) \cup (i.first..i.last)
    OBVIOUS
  <2> QED  BY <1>3, <1>4, <1>6, <2>1, <2>2
<1> QED  BY <1>5, <1>6

\* An active interval does steps that were not done: their batches are counted.
LEMMA ActiveStepsStep ==
    ASSUME TypeOK, StepsCounted, NEW i \in Intervals, ReadActive(i)
    PROVE  StepsCounted'
<1> DEFINE new == i.first..i.last
           n == Steps(i)
<1>1. /\ Sees(i) /\ i.phase = "active" /\ loop' \in LoopType
      /\ loop'.activeBatches = loop.activeBatches + n * BatchesPerStep
      /\ loop'.previousStep = i.last
      /\ loop.previousStep # None => i.first = loop.previousStep + 1
  BY ActiveRead
<1>2. /\ i.first \in Nat /\ i.last \in Nat /\ i.first <= i.last
      /\ n = i.last - i.first + 1
      /\ loop.previousStep \in Nat \cup {None}
  BY <1>1, IntervalFacts DEF TypeOK, LoopType, Steps
<1>3. /\ IsFiniteSet(StepsDone)
      /\ loop.activeBatches = Cardinality(StepsDone) * BatchesPerStep
      /\ \A x \in StepsDone : x \in Nat /\ x <= loop.previousStep
  BY DEF StepsCounted
<1>4. StepsDone' = StepsDone \cup new
  BY <1>1, StepsOfNext
<1>5. IsFiniteSet(new) /\ Cardinality(new) = n
  <2>1. i.first \in Int /\ i.last \in Int /\ ~(i.first > i.last)
    BY <1>2
  <2>2. /\ IsFiniteSet(i.first..i.last)
        /\ Cardinality(i.first..i.last)
              = IF i.first > i.last THEN 0 ELSE i.last - i.first + 1
    BY <2>1, FS_Interval
  <2> QED  BY <1>2, <2>1, <2>2
<1>6. \A x \in StepsDone : x < i.first
  BY <1>1, <1>2, <1>3 DEF None
<1>7. StepsDone \cap new = {}
  BY <1>2, <1>3, <1>6
<1>8. /\ IsFiniteSet(StepsDone \cup new)
      /\ Cardinality(StepsDone \cup new)
            = Cardinality(StepsDone) + n - Cardinality(StepsDone \cap new)
  BY <1>3, <1>5, FS_Union
<1>9. Cardinality(StepsDone \cap new) = 0 /\ Cardinality(StepsDone) \in Nat
  BY <1>3, <1>7, FS_EmptySet, FS_CardinalityType
<1>10. Cardinality(StepsDone') = Cardinality(StepsDone) + n
  BY <1>2, <1>4, <1>8, <1>9
<1>11. \A x \in StepsDone' : x \in Nat /\ x <= loop'.previousStep
  BY <1>1, <1>2, <1>3, <1>4, <1>6
<1>12. loop'.activeBatches = Cardinality(StepsDone') * BatchesPerStep
  <2>1. Cardinality(StepsDone) \in Nat /\ n \in Nat /\ BatchesPerStep \in Nat
    BY <1>2, <1>9, PolicyAssumption DEF PolicyIsValid
  <2> HIDE DEF n
  <2>2. Cardinality(StepsDone) * BatchesPerStep + n * BatchesPerStep
            = (Cardinality(StepsDone) + n) * BatchesPerStep
    BY <2>1
  <2> QED  BY <1>1, <1>3, <1>10, <2>2
<1>13. IsFiniteSet(StepsDone')
  BY <1>4, <1>8
<1> HIDE DEF new, n
<1> QED  BY <1>11, <1>12, <1>13 DEF StepsCounted

\* Warm-up and checkpoints do no step that counts.
LEMMA OtherStepsStep ==
    ASSUME TypeOK, StepsCounted, NEW i \in Intervals, ReadCheckpoint(i) \/ ReadWarmup(i)
    PROVE  StepsCounted'
<1>1. /\ IsFiniteSet(StepsDone)
      /\ loop.activeBatches = Cardinality(StepsDone) * BatchesPerStep
      /\ \A x \in StepsDone : x \in Nat /\ x <= loop.previousStep
  BY DEF StepsCounted
<1>2. CASE ReadCheckpoint(i)
  <2>1. /\ Sees(i) /\ i.phase # "active"
        /\ loop'.activeBatches = loop.activeBatches
        /\ loop'.previousStep = loop.previousStep
    BY <1>2, CheckpointRead
  <2>2. StepsDone' = StepsDone
    BY <2>1, StepsOfNext
  <2> QED  BY <1>1, <2>1, <2>2 DEF StepsCounted
<1>3. CASE ReadWarmup(i)
  <2>1. /\ Sees(i) /\ i.phase # "active" /\ i.phase # "checkpoint"
        /\ loop'.activeBatches = loop.activeBatches
        /\ loop'.previousStep = i.last
        /\ loop.previousStep # None => i.first = loop.previousStep + 1
    BY <1>3, WarmupRead
  <2>2. StepsDone' = StepsDone
    BY <2>1, StepsOfNext
  <2>3. /\ i.first \in Nat /\ i.last \in Nat /\ i.first <= i.last
        /\ loop.previousStep \in Nat \cup {None}
    BY <2>1, IntervalFacts DEF TypeOK, LoopType
  <2>4. \A x \in StepsDone : x \in Nat /\ x <= i.last
    BY <1>1, <2>1, <2>3 DEF None
  <2> QED  BY <1>1, <2>1, <2>2, <2>4 DEF StepsCounted
<1> QED  BY <1>2, <1>3

-----------------------------------------------------------------------------
(* The invariant is inductive                                               *)

\* Multiplication keeps an order.
LEMMA Products ==
    ASSUME NEW a \in Nat, NEW m \in Int, NEW n \in Int, m <= n
    PROVE  a * m \in Int /\ a * n \in Int /\ a * m <= a * n
  OBVIOUS

\* Division leaves less than its divisor.
LEMMA Division ==
    ASSUME NEW x \in Nat, NEW a \in Nat \ {0}
    PROVE  /\ x \div a \in Nat
           /\ a * (x \div a) <= x
           /\ x < a * (x \div a + 1)
  OBVIOUS

\* What holds of a loop that has not begun.
LEMMA EmptyLoopFacts ==
    /\ EmptyLoop \in LoopType
    /\ EmptyLoop.previousEnd = None /\ EmptyLoop.checkpoints = << >>
    /\ EmptyLoop.activeStarted = FALSE
    /\ EmptyLoop.firstActive = None /\ EmptyLoop.lastActive = None
    /\ EmptyLoop.warmupTime = 0 /\ EmptyLoop.activeSteps = 0
    /\ EmptyLoop.activeBatches = 0
  BY DEF EmptyLoop, LoopType, None

\* The invariant holds at first.
LEMMA InvInit ==
    ASSUME Init
    PROVE  Inv
<1>1. run \in Runs /\ seen = << >> /\ loop = EmptyLoop /\ decision = "none"
  BY DEF Init
<1>2. ~Measured
  BY DEF Init, Failed, Unmeasured, Measured
<1>3. TypeOK
  BY <1>1, EmptyLoopFacts DEF TypeOK
<1>4. LastSeen
  BY <1>1, EmptyLoopFacts DEF LastSeen
<1>5. ActiveSum = 0
  BY <1>1, TimeOfNone DEF ActiveSum
<1>6. BeforeActive /\ SinceActive
  BY <1>1, <1>5, EmptyLoopFacts DEF BeforeActive, SinceActive
<1>7. StepsDone = {}
  BY <1>1 DEF StepsDone, Range
<1>8. StepsCounted
  <2>1. IsFiniteSet({}) /\ Cardinality({}) = 0 /\ 0 * BatchesPerStep = 0
    BY FS_EmptySet, PolicyAssumption DEF PolicyIsValid
  <2> QED  BY <1>1, <1>7, <2>1, EmptyLoopFacts DEF StepsCounted
<1> QED  BY <1>1, <1>2, <1>3, <1>4, <1>6, <1>8 DEF Inv, Concluded, Decided

\* A call of measure starts from nothing.
LEMMA BeginStep ==
    ASSUME Inv, NEW r \in Runs, NEW m, Begin(r, m)
    PROVE  Inv'
<1>1. run' \in Runs /\ seen' = << >> /\ loop' = EmptyLoop /\ decision' = "none"
  BY DEF Begin
<1>2. ~Measured'
  BY BeginRejected DEF Measured
<1>3. TypeOK'
  BY <1>1, EmptyLoopFacts DEF TypeOK
<1>4. LastSeen'
  BY <1>1, EmptyLoopFacts DEF LastSeen
<1>5. ActiveSum' = 0
  BY <1>1, TimeOfNone DEF ActiveSum
<1>6. BeforeActive' /\ SinceActive'
  BY <1>1, <1>5, EmptyLoopFacts DEF BeforeActive, SinceActive
<1>7. StepsDone' = {}
  BY <1>1 DEF StepsDone, Range
<1>8. StepsCounted'
  <2>1. IsFiniteSet({}) /\ Cardinality({}) = 0 /\ 0 * BatchesPerStep = 0
    BY FS_EmptySet, PolicyAssumption DEF PolicyIsValid
  <2> QED  BY <1>1, <1>7, <2>1, EmptyLoopFacts DEF StepsCounted
<1> QED  BY <1>1, <1>2, <1>3, <1>4, <1>6, <1>8 DEF Inv, Concluded, Decided

\* A step that leaves the run and the loop alone leaves what is said of them.
LEMMA LoopKept ==
    ASSUME Inv, UNCHANGED <<run, seen, loop>>
    PROVE  /\ TypeOK' /\ LastSeen' /\ BeforeActive' /\ SinceActive' /\ StepsCounted'
           /\ ActiveTime' = ActiveTime /\ RequiredTime' = RequiredTime
           /\ AcceptedUnits' = AcceptedUnits /\ CheckpointTime' = CheckpointTime
<1>1. TypeOK /\ LastSeen /\ BeforeActive /\ SinceActive /\ StepsCounted
  BY DEF Inv
<1>2. /\ ActiveSum' = ActiveSum /\ StepsDone' = StepsDone
      /\ CheckpointTime' = CheckpointTime /\ ExcludedInside' = ExcludedInside
  BY DEF ActiveSum, StepsDone, CheckpointTime, ExcludedInside, InsideActive
<1>3. TypeOK' /\ LastSeen'
  BY <1>1 DEF TypeOK, LastSeen
<1>4. BeforeActive' /\ SinceActive' /\ StepsCounted'
  BY <1>1, <1>2 DEF BeforeActive, SinceActive, StepsCounted
<1> QED  BY <1>2, <1>3, <1>4 DEF ActiveTime, RequiredTime, AcceptedUnits

\* An interval that is read.
LEMMA ReadStep ==
    ASSUME Inv, NEW i \in Intervals, ReadCheckpoint(i) \/ ReadWarmup(i) \/ ReadActive(i)
    PROVE  Inv'
<1>1. TypeOK /\ LastSeen /\ BeforeActive /\ SinceActive /\ StepsCounted /\ Decided
  BY DEF Inv
<1>2. TimeInv
  BY <1>1 DEF TimeInv
<1>3. Sees(i) /\ loop' \in LoopType
  BY <1>1, CheckpointRead, WarmupRead, ActiveRead
<1>4. BeforeActive' /\ SinceActive'
  BY <1>2, CheckpointTimeStep, WarmupTimeStep, ActiveTimeStep
<1>5. StepsCounted'
  BY <1>1, ActiveStepsStep, OtherStepsStep
<1>6. seen' \in Seq(Intervals) /\ LastSeen'
  BY <1>1, <1>3, SeenFacts
<1>7. TypeOK'
  BY <1>1, <1>3, <1>6 DEF TypeOK, Sees
<1>8. ~Measured /\ ~Measured' /\ decision' = decision
  BY <1>3 DEF Sees, Measured
<1>9. Concluded' /\ Decided'
  BY <1>1, <1>8 DEF Concluded, Decided
<1> QED  BY <1>4, <1>5, <1>6, <1>7, <1>9 DEF Inv

\* The end of measure.
LEMMA ConcludeStep ==
    ASSUME Inv, Conclude
    PROVE  Inv'
<1>1. TypeOK /\ BeforeActive /\ Decided
  BY DEF Inv
<1>2. /\ UNCHANGED <<run, seen, loop, decision>> /\ seen # << >>
      /\ result.reason = "pending"
  BY DEF Conclude
<1>3. /\ TypeOK' /\ LastSeen' /\ BeforeActive' /\ SinceActive' /\ StepsCounted'
      /\ ActiveTime' = ActiveTime /\ RequiredTime' = RequiredTime
      /\ AcceptedUnits' = AcceptedUnits /\ CheckpointTime' = CheckpointTime
  BY <1>2, LoopKept
<1>4. decision' = "none"
  BY <1>1, <1>2 DEF Decided, Measured
<1>5. Concluded'
  <2>1. CASE ~AllPass(FinalGates)
    <3>1. result'.reason = FirstFailure(FinalGates)
      BY <2>1 DEF Conclude, Failed, Unmeasured
    <3> QED  BY <2>1, <3>1, FinalRejected DEF Concluded, Measured
  <2>2. CASE AllPass(FinalGates)
    <3>1. /\ result'.units = AcceptedUnits /\ result'.active = ActiveTime
          /\ result'.excluded = run.fetch + run.setup + loop.warmupTime + CheckpointTime
          /\ result'.rate = Rate(AcceptedUnits, ActiveTime)
      BY <2>2 DEF Conclude
    <3>2. /\ loop.activeSteps >= MinimumActive
          /\ ActiveTime \in 1..MaximumActive
          /\ RequiredTime <= run.observed
          /\ AcceptedUnits \in 1..MaximumUnits
      BY <2>2, FinalPasses
    <3>3. loop.activeStarted
      BY <1>1, <3>2, PolicyAssumption DEF BeforeActive, PolicyIsValid
    <3>4. loop' = loop /\ run' = run /\ seen' = seen
      BY <1>2
    <3> QED  BY <1>2, <1>3, <3>1, <3>2, <3>3, <3>4 DEF Concluded
  <2> QED  BY <2>1, <2>2
<1> QED  BY <1>3, <1>4, <1>5 DEF Inv, Decided

\* A rate is a natural number.
LEMMA RateType ==
    ASSUME NEW units \in Nat, NEW time \in Nat \ {0}
    PROVE  /\ Rate(units, time) \in Nat
           /\ time * Rate(units, time) <= units * RateScale
           /\ units * RateScale < time * (Rate(units, time) + 1)
<1>1. units * RateScale \in Nat
  BY PolicyAssumption DEF PolicyIsValid
<1> QED  BY <1>1, Division DEF Rate

\* The decision.
LEMMA AssessStep ==
    ASSUME Inv, NEW profiled \in BOOLEAN, Assess(profiled)
    PROVE  Inv'
<1>1. Concluded /\ Measured
  BY DEF Inv, Assess, Measured
<1>2. UNCHANGED <<run, seen, loop, result>>
  BY DEF Assess
<1>3. /\ TypeOK' /\ LastSeen' /\ BeforeActive' /\ SinceActive' /\ StepsCounted'
      /\ ActiveTime' = ActiveTime /\ RequiredTime' = RequiredTime
      /\ AcceptedUnits' = AcceptedUnits /\ CheckpointTime' = CheckpointTime
  BY <1>2, LoopKept
<1>4. Concluded'
  BY <1>1, <1>2, <1>3 DEF Concluded, Measured
<1>5. result.rate \in Nat
  <2>1. AcceptedUnits \in Nat /\ ActiveTime \in Nat \ {0}
    BY <1>1, PolicyAssumption DEF Concluded, PolicyIsValid
  <2> QED  BY <1>1, <2>1, RateType DEF Concluded
<1>6. \/ decision' = "unprofiled"
      \/ decision' = "impossible" /\ result.rate > Upper
      \/ decision' = "slow_review" /\ result.rate < Lower
      \/ decision' = "plausible" /\ ~(result.rate > Upper) /\ ~(result.rate < Lower)
  BY DEF Assess
<1>7. Lower \in Nat /\ Upper \in Nat
  BY PolicyAssumption DEF ProfileIsValid
<1>8. Decided'
  BY <1>1, <1>2, <1>5, <1>6, <1>7 DEF Decided, Measured
<1> QED  BY <1>3, <1>4, <1>8 DEF Inv

\* Every step keeps the invariant.
LEMMA InvStep ==
    ASSUME Inv, [Next]_vars
    PROVE  Inv'
<1>1. ASSUME NEW r \in Runs, NEW m, Begin(r, m) PROVE Inv'
  BY <1>1, BeginStep
<1>2. ASSUME NEW i \in Intervals, RejectInterval(i) PROVE Inv'
  <2>1. /\ UNCHANGED <<run, seen, loop, decision>> /\ result.reason = "pending"
        /\ result'.reason = FirstFailure(IntervalGates(i))
        /\ ~AllPass(IntervalGates(i))
    BY <1>2 DEF RejectInterval, ReadNext, Failed, Unmeasured
  <2>2. ~Measured /\ ~Measured'
    BY <2>1, IntervalRejected DEF Measured
  <2>3. Concluded' /\ Decided'
    BY <2>1, <2>2 DEF Inv, Concluded, Decided
  <2> QED  BY <2>1, <2>3, LoopKept DEF Inv
<1>3. ASSUME NEW i \in Intervals, ReadCheckpoint(i) \/ ReadWarmup(i) \/ ReadActive(i)
      PROVE  Inv'
  BY <1>3, ReadStep
<1>4. CASE Conclude
  BY <1>4, ConcludeStep
<1>5. ASSUME NEW profiled \in BOOLEAN, Assess(profiled) PROVE Inv'
  BY <1>5, AssessStep
<1>6. CASE UNCHANGED vars
  <2>1. UNCHANGED <<run, seen, loop>> /\ result' = result /\ decision' = decision
    BY <1>6 DEF vars
  <2>2. /\ TypeOK' /\ LastSeen' /\ BeforeActive' /\ SinceActive' /\ StepsCounted'
        /\ ActiveTime' = ActiveTime /\ RequiredTime' = RequiredTime
        /\ AcceptedUnits' = AcceptedUnits /\ CheckpointTime' = CheckpointTime
    BY <2>1, LoopKept
  <2>3. Concluded' /\ Decided'
    BY <2>1, <2>2 DEF Inv, Concluded, Decided, Measured
  <2> QED  BY <2>2, <2>3 DEF Inv
<1> QED  BY <1>1, <1>2, <1>3, <1>4, <1>5, <1>6 DEF Next

\* The invariant holds in every state.
LEMMA Invariant == Spec => []Inv
<1>1. Init => Inv
  BY InvInit
<1>2. Inv /\ [Next]_vars => Inv'
  BY InvStep
<1> QED  BY <1>1, <1>2, PTL DEF Spec

-----------------------------------------------------------------------------
(* Theorems                                                                 *)

\* For every run, however its time is cut into intervals: the active and the
\* excluded time that measure returns fit into what the validator observed, and the
\* active time is at least that of the active intervals.
THEOREM TimeIsAccounted == Spec => []TimeAccounted
<1>1. Inv => TimeAccounted
  <2> SUFFICES ASSUME Inv, Measured
               PROVE  /\ result.active + result.excluded <= run.observed
                      /\ result.active >= ActiveSum
    BY DEF TimeAccounted, ActiveSum
  <2>1. TypeOK /\ LastSeen /\ SinceActive /\ Concluded
    BY DEF Inv
  <2>2. /\ seen # << >> /\ loop.activeStarted
        /\ RequiredTime <= run.observed
        /\ result.active = ActiveTime
        /\ result.excluded = run.fetch + run.setup + loop.warmupTime + CheckpointTime
    BY <2>1 DEF Concluded
  <2>3. /\ loop.firstActive \in Nat /\ loop.lastActive \in Nat
        /\ loop.warmupTime <= loop.firstActive - seen[1].start
        /\ ActiveSum + ExcludedInside <= loop.lastActive - loop.firstActive
        /\ CheckpointTime - ExcludedInside <= loop.previousEnd - loop.lastActive
    BY <2>1, <2>2 DEF SinceActive
  <2>4. loop.previousEnd \in Nat /\ Last(seen).end = loop.previousEnd
    BY <2>1, <2>2 DEF LastSeen
  <2>5. CheckpointTime \in Nat /\ ExcludedInside \in Nat /\ ActiveSum \in Nat
    BY <2>1, CheckpointTimes, TimesType DEF ActiveSum, TypeOK
  <2>6. seen[1].start \in Nat
    <3>1. seen[1] \in Intervals
      BY <2>1, <2>2 DEF TypeOK
    <3> QED  BY <3>1, IntervalFacts
  <2>7. /\ run.fetch \in Nat /\ run.setup \in Nat /\ run.observed \in Nat
        /\ loop.warmupTime \in Nat
    <3>1. run \in [fetch : Nat, setup : Nat, observed : Nat \ {0}]
      BY <2>1, PolicyAssumption DEF TypeOK, PolicyIsValid
    <3> QED  BY <2>1, <3>1 DEF TypeOK, LoopType
  <2>8. ActiveTime = loop.lastActive - loop.firstActive - ExcludedInside
    BY DEF ActiveTime
  <2>9. run.fetch + run.setup + loop.previousEnd - seen[1].start <= run.observed
    BY <2>2, <2>4 DEF RequiredTime
  <2>10. ActiveTime + loop.warmupTime + CheckpointTime <= loop.previousEnd - seen[1].start
    BY <2>3, <2>4, <2>5, <2>6, <2>7, <2>8
  <2>11. ActiveTime \in Int
    BY <2>3, <2>5, <2>8
  <2>12. result.active + result.excluded <= run.observed
    <3> DEFINE excluded == run.fetch + run.setup + loop.warmupTime + CheckpointTime
    <3>1. ActiveTime + excluded <= run.observed
      BY <2>4, <2>5, <2>6, <2>7, <2>9, <2>10, <2>11
    <3>2. result.active = ActiveTime /\ result.excluded = excluded
      BY <2>2
    <3> HIDE DEF excluded
    <3> QED  BY <3>1, <3>2
  <2>13. result.active >= ActiveSum
    BY <2>2, <2>3, <2>5, <2>8
  <2> QED  BY <2>12, <2>13
<1> QED  BY <1>1, Invariant, PTL

\* For every run, however its steps are cut into intervals: the units that measure
\* accepts are those of the steps done in active intervals, each counted once.
THEOREM StepsAreCountedOnce == Spec => []StepsCountedOnce
<1>1. Inv => StepsCountedOnce
  BY DEF Inv, Concluded, StepsCounted, StepsCountedOnce, AcceptedUnits
<1> QED  BY <1>1, Invariant, PTL

\* For every work, time and envelope: the decision on the integer rate is one the
\* exact rate allows.
THEOREM DecisionsAreExact == Spec => []DecisionIsExact
<1>1. Inv => DecisionIsExact
  <2> SUFFICES ASSUME Inv, decision # "none"
               PROVE  DecisionIsExact
    BY DEF DecisionIsExact
  <2> DEFINE work == result.units * RateScale
             a == result.active
             q == result.rate
  <2>1. Concluded /\ Decided /\ Measured
    BY DEF Inv, Decided
  <2>2. /\ result.units = AcceptedUnits /\ a = ActiveTime
        /\ q = Rate(AcceptedUnits, ActiveTime)
        /\ AcceptedUnits \in Nat /\ ActiveTime \in Nat \ {0}
    BY <2>1, PolicyAssumption DEF Concluded, PolicyIsValid
  <2>3. a \in Nat /\ a > 0 /\ q \in Nat /\ a * q <= work /\ work < a * (q + 1)
    BY <2>2, RateType
  <2>4. work \in Nat /\ Lower \in Nat /\ Upper \in Nat
    BY <2>2, PolicyAssumption DEF PolicyIsValid, ProfileIsValid
  <2>5. /\ decision = "impossible" => q > Upper
        /\ decision = "slow_review" => q < Lower
        /\ decision = "plausible" => Lower <= q /\ q <= Upper
    BY <2>1 DEF Decided
  <2> HIDE DEF work, a, q
  <2>6. q > Upper => work > Upper * a
    <3> SUFFICES ASSUME q > Upper PROVE work > Upper * a
      OBVIOUS
    <3>1. Upper + 1 <= q /\ Upper + 1 \in Int
      BY <2>3, <2>4
    <3>2. a * (Upper + 1) <= a * q /\ a * q \in Int
      BY <2>3, <3>1, Products
    <3>3. a * (Upper + 1) = Upper * a + a /\ Upper * a \in Int
      BY <2>3, <2>4
    <3> QED  BY <2>3, <2>4, <3>2, <3>3
  <2>7. q < Lower => work < Lower * a
    <3> SUFFICES ASSUME q < Lower PROVE work < Lower * a
      OBVIOUS
    <3>1. q + 1 <= Lower /\ q + 1 \in Int
      BY <2>3, <2>4
    <3>2. a * (q + 1) <= a * Lower /\ a * (q + 1) \in Int /\ a * Lower \in Int
      BY <2>3, <2>4, <3>1, Products
    <3>3. a * Lower = Lower * a
      BY <2>3, <2>4
    <3> QED  BY <2>3, <2>4, <3>2, <3>3
  <2>8. Lower <= q => work >= Lower * a
    <3> SUFFICES ASSUME Lower <= q PROVE work >= Lower * a
      OBVIOUS
    <3>1. a * Lower <= a * q /\ a * Lower \in Int /\ a * q \in Int
      BY <2>3, <2>4, Products
    <3>2. a * Lower = Lower * a
      BY <2>3, <2>4
    <3> QED  BY <2>3, <2>4, <3>1, <3>2
  <2>9. q <= Upper => work < (Upper + 1) * a
    <3> SUFFICES ASSUME q <= Upper PROVE work < (Upper + 1) * a
      OBVIOUS
    <3>1. q + 1 <= Upper + 1 /\ q + 1 \in Int /\ Upper + 1 \in Int
      BY <2>3, <2>4
    <3>2. a * (q + 1) <= a * (Upper + 1) /\ a * (q + 1) \in Int /\ a * (Upper + 1) \in Int
      BY <2>3, <3>1, Products
    <3>3. a * (Upper + 1) = (Upper + 1) * a
      BY <2>3, <2>4
    <3> QED  BY <2>3, <2>4, <3>2, <3>3
  <2> QED  BY <2>5, <2>6, <2>7, <2>8, <2>9 DEF DecisionIsExact, work, a, q
<1> QED  BY <1>1, Invariant, PTL

=============================================================================
