----------------------------- MODULE Attestation -----------------------------
(***************************************************************************)
(* Attestation (attestation.py, nvidia_attestation.py): a validator issues *)
(* requests, is given evidence bundles, and evaluates a bundle against a   *)
(* request with the NVAT backend and its local policy.                     *)
(*                                                                         *)
(* A bundle may reach the validator at any time, any number of times, and  *)
(* for another request than the one it was made for.  Its collected_at is  *)
(* what its sender says.  What a GPU signs is the bound nonce, a hash of   *)
(* the request, so a bundle for a nonce exists only after the request was  *)
(* issued.  nvattest is trusted to report what it found: what the GPUs     *)
(* signed, and for each GPU the revocation status at some moment of its    *)
(* run, which need not be the status when it answers.                      *)
(***************************************************************************)
EXTENDS Integers, FiniteSets, FiniteSetsExt, Gates

CONSTANTS
    Requests,           \* attestation requests
    H100Requests,       \* those that expect the class h100, which the policy accepts
    Devices,            \* GPUs, see IsDevice
    Bundles,            \* evidence bundles, see IsBundle
    Lifetime,           \* expires_at - issued_at of the requests
    MaxAge,             \* policy.max_age_seconds
    CollateralMaxAge,   \* collateral_max_age_seconds
    Timeout,            \* timeout_seconds of the NVAT backend
    ReferenceExpiry,    \* expiry of the approved reference measurement
    MinimumTier,        \* policy.minimum_tier
    MaxTime,            \* bound on the clock
    MaxRevocations,     \* bound on the number of revoked devices
    Idle                \* no verification has started

VARIABLES
    now,        \* the validator's clock
    issued,     \* issued_at of each request, -1 before
    revokedAt,  \* when a certificate of each device was revoked, -1 before
    check       \* the last verification: its request, bundle, argument now and
                \* reason, the devices whose status nvattest has asked for, and
                \* those of them that it was told are revoked

vars == <<now, issued, revokedAt, check>>

\* measured: the measurements match.  sound: report and RIM signatures verify,
\* secure boot is on and debugging off.  expiry: when the first of its
\* certificates expires.
IsDevice(d) ==
    {d.measured, d.sound, d.hopper} \subseteq BOOLEAN /\ d.expiry \in Nat

\* supported: the format is one of the policy's.  nvat: it is the backend's.
IsBundle(b) ==
    /\ {b.supported, b.nvat} \subseteq BOOLEAN
    /\ b.nonce \in Requests
    /\ b.devices \in (SUBSET Devices) \ {{}}
    /\ Cardinality(b.devices) <= 8
    /\ b.collected_at \in 0..MaxTime

Tiers == {"C", "B", "A"}
TierRank == [C |-> 1, B |-> 2, A |-> 3]

\* AttestationPolicy, AttestationRequest and the settings of the backend
PolicyIsValid ==
    /\ {Lifetime, MaxAge, CollateralMaxAge, Timeout} \subseteq Nat \ {0}
    /\ {ReferenceExpiry, MaxTime, MaxRevocations} \subseteq Nat
    /\ MinimumTier \in Tiers
    /\ H100Requests \subseteq Requests

ASSUME DevicesAssumption == \A d \in Devices : IsDevice(d)
ASSUME BundlesAssumption == \A b \in Bundles : IsBundle(b)
ASSUME PolicyAssumption == PolicyIsValid

-----------------------------------------------------------------------------
(* Ordered checks                                                           *)

\* PolicyAttestationVerifier.verify, before it asks the backend.
InWindow(q, t) ==
    /\ now <= issued[q] + Lifetime
    /\ now - issued[q] <= MaxAge
    /\ issued[q] <= t /\ t <= now

RequestGates(q, b) ==
    << Gate("format_unsupported", b.supported),
       Gate("request_stale", InWindow(q, b.collected_at)) >>

\* Variant of DeviceGates: any nonce will do.
DeviceGatesAnyNonce(q, b, d) ==
    << Gate("measurement_untrusted", d.measured),
       Gate("evidence_invalid", d.sound),
       Gate("gpu_class_mismatch", d.hopper),
       Gate("collateral_revoked", d \notin check.revoked) >>

\* _verified_claims, for the claims about one device of the verification under
\* way.
DeviceGates(q, b, d) ==
    << Gate("nonce_mismatch", b.nonce = q),
       Gate("measurement_untrusted", d.measured),
       Gate("evidence_invalid", d.sound),
       Gate("gpu_class_mismatch", d.hopper),
       Gate("collateral_revoked", d \notin check.revoked) >>

DevicesPass(q, b) == \A d \in b.devices : AllPass(DeviceGates(q, b, d))

\* Variant of CollateralExpiry: the last expiry instead of the first.
CollateralExpiryLast(b) == Max({d.expiry : d \in b.devices})

CollateralExpiry(b) == Min({d.expiry : d \in b.devices})

\* revocation.next_update
NextUpdate(b) == Min({b.collected_at + CollateralMaxAge, CollateralExpiry(b)})

\* The policy's checks of the facts that the NVAT backend returns, at the time
\* verify was called with.  The backend itself sets the nonce, the class, the
\* chain and the revocation status of its claims, so the policy's checks of
\* those cannot fail, and it never claims a host chain: the tier is B.
PolicyGates(q, b, at) ==
    << Gate("gpu_class_mismatch", q \in H100Requests),
       Gate("collateral_stale", NextUpdate(b) >= at),
       Gate("measurement_untrusted", ReferenceExpiry >= at),
       Gate("downgrade_rejected", TierRank["B"] >= TierRank[MinimumTier]) >>

-----------------------------------------------------------------------------
(* Steps                                                                    *)

\* AttestationRequest, with a nonce nobody has seen.
Issue(q) ==
    /\ issued[q] = -1
    /\ issued' = [issued EXCEPT ![q] = now]
    /\ UNCHANGED <<now, revokedAt, check>>

Running == check # Idle /\ check.reason = "running"

\* verify is called and either rejects the request or starts nvattest.  The
\* bundle exists: its GPUs could sign the nonce once it was issued.
Verify(q, b) ==
    /\ ~Running
    /\ issued[q] >= 0
    /\ issued[b.nonce] >= 0
    /\ check' = [request |-> q, bundle |-> b, at |-> now, asked |-> {}, revoked |-> {},
                 reason |-> IF AllPass(RequestGates(q, b)) THEN "running"
                            ELSE FirstFailure(RequestGates(q, b))]
    /\ UNCHANGED <<now, issued, revokedAt>>

Decide(reason) ==
    /\ check' = [check EXCEPT !.reason = reason]
    /\ UNCHANGED <<now, issued, revokedAt>>

\* nvattest is disabled or missing, fails, or is killed at its timeout.
BackendUnavailable == Running /\ Decide("provider_unavailable")

\* The policy admits a format that the backend, if it is enabled, does not.
BackendRefuses ==
    /\ Running
    /\ ~check.bundle.nvat
    /\ Decide("format_unsupported")

\* The backend has started nvattest, which is not yet at its timeout.
InTime ==
    /\ Running
    /\ check.bundle.nvat
    /\ now <= check.at + Timeout

Revoked(d) == revokedAt[d] # -1

\* nvattest asks for the revocation status of the certificates of d.
AskStatus(d) ==
    /\ InTime
    /\ d \in check.bundle.devices \ check.asked
    /\ check' = [check EXCEPT !.asked = @ \cup {d},
                             !.revoked = @ \cup {x \in {d} : Revoked(x)}]
    /\ UNCHANGED <<now, issued, revokedAt>>

\* The output of nvattest is too long, no JSON, not of the expected shape, or
\* its claims are of another version.
OutputInvalid ==
    /\ InTime
    /\ Decide("evidence_invalid") \/ Decide("format_unsupported")

\* Variant of Answered: claims without a revocation status do as well.
AnsweredUnasked == InTime

\* nvattest answers, with the status of every device.
Answered == InTime /\ check.asked = check.bundle.devices

\* The claims are looked at in the order nvattest lists the devices.
RejectDevice ==
    /\ Answered
    /\ \E d \in check.bundle.devices :
          LET gates == DeviceGates(check.request, check.bundle, d) IN
          ~AllPass(gates) /\ Decide(FirstFailure(gates))

\* A certificate is neither revoked nor valid: expired, or its OCSP status is
\* unknown.  Nothing relies on nvattest to notice an expired one.
RejectChain ==
    /\ Answered
    /\ \E d \in check.bundle.devices :
          AllPass(SubSeq(DeviceGates(check.request, check.bundle, d), 1, 4))
    /\ Decide("certificate_chain_invalid")

\* RevocationResult refuses an empty window; the error is not a backend failure
\* and counts as an unavailable provider.
RejectWindow ==
    /\ Answered
    /\ DevicesPass(check.request, check.bundle)
    /\ NextUpdate(check.bundle) <= check.bundle.collected_at
    /\ Decide("provider_unavailable")

DecideByPolicy ==
    LET gates == PolicyGates(check.request, check.bundle, check.at) IN
    /\ Answered
    /\ DevicesPass(check.request, check.bundle)
    /\ NextUpdate(check.bundle) > check.bundle.collected_at
    /\ \/ ~AllPass(gates) /\ Decide(FirstFailure(gates))
       \/ AllPass(gates) /\ Decide("verified")

Revoke(d) ==
    /\ ~Revoked(d)
    /\ Cardinality({x \in Devices : Revoked(x)}) < MaxRevocations
    /\ revokedAt' = [revokedAt EXCEPT ![d] = now]
    /\ UNCHANGED <<now, issued, check>>

Tick ==
    /\ now < MaxTime
    /\ now' = now + 1
    /\ UNCHANGED <<issued, revokedAt, check>>

-----------------------------------------------------------------------------
Init ==
    /\ now = 0
    /\ issued = [q \in Requests |-> -1]
    /\ revokedAt = [d \in Devices |-> -1]
    /\ check = Idle

Next ==
    \/ \E q \in Requests : Issue(q)
    \/ \E q \in Requests, b \in Bundles : Verify(q, b)
    \/ BackendUnavailable
    \/ BackendRefuses
    \/ \E d \in Devices : AskStatus(d)
    \/ OutputInvalid
    \/ RejectDevice
    \/ RejectChain
    \/ RejectWindow
    \/ DecideByPolicy
    \/ \E d \in Devices : Revoke(d)
    \/ Tick

Spec == Init /\ [][Next]_vars

-----------------------------------------------------------------------------
(* Properties                                                               *)

Accepted == check # Idle /\ check.reason = "verified"

\* Accepted evidence was made for the request it is accepted for, which names
\* one miner and one job: evidence of another job is never accepted, however
\* often and whenever it is presented.
EvidenceBoundToRequest == Accepted => check.bundle.nonce = check.request

\* nvattest asks about the GPUs one after the other, and certificates are revoked
\* before, between and after its questions.  Evidence of a revoked GPU may be
\* accepted, if the revocation comes after the question, but not for long: at the
\* moment of acceptance no GPU, of however many, has been revoked for more than
\* the timeout of nvattest, and all are in order.
RevocationNoticed ==
    [][~Accepted /\ Accepted' =>
          \A d \in check.bundle.devices :
             /\ d.measured /\ d.sound /\ d.hopper
             /\ Revoked(d) => now - revokedAt[d] <= Timeout]_vars

\* The time of a verification is read before nvattest runs.  However the sender
\* sets collected_at, at the moment evidence is accepted its request, the
\* certificates of all its GPUs and the reference measurement are at most the
\* timeout of nvattest past their end, and the request is at most max_age_seconds
\* and the timeout old.
FreshWhenAccepted ==
    [][~Accepted /\ Accepted' =>
          LET q == check.request
              ends == {issued[q] + Lifetime, issued[q] + MaxAge, ReferenceExpiry}
                         \cup {d.expiry : d \in check.bundle.devices}
          IN  now - Timeout <= Min(ends)]_vars

=============================================================================
