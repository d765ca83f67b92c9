-------------------------- MODULE AttestationProofs --------------------------
(***************************************************************************)
(* Proofs about Attestation, for any requests, devices, bundles, lifetimes *)
(* and timeouts.                                                           *)
(*                                                                         *)
(* Evidence is accepted in one place only, by a policy that looks at facts *)
(* of two times: the argument now that verify was called with, and the     *)
(* answer of nvattest some time later.  The inductive invariant keeps what *)
(* the checks before nvattest showed at the earlier time (Started), and    *)
(* what the answers it got in between say about that time (Questioned).    *)
(***************************************************************************)
EXTENDS Attestation, WellFoundedInduction, TLAPS

Rejections ==
    {"format_unsupported", "request_stale", "provider_unavailable", "evidence_invalid",
     "nonce_mismatch", "measurement_untrusted", "gpu_class_mismatch",
     "collateral_revoked", "certificate_chain_invalid", "collateral_stale",
     "downgrade_rejected"}

Checks == [request : Requests, bundle : Bundles, at : Nat,
           asked : SUBSET Devices, revoked : SUBSET Devices,
           reason : Rejections \cup {"running", "verified"}]

\* The variables have their types.
TypeOK ==
    /\ now \in Nat
    /\ issued \in [Requests -> Int]
    /\ revokedAt \in [Devices -> Int]
    /\ check # Idle => check \in Checks

\* A verification that waits for nvattest was started no later than now, within
\* the lifetime and the age of its request.
Started ==
    Running =>
       /\ check.at <= now
       /\ issued[check.request] >= 0
       /\ check.at <= issued[check.request] + Lifetime
       /\ check.at <= issued[check.request] + MaxAge

\* A device that nvattest has asked about and not found revoked had not been
\* revoked when the verification was called.
Questioned ==
    Running => \A d \in check.asked \ check.revoked :
                  Revoked(d) => revokedAt[d] >= check.at

Inv == TypeOK /\ Started /\ Questioned /\ EvidenceBoundToRequest

-----------------------------------------------------------------------------
(* Gates and minima                                                         *)

\* A set of natural numbers has a least element, and Min is it.
LEMMA MinIsLeast ==
    ASSUME NEW T, T \subseteq Nat, T # {}
    PROVE  Min(T) \in T /\ \A y \in T : Min(T) <= y
<1>1. PICK x \in T : \A y \in T : ~(<<y, x>> \in OpToRel(<, Nat))
  BY NatLessThanWellFounded, WFMin
<1>2. \A y \in T : ~(y < x)
  BY <1>1 DEF OpToRel
<1>3. \A y \in T : x <= y
  BY <1>2
<1> QED  BY <1>3 DEF Min

\* A sequence of gates that does not pass has a first one that fails, and the
\* reason is the one of a gate of the sequence.
LEMMA FirstFailureExists ==
    ASSUME NEW g, NEW n \in Nat, DOMAIN g = 1..n, ~AllPass(g)
    PROVE  \E i \in 1..n : FirstFailure(g) = g[i].reason
<1> DEFINE failing  == {i \in 1..n : ~g[i].passes}
           First(i) == ~g[i].passes /\ \A j \in 1..(i - 1) : g[j].passes
<1>1. failing \subseteq Nat /\ failing # {}
  BY DEF AllPass
<1>2. /\ Min(failing) \in failing
      /\ \A j \in failing : Min(failing) <= j
  BY <1>1, MinIsLeast
<1>3. \A j \in 1..(Min(failing) - 1) : j \in 1..n /\ ~(Min(failing) <= j)
  BY <1>2
<1>4. First(Min(failing))
  BY <1>2, <1>3
<1>5. (CHOOSE k \in 1..n : First(k)) \in 1..n
  BY <1>2, <1>4
<1> QED  BY <1>5 DEF FirstFailure

\* The gates of a verification reject with a reason for rejection.
LEMMA GatesReject ==
    ASSUME NEW q, NEW b, NEW d, NEW t
    PROVE  /\ ~AllPass(RequestGates(q, b)) => FirstFailure(RequestGates(q, b)) \in Rejections
           /\ ~AllPass(DeviceGates(q, b, d)) => FirstFailure(DeviceGates(q, b, d)) \in Rejections
           /\ ~AllPass(PolicyGates(q, b, t)) => FirstFailure(PolicyGates(q, b, t)) \in Rejections
<1>1. /\ DOMAIN RequestGates(q, b) = 1..2
      /\ DOMAIN DeviceGates(q, b, d) = 1..5
      /\ DOMAIN PolicyGates(q, b, t) = 1..4
  BY DEF RequestGates, DeviceGates, PolicyGates
<1>2. \A i \in 1..2 : RequestGates(q, b)[i].reason \in Rejections
  BY DEF RequestGates, Gate, Rejections
<1>3. \A i \in 1..5 : DeviceGates(q, b, d)[i].reason \in Rejections
  BY DEF DeviceGates, Gate, Rejections
<1>4. \A i \in 1..4 : PolicyGates(q, b, t)[i].reason \in Rejections
  BY DEF PolicyGates, Gate, Rejections
<1>5. ASSUME NEW g, NEW n \in Nat, DOMAIN g = 1..n, ~AllPass(g),
             \A i \in 1..n : g[i].reason \in Rejections
      PROVE  FirstFailure(g) \in Rejections
  BY <1>5, FirstFailureExists
<1>6. ~AllPass(RequestGates(q, b)) => FirstFailure(RequestGates(q, b)) \in Rejections
  BY <1>1, <1>2, <1>5
<1>7. ~AllPass(DeviceGates(q, b, d)) => FirstFailure(DeviceGates(q, b, d)) \in Rejections
  BY <1>1, <1>3, <1>5
<1>8. ~AllPass(PolicyGates(q, b, t)) => FirstFailure(PolicyGates(q, b, t)) \in Rejections
  BY <1>1, <1>4, <1>5
<1> QED  BY <1>6, <1>7, <1>8

\* A request that passes its gates is within its window.
LEMMA RequestPasses ==
    ASSUME NEW q, NEW b, AllPass(RequestGates(q, b))
    PROVE  InWindow(q, b.collected_at)
<1> DEFINE g == RequestGates(q, b)
<1>1. 2 \in DOMAIN g
  BY DEF RequestGates
<1>2. g[2].passes
  BY <1>1, Zenon DEF AllPass
<1>3. g[2].passes = InWindow(q, b.collected_at)
  BY DEF RequestGates, Gate
<1> QED  BY <1>2, <1>3, Zenon

\* A device that passes its gates is in order, and was not found revoked.
LEMMA DevicePasses ==
    ASSUME NEW q, NEW b, NEW d, AllPass(DeviceGates(q, b, d))
    PROVE  b.nonce = q /\ d.measured /\ d.sound /\ d.hopper /\ d \notin check.revoked
<1> DEFINE g == DeviceGates(q, b, d)
<1>1. DOMAIN g = 1..5
  BY DEF DeviceGates
<1>2. \A i \in 1..5 : g[i].passes
  BY <1>1, Zenon DEF AllPass
<1>3. g[1].passes /\ g[2].passes /\ g[3].passes /\ g[4].passes /\ g[5].passes
  BY <1>2
<1>4. /\ g[1].passes = (b.nonce = q)
      /\ g[2].passes = d.measured
      /\ g[3].passes = d.sound
      /\ g[4].passes = d.hopper
      /\ g[5].passes = (d \notin check.revoked)
  BY DEF DeviceGates, Gate
<1> QED  BY <1>3, <1>4, Zenon

\* Facts that pass the policy are not older than its time.
LEMMA PolicyPasses ==
    ASSUME NEW q, NEW b, NEW t, AllPass(PolicyGates(q, b, t))
    PROVE  NextUpdate(b) >= t /\ ReferenceExpiry >= t
<1> DEFINE g == PolicyGates(q, b, t)
<1>1. DOMAIN g = 1..4
  BY DEF PolicyGates
<1>2. \A i \in 1..4 : g[i].passes
  BY <1>1, Zenon DEF AllPass
<1>3. g[2].passes /\ g[3].passes
  BY <1>2
<1>4. g[2].passes = (NextUpdate(b) >= t) /\ g[3].passes = (ReferenceExpiry >= t)
  BY DEF PolicyGates, Gate
<1> QED  BY <1>3, <1>4, Zenon

\* A bundle has devices, and says when it was collected.
LEMMA BundleFacts ==
    ASSUME NEW b \in Bundles
    PROVE  b.devices \subseteq Devices /\ b.devices # {} /\ b.collected_at \in Nat
<1>1. b.devices \in (SUBSET Devices) \ {{}} /\ b.collected_at \in 0..MaxTime
  BY BundlesAssumption DEF IsBundle
<1>2. b.devices \subseteq Devices /\ b.devices \notin {{}}
  BY <1>1
<1>3. {} \in {{}}
  OBVIOUS
<1>4. b.devices # {}
  BY <1>2, <1>3, Zenon
<1>5. b.collected_at \in Nat
  BY <1>1, PolicyAssumption DEF PolicyIsValid
<1> QED  BY <1>2, <1>4, <1>5

\* The collateral is next due no later than the first certificate expires.
LEMMA NextUpdateBound ==
    ASSUME NEW b \in Bundles
    PROVE  NextUpdate(b) \in Nat /\ \A d \in b.devices : NextUpdate(b) <= d.expiry
<1> DEFINE ends == {d.expiry : d \in b.devices}
<1>1. b.devices \subseteq Devices /\ b.devices # {} /\ b.collected_at \in Nat
  BY BundleFacts
<1>2. ends \subseteq Nat /\ ends # {}
  BY <1>1, DevicesAssumption DEF IsDevice
<1>3. CollateralExpiry(b) \in Nat /\ \A d \in b.devices : CollateralExpiry(b) <= d.expiry
  BY <1>2, MinIsLeast DEF CollateralExpiry
<1> DEFINE due == {b.collected_at + CollateralMaxAge, CollateralExpiry(b)}
<1>4. due \subseteq Nat /\ due # {}
  BY <1>1, <1>3, PolicyAssumption DEF PolicyIsValid
<1>5. NextUpdate(b) \in Nat /\ NextUpdate(b) <= CollateralExpiry(b)
  BY <1>4, MinIsLeast DEF NextUpdate
<1>6. \A d \in b.devices : d.expiry \in Nat
  BY <1>1, DevicesAssumption DEF IsDevice
<1> QED  BY <1>3, <1>5, <1>6

-----------------------------------------------------------------------------
(* Steps                                                                    *)

\* Evidence is accepted: nvattest has answered in time, all devices pass, and
\* the policy accepts the facts.
Accepts ==
    /\ Answered
    /\ DevicesPass(check.request, check.bundle)
    /\ AllPass(PolicyGates(check.request, check.bundle, check.at))
    /\ Decide("verified")

\* A running verification ends with a rejection.
Rejects == Running /\ \E r \in Rejections : Decide(r)

\* Every step starts a verification, goes on with it, ends it in one of two ways,
\* or leaves it.
LEMMA StepCases ==
    ASSUME [Next]_vars
    PROVE  \/ \E q \in Requests, b \in Bundles : Verify(q, b)
           \/ Accepts
           \/ Rejects
           \/ \E d \in Devices : AskStatus(d)
           \/ \E q \in Requests : Issue(q)
           \/ \E d \in Devices : Revoke(d)
           \/ Tick
           \/ UNCHANGED vars
<1>1. CASE BackendUnavailable
  BY <1>1 DEF BackendUnavailable, Rejects, Rejections
<1>2. CASE OutputInvalid
  BY <1>2 DEF OutputInvalid, InTime, Rejects, Rejections
<1>3. CASE RejectDevice
  <2>1. PICK d \in check.bundle.devices :
           LET gates == DeviceGates(check.request, check.bundle, d) IN
           ~AllPass(gates) /\ Decide(FirstFailure(gates))
    BY <1>3 DEF RejectDevice
  <2> QED  BY <1>3, <2>1, GatesReject DEF RejectDevice, Answered, InTime, Rejects
<1>4. CASE RejectChain
  BY <1>4 DEF RejectChain, Answered, InTime, Rejects, Rejections
<1>5. CASE RejectWindow
  BY <1>5 DEF RejectWindow, Answered, InTime, Rejects, Rejections
<1>6. CASE DecideByPolicy
  BY <1>6, GatesReject DEF DecideByPolicy, Answered, InTime, Accepts, Rejects
<1>7. CASE BackendRefuses
  BY <1>7 DEF BackendRefuses, Rejects, Rejections
<1> QED  BY <1>1, <1>2, <1>3, <1>4, <1>5, <1>6, <1>7 DEF Next, vars

\* What a decision makes of a running verification.
LEMMA DecideEffect ==
    ASSUME TypeOK, Running, NEW r \in Rejections \cup {"verified"}, Decide(r)
    PROVE  /\ check' \in Checks
           /\ check'.reason = r
           /\ check'.request = check.request /\ check'.bundle = check.bundle
           /\ check'.at = check.at
           /\ UNCHANGED <<now, issued, revokedAt>>
  BY DEF TypeOK, Running, Decide, Checks

\* What the start of a verification makes.
LEMMA VerifyEffect ==
    ASSUME TypeOK, NEW q \in Requests, NEW b \in Bundles, Verify(q, b)
    PROVE  /\ check' \in Checks
           /\ check'.reason # "verified"
           /\ Started' /\ Questioned'
<1> DEFINE reason == IF AllPass(RequestGates(q, b)) THEN "running"
                     ELSE FirstFailure(RequestGates(q, b))
<1>1. reason \in Rejections \cup {"running"}
  BY GatesReject
<1>2. /\ check' = [request |-> q, bundle |-> b, at |-> now, asked |-> {}, revoked |-> {},
                 reason |-> reason]
      /\ issued[q] >= 0 /\ UNCHANGED <<now, issued>>
  BY DEF Verify
<1>3. check' \in Checks
  <2> HIDE DEF reason
  <2> QED  BY <1>1, <1>2 DEF Checks, TypeOK
<1>4. check'.reason # "verified"
  BY <1>1, <1>2 DEF Rejections
<1>5. ASSUME Running'
      PROVE  InWindow(q, b.collected_at)
  <2>1. reason = "running"
    BY <1>2, <1>5 DEF Running
  <2>2. AllPass(RequestGates(q, b))
    BY <2>1, GatesReject DEF Rejections
  <2> QED  BY <2>2, RequestPasses
<1>6. Lifetime \in Nat /\ MaxAge \in Nat
  BY PolicyAssumption DEF PolicyIsValid
<1>7. Started'
  <2> SUFFICES ASSUME Running'
               PROVE  /\ check'.at <= now'
                      /\ issued'[check'.request] >= 0
                      /\ check'.at <= issued'[check'.request] + Lifetime
                      /\ check'.at <= issued'[check'.request] + MaxAge
    BY DEF Started
  <2>1. now <= issued[q] + Lifetime /\ now - issued[q] <= MaxAge
    BY <1>5 DEF InWindow
  <2> QED  BY <1>2, <1>6, <2>1 DEF TypeOK
<1>8. check'.asked = {}
  BY <1>2
<1>9. Questioned'
  BY <1>8 DEF Questioned
<1> QED  BY <1>3, <1>4, <1>7, <1>9

\* What a question of nvattest makes of the verification under way.
LEMMA AskEffect ==
    ASSUME TypeOK, NEW d \in Devices, AskStatus(d)
    PROVE  /\ check' \in Checks /\ Running
           /\ check'.request = check.request /\ check'.at = check.at
           /\ check'.bundle = check.bundle /\ check'.reason = "running"
           /\ check'.asked = check.asked \cup {d}
           /\ check'.revoked = check.revoked \cup {x \in {d} : Revoked(x)}
           /\ UNCHANGED <<now, issued, revokedAt>>
<1>1. /\ Running /\ check # Idle /\ check.reason = "running"
      /\ check' = [check EXCEPT !.asked = @ \cup {d},
                               !.revoked = @ \cup {x \in {d} : Revoked(x)}]
      /\ UNCHANGED <<now, issued, revokedAt>>
  BY DEF AskStatus, InTime, Running
<1>2. check \in Checks /\ {x \in {d} : Revoked(x)} \subseteq Devices
  BY <1>1 DEF TypeOK
<1>3. check' \in Checks
  BY <1>1, <1>2 DEF Checks
<1> QED  BY <1>1, <1>2, <1>3 DEF Checks, Running

\* Every step keeps the inductive invariant.
LEMMA InvStep ==
    ASSUME Inv, [Next]_vars
    PROVE  Inv'
<1> USE DEF Inv
<1>1. ASSUME NEW q \in Requests, NEW b \in Bundles, Verify(q, b)
      PROVE  Inv'
  <2>1. check' \in Checks /\ check'.reason # "verified" /\ Started' /\ Questioned'
    BY <1>1, VerifyEffect
  <2>2. TypeOK'
    BY <1>1, <2>1 DEF TypeOK, Verify
  <2> QED  BY <2>1, <2>2 DEF EvidenceBoundToRequest, Accepted
<1>2. CASE Accepts
  <2>1. /\ check' \in Checks /\ check'.reason = "verified"
        /\ check'.request = check.request /\ check'.bundle = check.bundle
        /\ UNCHANGED <<now, issued, revokedAt>>
    BY <1>2, DecideEffect DEF Accepts, Answered, InTime
  <2>2. check.bundle.nonce = check.request
    <3>1. check.bundle \in Bundles
      BY <1>2 DEF Accepts, Answered, InTime, Running, TypeOK, Checks
    <3>2. check.bundle.devices # {}
      BY <3>1, BundleFacts
    <3> QED  BY <1>2, <3>2, DevicePasses DEF Accepts, DevicesPass
  <2> QED  BY <2>1, <2>2 DEF TypeOK, Started, Questioned, Running, EvidenceBoundToRequest
<1>3. CASE Rejects
  <2>1. PICK r \in Rejections : Decide(r)
    BY <1>3 DEF Rejects
  <2>2. check' \in Checks /\ check'.reason = r /\ UNCHANGED <<now, issued, revokedAt>>
    BY <1>3, <2>1, DecideEffect DEF Rejects
  <2>3. r # "verified" /\ r # "running"
    BY <2>1 DEF Rejections
  <2> QED  BY <2>2, <2>3 DEF TypeOK, Started, Questioned, Running, EvidenceBoundToRequest, Accepted
<1>4. ASSUME NEW q \in Requests, Issue(q)
      PROVE  Inv'
  <2>1. /\ now' = now /\ check' = check /\ now \in Nat
        /\ issued' = [issued EXCEPT ![q] = now] /\ issued[q] = -1
        /\ issued \in [Requests -> Int] /\ revokedAt' = revokedAt
    BY <1>4 DEF Issue, TypeOK
  <2>2. TypeOK'
    BY <2>1 DEF TypeOK
  <2>3. Started'
    <3> SUFFICES ASSUME Running PROVE Started'
      BY <2>1 DEF Started, Running
    <3>1. check.request \in Requests /\ issued[check.request] >= 0
      BY DEF Running, TypeOK, Checks, Started
    <3>2. issued'[check.request] = issued[check.request]
      BY <2>1, <3>1
    <3> QED  BY <2>1, <3>2 DEF Started
  <2> QED  BY <2>1, <2>2, <2>3 DEF Questioned, Running, Revoked, EvidenceBoundToRequest, Accepted
<1>5. CASE Tick
  <2>1. /\ now' = now + 1 /\ now \in Nat /\ UNCHANGED <<issued, revokedAt, check>>
        /\ issued \in [Requests -> Int]
    BY <1>5 DEF Tick, TypeOK
  <2>2. TypeOK'
    BY <2>1 DEF TypeOK
  <2>3. Started'
    BY <2>1 DEF Started, Running, TypeOK, Checks
  <2> QED  BY <2>1, <2>2, <2>3 DEF Questioned, Running, Revoked, EvidenceBoundToRequest, Accepted
<1>6. ASSUME NEW d \in Devices, AskStatus(d)
      PROVE  Inv'
  <2>1. /\ check' \in Checks /\ Running
        /\ check'.request = check.request /\ check'.at = check.at
        /\ check'.bundle = check.bundle /\ check'.reason = "running"
        /\ check'.asked = check.asked \cup {d}
        /\ check'.revoked = check.revoked \cup {x \in {d} : Revoked(x)}
        /\ UNCHANGED <<now, issued, revokedAt>>
    BY <1>6, AskEffect
  <2>2. TypeOK'
    BY <2>1 DEF TypeOK
  <2>3. Started'
    BY <2>1 DEF Started
  <2>4. ASSUME NEW x \in check'.asked \ check'.revoked, Revoked(x)
        PROVE  revokedAt[x] >= check.at
    <3>1. x \in check.asked \ check.revoked
      BY <2>1, <2>4
    <3> QED  BY <2>1, <2>4, <3>1 DEF Questioned
  <2>5. Questioned'
    BY <2>1, <2>4 DEF Questioned, Revoked
  <2> QED  BY <2>1, <2>2, <2>3, <2>5 DEF EvidenceBoundToRequest, Accepted
<1>7. ASSUME NEW d \in Devices, Revoke(d)
      PROVE  Inv'
  <2>1. /\ revokedAt' = [revokedAt EXCEPT ![d] = now] /\ revokedAt \in [Devices -> Int]
        /\ now \in Nat /\ UNCHANGED <<now, issued, check>>
    BY <1>7 DEF Revoke, TypeOK
  <2>2. TypeOK'
    BY <2>1 DEF TypeOK
  <2>3. Started'
    BY <2>1 DEF Started, Running
  <2>4. ASSUME Running, NEW x \in check.asked \ check.revoked, Revoked(x)'
        PROVE  revokedAt'[x] >= check.at
    <3>1. check \in Checks /\ x \in Devices /\ check.at <= now /\ check.at \in Nat
      BY <2>4 DEF Running, TypeOK, Checks, Started
    <3>2. CASE x = d
      BY <2>1, <3>1, <3>2
    <3>3. CASE x # d
      <4>1. revokedAt'[x] = revokedAt[x]
        BY <2>1, <3>1, <3>3
      <4> QED  BY <2>4, <4>1 DEF Questioned, Revoked
    <3> QED  BY <3>2, <3>3
  <2>5. Questioned'
    BY <2>1, <2>4 DEF Questioned, Running
  <2> QED  BY <2>1, <2>2, <2>3, <2>5 DEF EvidenceBoundToRequest, Accepted
<1>8. CASE UNCHANGED vars
  BY <1>8 DEF vars, TypeOK, Started, Questioned, Running, Revoked, EvidenceBoundToRequest, Accepted
<1> QED  BY <1>1, <1>2, <1>3, <1>4, <1>5, <1>6, <1>7, <1>8, StepCases

\* The inductive invariant of attestation.
LEMMA Invariant == Spec => []Inv
<1>1. Init => Inv
  BY DEF Init, Inv, TypeOK, Started, Questioned, Running, EvidenceBoundToRequest, Accepted
<1>2. Inv /\ [Next]_vars => Inv'
  BY InvStep
<1> QED  BY <1>1, <1>2, PTL DEF Spec

\* Evidence becomes accepted only by the policy's decision.
LEMMA OnlyAccepts ==
    ASSUME Inv, [Next]_vars, ~Accepted, Accepted'
    PROVE  Accepts
<1>1. ASSUME NEW q \in Requests, NEW b \in Bundles, Verify(q, b)
      PROVE  FALSE
  BY <1>1, VerifyEffect DEF Inv, Accepted
<1>2. CASE Rejects
  <2>1. PICK r \in Rejections : Decide(r)
    BY <1>2 DEF Rejects
  <2>2. check'.reason = r /\ r # "verified"
    BY <1>2, <2>1, DecideEffect DEF Inv, Rejects, Rejections
  <2> QED  BY <2>2 DEF Accepted
<1>3. CASE UNCHANGED check
  BY <1>3 DEF Accepted
<1>4. ASSUME NEW d \in Devices, AskStatus(d)
      PROVE  FALSE
  BY <1>4, AskEffect DEF Inv, Accepted
<1> QED  BY <1>1, <1>2, <1>3, <1>4, StepCases DEF Issue, Revoke, Tick, vars

-----------------------------------------------------------------------------
(* The theorems                                                             *)

\* Accepted evidence was made for the request it is accepted for, however often
\* and whenever bundles of other requests are presented.
THEOREM EvidenceIsBound == Spec => []EvidenceBoundToRequest
<1>1. Inv => EvidenceBoundToRequest
  BY DEF Inv
<1> QED  BY <1>1, Invariant, PTL

\* In whatever order nvattest asks and certificates are revoked, at the moment of
\* acceptance no GPU of the evidence has been revoked for more than the timeout of
\* nvattest, and all are in order.
THEOREM RevocationIsNoticed == Spec => RevocationNoticed
<1>1. ASSUME Inv, [Next]_vars, ~Accepted, Accepted', NEW d \in check.bundle.devices
      PROVE  /\ d.measured /\ d.sound /\ d.hopper
             /\ Revoked(d) => now - revokedAt[d] <= Timeout
  <2>1. Accepts
    BY <1>1, OnlyAccepts
  <2>2. /\ Running /\ check \in Checks /\ d \in check.asked
        /\ now <= check.at + Timeout
    BY <1>1, <2>1 DEF Accepts, Answered, InTime, Running, Inv, TypeOK
  <2>3. d.measured /\ d.sound /\ d.hopper /\ d \notin check.revoked
    BY <1>1, <2>1, DevicePasses DEF Accepts, DevicesPass
  <2>4. Revoked(d) => revokedAt[d] >= check.at
    BY <1>1, <2>2, <2>3 DEF Inv, Questioned
  <2>5. /\ now \in Nat /\ check.at \in Nat /\ Timeout \in Nat
        /\ revokedAt[d] \in Int
    BY <1>1, <2>2, PolicyAssumption DEF Inv, TypeOK, Checks, PolicyIsValid
  <2> QED  BY <2>2, <2>3, <2>4, <2>5
<1>2. Inv /\ [Next]_vars =>
        [~Accepted /\ Accepted' =>
            \A d \in check.bundle.devices :
               /\ d.measured /\ d.sound /\ d.hopper
               /\ Revoked(d) => now - revokedAt[d] <= Timeout]_vars
  BY <1>1
<1> QED  BY <1>2, Invariant, PTL DEF Spec, RevocationNoticed

\* At the moment evidence is accepted, its request, the certificates of all its
\* GPUs and the reference measurement are at most the timeout of nvattest past
\* their end, whatever collected_at says.
THEOREM AcceptedIsFresh == Spec => FreshWhenAccepted
<1>1. ASSUME Inv, [Next]_vars, ~Accepted, Accepted'
      PROVE  LET q == check.request
                 ends == {issued[q] + Lifetime, issued[q] + MaxAge, ReferenceExpiry}
                            \cup {d.expiry : d \in check.bundle.devices}
             IN  now - Timeout <= Min(ends)
  <2> DEFINE q == check.request
             b == check.bundle
             ends == {issued[q] + Lifetime, issued[q] + MaxAge, ReferenceExpiry}
                        \cup {d.expiry : d \in b.devices}
  <2>1. Accepts /\ Running /\ check \in Checks
    BY <1>1, OnlyAccepts DEF Accepts, Answered, InTime, Running, Inv, TypeOK
  <2>2. b \in Bundles /\ q \in Requests /\ check.at \in Nat
    BY <2>1 DEF Checks
  <2>3. /\ Lifetime \in Nat /\ MaxAge \in Nat /\ ReferenceExpiry \in Nat /\ Timeout \in Nat
        /\ now \in Nat /\ issued[q] \in Nat
    BY <1>1, <2>1, <2>2, PolicyAssumption DEF PolicyIsValid, Inv, TypeOK, Started
  <2>4. \A d \in b.devices : d.expiry \in Nat
    BY <2>2, BundleFacts, DevicesAssumption DEF IsDevice
  <2>5. now <= check.at + Timeout
    BY <2>1 DEF Accepts, Answered, InTime
  <2>6. check.at <= issued[q] + Lifetime /\ check.at <= issued[q] + MaxAge
    BY <1>1, <2>1 DEF Inv, Started
  <2>7. check.at <= NextUpdate(b) /\ check.at <= ReferenceExpiry
    <3>1. NextUpdate(b) >= check.at /\ ReferenceExpiry >= check.at
      BY <2>1, PolicyPasses DEF Accepts
    <3> QED  BY <2>2, <2>3, <3>1, NextUpdateBound
  <2>8. \A d \in b.devices : check.at <= d.expiry
    BY <2>2, <2>4, <2>7, NextUpdateBound
  <2>9. ends \subseteq Nat /\ ends # {} /\ \A x \in ends : check.at <= x
    BY <2>3, <2>4, <2>6, <2>7, <2>8
  <2>10. Min(ends) \in Nat /\ check.at <= Min(ends)
    BY <2>9, MinIsLeast
  <2> HIDE DEF ends
  <2>11. now - Timeout <= Min(ends)
    BY <2>2, <2>3, <2>5, <2>10
  <2> QED  BY <2>11 DEF ends
<1>2. Inv /\ [Next]_vars =>
        [~Accepted /\ Accepted' =>
            LET q == check.request
                ends == {issued[q] + Lifetime, issued[q] + MaxAge, ReferenceExpiry}
                           \cup {d.expiry : d \in check.bundle.devices}
            IN  now - Timeout <= Min(ends)]_vars
  BY <1>1
<1> QED  BY <1>2, Invariant, PTL DEF Spec, FreshWhenAccepted

=============================================================================
