------------------------- MODULE MessageAuthenticator -------------------------
(***************************************************************************)
(* Message authentication (identity.py): signature, freshness against the  *)
(* chain's block, and one call of the replay cache, whose state this       *)
(* module shares.  The network may deliver a message any number of times,  *)
(* in any order and at any block.                                          *)
(***************************************************************************)
EXTENDS ReplayCache

CONSTANTS
    Messages,       \* the messages in the network, see MessageType
    MaxAge,         \* max_age_blocks
    MaxFuture       \* max_future_blocks

VARIABLE accepts    \* history: how often each message was authenticated

authVars == <<vars, accepts>>

-----------------------------------------------------------------------------
(* Messages                                                                 *)

Kinds == {"manifest", "claim", "lease", "evidence", "receipt"}

\* The fields of a message that authentication reads.  hotkey is the identity
\* signer_hotkey requires and signer the one whose signature it carries; token
\* is the nonce of a claim or lease and the content digest of the others, from
\* and until are the blocks a lease or a manifest is bounded by, observed is
\* the block the others report, and lease and sequence belong to evidence.
IsMessage(m) ==
    /\ m.kind \in Kinds
    /\ m.from \in Nat
    /\ m.until \in Nat
    /\ m.observed \in Nat
    /\ m.sequence \in 0..MaxSequence

KeyOf(m) == <<m.kind, m.hotkey, m.token>>
ScopeOf(m) == <<m.hotkey, m.lease>>

\* validate_freshness
HasWindow(m) == m.kind \in {"manifest", "lease"}

Fresh(m) ==
    IF HasWindow(m)
    THEN /\ m.kind = "lease" => block + MaxFuture >= m.from
         /\ block <= m.until
    ELSE /\ m.observed <= block + MaxFuture
         /\ block - m.observed <= MaxAge

\* The block through which the replay cache has to remember the message.
Expiry(m) == IF HasWindow(m) THEN m.until ELSE m.observed + MaxAge

ASSUME PolicyAssumption == MaxAge \in Nat \ {0} /\ MaxFuture \in Nat
ASSUME MessagesAssumption ==
    \A m \in Messages :
        /\ IsMessage(m)
        /\ KeyOf(m) \in Keys
        /\ ScopeOf(m) \in Scopes
        /\ Expiry(m) <= MaxExpiry

\* The token of evidence is its content digest, so it names one lease, one
\* number and one block.
ASSUME DigestAssumption ==
    \A m, n \in Messages :
        m.kind = "evidence" /\ KeyOf(m) = KeyOf(n) =>
           /\ ScopeOf(m) = ScopeOf(n)
           /\ m.sequence = n.sequence
           /\ m.observed = n.observed

\* verify_message_signature
SignatureVerifies(m) == m.signer = m.hotkey

\* Variant of Authenticate: evidence does not go through its sequence.
AuthenticateUnordered(m) ==
    /\ up
    /\ \/ ~(SignatureVerifies(m) /\ Fresh(m)) /\ Refuse
       \/ SignatureVerifies(m) /\ Fresh(m) /\ AcceptOnce(KeyOf(m), Expiry(m))
    /\ accepts' = [accepts EXCEPT ![m] = IF reply' = "accepted" THEN @ + 1 ELSE @]

Authenticate(m) ==
    /\ up
    /\ \/ ~(SignatureVerifies(m) /\ Fresh(m)) /\ Refuse
       \/ /\ SignatureVerifies(m)
          /\ Fresh(m)
          /\ m.kind = "evidence"
          /\ AcceptOnceWithSequence(KeyOf(m), Expiry(m), ScopeOf(m), m.sequence)
       \/ /\ SignatureVerifies(m)
          /\ Fresh(m)
          /\ m.kind # "evidence"
          /\ AcceptOnce(KeyOf(m), Expiry(m))
    /\ accepts' = [accepts EXCEPT ![m] = IF reply' = "accepted" THEN @ + 1 ELSE @]

AuthInit == Init /\ accepts = [m \in Messages |-> 0]

AuthNext ==
    \/ \E m \in Messages : Authenticate(m)
    \/ Crash /\ UNCHANGED accepts
    \/ Restart /\ UNCHANGED accepts
    \/ Tick /\ UNCHANGED accepts

AuthSpec == AuthInit /\ [][AuthNext]_authVars

-----------------------------------------------------------------------------
(* Properties                                                               *)

\* Whatever the network repeats or reorders and whenever the process crashes,
\* a message is authenticated at most once, ever: freshness takes over where
\* the cache forgets.
MessageOnce == \A m \in Messages : accepts[m] <= 1

\* Evidence of one miner for one lease is accepted in the order of its sequence
\* numbers: once a number is accepted, no message with the same or a lower one
\* is.
EvidenceInOrder ==
    [][\A m, n \in Messages :
          /\ m.kind = "evidence" /\ n.kind = "evidence"
          /\ ScopeOf(m) = ScopeOf(n)
          /\ accepts[m] > 0
          /\ accepts'[n] > accepts[n]
          => n.sequence > m.sequence]_authVars

\* With the items of both maps, e and q, at block b: a piece of evidence is held
\* with its number, and a number is that of evidence held until its expiry.
Whole(e, q, b) ==
    /\ \A m \in Messages :
          m.kind = "evidence" /\ e[KeyOf(m)] # Absent => q[ScopeOf(m)] >= m.sequence
    /\ \A s \in Known(q) : \E m \in Messages :
          /\ m.kind = "evidence"
          /\ ScopeOf(m) = s
          /\ m.sequence = q[s]
          /\ b <= Expiry(m) => e[KeyOf(m)] = Expiry(m)

\* authenticate has no partial success: whatever write fails, and wherever the
\* process ends, the file never has the token of evidence without its number, or
\* a number without the evidence that moved its scope there.
EvidenceFiledWhole == Whole(file.entries, file.sequences, block)

=============================================================================
