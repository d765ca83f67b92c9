------------------------ MODULE MCMessageAuthenticator ------------------------
(* A small network for MessageAuthenticator: one message of every kind, a     *)
(* claim that reuses a nonce, three pieces of evidence of one lease (two with *)
(* the same number), and evidence with somebody else's signature.            *)
EXTENDS MessageAuthenticator

Msg(kind, token, from, until, observed, sequence) ==
    [kind |-> kind, hotkey |-> "h", signer |-> "h", token |-> token,
     lease |-> "w", from |-> from, until |-> until, observed |-> observed,
     sequence |-> sequence]

Manifest == Msg("manifest", "d1", 0, 1, 0, 0)
Lease    == Msg("lease", "n1", 2, 3, 0, 0)
Claim    == Msg("claim", "n1", 0, 0, 0, 0)
Reused   == Msg("claim", "n1", 0, 0, 2, 0)
Evid0    == Msg("evidence", "d2", 0, 0, 1, 0)
Evid1    == Msg("evidence", "d3", 0, 0, 0, 1)
Twin1    == Msg("evidence", "d4", 0, 0, 2, 1)
Forged   == [Msg("evidence", "d5", 0, 0, 1, 2) EXCEPT !.signer = "x"]
Receipt  == Msg("receipt", "d6", 0, 0, 3, 0)

MCMessages ==
    {Manifest, Lease, Claim, Reused, Evid0, Evid1, Twin1, Forged, Receipt}

MCKeys == {KeyOf(m) : m \in MCMessages}
MCScopes == {ScopeOf(m) : m \in MCMessages}

=============================================================================
