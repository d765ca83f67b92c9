----------------------------- MODULE MCSandbox -----------------------------
(* Two runs, one after the other, for the model checker. *)
EXTENDS Sandbox

CONSTANTS n1, n2

MCCall(enabled, deny, arguments, mounts) ==
    [enabled |-> enabled, deny |-> deny, pinned |-> TRUE, arguments |-> arguments,
     mounts |-> mounts, devices |-> FALSE]

MCCalls == {MCCall(TRUE, TRUE, 1, FALSE), MCCall(FALSE, TRUE, 1, FALSE),
            MCCall(TRUE, FALSE, 1, FALSE), MCCall(TRUE, TRUE, 0, FALSE),
            MCCall(TRUE, TRUE, 2, TRUE)}
=============================================================================
