---------------------------- MODULE LeaseContract ----------------------------
(***************************************************************************)
(* What the lease store promises the miner that uses it, without files,    *)
(* processes, crashes or limits: a lease goes through its phases in order, *)
(* its execution and its evidence submission are each claimed in one step, *)
(* and the winner is told at most once.  A claim whose answer is lost is   *)
(* consumed all the same.                                                  *)
(***************************************************************************)
EXTENDS Naturals

CONSTANT Leases

VARIABLES
    phase,      \* where each lease is
    granted,    \* how often a caller won the execution of each lease
    reported    \* how often a caller won the evidence submission of each lease

contractVars == <<phase, granted, reported>>

Moves(l, from, to) ==
    /\ phase[l] \in from
    /\ phase' = [phase EXCEPT ![l] = to]

Won(history, l) == [history EXCEPT ![l] = @ + 1]

Register(l) ==
    /\ Moves(l, {"absent"}, "pending")
    /\ UNCHANGED <<granted, reported>>

\* The claim is consumed; the caller learns of it or dies first.
Execute(l) ==
    /\ Moves(l, {"pending"}, "executing")
    /\ granted' \in {granted, Won(granted, l)}
    /\ UNCHANGED reported

Complete(l) ==
    /\ Moves(l, {"executing"}, "completed")
    /\ UNCHANGED <<granted, reported>>

Submit(l) ==
    /\ Moves(l, {"completed"}, "submitted")
    /\ reported' \in {reported, Won(reported, l)}
    /\ UNCHANGED granted

\* Failure, expiry or cancellation of an open lease.
Close(l) ==
    /\ Moves(l, {"pending", "executing"}, "closed")
    /\ UNCHANGED <<granted, reported>>

ContractInit ==
    /\ phase = [l \in Leases |-> "absent"]
    /\ granted = [l \in Leases |-> 0]
    /\ reported = [l \in Leases |-> 0]

ContractNext ==
    \E l \in Leases :
        Register(l) \/ Execute(l) \/ Complete(l) \/ Submit(l) \/ Close(l)

ContractSpec == ContractInit /\ [][ContractNext]_contractVars

=============================================================================
