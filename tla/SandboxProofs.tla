---------------------------- MODULE SandboxProofs ----------------------------
(***************************************************************************)
(* No container is left behind without a fault, for any number of runs,    *)
(* any deadlines and any order in which the engine serves its requests.    *)
(***************************************************************************)
EXTENDS Sandbox, TLAPS

\* A name whose run never reached the engine is unknown to it.
Untouched ==
    \A n \in Names :
        n # name /\ result[n] \in {"none", "refused", "unavailable"} =>
            container[n] = "absent" /\ \A r \in requests : r.name # n

\* A run that ended with its container leaves nothing that could create one.
Ended ==
    \A n \in Names :
        result[n] = "exited" /\ faults[n] = {} =>
            container[n] = "absent" /\ \A r \in requests : r.name = n => r.verb # "create"

\* Once the removal has been answered without an error the container is gone.
Removed ==
    \A n \in Names : IsSettled(n) /\ faults[n] = {} => container[n] = "absent"

\* The run in progress has no result yet, and without one there is no client.
InProgress ==
    /\ name \in Names => result[name] = "none"
    /\ pc = "idle" => client = "none"

IInv == TypeOK /\ Untouched /\ Ended /\ Removed /\ InProgress

\* A request is a verb and a name.
LEMMA RequestType ==
    ASSUME NEW verb \in Verbs, NEW n \in Names
    PROVE  /\ Request(verb, n) \in [verb : Verbs, name : Names]
           /\ Request(verb, n).verb = verb /\ Request(verb, n).name = n
  BY DEF Request

\* The limits are natural numbers.
LEMMA LimitTypes == MaxRuntime \in Nat /\ RemoveTimeout \in Nat
  BY LimitsAssumption DEF PolicyIsValid

\* A timer that starts is in range.
LEMMA TimerType == 0 \in 0..(MaxRuntime + RemoveTimeout)
  BY LimitTypes

\* The invariant holds at first.
LEMMA InitIInv == Init => IInv
  <1> SUFFICES ASSUME Init PROVE IInv
    OBVIOUS
  <1>1. TypeOK
    BY TimerType DEF Init, TypeOK, Results, Faults
  <1>2. Untouched /\ Ended /\ Removed /\ InProgress
    BY LimitsAssumption DEF Init, Untouched, Ended, Removed, InProgress, IsSettled
  <1> QED BY <1>1, <1>2 DEF IInv

\* The invariant implies the property.
LEMMA IInvSuffices == IInv => NoRunawayContainer
  <1> SUFFICES ASSUME IInv, NEW n \in Names, result[n] # "none", faults[n] = {}
               PROVE  container[n] = "absent"
    BY DEF NoRunawayContainer
  <1>1. n # name
    BY DEF IInv, InProgress
  <1>2. result[n] \in {"refused", "unavailable", "exited", "timed_out"}
    BY DEF IInv, TypeOK, Results
  <1> QED BY <1>1, <1>2 DEF IInv, Untouched, Ended, Removed, IsSettled

\* Starting a run, or refusing to.
LEMMA CallStep ==
    ASSUME IInv, NEW n \in Names, NEW c \in Calls,
           Refuse(n, c) \/ Run(n, c) \/ RunUnavailable(n, c)
    PROVE  IInv'
  <1>1. pc = "idle" /\ result[n] = "none" /\ name = NoName /\ name \notin Names
    BY LimitsAssumption DEF IInv, TypeOK, Refuse, Run, RunUnavailable, IsFresh
  <1>2. CASE Refuse(n, c) \/ RunUnavailable(n, c)
    <2>1. /\ UNCHANGED <<pc, name, client, timer, requests, container, faults>>
          /\ \/ result' = [result EXCEPT ![n] = "refused"]
             \/ result' = [result EXCEPT ![n] = "unavailable"]
      BY <1>2 DEF Refuse, RunUnavailable
    <2> QED
      BY <1>1, <2>1 DEF IInv, TypeOK, Results, Untouched, Ended, Removed, InProgress, IsSettled
  <1>3. CASE Run(n, c)
    <2>1. /\ UNCHANGED <<result, container, faults>>
          /\ pc' = "run" /\ name' = n /\ client' = "asking" /\ timer' = 0
          /\ requests' = requests \cup {Request("create", n)}
      BY <1>3 DEF Run, Spawn
    <2>2. TypeOK'
      <3>1. requests' \subseteq [verb : Verbs, name : Names]
        BY <2>1, RequestType DEF IInv, TypeOK, Verbs
      <3>2. name' \in Names /\ name' # NoName
        BY <2>1, LimitsAssumption
      <3> QED BY <2>1, <3>1, <3>2, TimerType DEF IInv, TypeOK
    <2>3. \A r \in requests' : r \in requests \/ (r.name = n /\ r.verb = "create")
      BY <2>1 DEF Request
    <2>4. Untouched'
      BY <1>1, <2>1, <2>3 DEF IInv, Untouched
    <2>5. Ended'
      BY <1>1, <2>1, <2>3 DEF IInv, Ended
    <2>6. Removed' /\ InProgress'
      BY <1>1, <2>1 DEF IInv, Removed, InProgress, IsSettled
    <2> QED BY <2>2, <2>4, <2>5, <2>6 DEF IInv
  <1> QED BY <1>2, <1>3

\* A step that ends the run in progress and leaves the engine alone.
LEMMA ReturnStep ==
    ASSUME IInv, pc # "idle", NEW how \in {"exited", "timed_out"}, Returns(name, how),
           UNCHANGED container, requests' \subseteq requests,
           faults' \in [Names -> SUBSET Faults],
           \A n \in Names : faults[n] \subseteq faults'[n],
           faults'[name] = {} =>
               /\ container[name] = "absent"
               /\ how = "exited" => \A r \in requests : r.name = name => r.verb # "create"
    PROVE  IInv'
  <1>1. name \in Names
    BY DEF IInv, TypeOK
  <1>2. /\ pc' = "idle" /\ name' = NoName /\ client' = "none" /\ timer' = 0
        /\ result' = [result EXCEPT ![name] = how]
    BY DEF Returns
  <1>3. result' \in [Names -> Results] /\ \A n \in Names : result'[n] = IF n = name THEN how ELSE result[n]
    BY <1>1, <1>2 DEF IInv, TypeOK, Results
  <1>4. TypeOK'
    BY <1>2, <1>3, TimerType DEF IInv, TypeOK
  <1>5. Untouched'
    BY <1>1, <1>3 DEF IInv, Untouched
  <1>6. Ended'
    BY <1>3 DEF IInv, Ended
  <1>7. Removed'
    BY <1>2, <1>3 DEF IInv, Removed, IsSettled
  <1>8. InProgress'
    BY <1>2, LimitsAssumption DEF InProgress
  <1> QED BY <1>4, <1>5, <1>6, <1>7, <1>8 DEF IInv

\* Blame adds a fault of one name and takes none away.
LEMMA BlameStep ==
    ASSUME IInv, NEW n \in Names, NEW fault \in Faults, Blame(n, fault)
    PROVE  /\ faults' \in [Names -> SUBSET Faults]
           /\ \A m \in Names : faults[m] \subseteq faults'[m]
           /\ faults'[n] # {}
           /\ \A m \in Names \ {n} : faults'[m] = faults[m]
  BY DEF Blame, IInv, TypeOK

\* The ways in which the client of run ends.
LEMMA ClientEnds ==
    ASSUME IInv, ClientExits \/ ClientFails
    PROVE  IInv'
  <1>1. pc # "idle" /\ name \in Names /\ Returns(name, "exited") /\ UNCHANGED <<requests, container>>
    BY DEF ClientExits, ClientFails, IInv, TypeOK
  <1>2. CASE ClientExits
    <2>1. UNCHANGED faults /\ container[name] = "absent" /\ RequestsFor(name) = {}
      BY <1>2 DEF ClientExits
    <2>2. \A r \in requests : r.name # name
      BY <2>1 DEF RequestsFor
    <2> QED BY <1>1, <2>1, <2>2, ReturnStep DEF IInv, TypeOK
  <1>3. CASE ClientFails
    <2>1. Blame(name, "client")
      BY <1>3 DEF ClientFails
    <2>2. /\ faults' \in [Names -> SUBSET Faults] /\ faults'[name] # {}
          /\ \A m \in Names : faults[m] \subseteq faults'[m]
      BY <1>1, <2>1, BlameStep DEF Faults
    <2> QED BY <1>1, <2>2, ReturnStep
  <1> QED BY <1>2, <1>3

\* The end of a removal, answered or not, keeps the invariant.
LEMMA RemovalEnds ==
    ASSUME IInv, RmAnswered \/ RmFails
    PROVE  IInv'
  <1>1. /\ pc = "rm" /\ name \in Names /\ Returns(name, "timed_out") /\ UNCHANGED container
        /\ requests' \subseteq requests
    BY DEF RmAnswered, RmFails, Abandoned, IInv, TypeOK
  <1>2. CASE RmAnswered
    <2>1. UNCHANGED faults /\ IsSettled(name)
      BY <1>2 DEF RmAnswered, IsSettled
    <2>2. faults[name] = {} => container[name] = "absent"
      BY <1>1, <2>1 DEF IInv, Removed
    <2> QED BY <1>1, <2>1, <2>2, ReturnStep DEF IInv, TypeOK
  <1>3. CASE RmFails
    <2>1. Blame(name, "rm")
      BY <1>3 DEF RmFails
    <2>2. /\ faults' \in [Names -> SUBSET Faults] /\ faults'[name] # {}
          /\ \A m \in Names : faults[m] \subseteq faults'[m]
      BY <1>1, <2>1, BlameStep DEF Faults
    <2> QED BY <1>1, <2>2, ReturnStep
  <1> QED BY <1>2, <1>3

\* Steps from one command to the next: the run goes on under the same name.
LEMMA CommandStep ==
    ASSUME IInv, ClientStarts \/ RunTimesOut \/ SpawnRemoval \/ KillAnswered \/ KillFails \/ Tick
    PROVE  IInv'
  <1> DEFINE Added(verb) == requests' \subseteq requests \cup {Request(verb, name)}
  <1>1. /\ pc # "idle" /\ name \in Names /\ name # NoName
        /\ UNCHANGED <<name, result, container, faults>>
    <2>1. pc # "idle"
      BY DEF IInv, InProgress, ClientStarts, RunTimesOut, SpawnRemoval,
          KillAnswered, KillFails, Tick, Waiting
    <2>2. name \in Names /\ name # NoName
      BY <2>1 DEF IInv, TypeOK
    <2>3. UNCHANGED <<result, container, faults>>
      BY DEF ClientStarts, RunTimesOut, SpawnRemoval, Spawn, KillAnswered, KillFails, AfterKill, Tick
    <2>4. UNCHANGED name
      BY DEF ClientStarts, RunTimesOut, SpawnRemoval, Spawn, KillAnswered, KillFails, AfterKill, Tick
    <2> QED BY <2>1, <2>2, <2>3, <2>4
  <1>2. \/ requests' \subseteq requests
        \/ \E verb \in {"start", "kill", "rm"} : Added(verb)
    <2>1. CASE ClientStarts
      BY <2>1 DEF ClientStarts
    <2>2. CASE SpawnRemoval
      BY <2>2 DEF SpawnRemoval, Spawn
    <2>3. CASE RunTimesOut \/ KillFails
      <3>1. UNCHANGED requests \/ \E lost : requests' = requests \ lost
        BY <2>3, Zenon DEF RunTimesOut, KillFails, Abandoned
      <3> QED BY <3>1
    <2>4. CASE KillAnswered \/ Tick
      BY <2>4 DEF KillAnswered, Tick
    <2> QED BY <2>1, <2>2, <2>3, <2>4
  <1>3. \A r \in requests' : r \in requests \/ (r.name = name /\ r.verb \in {"start", "kill", "rm"})
    BY <1>1, <1>2, RequestType DEF Verbs
  <1>4. requests' \subseteq [verb : Verbs, name : Names]
    BY <1>1, <1>2, RequestType DEF IInv, TypeOK, Verbs
  <1>5. timer' \in 0..(MaxRuntime + RemoveTimeout)
    <2>1. CASE UNCHANGED timer
      BY <2>1 DEF IInv, TypeOK
    <2>2. CASE timer' = 0
      BY <2>2, TimerType
    <2>3. CASE Tick
      <3>1. timer' = timer + 1 /\ timer < Limit
        BY <2>3 DEF Tick, Waiting
      <3>2. timer \in Nat
        BY DEF IInv, TypeOK
      <3> QED BY <3>1, <3>2, LimitTypes DEF Limit
    <2> QED BY <2>1, <2>2, <2>3 DEF ClientStarts, RunTimesOut, SpawnRemoval, Spawn, KillAnswered,
               KillFails, AfterKill
  <1>6. pc' \in {"run", "kill", "rm"} /\ client' \in {"none", "asking", "starting"}
    BY <1>1 DEF IInv, TypeOK, ClientStarts, RunTimesOut, SpawnRemoval, Spawn, KillAnswered,
        KillFails, AfterKill, Tick, Waiting
  <1>7. TypeOK'
    BY <1>1, <1>4, <1>5, <1>6 DEF IInv, TypeOK
  <1>8. Untouched'
    BY <1>1, <1>3 DEF IInv, Untouched
  <1>9. Ended'
    BY <1>1, <1>3 DEF IInv, Ended
  <1>10. ASSUME IsSettled(name)' PROVE IsSettled(name)
    <2>1. result[name] # "timed_out"
      BY <1>1 DEF IInv, InProgress
    <2>2. pc' = "rm" /\ client' # "none" /\ Request("rm", name) \notin requests'
      BY <1>1, <1>10, <2>1 DEF IsSettled
    <2>3. CASE Tick
      BY <1>1, <2>2, <2>3 DEF Tick, IsSettled
    <2>4. CASE SpawnRemoval
      BY <2>2, <2>4 DEF SpawnRemoval, Spawn
    <2> QED
      BY <2>2, <2>3, <2>4 DEF ClientStarts, RunTimesOut, KillAnswered, KillFails, AfterKill
  <1>11. Removed'
    <2> SUFFICES ASSUME NEW n \in Names, IsSettled(n)', faults'[n] = {} PROVE container'[n] = "absent"
      BY DEF Removed
    <2>1. IsSettled(n)
      BY <1>1, <1>10 DEF IsSettled
    <2> QED BY <1>1, <2>1 DEF IInv, Removed
  <1>12. InProgress'
    BY <1>1, <1>6 DEF IInv, InProgress
  <1> QED BY <1>7, <1>8, <1>9, <1>11, <1>12 DEF IInv

-----------------------------------------------------------------------------
(* The engine                                                               *)

\* Only create makes a container of none.
LEMMA EffectType ==
    ASSUME NEW verb \in Verbs, NEW s \in {"absent", "created", "running", "exited"}
    PROVE  /\ Effect(verb, s) \in {"absent", "created", "running", "exited"}
           /\ s = "absent" /\ verb # "create" => Effect(verb, s) = "absent"
           /\ verb = "rm" => Effect(verb, s) = "absent"
  BY DEF Effect, Verbs

\* A request that the engine serves, also late, keeps the invariant.
LEMMA ServeStep ==
    ASSUME IInv, NEW r \in requests, Serve(r)
    PROVE  IInv'
  <1>1. /\ requests' = requests \ {r} /\ UNCHANGED <<pc, name, client, timer, result>>
        /\ container' = [container EXCEPT ![r.name] = Effect(r.verb, container[r.name])]
        /\ IF r.verb = "create" /\ IsSettled(r.name) THEN Blame(r.name, "late") ELSE UNCHANGED faults
    BY Zenon DEF Serve, backend
  <1>2. r.name \in Names /\ r.verb \in Verbs /\ r = Request(r.verb, r.name)
    BY DEF IInv, TypeOK, Request
  <1>3. /\ container[r.name] \in {"absent", "created", "running", "exited"}
        /\ container' \in [Names -> {"absent", "created", "running", "exited"}]
        /\ container'[r.name] = Effect(r.verb, container[r.name])
        /\ \A n \in Names \ {r.name} : container'[n] = container[n]
    BY <1>1, <1>2, EffectType DEF IInv, TypeOK
  <1>4. /\ faults' \in [Names -> SUBSET Faults]
        /\ \A n \in Names : faults[n] \subseteq faults'[n]
        /\ r.verb = "create" /\ IsSettled(r.name) => faults'[r.name] # {}
    <2>1. CASE r.verb = "create" /\ IsSettled(r.name)
      BY <1>1, <1>2, <2>1, BlameStep DEF Faults
    <2>2. CASE ~(r.verb = "create" /\ IsSettled(r.name))
      BY <1>1, <2>2 DEF IInv, TypeOK
    <2> QED BY <2>1, <2>2
  <1>5. TypeOK'
    BY <1>1, <1>3, <1>4 DEF IInv, TypeOK
  <1>6. Untouched' /\ InProgress'
    BY <1>1, <1>2, <1>3 DEF IInv, Untouched, InProgress
  <1>7. Ended'
    <2> SUFFICES ASSUME NEW n \in Names, result[n] = "exited", faults'[n] = {}
                 PROVE  /\ container'[n] = "absent"
                        /\ \A q \in requests' : q.name = n => q.verb # "create"
      BY <1>1 DEF Ended
    <2>1. container[n] = "absent" /\ \A q \in requests : q.name = n => q.verb # "create"
      BY <1>4 DEF IInv, Ended
    <2> QED BY <1>1, <1>2, <1>3, <2>1, EffectType
  <1>8. Removed'
    <2> SUFFICES ASSUME NEW n \in Names, IsSettled(n)', faults'[n] = {} PROVE container'[n] = "absent"
      BY DEF Removed
    <2>1. faults[n] = {}
      BY <1>4
    <2>2. CASE IsSettled(n)
      <3>1. container[n] = "absent" /\ ~(r.verb = "create" /\ r.name = n)
        BY <1>4, <2>1, <2>2 DEF IInv, Removed
      <3> QED BY <1>2, <1>3, <3>1, EffectType
    <2>3. CASE ~IsSettled(n)
      <3>1. r = Request("rm", n)
        BY <1>1, <2>3 DEF IsSettled
      <3>2. r.verb = "rm" /\ r.name = n
        BY <3>1, RequestType DEF Verbs
      <3> QED BY <1>2, <1>3, <3>2, EffectType
    <2> QED BY <2>2, <2>3
  <1> QED BY <1>5, <1>6, <1>7, <1>8 DEF IInv

\* A request that the engine refuses keeps the invariant.
LEMMA RejectStep ==
    ASSUME IInv, NEW r \in requests, Reject(r)
    PROVE  IInv'
  <1>1. /\ requests' = requests \ {r} /\ UNCHANGED <<pc, name, client, timer, result, container>>
        /\ IF r.verb = "rm" THEN Blame(r.name, "rm") ELSE UNCHANGED faults
    BY Zenon DEF Reject, backend
  <1>2. r.name \in Names /\ r.verb \in Verbs
    BY DEF IInv, TypeOK
  <1>3. /\ faults' \in [Names -> SUBSET Faults]
        /\ \A n \in Names : faults[n] \subseteq faults'[n]
        /\ r.verb = "rm" => faults'[r.name] # {}
    <2>1. CASE r.verb = "rm"
      BY <1>1, <1>2, <2>1, BlameStep DEF Faults
    <2>2. CASE r.verb # "rm"
      BY <1>1, <2>2 DEF IInv, TypeOK
    <2> QED BY <2>1, <2>2
  <1>4. TypeOK'
    BY <1>1, <1>3 DEF IInv, TypeOK
  <1>5. Untouched' /\ InProgress'
    BY <1>1 DEF IInv, Untouched, InProgress
  <1>6. Ended'
    BY <1>1, <1>3 DEF IInv, Ended
  <1>7. Removed'
    <2> SUFFICES ASSUME NEW n \in Names, IsSettled(n)', faults'[n] = {} PROVE container'[n] = "absent"
      BY DEF Removed
    <2>1. faults[n] = {} /\ ~(r.verb = "rm" /\ r.name = n)
      BY <1>3
    <2>2. r # Request("rm", n)
      BY <2>1, RequestType DEF Verbs
    <2>3. IsSettled(n)
      BY <1>1, <2>2 DEF IsSettled
    <2> QED BY <1>1, <2>1, <2>3 DEF IInv, Removed
  <1> QED BY <1>4, <1>5, <1>6, <1>7 DEF IInv

\* What the engine does unasked keeps the invariant.
LEMMA EngineAloneStep ==
    ASSUME IInv, NEW n \in Names, JobEnds(n) \/ AutoRemove(n)
    PROVE  IInv'
  <1>1. /\ UNCHANGED <<pc, name, client, timer, result, requests, faults>>
        /\ container[n] # "absent"
        /\ \/ container' = [container EXCEPT ![n] = "exited"]
           \/ container' = [container EXCEPT ![n] = "absent"]
    BY DEF JobEnds, AutoRemove, backend
  <1>2. /\ container' \in [Names -> {"absent", "created", "running", "exited"}]
        /\ \A m \in Names : container[m] = "absent" => container'[m] = "absent"
    BY <1>1 DEF IInv, TypeOK
  <1>3. TypeOK'
    BY <1>1, <1>2 DEF IInv, TypeOK
  <1>4. Untouched' /\ Ended' /\ InProgress'
    BY <1>1, <1>2 DEF IInv, Untouched, Ended, InProgress
  <1>5. Removed'
    BY <1>1, <1>2 DEF IInv, Removed, IsSettled
  <1> QED BY <1>3, <1>4, <1>5 DEF IInv

-----------------------------------------------------------------------------
\* Every step keeps the invariant.
LEMMA NextIInv == IInv /\ [Next]_vars => IInv'
  <1> SUFFICES ASSUME IInv, [Next]_vars PROVE IInv'
    OBVIOUS
  <1>1. CASE UNCHANGED vars
    BY <1>1 DEF vars, backend, IInv, TypeOK, Untouched, Ended, Removed, InProgress, IsSettled
  <1>2. CASE \E n \in Names, c \in Calls : Refuse(n, c) \/ Run(n, c) \/ RunUnavailable(n, c)
    BY <1>2, CallStep
  <1>3. CASE Proceed \/ Tick
    BY <1>3, ClientEnds, RemovalEnds, CommandStep DEF Proceed
  <1>4. CASE Engine
    BY <1>4, ServeStep, RejectStep, EngineAloneStep DEF Engine
  <1> QED BY <1>1, <1>2, <1>3, <1>4 DEF Next

\* In every run, whatever its deadlines and however the engine orders what it
\* serves, a container outlives the call only after one of the faults of Faults.
THEOREM ContainersRemoved == Spec => []NoRunawayContainer
  BY InitIInv, NextIInv, IInvSuffices, PTL DEF Spec

\* The state of the backend and of the engine keeps its type.
THEOREM TypeCorrect == Spec => []TypeOK
  <1>1. IInv => TypeOK BY DEF IInv
  <1> QED BY InitIInv, NextIInv, <1>1, PTL DEF Spec
=============================================================================
