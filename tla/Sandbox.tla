------------------------------- MODULE Sandbox -------------------------------
(***************************************************************************)
(* The container sandbox (sandbox.py): LinuxContainerBackend.run starts a  *)
(* container client with a deadline, and when the client has not ended by  *)
(* then kills it and asks the engine, with two more clients and deadlines  *)
(* of their own, to kill and to remove the container.                      *)
(*                                                                         *)
(* Only the clients are children of this process.  The container belongs   *)
(* to the engine, which serves what a client has sent in its own time,     *)
(* also after the client was killed, and may fail to serve it.  What a     *)
(* client sends follows from the commands the code builds: run creates and *)
(* then starts a container that is removed when it ends (--rm).            *)
(***************************************************************************)
EXTENDS Integers, FiniteSets

CONSTANTS
    Names,          \* container names; each run draws a new one
    Calls,          \* what run is called with, see IsCall
    MaxRuntime,     \* policy.max_runtime_seconds, in ticks
    RemoveTimeout,  \* the 15 seconds of _force_remove, in ticks
    MaxArguments,   \* _MAX_ARGUMENTS
    NoName          \* no run is in progress

VARIABLES
    pc,         \* "idle", or the command in progress: "run", "kill" or "rm"
    name,       \* container_name of the run in progress
    client,     \* the client of that command: "none", "asking", "starting"
    timer,      \* how long process.wait has waited for the client
    result,     \* how the run of each name ended, see Results
    requests,   \* what the engine was asked and has not served
    container,  \* each container, as the engine has it
    faults      \* history: what went wrong outside this process, see Faults

backend == <<pc, name, client, timer, result>>
vars == <<backend, requests, container, faults>>

Verbs == {"create", "start", "kill", "rm"}
Request(verb, n) == [verb |-> verb, name |-> n]
RequestsFor(n) == {r \in requests : r.name = n}

Results == {"none", "refused", "unavailable", "exited", "timed_out"}

\* client: the client of run ended, and not because its container had.
\* rm: the removal was refused, could not be started or was not answered.
\* late: the engine created the container after it had answered the removal.
Faults == {"client", "rm", "late"}

Blame(n, fault) == faults' = [faults EXCEPT ![n] = @ \cup {fault}]

-----------------------------------------------------------------------------
(* What is accepted                                                         *)

\* enabled: the feature gate is on and the platform is Linux.  deny: the
\* policy's network is denied.  The rest is the publisher's.
IsCall(c) ==
    /\ {c.enabled, c.deny, c.pinned, c.mounts, c.devices} \subseteq BOOLEAN
    /\ c.arguments \in Nat

\* ContainerJob.__post_init__
JobIsAccepted(c) ==
    /\ c.pinned
    /\ c.arguments \in 1..MaxArguments
    /\ ~c.mounts
    /\ ~c.devices

\* ContainerSandboxPolicy.__post_init__; the other limits are only passed on.
Day == 86400
PolicyIsValid == MaxRuntime \in 1..Day

ASSUME CallsAssumption == \A c \in Calls : IsCall(c)
ASSUME LimitsAssumption ==
    /\ PolicyIsValid
    /\ RemoveTimeout \in Nat \ {0}
    /\ MaxArguments \in Nat
    /\ NoName \notin Names

-----------------------------------------------------------------------------
(* SubprocessSandboxRunner.run: one client and its deadline                 *)

Limit == IF pc = "run" THEN MaxRuntime ELSE RemoveTimeout

\* Popen: the client sends the first request of its command.
Spawn(command, n, verb) ==
    /\ pc' = command
    /\ name' = n
    /\ client' = "asking"
    /\ timer' = 0
    /\ requests' = requests \cup {Request(verb, n)}

\* run returns or raises for the run in progress.
Returns(n, how) ==
    /\ pc' = "idle"
    /\ name' = NoName
    /\ client' = "none"
    /\ timer' = 0
    /\ result' = [result EXCEPT ![n] = how]

\* Variant of Waiting: the removal commands have no deadline.
WaitingForever == client # "none" /\ pc = "run" /\ timer < Limit

\* process.wait(timeout=...)
Waiting == client # "none" /\ timer < Limit

Expired == client # "none" /\ timer = Limit

\* killpg and wait: the client is gone; what it has asked for may be lost with
\* it, or has reached the engine.
Abandoned(lost) == requests' = requests \ lost

-----------------------------------------------------------------------------
(* LinuxContainerBackend.run                                                *)

IsFresh(n) == pc = "idle" /\ result[n] = "none"

IsAdmitted(c) == JobIsAccepted(c) /\ c.enabled /\ c.deny

\* The job cannot be constructed, the backend is disabled, or build_command
\* refuses the network policy.
Refuse(n, c) ==
    /\ IsFresh(n)
    /\ ~IsAdmitted(c)
    /\ result' = [result EXCEPT ![n] = "refused"]
    /\ UNCHANGED <<pc, name, client, timer, requests, container, faults>>

Run(n, c) ==
    /\ IsFresh(n)
    /\ IsAdmitted(c)
    /\ Spawn("run", n, "create")
    /\ UNCHANGED <<result, container, faults>>

\* The engine's executable, or a temporary file, cannot be opened.
RunUnavailable(n, c) ==
    /\ IsFresh(n)
    /\ IsAdmitted(c)
    /\ result' = [result EXCEPT ![n] = "unavailable"]
    /\ UNCHANGED <<pc, name, client, timer, requests, container, faults>>

\* The container exists: the client asks to start it and stays attached.
ClientStarts ==
    /\ pc = "run" /\ client = "asking"
    /\ container[name] = "created"
    /\ client' = "starting"
    /\ requests' = requests \cup {Request("start", name)}
    /\ UNCHANGED <<pc, name, timer, result, container, faults>>

\* The container has ended and was removed: so does the client.
ClientExits ==
    /\ pc = "run" /\ client = "starting"
    /\ RequestsFor(name) = {}
    /\ container[name] = "absent"
    /\ Returns(name, "exited")
    /\ UNCHANGED <<requests, container, faults>>

\* The client ends with an error of its own: a request was refused or its
\* connection broke.  run reports its exit code as the job's and leaves the
\* container, if there is one, alone.
ClientFails ==
    /\ pc = "run" /\ client # "none"
    /\ Returns(name, "exited")
    /\ Blame(name, "client")
    /\ UNCHANGED <<requests, container>>

\* SandboxCommandTimeout: _force_remove is called.
RunTimesOut ==
    /\ pc = "run" /\ Expired
    /\ pc' = "kill"
    /\ client' = "none"
    /\ timer' = 0
    /\ \E lost \in SUBSET RequestsFor(name) : Abandoned(lost)
    /\ UNCHANGED <<name, result, container, faults>>

-----------------------------------------------------------------------------
(* LinuxContainerBackend._force_remove                                      *)

SpawnRemoval ==
    /\ pc \in {"kill", "rm"} /\ client = "none"
    /\ Spawn(pc, name, pc)
    /\ UNCHANGED <<result, container, faults>>

\* Variant of AfterKill: an error of the first command ends the loop.
AfterKillStops(failed) ==
    \/ failed /\ Returns(name, "timed_out")
    \/ ~failed /\ pc' = "rm" /\ client' = "none" /\ timer' = 0 /\ UNCHANGED <<name, result>>

\* Whether or not kill failed, rm is next.
AfterKill(failed) ==
    /\ pc' = "rm"
    /\ client' = "none"
    /\ timer' = 0
    /\ UNCHANGED <<name, result>>

\* The engine has answered kill, or failed it; either way the loop goes on.
KillAnswered ==
    /\ pc = "kill" /\ client # "none"
    /\ Request("kill", name) \notin requests
    /\ AfterKill(container[name] \notin {"absent", "exited"})
    /\ UNCHANGED <<requests, container, faults>>

KillFails ==
    /\ pc = "kill"
    /\ \/ client = "none" /\ UNCHANGED requests
       \/ Expired /\ \E lost \in SUBSET {Request("kill", name)} : Abandoned(lost)
    /\ AfterKill(TRUE)
    /\ UNCHANGED <<container, faults>>

\* rm was answered, with or without an error.
RmAnswered ==
    /\ pc = "rm" /\ client # "none"
    /\ Request("rm", name) \notin requests
    /\ Returns(name, "timed_out")
    /\ UNCHANGED <<requests, container, faults>>

\* rm cannot be started, or has no answer in time.
RmFails ==
    /\ pc = "rm"
    /\ \/ client = "none" /\ UNCHANGED requests
       \/ Expired /\ \E lost \in SUBSET {Request("rm", name)} : Abandoned(lost)
    /\ Returns(name, "timed_out")
    /\ Blame(name, "rm")
    /\ UNCHANGED container

Tick ==
    /\ Waiting
    /\ timer' = timer + 1
    /\ UNCHANGED <<pc, name, client, result, requests, container, faults>>

-----------------------------------------------------------------------------
(* The engine                                                               *)

\* What serving a request does to a container in state s.
Effect(verb, s) ==
    CASE verb = "create" /\ s = "absent"  -> "created"
      [] verb = "start"  /\ s = "created" -> "running"
      [] verb = "kill"   /\ s = "running" -> "exited"
      [] verb = "rm"                      -> "absent"
      [] OTHER                            -> s

\* The removal of n has been answered: nothing will be asked about n again.
IsSettled(n) ==
    \/ result[n] = "timed_out"
    \/ pc = "rm" /\ name = n /\ client # "none" /\ Request("rm", n) \notin requests

Serve(r) ==
    /\ requests' = requests \ {r}
    /\ container' = [container EXCEPT ![r.name] = Effect(r.verb, @)]
    /\ IF r.verb = "create" /\ IsSettled(r.name) THEN Blame(r.name, "late") ELSE UNCHANGED faults
    /\ UNCHANGED backend

\* The engine answers a request with an error.
Reject(r) ==
    /\ requests' = requests \ {r}
    /\ IF r.verb = "rm" THEN Blame(r.name, "rm") ELSE UNCHANGED faults
    /\ UNCHANGED <<backend, container>>

\* The job ends; then the engine removes the container.
JobEnds(n) ==
    /\ container[n] = "running"
    /\ container' = [container EXCEPT ![n] = "exited"]
    /\ UNCHANGED <<backend, requests, faults>>

AutoRemove(n) ==
    /\ container[n] = "exited"
    /\ container' = [container EXCEPT ![n] = "absent"]
    /\ UNCHANGED <<backend, requests, faults>>

-----------------------------------------------------------------------------
Init ==
    /\ pc = "idle"
    /\ name = NoName
    /\ client = "none"
    /\ timer = 0
    /\ result = [n \in Names |-> "none"]
    /\ requests = {}
    /\ container = [n \in Names |-> "absent"]
    /\ faults = [n \in Names |-> {}]

\* What this process does once a run has begun.
Proceed ==
    \/ ClientStarts
    \/ ClientExits
    \/ ClientFails
    \/ RunTimesOut
    \/ SpawnRemoval
    \/ KillAnswered
    \/ KillFails
    \/ RmAnswered
    \/ RmFails

Engine ==
    \/ \E r \in requests : Serve(r) \/ Reject(r)
    \/ \E n \in Names : JobEnds(n) \/ AutoRemove(n)

Next ==
    \/ \E n \in Names, c \in Calls : Refuse(n, c) \/ Run(n, c) \/ RunUnavailable(n, c)
    \/ Proceed
    \/ Tick
    \/ Engine

Spec == Init /\ [][Next]_vars

\* The steps this process takes by itself.
Attend == RunTimesOut \/ SpawnRemoval \/ KillFails \/ RmFails

\* This process takes its next step when it can, and time passes.  Nothing is
\* assumed of the engine or of the clients: they may never answer.
FairSpec == Spec /\ WF_vars(Attend) /\ WF_vars(Tick)

-----------------------------------------------------------------------------
TypeOK ==
    /\ pc \in {"idle", "run", "kill", "rm"}
    /\ name \in Names \cup {NoName} /\ (name = NoName <=> pc = "idle")
    /\ client \in {"none", "asking", "starting"}
    /\ timer \in 0..(MaxRuntime + RemoveTimeout)
    /\ result \in [Names -> Results]
    /\ requests \subseteq [verb : Verbs, name : Names]
    /\ container \in [Names -> {"absent", "created", "running", "exited"}]
    /\ faults \in [Names -> SUBSET Faults]

\* A container is left behind by a run that has returned only if its client
\* broke, its removal failed, or the engine created it after removing nothing:
\* in every other order of the deadlines, of the kill, which may fail, and of
\* what the engine serves, the container is gone (run and _force_remove).
NoRunawayContainer ==
    \A n \in Names :
        result[n] # "none" /\ container[n] # "absent" => faults[n] # {}

\* run returns although neither the engine nor a client ever answers: each of
\* its three commands has a deadline (SubprocessSandboxRunner.run).
RunReturns == pc # "idle" ~> pc = "idle"
=============================================================================
