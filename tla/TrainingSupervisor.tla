-------------------------- MODULE TrainingSupervisor --------------------------
(***************************************************************************)
(* TrainingSupervisor.run (runner.py): one loop that looks at the clock    *)
(* and the cancellation token, reads the next frame of the workload's      *)
(* process, and handles it; then it waits for the process and decides the  *)
(* outcome.  The workload is free to send any frame at any time, the clock *)
(* and the token move between any two steps of the loop.                   *)
(***************************************************************************)
EXTENDS Integers, FiniteSets

CONSTANTS
    Digests,        \* digests of checkpoints and results
    NoDigest,       \* no digest
    MaxSteps,       \* contract.max_steps
    Interval,       \* contract.checkpoint_interval_steps
    MaxRuntime,     \* contract.max_runtime_ms, in ticks of the model's clock
    MaxLogBytes,    \* contract.max_log_bytes, in log frames of one unit
    MaxEvents,      \* contract.max_events
    GraceFrames     \* contract.cancellation_grace_frames

VARIABLES
    pc,             \* "head" of the loop, "frame", "wait" or "done"
    clock,          \* time since started_at; stops at MaxRuntime
    cancelled,      \* cancellation.is_cancelled()
    cancel_requested, timed_out, grace_frames, expected_sequence, last_step,
    event_count, log_bytes,
    checkpoints,    \* the digest recorded for each step, or NoDigest
    terminal,       \* the kind of the terminal event, or "none"
    terminated,     \* process.terminate() was called
    outcome,        \* how run ended, see Outcomes
    exited,         \* history: process.wait returned an exit code
    confirmed,      \* history: steps named by an accepted CHECKPOINTED event
    sawDeadline,    \* history: the loop's check saw the runtime used up
    escaped         \* history: an exception passed through run, see Escapes

inputs == <<clock, cancelled>>
control == <<cancel_requested, timed_out>>
progress == <<expected_sequence, last_step, terminal, confirmed>>
vars == <<pc, inputs, control, grace_frames, progress, event_count, log_bytes,
          checkpoints, terminated, outcome, exited, sawDeadline, escaped>>

\* RunnerContract.__post_init__
ASSUME ContractAssumption ==
    /\ MaxSteps \in Nat \ {0}
    /\ Interval \in 1..MaxSteps
    /\ MaxRuntime \in Nat \ {0}
    /\ MaxLogBytes \in Nat
    /\ MaxEvents \in Nat \ {0, 1}
    /\ GraceFrames \in Nat \ {0}
    /\ NoDigest \notin Digests

-----------------------------------------------------------------------------
(* What the workload may send, and how run may end                          *)

EventKinds ==
    {"started", "progress", "checkpointed", "completed", "failed", "cancelled"}

TerminalKinds == {"completed", "failed", "cancelled"}

\* The events ProgressEvent.__post_init__ accepts; in_time says whether the
\* elapsed time the workload reports is within the contract.  A step above
\* max_steps stands for all of them.
Events ==
    {e \in [sequence : 0..MaxEvents, kind : EventKinds, step : 0..(MaxSteps + 1),
            in_time : BOOLEAN, output_digest : Digests \cup {NoDigest}] :
        /\ e.kind \in {"checkpointed", "completed"} <=> e.output_digest # NoDigest
        /\ e.kind = "started" => e.sequence = 0 /\ e.step = 0}

ErrorCodes ==
    {"invalid_event", "event_limit", "log_limit", "checkpoint_limit",
     "checkpoint_failed", "process_failed", "cancellation_ignored", "timed_out"}

\* Still running; a TrainingOutcome with its status and terminal_error; a
\* RunnerFailure with its code; or another exception.
Outcomes ==
    [status : {"running"}, error : {"none"}]
        \cup [status : {"completed"}, error : {"none"}]
        \cup [status : {"cancelled"}, error : {"none", "timed_out"}]
        \cup [status : {"failed"}, error : ErrorCodes]
        \cup [status : {"raised"}, error : {"none"}]

Ends(status, error) ==
    /\ outcome' = [status |-> status, error |-> error]
    /\ pc' = "done"

\* process.terminate(), then RunnerFailure(code).
Fail(code) ==
    /\ Ends("failed", code)
    /\ terminated' = TRUE
    /\ UNCHANGED escaped

\* An exception that no handler of run catches: the process is left alone.
Escapes(status, error) ==
    /\ Ends(status, error)
    /\ escaped' = TRUE
    /\ UNCHANGED terminated

-----------------------------------------------------------------------------
(* The environment                                                          *)

Tick ==
    /\ pc # "done"
    /\ clock < MaxRuntime
    /\ clock' = clock + 1
    /\ UNCHANGED <<pc, cancelled, control, grace_frames, progress, event_count,
                   log_bytes, checkpoints, terminated, outcome, exited, sawDeadline, escaped>>

Cancel ==
    /\ pc # "done"
    /\ ~cancelled
    /\ cancelled' = TRUE
    /\ UNCHANGED <<pc, clock, control, grace_frames, progress, event_count,
                   log_bytes, checkpoints, terminated, outcome, exited, sawDeadline, escaped>>

-----------------------------------------------------------------------------
(* The loop's check of the clock and of the token                           *)

\* Variant of Overdue: the clock is not looked at.
NeverOverdue == FALSE

Overdue == clock >= MaxRuntime

\* The runtime is used up: ask for a checkpoint and for cancellation.
CheckDeadline ==
    /\ pc = "head"
    /\ Overdue
    /\ ~cancel_requested
    /\ cancel_requested' = TRUE
    /\ timed_out' = TRUE
    /\ pc' = "frame"
    /\ sawDeadline' = TRUE
    /\ UNCHANGED <<inputs, grace_frames, progress, event_count, log_bytes,
                   checkpoints, terminated, outcome, exited, escaped>>

\* Otherwise look at the token.  After a cancellation request neither is
\* looked at again.
CheckToken ==
    /\ pc = "head"
    /\ ~Overdue \/ cancel_requested
    /\ cancel_requested' = (cancel_requested \/ cancelled)
    /\ UNCHANGED timed_out
    /\ pc' = "frame"
    /\ sawDeadline' = (sawDeadline \/ Overdue)
    /\ UNCHANGED <<inputs, grace_frames, progress, event_count, log_bytes,
                   checkpoints, terminated, outcome, exited, escaped>>

-----------------------------------------------------------------------------
(* One frame                                                                *)

\* next_frame returned None: a second passed without a frame.
NoFrame ==
    /\ pc = "frame"
    /\ pc' = "wait"
    /\ UNCHANGED <<inputs, control, grace_frames, progress, event_count, log_bytes,
                   checkpoints, terminated, outcome, exited, sawDeadline, escaped>>

\* next_frame is called outside any handler.  The transport builds a RunnerFrame,
\* which refuses a payload that is too long, or a step that is missing or out of
\* place, with a RunnerFailure, and a step out of range with a ValueError.
FrameRefused ==
    /\ pc = "frame"
    /\ Escapes("failed", "invalid_event") \/ Escapes("raised", "none")
    /\ UNCHANGED <<inputs, control, grace_frames, progress, event_count, log_bytes,
                   checkpoints, exited, sawDeadline>>

GraceLeft == cancel_requested => grace_frames < GraceFrames

\* A frame of any kind after the grace period.
IgnoresCancel ==
    /\ pc = "frame"
    /\ ~GraceLeft
    /\ Fail(IF timed_out THEN "timed_out" ELSE "cancellation_ignored")
    /\ UNCHANGED <<inputs, control, grace_frames, progress, event_count, log_bytes,
                   checkpoints, exited, sawDeadline>>

\* Every frame that is handled counts against the grace period once the
\* cancellation is requested.
Handles ==
    /\ pc = "frame"
    /\ GraceLeft
    /\ grace_frames' = IF cancel_requested THEN grace_frames + 1 ELSE grace_frames
    /\ UNCHANGED <<inputs, control, exited, sawDeadline>>

Continues == pc' = "head" /\ UNCHANGED <<terminated, outcome, escaped>>

\* A log frame of n units; an empty one is allowed.
LogFrame(n) ==
    /\ Handles
    /\ log_bytes' = log_bytes + n
    /\ \/ log_bytes + n > MaxLogBytes /\ Fail("log_limit")
       \/ log_bytes + n <= MaxLogBytes /\ Continues
    /\ UNCHANGED <<progress, event_count, checkpoints>>

\* Variant of AtCadence: any step up to the last.
AtAnyStep(step) == step <= MaxSteps

\* _checkpoint's test of the step.
AtCadence(step) ==
    step <= MaxSteps /\ (step % Interval = 0 \/ step = MaxSteps)

\* A checkpoint frame with the payload whose digest is d; oversized is the size
\* test.  The sink may raise.  A second checkpoint of a step is refused after
\* the sink has stored it.
CheckpointFrame(step, d, oversized) ==
    /\ Handles
    /\ \/ /\ expected_sequence = 0
          /\ Fail("invalid_event")
          /\ UNCHANGED checkpoints
       \/ /\ expected_sequence # 0
          /\ oversized \/ ~AtCadence(step)
          /\ Fail("checkpoint_limit")
          /\ UNCHANGED checkpoints
       \/ /\ expected_sequence # 0
          /\ ~oversized /\ AtCadence(step)
          /\ \/ /\ Fail("checkpoint_failed")
                /\ UNCHANGED checkpoints
             \/ /\ checkpoints[step] # NoDigest
                /\ Fail("invalid_event")
                /\ UNCHANGED checkpoints
             \/ /\ checkpoints[step] = NoDigest
                /\ checkpoints' = [checkpoints EXCEPT ![step] = d]
                /\ Continues
    /\ UNCHANGED <<progress, event_count, log_bytes>>

EventLimit ==
    /\ Handles
    /\ event_count' = event_count + 1
    /\ event_count + 1 > MaxEvents
    /\ Fail("event_limit")
    /\ UNCHANGED <<progress, log_bytes, checkpoints>>

CountsEvent ==
    /\ Handles
    /\ event_count' = event_count + 1
    /\ event_count + 1 <= MaxEvents
    /\ UNCHANGED <<log_bytes, checkpoints>>

\* from_bytes refuses the payload.
MalformedEvent ==
    /\ CountsEvent
    /\ Fail("invalid_event")
    /\ UNCHANGED progress

\* json.loads raises an exception that from_bytes does not translate (an
\* integer literal beyond the interpreter's limit, nesting too deep): it leaves
\* run as it is, and nothing terminates the process.
UndecodableEvent ==
    /\ CountsEvent
    /\ Escapes("raised", "none")
    /\ UNCHANGED progress

\* Variant of Acceptable: steps may go back.
AcceptableBackwards(e) ==
    /\ e.sequence = expected_sequence
    /\ e.kind = "started" <=> expected_sequence = 0
    /\ e.step <= MaxSteps
    /\ e.in_time
    /\ e.kind = "checkpointed" =>
          e.step > 0 /\ checkpoints[e.step] = e.output_digest

\* The checks of an event against what came before it.
Acceptable(e) ==
    /\ e.sequence = expected_sequence
    /\ e.kind = "started" <=> expected_sequence = 0
    /\ last_step <= e.step /\ e.step <= MaxSteps
    /\ e.in_time
    /\ e.kind = "checkpointed" =>
          e.step > 0 /\ checkpoints[e.step] = e.output_digest

RefusedEvent(e) ==
    /\ CountsEvent
    /\ ~Acceptable(e)
    /\ Fail("invalid_event")
    /\ UNCHANGED progress

AcceptedEvent(e) ==
    /\ CountsEvent
    /\ Acceptable(e)
    /\ expected_sequence' = expected_sequence + 1
    /\ last_step' = e.step
    /\ confirmed' = confirmed \cup (IF e.kind = "checkpointed" THEN {e.step} ELSE {})
    /\ terminal' = IF e.kind \in TerminalKinds THEN e.kind ELSE "none"
    /\ pc' = IF e.kind \in TerminalKinds THEN "wait" ELSE "head"
    /\ UNCHANGED <<terminated, outcome, escaped>>

-----------------------------------------------------------------------------
(* After the loop                                                           *)

\* Variant of WaitFails: the process is left alone.
WaitFailsQuietly ==
    /\ pc = "wait"
    /\ Ends("failed", IF timed_out THEN "timed_out" ELSE "process_failed")
    /\ UNCHANGED <<inputs, control, grace_frames, progress, event_count, log_bytes,
                   checkpoints, terminated, exited, sawDeadline, escaped>>

\* process.wait timed out.
WaitFails ==
    /\ pc = "wait"
    /\ Fail(IF timed_out THEN "timed_out" ELSE "process_failed")
    /\ UNCHANGED <<inputs, control, grace_frames, progress, event_count, log_bytes,
                   checkpoints, exited, sawDeadline>>

\* Variant of Verdict: a completion counts whenever it arrives.
VerdictIgnoringTimeout(exit_code) ==
    IF terminal = "none"
    THEN Ends("failed", IF timed_out THEN "timed_out" ELSE "process_failed")
    ELSE IF terminal = "cancelled" /\ cancel_requested
    THEN Ends("cancelled", IF timed_out THEN "timed_out" ELSE "none")
    ELSE IF terminal # "completed" \/ exit_code # 0
    THEN Ends("failed", "process_failed")
    ELSE Ends("completed", "none")

\* What run makes of the terminal event and the exit code.
Verdict(exit_code) ==
    IF terminal = "none"
    THEN Ends("failed", IF timed_out THEN "timed_out" ELSE "process_failed")
    ELSE IF timed_out /\ terminal # "cancelled"
    THEN Ends("failed", "timed_out")
    ELSE IF terminal = "cancelled" /\ cancel_requested
    THEN Ends("cancelled", IF timed_out THEN "timed_out" ELSE "none")
    ELSE IF terminal # "completed" \/ exit_code # 0
    THEN Ends("failed", "process_failed")
    ELSE Ends("completed", "none")

WaitReturns(exit_code) ==
    /\ pc = "wait"
    /\ Verdict(exit_code)
    /\ exited' = TRUE
    /\ UNCHANGED <<inputs, control, grace_frames, progress, event_count, log_bytes,
                   checkpoints, terminated, sawDeadline, escaped>>

-----------------------------------------------------------------------------
Init ==
    /\ pc = "head"
    /\ clock = 0
    /\ cancelled = FALSE
    /\ cancel_requested = FALSE
    /\ timed_out = FALSE
    /\ grace_frames = 0
    /\ expected_sequence = 0
    /\ last_step = 0
    /\ event_count = 0
    /\ log_bytes = 0
    /\ checkpoints = [s \in 1..MaxSteps |-> NoDigest]
    /\ terminal = "none"
    /\ terminated = FALSE
    /\ outcome = [status |-> "running", error |-> "none"]
    /\ exited = FALSE
    /\ confirmed = {}
    /\ sawDeadline = FALSE
    /\ escaped = FALSE

SupervisorStep ==
    \/ CheckDeadline
    \/ CheckToken
    \/ NoFrame
    \/ FrameRefused
    \/ IgnoresCancel
    \/ \E n \in 0..1 : LogFrame(n)
    \/ \E step \in 1..(MaxSteps + 1), d \in Digests, oversized \in BOOLEAN :
          CheckpointFrame(step, d, oversized)
    \/ EventLimit
    \/ MalformedEvent
    \/ UndecodableEvent
    \/ \E e \in Events : RefusedEvent(e) \/ AcceptedEvent(e)
    \/ WaitFails
    \/ \E exit_code \in {0, 1} : WaitReturns(exit_code)

Done == pc = "done" /\ UNCHANGED vars

Next == Tick \/ Cancel \/ SupervisorStep \/ Done

\* The loop is never blocked: next_frame and wait return within their
\* timeouts, so the supervisor takes its next step; and time passes.
Fairness == WF_vars(SupervisorStep) /\ WF_vars(Tick)

Spec == Init /\ [][Next]_vars
FairSpec == Spec /\ Fairness

-----------------------------------------------------------------------------
(* Properties                                                               *)

\* The variables have their types.
TypeOK ==
    /\ pc \in {"head", "frame", "wait", "done"}
    /\ clock \in 0..MaxRuntime
    /\ cancelled \in BOOLEAN /\ cancel_requested \in BOOLEAN /\ timed_out \in BOOLEAN
    /\ terminated \in BOOLEAN /\ exited \in BOOLEAN
    /\ sawDeadline \in BOOLEAN /\ escaped \in BOOLEAN
    /\ grace_frames \in 0..GraceFrames
    /\ expected_sequence \in 0..MaxEvents
    /\ last_step \in 0..MaxSteps
    /\ event_count \in 0..(MaxEvents + 1)
    /\ log_bytes \in 0..(MaxLogBytes + 1)
    /\ checkpoints \in [1..MaxSteps -> Digests \cup {NoDigest}]
    /\ terminal \in {"none"} \cup TerminalKinds
    /\ outcome \in Outcomes
    /\ confirmed \subseteq 1..MaxSteps

\* A run ends as completed only after a start and an end event in sequence and
\* the end of the process, and never once the deadline cancelled it.  A loop
\* that has seen the runtime used up still accepts a completion in one case:
\* the token had been cancelled before.
CompletionEarned ==
    /\ outcome.status = "completed" =>
          /\ expected_sequence >= 2
          /\ exited
          /\ ~timed_out
          /\ sawDeadline => cancelled
    /\ outcome.status = "cancelled" /\ timed_out => outcome.error = "timed_out"

\* However run ends, with an outcome, with a failure of its own or with an
\* exception that passes through it, the workload's process has exited or was
\* terminated, unless the exception came out of next_frame or json.loads: then
\* it is left running, and the caller sees an invalid event or an exception that
\* is no RunnerFailure, never an outcome and never a deadline or a limit.
ProcessLeftOnlyByEscape ==
    pc = "done" =>
       /\ terminated \/ exited \/ escaped
       /\ escaped => outcome \in {[status |-> "failed", error |-> "invalid_event"],
                                 [status |-> "raised", error |-> "none"]}

\* Every recorded checkpoint is at the declared cadence and came after the
\* start, and every checkpoint event that was accepted is about one.
CheckpointsAtCadence ==
    /\ \A s \in 1..MaxSteps :
          checkpoints[s] # NoDigest =>
             /\ s % Interval = 0 \/ s = MaxSteps
             /\ expected_sequence >= 1
    /\ \A s \in confirmed : checkpoints[s] # NoDigest

\* A checkpoint, once recorded, is never replaced, and the steps reported
\* never go back.
ProgressIsMonotonic ==
    [][/\ \A s \in 1..MaxSteps :
             checkpoints[s] # NoDigest => checkpoints'[s] = checkpoints[s]
       /\ last_step' >= last_step
       /\ expected_sequence' \in {expected_sequence, expected_sequence + 1}]_vars

\* run always ends, even if the workload sends empty log frames forever and
\* nobody cancels it: the deadline and the grace period see to it.
RunEnds == <>(pc = "done")

=============================================================================
