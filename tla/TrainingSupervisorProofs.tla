----------------------- MODULE TrainingSupervisorProofs -----------------------
(***************************************************************************)
(* What TrainingSupervisor.run guarantees for every contract: any number   *)
(* of steps, any cadence, any limits and any workload.                     *)
(***************************************************************************)
EXTENDS TrainingSupervisor, TLAPS

\* The control state: an outcome exists exactly after the last step, a terminal
\* event follows a start, a cancellation request that is not the deadline's is
\* the token's, and the limits on logs and events hold while the loop runs.
Control ==
    /\ pc = "done" <=> outcome.status # "running"
    /\ pc # "done" => ~escaped
    /\ terminal # "none" => expected_sequence >= 2
    /\ timed_out => cancel_requested
    /\ cancel_requested /\ ~timed_out => cancelled
    /\ sawDeadline /\ ~timed_out => cancelled
    /\ expected_sequence <= event_count
    /\ pc # "done" => log_bytes <= MaxLogBytes /\ event_count <= MaxEvents

IInv ==
    /\ TypeOK
    /\ Control
    /\ CompletionEarned
    /\ ProcessLeftOnlyByEscape
    /\ CheckpointsAtCadence

\* The invariant holds at first.
LEMMA InitIInv == Init => IInv
  <1> SUFFICES ASSUME Init PROVE IInv
    OBVIOUS
  <1>1. outcome \in Outcomes /\ outcome.status = "running"
    BY DEF Init, Outcomes
  <1>2. checkpoints \in [1..MaxSteps -> Digests \cup {NoDigest}] /\ confirmed \subseteq 1..MaxSteps
    BY DEF Init
  <1>3. TypeOK
    <2>1. /\ cancelled \in BOOLEAN /\ cancel_requested \in BOOLEAN /\ timed_out \in BOOLEAN
          /\ terminated \in BOOLEAN /\ exited \in BOOLEAN
          /\ sawDeadline \in BOOLEAN /\ escaped \in BOOLEAN
      BY Zenon DEF Init
    <2>2. /\ clock = 0 /\ grace_frames = 0 /\ expected_sequence = 0 /\ last_step = 0
          /\ event_count = 0 /\ log_bytes = 0 /\ pc = "head" /\ terminal = "none"
      BY Zenon DEF Init
    <2> QED BY <1>1, <1>2, <2>1, <2>2, ContractAssumption DEF TypeOK
  <1>4. Control /\ CompletionEarned /\ ProcessLeftOnlyByEscape
    BY <1>1, ContractAssumption DEF Init, Control, CompletionEarned, ProcessLeftOnlyByEscape
  <1>5. CheckpointsAtCadence
    BY DEF Init, CheckpointsAtCadence
  <1> QED BY <1>3, <1>4, <1>5 DEF IInv

\* The steps of the loop that read the clock, the token and log frames.
LEMMA HeadStep ==
    ASSUME IInv, Tick \/ Cancel \/ CheckDeadline \/ CheckToken \/ NoFrame
    PROVE  IInv'
  <1> USE ContractAssumption
          DEF IInv, TypeOK, Control, CompletionEarned, ProcessLeftOnlyByEscape,
              CheckpointsAtCadence, inputs, control, progress
  <1>1. CASE Tick BY <1>1 DEF Tick
  <1>2. CASE Cancel BY <1>2 DEF Cancel
  <1>3. CASE CheckDeadline BY <1>3 DEF CheckDeadline
  <1>4. CASE CheckToken BY <1>4 DEF CheckToken
  <1>5. CASE NoFrame BY <1>5 DEF NoFrame
  <1> QED BY <1>1, <1>2, <1>3, <1>4, <1>5

\* A failure ends the loop and terminates the process.
LEMMA FailStep ==
    ASSUME NEW code \in ErrorCodes, Fail(code)
    PROVE  /\ outcome' \in Outcomes
           /\ outcome'.status = "failed"
           /\ pc' = "done" /\ terminated' = TRUE /\ escaped' = escaped
  BY DEF Fail, Ends, Outcomes

\* A step that fails the run, and changes at most the counters beside it.
LEMMA FailKeepsIInv ==
    ASSUME IInv, pc # "done", NEW code \in ErrorCodes, Fail(code),
           UNCHANGED <<inputs, control, progress, checkpoints, exited, sawDeadline>>,
           grace_frames' \in 0..GraceFrames,
           event_count' \in event_count..(MaxEvents + 1),
           log_bytes' \in 0..(MaxLogBytes + 1)
    PROVE  IInv'
  <1>1. outcome' \in Outcomes /\ outcome'.status = "failed" /\ pc' = "done" /\ terminated' = TRUE
        /\ escaped' = escaped /\ ~escaped
    BY FailStep DEF IInv, Control
  <1> QED
    BY <1>1 DEF IInv, TypeOK, Control, CompletionEarned, ProcessLeftOnlyByEscape,
        CheckpointsAtCadence, inputs, control, progress

\* A handled frame keeps the grace period's count within its limit.
LEMMA HandlesStep ==
    ASSUME IInv, Handles
    PROVE  /\ grace_frames' \in 0..GraceFrames
           /\ pc = "frame"
           /\ UNCHANGED <<inputs, control, exited, sawDeadline>>
  BY ContractAssumption DEF IInv, TypeOK, Control, Handles, GraceLeft

\* A log frame, within its limit or past it, keeps the invariant.
LEMMA LogFrameStep ==
    ASSUME IInv, NEW n \in 0..1, LogFrame(n)
    PROVE  IInv'
  <1> USE ContractAssumption
  <1>1. /\ grace_frames' \in 0..GraceFrames /\ pc = "frame"
        /\ UNCHANGED <<inputs, control, exited, sawDeadline, progress, event_count, checkpoints>>
        /\ log_bytes' = log_bytes + n
    BY HandlesStep DEF LogFrame
  <1>2. CASE log_bytes + n > MaxLogBytes /\ Fail("log_limit")
    <2>1. log_bytes' \in 0..(MaxLogBytes + 1) /\ event_count' \in event_count..(MaxEvents + 1)
      BY <1>1 DEF IInv, TypeOK, Control
    <2> QED BY <1>1, <1>2, <2>1, FailKeepsIInv DEF ErrorCodes
  <1>3. CASE log_bytes + n <= MaxLogBytes /\ Continues
    BY <1>1, <1>3
       DEF IInv, TypeOK, Control, CompletionEarned, ProcessLeftOnlyByEscape,
           CheckpointsAtCadence, inputs, control, progress, Continues
  <1> QED BY <1>2, <1>3 DEF LogFrame

\* A frame that records a checkpoint, or fails the run.
LEMMA CheckpointFrameStep ==
    ASSUME IInv, NEW step \in 1..(MaxSteps + 1), NEW d \in Digests, NEW oversized \in BOOLEAN,
           CheckpointFrame(step, d, oversized)
    PROVE  IInv'
  <1> USE ContractAssumption
  <1>1. /\ grace_frames' \in 0..GraceFrames /\ pc = "frame"
        /\ UNCHANGED <<inputs, control, exited, sawDeadline, progress, event_count, log_bytes>>
    BY HandlesStep DEF CheckpointFrame
  <1>2. event_count' \in event_count..(MaxEvents + 1) /\ log_bytes' \in 0..(MaxLogBytes + 1)
    BY <1>1 DEF IInv, TypeOK
  <1>3. CASE /\ UNCHANGED checkpoints
             /\ \/ Fail("invalid_event") \/ Fail("checkpoint_limit") \/ Fail("checkpoint_failed")
    BY <1>1, <1>2, <1>3, FailKeepsIInv DEF ErrorCodes
  <1>4. CASE /\ expected_sequence # 0 /\ AtCadence(step)
             /\ checkpoints' = [checkpoints EXCEPT ![step] = d]
             /\ Continues
    <2>1. step \in 1..MaxSteps /\ (step % Interval = 0 \/ step = MaxSteps)
      BY <1>4 DEF AtCadence
    <2>2. expected_sequence' = expected_sequence /\ expected_sequence >= 1 /\ confirmed' = confirmed
      BY <1>1, <1>4 DEF IInv, TypeOK, progress
    <2>3. checkpoints' \in [1..MaxSteps -> Digests \cup {NoDigest}]
      BY <1>4 DEF IInv, TypeOK
    <2>4. \A s \in 1..MaxSteps : checkpoints'[s] = IF s = step THEN d ELSE checkpoints[s]
      BY <1>4 DEF IInv, TypeOK
    <2>5. CheckpointsAtCadence'
      BY <2>1, <2>2, <2>4 DEF IInv, TypeOK, CheckpointsAtCadence
    <2> QED
      BY <1>1, <1>4, <2>3, <2>5
         DEF IInv, TypeOK, Control, CompletionEarned, ProcessLeftOnlyByEscape,
             inputs, control, progress, Continues
  <1> QED BY <1>3, <1>4, Zenon DEF CheckpointFrame

\* Event frames that end the run.
LEMMA EventFailsStep ==
    ASSUME IInv,
           EventLimit \/ MalformedEvent \/ \E e \in Events : RefusedEvent(e)
    PROVE  IInv'
  <1> USE ContractAssumption
  <1>1. /\ Handles /\ event_count' = event_count + 1
        /\ UNCHANGED <<progress, log_bytes, checkpoints>>
        /\ Fail("event_limit") \/ Fail("invalid_event")
    BY DEF EventLimit, MalformedEvent, RefusedEvent, CountsEvent
  <1>2. /\ grace_frames' \in 0..GraceFrames /\ pc = "frame"
        /\ UNCHANGED <<inputs, control, exited, sawDeadline>>
    BY <1>1, HandlesStep
  <1>3. event_count' \in event_count..(MaxEvents + 1) /\ log_bytes' \in 0..(MaxLogBytes + 1)
    BY <1>1, <1>2 DEF IInv, TypeOK, Control
  <1> QED BY <1>1, <1>2, <1>3, FailKeepsIInv DEF ErrorCodes

\* An exception that passes through run keeps the invariant: the process is left
\* alone, and the caller gets no outcome.
LEMMA EscapeKeepsIInv ==
    ASSUME IInv, pc # "done",
           Escapes("failed", "invalid_event") \/ Escapes("raised", "none"),
           UNCHANGED <<inputs, control, progress, checkpoints, exited, sawDeadline, log_bytes>>,
           grace_frames' \in 0..GraceFrames,
           event_count' \in event_count..(MaxEvents + 1)
    PROVE  IInv'
  <1>1. /\ outcome' \in {[status |-> "failed", error |-> "invalid_event"],
                         [status |-> "raised", error |-> "none"]}
        /\ pc' = "done" /\ escaped' = TRUE /\ terminated' = terminated
    BY DEF Escapes, Ends
  <1>2. outcome' \in Outcomes /\ outcome'.status \in {"failed", "raised"}
    BY <1>1 DEF Outcomes, ErrorCodes
  <1>3. ProcessLeftOnlyByEscape'
    BY <1>1, Zenon DEF ProcessLeftOnlyByEscape
  <1> QED
    BY <1>1, <1>2, <1>3, ContractAssumption
       DEF IInv, TypeOK, Control, CompletionEarned, CheckpointsAtCadence,
           inputs, control, progress

\* A frame that the transport cannot build, and an event that cannot be decoded.
LEMMA EscapeStep ==
    ASSUME IInv, FrameRefused \/ UndecodableEvent
    PROVE  IInv'
  <1> USE ContractAssumption
  <1>1. CASE FrameRefused
    <2>1. /\ pc = "frame"
          /\ Escapes("failed", "invalid_event") \/ Escapes("raised", "none")
          /\ UNCHANGED <<inputs, control, grace_frames, progress, event_count, log_bytes,
                         checkpoints, exited, sawDeadline>>
      BY <1>1 DEF FrameRefused
    <2>2. grace_frames' \in 0..GraceFrames /\ event_count' \in event_count..(MaxEvents + 1)
      BY <2>1 DEF IInv, TypeOK
    <2> QED BY <2>1, <2>2, EscapeKeepsIInv
  <1>2. CASE UndecodableEvent
    <2>1. /\ Handles /\ event_count' = event_count + 1 /\ event_count + 1 <= MaxEvents
          /\ UNCHANGED <<progress, log_bytes, checkpoints>> /\ Escapes("raised", "none")
      BY <1>2 DEF UndecodableEvent, CountsEvent
    <2>2. /\ grace_frames' \in 0..GraceFrames /\ pc = "frame"
          /\ UNCHANGED <<inputs, control, exited, sawDeadline>>
      BY <2>1, HandlesStep
    <2>3. event_count' \in event_count..(MaxEvents + 1)
      BY <2>1 DEF IInv, TypeOK
    <2> QED BY <2>1, <2>2, <2>3, EscapeKeepsIInv
  <1> QED BY <1>1, <1>2

\* An event that is accepted keeps the invariant.
LEMMA AcceptedStep ==
    ASSUME IInv, NEW e \in Events, AcceptedEvent(e)
    PROVE  IInv'
  <1> USE ContractAssumption
  <1>1. /\ Handles /\ event_count' = event_count + 1 /\ event_count + 1 <= MaxEvents
        /\ Acceptable(e)
        /\ UNCHANGED <<log_bytes, checkpoints, terminated, outcome, escaped>>
        /\ expected_sequence' = expected_sequence + 1
        /\ last_step' = e.step
        /\ confirmed' = confirmed \cup (IF e.kind = "checkpointed" THEN {e.step} ELSE {})
        /\ terminal' = IF e.kind \in TerminalKinds THEN e.kind ELSE "none"
        /\ pc' = IF e.kind \in TerminalKinds THEN "wait" ELSE "head"
    BY Zenon DEF AcceptedEvent, CountsEvent
  <1>2. /\ grace_frames' \in 0..GraceFrames /\ pc = "frame"
        /\ UNCHANGED <<inputs, control, exited, sawDeadline>>
    BY <1>1, HandlesStep
  <1>3. /\ e.kind \in EventKinds /\ e.step \in 0..(MaxSteps + 1)
        /\ e.output_digest \in Digests \cup {NoDigest}
        /\ e.kind = "checkpointed" => e.output_digest # NoDigest
    BY DEF Events
  <1>4. /\ e.step \in 0..MaxSteps
        /\ e.kind = "started" <=> expected_sequence = 0
        /\ e.kind = "checkpointed" => e.step \in 1..MaxSteps /\ checkpoints[e.step] # NoDigest
    BY <1>1, <1>3 DEF Acceptable
  <1>5. e.kind \in TerminalKinds => expected_sequence' >= 2
    BY <1>1, <1>4 DEF TerminalKinds, IInv, TypeOK
  <1>6. TypeOK'
    <2>1. confirmed' \subseteq 1..MaxSteps
      BY <1>1, <1>4 DEF IInv, TypeOK
    <2>2. terminal' \in {"none"} \cup TerminalKinds /\ pc' \in {"head", "frame", "wait", "done"}
      BY <1>1
    <2>3. expected_sequence' \in 0..MaxEvents /\ event_count' \in 0..(MaxEvents + 1)
      BY <1>1 DEF IInv, TypeOK, Control
    <2> QED
      BY <1>1, <1>2, <1>4, <2>1, <2>2, <2>3 DEF IInv, TypeOK, inputs, control
  <1>7. Control'
    BY <1>1, <1>2, <1>5 DEF IInv, TypeOK, Control, inputs, control, TerminalKinds
  <1>8. CheckpointsAtCadence'
    BY <1>1, <1>4 DEF IInv, TypeOK, CheckpointsAtCadence
  <1>9. CompletionEarned' /\ ProcessLeftOnlyByEscape'
    BY <1>1, <1>2 DEF IInv, TypeOK, Control, CompletionEarned, ProcessLeftOnlyByEscape, inputs, control
  <1> QED BY <1>6, <1>7, <1>8, <1>9 DEF IInv

\* The end of the run, with or without an exit code.
LEMMA EndStep ==
    ASSUME IInv, IgnoresCancel \/ WaitFails
    PROVE  IInv'
  <1>1. /\ pc # "done"
        /\ Fail("timed_out") \/ Fail("cancellation_ignored") \/ Fail("process_failed")
        /\ UNCHANGED <<inputs, control, grace_frames, progress, event_count, log_bytes,
                       checkpoints, exited, sawDeadline>>
    BY DEF IgnoresCancel, WaitFails
  <1>2. /\ grace_frames' \in 0..GraceFrames
        /\ event_count' \in event_count..(MaxEvents + 1) /\ log_bytes' \in 0..(MaxLogBytes + 1)
    BY <1>1, ContractAssumption DEF IInv, TypeOK
  <1> QED BY <1>1, <1>2, FailKeepsIInv DEF ErrorCodes

\* The verdict on a process that ended keeps the invariant.
LEMMA VerdictStep ==
    ASSUME IInv, NEW exit_code \in {0, 1}, WaitReturns(exit_code)
    PROVE  IInv'
  <1>1. /\ exited' = TRUE /\ pc = "wait"
        /\ UNCHANGED <<inputs, control, grace_frames, progress, event_count, log_bytes,
                       checkpoints, terminated, sawDeadline, escaped>>
        /\ ~escaped
    BY DEF WaitReturns, IInv, Control
  <1>2. /\ pc' = "done"
        /\ \/ outcome' = [status |-> "failed", error |-> "timed_out"]
           \/ outcome' = [status |-> "failed", error |-> "process_failed"]
           \/ outcome' = [status |-> "cancelled", error |-> IF timed_out THEN "timed_out" ELSE "none"]
           \/ /\ outcome' = [status |-> "completed", error |-> "none"]
              /\ terminal = "completed" /\ ~timed_out
    BY DEF WaitReturns, Verdict, Ends, IInv, TypeOK, TerminalKinds
  <1>3. /\ outcome' \in Outcomes
        /\ outcome'.status # "running"
        /\ outcome'.status = "completed" => terminal = "completed" /\ ~timed_out
        /\ outcome'.status = "cancelled" /\ timed_out => outcome'.error = "timed_out"
    BY <1>2 DEF Outcomes, ErrorCodes
  <1> QED
    BY <1>1, <1>2, <1>3, ContractAssumption
       DEF IInv, TypeOK, Control, CompletionEarned, ProcessLeftOnlyByEscape,
           CheckpointsAtCadence, inputs, control, progress

\* Every step keeps the inductive invariant.
LEMMA NextIInv == IInv /\ [Next]_vars => IInv'
  <1> SUFFICES ASSUME IInv, [Next]_vars PROVE IInv'
    OBVIOUS
  <1>1. CASE UNCHANGED vars
    BY <1>1 DEF vars, IInv, TypeOK, Control, CompletionEarned, ProcessLeftOnlyByEscape,
                CheckpointsAtCadence, inputs, control, progress
  <1>2. CASE Tick \/ Cancel
    BY <1>2, HeadStep
  <1>3. CASE SupervisorStep
    BY <1>3, HeadStep, EndStep, LogFrameStep, CheckpointFrameStep, EventFailsStep,
       EscapeStep, AcceptedStep, VerdictStep DEF SupervisorStep
  <1> QED BY <1>1, <1>2, <1>3 DEF Next, Done

-----------------------------------------------------------------------------
\* Whatever the workload sends and however the clock and the token move, the
\* state of the loop keeps its type: the counters stay within the contract.
THEOREM TypeCorrect == Spec => []TypeOK
  <1>1. IInv => TypeOK BY DEF IInv
  <1> QED BY InitIInv, NextIInv, <1>1, PTL DEF Spec

\* A run is completed only by a workload that announced its start and its end,
\* whose process has ended, and never after its deadline cancelled it.
THEOREM CompletionIsEarned == Spec => []CompletionEarned
  <1>1. IInv => CompletionEarned BY DEF IInv
  <1> QED BY InitIInv, NextIInv, <1>1, PTL DEF Spec

\* However run ends, the workload's process has exited or was terminated, unless
\* an exception of next_frame or of json.loads passed through run; and then the
\* caller gets no outcome.
THEOREM EndStopsProcess == Spec => []ProcessLeftOnlyByEscape
  <1>1. IInv => ProcessLeftOnlyByEscape BY DEF IInv
  <1> QED BY InitIInv, NextIInv, <1>1, PTL DEF Spec

\* For every interval and number of steps, only checkpoints at the cadence and
\* after the start are recorded, and only recorded ones are confirmed.
THEOREM CadenceKept == Spec => []CheckpointsAtCadence
  <1>1. IInv => CheckpointsAtCadence BY DEF IInv
  <1> QED BY InitIInv, NextIInv, <1>1, PTL DEF Spec

\* A recorded checkpoint stays what it is, and steps and sequence numbers never
\* go back.
THEOREM ProgressKept == Spec => ProgressIsMonotonic
  <1> DEFINE Kept == /\ \A s \in 1..MaxSteps :
                           checkpoints[s] # NoDigest => checkpoints'[s] = checkpoints[s]
                     /\ last_step' >= last_step
                     /\ expected_sequence' \in {expected_sequence, expected_sequence + 1}
  <1>1. ASSUME IInv, [Next]_vars PROVE [Kept]_vars
    <2> SUFFICES ASSUME Next PROVE Kept
      BY <1>1
    <2>1. last_step \in Nat /\ expected_sequence \in Nat
      BY <1>1 DEF IInv, TypeOK
    <2>2. ASSUME UNCHANGED progress, UNCHANGED checkpoints PROVE Kept
      BY <2>1, <2>2 DEF progress
    <2>3. ASSUME NEW step \in 1..(MaxSteps + 1), NEW d \in Digests, NEW oversized \in BOOLEAN,
                 CheckpointFrame(step, d, oversized)
          PROVE  Kept
      <3>1. UNCHANGED progress
        BY <2>3 DEF CheckpointFrame
      <3>2. CASE UNCHANGED checkpoints
        BY <2>2, <3>1, <3>2
      <3>3. CASE checkpoints[step] = NoDigest /\ checkpoints' = [checkpoints EXCEPT ![step] = d]
        BY <1>1, <2>1, <3>1, <3>3 DEF progress, IInv, TypeOK
      <3> QED BY <2>3, <3>2, <3>3, Zenon DEF CheckpointFrame
    <2>4. ASSUME NEW e \in Events, AcceptedEvent(e) PROVE Kept
      BY <2>1, <2>4 DEF AcceptedEvent, CountsEvent, Acceptable, Events
    <2>5. CASE \/ Tick \/ Cancel \/ CheckDeadline \/ CheckToken \/ NoFrame \/ FrameRefused
               \/ IgnoresCancel \/ WaitFails \/ Done \/ \E exit_code \in {0, 1} : WaitReturns(exit_code)
      BY <2>2, <2>5 DEF Tick, Cancel, CheckDeadline, CheckToken, NoFrame, IgnoresCancel,
                        FrameRefused, WaitFails, Done, WaitReturns, vars
    <2>6. CASE \/ \E n \in 0..1 : LogFrame(n)
               \/ EventLimit \/ MalformedEvent \/ UndecodableEvent
               \/ \E e \in Events : RefusedEvent(e)
      BY <2>2, <2>6 DEF LogFrame, EventLimit, MalformedEvent, UndecodableEvent, RefusedEvent,
                        CountsEvent
    <2> QED BY <2>3, <2>4, <2>5, <2>6 DEF Next, SupervisorStep
  <1> QED BY InitIInv, NextIInv, <1>1, PTL DEF Spec, ProgressIsMonotonic
=============================================================================
