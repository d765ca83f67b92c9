----------------------------- MODULE Performance -----------------------------
(***************************************************************************)
(* Useful-work measurement (performance.py) and the throughput envelope    *)
(* (baseline.py): measure reads the intervals of a run one by one, derives *)
(* the accepted units and the active time, and assess_baseline compares    *)
(* their rate with a reviewed profile.                                     *)
(*                                                                         *)
(* The intervals come from the miner: any sequence of values the           *)
(* constructor of WorkInterval admits.  One call of measure is a sequence  *)
(* of steps, one per interval.                                             *)
(***************************************************************************)
EXTENDS Integers, FiniteSets, SequencesExt, Gates

CONSTANTS
    Intervals,          \* the intervals a run may hold, see IsInterval
    MaxIntervals,       \* _MAX_INTERVALS
    Runs,               \* the fetch_ns, setup_ns and validator_observed_ns of runs
    BatchesPerStep,     \* policy.batches_per_step
    UnitsPerBatch,      \* global_batch_size times the units of one sample
    MinimumWarmup,      \* policy.minimum_warmup_steps
    MinimumActive,      \* policy.minimum_active_steps
    MaximumInterval,    \* policy.maximum_interval_ns
    MaximumActive,      \* policy.maximum_active_ns
    MaximumCheckpoint,  \* policy.maximum_checkpoint_ns
    MaximumSetup,       \* policy.maximum_setup_ns
    MaximumObserved,    \* policy.maximum_validator_observed_ns
    MaximumUnits,       \* _MAX_INTEGER
    RateScale,          \* 1_000 * _NANOSECONDS_PER_SECOND
    Lower, Upper        \* the envelope of the reviewed profile

VARIABLES
    run,        \* what a run says beside its intervals
    seen,       \* the intervals that passed
    loop,       \* the local variables of measure's loop
    result,     \* what measure returned or raised
    decision    \* what assess_baseline made of it

vars == <<run, seen, loop, result, decision>>

\* None, in the local variables.
None == -1

\* WorkInterval.__post_init__.  inSequence: sequence is its position in the run.
IsInterval(i) ==
    /\ i.phase \in {"warmup", "active", "checkpoint"}
    /\ i.start \in Nat /\ i.end \in Nat /\ i.start < i.end
    /\ {i.inSequence, i.synchronized, i.complete} \subseteq BOOLEAN
    /\ IF i.phase = "checkpoint" THEN i.first = 0 /\ i.last = 0 /\ i.batches = 0
       ELSE {i.first, i.last, i.batches} \subseteq Nat \ {0} /\ i.first <= i.last

\* PerformancePolicy.__post_init__
PolicyIsValid ==
    /\ Runs \subseteq [fetch : Nat, setup : Nat, observed : Nat \ {0}]
    /\ {MinimumWarmup, MaximumCheckpoint, MaximumSetup} \subseteq Nat
    /\ {MaxIntervals, BatchesPerStep, UnitsPerBatch, MinimumActive, MaximumInterval,
        MaximumActive, MaximumObserved, MaximumUnits, RateScale} \subseteq Nat \ {0}
    /\ MaximumInterval <= MaximumActive

\* BaselineProfile.__post_init__
ProfileIsValid == {Lower, Upper} \subseteq Nat \ {0} /\ Lower <= Upper

ASSUME IntervalsAssumption == \A i \in Intervals : IsInterval(i)
ASSUME PolicyAssumption == PolicyIsValid /\ ProfileIsValid

-----------------------------------------------------------------------------
(* Time and work                                                            *)

Duration(i) == i.end - i.start

\* The sum of a sequence of numbers.
Total(numbers) ==
    LET sum[n \in 0..Len(numbers)] == IF n = 0 THEN 0 ELSE sum[n - 1] + numbers[n]
    IN  sum[Len(numbers)]

\* The time of the intervals of a sequence that count, one number for each.
Times(intervals, counting) ==
    [n \in 1..Len(intervals) |->
        IF intervals[n] \in counting THEN Duration(intervals[n]) ELSE 0]

Steps(i) == i.last - i.first + 1

\* Variant of ExcludedInside: checkpoints after the last active interval too.
ExcludedInsideOrAfter == Total(Times(loop.checkpoints, Intervals))

\* checkpoint_ns
CheckpointTime == Total(Times(loop.checkpoints, Intervals))

InsideActive ==
    {i \in Intervals : loop.firstActive <= i.start /\ i.end <= loop.lastActive}

\* active_checkpoint_ns
ExcludedInside == Total(Times(loop.checkpoints, InsideActive))

ActiveTime == loop.lastActive - loop.firstActive - ExcludedInside

\* required_observer_ns; the intervals are in order, so the last ends last.
RequiredTime == run.fetch + run.setup + Last(seen).end - seen[1].start

AcceptedUnits == loop.activeBatches * UnitsPerBatch

\* Variant of Rate: rounded to the nearest.
RateRounded(units, time) == (2 * units * RateScale + time) \div (2 * time)

Rate(units, time) == (units * RateScale) \div time

-----------------------------------------------------------------------------
(* PerformanceVerifier.measure                                              *)

EmptyLoop ==
    [previousEnd |-> None, previousStep |-> None, activeStarted |-> FALSE,
     firstActive |-> None, lastActive |-> None, warmupSteps |-> 0,
     activeSteps |-> 0, activeBatches |-> 0, warmupTime |-> 0, checkpoints |-> << >>]

Unmeasured(reason) ==
    [reason |-> reason, units |-> 0, active |-> 0, excluded |-> 0, rate |-> 0]

\* The loop is running; a PerformanceFailure was raised.
Pending == Unmeasured("pending")
Failed(reason) == Unmeasured(reason)

\* A call for a run of this lease and this workload; one that is not fails here.
Begin(r, matches) ==
    /\ result.reason # "pending"
    /\ run' = r
    /\ seen' = << >>
    /\ loop' = EmptyLoop
    /\ decision' = "none"
    /\ LET gates == << Gate("identity_mismatch", matches # "other lease"),
                       Gate("metadata_mismatch", matches # "other workload"),
                       Gate("timer_invalid", r.fetch + r.setup <= MaximumSetup) >>
       IN  result' = IF AllPass(gates) THEN Pending ELSE Failed(FirstFailure(gates))

TimingGates(i) ==
    << Gate("timer_invalid", i.inSequence),
       Gate("timer_invalid", Duration(i) <= MaximumInterval),
       Gate("timer_invalid", loop.previousEnd # None => i.start >= loop.previousEnd),
       Gate("partial_result", i.complete),
       Gate("sync_missing", i.synchronized) >>

\* Variant of WorkGates: steps may be claimed again.
WorkGatesRepeated(i) ==
    << Gate("batch_inflation", i.batches = Steps(i) * BatchesPerStep),
       Gate("timer_invalid", i.phase = "warmup" => ~loop.activeStarted) >>

WorkGates(i) ==
    << Gate("partial_result",
            loop.previousStep # None => i.first = loop.previousStep + 1),
       Gate("batch_inflation", i.batches = Steps(i) * BatchesPerStep),
       Gate("timer_invalid", i.phase = "warmup" => ~loop.activeStarted) >>

IntervalGates(i) ==
    TimingGates(i) \o IF i.phase = "checkpoint"
                      THEN << Gate("timer_invalid", loop.activeStarted) >>
                      ELSE WorkGates(i)

\* The next interval of the run is read.
ReadNext(i) ==
    /\ result.reason = "pending"
    /\ Len(seen) < MaxIntervals
    /\ UNCHANGED <<run, decision>>

RejectInterval(i) ==
    /\ ReadNext(i)
    /\ ~AllPass(IntervalGates(i))
    /\ result' = Failed(FirstFailure(IntervalGates(i)))
    /\ UNCHANGED <<seen, loop>>

ReadCheckpoint(i) ==
    /\ ReadNext(i)
    /\ i.phase = "checkpoint"
    /\ AllPass(IntervalGates(i))
    /\ seen' = Append(seen, i)
    /\ loop' = [loop EXCEPT !.previousEnd = i.end, !.checkpoints = Append(@, i)]
    /\ UNCHANGED result

ReadWarmup(i) ==
    /\ ReadNext(i)
    /\ i.phase = "warmup"
    /\ AllPass(IntervalGates(i))
    /\ seen' = Append(seen, i)
    /\ loop' = [loop EXCEPT !.previousEnd = i.end, !.previousStep = i.last,
                            !.warmupSteps = @ + Steps(i), !.warmupTime = @ + Duration(i)]
    /\ UNCHANGED result

ReadActive(i) ==
    /\ ReadNext(i)
    /\ i.phase = "active"
    /\ AllPass(IntervalGates(i))
    /\ seen' = Append(seen, i)
    /\ loop' = [loop EXCEPT !.previousEnd = i.end, !.previousStep = i.last,
                            !.activeStarted = TRUE,
                            !.activeSteps = @ + Steps(i), !.activeBatches = @ + i.batches,
                            !.firstActive = IF @ = None THEN i.start ELSE @,
                            !.lastActive = i.end]
    /\ UNCHANGED result

FinalGates ==
    << Gate("warmup_insufficient", loop.warmupSteps >= MinimumWarmup),
       Gate("work_insufficient", loop.activeSteps >= MinimumActive),
       Gate("timer_invalid", CheckpointTime <= MaximumCheckpoint),
       Gate("timer_invalid", ActiveTime \in 1..MaximumActive),
       Gate("observer_bound", RequiredTime <= run.observed /\ run.observed <= MaximumObserved),
       Gate("invalid", AcceptedUnits \in 1..MaximumUnits) >>

\* The loop is over.  A run has at least one interval.
Conclude ==
    /\ result.reason = "pending"
    /\ seen # << >>
    /\ result' =
          IF ~AllPass(FinalGates) THEN Failed(FirstFailure(FinalGates))
          ELSE [reason |-> "measured", units |-> AcceptedUnits, active |-> ActiveTime,
                excluded |-> run.fetch + run.setup + loop.warmupTime + CheckpointTime,
                rate |-> Rate(AcceptedUnits, ActiveTime)]
    /\ UNCHANGED <<run, seen, loop, decision>>

\* assess_baseline; profiled: an H100 without MIG, and a reviewed profile of the
\* required version for this workload, class, count, precision, unit and shape.
Assess(profiled) ==
    /\ result.reason = "measured"
    /\ decision = "none"
    /\ decision' = CASE ~profiled            -> "unprofiled"
                     [] profiled /\ result.rate > Upper -> "impossible"
                     [] profiled /\ result.rate < Lower -> "slow_review"
                     [] OTHER                -> "plausible"
    /\ UNCHANGED <<run, seen, loop, result>>

-----------------------------------------------------------------------------
Init ==
    /\ run \in Runs
    /\ seen = << >>
    /\ loop = EmptyLoop
    /\ result = Failed("none")
    /\ decision = "none"

Next ==
    \/ \E r \in Runs, m \in {"this run", "other lease", "other workload"} : Begin(r, m)
    \/ \E i \in Intervals :
          RejectInterval(i) \/ ReadCheckpoint(i) \/ ReadWarmup(i) \/ ReadActive(i)
    \/ Conclude
    \/ \E profiled \in BOOLEAN : Assess(profiled)

Spec == Init /\ [][Next]_vars

-----------------------------------------------------------------------------
(* Properties                                                               *)

Measured == result.reason = "measured"

ActiveIntervals == {i \in Intervals : i.phase = "active"}

\* The steps done in the active intervals of the run.
StepsDone == UNION {i.first..i.last : i \in Range(seen) \cap ActiveIntervals}

\* No time is counted twice and no active time is left out: active and excluded
\* time fit into what the validator observed, and the active time, by which the
\* rate is divided, covers every active interval of the run.
TimeAccounted ==
    Measured =>
        /\ result.active + result.excluded <= run.observed
        /\ result.active >= Total(Times(seen, ActiveIntervals))

\* The accepted units are those of the steps done in active intervals, each step
\* counted once, however the run cuts its steps into intervals.
StepsCountedOnce ==
    Measured => result.units = Cardinality(StepsDone) * BatchesPerStep * UnitsPerBatch

\* The integer rate decides as the exact one would, up to the unit it cuts off:
\* what is called impossible exceeds the envelope, what is called slow is below
\* it, and what is called plausible is in it or less than one unit above.
DecisionIsExact ==
    LET work == result.units * RateScale IN
    /\ decision = "impossible"  => work > Upper * result.active
    /\ decision = "slow_review" => work < Lower * result.active
    /\ decision = "plausible"   => /\ work >= Lower * result.active
                                   /\ work < (Upper + 1) * result.active

=============================================================================
