# gpuforge: formal model

TLA+ models of gpuforge, the TLC runs that check them on small instances, and
proofs, checked by TLAPS, for every value of the constants. Line numbers are
those of `src/src/gpuforge/` at the modelled commit; `PROJECT.json` maps every
definition to the lines it stands for.

## 1. The system

gpuforge is the library of a GPU-compute subnet. A *publisher* packages a job
as a signed manifest; a *validator* leases it to a *miner*; the miner fetches
artifacts, runs the workload in a container, and submits evidence; the
validator checks signatures, freshness, lease binding, attestation, a hidden
challenge, correctness probes and performance plausibility, and signs a
receipt. Everything is synchronous Python in one process per role: there are no
threads. What makes it hard is the environment: processes end anywhere, writes
fail, the network repeats and reorders messages, the chain's block and the wall
clock move between any two steps, and the workload is not trusted.

| Component | State it keeps | Operations | Hard part | What makes it correct |
|---|---|---|---|---|
| Lease store (`lease.py`) | map of records and its snapshot on disk | `offer`, `transition`, `claim_execution`, `claim_evidence_submission`, load | crash around `os.replace`, failed write, deadline, byte and record limits | a claim is granted at most once over all processes; the snapshot is always loadable; records only move forward |
| Replay cache (`replay.py`) | token -> expiry block, scope -> last sequence, one file | `accept_once`, `accept_sequence`, `accept_once_with_sequence`, load | purge, rollback, crash, limits | no unexpired token twice; sequence numbers increase; decisions survive restarts |
| Message authentication (`identity.py`, `protocol.py`) | none of its own, uses the cache | `authenticate` | repeated and reordered delivery at the edge of the window | a message is accepted at most once, ever; evidence in order, with its number or not at all |
| Training supervisor (`runner.py`) | loop variables of `run`, the process | frames, deadline, cancellation, wait | workload sends anything, deadline races completion | a completion is earned; a process is left only where an exception passes through `run`; `run` ends |
| Artifacts (`artifacts.py`) | content-addressed files, partial files | `store`, `open_read`, `fetch_verified` | crash, truncated or corrupt transfer, resume | a destination only ever holds verified content |
| Challenges (`challenge.py`) | consumed commitments | commit, reveal, `verify` | consumed once, capacity, restart | a reveal counts once and only for its lease; nothing made up before it counts |
| Validation (`validation.py`, `evidence.py`) | none | `validate` | order of the gates, failing dependency | accepted only if every gate passed |
| Attestation (`attestation.py`, `nvidia_attestation.py`) | none; a collateral cache in memory that nothing calls | `verify`, cache put/get | replayed evidence, time passing while `nvattest` runs, failing tools | no tier without every fact, for every GPU, about this request, and none that is out of date by more than the timeout |
| Correctness (`correctness.py`) | none | challenge generation, Merkle root, `verify` | rejection sampling, odd levels, decimals longer than the context's precision | equal roots mean equal checkpoints; fair samples; every requested value compared |
| Performance, baselines (`performance.py`, `baseline.py`) | none | `measure`, `assess_baseline` | overlapping, repeated or missing intervals, rounding | each step counted once, no time hidden |
| Sandbox (`sandbox.py`) | the client process; the container is the engine's | `run`, `_force_remove` | an engine that answers late, with an error or never | `run` returns; no container is left without a fault |
| Publisher (`publisher.py`) | a temporary file and the destination | `package_job`, `write_manifest` | files that change while they are read, a crash while writing, two publishers | the manifest describes the files; the destination is whole |
| Capability, configuration, CLI, redaction | none | normalising, parsing, printing | none | deterministic output |

Interactions: `authenticate` calls the signature verifier, `validate_freshness`
and one operation of the replay cache; the miner moves a lease through the
store while it fetches artifacts and runs the supervisor, and asks the store
for the right to execute and to submit; validation calls the challenge guard
and the correctness check through injected callables, after the attestation
decision.

## 2. Modules

| Module | Models | Runs |
|---|---|---|
| `LeaseStore` (+ `MCLeaseStore`) | `lease.py` | `lease_store` |
| `LeaseContract` | the abstract promise of the store | property `ImplementsContract` |
| `LeaseStoreProofs` | theorems about `LeaseStore` | |
| `ReplayCache` (+ `MCReplayCache`) | `replay.py` | `replay_cache`, `replay_too_large` |
| `MessageAuthenticator` (+ `MC...`) | `identity.py`, composed with `ReplayCache` by EXTENDS | `message_authenticator` |
| `TrainingSupervisor` (+ `MC...`) | `TrainingSupervisor.run` | `training_supervisor` |
| `TrainingSupervisorProofs` | theorems about `TrainingSupervisor` | |
| `ArtifactTransfer` (+ `MC...`) | `artifacts.py` | `artifact_transfer` |
| `ArtifactTransferProofs` | theorems about `ArtifactTransfer` | |
| `ChallengeVerifier` | `challenge.py` | through `Validation` |
| `Validation` (+ `MC...`) | `validation.py`, composed with `ChallengeVerifier` by EXTENDS | `validation` |
| `Performance` (+ `MC...`) | `performance.py`, `baseline.py` | `performance` |
| `VerdictProofs` | theorems about `Validation` and `Performance` | |
| `Gates` | ordered checks with a reason each, used by the verifiers | |
| `ReplayCacheProofs` | theorems about `ReplayCache` and `MessageAuthenticator` | |
| `Attestation` (+ `MC...`) | `attestation.py` with the backend of `nvidia_attestation.py` | `attestation` |
| `AttestationProofs` | theorems about `Attestation` | |
| `Sandbox` (+ `MC...`) | `sandbox.py` and the engine's side of it | `sandbox` |
| `SandboxProofs` | theorems about `Sandbox` | |
| `Correctness` (+ `MC...`) | `correctness.py` | `correctness` |
| `Publisher` (+ `MC...`) | `publisher.py` and the file system under it | `publisher` |
| `Sorting` | Python's `sorted`, by the rank of each element; used by `Publisher` and `Correctness` | |
| `CommitmentProofs` | theorems about `Publisher` and `Correctness` | |

Definitions named in a comment *Variant of X* are deliberately wrong forms of X:
replacing X by its variant must break the property it is paired with in
`PROJECT.json`. No specification uses them.

### LeaseStore

`records` is `_records`, `file` the snapshot, `up` whether a process holds the
store; `executions` and `submissions` count the answers True, and are history.
Each operation is one action, because the process has one thread, and contains
its whole course: the early returns, `dataclasses.replace` with the validation
of `__post_init__` (which refuses, for instance, a revision past its limit),
the byte limit of `_persist`, a failed write, the end of the process after
`os.replace` and the normal return. A temporary file is never read back, so the
end of the process before `os.replace` is `Crash`. Sizes are those of the JSON:
what varies with the state, the flags and the failure code is counted, the rest
is a constant.

`LeaseContract` knows phases only (absent, pending, executing, completed,
submitted, closed) and says that a claim is consumed in one step whose winner is
told at most once. The refinement mapping reads the phase from the record on
*disk*, so a crash is a stuttering step.

### ReplayCache and MessageAuthenticator

Both maps have the value `Absent` for a key that is not in them. The three calls
differ in what they undo: `accept_once` keeps its purge when it refuses,
`accept_once_with_sequence` restores it; `Persist` takes the maps its caller
restores. An `OSError` of `mkdir` is not caught by any of them and is an outcome
of its own. SHA-256 is taken to be free of collisions. The history variables
count acceptances of a token that has not expired.

`MessageAuthenticator` adds messages (the fields authentication reads), the
freshness window and the call of the cache. The network is the set of all
messages: any of them may be delivered at any time, any number of times. The token of
evidence is its content digest, so it determines the lease and the number
(`DigestAssumption`).

### TrainingSupervisor

`pc` splits one turn of the loop where time or the token may move: before the
check, before the frame, before the wait. Frames are chosen freely, including
malformed, oversized and undecodable ones. Log lengths are counted in units of
one frame (an empty frame is allowed), time in ticks that stop at the limit,
because the code compares it with the limit only. A
checkpoint event must name a stored checkpoint; a stored checkpoint without an
event is part of the outcome all the same, as in the code. Most failures stop the
process first (`Fail`). Two exceptions pass through `run` without doing so
(`Escapes`, recorded in the history `escaped`): the refusal of a frame by
`RunnerFrame`, inside a call of `next_frame` that no handler encloses
(`FrameRefused`, lines 208-218 and 312), and an error of `json.loads` that
`from_bytes` does not translate (`UndecodableEvent`, line 172).

### ArtifactTransfer

The loop of `fetch_verified` is split at `pc` where the process may die: before
the attempt, while chunks are copied, before the hash. `partial` is the partial
file with its content, `source` what the reader still has to deliver: the rest of
the stored file, or anything else, cut short or failing. A byte knows its
artifact and position, so a digest is right exactly when the content is. The
same destination may be fetched again for another artifact, over what an earlier
fetch left. `store` and the decay of the disk are actions of their own;
`vouched` is the history of what `store` has returned for. Errors that are not
retried, a refused grant and a base `ArtifactError` of the store's directory, are
`RaisesAtOnce`.

### ChallengeVerifier and Validation

A commitment stands for its context and its seed, both HMACs of it. A reveal names
the commitment whose seed it carries, or `Guess`, a seed that somebody made up; a miner
has the seed of a commitment only from `Reveal`, and may submit evidence before it, with
the seed of another lease or a guess. Two histories keep the order of events: `blind`,
the leases accepted before a reveal for them, and `early`, the evidence submitted before
the reveal for its lease. `Reveal` and
`Consumable` are the checks of `reveal` and `verify_and_consume` in their order;
`consumed` is lost at a restart. `validate_execution` is a sequence of gates, each
a reason and a condition; the first that fails gives the reason. Its
`challenge_check` is a callable of its caller and is taken to be
`verify_and_consume`; its `correctness_check` may answer anything or raise. One
validation is one step: nothing else runs in the process, and blocks are an
argument.

### Attestation

A verification is the call with its `now`, the questions that `nvattest` asks about
the certificates of one GPU after the other (`AskStatus`), and its answer; between
any two of them the clock moves and certificates are revoked. What was found is kept
with the verification, so a GPU that is revoked after its question passes. The status
service is taken to answer with what holds when it is asked. NVAT's own check of the
format comes after the policy's and the window (`BackendRefuses`). A
bundle may be presented for any request at any time; its `collected_at` is its
sender's. `DeviceGates` are the checks of `_verified_claims` for one GPU in their
order, `PolicyGates` those of the policy that can fail with this backend: it
sets the nonce, the chain and the revocation status of its claims itself.

### Performance

`loop` holds the local variables of `measure`; each interval is one step, checked
by its gates in the order of the code. The intervals are the miner's: all that
the constructor of `WorkInterval` admits. The reference the result is compared
with is computed from `seen`, the intervals themselves: the set of steps they
name and the sum of their lengths. `assess_baseline` follows a measurement. A sum
of times (`Total` of `Times`) is a recursive function over the intervals, with 0 for
one that does not count, so that it can be reasoned about.

### Sandbox

`run`, `kill` and `rm` are clients, children of this process, each with its
deadline: `pc` says which one is running and `timer` how long `process.wait` has
waited. The container is the engine's. `requests` holds what the engine was asked
and has not served; it serves, refuses or keeps a request in its own time, also
after the client that sent it was killed, because `killpg` reaches the client
only. `docker run` sends two requests, to create and to start; `--rm` makes the
engine remove a container that has ended. `faults` is history: for each name,
what went wrong outside this process. There are three:

* `client`: the client of `run` ended although its container had not. `run`
  returns the client's exit code as the job's and removes nothing (line 295).
* `rm`: the removal was refused, could not be started or was not answered; it is
  not tried again and the result does not say so (line 313).
* `late`: the request to create the container outlived its client and was served
  after the removal had found nothing.

`NoRunawayContainer` says that these are all: the README's and `run`'s own "forcibly
removed" holds in every other order of events, whether or not `kill` works.

### Correctness

One behaviour is one verification: a challenge is generated, both sides commit to
their checkpoints, and `verify` compares them. The loops are steps: a draw of
`_sample_indices`, a level of the tree, a pair of values. A draw is any number
below `Modulus`, which stands for 2^256 and, like it, is a multiple of some sizes
and not of others. A hash is the term of what was hashed, so two hashes are equal
exactly when their inputs are. A value is a whole number of units and `Rounded`
is the context's rounding, half to even, to the digits the context keeps: `LeastFull`
is the least number with all of them, and what is kept of a longer number is a
multiple of a power of ten in `Weights`. The code's context has 28 digits and its
values up to 64, so the difference and the bound are both inexact. `AcceptedIsSound` allows for just that error.

### Publisher

A publisher goes through `check`, `hash`, `sign`, `write` and `replace`; a file is
hashed chunk by chunk and may be edited, removed or replaced by something else in
between (`Change`). A digest is the sequence that was hashed. `temporary` and
`destination` are names of inodes, because `os.replace` moves a name while an open
handle keeps its inode: the second publisher that opens the temporary file cuts the
first one's, and the first `os.replace` takes it away from both. `touched` and
`overlapped` are history.

## 3. Runs

| Run | Bounds | Shows |
|---|---|---|
| `lease_store` | 3 digests, 2 records at most, 2 failure codes, blocks 0..1, revisions to 7, room for two records only in some states | all safety properties and the refinement |
| `replay_cache` | 3 tokens for 2 places, 2 scopes for 1 place, blocks and expiries 0..2, sequences 0..1 | tokens once, sequences increase, decisions kept |
| `replay_too_large` | as above, a smaller file limit | *violated*: the file can outgrow what is read back |
| `message_authenticator` | 9 messages of every kind, age 2, future 1, blocks 0..5 | a message once, evidence in order, token and number filed together |
| `training_supervisor` | 3 steps, interval 2, 4 events, 1 log unit, 2 ticks, 2 grace frames, 2 digests | safety of the loop and, under fairness, its end |
| `artifact_transfer` | artifacts of 1, 2 and 3 bytes, a limit of 2 bytes, 2 attempts, chunks of 1 or 2 | only verified content is published; leftovers cost one attempt; every fetch ends |
| `validation` | 2 leases, room for 1 consumed commitment, blocks 0..2, age 1, 6 pieces of evidence: in order, with a fault, with a made-up seed | a lease accepted once, for evidence submitted after its reveal; no challenge wasted |
| `attestation` | 2 requests, 5 GPUs, bundles of 1 and 2 GPUs, times 0..4, timeout 1, 1 revocation (`MaxRevocations`) | evidence bound to its request; expiry and revocation of any GPU missed by at most the timeout |
| `performance` | up to 4 intervals on 5 ticks, 3 steps, 4 runs, limits that are met and passed | no time counted twice or left out; each step once; the integer rate decides as the exact one |
| `sandbox` | 2 runs, 2 ticks to run, 1 to remove, 5 calls of which 4 are refused | a run returns; a container is left only after a named fault |
| `correctness` | leaf lists of up to 8, 3 targets, 3 steps, draws below 8, 2 digits kept (`LeastFull` 10, `Weights` to 100), 169 pairs of values | roots identify checkpoints; fair sampling that ends; acceptance within tolerance |
| `publisher` | 2 publishers, 2 files, 7 requests, contents of 1 to 3 chunks, 1 change, manifests of 2 writes | a faithful manifest; a whole destination |

The bounds are the smallest at which every limit is met and passed: one digest
more than the store has room for, a token that can expire and come again, a
scope too many, a step at the cadence, one off it and the last one, one frame
more than the grace period. `MaxRevision` stands for 2^63-1 and is reached. In
`lease_store` the byte limit admits two records in short states and not in long
ones, so a transition can be refused for its size. In `correctness` six leaves
make a second level of three, which is odd again, and a tensor of three elements
does not divide the modulus. In `sandbox` one tick is enough for a removal that
is not answered in time; two runs show that one leaves nothing for the next. In
`publisher` one change already falls between the size and the digest of a file,
and before, in and after its hashing; with two changes (12 million states) the
same properties hold. In `attestation` one revocation is enough: the property speaks
of one GPU, and the revocation may fall before, between or after the questions.

Symmetry is used for leases, codes, tokens and scopes, in runs without liveness
properties only.

**Fairness.** `TrainingSupervisor` assumes weak fairness of the supervisor's
step and of the clock: `next_frame` and `wait` are called with timeouts, so the
loop is never blocked, and the clock is monotonic. Nothing is assumed of the
workload or of the token. `ArtifactTransfer` assumes weak fairness of the steps of
a fetch that runs: its calls return or raise, and nothing else blocks it; no
fairness of the store, of crashes or of new calls is assumed. `Sandbox` assumes
weak fairness of the process's own steps and of time; the engine and its clients
may never answer. `Correctness` assumes that no value of a digest stays away for
ever, which an endless sequence of HMACs violates with probability 0, and that
the loop goes on. All other runs check safety only and assume none.

## 4. Findings and known behaviour

* *A file that cannot be read back* (`replay_too_large`, violated). The replay
  cache does not check the size it writes, the lease store does. `FileCanBeLoaded`
  proves that nothing else keeps a file from being loaded.

The other places where the models show behaviour that a reader of the documents
would not expect are part of what the properties say:

* *At most once, not exactly once.* The claim is on disk before its caller is told
  (`lease.py:301`), and a crash in between loses the execution. The documents say
  "exactly once" (`README.md:139`); `ExecutionClaimedOnce` says at most once.
* *A retry that is refused.* `mkdir` is outside the `try` of `_persist`
  (`replay.py:151`), so when it fails the token stays in memory until the process
  ends, and the sender's retry is a replay. `identity.py:171` says "fail without
  partial success". No property is hurt: memory knows more than the file.
* *Late completion after a cancellation.* The deadline is not looked at once a
  cancellation has been requested (`runner.py:302`; compare the test
  `test_timeout_never_accepts_late_completion`). `CompletionEarned` admits exactly
  this case.
* *A shared temporary file.* `write_manifest` names its temporary file after the
  destination (`publisher.py:145`, "Atomically write"): two publishers that write at
  once can leave a mixture of both. `DestinationIsWhole` excludes the case in which
  both had it open; without that exclusion TLC finds the mixture.
* *A process that is left running.* An exception of `next_frame` (`runner.py:312`), or
  one of `json.loads` other than those listed (`runner.py:172`), leaves `run` without
  `terminate`. `ProcessLeftOnlyByEscape` says that these are the only ways.
* *A revoked GPU that is accepted.* A certificate revoked after `nvattest` has asked about
  it counts as good. `RevocationNoticed` bounds by how much: at acceptance, no GPU has been
  revoked for longer than the timeout.
* *A record of two contents.* The size of a packaged file is read before its content is
  hashed (`publisher.py:212`); a file changed in between has the size of the one and the
  digest of the other. `PackageIsFaithful` is about files that were not touched.
* *A container that is left behind*: the three faults of `Sandbox` above.
* *An unlocked partial file.* Two fetches of one destination share one partial file
  (`artifacts.py:334`); the model has one fetch at a time.

## 5. Proofs

`LeaseStoreProofs` proves every property that `lease_store` checks, for any
finite set of leases and any limits, from the assumptions `LeaseStore` states:
the leases are finite, the bounds are naturals, `NoCode` and `NoRecord` are not
a code and not a record.

* `StepCases` reduces every step to five: the snapshot and the histories stay
  (`Keeps`), or one lease's record is written by `Adds`, `Advances`, `Starts`
  or `Submits`, each with the guard of the code. The later proofs are about
  these cases only.
* `DurableMap` is inductive by itself: type correctness and `up => records =
  file`.
* `RestartSucceeds` shows that what is written is valid, within the byte limit
  and within `max_records`.
* `ExecutionOnce` and `EvidenceOnce` are not inductive. The strengthening is
  `ClaimsMarked`: a claim that was granted is marked in the record *on disk*,
  and an evidence marker comes with an execution marker; the latter needs the
  validity of stored records (`completed` implies a claimed execution), that is
  `RestartSucceeds`.
* `HistoryKept` and `DeadlineKept` are action properties from the same cases.
* `StoreImplementsContract` maps the initial state to the initial state and
  every case to one step of the contract or to a stutter.

`ReplayCacheProofs` proves what `replay_cache` checks, for any finite sets of keys
and scopes and any limits.

* `StepCases` reduces a step to its effect on the maps and the file: new maps in
  memory only, the end of the process before or after a write, an answered
  write, a restart, or a block. The maps a call may write are `Tokens` and
  `Numbers`.
* `Covers` says that the maps of a live process know every unexpired token of
  the file and no smaller number. It is inductive, and `DecisionsAreKept`
  follows. It holds also after the `OSError` of `mkdir`: what stays in memory is
  more than the file has, never less.
* `Remembered` says that every *answered* decision is in the file. With `Covers`
  it is inductive; `TokensOnce` and `NumbersIncrease` follow.
* `FileCanBeLoaded` has a hypothesis, that a file with both maps full is one
  `_load` accepts. It is what the code does not check, see the findings.

Its second half is about `MessageAuthenticator`, which extends the cache. The step
lemmas of the cache assume an effect, not a step of the cache's own `Next`, and an
authentication has one of those effects, so `Covers` and `Remembered` hold there too.
`MessagesOnce` needs `Counted`: a message that was authenticated once is past the last
block at which it is fresh, or its token is held through that block
(`FreshUntilExpiry` is where the expiry that `authenticate` computes meets the
window). `EvidenceIsInOrder` needs `Passed`: the number of accepted evidence is no
larger than the last one of its scope. `EvidenceIsFiledWhole` is about the file, but not
inductive without the maps in memory (`BothWhole`): after the `OSError` of `mkdir` a later
call writes what an earlier one has left there.

`TrainingSupervisorProofs` proves the safety properties of `training_supervisor`, for
any limits and digests. Its `IInv` is their conjunction with type correctness and
what ties the loop's variables together at `pc`: without a running outcome the loop
is done, a deadline that was seen has timed the run out unless the token was
cancelled, a terminal event is the last and follows a start, and a run that has ended
left the process neither exited nor terminated only if an exception escaped. `NextIInv` has one
lemma per step of the loop. `ProgressKept` is an action property from it.

`SandboxProofs` proves `NoRunawayContainer` for any names and deadlines and every
order in which the engine serves. It is not inductive: a container may be created
by a request that is still under way. The strengthening says what may be under way.
`Untouched`: nothing is, for a name whose run never reached the engine. `Ended`: no
creation is, once a run has ended with its container. `Removed`: once the removal
was answered the container is absent, and a creation served later is the fault
`late`. `InProgress`: the run at work has no result yet.

`ArtifactTransferProofs` proves the safety properties of `artifact_transfer`, for any
artifacts, sizes, limits, chunks and number of attempts. `DestinationVerified` and
`StoredIsServed` need type correctness and `InProgress` (a fetch that runs is of an
artifact within the limit, has attempts left and no result). `StalePartialHarmless`
needs `Undisturbed`: a fetch that met no failure of its own reads the artifact itself,
has all of it before it hashes, and if it has lost an attempt it was the first, after
which the partial file is a beginning of its own artifact.

`AttestationProofs` proves what `attestation` checks, for any requests, bundles,
devices and times. `Started` says of a verification under way that its time was read no
later than now and within the lifetime and the age of its request, which had been
issued. `Questioned` says what is known of the devices it has asked about: a revocation
that was not noticed is no older than the call. Since an answer comes within the timeout
and after all the questions, `RevocationIsNoticed` follows. `FreshWhenAccepted` bounds a minimum over the bundle's certificates; that it is
attained rests on every bundle having a device, which is an assumption about the
constants because `_verified_claims` takes one to eight claims only (line 294).

`VerdictProofs` proves what `validation` checks, for any commitments, evidence,
policy and capacity. `Paid` says that a lease that was paid for has its commitment in
the consumed set of the same process, `AcceptedBlind` that a lease whose challenge was
revealed had been accepted before, and `Untaught` that evidence submitted before the
reveal for its lease does not carry its seed. Acceptance compares the seed, so
`RevealsAreInOrder` follows. `FirstFailureExists` is the fact about gates all the
verifiers need: a sequence of gates that does not pass has a first one that fails, so
a rejection carries a reason of its own and never the word for acceptance.

Its second half proves what `performance` checks, for any intervals, policy,
profile and runs. The invariant follows the time from the first start to the last end:
before the first active interval there is only warm-up (`BeforeActive`); after it that
time falls into warm-up, the active span, which holds the active intervals and the
checkpoints inside it, and the checkpoints after the span (`SinceActive`). When an
active interval is read, every checkpoint so far comes to lie inside. `StepsCounted`
ties the counted batches to the cardinality of the set of steps that the active
intervals name; the gate that makes each interval continue where the last one stopped
is what keeps a step from being counted twice. `DecisionsAreExact` is arithmetic of
integer division. The prover has no induction scheme it can use, so what `Total`
computes is shown by least counterexample: the natural numbers are well-founded
(`LeastElement`), and the least number at which the sums of a sequence would not exist,
not be unique or not be natural leads to a contradiction.

`CommitmentProofs` proves what `publisher` checks, and what `correctness` checks but
for `SamplingEnds`. Both components sort, and `SortedAscends` is the fact they share:
where any two elements are in order, the result of `Sorted` has the same elements and
ascends (each element's rank is the number of its predecessors, so ranks are one to
one onto the places).

For `Publisher`, any requests, files, chunks, publishers and changes
(`FilesAssumption`, `PublishersAssumption`).

* `PackagesAreFaithful`: as long as a file was not touched, its record is right.
  `PackageInv` follows the work in progress: the records are those of the first
  inputs (`Recorded`), the chunks hashed so far are the first of the file that was
  checked (`HashedRight`), and the entrypoint is hashed last, once the request has
  passed its checks. `Change` is the step that needs `touched`.
* `DestinationsAreWhole`: `WriterAlone` says that, unless writers overlapped, at most
  one has the temporary file open, its blocks are that writer's own, and the
  destination is another inode. That a fresh inode exists whenever one is needed is
  counted (`FreshInodeExists`): there are more inodes than handles and names.

For `Correctness`, any inputs its constructors admit, any policy and any limits
(`InputsAssumption`, `PolicyAssumption`, `LimitsAssumption`; of the weights only that
they are positive, finitely many and contain 1). `CorrectnessInv` is the conjunction
of three invariants, each about one part of the state.

* `RootsAreFaithful` rests on `RootInv`: a level in work is one of a tower of levels
  that starts at the leaves (`Reaches`), and a root is the top of such a tower. Of two
  towers with one top the levels agree from the top down, as sets (`LevelsAgree`,
  where the filling up of an odd level does no harm), and no level of nodes is one of
  leaves (`NodesAreNoLeaves`), so both towers are equally high and have the same
  leaves. Conversely the sorted leaves of equal components are equal
  (`AscendingUnique`), and so is all that is built on them.
* `SamplesAreFair` is arithmetic: below the greatest multiple of the size each
  remainder occurs equally often (`RemaindersAreEven`, by a bijection with the
  quotients).
* `ChallengesAreComplete` rests on `ChallengeInv`: the requests answer the first
  slices of a plan, what is left to sample is the rest of it, and what is selected
  lies in the tensor whose turn it is. A plan that was followed to its end has every
  target at as many steps as were asked for, and never more probes than `MaxProbes`:
  the constructor of the challenge does not refuse what the generator made.
* `AcceptedIsWithinTolerance` rests on `ComparisonInv`: the number of compared values
  and of outstanding ones is the number of requested ones. `RoundedNear` bounds a
  rounding by one part in `Parts`, and `AcceptedWithin` carries it through the three
  roundings of `accepts`. That the checkpoint is the reference's is `RootsAreFaithful`.

Where a proof needs an induction over data (the heights of two towers, the places of
two sorted sequences), it looks at the least number at which the claim would fail, as
above.

Only model-checked: liveness under fairness (`RunEnds`, `FetchEnds`, `RunReturns`,
`SamplingEnds`), which is out of the prover's reach. Every other property of a passing
run is stated by a theorem.

## 6. Not modelled, and the plan

Canonical JSON, configuration, the command line, redaction and capability
normalisation are text processing without state. Two processes on one lease or
replay file, or one partial file, are outside the documented use; nothing in the
code locks the file. A validator that restarts forgets which challenges were
consumed, and `AcceptedOncePerLease` is a statement about one process.
Durability is that of `os.replace`: there is no `fsync`, and a power failure is
not modelled.

Attestation is modelled in part: the public collateral cache, which no code calls,
and the collection of evidence on the miner are left out. Of `protocol.py` only
the kinds and fields that authentication reads are modelled, of `config.py` the
tiers. `load_bittensor_hotkey`, the flags of the container's command line and the
captured output have no part in any property.

What would come next is `Attestation` composed with `Validation`, so that a decision
is used later than it was made, and the public collateral cache.
