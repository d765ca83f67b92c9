----------------------------- MODULE LeaseStore -----------------------------
(***************************************************************************)
(* The lease registry of gpuforge (lease.py): an in-memory map of lease    *)
(* records, a snapshot of it on disk, and the operations offer,            *)
(* transition, claim_execution and claim_evidence_submission.  Every       *)
(* operation that changes a record writes the complete snapshot through a  *)
(* temporary file and os.replace, and only then replaces the map.          *)
(*                                                                         *)
(* The process is single threaded, so an operation is one action.  What    *)
(* may happen inside it is a choice of that action: the write fails and    *)
(* the operation raises, or the process dies after os.replace and before   *)
(* the caller gets its answer.  The temporary file is never read back, so  *)
(* dying before os.replace is dying before the call.                       *)
(***************************************************************************)
EXTENDS Integers, FiniteSets, FiniteSetsExt

CONSTANTS
    Leases,         \* lease digests
    Manifests,      \* manifest digests
    Codes,          \* failure codes that match _CODE_PATTERN
    NoCode,         \* failure_code None
    NoRecord,       \* a digest the map has no record for
    MaxBlock,       \* bound on the chain's block number
    MaxRevision,    \* stands for 2^63 - 1, the largest revision
    MaxRecords,     \* max_records
    MaxStateBytes,  \* _MAX_STATE_BYTES, without the envelope of the list
    FixedBytes,     \* the fixed part of a record in that JSON
    CodeBytes       \* a failure code's JSON

VARIABLES
    records,    \* LeaseStore._records
    file,       \* the snapshot at LeaseStore._path
    up,         \* TRUE while a process holds the store
    block,      \* the chain's block, which callers pass as current_block
    reply,      \* how the last operation answered its caller
    executions, \* history: how often claim_execution answered True
    submissions \* history: how often claim_evidence_submission answered True

vars == <<records, file, up, block, reply, executions, submissions>>

ASSUME LeasesAssumption == IsFiniteSet(Leases)
ASSUME NoCodeAssumption == NoCode \notin Codes
ASSUME BoundsAssumption ==
    /\ MaxBlock \in Nat
    /\ MaxRevision \in Nat
    /\ MaxRecords \in Nat \ {0}
    /\ MaxStateBytes \in Nat
    /\ FixedBytes \in Nat
    /\ CodeBytes \in Nat

-----------------------------------------------------------------------------
(* Records                                                                  *)

LeaseState ==
    {"offered", "accepted", "fetching", "ready", "running", "checkpointing",
     "completed", "failed", "expired", "cancelled"}

TerminalStates == {"completed", "failed", "expired", "cancelled"}

ExecutingStates == {"running", "checkpointing", "completed"}

\* Variant of Follows: a failed lease may be retried.
FollowsRetry(s, t) ==
    \/ s = "offered" /\ t = "accepted"
    \/ s = "accepted" /\ t = "fetching"
    \/ s = "fetching" /\ t = "ready"
    \/ s = "ready" /\ t = "running"
    \/ s = "running" /\ t = "checkpointing"
    \/ s = "checkpointing" /\ t = "running"
    \/ s \in {"running", "checkpointing"} /\ t = "completed"
    \/ s = "failed" /\ t = "accepted"
    \/ s \notin TerminalStates /\ t \in {"failed", "expired", "cancelled"}

\* _TRANSITIONS[s] contains t.
Follows(s, t) ==
    \/ s = "offered" /\ t = "accepted"
    \/ s = "accepted" /\ t = "fetching"
    \/ s = "fetching" /\ t = "ready"
    \/ s = "ready" /\ t = "running"
    \/ s = "running" /\ t = "checkpointing"
    \/ s = "checkpointing" /\ t = "running"
    \/ s \in {"running", "checkpointing"} /\ t = "completed"
    \/ s \notin TerminalStates /\ t \in {"failed", "expired", "cancelled"}

LeaseRecord ==
    [manifest_digest    : Manifests,
     deadline_block     : 0..MaxBlock,
     state              : LeaseState,
     revision           : Nat,
     execution_started  : BOOLEAN,
     evidence_submitted : BOOLEAN,
     failure_code       : Codes \cup {NoCode}]

ASSUME NoRecordAssumption == NoRecord \notin LeaseRecord

\* What LeaseRecord.__post_init__ accepts.  A record that breaks it cannot be
\* built, neither by an operation nor by reading the snapshot.
ValidRecord(r) ==
    /\ r.revision <= MaxRevision
    /\ r.state = "failed" <=> r.failure_code # NoCode
    /\ r.state \in ExecutingStates => r.execution_started
    /\ r.evidence_submitted => r.state = "completed"

\* The record of a fresh offer.
NewRecord(m, d) ==
    [manifest_digest |-> m, deadline_block |-> d, state |-> "offered",
     revision |-> 0, execution_started |-> FALSE,
     evidence_submitted |-> FALSE, failure_code |-> NoCode]

Store == [Leases -> LeaseRecord \cup {NoRecord}]

EmptyStore == [l \in Leases |-> NoRecord]

Known(s) == {l \in Leases : s[l] # NoRecord}

-----------------------------------------------------------------------------
(* The snapshot                                                             *)

\* The part of a record's JSON whose length varies: the state's name, the two
\* flags (true is one character shorter than false) and the failure code
\* (null when there is none).  FixedBytes counts the rest of the record, the
\* numbers with one digit each.
StateBytes(s) ==
    CASE s = "ready"                             -> 5
      [] s = "failed"                            -> 6
      [] s \in {"offered", "running", "expired"} -> 7
      [] s \in {"accepted", "fetching"}          -> 8
      [] s \in {"completed", "cancelled"}        -> 9
      [] OTHER                                   -> 13

FlagBytes(b) == IF b THEN 4 ELSE 5

RecordBytes(r) ==
    FixedBytes + StateBytes(r.state)
        + FlagBytes(r.execution_started) + FlagBytes(r.evidence_submitted)
        + (IF r.failure_code = NoCode THEN 4 ELSE CodeBytes)

SnapshotBytes(s) == MapThenSumSet(LAMBDA l : RecordBytes(s[l]), Known(s))

\* _load accepts the snapshot.
Loadable(s) ==
    /\ SnapshotBytes(s) <= MaxStateBytes
    /\ Cardinality(Known(s)) <= MaxRecords
    /\ \A l \in Known(s) : ValidRecord(s[l])

-----------------------------------------------------------------------------
(* Answers, and committing a changed map                                    *)

Replies == {"none", "record", "true", "false", "error"}

Answer(a) ==
    /\ reply' = a
    /\ UNCHANGED <<records, file, up, block, executions, submissions>>

Refuse == Answer("error")

Count(history, l) == [history EXCEPT ![l] = @ + 1]

\* The write raised OSError: LeaseStateError, and nothing has changed.
WriteFails == Refuse

\* The process dies after os.replace, before its caller is answered.
DiesAfterReplace(new) ==
    /\ file' = new
    /\ up' = FALSE
    /\ records' = EmptyStore
    /\ reply' = "none"
    /\ UNCHANGED <<block, executions, submissions>>

\* Variant of Committed: the answer does not wait for the disk.
CommittedInMemory(new, a, ex, sub) ==
    /\ records' = new
    /\ reply' = a
    /\ executions' = ex
    /\ submissions' = sub
    /\ UNCHANGED <<file, up, block>>

\* _commit returned: the snapshot and the map are replaced, and the operation
\* answers a; ex and sub are the histories with that answer in them.
Committed(new, a, ex, sub) ==
    /\ file' = new
    /\ records' = new
    /\ reply' = a
    /\ executions' = ex
    /\ submissions' = sub
    /\ UNCHANGED <<up, block>>

\* Variant of Commit: the map is assigned before the snapshot is written.
CommitMapFirst(new, a, ex, sub) ==
    \/ /\ records' = new
       /\ reply' = "error"
       /\ UNCHANGED <<file, up, block, executions, submissions>>
    \/ /\ SnapshotBytes(new) <= MaxStateBytes
       /\ DiesAfterReplace(new) \/ Committed(new, a, ex, sub)

\* Variant of Commit: the size of the snapshot is not checked.
CommitUnbounded(new, a, ex, sub) ==
    WriteFails \/ DiesAfterReplace(new) \/ Committed(new, a, ex, sub)

\* _commit and _persist.
Commit(new, a, ex, sub) ==
    \/ SnapshotBytes(new) > MaxStateBytes /\ Refuse
    \/ /\ SnapshotBytes(new) <= MaxStateBytes
       /\ \/ WriteFails
          \/ DiesAfterReplace(new)
          \/ Committed(new, a, ex, sub)

\* dataclasses.replace re-validates the record before _replace commits it.
Update(l, r, a, ex, sub) ==
    IF ValidRecord(r)
    THEN Commit([records EXCEPT ![l] = r], a, ex, sub)
    ELSE Refuse

-----------------------------------------------------------------------------
(* The operations                                                           *)

IsFull(s) == Cardinality(Known(s)) >= MaxRecords

IsRepeatedOffer(r, m, d) == r.manifest_digest = m /\ r.deadline_block = d

Offer(l, m, d) ==
    LET r == records[l] IN
    /\ up
    /\ \/ r # NoRecord /\ IsRepeatedOffer(r, m, d) /\ Answer("record")
       \/ r # NoRecord /\ ~IsRepeatedOffer(r, m, d) /\ Refuse
       \/ r = NoRecord /\ IsFull(records) /\ Refuse
       \/ /\ r = NoRecord
          /\ ~IsFull(records)
          /\ Commit([records EXCEPT ![l] = NewRecord(m, d)],
                    "record", executions, submissions)

\* The deadline has passed and the lease is still open.
Late(r) == block > r.deadline_block /\ r.state \notin TerminalStates

\* The lease is where the caller wants it: transition changes nothing.
IsRepeat(r, t, c) == t = r.state /\ (t = "failed" => c = r.failure_code)

IsAllowed(r, t, c) ==
    /\ Follows(r.state, t)
    /\ ~(r.state = "ready" /\ t = "running")
    /\ t = "failed" <=> c # NoCode

Moved(r, t, c) ==
    [r EXCEPT !.state = t, !.revision = @ + 1, !.failure_code = c]

\* transition, with the target and the code that the deadline check leaves.
TransitionTo(l, r, t, c) ==
    \/ IsRepeat(r, t, c) /\ Answer("record")
    \/ /\ IsAllowed(r, t, c)
       /\ Update(l, Moved(r, t, c), "record", executions, submissions)
    \/ ~IsRepeat(r, t, c) /\ ~IsAllowed(r, t, c) /\ Refuse

Transition(l, t, c) ==
    LET r == records[l] IN
    /\ up
    /\ \/ r = NoRecord /\ Refuse
       \/ r # NoRecord /\ Late(r) /\ TransitionTo(l, r, "expired", NoCode)
       \/ r # NoRecord /\ ~Late(r) /\ TransitionTo(l, r, t, c)

\* Variant of IsGranted: the deadline is not checked.
IsGrantedAnyTime(r) == ~r.execution_started /\ r.state = "ready"

\* claim_execution answers True.
IsGranted(r) ==
    /\ block <= r.deadline_block
    /\ ~r.execution_started
    /\ r.state = "ready"

\* claim_execution answers False and changes nothing.
IsDenied(r) ==
    \/ block > r.deadline_block /\ r.state \in TerminalStates
    \/ block <= r.deadline_block /\ r.execution_started

Started(r) ==
    [r EXCEPT !.state = "running", !.revision = @ + 1, !.execution_started = TRUE]

\* A late lease is expired and the claim answers False; if that transition
\* raises, so does the claim.
ClaimExecution(l) ==
    LET r == records[l] IN
    /\ up
    /\ \/ r = NoRecord /\ Refuse
       \/ /\ r # NoRecord
          /\ \/ IsDenied(r) /\ Answer("false")
             \/ /\ Late(r)
                /\ Update(l, Moved(r, "expired", NoCode),
                          "false", executions, submissions)
             \/ /\ IsGranted(r)
                /\ Update(l, Started(r),
                          "true", Count(executions, l), submissions)
             \/ ~IsDenied(r) /\ ~Late(r) /\ ~IsGranted(r) /\ Refuse

\* Variant of IsUnsubmitted: the marker is not checked.
IsUnsubmittedOrNot(r) == r.state = "completed"

\* claim_evidence_submission answers True.
IsUnsubmitted(r) == r.state = "completed" /\ ~r.evidence_submitted

Submitted(r) == [r EXCEPT !.revision = @ + 1, !.evidence_submitted = TRUE]

ClaimEvidenceSubmission(l) ==
    LET r == records[l] IN
    /\ up
    /\ \/ r = NoRecord /\ Refuse
       \/ /\ r # NoRecord
          /\ \/ r.state # "completed" /\ Refuse
             \/ r.evidence_submitted /\ Answer("false")
             \/ /\ IsUnsubmitted(r)
                /\ Update(l, Submitted(r),
                          "true", executions, Count(submissions, l))

\* The process dies between two operations.
Crash ==
    /\ up
    /\ up' = FALSE
    /\ records' = EmptyStore
    /\ reply' = "none"
    /\ UNCHANGED <<file, block, executions, submissions>>

\* Variant of Restart: recovery puts an interrupted execution back in line.
RestartRequeues ==
    LET recovered ==
            [l \in Leases |->
                IF file[l] # NoRecord /\ file[l].state = "running"
                THEN [file[l] EXCEPT !.state = "ready", !.execution_started = FALSE]
                ELSE file[l]]
    IN  /\ ~up
        /\ up' = TRUE
        /\ file' = recovered
        /\ records' = recovered
        /\ UNCHANGED <<block, reply, executions, submissions>>

\* LeaseStore(path=...): reads the snapshot, or raises and no store exists.
\* No snapshot yet and an empty one are the same here.
Restart ==
    /\ ~up
    /\ Loadable(file)
    /\ up' = TRUE
    /\ records' = file
    /\ UNCHANGED <<file, block, reply, executions, submissions>>

Tick ==
    /\ block < MaxBlock
    /\ block' = block + 1
    /\ UNCHANGED <<records, file, up, reply, executions, submissions>>

-----------------------------------------------------------------------------
Init ==
    /\ records = EmptyStore
    /\ file = EmptyStore
    /\ up = TRUE
    /\ block = 0
    /\ reply = "none"
    /\ executions = [l \in Leases |-> 0]
    /\ submissions = [l \in Leases |-> 0]

Next ==
    \/ \E l \in Leases, m \in Manifests, d \in 0..MaxBlock : Offer(l, m, d)
    \/ \E l \in Leases, t \in LeaseState, c \in Codes \cup {NoCode} :
          Transition(l, t, c)
    \/ \E l \in Leases : ClaimExecution(l)
    \/ \E l \in Leases : ClaimEvidenceSubmission(l)
    \/ Crash
    \/ Restart
    \/ Tick

Spec == Init /\ [][Next]_vars

-----------------------------------------------------------------------------
(* Properties                                                               *)

\* The variables have their types.
TypeOK ==
    /\ records \in Store
    /\ file \in Store
    /\ up \in BOOLEAN
    /\ block \in 0..MaxBlock
    /\ reply \in Replies
    /\ executions \in [Leases -> Nat]
    /\ submissions \in [Leases -> Nat]

\* A live store never answers from a map that its snapshot does not hold: an
\* operation that raised has changed neither, one that returned has changed
\* both (_commit persists first and assigns second).
MapIsDurable == up => records = file

\* A restart never finds a snapshot it refuses to load, whatever sequence of
\* calls, write errors and crashes produced it: it is within the size and
\* record limits and every record in it passes LeaseRecord.__post_init__.
SnapshotLoadable == Loadable(file)

\* claim_execution answers True at most once per lease, over all processes
\* that ever open the store one after the other.
ExecutionClaimedOnce == \A l \in Leases : executions[l] <= 1

\* claim_evidence_submission answers True at most once per lease, and only
\* for a lease whose execution was claimed on disk before.
EvidenceClaimedOnce ==
    \A l \in Leases :
        /\ submissions[l] <= 1
        /\ submissions[l] = 1 =>
              file[l] # NoRecord /\ file[l].execution_started

\* The life cycle moves from s to t, not backwards and not past a claim.
Advance(s, t) ==
    \/ s = "offered" /\ t \notin {"offered"} \cup ExecutingStates
    \/ s = "accepted" /\ t \notin {"offered", "accepted"} \cup ExecutingStates
    \/ s = "fetching" /\ t \in {"ready", "failed", "expired", "cancelled"}
    \/ s = "ready" /\ t \in {"running", "failed", "expired", "cancelled"}
    \/ s \in {"running", "checkpointing"}
          /\ t \in ExecutingStates \cup TerminalStates
    \/ s = "completed" /\ t = "completed"

\* A stored record is never removed and never rewritten: every change on disk
\* is the next revision of the same offer, keeps the marker of a claimed
\* execution and of a submitted evidence, and moves on in the life cycle; a
\* terminal lease only ever gains its evidence marker.
LeaseHistory ==
    [][\A l \in Leases :
          LET r == file[l]
              s == file'[l]
          IN  r # NoRecord /\ s # r =>
                /\ s # NoRecord
                /\ s.revision = r.revision + 1
                /\ s.manifest_digest = r.manifest_digest
                /\ s.deadline_block = r.deadline_block
                /\ r.execution_started => s.execution_started
                /\ r.evidence_submitted => s.evidence_submitted
                /\ Advance(r.state, s.state)]_vars

\* Expired work fails closed: once the deadline of an open lease has passed,
\* the only thing that can still happen to it is that it expires, and no
\* claim on it is granted.
DeadlineHolds ==
    [][\A l \in Leases :
          file[l] # NoRecord /\ Late(file[l]) =>
             /\ file'[l] = file[l] \/ file'[l].state = "expired"
             /\ executions'[l] = executions[l]]_vars

\* The phase of the contract that a stored record stands for.
PhaseOf(r) ==
    IF r = NoRecord THEN "absent"
    ELSE IF r.evidence_submitted THEN "submitted"
    ELSE IF r.state = "completed" THEN "completed"
    ELSE IF r.state \in {"running", "checkpointing"} THEN "executing"
    ELSE IF r.state \in TerminalStates THEN "closed"
    ELSE "pending"

Contract == INSTANCE LeaseContract
    WITH phase    <- [l \in Leases |-> PhaseOf(file[l])],
         granted  <- executions,
         reported <- submissions

\* The store with its file, crashes, write errors and limits implements the
\* contract: at any moment the phase of a lease is the one its snapshot shows,
\* each step of the store is one step of the contract or none, and no crash
\* undoes a phase or lets a second caller win a claim.
ImplementsContract == Contract!ContractSpec

=============================================================================
