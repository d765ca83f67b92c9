-------------------------- MODULE LeaseStoreProofs --------------------------
(***************************************************************************)
(* Proofs about the lease store, for every set of leases, manifests and    *)
(* failure codes and every limit.                                          *)
(*                                                                         *)
(* All of them rest on one case analysis: a step of a store whose map is   *)
(* the snapshot either leaves the snapshot and the histories alone, or is  *)
(* one of four changes of one record (a new offer, a transition, a started *)
(* execution, a submitted evidence), answered or cut short by a crash.     *)
(***************************************************************************)
EXTENDS LeaseStore, FiniteSetTheorems, TLAPS

-----------------------------------------------------------------------------
(* The four changes of the snapshot.                                        *)

Writes(l, r) ==
    /\ file' = [file EXCEPT ![l] = r]
    /\ SnapshotBytes(file') <= MaxStateBytes
    /\ block' = block

Adds(l) ==
    /\ file[l] = NoRecord
    /\ ~IsFull(file)
    /\ \E m \in Manifests, d \in 0..MaxBlock : Writes(l, NewRecord(m, d))
    /\ UNCHANGED <<executions, submissions>>

Advances(l) ==
    /\ file[l] # NoRecord
    /\ \E t \in LeaseState, c \in Codes \cup {NoCode} :
          /\ IsAllowed(file[l], t, c)
          /\ Late(file[l]) => t = "expired"
          /\ ValidRecord(Moved(file[l], t, c))
          /\ Writes(l, Moved(file[l], t, c))
    /\ UNCHANGED <<executions, submissions>>

Starts(l) ==
    /\ file[l] # NoRecord
    /\ IsGranted(file[l])
    /\ ValidRecord(Started(file[l]))
    /\ Writes(l, Started(file[l]))
    /\ executions' \in {executions, Count(executions, l)}
    /\ UNCHANGED submissions

Submits(l) ==
    /\ file[l] # NoRecord
    /\ IsUnsubmitted(file[l])
    /\ ValidRecord(Submitted(file[l]))
    /\ Writes(l, Submitted(file[l]))
    /\ submissions' \in {submissions, Count(submissions, l)}
    /\ UNCHANGED executions

Keeps ==
    /\ UNCHANGED <<file, executions, submissions>>
    /\ block' = block \/ (block' = block + 1 /\ block < MaxBlock)

\* The process after a step: the one that holds the new snapshot, or none.
Holds ==
    /\ up' \in BOOLEAN
    /\ records' \in {file', EmptyStore, records}
    /\ up' => records' = file'

-----------------------------------------------------------------------------
\* A commit is a refusal, or it writes the snapshot, answered or not.
LEMMA CommitCases ==
    ASSUME NEW new, NEW a, NEW ex, NEW sub, Commit(new, a, ex, sub),
           up, MapIsDurable, up \in BOOLEAN, a \in Replies
    PROVE  /\ Holds
           /\ block' = block
           /\ reply' \in Replies
           /\ \/ UNCHANGED <<file, executions, submissions>>
              \/ /\ file' = new
                 /\ SnapshotBytes(new) <= MaxStateBytes
                 /\ <<executions', submissions'>>
                      \in {<<executions, submissions>>, <<ex, sub>>}
<1>1. CASE Refuse
  BY <1>1 DEF Refuse, Answer, Holds, MapIsDurable, Replies
<1>2. CASE DiesAfterReplace(new) /\ SnapshotBytes(new) <= MaxStateBytes
  BY <1>2 DEF DiesAfterReplace, Holds, Replies
<1>3. CASE Committed(new, a, ex, sub) /\ SnapshotBytes(new) <= MaxStateBytes
  BY <1>3 DEF Committed, Holds
<1> QED  BY <1>1, <1>2, <1>3 DEF Commit, WriteFails

\* An open lease may always be moved to expired.
LEMMA LateMayExpire ==
    ASSUME NEW r \in LeaseRecord, Late(r)
    PROVE  IsAllowed(r, "expired", NoCode)
  BY DEF LeaseRecord, Late, IsAllowed, LeaseState, Follows, TerminalStates

\* What a validated record change does, when r is the new record of lease l.
LEMMA UpdateCases ==
    ASSUME NEW l \in Leases, NEW r, NEW a \in Replies, NEW ex, NEW sub,
           Update(l, r, a, ex, sub), up, MapIsDurable, up \in BOOLEAN
    PROVE  /\ Holds
           /\ block' = block
           /\ reply' \in Replies
           /\ \/ UNCHANGED <<file, executions, submissions>>
              \/ /\ ValidRecord(r)
                 /\ Writes(l, r)
                 /\ <<executions', submissions'>>
                      \in {<<executions, submissions>>, <<ex, sub>>}
<1>1. CASE ~ValidRecord(r)
  BY <1>1 DEF Update, Refuse, Answer, Holds, MapIsDurable, Replies
<1>2. CASE ValidRecord(r)
  <2>1. Commit([records EXCEPT ![l] = r], a, ex, sub)
    BY <1>2 DEF Update
  <2>2. records = file
    BY DEF MapIsDurable
  <2> QED  BY <1>2, <2>1, <2>2, CommitCases DEF Writes
<1> QED  BY <1>1, <1>2

Change(l) == Adds(l) \/ Advances(l) \/ Starts(l) \/ Submits(l)

\* A call that only answers changes neither the map nor the snapshot.
LEMMA AnswerKeeps ==
    ASSUME NEW a \in Replies, Answer(a), up, MapIsDurable
    PROVE  Holds /\ Keeps /\ reply' \in Replies
  BY DEF Answer, Holds, Keeps, MapIsDurable

\* transition, once the deadline check has chosen its target and code.
LEMMA TransitionToCases ==
    ASSUME NEW l \in Leases, NEW t \in LeaseState, NEW c \in Codes \cup {NoCode},
           TypeOK, MapIsDurable, up, records[l] # NoRecord,
           Late(records[l]) => t = "expired",
           TransitionTo(l, records[l], t, c)
    PROVE  Holds /\ reply' \in Replies /\ (Keeps \/ Change(l))
<1> USE DEF TypeOK
<1>1. records = file
  BY DEF MapIsDurable
<1>2. CASE Answer("record") \/ Refuse
  BY <1>2, AnswerKeeps DEF Refuse, Replies
<1>3. CASE /\ IsAllowed(records[l], t, c)
           /\ Update(l, Moved(records[l], t, c), "record", executions, submissions)
  <2>1. "record" \in Replies
    BY DEF Replies
  <2>2. /\ Holds /\ block' = block /\ reply' \in Replies
        /\ \/ UNCHANGED <<file, executions, submissions>>
           \/ /\ ValidRecord(Moved(file[l], t, c))
              /\ Writes(l, Moved(file[l], t, c))
              /\ UNCHANGED <<executions, submissions>>
    BY <1>1, <1>3, <2>1, UpdateCases
  <2>3. CASE UNCHANGED <<file, executions, submissions>>
    BY <2>2, <2>3 DEF Keeps
  <2>4. CASE /\ ValidRecord(Moved(file[l], t, c))
             /\ Writes(l, Moved(file[l], t, c))
             /\ UNCHANGED <<executions, submissions>>
    BY <1>1, <1>3, <2>2, <2>4 DEF Change, Advances
  <2> QED  BY <2>2, <2>3, <2>4
<1> QED  BY <1>2, <1>3 DEF TransitionTo

\* offer: a repeated or refused offer keeps the snapshot, a new one adds its record.
LEMMA OfferCases ==
    ASSUME NEW l \in Leases, NEW m \in Manifests, NEW d \in 0..MaxBlock,
           TypeOK, MapIsDurable, Offer(l, m, d)
    PROVE  Holds /\ reply' \in Replies /\ (Keeps \/ Change(l))
<1> USE DEF TypeOK
<1>1. up /\ records = file
  BY DEF MapIsDurable, Offer
<1>2. CASE Answer("record") \/ Refuse
  BY <1>1, <1>2, AnswerKeeps DEF Refuse, Replies
<1>3. CASE /\ records[l] = NoRecord
           /\ ~IsFull(records)
           /\ Commit([records EXCEPT ![l] = NewRecord(m, d)],
                     "record", executions, submissions)
  <2>1. "record" \in Replies
    BY DEF Replies
  <2>2. /\ Holds /\ block' = block /\ reply' \in Replies
        /\ \/ UNCHANGED <<file, executions, submissions>>
           \/ /\ file' = [file EXCEPT ![l] = NewRecord(m, d)]
              /\ SnapshotBytes(file') <= MaxStateBytes
              /\ UNCHANGED <<executions, submissions>>
    BY <1>1, <1>3, <2>1, CommitCases
  <2>3. CASE UNCHANGED <<file, executions, submissions>>
    BY <2>2, <2>3 DEF Keeps
  <2>4. CASE /\ file' = [file EXCEPT ![l] = NewRecord(m, d)]
             /\ SnapshotBytes(file') <= MaxStateBytes
             /\ UNCHANGED <<executions, submissions>>
    BY <1>1, <1>3, <2>2, <2>4 DEF Change, Adds, Writes
  <2> QED  BY <2>2, <2>3, <2>4
<1> QED  BY <1>2, <1>3 DEF Offer

\* claim_execution: it keeps the snapshot, expires the lease, or starts it.
LEMMA ClaimExecutionCases ==
    ASSUME NEW l \in Leases, TypeOK, MapIsDurable, ClaimExecution(l)
    PROVE  Holds /\ reply' \in Replies /\ (Keeps \/ Change(l))
<1> USE DEF TypeOK
<1>1. up /\ records = file
  BY DEF MapIsDurable, ClaimExecution
<1>2. CASE Answer("false") \/ Refuse
  BY <1>1, <1>2, AnswerKeeps DEF Refuse, Replies
<1>0. "false" \in Replies /\ "true" \in Replies
  BY DEF Replies
<1>3. CASE /\ records[l] # NoRecord
           /\ Late(records[l])
           /\ Update(l, Moved(records[l], "expired", NoCode),
                     "false", executions, submissions)
  <2>2. /\ Holds /\ block' = block /\ reply' \in Replies
        /\ \/ UNCHANGED <<file, executions, submissions>>
           \/ /\ ValidRecord(Moved(file[l], "expired", NoCode))
              /\ Writes(l, Moved(file[l], "expired", NoCode))
              /\ UNCHANGED <<executions, submissions>>
    BY <1>0, <1>1, <1>3, UpdateCases
  <2>3. CASE UNCHANGED <<file, executions, submissions>>
    BY <2>2, <2>3 DEF Keeps
  <2>4. CASE /\ ValidRecord(Moved(file[l], "expired", NoCode))
             /\ Writes(l, Moved(file[l], "expired", NoCode))
             /\ UNCHANGED <<executions, submissions>>
    <3>1. file[l] \in LeaseRecord
      BY <1>1, <1>3 DEF Store
    <3>2. IsAllowed(file[l], "expired", NoCode)
      BY <3>1, <1>1, <1>3, LateMayExpire
    <3>3. "expired" \in LeaseState /\ NoCode \in Codes \cup {NoCode}
      BY DEF LeaseState
    <3> QED  BY <1>1, <1>3, <2>2, <2>4, <3>2, <3>3 DEF Change, Advances
  <2> QED  BY <2>2, <2>3, <2>4
<1>4. CASE /\ records[l] # NoRecord
           /\ IsGranted(records[l])
           /\ Update(l, Started(records[l]),
                     "true", Count(executions, l), submissions)
  <2>2. /\ Holds /\ block' = block /\ reply' \in Replies
        /\ \/ UNCHANGED <<file, executions, submissions>>
           \/ /\ ValidRecord(Started(file[l]))
              /\ Writes(l, Started(file[l]))
              /\ executions' \in {executions, Count(executions, l)}
              /\ UNCHANGED submissions
    BY <1>0, <1>1, <1>4, UpdateCases
  <2>3. CASE UNCHANGED <<file, executions, submissions>>
    BY <2>2, <2>3 DEF Keeps
  <2>4. CASE /\ ValidRecord(Started(file[l]))
             /\ Writes(l, Started(file[l]))
             /\ executions' \in {executions, Count(executions, l)}
             /\ UNCHANGED submissions
    BY <1>1, <1>4, <2>2, <2>4 DEF Change, Starts
  <2> QED  BY <2>2, <2>3, <2>4
<1> QED  BY <1>2, <1>3, <1>4 DEF ClaimExecution

\* claim_evidence_submission: it keeps the snapshot or marks the lease submitted.
LEMMA ClaimEvidenceCases ==
    ASSUME NEW l \in Leases, TypeOK, MapIsDurable, ClaimEvidenceSubmission(l)
    PROVE  Holds /\ reply' \in Replies /\ (Keeps \/ Change(l))
<1> USE DEF TypeOK
<1>0. "true" \in Replies
  BY DEF Replies
<1>1. up /\ records = file
  BY DEF MapIsDurable, ClaimEvidenceSubmission
<1>2. CASE Answer("false") \/ Refuse
  BY <1>1, <1>2, AnswerKeeps DEF Refuse, Replies
<1>3. CASE /\ records[l] # NoRecord
           /\ IsUnsubmitted(records[l])
           /\ Update(l, Submitted(records[l]),
                     "true", executions, Count(submissions, l))
  <2>2. /\ Holds /\ block' = block /\ reply' \in Replies
        /\ \/ UNCHANGED <<file, executions, submissions>>
           \/ /\ ValidRecord(Submitted(file[l]))
              /\ Writes(l, Submitted(file[l]))
              /\ submissions' \in {submissions, Count(submissions, l)}
              /\ UNCHANGED executions
    BY <1>0, <1>1, <1>3, UpdateCases
  <2>3. CASE UNCHANGED <<file, executions, submissions>>
    BY <2>2, <2>3 DEF Keeps
  <2>4. CASE /\ ValidRecord(Submitted(file[l]))
             /\ Writes(l, Submitted(file[l]))
             /\ submissions' \in {submissions, Count(submissions, l)}
             /\ UNCHANGED executions
    BY <1>1, <1>3, <2>2, <2>4 DEF Change, Submits
  <2> QED  BY <2>2, <2>3, <2>4
<1> QED  BY <1>2, <1>3 DEF ClaimEvidenceSubmission

\* A step keeps the snapshot and the histories, or changes one record of it;
\* in both cases the process after it holds the new snapshot, if there is one.
LEMMA StepCases ==
    ASSUME TypeOK, MapIsDurable, [Next]_vars
    PROVE  Holds /\ reply' \in Replies /\ (Keeps \/ \E l \in Leases : Change(l))
<1> USE DEF TypeOK
<1>1. ASSUME NEW l \in Leases, NEW m \in Manifests, NEW d \in 0..MaxBlock,
             Offer(l, m, d)
      PROVE  Holds /\ reply' \in Replies /\ (Keeps \/ Change(l))
  BY <1>1, OfferCases
<1>2. ASSUME NEW l \in Leases, NEW t \in LeaseState,
             NEW c \in Codes \cup {NoCode}, Transition(l, t, c)
      PROVE  Holds /\ reply' \in Replies /\ (Keeps \/ Change(l))
  <2>1. up
    BY <1>2 DEF Transition
  <2>2. CASE Refuse
    BY <2>1, <2>2, AnswerKeeps DEF Refuse, Replies
  <2>3. CASE /\ records[l] # NoRecord
             /\ Late(records[l])
             /\ TransitionTo(l, records[l], "expired", NoCode)
    <3>1. "expired" \in LeaseState /\ NoCode \in Codes \cup {NoCode}
      BY DEF LeaseState
    <3> QED  BY <2>1, <2>3, <3>1, TransitionToCases
  <2>4. CASE /\ records[l] # NoRecord
             /\ ~Late(records[l])
             /\ TransitionTo(l, records[l], t, c)
    BY <2>1, <2>4, TransitionToCases
  <2> QED  BY <1>2, <2>2, <2>3, <2>4 DEF Transition
<1>3. CASE \E l \in Leases : ClaimExecution(l)
  BY <1>3, ClaimExecutionCases
<1>4. CASE \E l \in Leases : ClaimEvidenceSubmission(l)
  BY <1>4, ClaimEvidenceCases
<1>5. CASE Crash
  BY <1>5 DEF Crash, Holds, Keeps, Replies
<1>6. CASE Restart
  BY <1>6 DEF Restart, Holds, Keeps
<1>7. CASE Tick
  BY <1>7 DEF Tick, Holds, Keeps, MapIsDurable
<1>8. CASE UNCHANGED vars
  BY <1>8 DEF vars, Holds, Keeps, MapIsDurable
<1> QED  BY <1>1, <1>2, <1>3, <1>4, <1>5, <1>6, <1>7, <1>8 DEF Next

-----------------------------------------------------------------------------
(* The types.                                                               *)

\* The three record updates, field by field.
LEMMA MovedFields ==
    ASSUME NEW r \in LeaseRecord, NEW t \in LeaseState, NEW c \in Codes \cup {NoCode}
    PROVE  /\ Moved(r, t, c) \in LeaseRecord
           /\ Moved(r, t, c).manifest_digest = r.manifest_digest
           /\ Moved(r, t, c).deadline_block = r.deadline_block
           /\ Moved(r, t, c).state = t
           /\ Moved(r, t, c).revision = r.revision + 1
           /\ Moved(r, t, c).execution_started = r.execution_started
           /\ Moved(r, t, c).evidence_submitted = r.evidence_submitted
<1> DEFINE r1 == [r EXCEPT !.state = t]
           r2 == [r1 EXCEPT !.revision = @ + 1]
<1>1. r1 \in LeaseRecord
  BY DEF LeaseRecord
<1>2. Moved(r, t, c) = [r2 EXCEPT !.failure_code = c]
  BY DEF LeaseRecord, Moved
<1> HIDE DEF r1
<1>3. r2 \in LeaseRecord
  BY <1>1 DEF LeaseRecord
<1> HIDE DEF r2
<1>4. Moved(r, t, c) \in LeaseRecord
  BY <1>2, <1>3 DEF LeaseRecord
<1> QED  BY <1>4 DEF LeaseRecord, Moved

\* The record that claim_execution writes.
LEMMA StartedFields ==
    ASSUME NEW r \in LeaseRecord
    PROVE  /\ Started(r) \in LeaseRecord
           /\ Started(r).manifest_digest = r.manifest_digest
           /\ Started(r).deadline_block = r.deadline_block
           /\ Started(r).state = "running"
           /\ Started(r).revision = r.revision + 1
           /\ Started(r).execution_started
           /\ Started(r).evidence_submitted = r.evidence_submitted
<1> DEFINE r1 == [r EXCEPT !.state = "running"]
           r2 == [r1 EXCEPT !.revision = @ + 1]
<1>1. r1 \in LeaseRecord
  BY DEF LeaseRecord, LeaseState
<1>2. Started(r) = [r2 EXCEPT !.execution_started = TRUE]
  BY DEF LeaseRecord, Started
<1> HIDE DEF r1
<1>3. r2 \in LeaseRecord
  BY <1>1 DEF LeaseRecord
<1> HIDE DEF r2
<1>4. Started(r) \in LeaseRecord
  BY <1>2, <1>3 DEF LeaseRecord
<1> QED  BY <1>4 DEF LeaseRecord, Started

\* The record that claim_evidence_submission writes.
LEMMA SubmittedFields ==
    ASSUME NEW r \in LeaseRecord
    PROVE  /\ Submitted(r) \in LeaseRecord
           /\ Submitted(r).manifest_digest = r.manifest_digest
           /\ Submitted(r).deadline_block = r.deadline_block
           /\ Submitted(r).state = r.state
           /\ Submitted(r).revision = r.revision + 1
           /\ Submitted(r).execution_started = r.execution_started
           /\ Submitted(r).evidence_submitted
<1> DEFINE r1 == [r EXCEPT !.revision = @ + 1]
<1>1. r1 \in LeaseRecord
  BY DEF LeaseRecord
<1>2. Submitted(r) = [r1 EXCEPT !.evidence_submitted = TRUE]
  BY DEF LeaseRecord, Submitted
<1> HIDE DEF r1
<1>3. Submitted(r) \in LeaseRecord
  BY <1>1, <1>2 DEF LeaseRecord
<1> QED  BY <1>3 DEF LeaseRecord, Submitted

\* Each of the four changes writes a record.
LEMMA ChangeWrites ==
    ASSUME NEW l \in Leases, TypeOK, Change(l)
    PROVE  \E r \in LeaseRecord : Writes(l, r) /\ ValidRecord(r)
<1> USE DEF TypeOK
<1>0. file[l] # NoRecord => file[l] \in LeaseRecord
  BY DEF Store
<1>1. CASE Adds(l)
  <2>1. PICK m \in Manifests, d \in 0..MaxBlock : Writes(l, NewRecord(m, d))
    BY <1>1 DEF Adds
  <2>2. NewRecord(m, d) \in LeaseRecord
    BY DEF NewRecord, LeaseRecord, LeaseState
  <2>3. ValidRecord(NewRecord(m, d))
    BY BoundsAssumption DEF NewRecord, ValidRecord, ExecutingStates
  <2> QED  BY <2>1, <2>2, <2>3
<1>2. CASE Advances(l)
  <2>1. PICK t \in LeaseState, c \in Codes \cup {NoCode} :
            Writes(l, Moved(file[l], t, c)) /\ ValidRecord(Moved(file[l], t, c))
    BY <1>2 DEF Advances
  <2>2. Moved(file[l], t, c) \in LeaseRecord
    BY <1>0, <1>2, MovedFields DEF Advances
  <2> QED  BY <2>1, <2>2
<1>3. CASE Starts(l)
  <2>1. Started(file[l]) \in LeaseRecord
    BY <1>0, <1>3, StartedFields DEF Starts
  <2> QED  BY <1>3, <2>1 DEF Starts
<1>4. CASE Submits(l)
  <2>1. Submitted(file[l]) \in LeaseRecord
    BY <1>0, <1>4, SubmittedFields DEF Submits
  <2> QED  BY <1>4, <2>1 DEF Submits
<1> QED  BY <1>1, <1>2, <1>3, <1>4 DEF Change

\* The counts of granted claims stay naturals.
LEMMA ChangeCounts ==
    ASSUME NEW l \in Leases, TypeOK, Change(l)
    PROVE  executions' \in [Leases -> Nat] /\ submissions' \in [Leases -> Nat]
<1> USE DEF TypeOK
<1>1. Count(executions, l) \in [Leases -> Nat] /\ Count(submissions, l) \in [Leases -> Nat]
  BY DEF Count
<1> QED  BY <1>1 DEF Change, Adds, Advances, Starts, Submits

\* A fresh store holds no record.
LEMMA EmptyStoreType == EmptyStore \in Store
  BY DEF EmptyStore, Store

\* Every step keeps the types and persists before it assigns.
LEMMA TypeStep ==
    ASSUME TypeOK, MapIsDurable, [Next]_vars
    PROVE  TypeOK' /\ MapIsDurable'
<1> USE DEF TypeOK
<1>1. Holds /\ reply' \in Replies /\ (Keeps \/ \E l \in Leases : Change(l))
  BY StepCases
<1>2. /\ file' \in Store /\ block' \in 0..MaxBlock
      /\ executions' \in [Leases -> Nat] /\ submissions' \in [Leases -> Nat]
  <2>1. CASE Keeps
    BY <2>1, BoundsAssumption DEF Keeps
  <2>2. ASSUME NEW l \in Leases, Change(l)
        PROVE  <1>2
    <3>1. PICK r \in LeaseRecord : Writes(l, r)
      BY <2>2, ChangeWrites
    <3>2. file' \in Store /\ block' \in 0..MaxBlock
      BY <3>1 DEF Writes, Store
    <3> QED  BY <2>2, <3>2, ChangeCounts
  <2> QED  BY <1>1, <2>1, <2>2
<1> QED  BY <1>1, <1>2, EmptyStoreType DEF Holds, MapIsDurable

\* A fresh store has its types, and its map is its snapshot.
LEMMA TypeInit == Init => TypeOK /\ MapIsDurable
  BY EmptyStoreType, BoundsAssumption DEF Init, TypeOK, MapIsDurable, Replies

\* Every reachable state of the store is well typed, and a live store's map is
\* the snapshot on disk (_commit persists before it assigns).
THEOREM DurableMap == Spec => [](TypeOK /\ MapIsDurable)
<1>1. TypeOK /\ MapIsDurable /\ [Next]_vars => (TypeOK /\ MapIsDurable)'
  BY TypeStep
<1> QED  BY <1>1, TypeInit, PTL DEF Spec

-----------------------------------------------------------------------------
(* The snapshot can always be loaded.                                       *)

\* Writing a record adds its lease to the registry, or none if it was there.
LEMMA KnownGrows ==
    ASSUME NEW s \in Store, NEW l \in Leases, NEW r \in LeaseRecord
    PROVE  /\ IsFiniteSet(Known(s))
           /\ s[l] = NoRecord =>
                Cardinality(Known([s EXCEPT ![l] = r])) = Cardinality(Known(s)) + 1
           /\ s[l] # NoRecord =>
                Known([s EXCEPT ![l] = r]) = Known(s)
<1>1. IsFiniteSet(Known(s))
  BY LeasesAssumption, FS_Subset DEF Known
<1>2. r # NoRecord
  BY NoRecordAssumption
<1>3. Known([s EXCEPT ![l] = r]) = Known(s) \cup {l}
  BY <1>2 DEF Known, Store
<1>4. s[l] = NoRecord => l \notin Known(s)
  BY DEF Known
<1>5. s[l] # NoRecord => l \in Known(s)
  BY DEF Known
<1> QED  BY <1>1, <1>3, <1>4, <1>5, FS_AddElement

\* An empty snapshot is within every limit.
LEMMA EmptySnapshot == Loadable(EmptyStore)
<1>1. Known(EmptyStore) = {}
  BY DEF Known, EmptyStore
<1>2. SnapshotBytes(EmptyStore) = MapThenSumSet(LAMBDA l : RecordBytes(EmptyStore[l]), {})
  BY <1>1 DEF SnapshotBytes
<1>3. MapThenSumSet(LAMBDA l : RecordBytes(EmptyStore[l]), {}) = 0
  BY Zenon DEF MapThenSumSet, MapThenFoldSet
<1>4. Cardinality(Known(EmptyStore)) = 0
  BY <1>1, FS_EmptySet
<1> QED  BY <1>1, <1>2, <1>3, <1>4, BoundsAssumption DEF Loadable

\* No step writes a snapshot past a limit or with an invalid record.
LEMMA LoadableStep ==
    ASSUME TypeOK, MapIsDurable, SnapshotLoadable, [Next]_vars
    PROVE  SnapshotLoadable'
<1> USE DEF TypeOK
<1>1. CASE Keeps
  BY <1>1 DEF Keeps, SnapshotLoadable
<1>2. ASSUME NEW l \in Leases, Change(l)
      PROVE  SnapshotLoadable'
  <2>1. PICK r \in LeaseRecord : Writes(l, r) /\ ValidRecord(r)
    BY <1>2, ChangeWrites
  <2>2. file' = [file EXCEPT ![l] = r] /\ SnapshotBytes(file') <= MaxStateBytes
    BY <2>1 DEF Writes
  <2>3. Cardinality(Known(file)) \in Nat
    BY <2>1, KnownGrows, FS_CardinalityType
  <2>4. Cardinality(Known(file')) <= MaxRecords
    <3>1. CASE file[l] = NoRecord
      <4>1. ~IsFull(file)
        BY <1>2, <3>1 DEF Change, Adds, Advances, Starts, Submits
      <4>2. Cardinality(Known(file')) = Cardinality(Known(file)) + 1
        BY <2>1, <2>2, <3>1, KnownGrows
      <4> QED  BY <2>3, <4>1, <4>2, BoundsAssumption DEF IsFull
    <3>2. CASE file[l] # NoRecord
      <4>1. Known(file') = Known(file)
        BY <2>1, <2>2, <3>2, KnownGrows
      <4> QED  BY <4>1 DEF SnapshotLoadable, Loadable
    <3> QED  BY <3>1, <3>2
  <2>5. ASSUME NEW k \in Known(file')
        PROVE  ValidRecord(file'[k])
    <3>1. CASE k = l
      BY <2>1, <2>2, <3>1 DEF Store
    <3>2. CASE k # l
      <4>1. k \in Leases /\ file'[k] = file[k] /\ k \in Known(file)
        BY <2>2, <2>5, <3>2 DEF Known, Store
      <4> QED  BY <4>1 DEF SnapshotLoadable, Loadable
    <3> QED  BY <3>1, <3>2
  <2>6. Loadable(file')
    BY <2>2, <2>4, <2>5 DEF Loadable
  <2> QED  BY <2>6 DEF SnapshotLoadable
<1> QED  BY <1>1, <1>2, StepCases

\* No sequence of calls, write errors and crashes leaves a snapshot that the
\* next process refuses: a restart always succeeds in reading the store back.
THEOREM RestartSucceeds == Spec => []SnapshotLoadable
<1>1. Init => SnapshotLoadable
  BY EmptySnapshot DEF Init, SnapshotLoadable
<1>2. TypeOK /\ MapIsDurable /\ SnapshotLoadable /\ [Next]_vars => SnapshotLoadable'
  BY LoadableStep
<1> QED  BY <1>1, <1>2, DurableMap, PTL DEF Spec

-----------------------------------------------------------------------------
(* Claims.                                                                  *)

\* The inductive invariant behind the two claims: a granted claim has left its
\* marker on disk, where no crash can take it back.
ClaimsMarked ==
    \A l \in Leases :
        /\ \/ executions[l] = 0
           \/ /\ executions[l] = 1
              /\ file[l] # NoRecord
              /\ file[l].execution_started
        /\ \/ submissions[l] = 0
           \/ /\ submissions[l] = 1
              /\ file[l] # NoRecord
              /\ file[l].execution_started
              /\ file[l].evidence_submitted

\* No step grants a claim without its marker on disk, or removes a marker.
LEMMA ClaimsStep ==
    ASSUME TypeOK, MapIsDurable, SnapshotLoadable, ClaimsMarked, [Next]_vars
    PROVE  ClaimsMarked'
<1> USE DEF TypeOK
<1>1. CASE Keeps
  BY <1>1 DEF Keeps, ClaimsMarked
<1>2. ASSUME NEW l \in Leases, Change(l), NEW k \in Leases
      PROVE  /\ \/ executions'[k] = 0
                \/ /\ executions'[k] = 1
                   /\ file'[k] # NoRecord
                   /\ file'[k].execution_started
             /\ \/ submissions'[k] = 0
                \/ /\ submissions'[k] = 1
                   /\ file'[k] # NoRecord
                   /\ file'[k].execution_started
                   /\ file'[k].evidence_submitted
  <2>1. PICK r \in LeaseRecord : Writes(l, r) /\ ValidRecord(r)
    BY <1>2, ChangeWrites
  <2>2. file' = [file EXCEPT ![l] = r] /\ r # NoRecord
    BY <2>1, NoRecordAssumption DEF Writes
  <2>3. CASE k # l
    <3>1. file'[k] = file[k]
      BY <2>2, <2>3 DEF Store
    <3>2. executions'[k] = executions[k] /\ submissions'[k] = submissions[k]
      BY <1>2, <2>3 DEF Change, Adds, Advances, Starts, Submits, Count
    <3> QED  BY <3>1, <3>2 DEF ClaimsMarked
  <2>4. CASE k = l
    <3>0. file'[k] = r
      BY <2>2, <2>4 DEF Store
    <3>1. CASE Adds(l)
      BY <2>4, <3>1 DEF Adds, ClaimsMarked
    <3>2. CASE Advances(l)
      <4>1. PICK t \in LeaseState, c \in Codes \cup {NoCode} :
                IsAllowed(file[l], t, c) /\ Writes(l, Moved(file[l], t, c))
        BY <3>2 DEF Advances
      <4>2. file[l] \in LeaseRecord
        BY <3>2 DEF Advances, Store
      <4>3. file'[k] = Moved(file[l], t, c)
        BY <2>4, <4>1 DEF Writes, Store
      <4>4. /\ file'[k] # NoRecord
            /\ file'[k].execution_started = file[k].execution_started
            /\ file'[k].evidence_submitted = file[k].evidence_submitted
        BY <2>4, <4>2, <4>3, MovedFields, NoRecordAssumption
      <4> QED  BY <2>4, <3>2, <4>4 DEF Advances, ClaimsMarked
    <3>3. CASE Starts(l)
      <4>1. file[l] \in LeaseRecord /\ file'[k] = Started(file[l])
        BY <2>4, <3>3 DEF Starts, Writes, Store
      <4>2. /\ file'[k] # NoRecord
            /\ file'[k].execution_started
            /\ file'[k].evidence_submitted = file[k].evidence_submitted
        BY <2>4, <4>1, StartedFields, NoRecordAssumption
      <4>3. executions[k] = 0
        BY <2>4, <3>3 DEF Starts, IsGranted, ClaimsMarked
      <4>4. executions'[k] \in {0, 1} /\ submissions'[k] = submissions[k]
        BY <2>4, <3>3, <4>3 DEF Starts, Count
      <4> QED  BY <4>2, <4>4 DEF ClaimsMarked
    <3>4. CASE Submits(l)
      <4>1. file[l] \in LeaseRecord /\ file'[k] = Submitted(file[l])
        BY <2>4, <3>4 DEF Submits, Writes, Store
      <4>2. /\ file'[k] # NoRecord
            /\ file'[k].execution_started = file[k].execution_started
            /\ file'[k].evidence_submitted
        BY <2>4, <4>1, SubmittedFields, NoRecordAssumption
      <4>3. submissions[k] = 0
        BY <2>4, <3>4 DEF Submits, IsUnsubmitted, ClaimsMarked
      <4>4. submissions'[k] \in {0, 1} /\ executions'[k] = executions[k]
        BY <2>4, <3>4, <4>3 DEF Submits, Count
      <4>5. file[k].execution_started
        <5>1. k \in Known(file)
          BY <2>4, <3>4 DEF Submits, Known
        <5>2. ValidRecord(file[k]) /\ file[k].state = "completed"
          BY <2>4, <3>4, <5>1 DEF Submits, IsUnsubmitted, SnapshotLoadable, Loadable
        <5> QED  BY <5>2 DEF ValidRecord, ExecutingStates
      <4> QED  BY <4>2, <4>4, <4>5 DEF ClaimsMarked
    <3> QED  BY <1>2, <3>1, <3>2, <3>3, <3>4 DEF Change
  <2> QED  BY <2>3, <2>4
<1> QED  BY <1>1, <1>2, StepCases DEF ClaimsMarked

\* The inductive invariant behind the two claim theorems.
LEMMA ClaimsInv == Spec => []ClaimsMarked
<1>1. Init => ClaimsMarked
  BY DEF Init, ClaimsMarked
<1>2. TypeOK /\ MapIsDurable /\ SnapshotLoadable /\ ClaimsMarked /\ [Next]_vars
        => ClaimsMarked'
  BY ClaimsStep
<1> QED  BY <1>1, <1>2, DurableMap, RestartSucceeds, PTL DEF Spec

\* claim_execution answers True at most once per lease, over every sequence of
\* processes, crashes and failed writes.
THEOREM ExecutionOnce == Spec => []ExecutionClaimedOnce
<1>1. ClaimsMarked => ExecutionClaimedOnce
  BY DEF ClaimsMarked, ExecutionClaimedOnce
<1> QED  BY <1>1, ClaimsInv, PTL

\* claim_evidence_submission answers True at most once per lease, and only
\* after the execution of that lease was claimed.
THEOREM EvidenceOnce == Spec => []EvidenceClaimedOnce
<1>1. ClaimsMarked => EvidenceClaimedOnce
  BY DEF ClaimsMarked, EvidenceClaimedOnce
<1> QED  BY <1>1, ClaimsInv, PTL

-----------------------------------------------------------------------------
(* What a step may never do to a stored lease.                              *)

\* What a step can do to the record of one lease.
LEMMA HistoryStep ==
    ASSUME TypeOK, MapIsDurable, [Next]_vars, NEW k \in Leases,
           file[k] # NoRecord, file'[k] # file[k]
    PROVE  /\ file'[k] # NoRecord
           /\ file'[k].revision = file[k].revision + 1
           /\ file'[k].manifest_digest = file[k].manifest_digest
           /\ file'[k].deadline_block = file[k].deadline_block
           /\ file[k].execution_started => file'[k].execution_started
           /\ file[k].evidence_submitted => file'[k].evidence_submitted
           /\ Advance(file[k].state, file'[k].state)
<1> USE DEF TypeOK
<1>1. PICK l \in Leases : Change(l)
  BY StepCases DEF Keeps
<1>2. PICK w \in LeaseRecord : Writes(l, w)
  BY <1>1, ChangeWrites
<1>3. k = l
  BY <1>2 DEF Writes, Store
<1>4. file[k] \in LeaseRecord
  BY DEF Store
<1>5. CASE Advances(l)
  <2>1. PICK t \in LeaseState, c \in Codes \cup {NoCode} :
            IsAllowed(file[k], t, c) /\ Writes(k, Moved(file[k], t, c))
    BY <1>3, <1>5 DEF Advances
  <2>2. file'[k] = Moved(file[k], t, c)
    BY <2>1 DEF Writes, Store
  <2>3. file[k].state \in LeaseState
    BY <1>4 DEF LeaseRecord
  <2>4. Advance(file[k].state, t)
    BY <2>1, <2>3
    DEF IsAllowed, Follows, Advance, LeaseState, TerminalStates, ExecutingStates
  <2> QED  BY <1>4, <2>2, <2>4, MovedFields, NoRecordAssumption
<1>6. CASE Starts(l)
  <2>1. IsGranted(file[k]) /\ file'[k] = Started(file[k])
    BY <1>3, <1>6 DEF Starts, Writes, Store
  <2>2. Advance(file[k].state, "running")
    BY <2>1 DEF IsGranted, Advance
  <2> QED  BY <1>4, <2>1, <2>2, StartedFields, NoRecordAssumption
<1>7. CASE Submits(l)
  <2>1. IsUnsubmitted(file[k]) /\ file'[k] = Submitted(file[k])
    BY <1>3, <1>7 DEF Submits, Writes, Store
  <2>2. Advance(file[k].state, file[k].state)
    BY <2>1 DEF IsUnsubmitted, Advance
  <2> QED  BY <1>4, <2>1, <2>2, SubmittedFields, NoRecordAssumption
<1>8. ~Adds(l)
  BY <1>3 DEF Adds
<1> QED  BY <1>1, <1>5, <1>6, <1>7, <1>8 DEF Change

\* A stored lease only ever becomes its own next revision, forward in the life
\* cycle, with its offer and its claim markers kept.
THEOREM HistoryKept == Spec => LeaseHistory
<1>1. TypeOK /\ MapIsDurable /\ [Next]_vars =>
        [\A l \in Leases :
            LET r == file[l]
                s == file'[l]
            IN  r # NoRecord /\ s # r =>
                  /\ s # NoRecord
                  /\ s.revision = r.revision + 1
                  /\ s.manifest_digest = r.manifest_digest
                  /\ s.deadline_block = r.deadline_block
                  /\ r.execution_started => s.execution_started
                  /\ r.evidence_submitted => s.evidence_submitted
                  /\ Advance(r.state, s.state)]_vars
  BY HistoryStep
<1> QED  BY <1>1, DurableMap, PTL DEF Spec, LeaseHistory

\* What a step can do to a lease past its deadline.
LEMMA DeadlineStep ==
    ASSUME TypeOK, MapIsDurable, [Next]_vars, NEW k \in Leases,
           file[k] # NoRecord, Late(file[k])
    PROVE  /\ file'[k] = file[k] \/ file'[k].state = "expired"
           /\ executions'[k] = executions[k]
<1> USE DEF TypeOK
<1>1. CASE Keeps
  BY <1>1 DEF Keeps
<1>2. ASSUME NEW l \in Leases, Change(l)
      PROVE  /\ file'[k] = file[k] \/ file'[k].state = "expired"
             /\ executions'[k] = executions[k]
  <2>1. PICK w \in LeaseRecord : Writes(l, w)
    BY <1>2, ChangeWrites
  <2>2. CASE k # l
    <3>1. file'[k] = file[k]
      BY <2>1, <2>2 DEF Writes, Store
    <3>2. executions'[k] = executions[k]
      BY <1>2, <2>2 DEF Change, Adds, Advances, Starts, Submits, Count
    <3> QED  BY <3>1, <3>2
  <2>3. CASE k = l
    <3>1. file[k] \in LeaseRecord /\ file[k].deadline_block \in Int /\ block \in Int
      BY BoundsAssumption DEF Store, LeaseRecord
    <3>2. ~Adds(l) /\ ~Starts(l) /\ ~Submits(l)
      BY <2>3, <3>1
      DEF Adds, Starts, Submits, IsGranted, IsUnsubmitted, Late, TerminalStates
    <3>3. Advances(l)
      BY <1>2, <3>2 DEF Change
    <3>4. PICK t \in LeaseState, c \in Codes \cup {NoCode} :
              t = "expired" /\ Writes(k, Moved(file[k], t, c))
      BY <2>3, <3>3 DEF Advances
    <3>5. file'[k] = Moved(file[k], t, c)
      BY <3>4 DEF Writes, Store
    <3>6. file'[k].state = "expired"
      BY <3>1, <3>4, <3>5, MovedFields
    <3> QED  BY <3>3, <3>6 DEF Advances
  <2> QED  BY <2>2, <2>3
<1> QED  BY <1>1, <1>2, StepCases

\* Expired work fails closed: past its deadline an open lease can only expire.
THEOREM DeadlineKept == Spec => DeadlineHolds
<1>1. TypeOK /\ MapIsDurable /\ [Next]_vars =>
        [\A l \in Leases :
            file[l] # NoRecord /\ Late(file[l]) =>
               /\ file'[l] = file[l] \/ file'[l].state = "expired"
               /\ executions'[l] = executions[l]]_vars
  BY DeadlineStep
<1> QED  BY <1>1, DurableMap, PTL DEF Spec, DeadlineHolds

-----------------------------------------------------------------------------
(* Refinement.                                                              *)

PhaseMap == [l \in Leases |-> PhaseOf(file[l])]

\* A written record moves the phase of its lease and of no other.
LEMMA PhaseWrites ==
    ASSUME TypeOK, NEW l \in Leases, NEW r \in LeaseRecord, Writes(l, r)
    PROVE  PhaseMap' = [PhaseMap EXCEPT ![l] = PhaseOf(r)]
  BY DEF TypeOK, Writes, Store, PhaseMap

\* Every step of the store is a step of the contract, or a stutter.
LEMMA ContractStep ==
    ASSUME TypeOK, MapIsDurable, SnapshotLoadable, [Next]_vars
    PROVE  [Contract!ContractNext]_(Contract!contractVars)
<1> USE DEF TypeOK
<1>1. CASE Keeps
  BY <1>1 DEF Keeps, Contract!contractVars
<1>2. ASSUME NEW l \in Leases, Change(l)
      PROVE  [Contract!ContractNext]_(Contract!contractVars)
  <2>0. file[l] # NoRecord => file[l] \in LeaseRecord /\ ValidRecord(file[l])
    BY DEF Store, Known, SnapshotLoadable, Loadable
  <2>1. CASE Adds(l)
    <3>1. PICK m \in Manifests, d \in 0..MaxBlock : Writes(l, NewRecord(m, d))
      BY <2>1 DEF Adds
    <3>2. NewRecord(m, d) \in LeaseRecord
      BY DEF NewRecord, LeaseRecord, LeaseState
    <3>3. PhaseOf(NewRecord(m, d)) = "pending" /\ PhaseOf(file[l]) = "absent"
      BY <2>1, <3>2, NoRecordAssumption
      DEF Adds, PhaseOf, NewRecord, TerminalStates
    <3>4. Contract!Register(l)
      BY <2>1, <3>1, <3>2, <3>3, PhaseWrites
      DEF Adds, Contract!Register, Contract!Moves, PhaseMap
    <3> QED  BY <3>4 DEF Contract!ContractNext
  <2>2. CASE Advances(l)
    <3>1. PICK t \in LeaseState, c \in Codes \cup {NoCode} :
              IsAllowed(file[l], t, c) /\ Writes(l, Moved(file[l], t, c))
      BY <2>2 DEF Advances
    <3> DEFINE n == Moved(file[l], t, c)
    <3>2. file[l] \in LeaseRecord /\ ValidRecord(file[l]) /\ file[l] # NoRecord
      BY <2>0, <2>2 DEF Advances
    <3>3. /\ n \in LeaseRecord /\ n # NoRecord /\ n.state = t
          /\ n.evidence_submitted = file[l].evidence_submitted
      BY <3>2, MovedFields, NoRecordAssumption
    <3>4. ~file[l].evidence_submitted /\ file[l].state \notin TerminalStates
      BY <3>1, <3>2 DEF IsAllowed, Follows, ValidRecord, TerminalStates
    <3>5. PhaseMap' = [PhaseMap EXCEPT ![l] = PhaseOf(n)]
      BY <3>1, <3>3, PhaseWrites
    <3>6. UNCHANGED <<executions, submissions>>
      BY <2>2 DEF Advances
    <3> HIDE DEF n
    <3>7. \/ PhaseOf(file[l]) = PhaseOf(n)
          \/ PhaseOf(file[l]) = "executing" /\ PhaseOf(n) = "completed"
          \/ PhaseOf(file[l]) \in {"pending", "executing"} /\ PhaseOf(n) = "closed"
      BY <3>1, <3>2, <3>3, <3>4
      DEF IsAllowed, Follows, PhaseOf, TerminalStates, LeaseState
    <3>8. CASE PhaseOf(file[l]) = PhaseOf(n)
      <4>1. PhaseMap' = PhaseMap
        BY <3>5, <3>8 DEF PhaseMap
      <4> QED  BY <3>6, <4>1 DEF PhaseMap, Contract!contractVars
    <3>9. CASE PhaseOf(file[l]) = "executing" /\ PhaseOf(n) = "completed"
      <4>1. Contract!Complete(l)
        BY <3>5, <3>6, <3>9 DEF PhaseMap, Contract!Complete, Contract!Moves
      <4> QED  BY <4>1 DEF Contract!ContractNext
    <3>10. CASE PhaseOf(file[l]) \in {"pending", "executing"} /\ PhaseOf(n) = "closed"
      <4>1. Contract!Close(l)
        BY <3>5, <3>6, <3>10 DEF PhaseMap, Contract!Close, Contract!Moves
      <4> QED  BY <4>1 DEF Contract!ContractNext
    <3> QED  BY <3>7, <3>8, <3>9, <3>10
  <2>3. CASE Starts(l)
    <3>1. file[l] \in LeaseRecord /\ ValidRecord(file[l]) /\ IsGranted(file[l])
      BY <2>0, <2>3 DEF Starts
    <3>2. PhaseOf(file[l]) = "pending" /\ PhaseOf(Started(file[l])) = "executing"
      BY <2>3, <3>1, StartedFields, NoRecordAssumption
      DEF Starts, IsGranted, ValidRecord, PhaseOf, TerminalStates
    <3>3. PhaseMap' = [PhaseMap EXCEPT ![l] = "executing"]
      BY <2>3, <3>1, <3>2, StartedFields, PhaseWrites DEF Starts
    <3>4. Contract!Execute(l)
      BY <2>3, <3>2, <3>3
      DEF Starts, Count, PhaseMap, Contract!Execute, Contract!Moves, Contract!Won
    <3> QED  BY <3>4 DEF Contract!ContractNext
  <2>4. CASE Submits(l)
    <3>1. file[l] \in LeaseRecord /\ IsUnsubmitted(file[l])
      BY <2>0, <2>4 DEF Submits
    <3>2. PhaseOf(file[l]) = "completed" /\ PhaseOf(Submitted(file[l])) = "submitted"
      BY <2>4, <3>1, SubmittedFields, NoRecordAssumption
      DEF Submits, IsUnsubmitted, PhaseOf
    <3>3. PhaseMap' = [PhaseMap EXCEPT ![l] = "submitted"]
      BY <2>4, <3>1, <3>2, SubmittedFields, PhaseWrites DEF Submits
    <3>4. Contract!Submit(l)
      BY <2>4, <3>2, <3>3
      DEF Submits, Count, PhaseMap, Contract!Submit, Contract!Moves, Contract!Won
    <3> QED  BY <3>4 DEF Contract!ContractNext
  <2> QED  BY <1>2, <2>1, <2>2, <2>3, <2>4 DEF Change
<1> QED  BY <1>1, <1>2, StepCases

\* The store implements the contract of LeaseContract, with the phase of each
\* lease read from its record on disk.
THEOREM StoreImplementsContract == Spec => ImplementsContract
<1>1. Init => Contract!ContractInit
  BY DEF Init, EmptyStore, PhaseOf, Contract!ContractInit
<1>2. TypeOK /\ MapIsDurable /\ SnapshotLoadable /\ [Next]_vars
        => [Contract!ContractNext]_(Contract!contractVars)
  BY ContractStep
<1> QED
  BY <1>1, <1>2, DurableMap, RestartSucceeds, PTL
  DEF Spec, ImplementsContract, Contract!ContractSpec

=============================================================================
