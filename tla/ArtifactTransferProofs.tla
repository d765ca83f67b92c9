------------------------ MODULE ArtifactTransferProofs ------------------------
(***************************************************************************)
(* Proofs about ArtifactTransfer, for any artifacts, sizes, limits, chunks *)
(* and number of attempts.                                                 *)
(*                                                                         *)
(* The three invariants need what a fetch knows while it runs: it has      *)
(* attempts left and no result (InProgress), and as long as it met no      *)
(* failure of its own it has lost at most its first attempt, after which   *)
(* the partial file is a beginning of its artifact (Undisturbed).          *)
(***************************************************************************)
EXTENDS ArtifactTransfer, TLAPS

Bytes == [of : References \cup {Missing}, at : Nat]

\* The variables have their types.
TypeOK ==
    /\ stored \in [References -> Seq(Bytes) \cup {Missing}]
    /\ vouched \in [References -> BOOLEAN]
    /\ partial \in Seq(Bytes)
    /\ pc \in {"idle", "attempt", "copy", "hash"}
    /\ ref \in References
    /\ attempts \in Int
    /\ source \in Seq(Bytes)
    /\ faulty \in BOOLEAN

\* A fetch in progress is of an artifact that is not too large, has attempts
\* left and no result.
InProgress ==
    pc # "idle" =>
       /\ Size[ref] <= MaxBytes
       /\ attempts \in 1..MaxAttempts
       /\ result = "none"

\* p is a beginning of the artifact r.
Begins(p, r) ==
    /\ Len(p) <= Size[r]
    /\ \A i \in 1..Len(p) : p[i] = Byte(r, i)

\* A fetch that has met no failure of its own reads the artifact, has read it
\* to its end before it hashes the partial file, and has lost at most its first
\* attempt: after that the partial file is its own.
Undisturbed ==
    pc # "idle" /\ ~faulty =>
       /\ pc \in {"copy", "hash"} => source = Content(ref)
       /\ pc = "hash" => Len(partial) >= Size[ref]
       /\ attempts # MaxAttempts => attempts = MaxAttempts - 1 /\ Begins(partial, ref)

Inv ==
    /\ TypeOK
    /\ InProgress
    /\ Undisturbed
    /\ DestinationVerified
    /\ StalePartialHarmless
    /\ StoredIsServed

-----------------------------------------------------------------------------
(* Files                                                                    *)

\* An artifact is a sequence of its size of its own bytes.
LEMMA ContentFacts ==
    ASSUME NEW r \in References
    PROVE  /\ Content(r) \in Seq(Bytes)
           /\ Len(Content(r)) = Size[r]
           /\ \A i \in 1..Size[r] : Content(r)[i] = Byte(r, i)
<1>1. Size[r] \in Nat
  BY SizeAssumption
<1>2. \A i \in 1..Size[r] : Byte(r, i) \in Bytes
  BY <1>1 DEF Byte, Bytes
<1> QED  BY <1>1, <1>2 DEF Content

\* BadByte is a byte.
LEMMA BadByteType == BadByte \in Bytes
  BY DEF BadByte, Bytes

\* A stream's next n bytes, added to a file that is read up to their place.
LEMMA Extended ==
    ASSUME NEW p \in Seq(Bytes), NEW q \in Seq(Bytes), NEW n \in Nat,
           Len(p) + n <= Len(q)
    PROVE  LET e == p \o SubSeq(q, Len(p) + 1, Len(p) + n)
           IN  /\ e \in Seq(Bytes)
               /\ Len(e) = Len(p) + n
               /\ \A i \in 1..(Len(p) + n) : e[i] = IF i <= Len(p) THEN p[i] ELSE q[i]
<1> DEFINE t == SubSeq(q, Len(p) + 1, Len(p) + n)
<1>1. t \in Seq(Bytes) /\ Len(t) = n
  OBVIOUS
<1>2. \A i \in 1..n : t[i] = q[Len(p) + i]
  OBVIOUS
<1> HIDE DEF t
<1>3. p \o t \in Seq(Bytes) /\ Len(p \o t) = Len(p) + n
  BY <1>1
<1>4. ASSUME NEW i \in 1..(Len(p) + n)
      PROVE  (p \o t)[i] = IF i <= Len(p) THEN p[i] ELSE q[i]
  <2>1. CASE i <= Len(p)
    BY <1>1, <2>1
  <2>2. CASE i > Len(p)
    <3>1. i - Len(p) \in 1..n /\ Len(p) + (i - Len(p)) = i
      BY <2>2
    <3>2. (p \o t)[i] = t[i - Len(p)]
      BY <1>1, <2>2
    <3> QED  BY <1>2, <2>2, <3>1, <3>2
  <2>3. i <= Len(p) \/ i > Len(p)
    OBVIOUS
  <2> QED  BY <2>1, <2>2, <2>3
<1> QED  BY <1>3, <1>4 DEF t

\* A file that begins the artifact and is as long as it is the artifact.
LEMMA WholeBeginning ==
    ASSUME NEW r \in References, NEW p \in Seq(Bytes), Begins(p, r), Len(p) >= Size[r]
    PROVE  p = Content(r)
<1>1. Len(p) = Size[r] /\ Size[r] \in Nat
  BY SizeAssumption DEF Begins
<1>2. \A i \in 1..Len(p) : p[i] = Content(r)[i]
  BY <1>1, ContentFacts DEF Begins
<1> QED  BY <1>1, <1>2, ContentFacts

-----------------------------------------------------------------------------
(* The types                                                                *)

\* Every step keeps the types of the store.
LEMMA StoreTypeStep ==
    ASSUME TypeOK, [Next]_vars
    PROVE  /\ stored' \in [References -> Seq(Bytes) \cup {Missing}]
           /\ vouched' \in [References -> BOOLEAN]
<1> USE DEF TypeOK
<1>1. ASSUME NEW r \in References, StoreNew(r)
      PROVE  /\ stored' \in [References -> Seq(Bytes) \cup {Missing}]
             /\ vouched' \in [References -> BOOLEAN]
  BY <1>1, ContentFacts DEF StoreNew
<1>2. ASSUME NEW r \in References, StoreAgain(r)
      PROVE  /\ stored' \in [References -> Seq(Bytes) \cup {Missing}]
             /\ vouched' \in [References -> BOOLEAN]
  BY <1>2 DEF StoreAgain
<1>3. ASSUME NEW r \in References, Rot(r)
      PROVE  /\ stored' \in [References -> Seq(Bytes) \cup {Missing}]
             /\ vouched' \in [References -> BOOLEAN]
  <2> DEFINE f == stored[r]
  <2>1. f \in Seq(Bytes) /\ f # <<>>
    BY <1>3 DEF Rot, Available
  <2>2. SubSeq(f, 1, Len(f) - 1) \in Seq(Bytes)
    BY <2>1
  <2>3. [f EXCEPT ![1] = BadByte] \in Seq(Bytes)
    BY <2>1, BadByteType
  <2>4. \/ stored' = [stored EXCEPT ![r] = SubSeq(f, 1, Len(f) - 1)]
        \/ stored' = [stored EXCEPT ![r] = [f EXCEPT ![1] = BadByte]]
    BY <1>3 DEF Rot
  <2>5. vouched' \in [References -> BOOLEAN]
    BY <1>3 DEF Rot
  <2> HIDE DEF f
  <2> QED  BY <2>2, <2>3, <2>4, <2>5
<1>4. CASE UNCHANGED <<stored, vouched>>
  BY <1>4
<1> QED  BY <1>1, <1>2, <1>3, <1>4
      DEF Next, StoreNext, FetchStep, vars, Fetch, FetchRefused, PartialTooLong,
          RaisesAtOnce, OpenFails, Open, Chunk, BadChunk, StreamEnds, IOFails,
          AttemptBreaks, AttemptFails, Truncated, Mismatch, Publish, Crash

\* The history of failures is a Boolean.
LEMMA FaultyTypeStep ==
    ASSUME TypeOK, [Next]_vars
    PROVE  faulty' \in BOOLEAN
<1>1. faulty' = faulty \/ faulty' = TRUE => faulty' \in BOOLEAN
  BY Zenon DEF TypeOK
<1>2. ASSUME NEW r \in References, Fetch(r) \/ FetchRefused(r)
      PROVE  faulty' \in BOOLEAN
  <2>1. (Size[r] <= MaxBytes) \in BOOLEAN
    BY SizeAssumption, LimitsAssumption
  <2>2. faulty' = FALSE \/ faulty' = (Size[r] <= MaxBytes)
    BY <1>2, Zenon DEF Fetch, FetchRefused
  <2> QED  BY <2>1, <2>2, Zenon
<1>3. CASE Open
  <2>1. faulty' = (faulty \/ stored[ref] # Content(ref))
    BY <1>3, Zenon DEF Open
  <2> QED  BY <2>1, Zenon
<1>4. CASE StreamEnds
  <2>1. faulty' = (faulty \/ Len(partial) < Len(source))
    BY <1>4, Zenon DEF StreamEnds
  <2> QED  BY <2>1, Zenon
<1>5. CASE UNCHANGED faulty
  BY <1>1, <1>5
<1>6. CASE faulty' = TRUE
  BY <1>1, <1>6
<1> QED  BY <1>2, <1>3, <1>4, <1>5, <1>6
      DEF Next, StoreNext, StoreNew, StoreAgain, Rot, FetchStep, vars, fetchVars,
          PartialTooLong, Unlink, RaisesAtOnce, OpenFails, Chunk, BadChunk, IOFails,
          AttemptBreaks, Truncated, Mismatch, Publish, Crash

\* Every step keeps the types of a fetch.
LEMMA FetchTypeStep ==
    ASSUME TypeOK, [Next]_vars
    PROVE  /\ partial' \in Seq(Bytes)
           /\ pc' \in {"idle", "attempt", "copy", "hash"}
           /\ ref' \in References
           /\ attempts' \in Int
           /\ source' \in Seq(Bytes)
<1> DEFINE Goal == /\ partial' \in Seq(Bytes)
                   /\ pc' \in {"idle", "attempt", "copy", "hash"}
                   /\ ref' \in References
                   /\ attempts' \in Int
                   /\ source' \in Seq(Bytes)
<1> USE DEF TypeOK
<1>0. <<>> \in Seq(Bytes)
  OBVIOUS
<1>1. CASE UNCHANGED fetchVars
  BY <1>1 DEF fetchVars
<1>2. ASSUME NEW r \in References, Fetch(r) \/ FetchRefused(r)
      PROVE  Goal
  BY <1>2, LimitsAssumption DEF Fetch, FetchRefused, Ends
<1>3. CASE RaisesAtOnce \/ StreamEnds \/ Publish \/ Crash
  BY <1>0, <1>3 DEF RaisesAtOnce, StreamEnds, Publish, Crash, Ends
<1>4. CASE Open
  BY <1>4 DEF Open, Served, Available
<1>5. CASE AttemptFails /\ (partial' = partial \/ partial' = <<>>)
  <2>1. partial' \in Seq(Bytes)
    BY <1>0, <1>5
  <2> QED  BY <1>5, <2>1 DEF AttemptFails, Ends
<1>6. ASSUME NEW n \in 1..MaxChunk, Chunk(n)
      PROVE  Goal
  <2>1. n \in Nat
    BY LimitsAssumption
  <2>2. partial' \in Seq(Bytes)
    BY <1>6, <2>1, Extended DEF Chunk
  <2> QED  BY <1>6, <2>2 DEF Chunk
<1>7. ASSUME NEW n \in 1..MaxChunk, BadChunk(n), Fits(n)
      PROVE  Goal
  <2>1. [i \in 1..n |-> BadByte] \in Seq(Bytes)
    BY BadByteType, LimitsAssumption
  <2>2. partial' = partial \o [i \in 1..n |-> BadByte]
    BY <1>7 DEF BadChunk
  <2>3. partial' \in Seq(Bytes)
    BY <2>1, <2>2
  <2> QED  BY <1>7, <2>3 DEF BadChunk
<1>8. ASSUME NEW n \in 1..MaxChunk, BadChunk(n), ~Fits(n)
      PROVE  AttemptFails /\ partial' = partial
  BY <1>8 DEF BadChunk
<1>9. CASE PartialTooLong \/ OpenFails \/ IOFails \/ Truncated \/ Mismatch
  <2>1. AttemptFails /\ (partial' = partial \/ partial' = <<>>)
    BY <1>9 DEF PartialTooLong, OpenFails, IOFails, AttemptBreaks, Truncated, Mismatch, Unlink
  <2> QED  BY <1>5, <2>1
<1>10. CASE StoreNext
  BY <1>1, <1>10 DEF StoreNext, StoreNew, StoreAgain, Rot
<1> HIDE DEF TypeOK
<1> QED  BY <1>1, <1>2, <1>3, <1>4, <1>5, <1>6, <1>7, <1>8, <1>9, <1>10
      DEF Next, FetchStep, vars

-----------------------------------------------------------------------------
(* A step of a fetch, by what it does to its progress                       *)

\* The fetch goes on in the same attempt.
Continues ==
    /\ pc # "idle" /\ pc' # "idle"
    /\ UNCHANGED <<destination, ref, attempts, result>>

\* The attempt has failed on what was left in the partial file, on a partial
\* file that is too short, or for a reason of its own.
StaleFails ==
    /\ \/ pc = "attempt" /\ Len(partial) > Size[ref]
       \/ pc = "hash" /\ Len(partial) >= Size[ref] /\ ~Verified
    /\ Unlink
    /\ AttemptFails

OwnFails == pc # "idle" /\ AttemptFails /\ UNCHANGED partial /\ faulty' = TRUE

\* A failed attempt is one of three.
LEMMA FailCases ==
    /\ PartialTooLong \/ Mismatch => StaleFails
    /\ OpenFails \/ IOFails => OwnFails
    /\ \A n \in 1..MaxChunk : BadChunk(n) /\ ~Fits(n) => OwnFails
  BY DEF PartialTooLong, Mismatch, StaleFails, OpenFails, IOFails, AttemptBreaks,
         BadChunk, OwnFails

\* Every step keeps what is known of a fetch in progress.
LEMMA InProgressStep ==
    ASSUME TypeOK, InProgress, [Next]_vars
    PROVE  InProgress'
<1> USE DEF InProgress
<1>1. CASE UNCHANGED fetchVars
  BY <1>1 DEF fetchVars
<1>2. ASSUME NEW r \in References, Fetch(r)
      PROVE  InProgress'
  BY <1>2, LimitsAssumption DEF Fetch
<1>3. CASE pc' = "idle"
  BY <1>3
<1>4. CASE Continues
  BY <1>4 DEF Continues
<1>5. CASE pc # "idle" /\ AttemptFails
  BY <1>5, LimitsAssumption DEF AttemptFails, Ends
<1>6. CASE FetchStep
  <2>1. CASE RaisesAtOnce \/ Publish
    BY <1>3, <2>1 DEF RaisesAtOnce, Publish, Ends
  <2>2. CASE Open \/ StreamEnds
    BY <1>4, <2>2 DEF Open, StreamEnds, Continues
  <2>3. ASSUME NEW n \in 1..MaxChunk, Chunk(n) \/ (BadChunk(n) /\ Fits(n))
        PROVE  Continues
    BY <2>3 DEF Chunk, BadChunk, Continues
  <2>4. CASE StaleFails \/ OwnFails \/ Truncated
    BY <1>5, <2>4 DEF StaleFails, OwnFails, Truncated
  <2> QED  BY <1>4, <1>6, <2>1, <2>2, <2>3, <2>4, FailCases DEF FetchStep
<1>7. CASE Crash \/ \E r \in References : FetchRefused(r)
  BY <1>3, <1>7 DEF Crash, FetchRefused, Ends
<1>8. CASE StoreNext
  BY <1>1, <1>8 DEF StoreNext, StoreNew, StoreAgain, Rot
<1> QED  BY <1>1, <1>2, <1>6, <1>7, <1>8 DEF Next, vars

\* An undisturbed attempt fails only on what an earlier fetch left behind, and
\* only as the first.
LEMMA UndisturbedFails ==
    ASSUME TypeOK, InProgress, Undisturbed, ~faulty
    PROVE  /\ ~Truncated
           /\ StaleFails => attempts = MaxAttempts
<1>1. Size[ref] \in Nat /\ partial \in Seq(Bytes)
  BY SizeAssumption DEF TypeOK
<1>2. ~Truncated
  BY <1>1 DEF Truncated, Undisturbed
<1>3. ASSUME StaleFails, attempts # MaxAttempts
      PROVE  FALSE
  <2>1. pc # "idle" /\ Begins(partial, ref)
    BY <1>3 DEF StaleFails, Undisturbed
  <2>2. Len(partial) <= Size[ref]
    BY <2>1 DEF Begins
  <2>3. Len(partial) >= Size[ref] /\ ~Verified
    BY <1>1, <1>3, <2>2 DEF StaleFails
  <2> QED  BY <2>1, <2>3, WholeBeginning DEF TypeOK, Verified
<1> QED  BY <1>2, <1>3

\* Every step keeps an undisturbed fetch undisturbed, or notes the failure.
LEMMA UndisturbedStep ==
    ASSUME TypeOK, InProgress, Undisturbed, [Next]_vars
    PROVE  Undisturbed'
<1>1. CASE UNCHANGED fetchVars
  BY <1>1 DEF fetchVars, Undisturbed, Content, Begins
<1>2. ASSUME NEW r \in References, Fetch(r)
      PROVE  Undisturbed'
  BY <1>2 DEF Fetch, Undisturbed
<1>3. CASE pc' = "idle" \/ faulty' = TRUE
  BY <1>3 DEF Undisturbed
<1>4. CASE Open
  <2> SUFFICES ASSUME ~faulty'
               PROVE  Undisturbed'
    BY DEF Undisturbed
  <2>1. ~faulty /\ stored[ref] = Content(ref)
    BY <1>4, Zenon DEF Open
  <2>2. source' = Content(ref')
    BY <1>4, <2>1 DEF Open, Content
  <2> QED  BY <1>4, <2>1, <2>2 DEF Open, Undisturbed, Begins, Content
<1>5. CASE StreamEnds
  <2> SUFFICES ASSUME ~faulty'
               PROVE  Undisturbed'
    BY DEF Undisturbed
  <2>1. ~faulty /\ ~(Len(partial) < Len(source))
    BY <1>5, Zenon DEF StreamEnds
  <2>2. source = Content(ref) /\ pc # "idle"
    BY <1>5, <2>1 DEF StreamEnds, Undisturbed
  <2>3. Len(partial) >= Size[ref]
    BY <2>1, <2>2, ContentFacts, SizeAssumption DEF TypeOK
  <2> QED  BY <1>5, <2>1, <2>2, <2>3 DEF StreamEnds, Undisturbed, Begins, Content
<1>6. ASSUME NEW n \in 1..MaxChunk, Chunk(n)
      PROVE  Undisturbed'
  <2> SUFFICES ASSUME ~faulty
               PROVE  Undisturbed'
    BY <1>6 DEF Chunk, Undisturbed
  <2>1. pc = "copy" /\ source = Content(ref) /\ n \in Nat /\ ref \in References
    BY <1>6, LimitsAssumption DEF Chunk, Undisturbed, TypeOK
  <2>2. /\ Len(partial') = Len(partial) + n
        /\ \A i \in 1..(Len(partial) + n) :
              partial'[i] = IF i <= Len(partial) THEN partial[i] ELSE source[i]
        /\ Len(partial) + n <= Size[ref]
    BY <1>6, <2>1, Extended, ContentFacts DEF Chunk, TypeOK
  <2>3. ASSUME Begins(partial, ref)
        PROVE  Begins(partial', ref)
    <3>1. ASSUME NEW i \in 1..Len(partial')
          PROVE  partial'[i] = Byte(ref, i)
      <4>1. CASE i <= Len(partial)
        BY <2>2, <2>3, <4>1 DEF Begins, TypeOK
      <4>2. CASE ~(i <= Len(partial))
        <5>1. i \in 1..Size[ref] /\ partial'[i] = source[i]
          BY <2>1, <2>2, <4>2, SizeAssumption DEF TypeOK
        <5> QED  BY <2>1, <5>1, ContentFacts
      <4> QED  BY <4>1, <4>2
    <3> QED  BY <2>2, <3>1 DEF Begins
  <2> QED  BY <1>6, <2>1, <2>3 DEF Chunk, Undisturbed, Begins, Content
<1>7. CASE StaleFails
  <2> SUFFICES ASSUME ~faulty', pc' # "idle"
               PROVE  Undisturbed'
    BY DEF Undisturbed
  <2>1. ~faulty /\ partial' = <<>>
    BY <1>7 DEF StaleFails, Unlink
  <2>2. attempts = MaxAttempts
    BY <1>7, <2>1, UndisturbedFails
  <2>3. ref' = ref /\ attempts' = MaxAttempts - 1 /\ pc' = "attempt"
    BY <1>7, <2>2 DEF StaleFails, AttemptFails, Ends
  <2>4. Begins(partial', ref')
    BY <2>1, <2>3, SizeAssumption DEF Begins, TypeOK
  <2> QED  BY <2>3, <2>4 DEF Undisturbed
<1>8. CASE Truncated
  <2>1. faulty
    BY <1>8, UndisturbedFails
  <2> QED  BY <1>8, <2>1 DEF Truncated, Undisturbed
<1>9. CASE FetchStep
  <2>1. CASE RaisesAtOnce \/ Publish \/ OwnFails
    BY <1>3, <2>1 DEF RaisesAtOnce, Publish, OwnFails, Ends
  <2>2. ASSUME NEW n \in 1..MaxChunk, BadChunk(n)
        PROVE  faulty' = TRUE
    BY <2>2 DEF BadChunk
  <2> QED  BY <1>3, <1>4, <1>5, <1>6, <1>7, <1>8, <1>9, <2>1, <2>2, FailCases DEF FetchStep
<1>10. CASE Crash \/ \E r \in References : FetchRefused(r)
  BY <1>3, <1>10 DEF Crash, FetchRefused, Ends
<1>11. CASE StoreNext
  BY <1>1, <1>11 DEF StoreNext, StoreNew, StoreAgain, Rot
<1> QED  BY <1>1, <1>2, <1>9, <1>10, <1>11 DEF Next, vars

-----------------------------------------------------------------------------
(* The theorems                                                             *)

\* Every step keeps the destination verified: only Publish writes it, and a call
\* for another artifact starts without a result.
LEMMA DestinationStep ==
    ASSUME TypeOK, InProgress, DestinationVerified, [Next]_vars
    PROVE  DestinationVerified'
<1> USE DEF DestinationVerified, Content
<1>1. CASE UNCHANGED <<destination, ref, result>>
  BY <1>1
<1>2. CASE UNCHANGED destination /\ result' # "returned"
  BY <1>2
<1>3. CASE Publish
  <2>1. destination' = Content(ref) /\ ref' = ref /\ Size[ref] <= MaxBytes
    BY <1>3 DEF Publish, Verified, InProgress
  <2> QED  BY <2>1 DEF TypeOK
<1>4. ASSUME NEW r \in References, Fetch(r) \/ FetchRefused(r)
      PROVE  UNCHANGED destination /\ result' # "returned"
  BY <1>4 DEF Fetch, FetchRefused, Ends
<1>5. AttemptFails => UNCHANGED <<destination, ref, result>>
                      \/ (UNCHANGED destination /\ result' # "returned")
  BY DEF AttemptFails, Ends
<1>6. CASE FetchStep
  BY <1>1, <1>2, <1>3, <1>5, <1>6
     DEF FetchStep, PartialTooLong, RaisesAtOnce, OpenFails, Open, Chunk, BadChunk,
         StreamEnds, IOFails, AttemptBreaks, Truncated, Mismatch, Ends
<1>7. CASE Crash
  BY <1>2, <1>7 DEF Crash, Ends
<1>8. CASE StoreNext \/ UNCHANGED vars
  BY <1>1, <1>8 DEF StoreNext, StoreNew, StoreAgain, Rot, vars, fetchVars
<1> QED  BY <1>2, <1>4, <1>6, <1>7, <1>8 DEF Next

\* Every step keeps what a stale partial file may cost.
LEMMA StalePartialStep ==
    ASSUME TypeOK, InProgress, Undisturbed, StalePartialHarmless, [Next]_vars
    PROVE  StalePartialHarmless'
<1> USE DEF StalePartialHarmless
<1>1. CASE UNCHANGED <<result, faulty>>
  BY <1>1
<1>2. CASE result' # "exhausted" \/ faulty' = TRUE
  BY <1>2
<1>3. CASE Open \/ StreamEnds
  BY <1>2, <1>3 DEF Open, StreamEnds, InProgress
<1>4. ASSUME NEW n \in 1..MaxChunk, Chunk(n) \/ BadChunk(n)
      PROVE  StalePartialHarmless'
  BY <1>1, <1>2, <1>4 DEF Chunk, BadChunk
<1>5. CASE StaleFails
  <2> SUFFICES ASSUME result' = "exhausted", MaxAttempts >= 2, ~faulty'
               PROVE  FALSE
    OBVIOUS
  <2>1. ~faulty /\ pc # "idle"
    BY <1>5 DEF StaleFails, Unlink
  <2>2. attempts = MaxAttempts
    BY <1>5, <2>1, UndisturbedFails
  <2>3. UNCHANGED result
    BY <1>5, <2>2, LimitsAssumption DEF StaleFails, AttemptFails
  <2> QED  BY <2>1, <2>3 DEF InProgress
<1>6. CASE Truncated
  <2>1. faulty /\ UNCHANGED faulty
    BY <1>6, UndisturbedFails DEF Truncated
  <2> QED  BY <2>1
<1>7. CASE FetchStep
  <2>1. CASE RaisesAtOnce \/ Publish \/ OwnFails
    BY <1>2, <2>1 DEF RaisesAtOnce, Publish, OwnFails, Ends
  <2> QED  BY <1>3, <1>4, <1>5, <1>6, <1>7, <2>1, FailCases DEF FetchStep
<1>8. CASE Crash \/ \E r \in References : Fetch(r) \/ FetchRefused(r)
  BY <1>2, <1>8 DEF Crash, Fetch, FetchRefused, Ends
<1>9. CASE StoreNext \/ UNCHANGED vars
  BY <1>1, <1>9 DEF StoreNext, StoreNew, StoreAgain, Rot, vars, fetchVars
<1> QED  BY <1>7, <1>8, <1>9 DEF Next

\* Every step keeps what the store has vouched for.
LEMMA StoredStep ==
    ASSUME TypeOK, StoredIsServed, [Next]_vars
    PROVE  StoredIsServed'
<1> USE DEF StoredIsServed, Content
<1>1. ASSUME NEW r \in References, StoreNew(r) \/ StoreAgain(r)
      PROVE  StoredIsServed'
  BY <1>1 DEF StoreNew, StoreAgain, TypeOK
<1>2. ASSUME NEW r \in References, Rot(r)
      PROVE  StoredIsServed'
  <2>1. \A q \in References \ {r} : stored'[q] = stored[q] /\ vouched'[q] = vouched[q]
    BY <1>2 DEF Rot, TypeOK
  <2>2. ~vouched'[r]
    BY <1>2 DEF Rot, TypeOK
  <2> QED  BY <2>1, <2>2
<1>3. CASE UNCHANGED <<stored, vouched>>
  BY <1>3
<1> QED  BY <1>1, <1>2, <1>3
      DEF Next, StoreNext, FetchStep, vars, Fetch, FetchRefused, PartialTooLong,
          RaisesAtOnce, OpenFails, Open, Chunk, BadChunk, StreamEnds, IOFails,
          AttemptBreaks, AttemptFails, Truncated, Mismatch, Publish, Crash

\* The inductive invariant of the store and of fetch_verified.
LEMMA Invariant == Spec => []Inv
<1>1. Init => Inv
  <2> SUFFICES ASSUME Init PROVE Inv
    OBVIOUS
  <2>1. <<>> \in Seq(Bytes) /\ 0 \in Int
    OBVIOUS
  <2>2. faulty \in BOOLEAN /\ vouched \in [References -> BOOLEAN]
    BY Zenon DEF Init
  <2>3. TypeOK
    BY <2>1, <2>2 DEF Init, TypeOK
  <2> QED  BY <2>3 DEF Init, Inv, InProgress, Undisturbed, DestinationVerified,
                       StalePartialHarmless, StoredIsServed
<1>2. Inv /\ [Next]_vars => Inv'
  BY StoreTypeStep, FetchTypeStep, FaultyTypeStep, InProgressStep, UndisturbedStep,
     DestinationStep, StalePartialStep, StoredStep DEF Inv, TypeOK
<1> QED  BY <1>1, <1>2, PTL DEF Spec

\* Whatever the reader delivers, whatever an earlier fetch left in the partial
\* file and wherever the process dies, the destination only ever holds the
\* complete content of an artifact, and of the requested one when
\* fetch_verified returns.
THEOREM DestinationIsVerified == Spec => []DestinationVerified
<1>1. Inv => DestinationVerified
  BY DEF Inv
<1> QED  BY <1>1, Invariant, PTL

\* A partial file left by an earlier fetch costs fetch_verified at most one of
\* its attempts, however many it has and however large the artifacts are.
THEOREM StalePartialCostsOne == Spec => []StalePartialHarmless
<1>1. Inv => StalePartialHarmless
  BY DEF Inv
<1> QED  BY <1>1, Invariant, PTL

\* What store has returned for is in the store, whole, until the disk fails.
THEOREM StoreKeepsItsWord == Spec => []StoredIsServed
<1>1. Inv => StoredIsServed
  BY DEF Inv
<1> QED  BY <1>1, Invariant, PTL

=============================================================================
