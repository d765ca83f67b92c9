--------------------------- MODULE ArtifactTransfer ---------------------------
(***************************************************************************)
(* Content-addressed artifacts (artifacts.py): the store of the local      *)
(* adapter, and fetch_verified, which resumes a partial file, retries, and *)
(* publishes the destination after hashing the complete file.              *)
(*                                                                         *)
(* One process fetches to one destination; it may die between any two      *)
(* steps, and the partial file stays behind for the next call, which may   *)
(* be for another artifact.  The store is used by other processes at any   *)
(* time.  An artifact is a sequence of bytes, and a byte knows which       *)
(* artifact and position it is from, so that two sequences are equal when  *)
(* their SHA-256 digests are.  A partial file that does not exist and an   *)
(* empty one are the same to the code.                                     *)
(***************************************************************************)
EXTENDS Integers, Sequences

CONSTANTS
    References,     \* the artifacts
    Size,           \* the size of each, ArtifactReference.size
    MaxBytes,       \* max_bytes, of the store and of the fetches
    MaxAttempts,    \* max_attempts
    MaxChunk,       \* _DEFAULT_CHUNK_BYTES
    Missing         \* no file

VARIABLES
    stored,         \* the store's file of each artifact, or Missing
    vouched,        \* history: store returned, and the disk has not failed since
    partial,        \* the partial file beside the destination
    destination,    \* the destination, or Missing
    pc,             \* "idle", or where fetch_verified is in an attempt
    ref,            \* the artifact of the last fetch
    attempts,       \* attempts left to it
    source,         \* what the opened stream would deliver
    result,         \* how the last fetch ended
    faulty          \* history: the reader or the disk failed during the last fetch

fetchVars == <<partial, destination, pc, ref, attempts, source, result, faulty>>
vars == <<stored, vouched, fetchVars>>

ASSUME SizeAssumption == Size \in [References -> Nat]
ASSUME LimitsAssumption ==
    /\ MaxBytes \in Nat \ {0}
    /\ MaxAttempts \in 1..5
    /\ MaxChunk \in Nat \ {0}

-----------------------------------------------------------------------------
(* Bytes                                                                    *)

Byte(r, i) == [of |-> r, at |-> i]
BadByte == [of |-> Missing, at |-> 0]

Content(r) == [i \in 1..Size[r] |-> Byte(r, i)]

-----------------------------------------------------------------------------
(* The store                                                                *)

Available(r) == stored[r] # Missing

\* Variant of StoreAgain: the file's name is taken as proof of its content.
StoreAgainUnchecked(r) ==
    /\ Available(r)
    /\ vouched' = [vouched EXCEPT ![r] = TRUE]
    /\ UNCHANGED <<stored, fetchVars>>

\* The file is there: its content is hashed again, and the call returns only
\* if it is right.  A file that is not is left alone.
StoreAgain(r) ==
    /\ Available(r)
    /\ stored[r] = Content(r)
    /\ vouched' = [vouched EXCEPT ![r] = TRUE]
    /\ UNCHANGED <<stored, fetchVars>>

\* The source delivered exactly the content to the temporary file, which is
\* moved into place.  Any other source, and a failing disk, change nothing.
StoreNew(r) ==
    /\ Size[r] <= MaxBytes
    /\ ~Available(r)
    /\ stored' = [stored EXCEPT ![r] = Content(r)]
    /\ \E returns \in BOOLEAN : vouched' = [vouched EXCEPT ![r] = returns]
    /\ UNCHANGED fetchVars

\* The disk loses the end of a stored file, or changes its first byte.
Rot(r) ==
    /\ Available(r)
    /\ stored[r] # <<>>
    /\ stored' \in {[stored EXCEPT ![r] = SubSeq(@, 1, Len(@) - 1)],
                    [stored EXCEPT ![r][1] = BadByte]}
    /\ stored' # stored
    /\ vouched' = [vouched EXCEPT ![r] = FALSE]
    /\ UNCHANGED fetchVars

-----------------------------------------------------------------------------
(* fetch_verified                                                           *)

\* The call ends with r.
Ends(r) == pc' = "idle" /\ result' = r

\* Too large an artifact, or a destination that cannot be used.
FetchRefused(r) ==
    /\ pc = "idle"
    /\ ref' = r
    /\ Ends("refused")
    /\ faulty' = (Size[r] <= MaxBytes)
    /\ UNCHANGED <<stored, vouched, partial, destination, attempts, source>>

Fetch(r) ==
    /\ pc = "idle"
    /\ Size[r] <= MaxBytes
    /\ ref' = r
    /\ attempts' = MaxAttempts
    /\ pc' = "attempt"
    /\ result' = "none"
    /\ faulty' = FALSE
    /\ UNCHANGED <<stored, vouched, partial, destination, source>>

\* Variant of AttemptFails: the attempts are not counted.
AttemptFailsUncounted ==
    /\ pc' = "attempt"
    /\ UNCHANGED <<attempts, result>>
    /\ UNCHANGED <<stored, vouched, destination, ref, source>>

\* The attempt raised ArtifactTransferError or OSError; after the last one the
\* call raises.
AttemptFails ==
    /\ attempts' = attempts - 1
    /\ IF attempts > 1
       THEN pc' = "attempt" /\ UNCHANGED result
       ELSE Ends("exhausted")
    /\ UNCHANGED <<stored, vouched, destination, ref, source>>

\* Variant of Unlink: nothing is removed.
UnlinkNot == UNCHANGED <<partial, faulty>>

\* _unlink, which ignores a failure.
Unlink ==
    \/ partial' = <<>> /\ UNCHANGED faulty
    \/ UNCHANGED partial /\ faulty' = TRUE

\* An attempt that fails and leaves the partial file as it is.
AttemptBreaks == AttemptFails /\ UNCHANGED partial /\ faulty' = TRUE

\* The partial file of an earlier fetch is longer than this artifact.
PartialTooLong ==
    /\ pc = "attempt"
    /\ Len(partial) > Size[ref]
    /\ Unlink
    /\ AttemptFails

\* Errors that the loop does not retry: no grant, or one the reader does not
\* accept, and a base ArtifactError, which the store raises when the directory
\* of the artifact's kind cannot be used.
RaisesAtOnce ==
    /\ pc = "attempt"
    /\ Len(partial) <= Size[ref]
    /\ Ends("unauthorized") \/ Ends("unavailable")
    /\ faulty' = TRUE
    /\ UNCHANGED <<stored, vouched, partial, destination, ref, attempts, source>>

\* open_read serves a file of the right size, whatever is in it.
Served(r) == Available(r) /\ Len(stored[r]) = Size[r]

\* open_read raises ArtifactTransferError or OSError.
OpenFails ==
    /\ pc = "attempt"
    /\ Len(partial) <= Size[ref]
    /\ AttemptFails
    /\ UNCHANGED partial
    /\ faulty' = TRUE

Open ==
    /\ pc = "attempt"
    /\ Len(partial) <= Size[ref]
    /\ Served(ref)
    /\ source' = stored[ref]
    /\ pc' = "copy"
    /\ faulty' = (faulty \/ stored[ref] # Content(ref))
    /\ UNCHANGED <<stored, vouched, partial, destination, ref, attempts, result>>

\* _copy_remaining accepts n more bytes.
Fits(n) == Len(partial) + n <= Size[ref]

\* The stream delivers its next n bytes.
Chunk(n) ==
    /\ pc = "copy"
    /\ Len(partial) + n <= Len(source)
    /\ partial' = partial \o SubSeq(source, Len(partial) + 1, Len(partial) + n)
    /\ UNCHANGED <<stored, vouched, destination, pc, ref, attempts, source, result, faulty>>

\* A reader other than the adapter may deliver anything, and more than there is.
BadChunk(n) ==
    /\ pc = "copy"
    /\ faulty' = TRUE
    /\ \/ /\ Fits(n)
          /\ partial' = partial \o [i \in 1..n |-> BadByte]
          /\ UNCHANGED <<stored, vouched, destination, pc, ref, attempts, source, result>>
       \/ ~Fits(n) /\ AttemptFails /\ UNCHANGED partial

\* The stream ends, at its end or before.
StreamEnds ==
    /\ pc = "copy"
    /\ pc' = "hash"
    /\ faulty' = (faulty \/ Len(partial) < Len(source))
    /\ UNCHANGED <<stored, vouched, partial, destination, ref, attempts, source, result>>

\* Reading, writing, hashing or replacing raises.
IOFails == pc \in {"copy", "hash"} /\ AttemptBreaks

Truncated ==
    /\ pc = "hash"
    /\ Len(partial) < Size[ref]
    /\ AttemptFails
    /\ UNCHANGED <<partial, faulty>>

\* Variant of Verified: the length is enough.
VerifiedByLength == Len(partial) = Size[ref]

\* The size and the digest of the partial file are the expected ones.
Verified == partial = Content(ref)

Mismatch ==
    /\ pc = "hash"
    /\ Len(partial) >= Size[ref]
    /\ ~Verified
    /\ Unlink
    /\ AttemptFails

\* os.replace, and the call returns, unless the process dies first.
Publish ==
    /\ pc = "hash"
    /\ Verified
    /\ destination' = partial
    /\ partial' = <<>>
    /\ Ends("returned") \/ Ends("none")
    /\ UNCHANGED <<stored, vouched, ref, attempts, source, faulty>>

Crash ==
    /\ pc # "idle"
    /\ Ends("none")
    /\ UNCHANGED <<stored, vouched, partial, destination, ref, attempts, source, faulty>>

-----------------------------------------------------------------------------
Init ==
    /\ stored = [r \in References |-> Missing]
    /\ vouched = [r \in References |-> FALSE]
    /\ partial = <<>>
    /\ destination = Missing
    /\ pc = "idle"
    /\ ref \in References
    /\ attempts = 0
    /\ source = <<>>
    /\ result = "none"
    /\ faulty = FALSE

StoreNext ==
    \E r \in References : StoreNew(r) \/ StoreAgain(r) \/ Rot(r)

FetchStep ==
    \/ PartialTooLong
    \/ RaisesAtOnce
    \/ OpenFails
    \/ Open
    \/ \E n \in 1..MaxChunk : Chunk(n) \/ BadChunk(n)
    \/ StreamEnds
    \/ IOFails
    \/ Truncated
    \/ Mismatch
    \/ Publish

Next ==
    \/ StoreNext
    \/ \E r \in References : Fetch(r) \/ FetchRefused(r)
    \/ FetchStep
    \/ Crash

Spec == Init /\ [][Next]_vars

\* A fetch that was called goes on until it ends.
FairSpec == Spec /\ WF_vars(FetchStep)

-----------------------------------------------------------------------------
(* Properties                                                               *)

\* The destination only ever holds the complete content of an artifact that was
\* asked for, and of the one the call was for when the call returns, whatever
\* the reader delivered and whatever an earlier fetch left behind.
DestinationVerified ==
    /\ destination # Missing =>
          \E r \in References : destination = Content(r) /\ Size[r] <= MaxBytes
    /\ result = "returned" => destination = Content(ref)

\* What an earlier fetch left in the partial file, of this artifact or of
\* another, costs at most one attempt: a fetch with two attempts or more that
\* fails has met a failure of its own, of the reader or of the disk.
StalePartialHarmless ==
    result = "exhausted" /\ MaxAttempts >= 2 => faulty

\* An artifact whose store returned can be fetched, until the disk fails.
StoredIsServed == \A r \in References : vouched[r] => stored[r] = Content(r)

\* Every fetch ends: the retries are bounded, and no stream keeps one busy.
FetchEnds == pc # "idle" ~> pc = "idle"

=============================================================================
