----------------------------- MODULE ReplayCache -----------------------------
(***************************************************************************)
(* The replay cache of gpuforge (replay.py): tokens with the block at      *)
(* which they expire, and the highest sequence number of each scope, held  *)
(* in two maps and written to one file as a whole.                         *)
(*                                                                         *)
(* The process is single threaded, so a call is one action.  Inside it,    *)
(* _persist has four outcomes: the directory cannot be created (an OSError *)
(* that none of the callers catch), the write fails (ReplayProtectionError *)
(* after which the caller restores its maps), the file is replaced, or the *)
(* process dies after it was replaced.  The maps are keyed by a SHA-256    *)
(* digest of scope and token, taken here to be free of collisions.         *)
(***************************************************************************)
EXTENDS Integers, FiniteSets

CONSTANTS
    Keys,           \* digests of (scope, token)
    Scopes,         \* digests of sequence scopes
    MaxBlock,       \* bound on the chain's block
    MaxExpiry,      \* bound on the blocks at which tokens expire
    MaxSequence,    \* bound on sequence numbers
    MaxEntries,     \* max_entries
    MaxSequences,   \* max_sequences
    EntryBytes,     \* the JSON of one item of either map
    MaxStateBytes   \* _MAX_STATE_BYTES, the largest file _load reads

VARIABLES
    entries,    \* ReplayCache._entries
    sequences,  \* ReplayCache._sequences
    file,       \* both maps as last written to ReplayCache._path
    up,         \* TRUE while a process holds the cache
    block,      \* the chain's block, which callers pass as current_block
    reply,      \* how the last call ended
    grants,     \* history: tokens accepted under each key and not yet expired
    heldUntil,  \* history: the expiry of the last token accepted under each key
    accepted,   \* history: how many sequence numbers each scope has had accepted
    last        \* history: the last sequence number accepted in each scope

history == <<grants, heldUntil, accepted, last>>
vars == <<entries, sequences, file, up, block, reply, history>>

ASSUME SetsAssumption == IsFiniteSet(Keys) /\ IsFiniteSet(Scopes)
ASSUME BoundsAssumption ==
    /\ MaxBlock \in Nat
    /\ MaxExpiry \in Nat
    /\ MaxSequence \in Nat
    /\ MaxEntries \in Nat \ {0}
    /\ MaxSequences \in Nat \ {0}
    /\ EntryBytes \in Nat
    /\ MaxStateBytes \in Nat

-----------------------------------------------------------------------------
(* The maps and the file                                                    *)

\* The value of a key that is not in a map; less than every block and every
\* sequence number.
Absent == -1

Known(map) == {k \in DOMAIN map : map[k] # Absent}

NoEntries == [k \in Keys |-> Absent]
NoSequences == [s \in Scopes |-> Absent]

Snapshot(e, s) == [entries |-> e, sequences |-> s]

SnapshotBytes(f) ==
    EntryBytes * (Cardinality(Known(f.entries)) + Cardinality(Known(f.sequences)))

\* _load accepts the file.
Loadable(f) ==
    /\ SnapshotBytes(f) <= MaxStateBytes
    /\ Cardinality(Known(f.entries)) <= MaxEntries
    /\ Cardinality(Known(f.sequences)) <= MaxSequences

\* Variant of Purge: an entry is dropped one block early.
PurgeEarly(e) == [k \in Keys |-> IF e[k] > block THEN e[k] ELSE Absent]

\* _purge: an entry lives through its expiry block.
Purge(e) == [k \in Keys |-> IF e[k] >= block THEN e[k] ELSE Absent]

-----------------------------------------------------------------------------
(* How calls end                                                            *)

Replies == {"none", "accepted", "error", "oserror"}

\* The call raises and leaves the maps e and s behind.
Raise(r, e, s) ==
    /\ entries' = e
    /\ sequences' = s
    /\ reply' = r
    /\ UNCHANGED <<file, up, block, history>>

Refuse == Raise("error", entries, sequences)

\* The process is gone, and with it the maps and the answer.
Dies(f) ==
    /\ file' = f
    /\ up' = FALSE
    /\ entries' = NoEntries
    /\ sequences' = NoSequences
    /\ reply' = "none"
    /\ UNCHANGED <<block, history>>

\* The file holds the maps e and s, and the call returns.
Written(e, s) ==
    /\ file' = Snapshot(e, s)
    /\ entries' = e
    /\ sequences' = s
    /\ reply' = "accepted"
    /\ UNCHANGED <<up, block>>

\* _persist with the new maps e and s, called under a handler that restores
\* oldE and oldS; Record notes an acceptance in the history.
Persist(e, s, oldE, oldS, Record) ==
    \/ Raise("oserror", e, s)
    \/ Raise("error", oldE, oldS)
    \/ Dies(Snapshot(e, s))
    \/ Written(e, s) /\ Record

RecordToken(k, e) ==
    /\ grants' = [grants EXCEPT ![k] = @ + 1]
    /\ heldUntil' = [heldUntil EXCEPT ![k] = e]

RecordSequence(s, n) ==
    /\ accepted' = [accepted EXCEPT ![s] = @ + 1]
    /\ last' = [last EXCEPT ![s] = n]

-----------------------------------------------------------------------------
(* The calls                                                                *)

\* The token is new and there is room for it, after a purge.
Admits(e, k) == e[k] = Absent /\ Cardinality(Known(e)) < MaxEntries

\* Variant of AdmitsSequence: the same number is accepted again.
AdmitsRepeat(s, n) ==
    /\ n >= sequences[s]
    /\ sequences[s] = Absent => Cardinality(Known(sequences)) < MaxSequences

\* The number is the scope's next, and there is room for a new scope.
AdmitsSequence(s, n) ==
    /\ n > sequences[s]
    /\ sequences[s] = Absent => Cardinality(Known(sequences)) < MaxSequences

WithToken(e, k, x) == [e EXCEPT ![k] = x]

\* The purge is kept when the token is refused, and when the write fails.
AcceptOnce(k, e) ==
    LET purged == Purge(entries)
        new    == WithToken(purged, k, e)
    IN  /\ up
        /\ \/ e < block /\ Refuse
           \/ e >= block /\ ~Admits(purged, k) /\ Raise("error", purged, sequences)
           \/ /\ e >= block
              /\ Admits(purged, k)
              /\ Persist(new, sequences, purged, sequences,
                         RecordToken(k, e) /\ UNCHANGED <<accepted, last>>)

AcceptSequence(s, n) ==
    /\ up
    /\ \/ ~AdmitsSequence(s, n) /\ Refuse
       \/ /\ AdmitsSequence(s, n)
          /\ Persist(entries, [sequences EXCEPT ![s] = n], entries, sequences,
                     RecordSequence(s, n) /\ UNCHANGED <<grants, heldUntil>>)

\* Variant of AcceptOnceWithSequence: the token is written before the number,
\* and the process may die in between.
AcceptOnceThenSequence(k, e, s, n) ==
    LET purged == Purge(entries)
        new    == WithToken(purged, k, e)
    IN  /\ up
        /\ \/ ~(e >= block /\ Admits(purged, k) /\ AdmitsSequence(s, n)) /\ Refuse
           \/ /\ e >= block
              /\ Admits(purged, k)
              /\ AdmitsSequence(s, n)
              /\ \/ Dies(Snapshot(new, sequences))
                 \/ Persist(new, [sequences EXCEPT ![s] = n], entries, sequences,
                            RecordToken(k, e) /\ RecordSequence(s, n))

\* Here a refusal and a failed write undo the purge as well.
AcceptOnceWithSequence(k, e, s, n) ==
    LET purged == Purge(entries)
        new    == WithToken(purged, k, e)
    IN  /\ up
        /\ \/ e < block /\ Refuse
           \/ /\ e >= block
              /\ ~(Admits(purged, k) /\ AdmitsSequence(s, n))
              /\ Refuse
           \/ /\ e >= block
              /\ Admits(purged, k)
              /\ AdmitsSequence(s, n)
              /\ Persist(new, [sequences EXCEPT ![s] = n], entries, sequences,
                         RecordToken(k, e) /\ RecordSequence(s, n))

Crash == up /\ Dies(file)

\* Variant of Restart: sequence numbers are not read back.
RestartWithoutSequences ==
    /\ ~up
    /\ Loadable(file)
    /\ up' = TRUE
    /\ entries' = file.entries
    /\ sequences' = NoSequences
    /\ UNCHANGED <<file, block, reply, history>>

\* ReplayCache(path=...): reads the file back, or raises and there is no cache.
Restart ==
    /\ ~up
    /\ Loadable(file)
    /\ up' = TRUE
    /\ entries' = file.entries
    /\ sequences' = file.sequences
    /\ UNCHANGED <<file, block, reply, history>>

\* A block later; tokens that have expired by then may come again.
Tick ==
    /\ block < MaxBlock
    /\ block' = block + 1
    /\ grants' = [k \in Keys |-> IF heldUntil[k] >= block' THEN grants[k] ELSE 0]
    /\ UNCHANGED <<entries, sequences, file, up, reply, heldUntil, accepted, last>>

-----------------------------------------------------------------------------
Init ==
    /\ entries = NoEntries
    /\ sequences = NoSequences
    /\ file = Snapshot(NoEntries, NoSequences)
    /\ up = TRUE
    /\ block = 0
    /\ reply = "none"
    /\ grants = [k \in Keys |-> 0]
    /\ heldUntil = [k \in Keys |-> Absent]
    /\ accepted = [s \in Scopes |-> 0]
    /\ last = [s \in Scopes |-> Absent]

Next ==
    \/ \E k \in Keys, e \in 0..MaxExpiry : AcceptOnce(k, e)
    \/ \E s \in Scopes, n \in 0..MaxSequence : AcceptSequence(s, n)
    \/ \E k \in Keys, e \in 0..MaxExpiry, s \in Scopes, n \in 0..MaxSequence :
          AcceptOnceWithSequence(k, e, s, n)
    \/ Crash
    \/ Restart
    \/ Tick

Spec == Init /\ [][Next]_vars

-----------------------------------------------------------------------------
(* Properties                                                               *)

EntryMap == [Keys -> {Absent} \cup 0..MaxExpiry]
SequenceMap == [Scopes -> {Absent} \cup 0..MaxSequence]

\* The variables have their types.
TypeOK ==
    /\ entries \in EntryMap
    /\ sequences \in SequenceMap
    /\ file \in [entries : EntryMap, sequences : SequenceMap]
    /\ up \in BOOLEAN
    /\ block \in 0..MaxBlock
    /\ reply \in Replies
    /\ grants \in [Keys -> Nat]
    /\ heldUntil \in EntryMap
    /\ accepted \in [Scopes -> Nat]
    /\ last \in SequenceMap

\* Until it has expired, a token is accepted at most once: no purge, failed
\* write, rollback, crash or restart lets it in a second time.
ActiveTokenOnce == \A k \in Keys : grants[k] <= 1

\* The sequence numbers accepted in a scope strictly increase, over all the
\* processes that ever open the file one after the other.
SequencesIncrease ==
    [][\A s \in Scopes : accepted'[s] # accepted[s] => last'[s] > last[s]]_vars

\* The cache fails closed instead of evicting active entries: no later write
\* drops an unexpired token from the file or lowers a sequence number in it.
DecisionsKept ==
    [][/\ \A k \in Keys :
             file.entries[k] >= block => file'.entries[k] = file.entries[k]
       /\ \A s \in Scopes : file'.sequences[s] >= file.sequences[s]]_vars

\* Decisions survive a restart only if the next process can read the file.
FileLoadable == Loadable(file)

=============================================================================
