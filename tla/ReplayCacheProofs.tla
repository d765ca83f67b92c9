-------------------------- MODULE ReplayCacheProofs --------------------------
(***************************************************************************)
(* Proofs about ReplayCache, for any keys, scopes, limits and blocks, and  *)
(* about MessageAuthenticator, which extends it, for any messages and ages.*)
(*                                                                         *)
(* StepCases reduces a step to what it does to the maps and to the file.   *)
(* The inductive invariant says that the maps of a live process cover the  *)
(* file (Covers), and that the file covers every decision that was         *)
(* answered (Remembered).                                                  *)
(*                                                                         *)
(* An authentication has one of the same effects on the cache, so the      *)
(* cache's invariant holds there as well.  The history of accepted         *)
(* messages is tied to it by Counted and Passed: a message that was        *)
(* authenticated is either past its last fresh block or still held under   *)
(* its key, and evidence has moved the last number of its scope.           *)
(*                                                                         *)
(* That the file holds evidence whole is an invariant of its own: both     *)
(* pairs of maps, the ones in memory and the ones in the file, hold it so, *)
(* since an mkdir that fails leaves in memory what a later call writes.    *)
(***************************************************************************)
EXTENDS MessageAuthenticator, FiniteSetTheorems, TLAPS

-----------------------------------------------------------------------------
(* What a call can make of the maps                                         *)

\* The maps that a call may leave behind or write.
Tokens(e) ==
    \/ e = entries
    \/ e = Purge(entries)
    \/ \E k \in Keys, x \in 0..MaxExpiry :
          x >= block /\ Admits(Purge(entries), k) /\ e = WithToken(Purge(entries), k, x)

Numbers(q) ==
    \/ q = sequences
    \/ \E s \in Scopes, n \in 0..MaxSequence :
          AdmitsSequence(s, n) /\ q = [sequences EXCEPT ![s] = n]

\* The history notes a token that is new and now held, or none.
NotesToken ==
    \/ UNCHANGED <<grants, heldUntil>>
    \/ \E k \in Keys, x \in 0..MaxExpiry :
          RecordToken(k, x) /\ x >= block /\ entries[k] < block /\ entries'[k] = x

NotesNumber ==
    \/ UNCHANGED <<accepted, last>>
    \/ \E s \in Scopes, n \in 0..MaxSequence :
          RecordSequence(s, n) /\ n > sequences[s] /\ sequences'[s] = n

\* The process goes on with new maps and the old file.
Leaves ==
    /\ up /\ Tokens(entries') /\ Numbers(sequences')
    /\ reply' \in Replies
    /\ UNCHANGED <<file, up, block, history>>

\* The process ends, before or after it has written new maps.
Ends ==
    /\ up /\ up' = FALSE
    /\ \/ file' = file
       \/ \E e, q : Tokens(e) /\ Numbers(q) /\ file' = Snapshot(e, q)
    /\ entries' = NoEntries /\ sequences' = NoSequences
    /\ reply' \in Replies
    /\ UNCHANGED <<block, history>>

\* The process writes new maps and answers.
Accepts ==
    /\ up /\ Tokens(entries') /\ Numbers(sequences')
    /\ file' = Snapshot(entries', sequences')
    /\ NotesToken /\ NotesNumber
    /\ reply' \in Replies
    /\ UNCHANGED <<up, block>>

\* The effects of a step.
Effect == Leaves \/ Ends \/ Accepts \/ Restart \/ Tick \/ UNCHANGED vars

\* A purge keeps what has not expired.
LEMMA PurgeKeeps ==
    ASSUME TypeOK
    PROVE  /\ Purge(entries) \in EntryMap
           /\ \A k \in Keys : entries[k] >= block => Purge(entries)[k] = entries[k]
           /\ \A k \in Keys : Purge(entries)[k] = Absent => entries[k] < block
  BY BoundsAssumption DEF TypeOK, EntryMap, Purge, Absent

\* What _persist does with maps that a call may write.
LEMMA PersistCases ==
    ASSUME TypeOK, up, NEW e, NEW q, NEW oldE, NEW oldQ, NEW ACTION R,
           Tokens(e), Numbers(q), Tokens(oldE), Numbers(oldQ),
           Persist(e, q, oldE, oldQ, R)
    PROVE  Leaves \/ Ends \/ (Written(e, q) /\ R)
  BY DEF Persist, Raise, Dies, Leaves, Ends, Replies

\* accept_once
LEMMA AcceptOnceEffect ==
    ASSUME TypeOK, NEW k \in Keys, NEW x \in 0..MaxExpiry, AcceptOnce(k, x)
    PROVE  Leaves \/ Ends \/ Accepts
<1> DEFINE purged == Purge(entries)
<1>1. up /\ Tokens(entries) /\ Tokens(purged) /\ Numbers(sequences)
  BY DEF AcceptOnce, Tokens, Numbers
<1>2. CASE Refuse
  BY <1>1, <1>2 DEF Refuse, Raise, Leaves, Replies
<1>3. CASE Raise("error", purged, sequences)
  BY <1>1, <1>3 DEF Raise, Leaves, Replies
<1>4. CASE /\ x >= block
           /\ Admits(purged, k)
           /\ Persist(WithToken(purged, k, x), sequences, purged, sequences,
                      RecordToken(k, x) /\ UNCHANGED <<accepted, last>>)
  <2>1. Tokens(WithToken(purged, k, x))
    BY <1>4 DEF Tokens
  <2>2. CASE /\ Written(WithToken(purged, k, x), sequences)
             /\ RecordToken(k, x) /\ UNCHANGED <<accepted, last>>
    <3>1. entries'[k] = x /\ entries[k] < block
      BY <1>4, <2>2, PurgeKeeps DEF Written, WithToken, Admits, EntryMap
    <3> QED  BY <1>1, <1>4, <2>1, <2>2, <3>1
          DEF Written, Accepts, NotesToken, NotesNumber, Replies
  <2> QED  BY <1>1, <1>4, <2>1, <2>2, PersistCases
<1> QED  BY <1>2, <1>3, <1>4 DEF AcceptOnce

\* accept_sequence
LEMMA AcceptSequenceEffect ==
    ASSUME TypeOK, NEW s \in Scopes, NEW n \in 0..MaxSequence, AcceptSequence(s, n)
    PROVE  Leaves \/ Ends \/ Accepts
<1> DEFINE new == [sequences EXCEPT ![s] = n]
<1>1. up /\ Tokens(entries) /\ Numbers(sequences)
  BY DEF AcceptSequence, Tokens, Numbers
<1>2. CASE Refuse
  BY <1>1, <1>2 DEF Refuse, Raise, Leaves, Replies
<1>3. CASE /\ AdmitsSequence(s, n)
           /\ Persist(entries, new, entries, sequences,
                      RecordSequence(s, n) /\ UNCHANGED <<grants, heldUntil>>)
  <2>1. Numbers(new)
    BY <1>3 DEF Numbers
  <2>2. CASE /\ Written(entries, new)
             /\ RecordSequence(s, n) /\ UNCHANGED <<grants, heldUntil>>
    <3>1. sequences'[s] = n /\ n > sequences[s]
      BY <1>3, <2>2 DEF Written, AdmitsSequence, TypeOK, SequenceMap
    <3> QED  BY <1>1, <2>1, <2>2, <3>1 DEF Written, Accepts, NotesToken, NotesNumber, Replies
  <2> QED  BY <1>1, <1>3, <2>1, <2>2, PersistCases
<1> QED  BY <1>2, <1>3 DEF AcceptSequence

\* accept_once_with_sequence
LEMMA AcceptBothEffect ==
    ASSUME TypeOK, NEW k \in Keys, NEW x \in 0..MaxExpiry,
           NEW s \in Scopes, NEW n \in 0..MaxSequence,
           AcceptOnceWithSequence(k, x, s, n)
    PROVE  Leaves \/ Ends \/ Accepts
<1> DEFINE purged == Purge(entries)
           new    == [sequences EXCEPT ![s] = n]
<1>1. up /\ Tokens(entries) /\ Numbers(sequences)
  BY DEF AcceptOnceWithSequence, Tokens, Numbers
<1>2. CASE Refuse
  BY <1>1, <1>2 DEF Refuse, Raise, Leaves, Replies
<1>3. CASE /\ x >= block
           /\ Admits(purged, k)
           /\ AdmitsSequence(s, n)
           /\ Persist(WithToken(purged, k, x), new, entries, sequences,
                      RecordToken(k, x) /\ RecordSequence(s, n))
  <2>1. Tokens(WithToken(purged, k, x)) /\ Numbers(new)
    BY <1>3 DEF Tokens, Numbers
  <2>2. CASE /\ Written(WithToken(purged, k, x), new)
             /\ RecordToken(k, x) /\ RecordSequence(s, n)
    <3>1. entries'[k] = x /\ entries[k] < block
      BY <1>3, <2>2, PurgeKeeps DEF Written, WithToken, Admits, EntryMap
    <3>2. sequences'[s] = n /\ n > sequences[s]
      BY <1>3, <2>2 DEF Written, AdmitsSequence, TypeOK, SequenceMap
    <3> QED  BY <1>1, <1>3, <2>1, <2>2, <3>1, <3>2
          DEF Written, Accepts, NotesToken, NotesNumber, Replies
  <2> QED  BY <1>1, <1>3, <2>1, <2>2, PersistCases
<1> QED  BY <1>2, <1>3 DEF AcceptOnceWithSequence

\* Every step has one of the effects.
LEMMA StepCases ==
    ASSUME TypeOK, [Next]_vars
    PROVE  Effect
<1>1. Crash => Ends
  BY DEF Crash, Dies, Ends, Replies
<1> QED  BY <1>1, AcceptOnceEffect, AcceptSequenceEffect, AcceptBothEffect DEF Next, Effect

-----------------------------------------------------------------------------
(* The types                                                                *)

\* The maps a call may write have their types, keep every token that has not
\* expired, and lower no number.
LEMMA MapsKept ==
    ASSUME TypeOK
    PROVE  /\ \A e : Tokens(e) =>
                 /\ e \in EntryMap
                 /\ \A k \in Keys : entries[k] >= block => e[k] = entries[k]
           /\ \A q : Numbers(q) =>
                 /\ q \in SequenceMap
                 /\ \A s \in Scopes : q[s] >= sequences[s]
<1>1. ASSUME NEW e, Tokens(e)
      PROVE  e \in EntryMap /\ \A k \in Keys : entries[k] >= block => e[k] = entries[k]
  <2>1. CASE e = entries \/ e = Purge(entries)
    BY <2>1, PurgeKeeps DEF TypeOK
  <2>2. ASSUME NEW k \in Keys, NEW x \in 0..MaxExpiry,
               Admits(Purge(entries), k), e = WithToken(Purge(entries), k, x)
        PROVE  e \in EntryMap /\ \A j \in Keys : entries[j] >= block => e[j] = entries[j]
    <3>1. entries \in [Keys -> Int] /\ block \in Int
      BY BoundsAssumption DEF TypeOK, EntryMap, Absent
    <3> QED  BY <2>2, <3>1, PurgeKeeps DEF WithToken, Admits, EntryMap
  <2> QED  BY <1>1, <2>1, <2>2 DEF Tokens
<1>2. ASSUME NEW q, Numbers(q)
      PROVE  q \in SequenceMap /\ \A s \in Scopes : q[s] >= sequences[s]
  <2>1. sequences \in SequenceMap /\ sequences \in [Scopes -> Int]
    BY BoundsAssumption DEF TypeOK, SequenceMap, Absent
  <2>2. CASE q = sequences
    BY <2>1, <2>2
  <2>3. ASSUME NEW s \in Scopes, NEW n \in 0..MaxSequence,
               AdmitsSequence(s, n), q = [sequences EXCEPT ![s] = n]
        PROVE  q \in SequenceMap /\ \A z \in Scopes : q[z] >= sequences[z]
    BY <2>1, <2>3, BoundsAssumption DEF AdmitsSequence, SequenceMap
  <2> QED  BY <1>2, <2>2, <2>3 DEF Numbers
<1> QED  BY <1>1, <1>2

\* The empty maps have their types.
LEMMA EmptyMaps == NoEntries \in EntryMap /\ NoSequences \in SequenceMap
  BY DEF NoEntries, NoSequences, EntryMap, SequenceMap

\* The histories keep their types.
LEMMA HistoryTypes ==
    ASSUME TypeOK, NotesToken, NotesNumber
    PROVE  /\ grants' \in [Keys -> Nat] /\ heldUntil' \in EntryMap
           /\ accepted' \in [Scopes -> Nat] /\ last' \in SequenceMap
<1>1. grants' \in [Keys -> Nat] /\ heldUntil' \in EntryMap
  BY DEF TypeOK, NotesToken, RecordToken, EntryMap
<1>2. accepted' \in [Scopes -> Nat] /\ last' \in SequenceMap
  BY DEF TypeOK, NotesNumber, RecordSequence, SequenceMap
<1> QED  BY <1>1, <1>2

\* Every step keeps the types.
LEMMA TypeStep ==
    ASSUME TypeOK, Effect
    PROVE  TypeOK'
<1> USE DEF TypeOK
<1>1. CASE Leaves
  BY <1>1, MapsKept DEF Leaves, history
<1>2. CASE Ends
  <2>1. file' \in [entries : EntryMap, sequences : SequenceMap]
    BY <1>2, MapsKept DEF Ends, Snapshot
  <2> QED  BY <1>2, <2>1, EmptyMaps DEF Ends, history
<1>3. CASE Accepts
  <2>1. entries' \in EntryMap /\ sequences' \in SequenceMap
    BY <1>3, MapsKept DEF Accepts
  <2> QED  BY <1>3, <2>1, HistoryTypes DEF Accepts, Snapshot
<1>4. CASE Restart
  BY <1>4 DEF Restart, history
<1>5. CASE Tick
  <2>1. block' \in 0..MaxBlock
    BY <1>5, BoundsAssumption DEF Tick
  <2>2. grants' \in [Keys -> Nat]
    BY <1>5 DEF Tick
  <2> QED  BY <1>5, <2>1, <2>2 DEF Tick
<1>6. CASE UNCHANGED vars
  BY <1>6 DEF vars, history
<1> QED  BY <1>1, <1>2, <1>3, <1>4, <1>5, <1>6 DEF Effect

\* Every reachable state of the cache is well typed.
THEOREM TypeCorrect == Spec => []TypeOK
<1>1. Init => TypeOK
  BY EmptyMaps, BoundsAssumption
     DEF Init, TypeOK, Replies, Snapshot, EntryMap, SequenceMap
<1>2. TypeOK /\ [Next]_vars => TypeOK'
  BY StepCases, TypeStep
<1> QED  BY <1>1, <1>2, PTL DEF Spec

-----------------------------------------------------------------------------
(* Decisions are kept                                                       *)

\* The maps of a live process know every unexpired token of the file, and
\* numbers that are at least those of the file.
Covers ==
    up => /\ \A k \in Keys : file.entries[k] >= block => entries[k] = file.entries[k]
          /\ \A s \in Scopes : sequences[s] >= file.sequences[s]

\* Every answered decision is in the file: the token while it has not expired,
\* and a number that is at least the last one.
Remembered ==
    /\ \A k \in Keys :
          /\ grants[k] <= 1
          /\ grants[k] = 1 => heldUntil[k] >= block /\ file.entries[k] = heldUntil[k]
    /\ \A s \in Scopes : last[s] <= file.sequences[s]

\* The maps that a live process may write keep what is in the file.
LEMMA WritesKeep ==
    ASSUME TypeOK, Covers, up
    PROVE  /\ \A e : Tokens(e) =>
                 \A k \in Keys : file.entries[k] >= block => e[k] = file.entries[k]
           /\ \A q : Numbers(q) => \A s \in Scopes : q[s] >= file.sequences[s]
<1>1. /\ entries \in [Keys -> Int] /\ file.entries \in [Keys -> Int] /\ block \in Int
      /\ sequences \in [Scopes -> Int] /\ file.sequences \in [Scopes -> Int]
  BY BoundsAssumption DEF TypeOK, EntryMap, SequenceMap, Absent
<1>2. \A e : Tokens(e) =>
         \A k \in Keys : file.entries[k] >= block => e[k] = file.entries[k]
  BY <1>1, MapsKept DEF Covers
<1>3. ASSUME NEW q, Numbers(q), NEW s \in Scopes
      PROVE  q[s] >= file.sequences[s]
  <2>1. q \in [Scopes -> Int] /\ q[s] >= sequences[s]
    BY <1>3, MapsKept, BoundsAssumption DEF SequenceMap, Absent
  <2> QED  BY <1>1, <2>1 DEF Covers
<1> QED  BY <1>2, <1>3

\* What a step leaves of the file.
LEMMA FileStep ==
    ASSUME TypeOK, Covers, Effect
    PROVE  /\ \A k \in Keys :
                 file.entries[k] >= block => file'.entries[k] = file.entries[k]
           /\ \A s \in Scopes : file'.sequences[s] >= file.sequences[s]
<1>1. file.sequences \in [Scopes -> Int]
  BY BoundsAssumption DEF TypeOK, SequenceMap, Absent
<1>2. CASE file' = file
  BY <1>1, <1>2
<1>3. CASE up /\ \E e, q : Tokens(e) /\ Numbers(q) /\ file' = Snapshot(e, q)
  BY <1>3, WritesKeep DEF Snapshot
<1> QED  BY <1>2, <1>3
      DEF Effect, Leaves, Ends, Accepts, Restart, Tick, vars

\* Every step keeps the maps ahead of the file.
LEMMA CoversStep ==
    ASSUME TypeOK, Covers, Effect
    PROVE  Covers'
<1>1. /\ entries \in [Keys -> Int] /\ file.entries \in [Keys -> Int] /\ block \in Int
      /\ sequences \in [Scopes -> Int] /\ file.sequences \in [Scopes -> Int]
  BY BoundsAssumption DEF TypeOK, EntryMap, SequenceMap, Absent
<1>2. CASE Leaves
  BY <1>2, WritesKeep DEF Leaves, Covers
<1>3. CASE Ends
  BY <1>3 DEF Ends, Covers
<1>4. CASE Accepts
  <2>1. sequences' \in [Scopes -> Int]
    BY <1>4, MapsKept, BoundsAssumption DEF Accepts, SequenceMap, Absent
  <2> QED  BY <1>4, <2>1 DEF Accepts, Covers, Snapshot
<1>5. CASE Restart
  BY <1>1, <1>5 DEF Restart, Covers
<1>6. CASE Tick
  BY <1>1, <1>6 DEF Tick, Covers
<1>7. CASE UNCHANGED vars
  BY <1>7 DEF vars, Covers
<1> QED  BY <1>2, <1>3, <1>4, <1>5, <1>6, <1>7 DEF Effect

\* The maps of a live process always cover the file.
LEMMA CoversInv == Spec => []Covers
<1>1. Init => Covers
  BY DEF Init, Covers, Snapshot, NoEntries, NoSequences, Absent
<1>2. TypeOK /\ Covers /\ [Next]_vars => Covers'
  BY StepCases, CoversStep
<1> QED  BY <1>1, <1>2, TypeCorrect, PTL DEF Spec

\* No write drops an unexpired token from the file or lowers a number in it,
\* after any failed writes, rollbacks, crashes and restarts.
THEOREM DecisionsAreKept == Spec => DecisionsKept
<1>1. TypeOK /\ Covers /\ [Next]_vars =>
        [/\ \A k \in Keys :
               file.entries[k] >= block => file'.entries[k] = file.entries[k]
         /\ \A s \in Scopes : file'.sequences[s] >= file.sequences[s]]_vars
  BY StepCases, FileStep
<1> QED  BY <1>1, TypeCorrect, CoversInv, PTL DEF Spec, DecisionsKept

\* Every step keeps answered decisions in the file.
LEMMA RememberedStep ==
    ASSUME TypeOK, Covers, Remembered, Effect
    PROVE  Remembered'
<1>1. /\ entries \in [Keys -> Int] /\ file.entries \in [Keys -> Int] /\ block \in Int
      /\ sequences \in [Scopes -> Int] /\ file.sequences \in [Scopes -> Int]
      /\ heldUntil \in [Keys -> Int] /\ last \in [Scopes -> Int]
      /\ grants \in [Keys -> Nat]
  BY BoundsAssumption DEF TypeOK, EntryMap, SequenceMap, Absent
<1>2. file'.sequences \in [Scopes -> Int]
  BY TypeStep, BoundsAssumption DEF TypeOK, SequenceMap, Absent
<1>3. CASE UNCHANGED <<block, history>>
  BY <1>1, <1>2, <1>3, FileStep DEF history, Remembered
<1>4. CASE Accepts
  <2>1. ASSUME NEW k \in Keys
        PROVE  /\ grants'[k] <= 1
               /\ grants'[k] = 1 => heldUntil'[k] >= block' /\ file'.entries[k] = heldUntil'[k]
    <3>1. CASE UNCHANGED <<grants, heldUntil>>
      BY <1>1, <1>4, <3>1, FileStep DEF Accepts, Remembered
    <3>2. ASSUME NEW j \in Keys, NEW x \in 0..MaxExpiry, RecordToken(j, x),
                 x >= block, entries[j] < block, entries'[j] = x
          PROVE  /\ grants'[k] <= 1
                 /\ grants'[k] = 1 => heldUntil'[k] >= block' /\ file'.entries[k] = heldUntil'[k]
      <4>1. CASE k # j
        BY <1>1, <1>4, <3>2, <4>1, FileStep DEF Accepts, Remembered, RecordToken
      <4>2. CASE k = j
        <5>1. grants[k] = 0
          BY <1>1, <1>4, <3>2, <4>2 DEF Accepts, Remembered, Covers
        <5> QED  BY <1>1, <1>4, <3>2, <4>2, <5>1 DEF Accepts, RecordToken, Snapshot
      <4> QED  BY <4>1, <4>2
    <3> QED  BY <1>4, <3>1, <3>2 DEF Accepts, NotesToken
  <2>2. ASSUME NEW s \in Scopes
        PROVE  last'[s] <= file'.sequences[s]
    <3>1. CASE last' = last
      BY <1>1, <1>2, <3>1, FileStep DEF Remembered
    <3>2. ASSUME NEW z \in Scopes, NEW n \in 0..MaxSequence, RecordSequence(z, n),
                 sequences'[z] = n
          PROVE  last'[s] <= file'.sequences[s]
      BY <1>1, <1>2, <1>4, <3>2, FileStep, BoundsAssumption
         DEF Accepts, Remembered, RecordSequence, Snapshot
    <3> QED  BY <1>4, <3>1, <3>2 DEF Accepts, NotesNumber
  <2> QED  BY <2>1, <2>2 DEF Remembered
<1>5. CASE Tick
  BY <1>1, <1>5 DEF Tick, Remembered
<1> QED  BY <1>3, <1>4, <1>5
      DEF Effect, Leaves, Ends, Restart, vars, history

\* Every answered decision is in the file.
LEMMA RememberedInv == Spec => []Remembered
<1>1. Init => Remembered
  BY DEF Init, Remembered, Snapshot, NoEntries, NoSequences, Absent
<1>2. TypeOK /\ Covers /\ Remembered /\ [Next]_vars => Remembered'
  BY StepCases, RememberedStep
<1> QED  BY <1>1, <1>2, TypeCorrect, CoversInv, PTL DEF Spec

\* A token that has not expired is accepted at most once, over purges, failed
\* writes, rollbacks, crashes and restarts.
THEOREM TokensOnce == Spec => []ActiveTokenOnce
<1>1. Remembered => ActiveTokenOnce
  BY DEF Remembered, ActiveTokenOnce
<1> QED  BY <1>1, RememberedInv, PTL

\* A step that accepts a number of a scope accepts a larger one than the last.
LEMMA NumbersStep ==
    ASSUME TypeOK, Covers, Remembered, Effect, NEW s \in Scopes,
           accepted'[s] # accepted[s]
    PROVE  last'[s] > last[s]
<1>1. /\ sequences \in [Scopes -> Int] /\ file.sequences \in [Scopes -> Int]
      /\ last \in [Scopes -> Int] /\ accepted \in [Scopes -> Nat]
  BY BoundsAssumption DEF TypeOK, SequenceMap, Absent
<1>2. Accepts
  BY DEF Effect, Leaves, Ends, Restart, Tick, vars, history
<1>3. PICK z \in Scopes, n \in 0..MaxSequence : RecordSequence(z, n) /\ n > sequences[z]
  BY <1>2 DEF Accepts, NotesNumber
<1>4. s = z
  BY <1>1, <1>3 DEF RecordSequence
<1>5. last'[s] = n /\ n > sequences[s] /\ sequences[s] >= file.sequences[s]
  BY <1>1, <1>2, <1>3, <1>4 DEF RecordSequence, Accepts, Covers
<1> QED  BY <1>1, <1>5, BoundsAssumption DEF Remembered

\* The numbers accepted in a scope strictly increase over all processes.
THEOREM NumbersIncrease == Spec => SequencesIncrease
<1>1. TypeOK /\ Covers /\ Remembered /\ [Next]_vars =>
        [\A s \in Scopes : accepted'[s] # accepted[s] => last'[s] > last[s]]_vars
  BY StepCases, NumbersStep
<1> QED  BY <1>1, TypeCorrect, CoversInv, RememberedInv, PTL DEF Spec, SequencesIncrease

-----------------------------------------------------------------------------
(* The file can be read back, when a full cache fits into it                *)

\* The file and the maps of a live process are within both capacities.
WithinLimits ==
    /\ Cardinality(Known(file.entries)) <= MaxEntries
    /\ Cardinality(Known(file.sequences)) <= MaxSequences
    /\ Cardinality(Known(entries)) <= MaxEntries
    /\ Cardinality(Known(sequences)) <= MaxSequences

\* The known keys of a map are a finite set.
LEMMA KnownFinite ==
    /\ \A e \in EntryMap : IsFiniteSet(Known(e)) /\ Cardinality(Known(e)) \in Nat
    /\ \A q \in SequenceMap : IsFiniteSet(Known(q)) /\ Cardinality(Known(q)) \in Nat
<1>1. ASSUME NEW e \in EntryMap
      PROVE  IsFiniteSet(Known(e))
  <2>1. Known(e) \subseteq Keys
    BY DEF Known, EntryMap
  <2> QED  BY <2>1, SetsAssumption, FS_Subset
<1>2. ASSUME NEW q \in SequenceMap
      PROVE  IsFiniteSet(Known(q))
  <2>1. Known(q) \subseteq Scopes
    BY DEF Known, SequenceMap
  <2> QED  BY <2>1, SetsAssumption, FS_Subset
<1> QED  BY <1>1, <1>2, FS_CardinalityType

\* A purge only makes the map of tokens smaller.
LEMMA PurgeShrinks ==
    ASSUME TypeOK
    PROVE  Cardinality(Known(Purge(entries))) <= Cardinality(Known(entries))
<1>1. Known(Purge(entries)) \subseteq Known(entries)
  BY DEF TypeOK, EntryMap, Known, Purge, Absent
<1> QED  BY <1>1, KnownFinite, FS_Subset DEF TypeOK

\* The maps that a call may write are within the capacities.
LEMMA MapsWithinLimits ==
    ASSUME TypeOK, WithinLimits
    PROVE  /\ \A e : Tokens(e) => Cardinality(Known(e)) <= MaxEntries
           /\ \A q : Numbers(q) => Cardinality(Known(q)) <= MaxSequences
<1> DEFINE purged == Purge(entries)
<1>1. /\ Cardinality(Known(purged)) \in Nat /\ IsFiniteSet(Known(purged))
      /\ Cardinality(Known(purged)) <= MaxEntries
  BY KnownFinite, PurgeShrinks, PurgeKeeps, BoundsAssumption DEF TypeOK, WithinLimits
<1>2. ASSUME NEW k \in Keys, NEW x \in 0..MaxExpiry, Admits(purged, k)
      PROVE  Cardinality(Known(WithToken(purged, k, x))) <= MaxEntries
  <2>1. Known(WithToken(purged, k, x)) = Known(purged) \cup {k}
    BY PurgeKeeps DEF EntryMap, Known, WithToken, Absent
  <2>2. k \notin Known(purged)
    BY <1>2 DEF Admits, Known
  <2>3. Cardinality(Known(purged) \cup {k}) = Cardinality(Known(purged)) + 1
    BY <1>1, <2>2, FS_AddElement
  <2> QED  BY <1>1, <1>2, <2>1, <2>3, BoundsAssumption DEF Admits
<1>3. ASSUME NEW s \in Scopes, NEW n \in 0..MaxSequence, AdmitsSequence(s, n)
      PROVE  Cardinality(Known([sequences EXCEPT ![s] = n])) <= MaxSequences
  <2>1. Known([sequences EXCEPT ![s] = n]) = Known(sequences) \cup {s}
    BY DEF TypeOK, SequenceMap, Known, Absent
  <2>2. IsFiniteSet(Known(sequences)) /\ Cardinality(Known(sequences)) \in Nat
    BY KnownFinite DEF TypeOK
  <2>3. CASE sequences[s] = Absent
    <3>1. s \notin Known(sequences)
      BY <2>3 DEF Known
    <3>2. Cardinality(Known(sequences) \cup {s}) = Cardinality(Known(sequences)) + 1
      BY <2>2, <3>1, FS_AddElement
    <3>3. Cardinality(Known(sequences)) < MaxSequences
      BY <1>3, <2>3 DEF AdmitsSequence
    <3>4. Cardinality(Known([sequences EXCEPT ![s] = n])) = Cardinality(Known(sequences)) + 1
      BY <2>1, <3>2, Zenon
    <3> QED  BY <2>2, <3>3, <3>4, BoundsAssumption
  <2>4. CASE sequences[s] # Absent
    <3>1. Known(sequences) \cup {s} = Known(sequences)
      BY <2>4 DEF TypeOK, SequenceMap, Known
    <3> QED  BY <2>1, <3>1 DEF WithinLimits
  <2> QED  BY <2>3, <2>4
<1> QED  BY <1>1, <1>2, <1>3 DEF Tokens, Numbers, WithinLimits

\* The empty maps are within the capacities.
LEMMA EmptyWithinLimits ==
    Cardinality(Known(NoEntries)) = 0 /\ Cardinality(Known(NoSequences)) = 0
<1>1. Known(NoEntries) = {} /\ Known(NoSequences) = {}
  BY DEF Known, NoEntries, NoSequences
<1> QED  BY <1>1, FS_EmptySet

\* Every step keeps the capacities.
LEMMA WithinLimitsStep ==
    ASSUME TypeOK, WithinLimits, Effect
    PROVE  WithinLimits'
<1>1. CASE Leaves
  BY <1>1, MapsWithinLimits DEF Leaves, WithinLimits
<1>2. CASE Ends
  BY <1>2, MapsWithinLimits, EmptyWithinLimits, BoundsAssumption
     DEF Ends, WithinLimits, Snapshot
<1>3. CASE Accepts
  BY <1>3, MapsWithinLimits DEF Accepts, WithinLimits, Snapshot
<1>4. CASE Restart
  BY <1>4 DEF Restart, WithinLimits
<1>5. CASE Tick \/ UNCHANGED vars
  BY <1>5 DEF Tick, vars, WithinLimits
<1> QED  BY <1>1, <1>2, <1>3, <1>4, <1>5 DEF Effect

\* Where a file with both maps full is one that _load accepts, every file the
\* cache writes can be loaded.  _persist has no check of its own: the hypothesis
\* is what the constructor leaves to whoever chooses the capacities.
THEOREM FileCanBeLoaded ==
    ASSUME EntryBytes * (MaxEntries + MaxSequences) <= MaxStateBytes
    PROVE  Spec => []FileLoadable
<1>1. Init => WithinLimits
  BY EmptyWithinLimits, BoundsAssumption DEF Init, WithinLimits, Snapshot
<1>2. TypeOK /\ WithinLimits /\ [Next]_vars => WithinLimits'
  BY StepCases, WithinLimitsStep
<1>3. TypeOK /\ WithinLimits => FileLoadable
  <2> SUFFICES ASSUME TypeOK, WithinLimits PROVE FileLoadable
    OBVIOUS
  <2> DEFINE n == Cardinality(Known(file.entries)) + Cardinality(Known(file.sequences))
  <2>1. n \in Nat /\ n <= MaxEntries + MaxSequences
    BY KnownFinite, BoundsAssumption DEF TypeOK, WithinLimits
  <2>2. EntryBytes * n <= EntryBytes * (MaxEntries + MaxSequences)
    <3> DEFINE room == MaxEntries + MaxSequences - n
    <3>1. room \in Nat /\ MaxEntries + MaxSequences = n + room
      BY <2>1, BoundsAssumption
    <3> HIDE DEF n, room
    <3>2. EntryBytes * (n + room) = EntryBytes * n + EntryBytes * room
      BY <2>1, <3>1, BoundsAssumption
    <3>3. EntryBytes * room >= 0
      BY <3>1, BoundsAssumption
    <3>4. EntryBytes * n \in Int /\ EntryBytes * room \in Int
      BY <2>1, <3>1, BoundsAssumption
    <3> QED  BY <3>1, <3>2, <3>3, <3>4
  <2> QED  BY <2>1, <2>2, BoundsAssumption DEF FileLoadable, Loadable, SnapshotBytes, WithinLimits
<1> QED  BY <1>1, <1>2, <1>3, TypeCorrect, PTL DEF Spec

-----------------------------------------------------------------------------
(* What an authentication does                                              *)

\* What authentication reads of a message is in range.
LEMMA MessageRange ==
    ASSUME NEW m \in Messages
    PROVE  /\ KeyOf(m) \in Keys
           /\ ScopeOf(m) \in Scopes
           /\ Expiry(m) \in 0..MaxExpiry
           /\ m.sequence \in 0..MaxSequence
<1>1. IsMessage(m) /\ KeyOf(m) \in Keys /\ ScopeOf(m) \in Scopes /\ Expiry(m) <= MaxExpiry
  BY MessagesAssumption
<1>2. Expiry(m) \in Nat
  BY <1>1, PolicyAssumption DEF Expiry, IsMessage
<1> QED  BY <1>1, <1>2, BoundsAssumption DEF IsMessage

\* No message is fresh after the block through which the cache remembers it.
LEMMA FreshUntilExpiry ==
    ASSUME NEW m \in Messages, block \in Nat, Fresh(m)
    PROVE  block <= Expiry(m)
<1>1. IsMessage(m)
  BY MessagesAssumption
<1> QED  BY <1>1, PolicyAssumption DEF Fresh, Expiry, IsMessage

\* The authentication of m succeeds: its key was free and is taken, and the
\* number of evidence is above its scope's.
Admitted(m) ==
    /\ Accepts
    /\ Fresh(m)
    /\ RecordToken(KeyOf(m), Expiry(m))
    /\ entries[KeyOf(m)] < block
    /\ IF m.kind = "evidence"
       THEN RecordSequence(ScopeOf(m), m.sequence) /\ m.sequence > sequences[ScopeOf(m)]
       ELSE UNCHANGED last
    /\ accepts' = [accepts EXCEPT ![m] = @ + 1]

\* It does not succeed, or the process dies before it answers.
Turned == (Leaves \/ Ends) /\ UNCHANGED accepts

\* An authentication succeeds with both records, or is turned away.
LEMMA AuthenticateEffect ==
    ASSUME TypeOK, accepts \in [Messages -> Nat], NEW m \in Messages, Authenticate(m)
    PROVE  Turned \/ Admitted(m)
<1> DEFINE k == KeyOf(m)
           x == Expiry(m)
           s == ScopeOf(m)
           n == m.sequence
           purged == Purge(entries)
<1>1. k \in Keys /\ s \in Scopes /\ x \in 0..MaxExpiry /\ n \in 0..MaxSequence
  BY MessageRange
<1>2. accepts' = [accepts EXCEPT ![m] = IF reply' = "accepted" THEN @ + 1 ELSE @]
  BY DEF Authenticate
<1>3. reply' # "accepted" => UNCHANGED accepts
  BY <1>2
<1>4. up /\ Tokens(entries) /\ Tokens(purged) /\ Numbers(sequences)
  BY DEF Authenticate, Tokens, Numbers
<1>5. ASSUME NEW e, NEW q, Tokens(e), Numbers(q), Raise("error", e, q)
      PROVE  Turned
  BY <1>3, <1>4, <1>5 DEF Raise, Leaves, Replies, Turned
<1>6. ASSUME NEW e, NEW q, Tokens(e), Numbers(q), Raise("oserror", e, q)
      PROVE  Turned
  BY <1>3, <1>4, <1>6 DEF Raise, Leaves, Replies, Turned
<1>7. ASSUME NEW e, NEW q, Tokens(e), Numbers(q), Dies(Snapshot(e, q))
      PROVE  Turned
  BY <1>3, <1>4, <1>7 DEF Dies, Ends, Replies, Turned
<1>8. Refuse => Turned
  BY <1>4, <1>5 DEF Refuse
<1>9. CASE Fresh(m) /\ m.kind = "evidence" /\ AcceptOnceWithSequence(k, x, s, n)
  <2> DEFINE new == WithToken(purged, k, x)
             next == [sequences EXCEPT ![s] = n]
  <2>1. CASE /\ x >= block /\ Admits(purged, k) /\ AdmitsSequence(s, n)
             /\ Persist(new, next, entries, sequences,
                        RecordToken(k, x) /\ RecordSequence(s, n))
    <3>1. Tokens(new) /\ Numbers(next)
      BY <1>1, <2>1 DEF Tokens, Numbers
    <3>2. CASE Written(new, next) /\ RecordToken(k, x) /\ RecordSequence(s, n)
      <4>1. entries'[k] = x /\ entries[k] < block
        BY <1>1, <2>1, <3>2, PurgeKeeps DEF Written, WithToken, Admits, EntryMap
      <4>2. sequences'[s] = n /\ n > sequences[s]
        BY <1>1, <2>1, <3>2 DEF Written, AdmitsSequence, TypeOK, SequenceMap
      <4>3. Accepts
        BY <1>1, <1>4, <2>1, <3>1, <3>2, <4>1, <4>2
           DEF Written, Accepts, NotesToken, NotesNumber, Replies
      <4>4. accepts' = [accepts EXCEPT ![m] = @ + 1]
        BY <1>2, <3>2 DEF Written
      <4> QED  BY <1>9, <3>2, <4>1, <4>2, <4>3, <4>4 DEF Admitted
    <3> QED  BY <1>4, <1>5, <1>6, <1>7, <2>1, <3>1, <3>2 DEF Persist
  <2> QED  BY <1>8, <1>9, <2>1 DEF AcceptOnceWithSequence
<1>10. CASE Fresh(m) /\ m.kind # "evidence" /\ AcceptOnce(k, x)
  <2> DEFINE new == WithToken(purged, k, x)
  <2>1. CASE /\ x >= block /\ Admits(purged, k)
             /\ Persist(new, sequences, purged, sequences,
                        RecordToken(k, x) /\ UNCHANGED <<accepted, last>>)
    <3>1. Tokens(new)
      BY <1>1, <2>1 DEF Tokens
    <3>2. CASE Written(new, sequences) /\ RecordToken(k, x) /\ UNCHANGED <<accepted, last>>
      <4>1. entries'[k] = x /\ entries[k] < block
        BY <1>1, <2>1, <3>2, PurgeKeeps DEF Written, WithToken, Admits, EntryMap
      <4>2. Accepts
        BY <1>1, <1>4, <2>1, <3>1, <3>2, <4>1
           DEF Written, Accepts, NotesToken, NotesNumber, Replies
      <4>3. accepts' = [accepts EXCEPT ![m] = @ + 1]
        BY <1>2, <3>2 DEF Written
      <4> QED  BY <1>10, <3>2, <4>1, <4>2, <4>3 DEF Admitted
    <3> QED  BY <1>4, <1>5, <1>6, <1>7, <2>1, <3>1, <3>2 DEF Persist
  <2>2. CASE Raise("error", purged, sequences)
    BY <1>4, <1>5, <2>2
  <2> QED  BY <1>8, <1>10, <2>1, <2>2 DEF AcceptOnce
<1> QED  BY <1>8, <1>9, <1>10 DEF Authenticate

\* Every step has one of the cache's effects, and is an authentication that
\* succeeds or leaves the history of messages alone.
LEMMA AuthStepCases ==
    ASSUME TypeOK, accepts \in [Messages -> Nat], [AuthNext]_authVars
    PROVE  /\ Effect
           /\ \/ \E m \in Messages : Admitted(m)
              \/ Tick /\ UNCHANGED accepts
              \/ UNCHANGED <<block, history, accepts>>
<1>1. CASE \E m \in Messages : Authenticate(m)
  BY <1>1, AuthenticateEffect DEF Effect, Turned, Admitted, Leaves, Ends
<1>2. CASE Crash /\ UNCHANGED accepts
  BY <1>2 DEF Crash, Dies, Ends, Replies, Effect
<1>3. CASE Restart /\ UNCHANGED accepts
  BY <1>3 DEF Restart, Effect
<1>4. CASE Tick /\ UNCHANGED accepts
  BY <1>4 DEF Effect
<1>5. CASE UNCHANGED authVars
  BY <1>5 DEF authVars, vars, Effect
<1> QED  BY <1>1, <1>2, <1>3, <1>4, <1>5 DEF AuthNext

-----------------------------------------------------------------------------
(* The inductive invariant                                                  *)

\* A message was authenticated at most once, and one that was is held under its
\* key with its own expiry, until it is no longer fresh.
Counted ==
    \A m \in Messages :
       /\ accepts[m] <= 1
       /\ accepts[m] = 1 /\ block <= Expiry(m) =>
             grants[KeyOf(m)] = 1 /\ heldUntil[KeyOf(m)] = Expiry(m)

\* The last number of a scope is at least that of any evidence accepted in it.
Passed ==
    \A m \in Messages :
       m.kind = "evidence" /\ accepts[m] > 0 => last[ScopeOf(m)] >= m.sequence

AuthInv ==
    /\ TypeOK
    /\ Covers
    /\ Remembered
    /\ accepts \in [Messages -> Nat]
    /\ Counted
    /\ Passed

\* The functions as functions into the integers, for the steps with arithmetic.
LEMMA AuthTypes ==
    ASSUME AuthInv
    PROVE  /\ entries \in [Keys -> Int] /\ file.entries \in [Keys -> Int]
           /\ block \in Nat /\ sequences \in [Scopes -> Int]
           /\ file.sequences \in [Scopes -> Int]
           /\ heldUntil \in [Keys -> Int] /\ last \in [Scopes -> Int]
           /\ grants \in [Keys -> Nat] /\ accepts \in [Messages -> Nat]
  BY BoundsAssumption DEF AuthInv, TypeOK, EntryMap, SequenceMap, Absent

\* A token whose key is free is not held: its entry would be in the file and,
\* with the process up, in the map.
LEMMA FreeKeyNotHeld ==
    ASSUME AuthInv, up, NEW k \in Keys, entries[k] < block
    PROVE  grants[k] = 0
<1>1. grants[k] # 1
  BY AuthTypes DEF AuthInv, Remembered, Covers
<1> QED  BY <1>1, AuthTypes DEF AuthInv, Remembered

\* A message whose authentication succeeds had not been authenticated.
LEMMA AdmittedIsNew ==
    ASSUME AuthInv, NEW m \in Messages, Admitted(m)
    PROVE  accepts[m] = 0
<1>1. KeyOf(m) \in Keys /\ up /\ block <= Expiry(m)
  BY MessageRange, FreshUntilExpiry, AuthTypes DEF Admitted, Accepts
<1>2. grants[KeyOf(m)] = 0
  BY <1>1, FreeKeyNotHeld DEF Admitted
<1> QED  BY <1>1, <1>2, AuthTypes DEF AuthInv, Counted

\* Evidence whose authentication succeeds is above the last number of its scope.
LEMMA AdmittedIsNext ==
    ASSUME AuthInv, NEW m \in Messages, Admitted(m), m.kind = "evidence"
    PROVE  m.sequence > last[ScopeOf(m)]
<1>1. ScopeOf(m) \in Scopes /\ m.sequence \in Int
  BY MessageRange, BoundsAssumption
<1>2. m.sequence > sequences[ScopeOf(m)] /\ up
  BY DEF Admitted, Accepts
<1>3. sequences[ScopeOf(m)] >= file.sequences[ScopeOf(m)]
  BY <1>1, <1>2 DEF AuthInv, Covers
<1>4. last[ScopeOf(m)] <= file.sequences[ScopeOf(m)]
  BY <1>1 DEF AuthInv, Remembered
<1> QED  BY <1>1, <1>2, <1>3, <1>4, AuthTypes

\* A message that is admitted was not held, so it was not admitted while fresh.
LEMMA CountedStep ==
    ASSUME AuthInv, [AuthNext]_authVars
    PROVE  Counted'
<1> SUFFICES ASSUME NEW n \in Messages
             PROVE  /\ accepts'[n] <= 1
                    /\ accepts'[n] = 1 /\ block' <= Expiry(n) =>
                          grants'[KeyOf(n)] = 1 /\ heldUntil'[KeyOf(n)] = Expiry(n)
  BY DEF Counted, Expiry, HasWindow, KeyOf
<1>1. KeyOf(n) \in Keys /\ Expiry(n) \in Int
  BY MessageRange, BoundsAssumption
<1>2. ASSUME NEW m \in Messages, Admitted(m)
      PROVE  /\ accepts'[n] <= 1
             /\ accepts'[n] = 1 /\ block' <= Expiry(n) =>
                   grants'[KeyOf(n)] = 1 /\ heldUntil'[KeyOf(n)] = Expiry(n)
  <2>1. /\ KeyOf(m) \in Keys /\ block' = block /\ up
        /\ RecordToken(KeyOf(m), Expiry(m)) /\ entries[KeyOf(m)] < block
        /\ accepts' = [accepts EXCEPT ![m] = @ + 1]
    BY <1>2, MessageRange DEF Admitted, Accepts
  <2>2. grants[KeyOf(m)] = 0
    BY <2>1, FreeKeyNotHeld
  <2>3. CASE n = m
    BY <1>1, <1>2, <2>1, <2>2, <2>3, AdmittedIsNew, AuthTypes DEF RecordToken
  <2>4. CASE n # m
    <3>1. accepts'[n] = accepts[n]
      BY <2>1, <2>4, AuthTypes
    <3>2. CASE KeyOf(n) = KeyOf(m)
      BY <1>1, <2>1, <2>2, <3>1, <3>2, AuthTypes DEF AuthInv, Counted
    <3>3. CASE KeyOf(n) # KeyOf(m)
      <4>1. grants'[KeyOf(n)] = grants[KeyOf(n)] /\ heldUntil'[KeyOf(n)] = heldUntil[KeyOf(n)]
        BY <1>1, <2>1, <3>3, AuthTypes DEF RecordToken
      <4> QED  BY <2>1, <3>1, <4>1 DEF AuthInv, Counted
    <3> QED  BY <3>2, <3>3
  <2> QED  BY <2>3, <2>4
<1>3. CASE Tick /\ UNCHANGED accepts
  BY <1>1, <1>3, AuthTypes DEF AuthInv, Counted, Tick
<1>4. CASE UNCHANGED <<block, history, accepts>>
  BY <1>4 DEF AuthInv, Counted, history
<1> QED  BY <1>2, <1>3, <1>4, AuthStepCases DEF AuthInv

\* Evidence that is admitted has moved the last number of its scope.
LEMMA PassedStep ==
    ASSUME AuthInv, [AuthNext]_authVars
    PROVE  Passed'
<1> SUFFICES ASSUME NEW n \in Messages, n.kind = "evidence", accepts'[n] > 0
             PROVE  last'[ScopeOf(n)] >= n.sequence
  BY DEF Passed, ScopeOf
<1>1. ScopeOf(n) \in Scopes /\ n.sequence \in Int
  BY MessageRange, BoundsAssumption
<1>2. ASSUME NEW m \in Messages, Admitted(m)
      PROVE  last'[ScopeOf(n)] >= n.sequence
  <2>1. /\ ScopeOf(m) \in Scopes /\ m.sequence \in Int
        /\ accepts' = [accepts EXCEPT ![m] = @ + 1]
    BY <1>2, MessageRange, BoundsAssumption DEF Admitted
  <2>2. n = m \/ accepts[n] > 0
    BY <2>1, AuthTypes
  <2>3. CASE m.kind = "evidence"
    <3>1. last' = [last EXCEPT ![ScopeOf(m)] = m.sequence]
      BY <1>2, <2>3 DEF Admitted, RecordSequence
    <3>2. m.sequence > last[ScopeOf(m)]
      BY <1>2, <2>3, AdmittedIsNext
    <3> QED  BY <1>1, <2>1, <2>2, <3>1, <3>2, AuthTypes DEF AuthInv, Passed
  <2>4. CASE m.kind # "evidence"
    BY <1>1, <1>2, <2>2, <2>4 DEF Admitted, AuthInv, Passed
  <2> QED  BY <2>3, <2>4
<1>3. CASE UNCHANGED <<last, accepts>>
  BY <1>3 DEF AuthInv, Passed
<1> QED  BY <1>2, <1>3, AuthStepCases DEF AuthInv, Tick, history

\* Every step of the authenticator keeps the invariant.
LEMMA AuthInvStep ==
    ASSUME AuthInv, [AuthNext]_authVars
    PROVE  AuthInv'
<1>1. Effect
  BY AuthStepCases DEF AuthInv
<1>2. TypeOK' /\ Covers' /\ Remembered'
  BY <1>1, TypeStep, CoversStep, RememberedStep DEF AuthInv
<1>3. accepts' \in [Messages -> Nat]
  BY AuthStepCases DEF AuthInv, Admitted
<1> QED  BY <1>2, <1>3, CountedStep, PassedStep DEF AuthInv

\* The invariant holds in every state.
LEMMA AuthInvariant == AuthSpec => []AuthInv
<1>1. AuthInit => AuthInv
  <2> SUFFICES ASSUME AuthInit PROVE AuthInv
    OBVIOUS
  <2>1. TypeOK
    BY EmptyMaps, BoundsAssumption
       DEF AuthInit, Init, TypeOK, Replies, Snapshot, EntryMap, SequenceMap
  <2>2. Covers /\ Remembered
    BY DEF AuthInit, Init, Covers, Remembered, Snapshot, NoEntries, NoSequences, Absent
  <2>3. accepts \in [Messages -> Nat] /\ Counted /\ Passed
    BY DEF AuthInit, Counted, Passed
  <2> QED  BY <2>1, <2>2, <2>3 DEF AuthInv
<1>2. AuthInv /\ [AuthNext]_authVars => AuthInv'
  BY AuthInvStep
<1> QED  BY <1>1, <1>2, PTL DEF AuthSpec

\* A message is authenticated at most once, ever: over repeated and reordered
\* delivery, purges, failed writes, crashes and restarts, the block at which
\* validate_freshness starts to refuse it comes no later than the one at which
\* the cache forgets it.
THEOREM MessagesOnce == AuthSpec => []MessageOnce
<1>1. AuthInv => MessageOnce
  BY DEF AuthInv, Counted, MessageOnce
<1> QED  BY <1>1, AuthInvariant, PTL

\* Evidence of one miner for one lease is accepted in the order of its numbers.
THEOREM EvidenceIsInOrder == AuthSpec => EvidenceInOrder
<1>1. ASSUME AuthInv, [AuthNext]_authVars, NEW m \in Messages, NEW n \in Messages,
             m.kind = "evidence", n.kind = "evidence", ScopeOf(m) = ScopeOf(n),
             accepts[m] > 0, accepts'[n] > accepts[n]
      PROVE  n.sequence > m.sequence
  <2>1. PICK a \in Messages : Admitted(a)
    BY <1>1, AuthTypes, AuthStepCases DEF AuthInv
  <2>2. a = n
    BY <1>1, <2>1, AuthTypes DEF Admitted
  <2>3. n.sequence > last[ScopeOf(n)] /\ last[ScopeOf(m)] >= m.sequence
    BY <1>1, <2>1, <2>2, AdmittedIsNext DEF AuthInv, Passed
  <2>4. /\ n.sequence \in Int /\ m.sequence \in Int
        /\ ScopeOf(n) \in Scopes /\ last \in [Scopes -> Int]
    BY <1>1, MessageRange, AuthTypes, BoundsAssumption
  <2> QED  BY <1>1, <2>3, <2>4
<1>2. AuthInv /\ [AuthNext]_authVars =>
        [\A m, n \in Messages :
            /\ m.kind = "evidence" /\ n.kind = "evidence"
            /\ ScopeOf(m) = ScopeOf(n)
            /\ accepts[m] > 0
            /\ accepts'[n] > accepts[n]
            => n.sequence > m.sequence]_authVars
  BY <1>1
<1> QED  BY <1>2, AuthInvariant, PTL DEF AuthSpec, EvidenceInOrder

-----------------------------------------------------------------------------
(* Evidence is filed whole                                                  *)

\* Tokens of different kinds, and evidence of different leases, numbers or
\* blocks, have different keys.
LEMMA KeysOfEvidence ==
    ASSUME NEW m \in Messages, NEW n \in Messages,
           m.kind = "evidence", KeyOf(m) = KeyOf(n)
    PROVE  /\ n.kind = "evidence"
           /\ ScopeOf(m) = ScopeOf(n) /\ m.sequence = n.sequence /\ Expiry(m) = Expiry(n)
<1>1. n.kind = "evidence"
  BY DEF KeyOf
<1>2. ScopeOf(m) = ScopeOf(n) /\ m.sequence = n.sequence /\ m.observed = n.observed
  BY DigestAssumption
<1> QED  BY <1>1, <1>2 DEF Expiry, HasWindow

\* A purge drops only evidence that is no longer needed.
LEMMA PurgedWhole ==
    ASSUME TypeOK, Whole(entries, sequences, block)
    PROVE  Whole(Purge(entries), sequences, block)
<1>1. ASSUME NEW m \in Messages
      PROVE  /\ Purge(entries)[KeyOf(m)] # Absent => entries[KeyOf(m)] # Absent
             /\ block <= Expiry(m) /\ entries[KeyOf(m)] = Expiry(m)
                  => Purge(entries)[KeyOf(m)] = Expiry(m)
  <2>1. KeyOf(m) \in Keys /\ Expiry(m) \in Int
    BY MessageRange, BoundsAssumption
  <2>2. entries \in [Keys -> Int] /\ block \in Int
    BY BoundsAssumption DEF TypeOK, EntryMap, Absent
  <2> QED  BY <2>1, <2>2 DEF Purge, Absent
<1> QED  BY <1>1 DEF Whole

\* The token of any other message is neither evidence nor in its way.
LEMMA OtherTokenWhole ==
    ASSUME NEW e \in EntryMap, NEW q, NEW b, Whole(e, q, b),
           NEW a \in Messages, a.kind # "evidence"
    PROVE  Whole(WithToken(e, KeyOf(a), Expiry(a)), q, b)
<1>1. ASSUME NEW m \in Messages, m.kind = "evidence"
      PROVE  WithToken(e, KeyOf(a), Expiry(a))[KeyOf(m)] = e[KeyOf(m)]
  <2>1. KeyOf(m) # KeyOf(a) /\ KeyOf(m) \in Keys
    BY <1>1, MessageRange, KeysOfEvidence
  <2> QED  BY <2>1 DEF WithToken, EntryMap
<1> QED  BY <1>1 DEF Whole

\* The token of new evidence and its number, which is above its scope's.
LEMMA EvidenceWhole ==
    ASSUME NEW e \in EntryMap, NEW q \in SequenceMap, NEW b, Whole(e, q, b),
           NEW a \in Messages, a.kind = "evidence",
           e[KeyOf(a)] = Absent, a.sequence > q[ScopeOf(a)]
    PROVE  Whole(WithToken(e, KeyOf(a), Expiry(a)), [q EXCEPT ![ScopeOf(a)] = a.sequence], b)
<1> DEFINE e2 == WithToken(e, KeyOf(a), Expiry(a))
           q2 == [q EXCEPT ![ScopeOf(a)] = a.sequence]
<1>1. /\ KeyOf(a) \in Keys /\ ScopeOf(a) \in Scopes /\ a.sequence \in Int
      /\ Expiry(a) \in Nat
  BY MessageRange, BoundsAssumption
<1>2. q \in [Scopes -> Int] /\ e \in [Keys -> Int] /\ DOMAIN q2 = Scopes /\ DOMAIN q = Scopes
  BY BoundsAssumption DEF SequenceMap, EntryMap, Absent
<1>3. e2[KeyOf(a)] = Expiry(a) /\ q2[ScopeOf(a)] = a.sequence
  BY <1>1, <1>2 DEF WithToken
<1>4. ASSUME NEW k \in Keys, k # KeyOf(a) PROVE e2[k] = e[k]
  BY <1>2, <1>4 DEF WithToken
<1>5. ASSUME NEW s \in Scopes PROVE q2[s] >= q[s] /\ (s # ScopeOf(a) => q2[s] = q[s])
  BY <1>1, <1>2
<1>6. ASSUME NEW m \in Messages, m.kind = "evidence", e2[KeyOf(m)] # Absent
      PROVE  q2[ScopeOf(m)] >= m.sequence
  <2>1. KeyOf(m) \in Keys /\ ScopeOf(m) \in Scopes /\ m.sequence \in Int
    BY MessageRange, BoundsAssumption
  <2>2. CASE KeyOf(m) = KeyOf(a)
    <3>1. ScopeOf(m) = ScopeOf(a) /\ m.sequence = a.sequence
      BY <1>6, <2>2, KeysOfEvidence
    <3> QED  BY <1>1, <1>3, <3>1
  <2>3. CASE KeyOf(m) # KeyOf(a)
    <3>1. q[ScopeOf(m)] >= m.sequence
      BY <1>4, <1>6, <2>1, <2>3 DEF Whole
    <3>2. q2[ScopeOf(m)] >= q[ScopeOf(m)] /\ q2[ScopeOf(m)] \in Int
      BY <1>1, <1>2, <1>5, <2>1
    <3> QED  BY <1>2, <2>1, <3>1, <3>2
  <2> QED  BY <2>2, <2>3
<1>7. ASSUME NEW s \in Known(q2)
      PROVE  \E m \in Messages : /\ m.kind = "evidence" /\ ScopeOf(m) = s /\ m.sequence = q2[s]
                                 /\ b <= Expiry(m) => e2[KeyOf(m)] = Expiry(m)
  <2>1. s \in Scopes /\ q2[s] # Absent
    BY <1>2, <1>7 DEF Known
  <2>2. CASE s = ScopeOf(a)
    BY <1>3, <2>2
  <2>3. CASE s # ScopeOf(a)
    <3>1. q2[s] = q[s] /\ s \in Known(q)
      BY <1>2, <1>5, <2>1, <2>3 DEF Known
    <3>2. PICK m \in Messages : /\ m.kind = "evidence" /\ ScopeOf(m) = s /\ m.sequence = q[s]
                                /\ b <= Expiry(m) => e[KeyOf(m)] = Expiry(m)
      BY <3>1 DEF Whole
    <3>3. KeyOf(m) # KeyOf(a) /\ KeyOf(m) \in Keys
      BY <2>3, <3>2, MessageRange, KeysOfEvidence
    <3> QED  BY <1>4, <3>1, <3>2, <3>3
  <2> QED  BY <2>2, <2>3
<1> HIDE DEF e2, q2
<1>8. Whole(e2, q2, b)
  BY <1>6, <1>7 DEF Whole
<1> QED  BY <1>8 DEF e2, q2

\* The maps in memory and the maps in the file.
BothWhole ==
    /\ Whole(entries, sequences, block)
    /\ Whole(file.entries, file.sequences, block)

\* Empty maps hold nothing by halves.
LEMMA EmptyWhole == ASSUME NEW b PROVE Whole(NoEntries, NoSequences, b)
<1>1. \A m \in Messages : NoEntries[KeyOf(m)] = Absent
  BY MessageRange DEF NoEntries
<1>2. Known(NoSequences) = {}
  BY DEF Known, NoSequences
<1> QED  BY <1>1, <1>2 DEF Whole

\* Wherever a call ends, it leaves whole maps if the ones it writes and the ones
\* it goes back to are.
LEMMA EndsWhole ==
    ASSUME BothWhole, NEW e, NEW q, Whole(e, q, block),
           \/ \E r : Raise(r, e, q)
           \/ Dies(Snapshot(e, q))
           \/ Written(e, q)
    PROVE  BothWhole'
<1>1. ASSUME NEW r, Raise(r, e, q) PROVE BothWhole'
  BY <1>1 DEF Raise, BothWhole
<1>2. CASE Dies(Snapshot(e, q))
  <2>1. /\ file'.entries = e /\ file'.sequences = q /\ block' = block
        /\ entries' = NoEntries /\ sequences' = NoSequences
    BY <1>2 DEF Dies, Snapshot
  <2> QED  BY <2>1, EmptyWhole DEF BothWhole
<1>3. CASE Written(e, q)
  BY <1>3 DEF Written, Snapshot, BothWhole
<1> QED  BY <1>1, <1>2, <1>3

\* An authentication.
LEMMA AuthenticateWhole ==
    ASSUME TypeOK, BothWhole, NEW m \in Messages, Authenticate(m)
    PROVE  BothWhole'
<1> DEFINE k == KeyOf(m)
           x == Expiry(m)
           s == ScopeOf(m)
           n == m.sequence
           purged == Purge(entries)
           new == WithToken(purged, k, x)
           next == [sequences EXCEPT ![s] = n]
<1>1. Whole(entries, sequences, block) /\ Whole(purged, sequences, block)
  BY PurgedWhole DEF BothWhole
<1>2. purged \in EntryMap /\ sequences \in SequenceMap
  BY PurgeKeeps DEF TypeOK
<1>3. Refuse => BothWhole'
  BY <1>1, EndsWhole DEF Refuse
<1>4. CASE m.kind = "evidence" /\ AcceptOnceWithSequence(k, x, s, n)
  <2>1. CASE /\ Admits(purged, k) /\ AdmitsSequence(s, n)
             /\ Persist(new, next, entries, sequences, RecordToken(k, x) /\ RecordSequence(s, n))
    <3>1. Whole(new, next, block)
      BY <1>1, <1>2, <1>4, <2>1, EvidenceWhole DEF Admits, AdmitsSequence
    <3> HIDE DEF new, next
    <3> QED  BY <1>1, <2>1, <3>1, EndsWhole DEF Persist
  <2> QED  BY <1>3, <1>4, <2>1 DEF AcceptOnceWithSequence
<1>5. CASE m.kind # "evidence" /\ AcceptOnce(k, x)
  <2>1. Whole(new, sequences, block)
    BY <1>1, <1>2, <1>5, OtherTokenWhole
  <2>2. CASE Persist(new, sequences, purged, sequences,
                     RecordToken(k, x) /\ UNCHANGED <<accepted, last>>)
    <3> HIDE DEF new, purged
    <3> QED  BY <1>1, <2>1, <2>2, EndsWhole DEF Persist
  <2>3. CASE Raise("error", purged, sequences)
    BY <1>1, <2>3, EndsWhole
  <2> QED  BY <1>3, <1>5, <2>2, <2>3 DEF AcceptOnce
<1> QED  BY <1>3, <1>4, <1>5 DEF Authenticate

\* Every step keeps both pairs of maps whole.
LEMMA WholeStep ==
    ASSUME TypeOK, BothWhole, [AuthNext]_authVars
    PROVE  BothWhole'
<1>1. CASE Crash
  <2>1. /\ file' = file /\ block' = block
        /\ entries' = NoEntries /\ sequences' = NoSequences
    BY <1>1 DEF Crash, Dies
  <2> QED  BY <2>1, EmptyWhole DEF BothWhole
<1>2. CASE Restart
  BY <1>2 DEF Restart, BothWhole
<1>3. CASE Tick
  <2>1. ASSUME NEW e, NEW q, Whole(e, q, block) PROVE Whole(e, q, block')
    <3>1. \A m \in Messages : block' <= Expiry(m) => block <= Expiry(m)
      BY <1>3, MessageRange, BoundsAssumption DEF Tick, TypeOK
    <3> QED  BY <2>1, <3>1 DEF Whole
  <2> QED  BY <1>3, <2>1 DEF Tick, BothWhole
<1>4. CASE UNCHANGED authVars
  BY <1>4 DEF authVars, vars, BothWhole
<1> QED  BY <1>1, <1>2, <1>3, <1>4, AuthenticateWhole DEF AuthNext

\* authenticate succeeds or fails as a whole, on disk as well: for any messages,
\* limits and orders of delivery, over failed writes, crashes and restarts, the file
\* never has the token of evidence without its number, or a number without the
\* evidence that moved its scope there.
THEOREM EvidenceIsFiledWhole == AuthSpec => []EvidenceFiledWhole
<1>1. AuthInit => BothWhole
  BY EmptyWhole DEF AuthInit, Init, Snapshot, BothWhole
<1>2. TypeOK /\ BothWhole /\ [AuthNext]_authVars => BothWhole'
  BY WholeStep
<1>3. AuthInv => TypeOK
  BY DEF AuthInv
<1>4. BothWhole => EvidenceFiledWhole
  BY DEF BothWhole, EvidenceFiledWhole
<1> QED  BY <1>1, <1>2, <1>3, <1>4, AuthInvariant, PTL DEF AuthSpec

=============================================================================
